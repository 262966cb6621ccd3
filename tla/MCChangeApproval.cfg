SPECIFICATION Spec
CONSTANTS
    h1 = h1
    h2 = h2
    Handlers <- TwoHandlers
    Orders <- TwoSteps
    Verdicts = {"APPROVED", "REJECTED", "DELEGATED", "PENDING"}
    MaxCalls = 1
    MaxAttempts = 2
    MaxLate = 0
CHECK_DEADLOCK FALSE
SYMMETRY HandlerSymmetry
INVARIANTS ConsentPastGate SettledStatus
PROPERTIES GateSpec
