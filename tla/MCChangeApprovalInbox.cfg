SPECIFICATION Spec
CONSTANTS
    h1 = h1
    h2 = h2
    Handlers <- OneHandler
    Orders <- TwoSteps
    Verdicts = {"APPROVED", "REJECTED"}
    MaxCalls = 1
    MaxAttempts = 2
    MaxLate = 0
CHECK_DEADLOCK FALSE
INVARIANTS InboxShowsAwaitedCR
