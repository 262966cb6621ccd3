SPECIFICATION FairSpec
CONSTANTS
    h1 = h1
    h2 = h2
    Handlers <- OneHandler
    Orders <- TwoSteps
    Verdicts = {"APPROVED", "REJECTED", "PENDING"}
    MaxCalls = 2
    MaxAttempts = 2
    MaxLate = 1
CHECK_DEADLOCK FALSE
INVARIANTS AskedStepIsAwaited NoticesFollowConsent AppliedWithConsent DecidedInOrder
PROPERTIES RunCloses ApprovedIsApplied CancelBeforeDecisionWins
