SPECIFICATION ListSpec
CONSTANTS
    Items <- MCItems
    Texts <- MCTexts
    Ready <- MCReady
    MaxSent <- MCMaxSent
    MaxTimers = 1
    MaxWork = 1
    Stored <- MCStored
    Ordered <- MCOrdered
    None = None
CHECK_DEADLOCK FALSE
INVARIANTS
    RowsAnswerThePager
    FormIsApplied
    OpenDialogHasRow
PROPERTY
    DialogKeepsItsTargets
