SPECIFICATION ListSpec
CONSTANTS
    Items <- MCItems
    Texts <- MCTexts
    Ready <- MCReady
    MaxSent <- MCResizeSent
    MaxTimers = 1
    MaxWork = 1
    Stored <- MCStored
    Ordered <- MCOrdered
    None = None
CHECK_DEADLOCK FALSE
INVARIANT
    PageSizeKeepsFilters
