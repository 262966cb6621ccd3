SPECIFICATION Spec
CONSTANTS
    Jobs <- Scheduler
    Size = 2
    PageSize = 1
    MaxPages = 4
    MaxClock = 4
    MaxLag = 0
    Mishaps = {"failure"}
CHECK_DEADLOCK FALSE
INVARIANTS RunningIsAtWork
