SPECIFICATION Spec
CONSTANTS
    m1 = m1
    m2 = m2
    x = x
    y = y
    t1 = t1
    t2 = t2
    Models <- TwoModels
    Names <- TwoNames
    Tasks <- TwoTasks
    MaxVersions = 2
    MaxGiven = 2
    None = None
SYMMETRY Symmetry
INVARIANTS CounterCovers DeletedIsClosed ReadyHasItsFiles
PROPERTIES SettledStays
CHECK_DEADLOCK FALSE
