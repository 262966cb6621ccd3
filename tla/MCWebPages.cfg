SPECIFICATION PageSpec
CONSTANTS
    Catalog <- PanelCatalog
    Keys = {1, 2}
    MaxActs = 3
    MaxJobs = 2
    None = None
    Nodes = {1, 2, 3}
    MaxClicks = 4
    MaxOthers = 1
    Root = 0
INVARIANTS
    ShownIsCurrent
    SelectionWins
    ActsOnSelected
    OneAtATime
    ForestUnlessCrossed
PROPERTIES
    MoveMovesWhatIsElsewhere
CHECK_DEADLOCK FALSE
