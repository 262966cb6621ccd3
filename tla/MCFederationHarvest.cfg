SPECIFICATION FairSpec
CONSTANTS
    Jobs <- Scheduler
    Size = 2
    PageSize = 1
    MaxPages = 2
    MaxClock = 4
    MaxLag = 1
    Mishaps = {"failure", "crash", "removal", "schema_edit"}
CHECK_DEADLOCK FALSE
PROPERTIES FullSyncRepairs EmbeddingsFollow CaughtUp HarvestEnds
