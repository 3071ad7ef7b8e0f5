SPECIFICATION FairSpec
CONSTANTS
    w1 = w1
    w2 = w2
    Workers <- OneWorker
    LastKey = 2
    LastVersion = 3
    Chunks <- ThreeContents
    MaxChunks = 2
    PageSize = 1
    Fresh = TRUE
    Deletes = TRUE
    MaxPuts = 2
    MaxToggles = 1
    MaxFaults = 1
CHECK_DEADLOCK FALSE
INVARIANTS TypeOK SkippedIsIndexed OnlyTheGoneAreRemoved NoRowOutlivesTeardown
PROPERTIES CatchesUp
