SPECIFICATION FairSpec
CONSTANTS
    j1 = j1
    j2 = j2
    Jobs <- OneJob
    LastKey = 4
    Locked <- MiddleLocked
    PageSize = 1
    MaxReceives = 3
    MaxUploads = 1
    MaxFailures = 4
CHECK_DEADLOCK FALSE
INVARIANTS TypeOK CompletedIsEmptied FailuresCountOnce StopsWithinAPage
PROPERTIES CompletedStays JobsSettle
