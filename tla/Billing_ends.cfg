SPECIFICATION FairSpec
CONSTANTS
    s1 = s1
    s2 = s2
    r1 = r1
    a1 = a1
    NoSub = NoSub
    NoEvent = NoEvent
    Subs <- TwoSubs
    Trial <- s1
    Regions <- OneRegion
    Activators <- NoActivators
    Others <- NotUsage
    Moves <- EndingMoves
    TrialEnd = 1
    TrialGrace = 1
    PaidGrace = 1
    MaxTime = 3
    MaxReceives = 2
    MaxFailures = 2
    MaxMoves = 2
    MaxBusy = 3
CHECK_DEADLOCK FALSE
PROPERTIES HandsOff QueueDrains GraceEnds
