SPECIFICATION Spec
CONSTANTS
    s1 = s1
    s2 = s2
    r1 = r1
    a1 = a1
    NoSub = NoSub
    NoEvent = NoEvent
    Subs <- TwoSubs
    Trial <- s1
    Regions <- OneRegion
    Activators <- OneActivator
    Others <- Everybody
    Moves <- PaymentMoves
    TrialEnd = 1
    TrialGrace = 1
    PaidGrace = 2
    MaxTime = 3
    MaxReceives = 1
    MaxFailures = 1
    MaxMoves = 1
    MaxBusy = 2
CHECK_DEADLOCK FALSE
INVARIANTS TypeOK AcknowledgedIsKept UnpaidGraceIsShort
PROPERTIES DatedOnce
