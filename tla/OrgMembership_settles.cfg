SPECIFICATION FairSpec
CONSTANTS
    a = a
    b = b
    c = c
    i1 = i1
    i2 = i2
    i3 = i3
    r1 = r1
    r2 = r2
    r3 = r3
    Users <- TwoUsers
    Invites <- NoInvites
    Reqs <- TwoReqs
    Roles <- OwnerAdmin
    MaxPending = 1
    Drifted = TRUE
    Recounts = TRUE
    NoUser = NoUser
    NoInvite = NoInvite
CHECK_DEADLOCK FALSE
PROPERTIES CounterSettles RepairWritesTheTruth
