SPECIFICATION Spec
CONSTANTS
    a = a
    b = b
    c = c
    i1 = i1
    i2 = i2
    i3 = i3
    r1 = r1
    r2 = r2
    r3 = r3
    Users <- TwoUsers
    Invites <- ThreeInvites
    Reqs <- ThreeReqs
    Roles <- OwnerAdmin
    MaxPending = 2
    Drifted = FALSE
    Recounts = FALSE
    NoUser = NoUser
    NoInvite = NoInvite
CHECK_DEADLOCK FALSE
SYMMETRY Symmetry
INVARIANTS
    TypeOK
    OwnerCountExact
    SweptInvitationsAreDead
    TwoLinksTakeAnEarlyList
PROPERTIES
    SeatsAreKept
    InvitationSettlesOnce
