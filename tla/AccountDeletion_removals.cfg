SPECIFICATION Spec
CONSTANTS
    o1 = o1
    o2 = o2
    o3 = o3
    o4 = o4
    o5 = o5
    s1 = s1
    s2 = s2
    p1 = p1
    p2 = p2
    r1 = r1
    r2 = r2
    NoOrg = NoOrg
    NoAccount = NoAccount
    NoSub = NoSub
    Orgs <- FourOrgs
    Founded <- TwoOrgs
    Subs <- OneSub
    Lives = 1
    Legacy <- NoLegacy
    Passes <- OnePass
    Reqs <- OneReq
    Kinds <- CreateRemove
    MaxDeletions = 2
    MaxFailures = 0
    Blocked = 0
SYMMETRY Symmetry
CHECK_DEADLOCK FALSE
INVARIANTS DoneIsEmpty
