SPECIFICATION Spec
CONSTANTS
    a = a  b = b
    k1 = k1  k2 = k2  k3 = k3
    r1 = r1  r2 = r2  r3 = r3
    n1 = n1  n2 = n2  n3 = n3
    Nobody = Nobody  NoKey = NoKey  NoName = NoName
    Members <- MCMembers
    Keys <- MCKeys
    Reqs <- MCReqs
    Names <- MCNames
    NameOf <- OwnNames
    Roles <- OwnerMember
    Grants <- Service
    Faults <- AllFaults
SYMMETRY SlotAndKeySymmetry
CHECK_DEADLOCK FALSE
INVARIANTS
    TypeOK
    LiveRowWithinRole
    OrphansAreVisible
    OneReplacement
