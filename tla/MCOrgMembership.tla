--------------------------- MODULE MCOrgMembership ---------------------------
(* Small instances of OrgMembership: three people and three requests.      *)
EXTENDS OrgMembership, TLC

CONSTANTS a, b, c, i1, i2, i3, r1, r2, r3

TwoUsers == {a, b}
ThreeUsers == {a, b, c}
NoInvites == {}
TwoInvites == {i1, i2}
ThreeInvites == {i1, i2, i3}
TwoReqs == {r1, r2}
ThreeReqs == {r1, r2, r3}
OwnerAdmin == {"owner", "admin"}
OwnerMember == {"owner", "member"}

\* People, invitations and slots are interchangeable.
Symmetry ==
    {p @@ q @@ s : p \in Permutations(Users), q \in Permutations(Invites),
                   s \in Permutations(Reqs)}
=============================================================================
