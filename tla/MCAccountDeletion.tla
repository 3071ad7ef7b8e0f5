-------------------------- MODULE MCAccountDeletion --------------------------
(* Small instances of AccountDeletion.                                     *)
EXTENDS AccountDeletion, TLC

CONSTANTS o1, o2, o3, o4, o5, s1, s2, p1, p2, r1, r2

TwoOrgs == {o1, o2}
ThreeOrgs == {o1, o2, o3}
FourOrgs == {o1, o2, o3, o4}
FiveOrgs == {o1, o2, o3, o4, o5}
OneSub == {s1}
OnePass == {p1}
TwoPasses == {p1, p2}
OneReq == {r1}
TwoReqs == {r1, r2}
NoLegacy == {}
EveryLegacy == Founded \X Subs
OnlyAccept == {"accept"}
OnlyRemove == {"remove"}
CreateRemove == {"create", "remove"}

\* Organizations of the start, those to be, passes, slots and people are
\* interchangeable.
Symmetry ==
    {f @@ g @@ h @@ i @@ j :
        f \in Permutations(Founded), g \in Permutations(Orgs \ Founded),
        h \in Permutations(Passes), i \in Permutations(Reqs),
        j \in Permutations(Subs)}
=============================================================================
