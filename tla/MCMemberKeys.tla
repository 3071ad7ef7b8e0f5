---------------------------- MODULE MCMemberKeys ----------------------------
(* Small instances of MemberKeys: two members, three requests.             *)
EXTENDS MemberKeys, TLC

CONSTANTS a, b, k1, k2, k3, r1, r2, r3, n1, n2, n3

MCMembers == {a, b}
MCKeys == {k1, k2, k3}
MCReqs == {r1, r2, r3}
MCNames == {n1, n2, n3}

\* Every create asks for a name of its own: the vendor never conflicts.
OwnNames == [r \in MCReqs |-> CASE r = r1 -> n1 [] r = r2 -> n2 [] OTHER -> n3]

\* Every create asks for one name: the second finds the vendor holding it.
OneName == [r \in MCReqs |-> n1]

NoFaults == {}
VendorFaults == {"vendor"}
AllFaults == {"crash", "vendor", "store"}

OwnerMember == {"owner", "member"}
OwnerReadOnly == {"owner", "read_only"}
ServiceAndPrincipal == {"retention", "principal"}
Service == {"retention"}

KeySymmetry == Permutations(MCKeys)

\* With a name per slot, slots may be permuted with their names.
SlotPermutations ==
    LET slots == <<r1, r2, r3>>
        names == <<n1, n2, n3>>
    IN  {[x \in MCReqs \union MCNames |->
            LET i == CHOOSE j \in 1..3 : x \in {slots[j], names[j]}
            IN  IF x = slots[i] THEN slots[p[i]] ELSE names[p[i]]] :
         p \in Permutations(1..3)}

\* Keys are permuted with the slots: every pair of permutations.
OneNameSymmetry == {p @@ k : p \in Permutations(MCReqs), k \in KeySymmetry}
SlotAndKeySymmetry == {p @@ k : p \in SlotPermutations, k \in KeySymmetry}
=============================================================================
