----------------------------- MODULE OwnerSeats -----------------------------
(***************************************************************************)
(* What an organization promises about its Owners, whatever requests race: *)
(* there is always one, and they come and go one seat at a time.           *)
(***************************************************************************)
EXTENDS FiniteSets

CONSTANT Users

VARIABLE owners

Init == owners \in (SUBSET Users) \ {{}}

\* A member becomes an Owner, by promotion or by joining as one.
Gain == \E u \in Users \ owners : owners' = owners \union {u}

\* An Owner is demoted, leaves or is removed; the last one is not.
Lose == \E u \in owners : owners # {u} /\ owners' = owners \ {u}

\* The seat passes from one member to another in one step.
Transfer ==
    \E u \in owners, v \in Users \ owners : owners' = (owners \ {u}) \union {v}

Next == Gain \/ Lose \/ Transfer

Spec == Init /\ [][Next]_owners
=============================================================================
