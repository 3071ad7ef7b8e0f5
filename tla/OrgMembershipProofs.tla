------------------------- MODULE OrgMembershipProofs -------------------------
(***************************************************************************)
(* Proofs about OrgMembership, for any people, invitations and requests:   *)
(* the owner counter is exact wherever it started exact, the organization  *)
(* keeps an Owner and implements OwnerSeats, and the drift checker writes  *)
(* only the truth, even where the counter had drifted.                     *)
(*                                                                         *)
(* Everything rests on OwnersStep: a step moves the owner set one seat at  *)
(* a time, and one that moves it at all raises the revision with it.  That *)
(* makes CheckerInv inductive: while the META row is the one the recount   *)
(* read first, what the pages showed is still what is there.               *)
(***************************************************************************)
EXTENDS OrgMembership, FiniteSetTheorems, TLAPS

\* What a request knows once its gate has let it through.
GateKnows(r) ==
    /\ req[r].kind = "create" => req[r].to \in AllRoles
    /\ req[r].kind = "change" => /\ req[r].from \in AllRoles
                                 /\ req[r].to \in AllRoles
                                 /\ req[r].from # req[r].to
    /\ req[r].kind = "remove" => req[r].from \in AllRoles /\ req[r].to = NoRole
    /\ req[r].kind = "transfer" => /\ req[r].by \in Users
                                   /\ req[r].from \notin {"owner", NoRole}
                                   /\ req[r].to = "owner"

\* Every request but a revocation is about one person.
AboutSomebody(r) ==
    req[r].kind \in {"create", "accept", "change", "remove", "transfer"} =>
        req[r].user \in Users

RequestInv(r) == GateKnows(r) /\ AboutSomebody(r)

\* An invitation is addressed to somebody.
Addressed == \A i \in Invites : invite[i].status # "absent" => invite[i].to \in Users

\* The recount: while META is as it was read, every row read is as it was read.
CheckerInv ==
    checker.pc = "paging" =>
        /\ checker.meta.rev <= meta.rev
        /\ checker.meta = meta => checker.owners = Owners \ checker.left

IInv ==
    /\ TypeOK
    /\ \A r \in Reqs : RequestInv(r)
    /\ Addressed
    /\ CheckerInv

\* Counting is exact where the counter started exact.
ExactInv == meta.exists /\ meta.count = Cardinality(Owners) /\ Owners # {}

\* One step of the owner set, with what it does to the counter.
OwnersMove ==
    \/ Owners' = Owners /\ meta' = meta
    \/ \E u \in Users \ Owners :
          /\ Owners' = Owners \union {u}
          /\ meta.count # NoCount
          /\ meta' = [meta EXCEPT !.count = meta.count + 1, !.rev = meta.rev + 1]
    \/ \E u \in Owners :
          /\ Owners' = Owners \ {u}
          /\ meta.count > 1
          /\ meta' = [meta EXCEPT !.count = meta.count - 1, !.rev = meta.rev + 1]
    \/ \E u \in Owners, v \in Users \ Owners :
          /\ Owners' = (Owners \ {u}) \union {v}
          /\ meta.count # NoCount
          /\ meta' = [meta EXCEPT !.rev = meta.rev + 1]

-----------------------------------------------------------------------------
(* Type correctness.                                                       *)

LEMMA BecomesType ==
    ASSUME TypeOK, NEW r \in Reqs, NEW q \in Requests, Becomes(r, q)
    PROVE  req' \in [Reqs -> Requests]
BY DEF TypeOK, Becomes

LEMMA AnswersType ==
    ASSUME TypeOK, NEW r \in Reqs, NEW o \in Outcomes, Answers(r, o)
    PROVE  req' \in [Reqs -> Requests]
<1>1. req[r] \in Requests
  BY DEF TypeOK
<1>2. [req[r] EXCEPT !.pc = "done", !.outcome = o] \in Requests
  BY <1>1 DEF Requests, Phases
<1> QED
  BY <1>2, BecomesType DEF Answers

\* Retiring invitations leaves invitations, to the same people.
LEMMA RetiredType ==
    ASSUME TypeOK, NEW S, NEW s \in {"accepted", "revoked"}
    PROVE  /\ Retired(S, s) \in [Invites -> Invitations]
           /\ \A i \in Invites : /\ Retired(S, s)[i].to = invite[i].to
                                 /\ invite[i].status = "absent" =>
                                       Retired(S, s)[i].status = "absent" \/ i \in S
<1>1. ASSUME NEW i \in Invites
      PROVE  /\ [invite[i] EXCEPT !.status = s] \in Invitations
             /\ [invite[i] EXCEPT !.status = s].to = invite[i].to
  <2>1. invite[i] \in Invitations
    BY DEF TypeOK
  <2> QED
    BY <2>1 DEF Invitations
<1> QED
  BY <1>1 DEF Retired, TypeOK

LEMMA CountItemType ==
    ASSUME TypeOK, NEW d, CountItem(d)
    PROVE  meta' \in Metas
<1>1. meta \in Metas
  BY DEF TypeOK
<1>2. CASE d = "increment"
  <2>1. meta.count \in Nat
    BY <1>1, <1>2 DEF CountItem, CountAllows, Metas
  <2>2. meta' = [meta EXCEPT !.count = meta.count + 1, !.rev = meta.rev + 1]
    BY <1>2 DEF CountItem
  <2>3. meta.rev + 1 \in Nat /\ meta.count + 1 \in Nat
    BY <1>1, <2>1 DEF Metas
  <2> QED
    BY <1>1, <2>2, <2>3 DEF Metas
<1>3. CASE d = "decrement"
  <2>1. meta.count \in Nat /\ meta.count > 1
    BY <1>1, <1>3 DEF CountItem, CountAllows, Metas, NoCount
  <2>2. meta.count - 1 \in Nat
    BY <2>1
  <2>3. meta' = [meta EXCEPT !.count = meta.count - 1, !.rev = meta.rev + 1]
    BY <1>3 DEF CountItem
  <2>4. meta.rev + 1 \in Nat /\ meta.count - 1 \in Nat
    BY <1>1, <2>1 DEF Metas
  <2> QED
    BY <1>1, <2>3, <2>4 DEF Metas
<1>4. CASE d = "none"
  BY <1>1, <1>4 DEF CountItem
<1>5. CASE d \notin {"increment", "decrement", "none"}
  BY <1>1, <1>5 DEF CountItem, Metas
<1> QED
  BY <1>2, <1>3, <1>4, <1>5

LEMMA InvitationStepType ==
    ASSUME IInv, NEW r \in Reqs, InvitationStep(r)
    PROVE  TypeOK'
<1> USE DEF IInv
<1>1. req[r] \in Requests
  BY DEF TypeOK
<1>2. CASE \E m, u \in Users, x \in Roles : CreateInvitation(r, m, u, x)
  <2>1. PICK m \in Users, u \in Users, x \in Roles : CreateInvitation(r, m, u, x)
    BY <1>2
  <2>2. x \in AllRoles
    BY ConstantsAssumption
  <2>3. [req[r] EXCEPT !.kind = "create", !.pc = "read",
                       !.by = m, !.user = u, !.to = x] \in Requests
    BY <1>1, <2>2 DEF Requests, Kinds, Phases
  <2> QED
    BY <2>1, <2>3, BecomesType DEF CreateInvitation, TypeOK
<1>3. CASE ListInvitations(r)
  <2> DEFINE f == Cardinality({i \in Invites : Usable(i)} \ UsableTo(req[r].user))
                    >= MaxPending
  <2>0. f \in BOOLEAN
    OBVIOUS
  <2>1. Becomes(r, [req[r] EXCEPT !.reads = Append(req[r].reads, "list"),
                                  !.sweep = UsableTo(req[r].user), !.full = f])
    BY <1>3 DEF ListInvitations
  <2> HIDE DEF f
  <2>2. Append(req[r].reads, "list") \in Seq({"list", "claim"})
    BY <1>1 DEF Requests
  <2>3. UsableTo(req[r].user) \subseteq Invites
    BY DEF UsableTo
  <2>4. [req[r] EXCEPT !.reads = Append(req[r].reads, "list"),
                       !.sweep = UsableTo(req[r].user), !.full = f] \in Requests
    BY <1>1, <2>0, <2>2, <2>3 DEF Requests
  <2> QED
    BY <1>3, <2>1, <2>4, BecomesType DEF ListInvitations, TypeOK
<1>4. CASE ReadClaim(r)
  <2>1. Append(req[r].reads, "claim") \in Seq({"list", "claim"})
    BY <1>1 DEF Requests
  <2>2. req[r].user \in Users
    BY <1>4 DEF ReadClaim, At, RequestInv, AboutSomebody
  <2>3. claim[req[r].user] \in Invites \union {NoInvite}
    BY <2>2 DEF TypeOK
  <2>4. [req[r] EXCEPT !.reads = Append(req[r].reads, "claim"),
                       !.claimed = claim[req[r].user]] \in Requests
    BY <1>1, <2>1, <2>3 DEF Requests
  <2> QED
    BY <1>4, <2>4, BecomesType DEF ReadClaim, TypeOK
<1>5. CASE \E i \in Invites : WriteInvitation(r, i)
  <2>1. PICK i \in Invites : WriteInvitation(r, i)
    BY <1>5
  <2>2. [req[r] EXCEPT !.pc = "done", !.invite = i, !.outcome = "committed"] \in Requests
    BY <1>1 DEF Requests, Phases, Outcomes
  <2>3. req[r].to \in AllRoles
    BY <2>1, <1>1 DEF WriteInvitation, At, RequestInv, GateKnows
  <2>4. [status |-> "pending", expired |-> FALSE, to |-> req[r].user,
         by |-> req[r].by, role |-> req[r].to] \in Invitations
    BY <1>1, <2>3 DEF Invitations, Requests
  <2>5. invite' \in [Invites -> Invitations]
    BY <2>1, <2>4, RetiredType DEF WriteInvitation
  <2>6. claim' \in [Users -> Invites \union {NoInvite}]
    BY <2>1 DEF WriteInvitation, TypeOK
  <2> QED
    BY <2>1, <2>2, <2>5, <2>6, BecomesType DEF WriteInvitation, TypeOK
<1>6. CASE InvitationRefused(r)
  BY <1>6, AnswersType DEF InvitationRefused, TypeOK, Outcomes
<1>7. CASE \E m \in Users, i \in Invites : RevokeInvitation(r, m, i)
  <2>1. PICK m \in Users, i \in Invites : RevokeInvitation(r, m, i)
    BY <1>7
  <2>2. [req[r] EXCEPT !.kind = "revoke", !.pc = "write", !.by = m,
                       !.invite = i, !.sweep = {i}] \in Requests
    BY <1>1 DEF Requests, Kinds, Phases
  <2> QED
    BY <2>1, <2>2, BecomesType DEF RevokeInvitation, TypeOK
<1>8. CASE CommitRevoke(r)
  BY <1>8, AnswersType, RetiredType DEF CommitRevoke, TypeOK, Outcomes
<1>9. CASE \E i \in Invites : AcceptInvitation(r, i)
  <2>1. PICK i \in Invites : AcceptInvitation(r, i)
    BY <1>9
  <2>2. /\ invite[i].to \in Users \union {NoUser}
        /\ invite[i].by \in Users \union {NoUser}
        /\ invite[i].role \in AllRoles \union {NoRole}
    BY DEF TypeOK, Invitations
  <2>3. [req[r] EXCEPT !.kind = "accept", !.pc = "read", !.invite = i,
             !.user = invite[i].to, !.to = invite[i].role, !.by = invite[i].by] \in Requests
    BY <1>1, <2>2 DEF Requests, Kinds, Phases
  <2> QED
    BY <2>1, <2>3, BecomesType DEF AcceptInvitation, TypeOK
<1>10. CASE ReadMembership(r)
  <2>1. [req[r] EXCEPT !.pc = "write", !.member = role[req[r].user] # NoRole] \in Requests
    BY <1>1 DEF Requests, Phases
  <2> QED
    BY <1>10, <2>1, BecomesType DEF ReadMembership, TypeOK
<1>11. CASE CommitAccept(r)
  <2>1. meta' \in Metas
    BY <1>11, CountItemType DEF CommitAccept, TypeOK
  <2>2. role' \in [Users -> AllRoles \union {NoRole}]
    BY <1>1, <1>11 DEF CommitAccept, TypeOK, Requests
  <2>3. invite' \in [Invites -> Invitations]
    BY <1>11, RetiredType DEF CommitAccept
  <2>4. req' \in [Reqs -> Requests]
    BY <1>11, AnswersType DEF CommitAccept, Outcomes
  <2> QED
    BY <1>11, <2>1, <2>2, <2>3, <2>4 DEF CommitAccept, TypeOK
<1>12. CASE AcceptCancelled(r)
  <2>1. [req[r] EXCEPT !.pc = "reread"] \in Requests
    BY <1>1 DEF Requests, Phases
  <2> QED
    BY <1>12, <2>1, BecomesType, AnswersType DEF AcceptCancelled, TypeOK, Outcomes
<1>13. CASE RereadMembership(r)
  <2>1. [req[r] EXCEPT !.pc = "retire"] \in Requests
    BY <1>1 DEF Requests, Phases
  <2> QED
    BY <1>13, <2>1, BecomesType, AnswersType DEF RereadMembership, TypeOK, Outcomes
<1>14. CASE RetireAfterRace(r)
  BY <1>14, AnswersType, RetiredType DEF RetireAfterRace, TypeOK, Outcomes
<1> QED
  BY <1>2, <1>3, <1>4, <1>5, <1>6, <1>7, <1>8, <1>9, <1>10, <1>11, <1>12, <1>13,
     <1>14 DEF InvitationStep

LEMMA MembershipStepType ==
    ASSUME IInv, NEW r \in Reqs, MembershipStep(r)
    PROVE  TypeOK'
<1> USE DEF IInv
<1>1. req[r] \in Requests
  BY DEF TypeOK
<1>2. CASE \E m, u \in Users, x \in Roles : ChangeRole(r, m, u, x)
  <2>1. PICK m \in Users, u \in Users, x \in Roles : ChangeRole(r, m, u, x)
    BY <1>2
  <2>2. x \in AllRoles /\ role[u] \in AllRoles \union {NoRole}
    BY ConstantsAssumption DEF TypeOK
  <2>3. [req[r] EXCEPT !.kind = "change", !.pc = "sweep", !.by = m,
                       !.user = u, !.from = role[u], !.to = x] \in Requests
    BY <1>1, <2>2 DEF Requests, Kinds, Phases
  <2> QED
    BY <2>1, <2>3, BecomesType DEF ChangeRole, TypeOK
<1>3. CASE \E m, u \in Users : RemoveMember(r, m, u)
  <2>1. PICK m \in Users, u \in Users : RemoveMember(r, m, u)
    BY <1>3
  <2>2. role[u] \in AllRoles \union {NoRole}
    BY DEF TypeOK
  <2>3. [req[r] EXCEPT !.kind = "remove", !.pc = "sweep", !.by = m,
                       !.user = u, !.from = role[u], !.to = NoRole] \in Requests
    BY <1>1, <2>2 DEF Requests, Kinds, Phases
  <2> QED
    BY <2>1, <2>3, BecomesType DEF RemoveMember, TypeOK
<1>4. CASE \E m, u \in Users : TransferOwnership(r, m, u)
  <2>1. PICK m \in Users, u \in Users : TransferOwnership(r, m, u)
    BY <1>4
  <2>2. role[u] \in AllRoles \union {NoRole} /\ "owner" \in AllRoles
    BY DEF TypeOK, AllRoles
  <2>3. [req[r] EXCEPT !.kind = "transfer", !.pc = "sweep", !.by = m,
                       !.user = u, !.from = role[u], !.to = "owner"] \in Requests
    BY <1>1, <2>2 DEF Requests, Kinds, Phases
  <2> QED
    BY <2>1, <2>3, BecomesType DEF TransferOwnership, TypeOK
<1>5. CASE ReadSweep(r)
  <2>1. ASSUME NEW known \in BOOLEAN
        PROVE  [req[r] EXCEPT !.pc = "write", !.sweep = ToRetire(r, known)] \in Requests
    <3>1. ToRetire(r, known) \subseteq Invites
      BY DEF ToRetire, UsableFrom, UsableTo
    <3> QED
      BY <1>1, <3>1 DEF Requests, Phases
  <2> QED
    BY <1>5, <2>1, BecomesType, AnswersType DEF ReadSweep, TypeOK, Outcomes
<1>6. CASE CommitMembership(r)
  <2>1. meta' \in Metas
    BY <1>6, CountItemType DEF CommitMembership
  <2>2. role' \in [Users -> AllRoles \union {NoRole}]
    <3>1. req[r].to \in AllRoles \union {NoRole} /\ "admin" \in AllRoles
      BY <1>1 DEF Requests, AllRoles
    <3> QED
      BY <1>6, <3>1 DEF CommitMembership, RolesAfter, TypeOK
  <2>3. invite' \in [Invites -> Invitations]
    BY <1>6, RetiredType DEF CommitMembership
  <2>4. req' \in [Reqs -> Requests]
    BY <1>6, AnswersType DEF CommitMembership, Outcomes
  <2> QED
    BY <1>6, <2>1, <2>2, <2>3, <2>4 DEF CommitMembership, TypeOK
<1>7. CASE MembershipCancelled(r)
  BY <1>7, AnswersType DEF MembershipCancelled, TypeOK, Outcomes
<1> QED
  BY <1>2, <1>3, <1>4, <1>5, <1>6, <1>7 DEF MembershipStep

LEMMA CheckerStepType ==
    ASSUME IInv, CheckerStep
    PROVE  TypeOK'
<1> USE DEF IInv
<1>1. checker \in Checkers /\ meta \in Metas
  BY DEF TypeOK
<1>2. CASE StartRecount
  BY <1>1, <1>2 DEF StartRecount, TypeOK, Checkers
<1>3. CASE \E u \in Users : ReadRow(u)
  <2>1. PICK u \in Users : ReadRow(u)
    BY <1>3
  <2>2. checker' \in Checkers
    BY <1>1, <2>1 DEF ReadRow, Checkers
  <2> QED
    BY <2>1, <2>2 DEF ReadRow, TypeOK
<1>4. CASE Repair
  <2>1. Counted \in Nat
    BY <1>1, ConstantsAssumption, FS_Subset, FS_CardinalityType DEF Counted, Checkers
  <2>2. [meta EXCEPT !.exists = TRUE, !.count = Counted] \in Metas
    BY <1>1, <2>1 DEF Metas
  <2>3. IdleChecker \in Checkers
    BY DEF IdleChecker, Checkers, Metas, NoCount
  <2> QED
    BY <1>1, <1>4, <2>2, <2>3 DEF Repair, TypeOK
<1> QED
  BY <1>2, <1>3, <1>4 DEF CheckerStep

LEMMA TypeStep ==
    ASSUME IInv, [Next]_vars
    PROVE  TypeOK'
<1>1. CASE \E i \in Invites : Expire(i)
  <2>1. PICK i \in Invites : Expire(i)
    BY <1>1
  <2>2. [invite[i] EXCEPT !.expired = TRUE] \in Invitations
    BY DEF IInv, TypeOK, Invitations
  <2> QED
    BY <2>1, <2>2 DEF Expire, IInv, TypeOK
<1>2. CASE UNCHANGED vars
  BY <1>2 DEF vars, IInv, TypeOK
<1> QED
  BY <1>1, <1>2, InvitationStepType, MembershipStepType, CheckerStepType DEF Next

-----------------------------------------------------------------------------
(* What requests know, and whom invitations are addressed to.              *)

\* A step that keeps what a request is about keeps what it knows.
LEMMA SameRequest ==
    ASSUME \A s \in Reqs : RequestInv(s), TypeOK, NEW r \in Reqs, NEW q, Becomes(r, q),
           q.kind = req[r].kind, q.user = req[r].user, q.by = req[r].by,
           q.from = req[r].from, q.to = req[r].to
    PROVE  \A s \in Reqs : RequestInv(s)'
<1> SUFFICES ASSUME NEW s \in Reqs
             PROVE  RequestInv(s)'
  OBVIOUS
<1>1. req'[s] = IF s = r THEN q ELSE req[s]
  BY DEF Becomes, TypeOK
<1> QED
  BY <1>1 DEF RequestInv, GateKnows, AboutSomebody

\* A new request is one the others do not notice.
LEMMA NewRequest ==
    ASSUME \A s \in Reqs : RequestInv(s), TypeOK, NEW r \in Reqs, NEW q, Becomes(r, q),
           RequestInv(r)'
    PROVE  \A s \in Reqs : RequestInv(s)'
<1> SUFFICES ASSUME NEW s \in Reqs \ {r}
             PROVE  RequestInv(s)'
  OBVIOUS
<1>1. req'[s] = req[s]
  BY DEF Becomes, TypeOK
<1> QED
  BY <1>1 DEF RequestInv, GateKnows, AboutSomebody

LEMMA AnswersKeeps ==
    ASSUME \A s \in Reqs : RequestInv(s), TypeOK, NEW r \in Reqs, NEW o, Answers(r, o)
    PROVE  \A s \in Reqs : RequestInv(s)'
<1>1. req[r] \in Requests
  BY DEF TypeOK
<1> DEFINE q == [req[r] EXCEPT !.pc = "done", !.outcome = o]
<1>2. /\ q.kind = req[r].kind /\ q.user = req[r].user /\ q.by = req[r].by
      /\ q.from = req[r].from /\ q.to = req[r].to
  BY <1>1 DEF Requests
<1>3. Becomes(r, q)
  BY DEF Answers
<1> HIDE DEF q
<1> QED
  BY <1>2, <1>3, SameRequest

LEMMA InvitationStepKnows ==
    ASSUME IInv, NEW r \in Reqs, InvitationStep(r)
    PROVE  \A s \in Reqs : RequestInv(s)'
<1> USE DEF IInv
<1>1. req[r] \in Requests
  BY DEF TypeOK
<1>2. CASE \E m, u \in Users, x \in Roles : CreateInvitation(r, m, u, x)
  <2>1. PICK m \in Users, u \in Users, x \in Roles : CreateInvitation(r, m, u, x)
    BY <1>2
  <2> DEFINE q == [req[r] EXCEPT !.kind = "create", !.pc = "read",
                                 !.by = m, !.user = u, !.to = x]
  <2>2. Becomes(r, q)
    BY <2>1 DEF CreateInvitation
  <2>3. q.kind = "create" /\ q.user \in Users /\ q.to \in AllRoles
    BY <1>1, ConstantsAssumption DEF Requests
  <2>4. req'[r] = q
    BY <2>2 DEF Becomes, TypeOK
  <2> HIDE DEF q
  <2>5. RequestInv(r)'
    BY <2>3, <2>4 DEF RequestInv, GateKnows, AboutSomebody
  <2> QED
    BY <2>2, <2>5, NewRequest
<1>3. CASE ListInvitations(r)
  <2>1. PICK S, f : Becomes(r, [req[r] EXCEPT
            !.reads = Append(req[r].reads, "list"), !.sweep = S, !.full = f])
    BY <1>3 DEF ListInvitations
  <2> DEFINE q == [req[r] EXCEPT !.reads = Append(req[r].reads, "list"),
                                 !.sweep = S, !.full = f]
  <2>2. /\ q.kind = req[r].kind /\ q.user = req[r].user /\ q.by = req[r].by
        /\ q.from = req[r].from /\ q.to = req[r].to
    BY <1>1 DEF Requests
  <2> QED
    BY <2>1, <2>2, SameRequest
<1>4. CASE ReadClaim(r)
  <2> DEFINE q == [req[r] EXCEPT !.reads = Append(req[r].reads, "claim"),
                                 !.claimed = claim[req[r].user]]
  <2>1. /\ q.kind = req[r].kind /\ q.user = req[r].user /\ q.by = req[r].by
        /\ q.from = req[r].from /\ q.to = req[r].to
    BY <1>1 DEF Requests
  <2>2. Becomes(r, q)
    BY <1>4 DEF ReadClaim
  <2> QED
    BY <2>1, <2>2, SameRequest
<1>5. CASE \E i \in Invites : WriteInvitation(r, i)
  <2>1. PICK i \in Invites : WriteInvitation(r, i)
    BY <1>5
  <2> DEFINE q == [req[r] EXCEPT !.pc = "done", !.invite = i, !.outcome = "committed"]
  <2>2. /\ q.kind = req[r].kind /\ q.user = req[r].user /\ q.by = req[r].by
        /\ q.from = req[r].from /\ q.to = req[r].to
    BY <1>1 DEF Requests
  <2>3. Becomes(r, q)
    BY <2>1 DEF WriteInvitation
  <2> QED
    BY <2>2, <2>3, SameRequest
<1>6. CASE \E m \in Users, i \in Invites : RevokeInvitation(r, m, i)
  <2>1. PICK m \in Users, i \in Invites : RevokeInvitation(r, m, i)
    BY <1>6
  <2> DEFINE q == [req[r] EXCEPT !.kind = "revoke", !.pc = "write", !.by = m,
                                 !.invite = i, !.sweep = {i}]
  <2>2. Becomes(r, q)
    BY <2>1 DEF RevokeInvitation
  <2>3. q.kind = "revoke"
    BY <1>1 DEF Requests
  <2>4. req'[r] = q
    BY <2>2 DEF Becomes, TypeOK
  <2> HIDE DEF q
  <2>5. RequestInv(r)'
    BY <2>3, <2>4 DEF RequestInv, GateKnows, AboutSomebody
  <2> QED
    BY <2>2, <2>5, NewRequest
<1>7. CASE \E i \in Invites : AcceptInvitation(r, i)
  <2>1. PICK i \in Invites : AcceptInvitation(r, i)
    BY <1>7
  <2> DEFINE q == [req[r] EXCEPT !.kind = "accept", !.pc = "read", !.invite = i,
                       !.user = invite[i].to, !.to = invite[i].role, !.by = invite[i].by]
  <2>2. Becomes(r, q)
    BY <2>1 DEF AcceptInvitation
  <2>3. q.kind = "accept" /\ q.user = invite[i].to
    BY <1>1 DEF Requests
  <2>4. invite[i].to \in Users
    BY <2>1 DEF AcceptInvitation, Usable, Pending, Addressed
  <2>5. req'[r] = q
    BY <2>2 DEF Becomes, TypeOK
  <2> HIDE DEF q
  <2>6. RequestInv(r)'
    BY <2>3, <2>4, <2>5 DEF RequestInv, GateKnows, AboutSomebody
  <2> QED
    BY <2>2, <2>6, NewRequest
<1>8. CASE ReadMembership(r)
  <2> DEFINE q == [req[r] EXCEPT !.pc = "write", !.member = role[req[r].user] # NoRole]
  <2>1. /\ q.kind = req[r].kind /\ q.user = req[r].user /\ q.by = req[r].by
        /\ q.from = req[r].from /\ q.to = req[r].to
    BY <1>1 DEF Requests
  <2>2. Becomes(r, q)
    BY <1>8 DEF ReadMembership
  <2> QED
    BY <2>1, <2>2, SameRequest
<1>9. ASSUME NEW p, Becomes(r, [req[r] EXCEPT !.pc = p])
      PROVE  \A s \in Reqs : RequestInv(s)'
  <2> DEFINE q == [req[r] EXCEPT !.pc = p]
  <2>1. /\ q.kind = req[r].kind /\ q.user = req[r].user /\ q.by = req[r].by
        /\ q.from = req[r].from /\ q.to = req[r].to
    BY <1>1 DEF Requests
  <2> QED
    BY <1>9, <2>1, SameRequest
<1>10. CASE AcceptCancelled(r) \/ RereadMembership(r)
  BY <1>9, <1>10, AnswersKeeps DEF AcceptCancelled, RereadMembership
<1>11. CASE InvitationRefused(r) \/ CommitRevoke(r) \/ CommitAccept(r) \/ RetireAfterRace(r)
  BY <1>11, AnswersKeeps DEF InvitationRefused, CommitRevoke, CommitAccept, RetireAfterRace
<1> QED
  BY <1>2, <1>3, <1>4, <1>5, <1>6, <1>7, <1>8, <1>10, <1>11 DEF InvitationStep

LEMMA MembershipStepKnows ==
    ASSUME IInv, NEW r \in Reqs, MembershipStep(r)
    PROVE  \A s \in Reqs : RequestInv(s)'
<1> USE DEF IInv
<1>1. req[r] \in Requests
  BY DEF TypeOK
<1>2. CASE \E m, u \in Users, x \in Roles : ChangeRole(r, m, u, x)
  <2>1. PICK m \in Users, u \in Users, x \in Roles : ChangeRole(r, m, u, x)
    BY <1>2
  <2> DEFINE q == [req[r] EXCEPT !.kind = "change", !.pc = "sweep", !.by = m,
                                 !.user = u, !.from = role[u], !.to = x]
  <2>2. Becomes(r, q)
    BY <2>1 DEF ChangeRole
  <2>3. q.kind = "change" /\ q.user = u /\ q.from = role[u] /\ q.to = x
    BY <1>1 DEF Requests
  <2>4. role[u] \in AllRoles /\ x \in AllRoles /\ role[u] # x
    BY <2>1 DEF ChangeRole, CanManage
  <2>5. req'[r] = q
    BY <2>2 DEF Becomes, TypeOK
  <2> HIDE DEF q
  <2>6. RequestInv(r)'
    BY <2>3, <2>4, <2>5 DEF RequestInv, GateKnows, AboutSomebody
  <2> QED
    BY <2>2, <2>6, NewRequest
<1>3. CASE \E m, u \in Users : RemoveMember(r, m, u)
  <2>1. PICK m \in Users, u \in Users : RemoveMember(r, m, u)
    BY <1>3
  <2> DEFINE q == [req[r] EXCEPT !.kind = "remove", !.pc = "sweep", !.by = m,
                                 !.user = u, !.from = role[u], !.to = NoRole]
  <2>2. Becomes(r, q)
    BY <2>1 DEF RemoveMember
  <2>3. q.kind = "remove" /\ q.user = u /\ q.from = role[u] /\ q.to = NoRole
    BY <1>1 DEF Requests
  <2>4. role[u] \in AllRoles
    BY <2>1 DEF RemoveMember, TypeOK
  <2>5. req'[r] = q
    BY <2>2 DEF Becomes, TypeOK
  <2> HIDE DEF q
  <2>6. RequestInv(r)'
    BY <2>3, <2>4, <2>5 DEF RequestInv, GateKnows, AboutSomebody
  <2> QED
    BY <2>2, <2>6, NewRequest
<1>4. CASE \E m, u \in Users : TransferOwnership(r, m, u)
  <2>1. PICK m \in Users, u \in Users : TransferOwnership(r, m, u)
    BY <1>4
  <2> DEFINE q == [req[r] EXCEPT !.kind = "transfer", !.pc = "sweep", !.by = m,
                                 !.user = u, !.from = role[u], !.to = "owner"]
  <2>2. Becomes(r, q)
    BY <2>1 DEF TransferOwnership
  <2>3. /\ q.kind = "transfer" /\ q.user = u /\ q.by = m
        /\ q.from = role[u] /\ q.to = "owner"
    BY <1>1 DEF Requests
  <2>4. role[u] \notin {"owner", NoRole}
    BY <2>1 DEF TransferOwnership
  <2>5. req'[r] = q
    BY <2>2 DEF Becomes, TypeOK
  <2> HIDE DEF q
  <2>6. RequestInv(r)'
    BY <2>3, <2>4, <2>5 DEF RequestInv, GateKnows, AboutSomebody
  <2> QED
    BY <2>2, <2>6, NewRequest
<1>5. CASE ReadSweep(r)
  <2>1. CASE Answers(r, "refused")
    BY <2>1, AnswersKeeps
  <2>2. CASE \E S : Becomes(r, [req[r] EXCEPT !.pc = "write", !.sweep = S])
    <3>1. PICK S : Becomes(r, [req[r] EXCEPT !.pc = "write", !.sweep = S])
      BY <2>2
    <3> DEFINE q == [req[r] EXCEPT !.pc = "write", !.sweep = S]
    <3>2. /\ q.kind = req[r].kind /\ q.user = req[r].user /\ q.by = req[r].by
          /\ q.from = req[r].from /\ q.to = req[r].to
      BY <1>1 DEF Requests
    <3> QED
      BY <3>1, <3>2, SameRequest
  <2> QED
    BY <1>5, <2>1, <2>2 DEF ReadSweep
<1>6. CASE CommitMembership(r) \/ MembershipCancelled(r)
  BY <1>6, AnswersKeeps DEF CommitMembership, MembershipCancelled
<1> QED
  BY <1>2, <1>3, <1>4, <1>5, <1>6 DEF MembershipStep

LEMMA AddressedStep ==
    ASSUME IInv, [Next]_vars
    PROVE  Addressed'
<1> USE DEF IInv
<1>1. CASE invite' = invite
  BY <1>1 DEF Addressed
<1>2. ASSUME NEW S, NEW s \in {"accepted", "revoked"}, invite' = Retired(S, s),
             \A i \in Invites \intersect S : invite[i].status # "absent"
      PROVE  Addressed'
  BY <1>2, RetiredType DEF Addressed
<1>3. ASSUME NEW r \in Reqs, NEW i \in Invites, WriteInvitation(r, i)
      PROVE  Addressed'
  <2>1. req[r].user \in Users
    BY <1>3 DEF WriteInvitation, At, RequestInv, AboutSomebody
  <2>2. \A j \in Invites \ {i} : invite'[j] = Retired(req[r].sweep, "revoked")[j]
    BY <1>3, RetiredType DEF WriteInvitation
  <2>3. invite'[i].to = req[r].user
    BY <1>3, RetiredType DEF WriteInvitation
  <2>4. \A j \in req[r].sweep : invite[j].status # "absent"
    BY <1>3 DEF WriteInvitation, AllPending, Pending
  <2> QED
    BY <2>1, <2>2, <2>3, <2>4, RetiredType DEF Addressed
<1>4. ASSUME NEW S, AllPending(S)
      PROVE  \A i \in Invites \intersect S : invite[i].status # "absent"
  BY <1>4 DEF AllPending, Pending
<1>5. ASSUME NEW i \in Invites, Expire(i)
      PROVE  Addressed'
  <2>1. invite[i] \in Invitations
    BY DEF TypeOK
  <2>2. [invite[i] EXCEPT !.expired = TRUE].status = invite[i].status
    BY <2>1 DEF Invitations
  <2>3. [invite[i] EXCEPT !.expired = TRUE].to = invite[i].to
    BY <2>1 DEF Invitations
  <2>4. invite' = [invite EXCEPT ![i] = [invite[i] EXCEPT !.expired = TRUE]]
    BY <1>5 DEF Expire
  <2> QED
    BY <2>2, <2>3, <2>4 DEF Addressed, TypeOK
<1>6. ASSUME NEW r \in Reqs, InvitationStep(r)
      PROVE  Addressed'
  <2>1. CASE CommitRevoke(r)
    BY <1>1, <1>2, <1>4, <2>1 DEF CommitRevoke
  <2>2. CASE CommitAccept(r)
    BY <1>2, <1>4, <2>2 DEF CommitAccept
  <2>3. CASE RetireAfterRace(r)
    BY <1>1, <1>2, <1>4, <2>3 DEF RetireAfterRace
  <2> QED
    BY <1>1, <1>3, <1>6, <2>1, <2>2, <2>3 DEF InvitationStep, CreateInvitation,
       ListInvitations, ReadClaim, InvitationRefused, RevokeInvitation,
       AcceptInvitation, ReadMembership, AcceptCancelled, RereadMembership
<1>7. ASSUME NEW r \in Reqs, MembershipStep(r)
      PROVE  Addressed'
  <2>1. CASE CommitMembership(r)
    BY <1>2, <1>4, <2>1 DEF CommitMembership
  <2> QED
    BY <1>1, <1>7, <2>1 DEF MembershipStep, ChangeRole, RemoveMember,
       TransferOwnership, ReadSweep, MembershipCancelled
<1>8. CASE CheckerStep
  BY <1>1, <1>8 DEF CheckerStep, StartRecount, ReadRow, Repair
<1>9. CASE UNCHANGED vars
  BY <1>1, <1>9 DEF vars
<1> QED
  BY <1>5, <1>6, <1>7, <1>8, <1>9 DEF Next

-----------------------------------------------------------------------------
(* The owner set and the counter move together.                            *)

\* What each counter item does when its condition lets it.
LEMMA CounterMoves ==
    ASSUME NEW d, CountItem(d)
    PROVE  /\ d = "none" => meta' = meta
           /\ d = "increment" =>
                /\ meta.count # NoCount
                /\ meta' = [meta EXCEPT !.count = meta.count + 1, !.rev = meta.rev + 1]
           /\ d = "decrement" =>
                /\ meta.count > 1
                /\ meta' = [meta EXCEPT !.count = meta.count - 1, !.rev = meta.rev + 1]
           /\ d = "unchanged" =>
                /\ meta.count # NoCount
                /\ meta' = [meta EXCEPT !.rev = meta.rev + 1]
BY DEF CountItem, CountAllows

\* One person's role changes, with the counter item that goes with it.
LEMMA OneRoleMoves ==
    ASSUME TypeOK, NEW u \in Users, NEW x, x # role[u], x # NoRole \/ role[u] # NoRole,
           role' = [role EXCEPT ![u] = x], CountItem(DeltaFor(role[u], x))
    PROVE  OwnersMove
<1>1. \A v \in Users : role'[v] = IF v = u THEN x ELSE role[v]
  BY DEF TypeOK
<1>2. CASE x = "owner"
  <2>1. Owners' = Owners \union {u} /\ u \notin Owners
    BY <1>1, <1>2 DEF Owners
  <2>2. DeltaFor(role[u], x) = "increment"
    BY <1>2 DEF DeltaFor
  <2> QED
    BY <2>1, <2>2, CounterMoves DEF OwnersMove
<1>3. CASE role[u] = "owner"
  <2>1. Owners' = Owners \ {u} /\ u \in Owners
    BY <1>1, <1>3 DEF Owners
  <2>2. DeltaFor(role[u], x) = "decrement"
    BY <1>3 DEF DeltaFor
  <2> QED
    BY <2>1, <2>2, CounterMoves DEF OwnersMove
<1>4. CASE x # "owner" /\ role[u] # "owner"
  <2>1. Owners' = Owners
    BY <1>1, <1>4 DEF Owners
  <2>2. DeltaFor(role[u], x) = "none"
    BY <1>4 DEF DeltaFor
  <2> QED
    BY <2>1, <2>2, CounterMoves DEF OwnersMove
<1> QED
  BY <1>2, <1>3, <1>4

LEMMA AcceptMoves ==
    ASSUME IInv, NEW r \in Reqs, CommitAccept(r)
    PROVE  OwnersMove
<1>1. req[r].user \in Users
  BY DEF CommitAccept, At, IInv, RequestInv, AboutSomebody
<1>2. CASE req[r].member
  BY <1>2 DEF CommitAccept, OwnersMove, Owners
<1>3. CASE ~req[r].member
  <2>1. role[req[r].user] = NoRole /\ req[r].to # NoRole
    BY <1>3 DEF CommitAccept, MayJoin, CanManage, AllRoles, NoRole
  <2> QED
    BY <1>1, <1>3, <2>1, OneRoleMoves DEF CommitAccept, IInv
<1> QED
  BY <1>2, <1>3

LEMMA CommitMoves ==
    ASSUME IInv, NEW r \in Reqs, CommitMembership(r)
    PROVE  OwnersMove
<1> DEFINE u == req[r].user
<1>1. u \in Users /\ role[u] = req[r].from
  BY DEF CommitMembership, RoleUnmoved, At, IInv, RequestInv, AboutSomebody
<1>2. CASE req[r].kind \in {"change", "remove"}
  <2>1. req[r].to # role[u] /\ role[u] # NoRole
    BY <1>1, <1>2 DEF IInv, RequestInv, GateKnows, AllRoles, NoRole
  <2>2. role' = [role EXCEPT ![u] = req[r].to]
    BY <1>1, <1>2 DEF CommitMembership, RolesAfter, IInv, TypeOK
  <2>3. CountItem(DeltaFor(role[u], req[r].to))
    BY <1>1, <1>2 DEF CommitMembership, OwnerDelta
  <2> QED
    BY <1>1, <2>1, <2>2, <2>3, OneRoleMoves DEF IInv
<1>3. CASE req[r].kind = "transfer"
  <2> DEFINE m == req[r].by
  <2>1. m \in Owners /\ u \in Users \ Owners /\ req[r].to = "owner"
    BY <1>1, <1>3 DEF CommitMembership, RoleUnmoved, IInv, RequestInv, GateKnows, Owners
  <2>2. \A v \in Users : role'[v] = IF v = u THEN "owner"
                                    ELSE IF v = m THEN "admin" ELSE role[v]
    BY <1>3, <2>1 DEF CommitMembership, RolesAfter
  <2>3. Owners' = (Owners \ {m}) \union {u}
    BY <2>1, <2>2 DEF Owners
  <2>4. CountItem("unchanged")
    BY <1>3 DEF CommitMembership, OwnerDelta
  <2> QED
    BY <2>1, <2>3, <2>4, CounterMoves DEF OwnersMove
<1> QED
  BY <1>2, <1>3 DEF CommitMembership, At

\* Only requests move the owner set, and the checker writes only the count.
LEMMA OwnersStep ==
    ASSUME IInv, [Next]_vars
    PROVE  \/ OwnersMove /\ UNCHANGED checker
           \/ CheckerStep /\ Owners' = Owners
<1>1. ASSUME UNCHANGED <<role, meta>>
      PROVE  OwnersMove
  BY <1>1 DEF OwnersMove, Owners
<1>2. ASSUME NEW r \in Reqs, InvitationStep(r)
      PROVE  OwnersMove /\ UNCHANGED checker
  <2>1. CASE CommitAccept(r)
    BY <2>1, AcceptMoves DEF CommitAccept
  <2> QED
    BY <1>1, <1>2, <2>1 DEF InvitationStep, CreateInvitation, ListInvitations,
       ReadClaim, WriteInvitation, InvitationRefused, RevokeInvitation, CommitRevoke,
       AcceptInvitation, ReadMembership, AcceptCancelled, RereadMembership,
       RetireAfterRace
<1>3. ASSUME NEW r \in Reqs, MembershipStep(r)
      PROVE  OwnersMove /\ UNCHANGED checker
  <2>1. CASE CommitMembership(r)
    BY <2>1, CommitMoves DEF CommitMembership
  <2> QED
    BY <1>1, <1>3, <2>1 DEF MembershipStep, ChangeRole, RemoveMember,
       TransferOwnership, ReadSweep, MembershipCancelled
<1>4. CASE CheckerStep
  BY <1>4 DEF CheckerStep, StartRecount, ReadRow, Repair, Owners
<1>5. CASE \E i \in Invites : Expire(i)
  BY <1>1, <1>5 DEF Expire
<1>6. CASE UNCHANGED vars
  BY <1>1, <1>6 DEF vars
<1> QED
  BY <1>2, <1>3, <1>4, <1>5, <1>6 DEF Next

\* Once the owner set has moved, META is not the row the recount read, nor will
\* it be again.
LEMMA CheckerInvStep ==
    ASSUME IInv, [Next]_vars
    PROVE  CheckerInv'
<1>1. meta \in Metas /\ checker \in Checkers
  BY DEF IInv, TypeOK
<1>2. CASE OwnersMove /\ UNCHANGED checker
  <2>1. \/ Owners' = Owners /\ meta' = meta
        \/ meta'.rev = meta.rev + 1
    BY <1>1, <1>2 DEF OwnersMove, Metas
  <2>2. CASE Owners' = Owners /\ meta' = meta
    BY <1>2, <2>2 DEF IInv, CheckerInv
  <2>3. CASE meta'.rev = meta.rev + 1
    <3>1. meta.rev \in Nat /\ checker.meta.rev \in Nat
      BY <1>1 DEF Metas, Checkers
    <3>2. checker.pc = "paging" => checker.meta.rev < meta'.rev
      BY <2>3, <3>1 DEF IInv, CheckerInv
    <3>3. checker.pc = "paging" => checker.meta # meta' /\ checker.meta.rev <= meta'.rev
      BY <2>3, <3>1, <3>2
    <3> QED
      BY <1>2, <3>3 DEF CheckerInv
  <2> QED
    BY <2>1, <2>2, <2>3
<1>3. CASE CheckerStep /\ Owners' = Owners
  <2>1. CASE StartRecount
    <3>1. /\ checker'.meta = meta /\ checker'.left = Users /\ checker'.owners = {}
          /\ meta' = meta
      BY <2>1 DEF StartRecount
    <3>2. Owners' \ Users = {}
      BY <1>3 DEF Owners
    <3>3. meta.rev <= meta.rev
      BY <1>1 DEF Metas
    <3> QED
      BY <3>1, <3>2, <3>3 DEF CheckerInv
  <2>2. CASE \E u \in Users : ReadRow(u)
    <3>1. PICK u \in Users : ReadRow(u)
      BY <2>2
    <3>2. /\ checker'.pc = checker.pc /\ checker'.meta = checker.meta
          /\ checker'.left = checker.left \ {u}
          /\ checker'.owners = IF role[u] = "owner" THEN checker.owners \union {u}
                                                    ELSE checker.owners
          /\ meta' = meta
      BY <1>1, <3>1 DEF ReadRow, Checkers
    <3>3. u \in Owners <=> role[u] = "owner"
      BY DEF Owners
    <3>4. checker.pc = "paging" /\ u \in checker.left
      BY <3>1 DEF ReadRow
    <3> QED
      BY <1>3, <3>2, <3>3, <3>4 DEF IInv, CheckerInv
  <2>3. CASE Repair
    BY <2>3 DEF Repair, IdleChecker, CheckerInv
  <2> QED
    BY <1>3, <2>1, <2>2, <2>3 DEF CheckerStep
<1> QED
  BY <1>2, <1>3, OwnersStep

-----------------------------------------------------------------------------
(* The inductive invariant.                                                *)

LEMMA IInvInit == Init => IInv
<1> SUFFICES ASSUME Init
             PROVE  IInv
  OBVIOUS
<1> USE DEF Init
<1>1. role \in [Users -> AllRoles \union {NoRole}]
  BY ConstantsAssumption
<1>2. meta \in Metas
  <2>1. Cardinality(Owners) \in Nat
    BY ConstantsAssumption, FS_Subset, FS_CardinalityType DEF Owners
  <2>2. ASSUME NEW n \in 0..Cardinality(Users) \union {NoCount}
        PROVE  n \in Nat \union {NoCount}
    OBVIOUS
  <2>3. PICK e \in BOOLEAN, n \in Nat \union {NoCount} :
            meta = [exists |-> e, count |-> n, rev |-> 0]
    BY <2>1, <2>2 DEF InitialMeta
  <2> QED
    BY <2>3 DEF Metas
<1>3. NoInvitation \in Invitations
  BY DEF NoInvitation, Invitations, AllRoles
<1>4. IdleRequest \in Requests
  <2>1. <<>> \in Seq({"list", "claim"})
    OBVIOUS
  <2>2. "none" \in Kinds /\ "idle" \in Phases /\ "none" \in Outcomes
    BY DEF Kinds, Phases, Outcomes
  <2> QED
    BY <2>1, <2>2 DEF IdleRequest, Requests
<1>5. IdleChecker \in Checkers
  BY DEF IdleChecker, Checkers, Metas, NoCount
<1>6. TypeOK
  BY <1>1, <1>2, <1>3, <1>4, <1>5 DEF TypeOK
<1>7. \A r \in Reqs : RequestInv(r)
  BY DEF IdleRequest, RequestInv, GateKnows, AboutSomebody
<1>8. Addressed /\ CheckerInv
  BY DEF Addressed, NoInvitation, CheckerInv, IdleChecker
<1> QED
  BY <1>6, <1>7, <1>8 DEF IInv

LEMMA IInvStep ==
    ASSUME IInv, [Next]_vars
    PROVE  IInv'
<1>1. \A r \in Reqs : RequestInv(r)'
  <2>1. CASE req' = req
    BY <2>1 DEF IInv, RequestInv, GateKnows, AboutSomebody
  <2>2. CASE UNCHANGED vars \/ CheckerStep \/ \E i \in Invites : Expire(i)
    BY <2>1, <2>2 DEF vars, CheckerStep, StartRecount, ReadRow, Repair, Expire
  <2> QED
    BY <2>2, InvitationStepKnows, MembershipStepKnows DEF Next
<1> QED
  BY <1>1, TypeStep, AddressedStep, CheckerInvStep DEF IInv

\* While the META row is the one the recount read first, what the pages showed
\* is still what is there (recountOrg).
THEOREM InductiveInvariant == Spec => []IInv
<1>1. IInv /\ [Next]_vars => IInv'
  BY IInvStep
<1> QED
  BY IInvInit, <1>1, PTL DEF Spec

\* Every variable keeps its type, for any people, invitations and requests.
THEOREM TypeCorrect == Spec => []TypeOK
<1>1. IInv => TypeOK
  BY DEF IInv
<1> QED
  BY InductiveInvariant, <1>1, PTL

-----------------------------------------------------------------------------
(* The counter.                                                            *)

\* A repair that writes anything writes the number of Owners.
LEMMA RepairIsExact ==
    ASSUME IInv, Repair, meta' # meta
    PROVE  meta' = [meta EXCEPT !.exists = TRUE, !.count = Cardinality(Owners)]
<1>1. checker.meta = meta /\ checker.left = {} /\ checker.pc = "paging"
  BY DEF Repair, MetaUnmoved
<1>2. checker.owners = Owners
  BY <1>1 DEF IInv, CheckerInv
<1> QED
  BY <1>2 DEF Repair, Counted

LEMMA OwnersFinite ==
    /\ IsFiniteSet(Owners)
    /\ Cardinality(Owners) \in Nat
    /\ \A u \in Users \ Owners : Cardinality(Owners \union {u}) = Cardinality(Owners) + 1
    /\ \A u \in Owners : /\ IsFiniteSet(Owners \ {u})
                         /\ Cardinality(Owners \ {u}) = Cardinality(Owners) - 1
    /\ \A u \in Owners, v \in Users \ Owners :
          Cardinality((Owners \ {u}) \union {v}) = Cardinality(Owners)
<1>1. IsFiniteSet(Owners)
  BY ConstantsAssumption, FS_Subset DEF Owners
<1>2. Cardinality(Owners) \in Nat
  BY <1>1, FS_CardinalityType
<1>3. ASSUME NEW u \in Users \ Owners
      PROVE  Cardinality(Owners \union {u}) = Cardinality(Owners) + 1
  BY <1>1, FS_AddElement
<1>4. ASSUME NEW u \in Owners
      PROVE  IsFiniteSet(Owners \ {u}) /\ Cardinality(Owners \ {u}) = Cardinality(Owners) - 1
  BY <1>1, FS_RemoveElement
<1>5. ASSUME NEW u \in Owners, NEW v \in Users \ Owners
      PROVE  Cardinality((Owners \ {u}) \union {v}) = Cardinality(Owners)
  <2>1. v \notin Owners \ {u}
    OBVIOUS
  <2>2. Cardinality((Owners \ {u}) \union {v}) = Cardinality(Owners \ {u}) + 1
    BY <1>4, <2>1, FS_AddElement
  <2> QED
    BY <1>2, <1>4, <2>2
<1> QED
  BY <1>1, <1>2, <1>3, <1>4, <1>5

LEMMA ExactInit == Init /\ ~Drifted => ExactInv
BY DEF Init, InitialMeta, ExactInv

LEMMA ExactStep ==
    ASSUME IInv, ExactInv, [Next]_vars
    PROVE  ExactInv'
<1>1. meta \in Metas
  BY DEF IInv, TypeOK
<1>2. CASE OwnersMove
  <2>1. CASE Owners' = Owners /\ meta' = meta
    BY <2>1 DEF ExactInv
  <2>2. ASSUME NEW u \in Users \ Owners, Owners' = Owners \union {u},
               meta' = [meta EXCEPT !.count = meta.count + 1, !.rev = meta.rev + 1]
        PROVE  ExactInv'
    <3>1. Cardinality(Owners') = Cardinality(Owners) + 1
      BY <2>2, OwnersFinite
    <3> QED
      BY <1>1, <2>2, <3>1 DEF ExactInv, Metas
  <2>3. ASSUME NEW u \in Owners, Owners' = Owners \ {u}, meta.count > 1,
               meta' = [meta EXCEPT !.count = meta.count - 1, !.rev = meta.rev + 1]
        PROVE  ExactInv'
    <3>1. Cardinality(Owners') = Cardinality(Owners) - 1 /\ IsFiniteSet(Owners')
      BY <2>3, OwnersFinite
    <3>2. Cardinality(Owners') # 0
      BY <2>3, <3>1, OwnersFinite DEF ExactInv
    <3>3. Owners' # {}
      BY <3>2, FS_EmptySet
    <3> QED
      BY <1>1, <2>3, <3>1, <3>3 DEF ExactInv, Metas
  <2>4. ASSUME NEW u \in Owners, NEW v \in Users \ Owners,
               Owners' = (Owners \ {u}) \union {v},
               meta' = [meta EXCEPT !.rev = meta.rev + 1]
        PROVE  ExactInv'
    <3>1. Cardinality(Owners') = Cardinality(Owners)
      BY <2>4, OwnersFinite
    <3> QED
      BY <1>1, <2>4, <3>1 DEF ExactInv, Metas
  <2> QED
    BY <1>2, <2>1, <2>2, <2>3, <2>4 DEF OwnersMove
<1>3. CASE CheckerStep /\ Owners' = Owners
  <2>1. CASE meta' = meta
    BY <1>3, <2>1 DEF ExactInv
  <2>2. CASE meta' # meta
    <3>1. Repair
      BY <1>3, <2>2 DEF CheckerStep, StartRecount, ReadRow
    <3>2. meta' = [meta EXCEPT !.exists = TRUE, !.count = Cardinality(Owners)]
      BY <2>2, <3>1, RepairIsExact
    <3> QED
      BY <1>1, <1>3, <3>2 DEF ExactInv, Metas
  <2> QED
    BY <2>1, <2>2
<1> QED
  BY <1>2, <1>3, OwnersStep

THEOREM CountingInvariant ==
    ASSUME ~Drifted
    PROVE  Spec => [](IInv /\ ExactInv)
<1>1. Init => IInv /\ ExactInv
  BY IInvInit, ExactInit
<1>2. IInv /\ ExactInv /\ [Next]_vars => (IInv /\ ExactInv)'
  BY IInvStep, ExactStep
<1> QED
  BY <1>1, <1>2, PTL DEF Spec

\* Where it started exact, the owner counter is the number of Owners for ever,
\* whatever demotions, removals, transfers, joins and recounts interleave
\* (ownerCountItem and the role conditions it rides beside).
THEOREM OwnersCounted ==
    ASSUME ~Drifted
    PROVE  Spec => []OwnerCountExact
<1>1. ExactInv => OwnerCountExact
  BY DEF ExactInv, OwnerCountExact
<1> QED
  BY CountingInvariant, <1>1, PTL

\* The organization implements OwnerSeats: there is always an Owner, and each
\* transaction moves at most one seat (the last-Owner guard).
THEOREM OwnerSeatsImplemented ==
    ASSUME ~Drifted
    PROVE  Spec => SeatsAreKept
<1>1. Init => Seats!Init
  BY DEF Init, Seats!Init, Owners
<1>2. IInv /\ ExactInv /\ [Next]_vars => [Seats!Next]_Owners
  <2> SUFFICES ASSUME IInv, ExactInv, [Next]_vars
               PROVE  [Seats!Next]_Owners
    OBVIOUS
  <2>1. CASE Owners' = Owners
    BY <2>1
  <2>2. ASSUME NEW u \in Users \ Owners, Owners' = Owners \union {u}
        PROVE  Seats!Next
    BY <2>2 DEF Seats!Next, Seats!Gain
  <2>3. ASSUME NEW u \in Owners, Owners' = Owners \ {u}, meta.count > 1
        PROVE  Seats!Next
    <3>1. Owners # {u}
      <4>1. Cardinality({u}) = 1
        BY FS_Singleton
      <4> QED
        BY <2>3, <4>1 DEF ExactInv
    <3> QED
      BY <2>3, <3>1 DEF Seats!Next, Seats!Lose
  <2>4. ASSUME NEW u \in Owners, NEW v \in Users \ Owners,
               Owners' = (Owners \ {u}) \union {v}
        PROVE  Seats!Next
    BY <2>4 DEF Seats!Next, Seats!Transfer
  <2> QED
    BY <2>1, <2>2, <2>3, <2>4, OwnersStep DEF OwnersMove
<1> QED
  BY CountingInvariant, <1>1, <1>2, PTL DEF Spec, SeatsAreKept, Seats!Spec

\* Even where the counter had drifted, what the checker writes is the number of
\* Owners there are at that moment, however many changes its paged recount
\* straddled (repairCounter's condition on the revision).
THEOREM RepairsAreTrue == Spec => RepairWritesTheTruth
<1> DEFINE A == checker.pc = "paging" /\ checker'.pc = "idle" /\ meta' # meta
                  => meta'.count = Cardinality(Owners)
<1>1. IInv /\ [Next]_vars => [A]_vars
  <2> SUFFICES ASSUME IInv, [Next]_vars, checker.pc = "paging",
                      checker'.pc = "idle", meta' # meta
               PROVE  meta'.count = Cardinality(Owners)
    OBVIOUS
  <2>1. CheckerStep
    BY OwnersStep
  <2>2. Repair
    BY <2>1 DEF CheckerStep, StartRecount, ReadRow
  <2>3. meta \in Metas
    BY DEF IInv, TypeOK
  <2> QED
    BY <2>2, <2>3, RepairIsExact DEF Metas
<1> QED
  BY InductiveInvariant, <1>1, PTL DEF Spec, RepairWritesTheTruth
=============================================================================
