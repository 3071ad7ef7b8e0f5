------------------------- MODULE OrgInvitationProofs -------------------------
(***************************************************************************)
(* Proofs about the invitations of OrgMembership: an invitation is settled *)
(* once, what a committed change swept is dead for good, and two working   *)
(* links to one address take a request that listed before it read the      *)
(* claim.                                                                  *)
(*                                                                         *)
(* The first two rest on Ages, what a step may do to an invitation.  The   *)
(* third is the argument for the order of create-invitation's two reads:   *)
(* a claim always names an invitation that was fresh when it was placed,   *)
(* so while it is the one a request read, nobody wrote a link to that      *)
(* address, and a list read after it shows every one there is.             *)
(***************************************************************************)
EXTENDS OrgMembershipProofs, SequenceTheorems

Membership == {"change", "remove", "transfer"}

\* The orders the two reads of a creation are answered in.
ReadsInv(r) ==
    /\ req[r].reads \in {<<>>, <<"list">>, <<"claim">>,
                         <<"list", "claim">>, <<"claim", "list">>}
    /\ req[r].pc = "idle" => req[r].reads = <<>>

OnceDone(r) == req[r].outcome # "none" => req[r].pc = "done"

\* The invitation a committed creation wrote is there, to whom it was for.
OwnLink(r) ==
    req[r].kind = "create" /\ req[r].outcome = "committed" =>
        /\ req[r].invite \in Invites
        /\ invite[req[r].invite].status # "absent"
        /\ invite[req[r].invite].to = req[r].user

\* A claim names an invitation that has been written, on the row and as read.
ClaimsPlaced == \A u \in Users : claim[u] \in Invites => invite[claim[u]].status # "absent"
ClaimKnown(r) == req[r].claimed \in Invites => invite[req[r].claimed].status # "absent"

\* A list read after the claim is complete while the claim is held.
ListedAll(r) ==
    (/\ At(r, {"create"}, "read")
     /\ req[r].reads = <<"claim", "list">>
     /\ ClaimHeld(r))
    => UsableTo(req[r].user) \subseteq req[r].sweep

LinkInv ==
    /\ \A r \in Reqs : ReadsInv(r) /\ OnceDone(r) /\ OwnLink(r)
                       /\ ClaimKnown(r) /\ ListedAll(r)
    /\ ClaimsPlaced
    /\ SweptInvitationsAreDead
    /\ TwoLinksTakeAnEarlyList

\* What one step may do to an invitation.
Ages(i) ==
    /\ invite[i].status # "absent" =>
          invite'[i].status # "absent" /\ invite'[i].to = invite[i].to
    /\ invite[i].status \in {"accepted", "revoked"} => invite'[i].status = invite[i].status
    /\ Usable(i)' => Usable(i) \/ \E r \in Reqs : WriteInvitation(r, i)

\* A step of a request that none of this depends on.
Quiet(s) ==
    /\ req'[s].reads = req[s].reads
    /\ req'[s].claimed = req[s].claimed
    /\ req'[s].pc # "idle"
    /\ req'[s].outcome # "none" => req'[s].pc = "done"
    /\ req'[s].kind = "create" /\ req'[s].pc = "read" => req'[s].reads = <<>>
    /\ req'[s].outcome = "committed" => req'[s].kind \notin Membership \union {"create"}

-----------------------------------------------------------------------------
(* What a step does to the invitations.                                    *)

\* Retiring pending invitations only moves them on.
LEMMA RetiredAges ==
    ASSUME TypeOK, NEW S, AllPending(S), NEW s \in {"accepted", "revoked"},
           invite' = Retired(S, s)
    PROVE  \A i \in Invites : Ages(i)
<1> SUFFICES ASSUME NEW i \in Invites
             PROVE  Ages(i)
  OBVIOUS
<1>1. invite[i] \in Invitations
  BY DEF TypeOK
<1>2. invite'[i] = IF i \in S THEN [invite[i] EXCEPT !.status = s] ELSE invite[i]
  BY DEF Retired
<1>3. i \in S => invite[i].status = "pending"
  BY DEF AllPending, Pending
<1> QED
  BY <1>1, <1>2, <1>3 DEF Ages, Usable, Pending, Invitations

LEMMA SameAges ==
    ASSUME invite' = invite
    PROVE  \A i \in Invites : Ages(i)
BY DEF Ages, Usable, Pending

\* A write puts a pending invitation where there was none, and retires the rest.
LEMMA WriteAges ==
    ASSUME TypeOK, NEW r \in Reqs, NEW w \in Invites, WriteInvitation(r, w)
    PROVE  \A i \in Invites : Ages(i)
<1> SUFFICES ASSUME NEW i \in Invites
             PROVE  Ages(i)
  OBVIOUS
<1>1. invite[i] \in Invitations
  BY DEF TypeOK
<1>2. CASE i = w
  BY <1>2 DEF Ages, WriteInvitation
<1>3. CASE i # w
  <2>1. invite'[i] = Retired(req[r].sweep, "revoked")[i]
    BY <1>3 DEF WriteInvitation, Retired
  <2>2. invite'[i] = IF i \in req[r].sweep
                       THEN [invite[i] EXCEPT !.status = "revoked"] ELSE invite[i]
    BY <2>1 DEF Retired
  <2>3. i \in req[r].sweep => invite[i].status = "pending"
    BY DEF WriteInvitation, AllPending, Pending
  <2> QED
    BY <1>1, <2>2, <2>3 DEF Ages, Usable, Pending, Invitations
<1> QED
  BY <1>2, <1>3

\* So only the invitation written may become usable.
LEMMA WriteUsable ==
    ASSUME TypeOK, NEW r \in Reqs, NEW w \in Invites, WriteInvitation(r, w)
    PROVE  \A i \in Invites \ {w} : Usable(i)' => Usable(i)
<1> SUFFICES ASSUME NEW i \in Invites \ {w}, Usable(i)'
             PROVE  Usable(i)
  OBVIOUS
<1>1. invite[i] \in Invitations
  BY DEF TypeOK
<1>2. invite'[i] = IF i \in req[r].sweep
                     THEN [invite[i] EXCEPT !.status = "revoked"] ELSE invite[i]
  BY DEF WriteInvitation, Retired
<1> QED
  BY <1>1, <1>2 DEF Usable, Pending, Invitations

LEMMA ExpireAges ==
    ASSUME TypeOK, NEW x \in Invites, Expire(x)
    PROVE  \A i \in Invites : Ages(i)
<1> SUFFICES ASSUME NEW i \in Invites
             PROVE  Ages(i)
  OBVIOUS
<1>1. invite[i] \in Invitations
  BY DEF TypeOK
<1>2. invite'[i] = IF i = x THEN [invite[i] EXCEPT !.expired = TRUE] ELSE invite[i]
  BY DEF Expire, TypeOK
<1> QED
  BY <1>1, <1>2 DEF Ages, Usable, Pending, Invitations

LEMMA InvitesAge ==
    ASSUME IInv, [Next]_vars
    PROVE  \A i \in Invites : Ages(i)
<1>1. TypeOK
  BY DEF IInv
<1>2. CASE UNCHANGED vars
  BY <1>2, SameAges DEF vars
<1>3. ASSUME NEW r \in Reqs, InvitationStep(r)
      PROVE  \A i \in Invites : Ages(i)
  <2>1. CASE \E w \in Invites : WriteInvitation(r, w)
    BY <1>1, <2>1, WriteAges
  <2>2. CASE CommitRevoke(r)
    BY <1>1, <2>2, RetiredAges, SameAges DEF CommitRevoke
  <2>3. CASE CommitAccept(r)
    BY <1>1, <2>3, RetiredAges DEF CommitAccept
  <2>4. CASE RetireAfterRace(r)
    BY <1>1, <2>4, RetiredAges, SameAges DEF RetireAfterRace
  <2>5. CASE invite' = invite
    BY <2>5, SameAges
  <2> QED
    BY <1>3, <2>1, <2>2, <2>3, <2>4, <2>5 DEF InvitationStep, CreateInvitation,
       ListInvitations, ReadClaim, InvitationRefused, RevokeInvitation,
       AcceptInvitation, ReadMembership, AcceptCancelled, RereadMembership
<1>4. ASSUME NEW r \in Reqs, MembershipStep(r)
      PROVE  \A i \in Invites : Ages(i)
  <2>1. CASE CommitMembership(r)
    BY <1>1, <2>1, RetiredAges DEF CommitMembership
  <2>2. CASE invite' = invite
    BY <2>2, SameAges
  <2> QED
    BY <1>4, <2>1, <2>2 DEF MembershipStep, ChangeRole, RemoveMember,
       TransferOwnership, ReadSweep, MembershipCancelled
<1>5. ASSUME NEW i \in Invites, Expire(i)
      PROVE  \A j \in Invites : Ages(j)
  BY <1>1, <1>5, ExpireAges
<1>6. CASE CheckerStep
  BY <1>6, SameAges DEF CheckerStep, StartRecount, ReadRow, Repair
<1> QED
  BY <1>2, <1>3, <1>4, <1>5, <1>6 DEF Next

-----------------------------------------------------------------------------
(* What a step does to the requests.                                       *)

LEMMA OthersStay ==
    ASSUME TypeOK, NEW r \in Reqs, NEW q, Becomes(r, q)
    PROVE  req' = [s \in Reqs |-> IF s = r THEN q ELSE req[s]]
BY DEF TypeOK, Becomes

\* An answer that is not the commit of one of these is quiet.
LEMMA QuietAnswer ==
    ASSUME TypeOK, NEW r \in Reqs, NEW o \in Outcomes, Answers(r, o),
           o = "committed" => req[r].kind \notin Membership \union {"create"}
    PROVE  \A s \in Reqs : req'[s] = req[s] \/ Quiet(s)
<1> DEFINE q == [req[r] EXCEPT !.pc = "done", !.outcome = o]
<1>1. req[r] \in Requests
  BY DEF TypeOK
<1>2. /\ q.reads = req[r].reads /\ q.claimed = req[r].claimed
      /\ q.pc = "done" /\ q.outcome = o /\ q.kind = req[r].kind
  BY <1>1 DEF Requests
<1>3. Becomes(r, q)
  BY DEF Answers
<1> HIDE DEF q
<1>4. \A s \in Reqs : req'[s] = IF s = r THEN q ELSE req[s]
  BY <1>3, OthersStay
<1> QED
  BY <1>2, <1>4 DEF Quiet

\* So is a step that answers nothing, and is not a read of a creation.
LEMMA QuietStep ==
    ASSUME TypeOK, NEW r \in Reqs, NEW q, Becomes(r, q),
           OnceDone(r), ReadsInv(r), req[r].pc # "done",
           q.reads = req[r].reads, q.claimed = req[r].claimed,
           q.outcome = req[r].outcome, q.pc # "idle",
           (q.kind = "create" /\ q.pc = "read") => req[r].pc = "idle"
    PROVE  \A s \in Reqs : req'[s] = req[s] \/ Quiet(s)
<1>1. \A s \in Reqs : req'[s] = IF s = r THEN q ELSE req[s]
  BY OthersStay
<1>2. q.outcome = "none"
  BY DEF OnceDone
<1> QED
  BY <1>1, <1>2 DEF Quiet, ReadsInv

\* The four steps the invariant is about.
Speaks(s) ==
    \/ ListInvitations(s)
    \/ ReadClaim(s)
    \/ \E i \in Invites : WriteInvitation(s, i)
    \/ CommitMembership(s)

LEMMA SpeaksAlone ==
    ASSUME TypeOK, NEW r \in Reqs, Speaks(r)
    PROVE  \A s \in Reqs : req'[s] = req[s] \/ Speaks(s)
<1>1. PICK q : Becomes(r, q)
  BY DEF Speaks, ListInvitations, ReadClaim, WriteInvitation, CommitMembership, Answers
<1> QED
  BY <1>1, OthersStay

LEMMA InvitationRequestMoves ==
    ASSUME IInv, LinkInv, NEW r \in Reqs, InvitationStep(r)
    PROVE  \A s \in Reqs : req'[s] = req[s] \/ Quiet(s) \/ Speaks(s)
<1> USE DEF Membership
<1>1. TypeOK /\ req[r] \in Requests /\ OnceDone(r) /\ ReadsInv(r)
  BY DEF IInv, TypeOK, LinkInv
<1>2. CASE \E m, u \in Users, x \in Roles : CreateInvitation(r, m, u, x)
  <2>1. PICK m \in Users, u \in Users, x \in Roles : CreateInvitation(r, m, u, x)
    BY <1>2
  <2> DEFINE q == [req[r] EXCEPT !.kind = "create", !.pc = "read",
                                 !.by = m, !.user = u, !.to = x]
  <2>2. Becomes(r, q) /\ req[r].pc = "idle"
    BY <2>1 DEF CreateInvitation, At
  <2>3. /\ q.reads = req[r].reads /\ q.claimed = req[r].claimed
        /\ q.outcome = req[r].outcome /\ q.pc = "read"
    BY <1>1 DEF Requests
  <2> HIDE DEF q
  <2> QED
    BY <1>1, <2>2, <2>3, QuietStep
<1>3. CASE Speaks(r)
  BY <1>1, <1>3, SpeaksAlone
<1>4. CASE InvitationRefused(r)
  BY <1>1, <1>4, QuietAnswer DEF InvitationRefused, Outcomes
<1>5. CASE \E m \in Users, i \in Invites : RevokeInvitation(r, m, i)
  <2>1. PICK m \in Users, i \in Invites : RevokeInvitation(r, m, i)
    BY <1>5
  <2> DEFINE q == [req[r] EXCEPT !.kind = "revoke", !.pc = "write", !.by = m,
                                 !.invite = i, !.sweep = {i}]
  <2>2. Becomes(r, q) /\ req[r].pc = "idle"
    BY <2>1 DEF RevokeInvitation, At
  <2>3. /\ q.reads = req[r].reads /\ q.claimed = req[r].claimed
        /\ q.outcome = req[r].outcome /\ q.pc = "write"
    BY <1>1 DEF Requests
  <2> HIDE DEF q
  <2> QED
    BY <1>1, <2>2, <2>3, QuietStep
<1>6. CASE CommitRevoke(r)
  BY <1>1, <1>6, QuietAnswer DEF CommitRevoke, Outcomes, At
<1>7. CASE \E i \in Invites : AcceptInvitation(r, i)
  <2>1. PICK i \in Invites : AcceptInvitation(r, i)
    BY <1>7
  <2> DEFINE q == [req[r] EXCEPT !.kind = "accept", !.pc = "read", !.invite = i,
             !.user = invite[i].to, !.to = invite[i].role, !.by = invite[i].by]
  <2>2. Becomes(r, q) /\ req[r].pc = "idle"
    BY <2>1 DEF AcceptInvitation, At
  <2>3. /\ q.reads = req[r].reads /\ q.claimed = req[r].claimed
        /\ q.outcome = req[r].outcome /\ q.pc = "read" /\ q.kind = "accept"
    BY <1>1 DEF Requests
  <2> HIDE DEF q
  <2> QED
    BY <1>1, <2>2, <2>3, QuietStep
<1>8. CASE ReadMembership(r)
  <2> DEFINE q == [req[r] EXCEPT !.pc = "write", !.member = role[req[r].user] # NoRole]
  <2>1. Becomes(r, q) /\ req[r].pc = "read"
    BY <1>8 DEF ReadMembership, At
  <2>2. /\ q.reads = req[r].reads /\ q.claimed = req[r].claimed
        /\ q.outcome = req[r].outcome /\ q.pc = "write"
    BY <1>1 DEF Requests
  <2> HIDE DEF q
  <2> QED
    BY <1>1, <2>1, <2>2, QuietStep
<1>9. CASE CommitAccept(r)
  BY <1>1, <1>9, QuietAnswer DEF CommitAccept, Outcomes, At
<1>10. ASSUME NEW p \in {"reread", "retire"}, Becomes(r, [req[r] EXCEPT !.pc = p]),
              req[r].pc # "done"
       PROVE  \A s \in Reqs : req'[s] = req[s] \/ Quiet(s) \/ Speaks(s)
  <2> DEFINE q == [req[r] EXCEPT !.pc = p]
  <2>1. /\ q.reads = req[r].reads /\ q.claimed = req[r].claimed
        /\ q.outcome = req[r].outcome /\ q.pc = p /\ Becomes(r, q)
    BY <1>1, <1>10 DEF Requests
  <2> HIDE DEF q
  <2> QED
    BY <1>1, <1>10, <2>1, QuietStep
<1>11. CASE AcceptCancelled(r)
  BY <1>1, <1>10, <1>11, QuietAnswer DEF AcceptCancelled, Outcomes, At
<1>12. CASE RereadMembership(r)
  BY <1>1, <1>10, <1>12, QuietAnswer DEF RereadMembership, Outcomes, At
<1>13. CASE RetireAfterRace(r)
  BY <1>1, <1>13, QuietAnswer DEF RetireAfterRace, Outcomes
<1> QED
  BY <1>2, <1>3, <1>4, <1>5, <1>6, <1>7, <1>8, <1>9, <1>11, <1>12, <1>13
     DEF InvitationStep, Speaks

LEMMA MembershipRequestMoves ==
    ASSUME IInv, LinkInv, NEW r \in Reqs, MembershipStep(r)
    PROVE  \A s \in Reqs : req'[s] = req[s] \/ Quiet(s) \/ Speaks(s)
<1>1. TypeOK /\ req[r] \in Requests /\ OnceDone(r) /\ ReadsInv(r)
  BY DEF IInv, TypeOK, LinkInv
<1>2. ASSUME NEW k \in Membership, NEW m, NEW u, NEW x, NEW y, req[r].pc = "idle",
             Becomes(r, [req[r] EXCEPT !.kind = k, !.pc = "sweep", !.by = m,
                                       !.user = u, !.from = x, !.to = y])
      PROVE  \A s \in Reqs : req'[s] = req[s] \/ Quiet(s) \/ Speaks(s)
  <2> DEFINE q == [req[r] EXCEPT !.kind = k, !.pc = "sweep", !.by = m,
                                 !.user = u, !.from = x, !.to = y]
  <2>1. /\ q.reads = req[r].reads /\ q.claimed = req[r].claimed
        /\ q.outcome = req[r].outcome /\ q.pc = "sweep" /\ Becomes(r, q)
    BY <1>1, <1>2 DEF Requests
  <2> HIDE DEF q
  <2> QED
    BY <1>1, <1>2, <2>1, QuietStep
<1>3. CASE \E m, u \in Users, x \in Roles : ChangeRole(r, m, u, x)
  BY <1>2, <1>3 DEF ChangeRole, At, Membership
<1>4. CASE \E m, u \in Users : RemoveMember(r, m, u)
  BY <1>2, <1>4 DEF RemoveMember, At, Membership
<1>5. CASE \E m, u \in Users : TransferOwnership(r, m, u)
  BY <1>2, <1>5 DEF TransferOwnership, At, Membership
<1>6. CASE ReadSweep(r)
  <2>1. CASE RefusedAhead(r)
    BY <1>1, <1>6, <2>1, QuietAnswer DEF ReadSweep, Outcomes
  <2>2. CASE ~RefusedAhead(r)
    <3>1. PICK known \in BOOLEAN :
             Becomes(r, [req[r] EXCEPT !.pc = "write", !.sweep = ToRetire(r, known)])
      BY <1>6, <2>2 DEF ReadSweep
    <3> DEFINE q == [req[r] EXCEPT !.pc = "write", !.sweep = ToRetire(r, known)]
    <3>2. /\ q.reads = req[r].reads /\ q.claimed = req[r].claimed
          /\ q.outcome = req[r].outcome /\ q.pc = "write" /\ Becomes(r, q)
      BY <1>1, <3>1 DEF Requests
    <3>3. req[r].pc = "sweep"
      BY <1>6 DEF ReadSweep, At
    <3> HIDE DEF q
    <3> QED
      BY <1>1, <3>2, <3>3, QuietStep
  <2> QED
    BY <2>1, <2>2
<1>7. CASE CommitMembership(r)
  BY <1>1, <1>7, SpeaksAlone DEF Speaks
<1>8. CASE MembershipCancelled(r)
  BY <1>1, <1>8, QuietAnswer DEF MembershipCancelled, Outcomes
<1> QED
  BY <1>3, <1>4, <1>5, <1>6, <1>7, <1>8 DEF MembershipStep

LEMMA RequestsMove ==
    ASSUME IInv, LinkInv, [Next]_vars
    PROVE  \A s \in Reqs : req'[s] = req[s] \/ Quiet(s) \/ Speaks(s)
<1>1. CASE UNCHANGED vars
  BY <1>1 DEF vars
<1>2. CASE \E r \in Reqs : InvitationStep(r) \/ MembershipStep(r)
  BY <1>2, InvitationRequestMoves, MembershipRequestMoves
<1>3. CASE CheckerStep \/ \E i \in Invites : Expire(i)
  BY <1>3 DEF CheckerStep, StartRecount, ReadRow, Repair, Expire
<1> QED
  BY <1>1, <1>2, <1>3 DEF Next

\* Nor does a step touch a claim, but the write that places one.
LEMMA ClaimsMove ==
    ASSUME [Next]_vars
    PROVE  \/ claim' = claim
           \/ \E r \in Reqs, i \in Invites : WriteInvitation(r, i)
<1>1. CASE UNCHANGED vars
  BY <1>1 DEF vars
<1>2. ASSUME NEW r \in Reqs, InvitationStep(r)
      PROVE  claim' = claim \/ \E i \in Invites : WriteInvitation(r, i)
  BY <1>2 DEF InvitationStep, CreateInvitation, ListInvitations, ReadClaim,
     InvitationRefused, RevokeInvitation, CommitRevoke, AcceptInvitation,
     ReadMembership, CommitAccept, AcceptCancelled, RereadMembership, RetireAfterRace
<1>3. ASSUME NEW r \in Reqs, MembershipStep(r)
      PROVE  claim' = claim
  BY <1>3 DEF MembershipStep, ChangeRole, RemoveMember, TransferOwnership, ReadSweep,
     CommitMembership, MembershipCancelled
<1>4. CASE CheckerStep \/ \E i \in Invites : Expire(i)
  BY <1>4 DEF CheckerStep, StartRecount, ReadRow, Repair, Expire
<1> QED
  BY <1>1, <1>2, <1>3, <1>4 DEF Next

-----------------------------------------------------------------------------
(* The invariant.                                                          *)

\* The fields the four steps leave or set.
LEMMA ListFields ==
    ASSUME TypeOK, NEW r \in Reqs, ListInvitations(r)
    PROVE  /\ req'[r].reads = Append(req[r].reads, "list")
           /\ req'[r].sweep = UsableTo(req[r].user)
           /\ req'[r].claimed = req[r].claimed /\ req'[r].outcome = req[r].outcome
           /\ req'[r].pc = "read" /\ req'[r].user = req[r].user
           /\ req'[r].kind = "create"
           /\ invite' = invite /\ claim' = claim
<1>1. req[r] \in Requests
  BY DEF TypeOK
<1>2. PICK f : Becomes(r, [req[r] EXCEPT !.reads = Append(req[r].reads, "list"),
                               !.sweep = UsableTo(req[r].user), !.full = f])
  BY DEF ListInvitations
<1>3. req'[r] = [req[r] EXCEPT !.reads = Append(req[r].reads, "list"),
                               !.sweep = UsableTo(req[r].user), !.full = f]
  BY <1>2, OthersStay
<1> QED
  BY <1>1, <1>3 DEF Requests, ListInvitations, At

LEMMA ClaimFields ==
    ASSUME TypeOK, NEW r \in Reqs, ReadClaim(r)
    PROVE  /\ req'[r].reads = Append(req[r].reads, "claim")
           /\ req'[r].claimed = claim[req[r].user]
           /\ req'[r].outcome = req[r].outcome
           /\ req'[r].pc = "read" /\ req'[r].user = req[r].user
           /\ req'[r].kind = "create"
           /\ invite' = invite /\ claim' = claim
<1>1. req[r] \in Requests
  BY DEF TypeOK
<1>2. req'[r] = [req[r] EXCEPT !.reads = Append(req[r].reads, "claim"),
                               !.claimed = claim[req[r].user]]
  BY OthersStay DEF ReadClaim
<1> QED
  BY <1>1, <1>2 DEF Requests, ReadClaim, At

LEMMA WriteFields ==
    ASSUME TypeOK, NEW r \in Reqs, NEW i \in Invites, WriteInvitation(r, i)
    PROVE  /\ req'[r].reads = req[r].reads /\ req'[r].claimed = req[r].claimed
           /\ req'[r].invite = i /\ req'[r].outcome = "committed"
           /\ req'[r].pc = "done" /\ req'[r].user = req[r].user
           /\ req'[r].kind = "create"
           /\ invite'[i].status = "pending" /\ invite'[i].to = req[r].user
           /\ \A j \in req[r].sweep \ {i} : j \in Invites => ~Usable(j)'
<1>1. req[r] \in Requests
  BY DEF TypeOK
<1>2. req'[r] = [req[r] EXCEPT !.pc = "done", !.invite = i, !.outcome = "committed"]
  BY OthersStay DEF WriteInvitation
<1>3. /\ req'[r].reads = req[r].reads /\ req'[r].claimed = req[r].claimed
      /\ req'[r].invite = i /\ req'[r].outcome = "committed"
      /\ req'[r].pc = "done" /\ req'[r].user = req[r].user
      /\ req'[r].kind = "create"
  BY <1>1, <1>2 DEF Requests, WriteInvitation, At
<1>4. invite' = [Retired(req[r].sweep, "revoked") EXCEPT ![i] =
                    [status |-> "pending", expired |-> FALSE, to |-> req[r].user,
                     by |-> req[r].by, role |-> req[r].to]]
  BY DEF WriteInvitation
<1>5. invite'[i].status = "pending" /\ invite'[i].to = req[r].user
  BY <1>4 DEF Retired
<1>6. ASSUME NEW j \in req[r].sweep \ {i}, j \in Invites
      PROVE  ~Usable(j)'
  <2>1. invite'[j] = [invite[j] EXCEPT !.status = "revoked"]
    BY <1>4, <1>6 DEF Retired
  <2>2. invite[j] \in Invitations
    BY <1>6 DEF TypeOK
  <2> QED
    BY <2>1, <2>2 DEF Usable, Pending, Invitations
<1> QED
  BY <1>3, <1>5, <1>6

LEMMA CommitFields ==
    ASSUME TypeOK, NEW r \in Reqs, CommitMembership(r)
    PROVE  /\ req'[r].reads = req[r].reads /\ req'[r].claimed = req[r].claimed
           /\ req'[r].kind = req[r].kind /\ req'[r].pc = "done"
           /\ req'[r].sweep = req[r].sweep
           /\ \A i \in req[r].sweep : invite'[i].status = "revoked"
<1>1. req[r] \in Requests
  BY DEF TypeOK
<1>2. req'[r] = [req[r] EXCEPT !.pc = "done", !.outcome = "committed"]
  BY OthersStay DEF CommitMembership, Answers
<1>3. ASSUME NEW i \in req[r].sweep
      PROVE  invite'[i].status = "revoked"
  <2>1. i \in Invites
    BY <1>1 DEF Requests
  <2>2. invite'[i] = [invite[i] EXCEPT !.status = "revoked"]
    BY <2>1 DEF CommitMembership, Retired
  <2>3. invite[i] \in Invitations
    BY <2>1 DEF TypeOK
  <2> QED
    BY <2>2, <2>3 DEF Invitations
<1> QED
  BY <1>1, <1>2, <1>3 DEF Requests

\* Two reads, in the order they were answered.
LEMMA AppendSecond ==
    ASSUME NEW S, NEW a \in S, NEW b \in S
    PROVE  Append(<<a>>, b) = <<a, b>>
<1> DEFINE T == Append(<<a>>, b)
           U == <<a, b>>
<1>1. <<a>> \in Seq(S) /\ U \in Seq(S) /\ Len(U) = 2 /\ Len(<<a>>) = 1
  OBVIOUS
<1>2. T \in Seq(S) /\ Len(T) = 2 /\ T[1] = a /\ T[2] = b
  BY <1>1, AppendProperties
<1>3. T[1] = U[1] /\ T[2] = U[2]
  BY <1>2
<1> HIDE DEF T, U
<1>4. Len(T) = Len(U) /\ \A i \in 1..Len(T) : T[i] = U[i]
  BY <1>1, <1>2, <1>3
<1>5. T = U
  BY <1>1, <1>2, <1>4, SeqEqual
<1> QED
  BY <1>5 DEF T, U

LEMMA ReadsAppended ==
    /\ Append(<<>>, "list") = <<"list">> /\ Append(<<>>, "claim") = <<"claim">>
    /\ Append(<<"claim">>, "list") = <<"claim", "list">>
    /\ Append(<<"list">>, "claim") = <<"list", "claim">>
<1>1. Append(<<>>, "list") = <<"list">> /\ Append(<<>>, "claim") = <<"claim">>
  OBVIOUS
<1>2. ASSUME NEW a \in {"list", "claim"}, NEW b \in {"list", "claim"}
      PROVE  Append(<<a>>, b) = <<a, b>>
  BY AppendSecond
<1>3. Append(<<"claim">>, "list") = <<"claim", "list">>
  BY <1>2
<1>4. Append(<<"list">>, "claim") = <<"list", "claim">>
  BY <1>2
<1> QED
  BY <1>1, <1>3, <1>4

LEMMA ReadsStep ==
    ASSUME IInv, LinkInv, [Next]_vars, NEW r \in Reqs
    PROVE  ReadsInv(r)' /\ OnceDone(r)'
<1>1. TypeOK /\ ReadsInv(r) /\ OnceDone(r)
  BY DEF IInv, LinkInv
<1>2. CASE req'[r] = req[r]
  BY <1>1, <1>2 DEF ReadsInv, OnceDone
<1>3. CASE Quiet(r)
  BY <1>1, <1>3 DEF ReadsInv, OnceDone, Quiet
<1>4. CASE ListInvitations(r)
  <2>1. req[r].reads = <<>> \/ req[r].reads = <<"claim">>
    BY <1>4 DEF ListInvitations
  <2>2. Append(req[r].reads, "list") \in {<<"list">>, <<"claim", "list">>}
    BY <2>1, ReadsAppended
  <2>3. req[r].outcome = "none"
    BY <1>1, <1>4 DEF ListInvitations, At, OnceDone
  <2> QED
    BY <1>1, <1>4, <2>2, <2>3, ListFields DEF ReadsInv, OnceDone
<1>5. CASE ReadClaim(r)
  <2>1. req[r].reads = <<>> \/ req[r].reads = <<"list">>
    BY <1>5 DEF ReadClaim
  <2>2. Append(req[r].reads, "claim") \in {<<"claim">>, <<"list", "claim">>}
    BY <2>1, ReadsAppended
  <2>3. req[r].outcome = "none"
    BY <1>1, <1>5 DEF ReadClaim, At, OnceDone
  <2> QED
    BY <1>1, <1>5, <2>2, <2>3, ClaimFields DEF ReadsInv, OnceDone
<1>6. CASE \E i \in Invites : WriteInvitation(r, i)
  BY <1>1, <1>6, WriteFields DEF ReadsInv, OnceDone
<1>7. CASE CommitMembership(r)
  BY <1>1, <1>7, CommitFields DEF ReadsInv, OnceDone
<1> QED
  BY <1>2, <1>3, <1>4, <1>5, <1>6, <1>7, RequestsMove DEF Speaks

\* What is committed now was committed before, or is by this very step.
LEMMA CommittedBefore ==
    ASSUME IInv, LinkInv, [Next]_vars, NEW r \in Reqs,
           req'[r].outcome = "committed",
           req'[r].kind \in Membership \union {"create"}
    PROVE  \/ req'[r] = req[r]
           \/ \E i \in Invites : WriteInvitation(r, i)
           \/ CommitMembership(r)
<1>1. TypeOK /\ OnceDone(r)
  BY DEF IInv, LinkInv
<1>2. ~Quiet(r)
  BY DEF Quiet
<1>3. ASSUME ListInvitations(r) \/ ReadClaim(r)
      PROVE  FALSE
  <2>1. req[r].outcome = "committed"
    BY <1>1, <1>3, ListFields, ClaimFields
  <2> QED
    BY <1>1, <1>3, <2>1 DEF OnceDone, ListInvitations, ReadClaim, At
<1> QED
  BY <1>2, <1>3, RequestsMove DEF Speaks

\* A creation in its last state was committed by its write.
LEMMA CreatedBefore ==
    ASSUME IInv, LinkInv, [Next]_vars, NEW r \in Reqs,
           req'[r].outcome = "committed", req'[r].kind = "create"
    PROVE  req'[r] = req[r] \/ \E i \in Invites : WriteInvitation(r, i)
<1>1. ~CommitMembership(r)
  BY CommitFields DEF IInv, CommitMembership, At
<1> QED
  BY <1>1, CommittedBefore

LEMMA OwnLinkStep ==
    ASSUME IInv, LinkInv, [Next]_vars, NEW r \in Reqs
    PROVE  OwnLink(r)'
<1> SUFFICES ASSUME req'[r].kind = "create", req'[r].outcome = "committed"
             PROVE  /\ req'[r].invite \in Invites
                    /\ invite'[req'[r].invite].status # "absent"
                    /\ invite'[req'[r].invite].to = req'[r].user
  BY DEF OwnLink
<1>1. TypeOK /\ OwnLink(r)
  BY DEF IInv, LinkInv
<1>2. CASE req'[r] = req[r]
  BY <1>1, <1>2, InvitesAge DEF OwnLink, Ages
<1>3. CASE \E i \in Invites : WriteInvitation(r, i)
  BY <1>1, <1>3, WriteFields
<1> QED
  BY <1>2, <1>3, CreatedBefore

LEMMA ClaimsPlacedStep ==
    ASSUME IInv, LinkInv, [Next]_vars
    PROVE  ClaimsPlaced'
<1>1. TypeOK /\ ClaimsPlaced
  BY DEF IInv, LinkInv
<1>2. CASE claim' = claim
  BY <1>1, <1>2, InvitesAge DEF ClaimsPlaced, Ages
<1>3. CASE \E r \in Reqs, i \in Invites : WriteInvitation(r, i)
  <2>1. PICK r \in Reqs, i \in Invites : WriteInvitation(r, i)
    BY <1>3
  <2>2. invite'[i].status # "absent"
    BY <1>1, <2>1, WriteFields
  <2>3. \A u \in Users : claim'[u] = i \/ claim'[u] = claim[u]
    BY <1>1, <2>1 DEF WriteInvitation, TypeOK
  <2> QED
    BY <1>1, <2>2, <2>3, InvitesAge DEF ClaimsPlaced, Ages
<1> QED
  BY <1>2, <1>3, ClaimsMove

LEMMA ClaimKnownStep ==
    ASSUME IInv, LinkInv, [Next]_vars, NEW r \in Reqs
    PROVE  ClaimKnown(r)'
<1>1. TypeOK /\ ClaimKnown(r) /\ ClaimsPlaced /\ RequestInv(r)
  BY DEF IInv, LinkInv
<1>2. CASE req'[r].claimed = req[r].claimed
  BY <1>1, <1>2, InvitesAge DEF ClaimKnown, Ages
<1>3. CASE ReadClaim(r)
  <2>1. req[r].user \in Users
    BY <1>1, <1>3 DEF ReadClaim, At, RequestInv, AboutSomebody
  <2> QED
    BY <1>1, <1>3, <2>1, ClaimFields DEF ClaimKnown, ClaimsPlaced
<1> QED
  BY <1>1, <1>2, <1>3, RequestsMove, ListFields, WriteFields, CommitFields
     DEF Speaks, Quiet

\* The heart: no link appears to an address whose claim is the one read.
LEMMA ListedAllStep ==
    ASSUME IInv, LinkInv, [Next]_vars, NEW r \in Reqs
    PROVE  ListedAll(r)'
<1> SUFFICES ASSUME req'[r].kind = "create", req'[r].pc = "read",
                    req'[r].reads = <<"claim", "list">>,
                    claim'[req'[r].user] = req'[r].claimed,
                    NEW j \in Invites, Usable(j)', invite'[j].to = req'[r].user
             PROVE  j \in req'[r].sweep
  BY DEF ListedAll, At, ClaimHeld, UsableTo
<1>1. TypeOK /\ RequestInv(r) /\ ListedAll(r) /\ ReadsInv(r) /\ ClaimKnown(r)
  BY DEF IInv, LinkInv
<1>2. CASE req'[r] = req[r]
  <2>1. req[r].user \in Users
    BY <1>1, <1>2 DEF RequestInv, AboutSomebody
  <2>2. ASSUME NEW q \in Reqs, WriteInvitation(q, j)
        PROVE  FALSE
    <3>1. invite'[j].to = req[q].user /\ claim' = [claim EXCEPT ![req[q].user] = j]
      BY <1>1, <2>2, WriteFields DEF WriteInvitation
    <3>2. req[r].claimed = j
      BY <1>1, <1>2, <2>1, <3>1 DEF TypeOK
    <3> QED
      BY <1>1, <2>2, <3>2 DEF ClaimKnown, WriteInvitation
  <2>3. Usable(j)
    BY <2>2, InvitesAge DEF Ages
  <2>4. claim[req[r].user] = req[r].claimed
    <3>1. CASE claim' = claim
      BY <1>2, <3>1
    <3>2. ASSUME NEW q \in Reqs, NEW i \in Invites, WriteInvitation(q, i)
          PROVE  claim[req[r].user] = req[r].claimed
      <4>1. claim' = [claim EXCEPT ![req[q].user] = i]
        BY <3>2 DEF WriteInvitation
      <4>2. req[r].claimed # i
        BY <1>1, <3>2 DEF ClaimKnown, WriteInvitation
      <4> QED
        BY <1>1, <1>2, <2>1, <4>1, <4>2 DEF TypeOK
    <3> QED
      BY <3>1, <3>2, ClaimsMove
  <2>5. invite[j].to = req[r].user
    BY <1>2, <2>3, InvitesAge DEF Ages, Usable, Pending
  <2> QED
    BY <1>1, <1>2, <2>3, <2>4, <2>5 DEF ListedAll, At, ClaimHeld, UsableTo
<1>3. CASE ListInvitations(r)
  BY <1>1, <1>3, ListFields DEF UsableTo, Usable, Pending
<1>4. CASE ReadClaim(r)
  <2>1. req[r].reads = <<>> \/ req[r].reads = <<"list">>
    BY <1>4 DEF ReadClaim
  <2>2. Append(req[r].reads, "claim") # <<"claim", "list">>
    BY <2>1, ReadsAppended
  <2> QED
    BY <1>1, <1>4, <2>2, ClaimFields
<1>5. CASE \E i \in Invites : WriteInvitation(r, i)
  BY <1>1, <1>5, WriteFields
<1>6. CASE CommitMembership(r)
  BY <1>1, <1>6, CommitFields
<1>7. CASE Quiet(r)
  BY <1>7 DEF Quiet
<1> QED
  BY <1>2, <1>3, <1>4, <1>5, <1>6, <1>7, RequestsMove DEF Speaks

LEMMA SweptStep ==
    ASSUME IInv, LinkInv, [Next]_vars
    PROVE  SweptInvitationsAreDead'
<1> SUFFICES ASSUME NEW r \in Reqs, req'[r].outcome = "committed",
                    req'[r].kind \in Membership, NEW i \in req'[r].sweep
             PROVE  invite'[i].status = "revoked"
  BY DEF SweptInvitationsAreDead, Membership
<1>1. TypeOK /\ SweptInvitationsAreDead /\ req[r] \in Requests
  BY DEF IInv, LinkInv, TypeOK
<1>2. CASE req'[r] = req[r]
  <2>1. i \in Invites
    BY <1>1, <1>2 DEF Requests
  <2>2. invite[i].status = "revoked"
    BY <1>1, <1>2 DEF SweptInvitationsAreDead, Membership
  <2> QED
    BY <2>1, <2>2, InvitesAge DEF Ages
<1>3. CASE \E w \in Invites : WriteInvitation(r, w)
  BY <1>1, <1>3, WriteFields DEF Membership
<1>4. CASE CommitMembership(r)
  BY <1>1, <1>4, CommitFields
<1> QED
  BY <1>2, <1>3, <1>4, CommittedBefore

\* The later of two links, if its creation read the claim first, retired the
\* earlier.
LEMMA LaterReplaces ==
    ASSUME IInv, LinkInv, [Next]_vars, NEW r \in Reqs, NEW q \in Reqs, TwoLive(r, q)',
           NEW i \in Invites, WriteInvitation(r, i), req'[q] = req[q]
    PROVE  req'[r].reads = <<"list", "claim">>
<1>1. /\ TypeOK /\ ReadsInv(r) /\ OwnLink(q) /\ ListedAll(r)
      /\ r # q
  BY DEF IInv, LinkInv, TwoLive
<1>2. /\ req[q].kind = "create" /\ req[q].outcome = "committed"
      /\ req'[r].user = req[q].user /\ Usable(req[q].invite)'
  BY DEF TwoLive, Usable, Pending
<1> DEFINE j == req[q].invite
<1>3. j \in Invites /\ invite[j].status # "absent" /\ invite[j].to = req[q].user
  BY <1>1, <1>2 DEF OwnLink
<1>4. j # i
  BY <1>3 DEF WriteInvitation
<1>5. Usable(j)
  BY <1>1, <1>2, <1>3, <1>4, WriteUsable
<1>6. req'[r].user = req[r].user /\ req'[r].reads = req[r].reads
  BY <1>1, WriteFields
<1>7. j \in UsableTo(req[r].user)
  BY <1>2, <1>3, <1>5, <1>6 DEF UsableTo
<1>8. j \notin req[r].sweep
  BY <1>1, <1>2, <1>3, <1>4, WriteFields
<1>9. req[r].reads # <<"claim", "list">>
  BY <1>1, <1>7, <1>8 DEF ListedAll, WriteInvitation
<1>10. req[r].reads \in {<<"list", "claim">>, <<"claim", "list">>}
  <2>1. Len(req[r].reads) = 2
    BY DEF WriteInvitation
  <2>2. Len(<<>>) # 2 /\ Len(<<"list">>) # 2 /\ Len(<<"claim">>) # 2
    OBVIOUS
  <2> QED
    BY <1>1, <2>1, <2>2 DEF ReadsInv
<1> QED
  BY <1>6, <1>9, <1>10

LEMMA TwoLinksStep ==
    ASSUME IInv, LinkInv, [Next]_vars
    PROVE  TwoLinksTakeAnEarlyList'
<1> SUFFICES ASSUME NEW r \in Reqs, NEW q \in Reqs, TwoLive(r, q)'
             PROVE  \E s \in {r, q} : req'[s].reads = <<"list", "claim">>
  BY DEF TwoLinksTakeAnEarlyList
<1>1. TypeOK /\ TwoLinksTakeAnEarlyList /\ OwnLink(r) /\ OwnLink(q)
  BY DEF IInv, LinkInv
<1>2. /\ req'[r].outcome = "committed" /\ req'[r].kind = "create"
      /\ req'[q].outcome = "committed" /\ req'[q].kind = "create"
      /\ r # q /\ TwoLive(q, r)'
  BY DEF TwoLive
<1>3. CASE req'[r] = req[r] /\ req'[q] = req[q]
  <2>1. CASE \E s \in Reqs, i \in Invites : WriteInvitation(s, i)
    <3>1. PICK s \in Reqs, i \in Invites : WriteInvitation(s, i)
      BY <2>1
    <3>2. req[r].invite # i /\ req[q].invite # i
      BY <1>1, <1>2, <1>3, <3>1 DEF OwnLink, WriteInvitation
    <3>3. \A k \in Invites \ {i} : Usable(k)' => Usable(k)
      BY <1>1, <3>1, WriteUsable
    <3> QED
      BY <1>1, <1>2, <1>3, <3>2, <3>3 DEF TwoLive, OwnLink, TwoLinksTakeAnEarlyList,
         Usable, Pending
  <2>2. CASE ~\E s \in Reqs, i \in Invites : WriteInvitation(s, i)
    <3>1. \A k \in Invites : Usable(k)' => Usable(k)
      BY <2>2, InvitesAge DEF Ages
    <3> QED
      BY <1>1, <1>2, <1>3, <3>1 DEF TwoLive, OwnLink, TwoLinksTakeAnEarlyList,
         Usable, Pending
  <2> QED
    BY <2>1, <2>2
<1>4. CASE (\E i \in Invites : WriteInvitation(r, i)) /\ req'[q] = req[q]
  BY <1>4, LaterReplaces
<1>5. CASE (\E i \in Invites : WriteInvitation(q, i)) /\ req'[r] = req[r]
  BY <1>2, <1>5, LaterReplaces
<1>6. ASSUME (\E i \in Invites : WriteInvitation(r, i)),
             (\E i \in Invites : WriteInvitation(q, i))
      PROVE  FALSE
  <2>1. PICK i \in Invites : WriteInvitation(r, i)
    BY <1>6
  <2>2. req'[q] = req[q]
    BY <1>1, <1>2, <2>1, OthersStay DEF WriteInvitation
  <2>3. req[q].pc = "read" /\ req'[q].pc = "done"
    BY <1>1, <1>6, WriteFields DEF WriteInvitation, At
  <2> QED
    BY <2>2, <2>3
<1> QED
  BY <1>2, <1>3, <1>4, <1>5, <1>6, CreatedBefore

LEMMA LinkInvInit == Init => LinkInv
<1> SUFFICES ASSUME Init
             PROVE  LinkInv
  OBVIOUS
<1>1. \A r \in Reqs : req[r] = IdleRequest
  BY DEF Init
<1>2. ASSUME NEW r \in Reqs
      PROVE  ReadsInv(r) /\ OnceDone(r) /\ OwnLink(r) /\ ClaimKnown(r) /\ ListedAll(r)
  BY <1>1, ConstantsAssumption DEF IdleRequest, ReadsInv, OnceDone, OwnLink,
     ClaimKnown, ListedAll, At
<1>3. ClaimsPlaced
  BY ConstantsAssumption DEF Init, ClaimsPlaced
<1>4. SweptInvitationsAreDead /\ TwoLinksTakeAnEarlyList
  BY <1>1 DEF SweptInvitationsAreDead, TwoLinksTakeAnEarlyList, TwoLive, IdleRequest
<1> QED
  BY <1>2, <1>3, <1>4 DEF LinkInv

LEMMA LinkInvStep ==
    ASSUME IInv, LinkInv, [Next]_vars
    PROVE  LinkInv'
BY ReadsStep, OwnLinkStep, ClaimKnownStep, ListedAllStep, ClaimsPlacedStep, SweptStep,
   TwoLinksStep DEF LinkInv

THEOREM LinkInvariant == Spec => []LinkInv
<1>1. LinkInv /\ IInv /\ [Next]_vars => LinkInv'
  BY LinkInvStep
<1> QED
  BY LinkInvInit, InductiveInvariant, <1>1, PTL DEF Spec

\* What a committed demotion, removal or transfer swept is revoked for good, for
\* any number of people, invitations and racing requests (pendingInvitations-
\* ForRemoval).
THEOREM SweptForGood == Spec => []SweptInvitationsAreDead
<1>1. LinkInv => SweptInvitationsAreDead
  BY DEF LinkInv
<1> QED
  BY LinkInvariant, <1>1, PTL

\* However many requests create invitations to one address, two of them leave a
\* working link each only where one listed before it read the claim
\* (inviteAddressClaimItem).
THEOREM EarlyListNeeded == Spec => []TwoLinksTakeAnEarlyList
<1>1. LinkInv => TwoLinksTakeAnEarlyList
  BY DEF LinkInv
<1> QED
  BY LinkInvariant, <1>1, PTL

\* No step unsettles an invitation: accepted stays accepted and revoked stays
\* revoked, whoever accepts, revokes, replaces or sweeps it (invitationStatusItem).
THEOREM SettledOnce == Spec => InvitationSettlesOnce
<1>1. IInv /\ [Next]_vars =>
        [\A i \in Invites : invite[i].status \in {"accepted", "revoked"} =>
             invite'[i].status = invite[i].status]_vars
  BY InvitesAge DEF Ages
<1> QED
  BY InductiveInvariant, <1>1, PTL DEF Spec, InvitationSettlesOnce
=============================================================================
