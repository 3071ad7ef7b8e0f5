---------------------------- MODULE OrgMembership ----------------------------
(***************************************************************************)
(* One organization's members, owner counter and invitations.              *)
(*                                                                         *)
(* Every request reads rows of OrgTable one await at a time and then writes*)
(* one conditional transaction.  Nothing is locked in between: what makes  *)
(* the writes safe is what the transaction's conditions say of the reads.  *)
(* The owner counter on the META row carries the last-Owner guard, and a   *)
(* scheduled job recounts the member rows, page by page, to repair it.     *)
(*                                                                         *)
(* A request that dies, or whose transaction the store cancels, is one that*)
(* takes no further step.  An operator named Bug... is a definition broken *)
(* on purpose: it is not part of Next, and shows which property notices.   *)
(***************************************************************************)
EXTENDS Integers, FiniteSets, Sequences

CONSTANTS
    Users,        \* people, each with the one address they sign in with
    Invites,      \* invitation ids
    Reqs,         \* request slots: each serves one request (a bound)
    Roles,        \* the roles asked for, a subset of the four
    MaxPending,   \* the cap on live invitations
    Drifted,      \* whether the counter may start out wrong or absent
    Recounts,     \* whether the drift checker runs
    NoUser, NoInvite

AllRoles == {"owner", "admin", "member", "read_only"}
NoRole == ""
NoCount == -1

ASSUME ConstantsAssumption ==
    /\ IsFiniteSet(Users)
    /\ NoUser \notin Users
    /\ NoInvite \notin Invites
    /\ Roles \subseteq AllRoles
    /\ MaxPending \in Nat
    /\ Drifted \in BOOLEAN
    /\ Recounts \in BOOLEAN

VARIABLES
    role,      \* the canonical membership rows
    meta,      \* the META row: the owner counter and its revision
    invite,    \* the invitation rows, each with its token
    claim,     \* the invitation that last claimed each address
    req,       \* the requests in flight and finished
    checker    \* the drift checker's recount in progress

vars == <<role, meta, invite, claim, req, checker>>

Owners == {u \in Users : role[u] = "owner"}

-----------------------------------------------------------------------------
(* permissions.ts: the target ceiling.                                     *)

CanManage(actor, target) ==
    /\ target \in AllRoles
    /\ actor = "owner" \/ (actor = "admin" /\ target # "owner")

\* ownerCountDeltaFor, and "none" where no counter item rides along.
DeltaFor(from, to) ==
    IF from = to THEN "none"
    ELSE IF to = "owner" THEN "increment"
    ELSE IF from = "owner" THEN "decrement" ELSE "none"

-----------------------------------------------------------------------------
Kinds == {"none", "create", "revoke", "accept", "change", "remove", "transfer"}
Phases == {"idle", "read", "sweep", "write", "reread", "retire", "done"}
Outcomes == {"none", "committed", "refused", "already_member"}

IdleRequest ==
    [kind |-> "none", pc |-> "idle", by |-> NoUser, user |-> NoUser,
     from |-> NoRole, to |-> NoRole, invite |-> NoInvite, sweep |-> {},
     claimed |-> NoInvite, reads |-> <<>>, full |-> FALSE, member |-> FALSE,
     outcome |-> "none"]

NoInvitation == [status |-> "absent", expired |-> FALSE, to |-> NoUser,
                 by |-> NoUser, role |-> "member"]

IdleChecker == [pc |-> "idle", meta |-> [exists |-> FALSE, count |-> NoCount, rev |-> 0],
                left |-> {}, members |-> {}, owners |-> {}]

\* rev 0 stands for a META row no owner-set transaction has touched.
Metas == [exists : BOOLEAN, count : Nat \union {NoCount}, rev : Nat]

Invitations == [status : {"absent", "pending", "accepted", "revoked"},
                expired : BOOLEAN, to : Users \union {NoUser},
                by : Users \union {NoUser}, role : AllRoles]

Requests == [kind : Kinds, pc : Phases, by : Users \union {NoUser},
             user : Users \union {NoUser}, from : AllRoles \union {NoRole},
             to : AllRoles \union {NoRole}, invite : Invites \union {NoInvite},
             sweep : SUBSET Invites, claimed : Invites \union {NoInvite},
             reads : Seq({"list", "claim"}),
             full : BOOLEAN, member : BOOLEAN, outcome : Outcomes]

Checkers == [pc : {"idle", "paging"}, meta : Metas, left : SUBSET Users,
             members : SUBSET Users, owners : SUBSET Users]

TypeOK ==
    /\ role \in [Users -> AllRoles \union {NoRole}]
    /\ meta \in Metas
    /\ invite \in [Invites -> Invitations]
    /\ claim \in [Users -> Invites \union {NoInvite}]
    /\ req \in [Reqs -> Requests]
    /\ checker \in Checkers

\* The counter a conversion wrote, or, where it may have drifted, any other.
InitialMeta ==
    \/ meta = [exists |-> TRUE, count |-> Cardinality(Owners), rev |-> 0]
    \/ Drifted /\ meta = [exists |-> FALSE, count |-> NoCount, rev |-> 0]
    \/ Drifted /\ \E n \in 0..Cardinality(Users) \union {NoCount} :
                     meta = [exists |-> TRUE, count |-> n, rev |-> 0]

Init ==
    /\ role \in [Users -> Roles \union {NoRole}]
    /\ Owners # {}
    /\ InitialMeta
    /\ invite = [i \in Invites |-> NoInvitation]
    /\ claim = [u \in Users |-> NoInvite]
    /\ req = [r \in Reqs |-> IdleRequest]
    /\ checker = IdleChecker

-----------------------------------------------------------------------------
At(r, kinds, pc) == req[r].kind \in kinds /\ req[r].pc = pc
Becomes(r, q) == req' = [req EXCEPT ![r] = q]
Answers(r, o) == Becomes(r, [req[r] EXCEPT !.pc = "done", !.outcome = o])

Pending(i) == invite[i].status = "pending"

\* isInvitationUsable: expiry is a comparison made by the reader.
Usable(i) == Pending(i) /\ ~invite[i].expired
UsableTo(u) == {i \in Invites : Usable(i) /\ invite[i].to = u}
UsableFrom(u) == {i \in Invites : Usable(i) /\ invite[i].by = u}

\* The conditions a transaction carries on the invitations it retires.
BugAllPending(S) == TRUE
AllPending(S) == \A i \in S : Pending(i)

BugRetired(S, s) ==
    [i \in Invites |-> IF i \in S THEN [invite[i] EXCEPT !.status = "expired"]
                                  ELSE invite[i]]

\* retireInvitationItems: the status, and the token goes with it.
Retired(S, s) ==
    [i \in Invites |-> IF i \in S THEN [invite[i] EXCEPT !.status = s] ELSE invite[i]]

CountAllows(delta) ==
    CASE delta = "increment" -> meta.count # NoCount
      [] delta = "decrement" -> meta.count > 1
      [] delta = "unchanged" -> meta.count # NoCount
      [] OTHER -> TRUE

BugCountItem(delta) ==
    meta' = CASE delta = "none" -> meta
              [] delta = "increment" -> [meta EXCEPT !.count = meta.count + 1, !.rev = meta.rev + 1]
              [] delta = "decrement" -> [meta EXCEPT !.count = meta.count - 1, !.rev = meta.rev + 1]
              [] OTHER -> [meta EXCEPT !.rev = meta.rev + 1]

\* ownerCountItem: the update every owner-set transaction carries, its
\* condition the last-Owner guard.
CountItem(delta) ==
    /\ CountAllows(delta)
    /\ meta' = CASE delta = "none" -> meta
                 [] delta = "increment" ->
                      [meta EXCEPT !.count = meta.count + 1, !.rev = meta.rev + 1]
                 [] delta = "decrement" ->
                      [meta EXCEPT !.count = meta.count - 1, !.rev = meta.rev + 1]
                 [] OTHER -> [meta EXCEPT !.rev = meta.rev + 1]

-----------------------------------------------------------------------------
(* POST /api/org/invitations: create-invitation.ts                         *)

\* The caller's membership snapshot clears the ceiling for the role invited.
CreateInvitation(r, m, u, x) ==
    /\ At(r, {"none"}, "idle")
    /\ CanManage(role[m], x)
    /\ Becomes(r, [req[r] EXCEPT !.kind = "create", !.pc = "read",
                                 !.by = m, !.user = u, !.to = x])
    /\ UNCHANGED <<role, meta, invite, claim, checker>>

\* The two reads are sent together and answered in either order: the live
\* invitations, which say what is replaced and whether the cap is reached...
ListInvitations(r) ==
    LET usable == {i \in Invites : Usable(i)}
        superseded == UsableTo(req[r].user)
    IN  /\ At(r, {"create"}, "read")
        /\ req[r].reads \in {<<>>, <<"claim">>}
        /\ Becomes(r, [req[r] EXCEPT
                 !.reads = Append(req[r].reads, "list"),
                 !.sweep = superseded,
                 !.full = Cardinality(usable \ superseded) >= MaxPending])
        /\ UNCHANGED <<role, meta, invite, claim, checker>>

\* ...and readInviteAddressClaim.
ReadClaim(r) ==
    /\ At(r, {"create"}, "read")
    /\ req[r].reads \in {<<>>, <<"list">>}
    /\ Becomes(r, [req[r] EXCEPT !.reads = Append(req[r].reads, "claim"),
                                 !.claimed = claim[req[r].user]])
    /\ UNCHANGED <<role, meta, invite, claim, checker>>

BugClaimHeld(r) == TRUE

\* inviteAddressClaimItem: the address still names what the request read.
ClaimHeld(r) == claim[req[r].user] = req[r].claimed

\* The claim, the retirements and the rows, in one transaction.
WriteInvitation(r, i) ==
    /\ At(r, {"create"}, "read")
    /\ Len(req[r].reads) = 2
    /\ ~req[r].full
    /\ ClaimHeld(r)
    /\ AllPending(req[r].sweep)
    /\ invite[i].status = "absent"
    /\ claim' = [claim EXCEPT ![req[r].user] = i]
    /\ invite' = [Retired(req[r].sweep, "revoked") EXCEPT ![i] =
                    [status |-> "pending", expired |-> FALSE, to |-> req[r].user,
                     by |-> req[r].by, role |-> req[r].to]]
    /\ Becomes(r, [req[r] EXCEPT !.pc = "done", !.invite = i, !.outcome = "committed"])
    /\ UNCHANGED <<role, meta, checker>>

\* The cap is reached, or a condition of the transaction fails.
InvitationRefused(r) ==
    /\ At(r, {"create"}, "read")
    /\ Len(req[r].reads) = 2
    /\ req[r].full \/ ~ClaimHeld(r) \/ ~AllPending(req[r].sweep)
    /\ Answers(r, "refused")
    /\ UNCHANGED <<role, meta, invite, claim, checker>>

\* Nothing is written when an invitation expires.
Expire(i) ==
    /\ Usable(i)
    /\ invite' = [invite EXCEPT ![i].expired = TRUE]
    /\ UNCHANGED <<role, meta, claim, req, checker>>

-----------------------------------------------------------------------------
(* DELETE /api/org/invitations/{inviteId}: revoke-invitation.ts            *)

RevokeInvitation(r, m, i) ==
    /\ At(r, {"none"}, "idle")
    /\ Pending(i)
    /\ CanManage(role[m], invite[i].role)
    /\ Becomes(r, [req[r] EXCEPT !.kind = "revoke", !.pc = "write", !.by = m,
                                 !.invite = i, !.sweep = {i}])
    /\ UNCHANGED <<role, meta, invite, claim, checker>>

CommitRevoke(r) ==
    /\ At(r, {"revoke"}, "write")
    /\ IF AllPending(req[r].sweep)
         THEN invite' = Retired(req[r].sweep, "revoked") /\ Answers(r, "committed")
         ELSE Answers(r, "refused") /\ UNCHANGED invite
    /\ UNCHANGED <<role, meta, claim, checker>>

-----------------------------------------------------------------------------
(* POST /api/invitations/accept: accept-invitation.ts                      *)

\* The token resolves to a usable invitation to the caller's address.
AcceptInvitation(r, i) ==
    /\ At(r, {"none"}, "idle")
    /\ Usable(i)
    /\ Becomes(r, [req[r] EXCEPT !.kind = "accept", !.pc = "read", !.invite = i,
                                 !.user = invite[i].to, !.to = invite[i].role,
                                 !.by = invite[i].by])
    /\ UNCHANGED <<role, meta, invite, claim, checker>>

ReadMembership(r) ==
    /\ At(r, {"accept"}, "read")
    /\ Becomes(r, [req[r] EXCEPT !.pc = "write", !.member = role[req[r].user] # NoRole])
    /\ UNCHANGED <<role, meta, invite, claim, checker>>

\* joinItems: the membership row is create-only, and the inviter's row still
\* carries a role that may invite this one.
MayJoin(r) ==
    /\ role[req[r].user] = NoRole
    /\ CanManage(role[req[r].by], req[r].to)

CommitAccept(r) ==
    /\ At(r, {"accept"}, "write")
    /\ AllPending({req[r].invite})
    /\ \/ /\ req[r].member
          /\ UNCHANGED <<role, meta>>
       \/ /\ ~req[r].member
          /\ MayJoin(r)
          /\ CountItem(DeltaFor(NoRole, req[r].to))
          /\ role' = [role EXCEPT ![req[r].user] = req[r].to]
    /\ invite' = Retired({req[r].invite}, "accepted")
    /\ Answers(r, "committed")
    /\ UNCHANGED <<claim, checker>>

\* A cancellation that names the membership row re-reads it; any other refuses.
AcceptCancelled(r) ==
    /\ At(r, {"accept"}, "write")
    /\ \/ ~AllPending({req[r].invite})
       \/ ~req[r].member /\ ~(MayJoin(r) /\ CountAllows(DeltaFor(NoRole, req[r].to)))
    /\ IF ~req[r].member /\ role[req[r].user] # NoRole
         THEN Becomes(r, [req[r] EXCEPT !.pc = "reread"])
         ELSE Answers(r, "refused")
    /\ UNCHANGED <<role, meta, invite, claim, checker>>

\* alreadyMemberResponse: in the organization after all, or gone again.
RereadMembership(r) ==
    /\ At(r, {"accept"}, "reread")
    /\ IF role[req[r].user] # NoRole
         THEN Becomes(r, [req[r] EXCEPT !.pc = "retire"])
         ELSE Answers(r, "refused")
    /\ UNCHANGED <<role, meta, invite, claim, checker>>

\* retireAfterRace: a transaction of its own, whose failure is only logged.
RetireAfterRace(r) ==
    /\ At(r, {"accept"}, "retire")
    /\ invite' = IF AllPending({req[r].invite})
                   THEN Retired({req[r].invite}, "accepted") ELSE invite
    /\ Answers(r, "already_member")
    /\ UNCHANGED <<role, meta, claim, checker>>

-----------------------------------------------------------------------------
(* PATCH and DELETE /api/org/members/{userId}, POST /api/org/transfer:     *)
(* update-member-role.ts, remove-member.ts and transfer-ownership.ts.      *)

\* requireManageableMember: the ceiling holds on both roles.
ChangeRole(r, m, u, x) ==
    /\ At(r, {"none"}, "idle")
    /\ CanManage(role[m], role[u])
    /\ CanManage(role[m], x)
    /\ x # role[u]
    /\ Becomes(r, [req[r] EXCEPT !.kind = "change", !.pc = "sweep", !.by = m,
                                 !.user = u, !.from = role[u], !.to = x])
    /\ UNCHANGED <<role, meta, invite, claim, checker>>

\* Leaving takes no permission; removing somebody else is held to the ceiling.
RemoveMember(r, m, u) ==
    /\ At(r, {"none"}, "idle")
    /\ role[u] # NoRole
    /\ m # u => CanManage(role[m], role[u])
    /\ Becomes(r, [req[r] EXCEPT !.kind = "remove", !.pc = "sweep", !.by = m,
                                 !.user = u, !.from = role[u], !.to = NoRole])
    /\ UNCHANGED <<role, meta, invite, claim, checker>>

TransferOwnership(r, m, u) ==
    /\ At(r, {"none"}, "idle")
    /\ role[m] = "owner"
    /\ role[u] \notin {"owner", NoRole}
    /\ Becomes(r, [req[r] EXCEPT !.kind = "transfer", !.pc = "sweep", !.by = m,
                                 !.user = u, !.from = role[u], !.to = "owner"])
    /\ UNCHANGED <<role, meta, invite, claim, checker>>

\* The invitations the change retires: those the target could not issue at the
\* new role; all of a removed member's, with those addressed to them when their
\* address is on file; and the outgoing owner's Owner invitations.
ToRetire(r, addressKnown) ==
    LET q == req[r] IN
    CASE q.kind = "change" -> {i \in UsableFrom(q.user) : ~CanManage(q.to, invite[i].role)}
      [] q.kind = "remove" -> UsableFrom(q.user) \union
                                (IF addressKnown THEN UsableTo(q.user) ELSE {})
      [] OTHER -> {i \in UsableFrom(q.by) : ~CanManage("admin", invite[i].role)}

OwnerDelta(r) ==
    IF req[r].kind = "transfer" THEN "unchanged" ELSE DeltaFor(req[r].from, req[r].to)

\* refuseBeforeRevokingKeys reads the counter ahead of the keys, which no
\* cancellation would give back.
RefusedAhead(r) ==
    CASE OwnerDelta(r) = "decrement" -> meta.count \in {1, NoCount}
      [] OwnerDelta(r) = "unchanged" -> meta.count = NoCount
      [] OTHER -> FALSE

ReadSweep(r) ==
    /\ At(r, {"change", "remove", "transfer"}, "sweep")
    /\ IF RefusedAhead(r)
         THEN Answers(r, "refused")
         ELSE \E known \in BOOLEAN :
                Becomes(r, [req[r] EXCEPT !.pc = "write", !.sweep = ToRetire(r, known)])
    /\ UNCHANGED <<role, meta, invite, claim, checker>>

BugRoleUnmoved(r) == role[req[r].user] # NoRole

\* The conditions on the membership rows: each still carries the role read.
RoleUnmoved(r) ==
    /\ role[req[r].user] = req[r].from
    /\ req[r].kind = "transfer" => role[req[r].by] = "owner"

RolesAfter(r) ==
    [u \in Users |-> IF u = req[r].user THEN req[r].to
                     ELSE IF req[r].kind = "transfer" /\ u = req[r].by THEN "admin"
                     ELSE role[u]]

\* Both rows, the counter and the retirements land together.  The keys pass in
\* between, which may end the request with nothing written, is MemberKeys.
CommitMembership(r) ==
    /\ At(r, {"change", "remove", "transfer"}, "write")
    /\ RoleUnmoved(r)
    /\ AllPending(req[r].sweep)
    /\ CountItem(OwnerDelta(r))
    /\ role' = RolesAfter(r)
    /\ invite' = Retired(req[r].sweep, "revoked")
    /\ Answers(r, "committed")
    /\ UNCHANGED <<claim, checker>>

MembershipCancelled(r) ==
    /\ At(r, {"change", "remove", "transfer"}, "write")
    /\ ~(RoleUnmoved(r) /\ AllPending(req[r].sweep) /\ CountAllows(OwnerDelta(r)))
    /\ Answers(r, "refused")
    /\ UNCHANGED <<role, meta, invite, claim, checker>>

-----------------------------------------------------------------------------
(* The scheduled recount: owner-count-drift-checker.ts                     *)

\* What the Scan leaves alone; a stale Scan may look at any organization.
LooksFine == meta.exists /\ meta.count = Cardinality(Owners) /\ Owners # {}

\* recountOrg: the META row first, before a single member page.
StartRecount ==
    /\ Recounts
    /\ checker.pc = "idle"
    /\ checker' = [pc |-> "paging", meta |-> meta, left |-> Users,
                   members |-> {}, owners |-> {}]
    /\ UNCHANGED <<role, meta, invite, claim, req>>

\* A page may end after any member row, so rows are read one at a time.
ReadRow(u) ==
    /\ checker.pc = "paging"
    /\ u \in checker.left
    /\ checker' = [checker EXCEPT
          !.left = checker.left \ {u},
          !.members = IF role[u] # NoRole THEN checker.members \union {u} ELSE checker.members,
          !.owners = IF role[u] = "owner" THEN checker.owners \union {u} ELSE checker.owners]
    /\ UNCHANGED <<role, meta, invite, claim, req>>

BugMetaUnmoved == meta.count = checker.meta.count

\* repairCounter's condition: the counter and its revision are the ones read, an
\* absent one by its absence; createMeta's: there is still no row.
MetaUnmoved == meta = checker.meta

Counted == Cardinality(checker.owners)

BugNeedsRepair == checker.meta.exists /\ checker.meta.count # Counted

\* A counter that differs, or no row where there are members to count.
NeedsRepair ==
    IF checker.meta.exists THEN checker.meta.count # Counted ELSE checker.members # {}

\* Losing the condition skips the repair, and a later run recounts.
Repair ==
    /\ checker.pc = "paging"
    /\ checker.left = {}
    /\ meta' = IF NeedsRepair /\ MetaUnmoved
                 THEN [meta EXCEPT !.exists = TRUE, !.count = Counted] ELSE meta
    /\ checker' = IdleChecker
    /\ UNCHANGED <<role, invite, claim, req>>

-----------------------------------------------------------------------------
InvitationStep(r) ==
    \/ \E m, u \in Users, x \in Roles : CreateInvitation(r, m, u, x)
    \/ ListInvitations(r)
    \/ ReadClaim(r)
    \/ \E i \in Invites : WriteInvitation(r, i)
    \/ InvitationRefused(r)
    \/ \E m \in Users, i \in Invites : RevokeInvitation(r, m, i)
    \/ CommitRevoke(r)
    \/ \E i \in Invites : AcceptInvitation(r, i)
    \/ ReadMembership(r)
    \/ CommitAccept(r)
    \/ AcceptCancelled(r)
    \/ RereadMembership(r)
    \/ RetireAfterRace(r)

MembershipStep(r) ==
    \/ \E m, u \in Users, x \in Roles : ChangeRole(r, m, u, x)
    \/ \E m, u \in Users : RemoveMember(r, m, u)
    \/ \E m, u \in Users : TransferOwnership(r, m, u)
    \/ ReadSweep(r)
    \/ CommitMembership(r)
    \/ MembershipCancelled(r)

CheckerStep ==
    \/ StartRecount
    \/ \E u \in Users : ReadRow(u)
    \/ Repair

Next ==
    \/ \E r \in Reqs : InvitationStep(r) \/ MembershipStep(r)
    \/ \E i \in Invites : Expire(i)
    \/ CheckerStep

Spec == Init /\ [][Next]_vars

\* The job is scheduled for as long as the service runs, and a Scan that finds a
\* settled counter wrong leads to a recount.
Fairness ==
    /\ WF_vars(StartRecount /\ ~LooksFine)
    /\ WF_vars(\E u \in Users : ReadRow(u))
    /\ WF_vars(Repair)

FairSpec == Spec /\ Fairness

-----------------------------------------------------------------------------
(* Properties.                                                             *)

\* The counter is the number of Owners after every transaction, whichever
\* demotions, removals, transfers, joins and repairs interleave (membership-
\* changes.ts, membershipDeleteItems: without the role condition "an Owner is
\* deleted with no decrement, the counter overcounts").
OwnerCountExact == meta.exists => meta.count = Cardinality(Owners)

\* The organization keeps an Owner, and its Owners change one seat at a time.
Seats == INSTANCE OwnerSeats WITH owners <- Owners
SeatsAreKept == Seats!Spec

\* What a committed demotion, removal or transfer swept is revoked for good: no
\* accept that was in flight got in first and left the sweep believing otherwise
\* (pendingInvitationsForRemoval).
SweptInvitationsAreDead ==
    \A r \in Reqs :
        req[r].outcome = "committed" /\ req[r].kind \in {"change", "remove", "transfer"}
            => \A i \in req[r].sweep : invite[i].status = "revoked"

\* An invitation is spent once: used or revoked, it is never the other later
\* (invitationStatusItem: not "the log claiming an invitation was revoked after
\* it was used").
InvitationSettlesOnce ==
    [][\A i \in Invites :
          invite[i].status \in {"accepted", "revoked"} =>
             invite'[i].status = invite[i].status]_vars

TwoLive(r, q) ==
    /\ r # q
    /\ req[r].kind = "create" /\ req[q].kind = "create"
    /\ req[r].outcome = "committed" /\ req[q].outcome = "committed"
    /\ req[r].user = req[q].user
    /\ Usable(req[r].invite) /\ Usable(req[q].invite)

\* Two working links to one address take a request that listed the invitations
\* before it read the claim; the other order always replaces or collides
\* (inviteAddressClaimItem).
TwoLinksTakeAnEarlyList ==
    \A r, q \in Reqs :
        TwoLive(r, q) => \E s \in {r, q} : req[s].reads = <<"list", "claim">>

\* "An address never accumulates live invitations, so it never accumulates
\* working tokens" (create-invitation.ts).
OneLinkPerAddress == \A r, q \in Reqs : ~TwoLive(r, q)

\* Whatever the recount saw half applied, what the checker writes is the number
\* of Owners there are (recountOrg, repairCounter).
RepairWritesTheTruth ==
    [][checker.pc = "paging" /\ checker'.pc = "idle" /\ meta' # meta
          => meta'.count = Cardinality(Owners)]_vars

\* A counter that has drifted, or is missing, is repaired once the owner set is
\* left alone long enough to be counted.
CounterSettles == <>[](meta.exists /\ meta.count = Cardinality(Owners))
=============================================================================
