--------------------------- MODULE AccountDeletion ---------------------------
(***************************************************************************)
(* Deleting an organization, and what that does to its members' accounts.  *)
(*                                                                         *)
(* A deletion is one transaction: a record, and a fence on the             *)
(* organization's profile that every other writer is expected to check.    *)
(* A worker then tears the organization down in a pass of single calls. A  *)
(* pass may die after any of them and is run again from the start, and two *)
(* passes may overlap: there is no lock.  A pass takes a census of the     *)
(* members first.  An account that belongs to this organization only, and  *)
(* was not invited into it, ends with it; any other is moved to a home it  *)
(* still has, or to a new "floor" organization.                            *)
(*                                                                         *)
(* Meanwhile people sign in, accept invitations, create organizations and  *)
(* are removed from them, each request some reads and one transaction.  A  *)
(* transaction whose conditions fail is a request that takes no further    *)
(* step (Drop).                                                            *)
(*                                                                         *)
(* An account is a person's Auth0 subject and the how-manieth account of   *)
(* theirs it is.  Members outside Subs exist and are not represented: they *)
(* are who invites, removes and is left behind as an Owner.  An operator   *)
(* named Bug... is a definition broken on purpose, and no part of Next.    *)
(***************************************************************************)
EXTENDS Integers, FiniteSets

CONSTANTS
    Orgs,          \* organization ids, those in use and those still to be
    Founded,       \* the organizations there are at the start
    Subs,          \* people, by their Auth0 subject
    Lives,         \* how many accounts a person may have in turn (a bound)
    Legacy,        \* <<org, person>>: unconverted membership rows kept beside
    Passes,        \* worker passes that may overlap (a bound)
    Reqs,          \* requests in flight (a bound)
    Kinds,         \* what those requests do
    MaxDeletions,  \* deletions committed (a bound)
    MaxFailures,   \* passes that die and profile reads that fail (a bound)
    Blocked,       \* BLOCKED_ATTEMPTS: attempts are counted up to one above it
    NoOrg, NoAccount, NoSub

AllKinds == {"accept", "create", "remove"}

ASSUME ConstantsAssumption ==
    /\ Founded \subseteq Orgs
    /\ Legacy \subseteq Founded \X Subs
    /\ Kinds \subseteq AllKinds
    /\ Lives \in Nat \ {0}
    /\ MaxDeletions \in Nat
    /\ MaxFailures \in Nat
    /\ Blocked \in Nat
    /\ NoOrg \notin Orgs
    /\ NoSub \notin Subs
    /\ NoAccount \notin Subs \X Nat

Accounts == Subs \X (1..Lives)
Sub(u) == u[1]

VARIABLES
    orgs,       \* organizations with a profile row
    fenced,     \* of those, the ones whose profile says deleting
    deletion,   \* the DELETION records
    member,     \* canonical membership rows, each with how its member joined
    inverse,    \* inverse items: the members listing an organization as theirs
    identity,   \* SUB#/IDENTITY rows: the account, its home, whether stamped
    profile,    \* USER#/PROFILE rows: the account's home
    auth0,      \* people with an Auth0 user
    pass,       \* worker passes
    req,        \* requests in flight
    failures,   \* passes that died so far
    slipped     \* history: people who have joined past the fence of their home

vars == <<orgs, fenced, deletion, member, inverse, identity, profile, auth0,
          pass, req, failures, slipped>>
rows == <<orgs, member, inverse, identity, profile>>

Sources == {"none", "own", "invitation"}

NoDeletion == [status |-> "none", trigger |-> "user", attempts |-> 0]

\* DeletionMember: what the census decided of one account.
Verdicts == [acct : Accounts, ends : BOOLEAN, home : Orgs \union {NoOrg},
             floor : BOOLEAN]
NoVerdict == [acct |-> NoAccount, ends |-> FALSE, home |-> NoOrg, floor |-> FALSE]

Stages == {"idle", "list", "census", "move", "profile", "pointers", "floor",
           "check", "auth0", "scrub", "read", "inverse", "rows", "done"}
IdlePass == [pc |-> "idle", org |-> NoOrg, census |-> {}, todo |-> {},
             left |-> {}, invited |-> {}, cur |-> NoVerdict, seen |-> NoOrg,
             rows |-> {}]
PassRecords ==
    [pc : Stages, org : Orgs \union {NoOrg}, census : SUBSET Verdicts,
     todo : SUBSET Verdicts, left : SUBSET Accounts, invited : SUBSET Accounts,
     cur : Verdicts \union {NoVerdict}, seen : Orgs \union {NoOrg},
     rows : SUBSET Accounts]

IdleReq == [pc |-> "idle", sub |-> NoSub, acct |-> NoAccount, belongs |-> FALSE,
            org |-> NoOrg, to |-> NoOrg, seenProfile |-> NoOrg,
            seenIdentity |-> NoOrg, leaves |-> FALSE]
ReqRecords ==
    [pc : {"idle", "in", "new", "accept", "plan", "pointers", "commit"},
     sub : Subs \union {NoSub}, acct : Accounts \union {NoAccount},
     belongs : BOOLEAN, org : Orgs \union {NoOrg}, to : Orgs \union {NoOrg},
     seenProfile : Orgs \union {NoOrg}, seenIdentity : Orgs \union {NoOrg},
     leaves : BOOLEAN]

TypeOK ==
    /\ orgs \in SUBSET Orgs
    /\ fenced \in SUBSET orgs
    /\ deletion \in [Orgs -> [status : {"none", "pending", "done"},
                              trigger : {"user", "other"},
                              attempts : 0..(Blocked + 1)]]
    /\ member \in [Orgs -> [Accounts -> Sources]]
    /\ inverse \in [Orgs -> SUBSET Accounts]
    /\ identity \in [Subs -> [acct : Accounts, home : Orgs, deleted : BOOLEAN]]
    /\ profile \in [Accounts -> Orgs \union {NoOrg}]
    /\ auth0 \in SUBSET Subs
    /\ pass \in [Passes -> PassRecords]
    /\ req \in [Reqs -> ReqRecords]
    /\ failures \in 0..MaxFailures
    /\ slipped \in SUBSET Subs

OrgsOf(u) == {o \in Orgs : u \in inverse[o]}
Members(o) == {u \in Accounts : member[o][u] # "none"}

\* orgNotDeletingCheck
Open(o) == o \in orgs \ fenced

\* Whoever has an account has a home, and belongs to it.
Init ==
    /\ orgs = Founded
    /\ fenced = {}
    /\ deletion = [o \in Orgs |-> NoDeletion]
    /\ \E joined \in [Founded -> [Subs -> Sources]], home \in [Subs -> Founded] :
          /\ \A s \in Subs : joined[home[s]][s] # "none"
          /\ member = [o \in Orgs |-> [u \in Accounts |->
                IF o \in Founded /\ u[2] = 1 THEN joined[o][u[1]] ELSE "none"]]
          /\ inverse = [o \in Orgs |-> {u \in Accounts :
                o \in Founded /\ u[2] = 1 /\ joined[o][u[1]] # "none"}]
          /\ identity = [s \in Subs |->
                [acct |-> <<s, 1>>, home |-> home[s], deleted |-> FALSE]]
          /\ profile = [u \in Accounts |-> IF u[2] = 1 THEN home[u[1]] ELSE NoOrg]
    /\ auth0 = Subs
    /\ pass = [p \in Passes |-> IdlePass]
    /\ req = [r \in Reqs |-> IdleReq]
    /\ failures = 0
    /\ slipped = {}

-----------------------------------------------------------------------------
(* Writes several transactions share.                                      *)

AddMember(o, u, source) ==
    /\ member' = [member EXCEPT ![o][u] = source]
    /\ inverse' = [inverse EXCEPT ![o] = inverse[o] \union {u}]

\* orgRows: an organization comes with its creator's membership.
Found(o, u) ==
    /\ o \in Orgs \ orgs
    /\ orgs' = orgs \union {o}
    /\ AddMember(o, u, "own")

Rehome(s, o) == identity' = [identity EXCEPT ![s].home = o]
RehomeProfile(u, o) == profile' = [profile EXCEPT ![u] = o]

\* prepareFloorOrg: the organization and both pointers, in one transaction.
Floor(u, seenIdentity, seenProfile) ==
    /\ identity[Sub(u)].home = seenIdentity
    /\ profile[u] = seenProfile
    /\ \E f \in Orgs :
          /\ Found(f, u)
          /\ Rehome(Sub(u), f)
          /\ RehomeProfile(u, f)

-----------------------------------------------------------------------------
(* Committing a deletion.                                                  *)

\* confirmAccountDeletion and commitStripeTriggeredDeletion.  The code spent by
\* the first, and the bound on deletions, are all that is left out of the guard.
BugDeletable(o) == deletion[o].status = "none"
Deletable(o) == o \in orgs /\ deletion[o].status = "none"

CommitDeletion(o, trigger) ==
    /\ Deletable(o)
    /\ Cardinality({x \in Orgs : deletion[x].status # "none"}) < MaxDeletions
    /\ deletion' = [deletion EXCEPT ![o] =
                      [status |-> "pending", trigger |-> trigger, attempts |-> 0]]
    /\ fenced' = fenced \union {o}
    /\ UNCHANGED <<rows, auth0, pass, req, failures, slipped>>

-----------------------------------------------------------------------------
(* The worker's pass.                                                      *)

PassBecomes(p, q) == pass' = [pass EXCEPT ![p] = q]
In(p, stage) == pass[p].pc = stage

\* Whether the worker or the sweeper will run a pass: the record says PENDING.
BugRedrives(o) == deletion[o].status = "pending" /\ deletion[o].attempts <= Blocked
Redrives(o) == deletion[o].status = "pending"

\* The invoke at confirm, Lambda's own retries, and the sweeper all land here;
\* nothing keeps a second pass from starting while one runs.
StartPass(p, o) ==
    /\ In(p, "idle")
    /\ Redrives(o)
    /\ deletion' = [deletion EXCEPT ![o].attempts =
                      IF deletion[o].attempts > Blocked THEN deletion[o].attempts
                      ELSE deletion[o].attempts + 1]
    /\ fenced' = fenced \union {o}
    /\ PassBecomes(p, [IdlePass EXCEPT !.pc = "list", !.org = o])
    /\ UNCHANGED <<rows, auth0, req, failures, slipped>>

\* The pass goes on to a stage with a step per member it concerns, and past a
\* stage that concerns none.
Enter(q, stage, todo) ==
    [q EXCEPT !.pc = stage, !.todo = todo, !.left = {}, !.cur = NoVerdict, !.seen = NoOrg]

Moving(census) == {m \in census : m.floor \/ m.home # NoOrg}
Ending(census) == {m \in census : m.ends}

EnterRead(q) == Enter(q, "read", {})
EnterScrub(q) ==
    IF Ending(q.census) = {} THEN EnterRead(q) ELSE Enter(q, "scrub", Ending(q.census))
EnterCheck(q) ==
    IF Ending(q.census) = {} THEN EnterRead(q) ELSE Enter(q, "check", Ending(q.census))
EnterMove(q) ==
    IF Moving(q.census) = {} THEN EnterCheck(q) ELSE Enter(q, "move", Moving(q.census))

\* The stage, once it is through with member m.
MoveNext(q, m) ==
    IF q.todo = {m} THEN EnterCheck(q) ELSE Enter(q, "move", q.todo \ {m})
CheckNext(q, m) ==
    IF q.todo = {m} THEN EnterScrub(q) ELSE Enter(q, "check", q.todo \ {m})
ScrubNext(q, m) ==
    IF q.todo = {m} THEN EnterRead(q) ELSE Enter(q, "scrub", q.todo \ {m})

\* listMemberRows: the members of both tables.
ListedMembers(o) == Members(o) \union {<<s, 1>> : s \in {t \in Subs : <<o, t>> \in Legacy}}

ListMembers(p) ==
    LET o == pass[p].org IN
    /\ In(p, "list")
    /\ PassBecomes(p, IF ListedMembers(o) = {} THEN EnterMove(pass[p])
                      ELSE [pass[p] EXCEPT !.pc = "census", !.left = ListedMembers(o),
                            !.invited = {u \in ListedMembers(o) : member[o][u] = "invitation"}])
    /\ UNCHANGED <<fenced, deletion, rows, auth0, req, failures, slipped>>

\* censusMember: an account outlives the organization when it belongs to another
\* or was invited into this one.
Keeps(p, u) == OrgsOf(u) \ {pass[p].org} # {} \/ u \in pass[p].invited

\* findLiveOrgs
LiveOrgs(p, u) == (OrgsOf(u) \ {pass[p].org}) \ fenced

\* chooseHomeOrg takes the earliest joined: joining times are not represented.
Decides(p, u, m) ==
    /\ m.acct = u
    /\ m.ends = ~Keeps(p, u)
    /\ m.floor = (Keeps(p, u) /\ LiveOrgs(p, u) = {})
    /\ IF Keeps(p, u) /\ LiveOrgs(p, u) # {}
       THEN m.home \in LiveOrgs(p, u) ELSE m.home = NoOrg

CensusMember(p, u) ==
    /\ In(p, "census")
    /\ u \in pass[p].left
    /\ \E m \in Verdicts :
          LET q == [pass[p] EXCEPT !.census = pass[p].census \union {m},
                                   !.left = pass[p].left \ {u}]
          IN /\ Decides(p, u, m)
             /\ PassBecomes(p, IF q.left = {} THEN EnterMove(q) ELSE q)
    /\ UNCHANGED <<fenced, deletion, rows, auth0, req, failures, slipped>>

\* orgNotDeletingCheck on the destination.
BugDestinationStands(o) == TRUE
DestinationStands(o) == Open(o)

\* moveSurvivingMembers, for a member with a home to go to: the identity row
\* first, in a transaction fenced on the destination.
MoveIdentity(p, m) ==
    LET s == Sub(m.acct) IN
    /\ In(p, "move")
    /\ m \in pass[p].todo
    /\ m.home # NoOrg
    /\ IF DestinationStands(m.home)
       THEN /\ IF identity[s].home = pass[p].org THEN Rehome(s, m.home)
               ELSE UNCHANGED identity
            /\ PassBecomes(p, [pass[p] EXCEPT !.pc = "profile", !.cur = m])
       ELSE /\ PassBecomes(p, [pass[p] EXCEPT !.pc = "pointers", !.cur = m])
            /\ UNCHANGED identity
    /\ UNCHANGED <<fenced, deletion, orgs, member, inverse, profile, auth0, req, failures,
                   slipped>>

\* ... and then the profile row, whose outcome nobody reads.
MoveProfile(p) ==
    LET m == pass[p].cur IN
    /\ In(p, "profile")
    /\ IF DestinationStands(m.home) /\ profile[m.acct] = pass[p].org THEN RehomeProfile(m.acct, m.home)
       ELSE UNCHANGED profile
    /\ PassBecomes(p, MoveNext(pass[p], m))
    /\ UNCHANGED <<fenced, deletion, orgs, member, inverse, identity, auth0, req, failures,
                   slipped>>

\* moveToFloorOrg, reached from the census or from a destination that is going
\* away as well: what the profile names is read ...
ReadPointers(p, m) ==
    /\ \/ In(p, "move") /\ m \in pass[p].todo /\ m.floor
       \/ In(p, "pointers") /\ m = pass[p].cur
    /\ PassBecomes(p, [pass[p] EXCEPT !.pc = "floor", !.cur = m, !.seen = profile[m.acct]])
    /\ UNCHANGED <<fenced, deletion, rows, auth0, req, failures, slipped>>

\* ... and is a condition of the transaction.  One that fails is logged only.
BugExpectedProfile(p) == pass[p].org
ExpectedProfile(p) == pass[p].seen

MoveToFloor(p) ==
    LET m == pass[p].cur
        o == pass[p].org IN
    /\ In(p, "floor")
    /\ \/ Floor(m.acct, o, ExpectedProfile(p))
       \/ /\ identity[Sub(m.acct)].home # o \/ profile[m.acct] # ExpectedProfile(p)
          /\ UNCHANGED rows
    /\ PassBecomes(p, MoveNext(pass[p], m))
    /\ UNCHANGED <<fenced, deletion, auth0, req, failures, slipped>>

\* isIdentityReplaced
Replaced(u) == identity[Sub(u)].acct # u

\* tearDownAuth0, for one account that ends: whose account is it now ...
CheckIdentity(p, m) ==
    /\ In(p, "check")
    /\ m \in pass[p].todo
    /\ PassBecomes(p, IF Replaced(m.acct) THEN CheckNext(pass[p], m)
                      ELSE [pass[p] EXCEPT !.pc = "auth0", !.cur = m])
    /\ UNCHANGED <<fenced, deletion, rows, auth0, req, failures, slipped>>

\* ... and then its Auth0 user goes, with the rows only Auth0's address finds.
DeleteAuth0User(p) ==
    LET m == pass[p].cur IN
    /\ In(p, "auth0")
    /\ auth0' = auth0 \ {Sub(m.acct)}
    /\ PassBecomes(p, CheckNext(pass[p], m))
    /\ UNCHANGED <<fenced, deletion, rows, req, failures, slipped>>

\* scrubMembers: the stamp lands only on a row that still names the account.
\* Dropping the RAG datasets, Stripe, the tenants and the logo, which come
\* between, write nothing represented here; any of them may fail (PassFails).
BugStampsIdentity(u) == TRUE
StampsIdentity(u) == identity[Sub(u)].acct = u

ScrubIdentity(p, m) ==
    LET s == Sub(m.acct) IN
    /\ In(p, "scrub")
    /\ m \in pass[p].todo
    /\ IF StampsIdentity(m.acct) THEN identity' = [identity EXCEPT ![s].deleted = TRUE]
       ELSE UNCHANGED identity
    /\ PassBecomes(p, ScrubNext(pass[p], m))
    /\ UNCHANGED <<fenced, deletion, orgs, member, inverse, profile, auth0, req, failures,
                   slipped>>

\* destroyOrgTableRows: the member rows are read, the inverse items of whoever
\* they or the census name are deleted, and last the rows that were read.
BugDestroyedRows(p) == {m.acct : m \in Ending(pass[p].census)}
DestroyedRows(p) == Members(pass[p].org)

EnterRows(q) == [q EXCEPT !.pc = IF q.rows = {} THEN "done" ELSE "rows", !.left = q.rows]

ReadRows(p) ==
    LET read == DestroyedRows(p)
        q == [pass[p] EXCEPT !.pc = "inverse", !.rows = read,
                             !.left = read \union {m.acct : m \in pass[p].census}]
    IN /\ In(p, "read")
       /\ PassBecomes(p, IF q.left = {} THEN EnterRows(q) ELSE q)
       /\ UNCHANGED <<fenced, deletion, rows, auth0, req, failures, slipped>>

DestroyInverse(p, u) ==
    LET q == [pass[p] EXCEPT !.left = pass[p].left \ {u}] IN
    /\ In(p, "inverse")
    /\ u \in pass[p].left
    /\ inverse' = [inverse EXCEPT ![pass[p].org] = inverse[pass[p].org] \ {u}]
    /\ PassBecomes(p, IF q.left = {} THEN EnterRows(q) ELSE q)
    /\ UNCHANGED <<fenced, deletion, orgs, member, identity, profile, auth0, req, failures,
                   slipped>>

DestroyRow(p, u) ==
    LET q == [pass[p] EXCEPT !.left = pass[p].left \ {u}] IN
    /\ In(p, "rows")
    /\ u \in pass[p].left
    /\ member' = [member EXCEPT ![pass[p].org][u] = "none"]
    /\ PassBecomes(p, IF q.left = {} THEN [q EXCEPT !.pc = "done"] ELSE q)
    /\ UNCHANGED <<fenced, deletion, orgs, inverse, identity, profile, auth0, req,
                   failures, slipped>>

MarkDone(p) ==
    /\ In(p, "done")
    /\ deletion' = [deletion EXCEPT ![pass[p].org].status = "done"]
    /\ PassBecomes(p, IdlePass)
    /\ UNCHANGED <<fenced, rows, auth0, req, failures, slipped>>

\* A Lambda dies, times out, or a call of it throws.
PassFails(p) ==
    /\ pass[p].pc # "idle"
    /\ failures < MaxFailures
    /\ failures' = failures + 1
    /\ PassBecomes(p, IdlePass)
    /\ UNCHANGED <<fenced, deletion, rows, auth0, req, slipped>>

-----------------------------------------------------------------------------
(* Requests.  A row read eventually consistently is one read earlier.       *)

ReqBecomes(r, q) == req' = [req EXCEPT ![r] = q]
Answered(r) == ReqBecomes(r, IdleReq)
ReqAt(r, pc) == req[r].pc = pc

\* authMiddleware, for somebody with an account: resolveHomeOrg lets them in
\* unless their home is being deleted, and moves them off one that is gone.
SignIn(r, s) ==
    LET id == identity[s]
        q == [IdleReq EXCEPT !.sub = s, !.acct = id.acct,
                             !.belongs = \E o \in Orgs : member[o][id.acct] # "none"]
    IN /\ ReqAt(r, "idle")
       /\ ~id.deleted
       /\ \/ /\ Kinds \intersect {"accept", "create"} # {}
             /\ id.home \notin fenced
             /\ ReqBecomes(r, [q EXCEPT !.pc = "in"])
          \/ /\ id.home \in fenced
             /\ deletion[id.home].status = "done"
             /\ ReqBecomes(r, [q EXCEPT !.pc = "plan", !.org = id.home])
       /\ UNCHANGED <<fenced, deletion, rows, auth0, pass, failures, slipped>>

\* resolveRejoiningAccount and canRejoin, on the accept route only: a deleted
\* account comes back when the deletion it asked for has finished.
BugMayRejoin(o) == deletion[o].trigger = "user"
MayRejoin(o) == deletion[o].status = "done" /\ deletion[o].trigger = "user"

SignInAgain(r, s) ==
    /\ ReqAt(r, "idle")
    /\ "accept" \in Kinds
    /\ identity[s].deleted
    /\ MayRejoin(identity[s].home)
    /\ ReqBecomes(r, [IdleReq EXCEPT !.pc = "new", !.sub = s, !.acct = identity[s].acct])
    /\ UNCHANGED <<fenced, deletion, rows, auth0, pass, failures, slipped>>

\* inviteeAccountRows: the account and its membership in one transaction, over
\* the stamped row the request read.
JoinAnew(r, o) ==
    LET s == req[r].sub
        u == <<s, req[r].acct[2] + 1>>
    IN /\ ReqAt(r, "new")
       /\ u \in Accounts
       /\ Open(o)
       /\ identity[s].deleted
       /\ identity[s].acct = req[r].acct
       /\ identity' = [identity EXCEPT ![s] =
                         [acct |-> u, home |-> o, deleted |-> FALSE]]
       /\ RehomeProfile(u, o)
       /\ AddMember(o, u, "invitation")
       /\ Answered(r)
       /\ UNCHANGED <<fenced, deletion, orgs, auth0, pass, failures, slipped>>

\* Their sub comes back unchanged at the identity provider.
ReturnToAuth0(s) ==
    /\ s \notin auth0
    /\ auth0' = auth0 \union {s}
    /\ UNCHANGED <<fenced, deletion, rows, pass, req, failures, slipped>>

\* accept-invitation.ts by an account that exists.  What its profile names is
\* read to be fenced beside the inviting organization (accepterOrgFence).  A read
\* that fails is swallowed, which costs the transaction the second fence.
ReadAccepter(r, o) ==
    LET u == req[r].acct
        reads(seen) ==
            ReqBecomes(r, [req[r] EXCEPT !.pc = "accept", !.org = o, !.seenProfile = seen])
    IN /\ ReqAt(r, "in")
       /\ "accept" \in Kinds
       /\ o \in orgs
       /\ member[o][u] = "none"
       /\ \/ reads(profile[u]) /\ UNCHANGED failures
          \/ reads(NoOrg) /\ failures < MaxFailures /\ failures' = failures + 1
       /\ UNCHANGED <<fenced, deletion, rows, auth0, pass, slipped>>

BugAccepterStands(r) == TRUE
AccepterStands(r) == req[r].seenProfile = NoOrg \/ Open(req[r].seenProfile)

InvitingStands(r) == Open(req[r].org)

\* The acceptance lands although the home it did not read is being deleted.
Slips(r) == req[r].seenProfile = NoOrg /\ ~Open(profile[req[r].acct])

Accept(r) ==
    /\ ReqAt(r, "accept")
    /\ InvitingStands(r)
    /\ AccepterStands(r)
    /\ member[req[r].org][req[r].acct] = "none"
    /\ AddMember(req[r].org, req[r].acct, "invitation")
    /\ slipped' = IF Slips(r) THEN slipped \union {req[r].sub} ELSE slipped
    /\ Answered(r)
    /\ UNCHANGED <<fenced, deletion, orgs, identity, profile, auth0, pass, failures>>

\* create-org.ts: its transaction is fenced on nothing.
CreateOrg(r) ==
    /\ ReqAt(r, "in")
    /\ "create" \in Kinds
    /\ req[r].belongs
    /\ \E o \in Orgs : Found(o, req[r].acct)
    /\ Answered(r)
    /\ UNCHANGED <<fenced, deletion, identity, profile, auth0, pass, failures, slipped>>

\* remove-member.ts, by anybody who may.
Remove(r, o, u) ==
    /\ ReqAt(r, "idle")
    /\ "remove" \in Kinds
    /\ member[o][u] # "none"
    /\ ReqBecomes(r, [IdleReq EXCEPT !.pc = "plan", !.sub = Sub(u), !.acct = u,
                        !.org = o, !.leaves = TRUE])
    /\ UNCHANGED <<fenced, deletion, rows, auth0, pass, failures, slipped>>

\* planHomeOrgMove, for a removal and for moveHomeOffDeletedOrg: the first other
\* organization that is not being deleted, or none ...
Remaining(u, o) == (OrgsOf(u) \ {o}) \ fenced

Plan(r) ==
    LET left == Remaining(req[r].acct, req[r].org) IN
    /\ ReqAt(r, "plan")
    /\ \E to \in IF left = {} THEN {NoOrg} ELSE left :
          ReqBecomes(r, [req[r] EXCEPT !.pc = "pointers", !.to = to])
    /\ UNCHANGED <<fenced, deletion, rows, auth0, pass, failures, slipped>>

\* ... and what the two home pointers name.
ReadHome(r) ==
    /\ ReqAt(r, "pointers")
    /\ ReqBecomes(r, [req[r] EXCEPT !.pc = "commit",
                        !.seenProfile = profile[req[r].acct],
                        !.seenIdentity = identity[req[r].sub].home])
    /\ UNCHANGED <<fenced, deletion, rows, auth0, pass, failures, slipped>>

RemainingStands(r) ==
    /\ req[r].acct \in inverse[req[r].to]
    /\ Open(req[r].to)

\* The pointers that named the organization being left go to the one that
\* remains, if they still do.
MoveHome(r) ==
    LET u == req[r].acct
        s == req[r].sub
        o == req[r].org
    IN /\ RemainingStands(r)
       /\ IF req[r].seenProfile = o
          THEN profile[u] = o /\ RehomeProfile(u, req[r].to) ELSE UNCHANGED profile
       /\ IF req[r].seenIdentity = o
          THEN identity[s].home = o /\ Rehome(s, req[r].to) ELSE UNCHANGED identity
       /\ UNCHANGED orgs

\* With a floor organization, one transaction both leaves and founds.
CommitMove(r) ==
    LET u == req[r].acct
        o == req[r].org
        out == [member EXCEPT ![o][u] = IF req[r].leaves THEN "none" ELSE member[o][u]]
        gone == [inverse EXCEPT ![o] = IF req[r].leaves THEN inverse[o] \ {u} ELSE inverse[o]]
    IN /\ ReqAt(r, "commit")
       /\ req[r].leaves => member[o][u] # "none"
       /\ IF req[r].to # NoOrg
          THEN /\ MoveHome(r)
               /\ member' = out
               /\ inverse' = gone
          ELSE /\ identity[req[r].sub].home = req[r].seenIdentity
               /\ profile[u] = req[r].seenProfile
               /\ \E f \in Orgs \ orgs :
                     /\ orgs' = orgs \union {f}
                     /\ member' = [out EXCEPT ![f][u] = "own"]
                     /\ inverse' = [gone EXCEPT ![f] = inverse[f] \union {u}]
                     /\ Rehome(req[r].sub, f)
                     /\ RehomeProfile(u, f)
       /\ Answered(r)
       /\ UNCHANGED <<fenced, deletion, auth0, pass, failures, slipped>>

\* Refused by a condition, or dead between two calls.
Drop(r) ==
    /\ ~ReqAt(r, "idle")
    /\ Answered(r)
    /\ UNCHANGED <<fenced, deletion, rows, auth0, pass, failures, slipped>>

-----------------------------------------------------------------------------
PassStep(p) ==
    \/ ListMembers(p)
    \/ \E u \in Accounts : CensusMember(p, u)
    \/ \E m \in pass[p].todo : MoveIdentity(p, m)
    \/ MoveProfile(p)
    \/ \E m \in pass[p].todo : ReadPointers(p, m)
    \/ MoveToFloor(p)
    \/ \E m \in pass[p].todo : CheckIdentity(p, m)
    \/ DeleteAuth0User(p)
    \/ \E m \in pass[p].todo : ScrubIdentity(p, m)
    \/ ReadRows(p)
    \/ \E u \in Accounts : DestroyInverse(p, u)
    \/ \E u \in Accounts : DestroyRow(p, u)
    \/ MarkDone(p)

ReqStep(r) ==
    \/ \E s \in Subs : SignIn(r, s) \/ SignInAgain(r, s)
    \/ \E o \in Orgs : JoinAnew(r, o)
    \/ \E o \in Orgs : ReadAccepter(r, o)
    \/ Accept(r)
    \/ CreateOrg(r)
    \/ \E o \in Orgs, u \in Accounts : Remove(r, o, u)
    \/ Plan(r)
    \/ ReadHome(r)
    \/ CommitMove(r)
    \/ Drop(r)

Next ==
    \/ \E o \in Orgs, t \in {"user", "other"} : CommitDeletion(o, t)
    \/ \E p \in Passes, o \in Orgs : StartPass(p, o)
    \/ \E p \in Passes : PassStep(p) \/ PassFails(p)
    \/ \E r \in Reqs : ReqStep(r)
    \/ \E s \in Subs : ReturnToAuth0(s)

Spec == Init /\ [][Next]_vars

\* The sweeper re-drives whatever stays PENDING, a worker that is not killed
\* runs on, and there is always one to run it.
FairSpec ==
    /\ Spec
    /\ \A o \in Orgs : WF_vars(\E p \in Passes : StartPass(p, o))
    /\ \A p \in Passes : WF_vars(PassStep(p))

-----------------------------------------------------------------------------
(* Properties.                                                             *)

\* destroyOrgTableRows: once the record says DONE the organization lists nobody,
\* whatever was accepted, removed or half destroyed while passes overlapped.
DoneIsEmpty ==
    \A o \in Orgs : deletion[o].status = "done" => Members(o) = {} /\ inverse[o] = {}

\* accept-invitation.ts, accepterOrgFence, says what a profile that cannot be read
\* costs: who joins past the fence of their home may be ended as they do, and belong
\* to what stays.  Three of the properties are about everybody else.
Unslipped == Subs \ slipped

\* deletion-record.ts, deleteIdentity: an account is not ended while it belongs
\* to an organization that stays.
EndedAccountsBelongNowhere ==
    \A s \in Unslipped : identity[s].deleted =>
        \A o \in orgs \ fenced : member[o][identity[s].acct] = "none"

\* moveSurvivingMembers: when a deletion is done, nobody whose account goes on
\* still has that organization for a home, where every request is refused.
SurvivorsHaveMoved ==
    \A s \in Unslipped : ~identity[s].deleted =>
        deletion[identity[s].home].status # "done"

\* accept-invitation.ts, accepterOrgFence, rests on this: the home an account
\* is signed in to is an organization it belongs to.
HomeIsMembership ==
    \A s \in Subs : ~identity[s].deleted =>
        \/ identity[s].home \in fenced
        \/ member[identity[s].home][identity[s].acct] # "none"

\* scrubMembers: whoever came back under a new account is not stamped by a pass
\* that took its census before.
StampsOnlyItsOwn ==
    [][\A s \in Subs : identity'[s].deleted /\ ~identity[s].deleted =>
          \E p \in Passes : \E m \in pass[p].census :
              m.ends /\ m.acct = identity[s].acct]_vars

\* tearDownAuth0: the Auth0 user a pass deletes is that of the account it ends, unless
\* a pass that died left the row of that account, or an unconverted one, with no
\* inverse item.  (Another deletion may then have made its end, and its person be back.)
HalfDestroyed(o, u) == u \in ListedMembers(o) \ inverse[o]

DeletesOnlyItsOwnUser ==
    [][\A s \in auth0 \ slipped : s \notin auth0' =>
          \E p \in Passes : LET u == pass[p].cur.acct IN
              /\ pass[p].pc = "auth0"
              /\ Sub(u) = s
              /\ u = identity[s].acct \/ HalfDestroyed(pass[p].org, u)]_vars

\* account-deletion-sweeper.ts: a committed deletion is done in the end.
DeletionFinishes ==
    \A o \in Orgs : deletion[o].status = "pending" ~> deletion[o].status = "done"
=============================================================================
