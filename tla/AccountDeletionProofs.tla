------------------------ MODULE AccountDeletionProofs ------------------------
(***************************************************************************)
(* Proofs about AccountDeletion, for any organizations, people, passes,    *)
(* requests in flight, failures and deletions.                             *)
(*                                                                         *)
(* A deletion that is done has left nobody in its organization             *)
(* (FencedShrinks: once the fence is up no step adds a member or an        *)
(* inverse item, so what a pass read of the rows stays an upper bound of   *)
(* what is left of them, whoever else is destroying or removing them       *)
(* meanwhile), and a pass stamps only identities its own census decided    *)
(* end (Staged).  Both hold whatever overlaps.                             *)
(*                                                                         *)
(* The rest needs passes one at a time (OneAtATime) and no request but     *)
(* acceptances (OnlyAccepts); TLC refutes it without either.  It is about  *)
(* everybody who has not joined past the fence of their home (Unslipped).  *)
(* RowInv says what the rows owe an account: a live one belongs to its     *)
(* home as long as that stands, an ended one to no organization that       *)
(* stands.  Running says what a pass may still rely on: its census names   *)
(* each member who has to go on (Covers) and what it read of an account is *)
(* true until it acts on it (Sound, Movable, Listing).                     *)
(***************************************************************************)
EXTENDS AccountDeletion, TLAPS

\* The stages that are about one member of the census.
CursorStages == {"profile", "pointers", "floor", "auth0"}

GoodPass(q) == q \in PassRecords /\ (q.pc \in CursorStages => q.cur \in Verdicts)
GoodReq(q) == q \in ReqRecords /\ (q.pc # "idle" => q.acct \in Accounts /\ q.sub \in Subs)

PassesGood == pass \in [Passes -> PassRecords] /\ \A p \in Passes : GoodPass(pass[p])
ReqsGood == req \in [Reqs -> ReqRecords] /\ \A r \in Reqs : GoodReq(req[r])

RowsGood ==
    /\ orgs \in SUBSET Orgs
    /\ member \in [Orgs -> [Accounts -> Sources]]
    /\ inverse \in [Orgs -> SUBSET Accounts]
    /\ identity \in [Subs -> [acct : Accounts, home : Orgs, deleted : BOOLEAN]]
    /\ profile \in [Accounts -> Orgs \union {NoOrg}]

RecordsGood ==
    /\ fenced \in SUBSET orgs
    /\ deletion \in [Orgs -> [status : {"none", "pending", "done"},
                              trigger : {"user", "other"},
                              attempts : 0..(Blocked + 1)]]
    /\ auth0 \in SUBSET Subs
    /\ failures \in 0..MaxFailures

\* An organization being deleted is fenced.
Begun == \A o \in Orgs : deletion[o].status # "none" => o \in fenced

\* A pass is of a deletion that was committed.
PassesBegun ==
    \A p \in Passes : pass[p].pc # "idle" =>
        pass[p].org \in Orgs /\ deletion[pass[p].org].status # "none"

TypeInv == RowsGood /\ RecordsGood /\ Begun /\ PassesGood /\ ReqsGood

-----------------------------------------------------------------------------
(* Type correctness.                                                       *)

LEMMA PassBecomesGood ==
    ASSUME PassesGood, NEW p \in Passes, NEW q, GoodPass(q), PassBecomes(p, q)
    PROVE  PassesGood'
BY DEF PassesGood, GoodPass, PassBecomes

LEMMA ReqBecomesGood ==
    ASSUME ReqsGood, NEW r \in Reqs, NEW q, GoodReq(q), ReqBecomes(r, q)
    PROVE  ReqsGood'
BY DEF ReqsGood, GoodReq, ReqBecomes

LEMMA PassesUnchangedGood ==
    ASSUME PassesGood, UNCHANGED pass
    PROVE  PassesGood'
BY DEF PassesGood, GoodPass

LEMMA ReqsUnchangedGood ==
    ASSUME ReqsGood, UNCHANGED req
    PROVE  ReqsGood'
BY DEF ReqsGood, GoodReq

LEMMA IdleIsGood == GoodPass(IdlePass) /\ GoodReq(IdleReq)
<1>1. GoodPass(IdlePass)
  BY DEF GoodPass, IdlePass, PassRecords, Stages, CursorStages
<1>2. GoodReq(IdleReq)
  BY DEF GoodReq, IdleReq, ReqRecords
<1> QED BY <1>1, <1>2

LEMMA AnsweredGood ==
    ASSUME ReqsGood, NEW r \in Reqs, Answered(r)
    PROVE  ReqsGood'
BY IdleIsGood, ReqBecomesGood DEF Answered

\* Entering a stage that starts with nothing under way.
LEMMA EnterGood ==
    ASSUME NEW q \in PassRecords, NEW stage \in Stages \ CursorStages,
           NEW todo \in SUBSET Verdicts
    PROVE  GoodPass(Enter(q, stage, todo))
BY DEF GoodPass, Enter, PassRecords

LEMMA StagesGood ==
    ASSUME NEW q \in PassRecords
    PROVE  /\ GoodPass(EnterRead(q))
           /\ GoodPass(EnterScrub(q))
           /\ GoodPass(EnterCheck(q))
           /\ GoodPass(EnterMove(q))
<1>1. /\ Ending(q.census) \in SUBSET Verdicts
      /\ Moving(q.census) \in SUBSET Verdicts
  BY DEF PassRecords, Ending, Moving
<1>2. {"read", "scrub", "check", "move"} \subseteq Stages \ CursorStages
  BY DEF Stages, CursorStages
<1>3. GoodPass(EnterRead(q))
  BY <1>2, EnterGood DEF EnterRead
<1>4. GoodPass(EnterScrub(q))
  BY <1>1, <1>2, <1>3, EnterGood DEF EnterScrub
<1>5. GoodPass(EnterCheck(q))
  BY <1>1, <1>2, <1>3, EnterGood DEF EnterCheck
<1>6. GoodPass(EnterMove(q))
  BY <1>1, <1>2, <1>5, EnterGood DEF EnterMove
<1> QED BY <1>3, <1>4, <1>5, <1>6

LEMMA NextMemberGood ==
    ASSUME NEW q \in PassRecords, NEW m
    PROVE  /\ GoodPass(MoveNext(q, m))
           /\ GoodPass(CheckNext(q, m))
           /\ GoodPass(ScrubNext(q, m))
<1>1. q.todo \ {m} \in SUBSET Verdicts
  BY DEF PassRecords
<1>2. {"scrub", "check", "move"} \subseteq Stages \ CursorStages
  BY DEF Stages, CursorStages
<1>3. GoodPass(MoveNext(q, m))
  BY <1>1, <1>2, StagesGood, EnterGood DEF MoveNext
<1>4. GoodPass(CheckNext(q, m))
  BY <1>1, <1>2, StagesGood, EnterGood DEF CheckNext
<1>5. GoodPass(ScrubNext(q, m))
  BY <1>1, <1>2, StagesGood, EnterGood DEF ScrubNext
<1> QED BY <1>3, <1>4, <1>5

LEMMA AddMemberGood ==
    ASSUME RowsGood, NEW o \in Orgs, NEW u \in Accounts, NEW source \in Sources,
           AddMember(o, u, source)
    PROVE  /\ member' \in [Orgs -> [Accounts -> Sources]]
           /\ inverse' \in [Orgs -> SUBSET Accounts]
BY DEF RowsGood, AddMember

LEMMA RehomeGood ==
    ASSUME RowsGood, NEW s, NEW o \in Orgs, Rehome(s, o)
    PROVE  identity' \in [Subs -> [acct : Accounts, home : Orgs, deleted : BOOLEAN]]
BY DEF RowsGood, Rehome

LEMMA RehomeProfileGood ==
    ASSUME RowsGood, NEW u, NEW o \in Orgs, RehomeProfile(u, o)
    PROVE  profile' \in [Accounts -> Orgs \union {NoOrg}]
BY DEF RowsGood, RehomeProfile

LEMMA FoundGood ==
    ASSUME RowsGood, NEW o, NEW u \in Accounts, Found(o, u)
    PROVE  /\ o \in Orgs \ orgs
           /\ orgs \subseteq orgs'
           /\ orgs' \in SUBSET Orgs
           /\ member' \in [Orgs -> [Accounts -> Sources]]
           /\ inverse' \in [Orgs -> SUBSET Accounts]
<1>1. "own" \in Sources
  BY DEF Sources
<1>2. o \in Orgs \ orgs /\ AddMember(o, u, "own") /\ orgs' = orgs \union {o}
  BY DEF Found
<1> QED BY <1>1, <1>2, AddMemberGood DEF RowsGood

LEMMA UnchangedRowsGood ==
    ASSUME RowsGood, UNCHANGED rows
    PROVE  RowsGood'
BY DEF RowsGood, rows

LEMMA TypeInit ==
    Init => TypeInv
<1> SUFFICES ASSUME Init PROVE TypeInv
  OBVIOUS
<1>1. PICK joined \in [Founded -> [Subs -> Sources]], home \in [Subs -> Founded] :
          /\ member = [o \in Orgs |-> [u \in Accounts |->
                IF o \in Founded /\ u[2] = 1 THEN joined[o][u[1]] ELSE "none"]]
          /\ inverse = [o \in Orgs |-> {u \in Accounts :
                o \in Founded /\ u[2] = 1 /\ joined[o][u[1]] # "none"}]
          /\ identity = [s \in Subs |->
                [acct |-> <<s, 1>>, home |-> home[s], deleted |-> FALSE]]
          /\ profile = [u \in Accounts |-> IF u[2] = 1 THEN home[u[1]] ELSE NoOrg]
  BY DEF Init
<1>2. Founded \subseteq Orgs /\ 1 \in 1..Lives
  BY ConstantsAssumption
<1>3. \A u \in Accounts : u[1] \in Subs
  BY DEF Accounts
<1>4. \A s \in Subs : <<s, 1>> \in Accounts
  BY <1>2 DEF Accounts
<1>5. RowsGood
  <2>1. member \in [Orgs -> [Accounts -> Sources]]
    BY <1>1, <1>3 DEF Sources
  <2>2. inverse \in [Orgs -> SUBSET Accounts]
    BY <1>1
  <2>3. identity \in [Subs -> [acct : Accounts, home : Orgs, deleted : BOOLEAN]]
    BY <1>1, <1>2, <1>4
  <2>4. profile \in [Accounts -> Orgs \union {NoOrg}]
    BY <1>1, <1>2, <1>3
  <2> QED BY <1>2, <2>1, <2>2, <2>3, <2>4 DEF Init, RowsGood
<1>6. RecordsGood
  <2>1. 0 \in 0..(Blocked + 1) /\ 0 \in 0..MaxFailures
    BY ConstantsAssumption
  <2> QED BY <2>1 DEF Init, RecordsGood, NoDeletion
<1>9. Begun
  BY DEF Init, Begun, NoDeletion
<1>7. PassesGood
  BY IdleIsGood DEF Init, PassesGood, GoodPass
<1>8. ReqsGood
  BY IdleIsGood DEF Init, ReqsGood, GoodReq
<1> QED BY <1>5, <1>6, <1>7, <1>8, <1>9 DEF TypeInv

LEMMA TypeOfDeletion ==
    ASSUME TypeInv,
           \/ \E o \in Orgs, t \in {"user", "other"} : CommitDeletion(o, t)
           \/ \E p \in Passes, o \in Orgs : StartPass(p, o)
           \/ \E p \in Passes : PassFails(p)
           \/ \E s \in Subs : ReturnToAuth0(s)
    PROVE  TypeInv'
<1> USE DEF TypeInv
<1>1. ASSUME NEW o \in Orgs, NEW t \in {"user", "other"}, CommitDeletion(o, t)
      PROVE  TypeInv'
  <2>1. RowsGood' /\ PassesGood' /\ ReqsGood'
    BY <1>1, UnchangedRowsGood, PassesUnchangedGood, ReqsUnchangedGood DEF CommitDeletion
  <2>2. RecordsGood' /\ Begun'
    <3>1. 0 \in 0..(Blocked + 1)
      BY ConstantsAssumption
    <3>2. /\ o \in orgs
          /\ fenced' = fenced \union {o}
          /\ UNCHANGED <<orgs, auth0, failures>>
          /\ deletion' = [deletion EXCEPT ![o] =
                            [status |-> "pending", trigger |-> t, attempts |-> 0]]
      BY <1>1 DEF CommitDeletion, Deletable, rows
    <3> QED BY <3>1, <3>2 DEF RecordsGood, Begun
  <2> QED BY <2>1, <2>2
<1>2. ASSUME NEW p \in Passes, NEW o \in Orgs, StartPass(p, o)
      PROVE  TypeInv'
  <2>1. RowsGood' /\ ReqsGood'
    BY <1>2, UnchangedRowsGood, ReqsUnchangedGood DEF StartPass
  <2>2. RecordsGood' /\ Begun'
    <3>1. o \in fenced
      BY <1>2 DEF StartPass, Redrives, Begun
    <3> DEFINE n == IF deletion[o].attempts > Blocked THEN deletion[o].attempts
                    ELSE deletion[o].attempts + 1
    <3>2. n \in 0..(Blocked + 1)
      BY ConstantsAssumption DEF RecordsGood
    <3>3. /\ fenced' = fenced
          /\ UNCHANGED <<orgs, auth0, failures>>
          /\ deletion' = [deletion EXCEPT ![o].attempts = n]
      BY <1>2, <3>1 DEF StartPass, rows
    <3> HIDE DEF n
    <3> QED BY <3>1, <3>2, <3>3 DEF RecordsGood, Begun
  <2>3. PassesGood'
    <3>1. GoodPass([IdlePass EXCEPT !.pc = "list", !.org = o])
      BY DEF IdlePass, GoodPass, PassRecords, Stages, CursorStages
    <3> QED BY <1>2, <3>1, PassBecomesGood DEF StartPass
  <2> QED BY <2>1, <2>2, <2>3
<1>3. ASSUME NEW p \in Passes, PassFails(p)
      PROVE  TypeInv'
  <2>1. RowsGood' /\ ReqsGood' /\ PassesGood'
    BY <1>3, UnchangedRowsGood, ReqsUnchangedGood, PassBecomesGood, IdleIsGood DEF PassFails
  <2>2. RecordsGood' /\ Begun'
    <3>1. failures' \in 0..MaxFailures
      BY <1>3, ConstantsAssumption DEF PassFails, RecordsGood
    <3> QED BY <1>3, <3>1 DEF PassFails, RecordsGood, Begun, rows
  <2> QED BY <2>1, <2>2
<1>4. ASSUME NEW s \in Subs, ReturnToAuth0(s)
      PROVE  TypeInv'
  <2>1. RowsGood' /\ ReqsGood' /\ PassesGood'
    BY <1>4, UnchangedRowsGood, ReqsUnchangedGood, PassesUnchangedGood DEF ReturnToAuth0
  <2>2. RecordsGood' /\ Begun'
    BY <1>4 DEF ReturnToAuth0, RecordsGood, Begun, rows
  <2> QED BY <2>1, <2>2
<1> QED BY <1>1, <1>2, <1>3, <1>4

\* The steps below leave the records alone and lose no organization.
LEMMA RecordsUnchangedGood ==
    ASSUME RecordsGood, Begun, orgs \subseteq orgs', auth0' \in SUBSET Subs,
           UNCHANGED <<fenced, deletion, failures>>
    PROVE  RecordsGood' /\ Begun'
BY DEF RecordsGood, Begun

\* A step of a pass that writes no row.
LEMMA ReadsOnlyGood ==
    ASSUME TypeInv, NEW p \in Passes, NEW q, GoodPass(q), PassBecomes(p, q),
           auth0' \in SUBSET Subs,
           UNCHANGED <<fenced, deletion, rows, req, failures>>
    PROVE  TypeInv'
<1>1. RowsGood' /\ ReqsGood' /\ PassesGood'
  BY UnchangedRowsGood, ReqsUnchangedGood, PassBecomesGood DEF TypeInv
<1>2. RecordsGood' /\ Begun'
  BY RecordsUnchangedGood DEF TypeInv, rows
<1> QED BY <1>1, <1>2 DEF TypeInv

LEMMA TypeOfCensus ==
    ASSUME TypeInv, NEW p \in Passes,
           \/ ListMembers(p)
           \/ \E u \in Accounts : CensusMember(p, u)
    PROVE  TypeInv'
<1>1. pass[p] \in PassRecords /\ auth0 \in SUBSET Subs
  BY DEF TypeInv, PassesGood, RecordsGood
<1>2. CASE ListMembers(p)
  <2> DEFINE o == pass[p].org
             listed == ListedMembers(o)
             q == [pass[p] EXCEPT !.pc = "census", !.left = listed,
                            !.invited = {u \in listed : member[o][u] = "invitation"}]
  <2>1. listed \in SUBSET Accounts
    <3>1. 1 \in 1..Lives
      BY ConstantsAssumption
    <3>2. \A s \in Subs : <<s, 1>> \in Accounts
      BY <3>1 DEF Accounts
    <3>3. Members(o) \in SUBSET Accounts
      BY DEF Members
    <3> HIDE DEF o
    <3> QED BY <3>2, <3>3 DEF ListedMembers
  <2>2. GoodPass(q)
    <3>1. {u \in listed : member[o][u] = "invitation"} \in SUBSET Accounts
      BY <2>1
    <3> HIDE DEF listed, o
    <3> QED BY <1>1, <2>1, <3>1 DEF GoodPass, PassRecords, Stages, CursorStages
  <2>3. GoodPass(EnterMove(pass[p]))
    BY <1>1, StagesGood
  <2>4. PassBecomes(p, IF listed = {} THEN EnterMove(pass[p]) ELSE q)
    BY <1>2 DEF ListMembers
  <2>5. auth0' \in SUBSET Subs /\ UNCHANGED <<fenced, deletion, rows, req, failures>>
    BY <1>1, <1>2 DEF ListMembers
  <2> HIDE DEF listed, q
  <2> QED BY <2>2, <2>3, <2>4, <2>5, ReadsOnlyGood
<1>3. ASSUME NEW u \in Accounts, CensusMember(p, u)
      PROVE  TypeInv'
  <2>1. PICK m \in Verdicts :
          LET q == [pass[p] EXCEPT !.census = pass[p].census \union {m},
                                   !.left = pass[p].left \ {u}]
          IN PassBecomes(p, IF q.left = {} THEN EnterMove(q) ELSE q)
    BY <1>3 DEF CensusMember
  <2> DEFINE q == [pass[p] EXCEPT !.census = pass[p].census \union {m},
                                  !.left = pass[p].left \ {u}]
  <2>2. q \in PassRecords
    BY <1>1 DEF PassRecords
  <2>3. GoodPass(q)
    <3>1. q.pc = "census"
      BY <1>1, <1>3 DEF CensusMember, In, PassRecords
    <3> QED BY <2>2, <3>1 DEF GoodPass, CursorStages
  <2>4. GoodPass(EnterMove(q))
    BY <2>2, StagesGood
  <2>5. PassBecomes(p, IF q.left = {} THEN EnterMove(q) ELSE q)
    BY <2>1
  <2>6. auth0' \in SUBSET Subs /\ UNCHANGED <<fenced, deletion, rows, req, failures>>
    BY <1>1, <1>3 DEF CensusMember
  <2> HIDE DEF q
  <2> QED BY <2>3, <2>4, <2>5, <2>6, ReadsOnlyGood
<1> QED BY <1>2, <1>3

LEMMA TypeOfMoves ==
    ASSUME TypeInv, NEW p \in Passes,
           \/ \E m \in pass[p].todo : MoveIdentity(p, m)
           \/ MoveProfile(p)
           \/ \E m \in pass[p].todo : ReadPointers(p, m)
           \/ MoveToFloor(p)
    PROVE  TypeInv'
<1>1. /\ pass[p] \in PassRecords
      /\ auth0 \in SUBSET Subs
      /\ orgs \in SUBSET Orgs
      /\ pass[p].todo \in SUBSET Verdicts
      /\ GoodPass(pass[p])
  BY DEF TypeInv, PassesGood, RecordsGood, RowsGood, PassRecords
<1>2. ASSUME NEW m \in pass[p].todo, MoveIdentity(p, m)
      PROVE  TypeInv'
  <2>1. m \in Verdicts
    BY <1>1
  <2>2. /\ GoodPass([pass[p] EXCEPT !.pc = "profile", !.cur = m])
        /\ GoodPass([pass[p] EXCEPT !.pc = "pointers", !.cur = m])
    BY <1>1, <2>1 DEF GoodPass, PassRecords, Stages
  <2>3. PassesGood'
    BY <1>2, <2>2, PassBecomesGood DEF MoveIdentity, TypeInv
  <2>4. identity' \in [Subs -> [acct : Accounts, home : Orgs, deleted : BOOLEAN]]
    <3>1. CASE UNCHANGED identity
      BY <3>1 DEF TypeInv, RowsGood
    <3>2. CASE Open(m.home) /\ Rehome(Sub(m.acct), m.home)
      BY <1>1, <3>2, RehomeGood DEF TypeInv, Open
    <3> QED BY <1>2, <3>1, <3>2 DEF MoveIdentity, DestinationStands
  <2>5. RowsGood'
    BY <1>2, <2>4 DEF MoveIdentity, RowsGood, TypeInv
  <2>6. RecordsGood' /\ Begun' /\ ReqsGood'
    BY <1>1, <1>2, RecordsUnchangedGood, ReqsUnchangedGood DEF MoveIdentity, TypeInv
  <2> QED BY <2>3, <2>5, <2>6 DEF TypeInv
<1>3. CASE MoveProfile(p)
  <2>1. PassesGood'
    BY <1>1, <1>3, NextMemberGood, PassBecomesGood DEF MoveProfile, TypeInv
  <2>2. profile' \in [Accounts -> Orgs \union {NoOrg}]
    <3>1. CASE UNCHANGED profile
      BY <3>1 DEF TypeInv, RowsGood
    <3>2. CASE /\ Open(pass[p].cur.home)
               /\ RehomeProfile(pass[p].cur.acct, pass[p].cur.home)
      BY <1>1, <3>2, RehomeProfileGood DEF TypeInv, Open
    <3> QED BY <1>3, <3>1, <3>2 DEF MoveProfile, DestinationStands
  <2>3. RowsGood'
    BY <1>3, <2>2 DEF MoveProfile, RowsGood, TypeInv
  <2>4. RecordsGood' /\ Begun' /\ ReqsGood'
    BY <1>1, <1>3, RecordsUnchangedGood, ReqsUnchangedGood DEF MoveProfile, TypeInv
  <2> QED BY <2>1, <2>3, <2>4 DEF TypeInv
<1>4. ASSUME NEW m \in pass[p].todo, ReadPointers(p, m)
      PROVE  TypeInv'
  <2>1. m \in Verdicts /\ m.acct \in Accounts
    BY <1>1 DEF Verdicts
  <2>2. profile[m.acct] \in Orgs \union {NoOrg}
    BY <2>1 DEF TypeInv, RowsGood
  <2>3. GoodPass([pass[p] EXCEPT !.pc = "floor", !.cur = m, !.seen = profile[m.acct]])
    BY <1>1, <2>1, <2>2 DEF GoodPass, PassRecords, Stages
  <2> QED BY <1>1, <1>4, <2>3, ReadsOnlyGood DEF ReadPointers
<1>5. CASE MoveToFloor(p)
  <2> DEFINE m == pass[p].cur
  <2>1. m \in Verdicts /\ m.acct \in Accounts
    BY <1>1, <1>5 DEF MoveToFloor, In, GoodPass, CursorStages, Verdicts
  <2>2. PassesGood'
    BY <1>1, <1>5, NextMemberGood, PassBecomesGood DEF MoveToFloor, TypeInv
  <2>3. RowsGood' /\ orgs \subseteq orgs'
    <3>1. CASE UNCHANGED rows
      BY <3>1, UnchangedRowsGood DEF TypeInv, rows
    <3>2. CASE Floor(m.acct, pass[p].org, ExpectedProfile(p))
      <4>1. PICK f \in Orgs : /\ Found(f, m.acct)
                              /\ Rehome(Sub(m.acct), f)
                              /\ RehomeProfile(m.acct, f)
        BY <3>2 DEF Floor
      <4> HIDE DEF m
      <4>2. RowsGood
        BY DEF TypeInv
      <4>3. /\ orgs \subseteq orgs'
            /\ orgs' \in SUBSET Orgs
            /\ member' \in [Orgs -> [Accounts -> Sources]]
            /\ inverse' \in [Orgs -> SUBSET Accounts]
        BY <2>1, <4>1, <4>2, FoundGood
      <4>4. identity' \in [Subs -> [acct : Accounts, home : Orgs, deleted : BOOLEAN]]
        BY <4>1, <4>2, RehomeGood
      <4>5. profile' \in [Accounts -> Orgs \union {NoOrg}]
        BY <4>1, <4>2, RehomeProfileGood
      <4> QED BY <4>3, <4>4, <4>5 DEF RowsGood
    <3> QED BY <1>5, <3>1, <3>2 DEF MoveToFloor
  <2>4. RecordsGood' /\ Begun' /\ ReqsGood'
    BY <1>1, <1>5, <2>3, RecordsUnchangedGood, ReqsUnchangedGood DEF MoveToFloor, TypeInv
  <2> QED BY <2>2, <2>3, <2>4 DEF TypeInv
<1> QED BY <1>2, <1>3, <1>4, <1>5

LEMMA TypeOfEndings ==
    ASSUME TypeInv, NEW p \in Passes,
           \/ \E m \in pass[p].todo : CheckIdentity(p, m)
           \/ DeleteAuth0User(p)
           \/ \E m \in pass[p].todo : ScrubIdentity(p, m)
    PROVE  TypeInv'
<1>1. /\ pass[p] \in PassRecords
      /\ auth0 \in SUBSET Subs
      /\ pass[p].todo \in SUBSET Verdicts
      /\ GoodPass(pass[p])
  BY DEF TypeInv, PassesGood, RecordsGood, PassRecords
<1>2. ASSUME NEW m \in pass[p].todo, CheckIdentity(p, m)
      PROVE  TypeInv'
  <2>1. GoodPass([pass[p] EXCEPT !.pc = "auth0", !.cur = m])
    BY <1>1 DEF GoodPass, PassRecords, Stages
  <2>2. PICK q : GoodPass(q) /\ PassBecomes(p, q)
    BY <1>1, <1>2, <2>1, NextMemberGood DEF CheckIdentity
  <2> QED BY <1>1, <1>2, <2>2, ReadsOnlyGood DEF CheckIdentity
<1>3. CASE DeleteAuth0User(p)
  BY <1>1, <1>3, NextMemberGood, ReadsOnlyGood DEF DeleteAuth0User
<1>4. ASSUME NEW m \in pass[p].todo, ScrubIdentity(p, m)
      PROVE  TypeInv'
  <2>1. PassesGood'
    BY <1>1, <1>4, NextMemberGood, PassBecomesGood DEF ScrubIdentity, TypeInv
  <2>2. identity' \in [Subs -> [acct : Accounts, home : Orgs, deleted : BOOLEAN]]
    <3> DEFINE s == Sub(m.acct)
    <3>1. \/ identity' = [identity EXCEPT ![s].deleted = TRUE]
          \/ UNCHANGED identity
      BY <1>4 DEF ScrubIdentity
    <3> HIDE DEF s
    <3> DEFINE Id == [acct : Accounts, home : Orgs, deleted : BOOLEAN]
    <3>2. identity \in [Subs -> Id]
      BY DEF TypeInv, RowsGood
    <3>3. \A i \in Id : [i EXCEPT !.deleted = TRUE] \in Id
      OBVIOUS
    <3> HIDE DEF Id
    <3>4. ASSUME identity' = [identity EXCEPT ![s].deleted = TRUE]
          PROVE  identity' \in [Subs -> Id]
      BY <3>2, <3>3, <3>4
    <3>5. identity' \in [Subs -> Id]
      BY <3>1, <3>2, <3>4
    <3> QED BY <3>5 DEF Id
  <2>4. RowsGood'
    BY <1>4, <2>2 DEF ScrubIdentity, RowsGood, TypeInv
  <2>3. RecordsGood' /\ Begun' /\ ReqsGood'
    BY <1>1, <1>4, RecordsUnchangedGood, ReqsUnchangedGood DEF ScrubIdentity, TypeInv
  <2> QED BY <2>1, <2>4, <2>3 DEF TypeInv
<1> QED BY <1>2, <1>3, <1>4

LEMMA EnterRowsGood ==
    ASSUME NEW q \in PassRecords
    PROVE  GoodPass(EnterRows(q))
BY DEF GoodPass, EnterRows, PassRecords, Stages, CursorStages

LEMMA TypeOfDestruction ==
    ASSUME TypeInv, PassesBegun, NEW p \in Passes,
           \/ ReadRows(p)
           \/ \E u \in Accounts : DestroyInverse(p, u)
           \/ \E u \in Accounts : DestroyRow(p, u)
           \/ MarkDone(p)
    PROVE  TypeInv'
<1>1. /\ pass[p] \in PassRecords
      /\ auth0 \in SUBSET Subs
      /\ GoodPass(pass[p])
  BY DEF TypeInv, PassesGood, RecordsGood
<1>2. CASE ReadRows(p)
  <2> DEFINE read == DestroyedRows(p)
             q == [pass[p] EXCEPT !.pc = "inverse", !.rows = read,
                             !.left = read \union {m.acct : m \in pass[p].census}]
  <2>1. read \in SUBSET Accounts
    BY DEF DestroyedRows, Members
  <2>2. {m.acct : m \in pass[p].census} \in SUBSET Accounts
    BY <1>1 DEF PassRecords, Verdicts
  <2>3. q \in PassRecords /\ GoodPass(q)
    <3> HIDE DEF read
    <3> QED BY <1>1, <2>1, <2>2 DEF GoodPass, PassRecords, Stages, CursorStages
  <2>4. GoodPass(EnterRows(q))
    BY <2>3, EnterRowsGood
  <2>5. /\ PassBecomes(p, IF q.left = {} THEN EnterRows(q) ELSE q)
        /\ UNCHANGED <<fenced, deletion, rows, auth0, req, failures>>
    BY <1>2 DEF ReadRows
  <2> HIDE DEF q
  <2> QED BY <1>1, <2>3, <2>4, <2>5, ReadsOnlyGood
<1>3. ASSUME NEW u \in Accounts, DestroyInverse(p, u)
      PROVE  TypeInv'
  <2> DEFINE q == [pass[p] EXCEPT !.left = pass[p].left \ {u}]
  <2>1. q \in PassRecords /\ GoodPass(q)
    BY <1>1 DEF GoodPass, PassRecords
  <2>2. GoodPass(EnterRows(q))
    BY <2>1, EnterRowsGood
  <2>3. PassBecomes(p, IF q.left = {} THEN EnterRows(q) ELSE q)
    BY <1>3 DEF DestroyInverse
  <2> HIDE DEF q
  <2>4. PassesGood'
    BY <2>1, <2>2, <2>3, PassBecomesGood DEF TypeInv
  <2>5. RowsGood'
    BY <1>3 DEF DestroyInverse, RowsGood, TypeInv
  <2>6. RecordsGood' /\ Begun' /\ ReqsGood'
    BY <1>1, <1>3, RecordsUnchangedGood, ReqsUnchangedGood DEF DestroyInverse, TypeInv
  <2> QED BY <2>4, <2>5, <2>6 DEF TypeInv
<1>4. ASSUME NEW u \in Accounts, DestroyRow(p, u)
      PROVE  TypeInv'
  <2> DEFINE q == [pass[p] EXCEPT !.left = pass[p].left \ {u}]
  <2>1. GoodPass(q) /\ GoodPass([q EXCEPT !.pc = "done"])
    BY <1>1 DEF GoodPass, PassRecords, Stages, CursorStages
  <2>2. PassBecomes(p, IF q.left = {} THEN [q EXCEPT !.pc = "done"] ELSE q)
    BY <1>4 DEF DestroyRow
  <2> HIDE DEF q
  <2>3. PassesGood'
    BY <2>1, <2>2, PassBecomesGood DEF TypeInv
  <2>4. RowsGood'
    BY <1>4 DEF DestroyRow, RowsGood, TypeInv, Sources
  <2>5. RecordsGood' /\ Begun' /\ ReqsGood'
    BY <1>1, <1>4, RecordsUnchangedGood, ReqsUnchangedGood DEF DestroyRow, TypeInv
  <2> QED BY <2>3, <2>4, <2>5 DEF TypeInv
<1>5. CASE MarkDone(p)
  <2>1. RowsGood' /\ ReqsGood' /\ PassesGood'
    BY <1>5, UnchangedRowsGood, ReqsUnchangedGood, PassBecomesGood, IdleIsGood DEF MarkDone, TypeInv
  <2>2. RecordsGood' /\ Begun'
    <3>1. /\ deletion' = [deletion EXCEPT ![pass[p].org].status = "done"]
          /\ UNCHANGED <<fenced, orgs, auth0, failures>>
          /\ In(p, "done")
      BY <1>5 DEF MarkDone, rows
    <3> DEFINE o == pass[p].org
    <3>2. o \in Orgs => deletion[o].status # "none"
      BY <3>1 DEF PassesBegun, In
    <3> HIDE DEF o
    <3>3. deletion' = [deletion EXCEPT ![o].status = "done"]
      BY <3>1 DEF o
    <3>4. deletion' \in [Orgs -> [status : {"none", "pending", "done"},
                                trigger : {"user", "other"},
                                attempts : 0..(Blocked + 1)]]
      BY <3>3 DEF TypeInv, RecordsGood
    <3>5. \A x \in Orgs : deletion'[x].status # "none" => deletion[x].status # "none"
      BY <3>2, <3>3 DEF TypeInv, RecordsGood
    <3>6. RecordsGood'
      BY <3>1, <3>4 DEF TypeInv, RecordsGood
    <3>7. Begun'
      BY <3>1, <3>5 DEF TypeInv, Begun
    <3> QED BY <3>6, <3>7
  <2> QED BY <2>1, <2>2 DEF TypeInv
<1> QED BY <1>2, <1>3, <1>4, <1>5

LEMMA TypeOfSigningIn ==
    ASSUME TypeInv, NEW r \in Reqs,
           \/ \E s \in Subs : SignIn(r, s) \/ SignInAgain(r, s)
           \/ \E o \in Orgs : JoinAnew(r, o)
    PROVE  TypeInv'
<1>1. /\ req[r] \in ReqRecords
      /\ auth0 \in SUBSET Subs
      /\ \A s \in Subs : identity[s].acct \in Accounts /\ identity[s].home \in Orgs
  BY DEF TypeInv, ReqsGood, RecordsGood, RowsGood
<1>2. ASSUME NEW s \in Subs, SignIn(r, s)
      PROVE  TypeInv'
  <2> DEFINE b == \E o \in Orgs : member[o][identity[s].acct] # "none"
             q == [IdleReq EXCEPT !.sub = s, !.acct = identity[s].acct, !.belongs = b]
  <2>1. b \in BOOLEAN
    OBVIOUS
  <2>2. /\ GoodReq([q EXCEPT !.pc = "in"])
        /\ GoodReq([q EXCEPT !.pc = "plan", !.org = identity[s].home])
    <3> HIDE DEF b
    <3> QED BY <1>1, <2>1 DEF GoodReq, ReqRecords, IdleReq
  <2>3. \/ ReqBecomes(r, [q EXCEPT !.pc = "in"])
        \/ ReqBecomes(r, [q EXCEPT !.pc = "plan", !.org = identity[s].home])
    BY <1>2 DEF SignIn
  <2> HIDE DEF q
  <2>4. ReqsGood'
    BY <2>2, <2>3, ReqBecomesGood DEF TypeInv
  <2>5. RowsGood' /\ PassesGood'
    BY <1>2, UnchangedRowsGood, PassesUnchangedGood DEF SignIn, TypeInv
  <2>6. RecordsGood' /\ Begun'
    BY <1>1, <1>2, RecordsUnchangedGood DEF SignIn, TypeInv, rows
  <2> QED BY <2>4, <2>5, <2>6 DEF TypeInv
<1>3. ASSUME NEW s \in Subs, SignInAgain(r, s)
      PROVE  TypeInv'
  <2>1. GoodReq([IdleReq EXCEPT !.pc = "new", !.sub = s, !.acct = identity[s].acct])
    BY <1>1 DEF GoodReq, ReqRecords, IdleReq
  <2>2. ReqsGood'
    BY <1>3, <2>1, ReqBecomesGood DEF SignInAgain, TypeInv
  <2>3. RowsGood' /\ PassesGood'
    BY <1>3, UnchangedRowsGood, PassesUnchangedGood DEF SignInAgain, TypeInv
  <2>4. RecordsGood' /\ Begun'
    BY <1>1, <1>3, RecordsUnchangedGood DEF SignInAgain, TypeInv, rows
  <2> QED BY <2>2, <2>3, <2>4 DEF TypeInv
<1>4. ASSUME NEW o \in Orgs, JoinAnew(r, o)
      PROVE  TypeInv'
  <2> DEFINE s == req[r].sub
             u == <<s, req[r].acct[2] + 1>>
  <2>1. /\ u \in Accounts
        /\ identity' = [identity EXCEPT ![s] = [acct |-> u, home |-> o, deleted |-> FALSE]]
        /\ RehomeProfile(u, o)
        /\ AddMember(o, u, "invitation")
        /\ Answered(r)
        /\ UNCHANGED <<fenced, deletion, orgs, auth0, pass, failures>>
    BY <1>4 DEF JoinAnew
  <2> HIDE DEF u, s
  <2>2. RowsGood'
    <3>1. RowsGood /\ "invitation" \in Sources
      BY DEF TypeInv, Sources
    <3>2. identity' \in [Subs -> [acct : Accounts, home : Orgs, deleted : BOOLEAN]]
      BY <2>1, <3>1 DEF RowsGood
    <3>3. profile' \in [Accounts -> Orgs \union {NoOrg}]
      BY <2>1, <3>1, RehomeProfileGood
    <3>4. /\ member' \in [Orgs -> [Accounts -> Sources]]
          /\ inverse' \in [Orgs -> SUBSET Accounts]
      BY <2>1, <3>1, AddMemberGood
    <3> QED BY <2>1, <3>1, <3>2, <3>3, <3>4 DEF RowsGood
  <2>3. ReqsGood' /\ PassesGood'
    BY <2>1, AnsweredGood, PassesUnchangedGood DEF TypeInv
  <2>4. RecordsGood' /\ Begun'
    BY <1>1, <2>1, RecordsUnchangedGood DEF TypeInv
  <2> QED BY <2>2, <2>3, <2>4 DEF TypeInv
<1> QED BY <1>2, <1>3, <1>4

\* A step of a request that writes no row.
LEMMA AsksOnlyGood ==
    ASSUME TypeInv, NEW r \in Reqs, NEW q, GoodReq(q), ReqBecomes(r, q),
           failures' \in 0..MaxFailures,
           UNCHANGED <<fenced, deletion, rows, auth0, pass>>
    PROVE  TypeInv'
<1>1. RowsGood' /\ ReqsGood' /\ PassesGood'
  BY UnchangedRowsGood, PassesUnchangedGood, ReqBecomesGood DEF TypeInv
<1>2. RecordsGood' /\ Begun'
  BY DEF TypeInv, rows, RecordsGood, Begun
<1> QED BY <1>1, <1>2 DEF TypeInv

LEMMA TypeOfAsking ==
    ASSUME TypeInv, NEW r \in Reqs,
           \/ \E o \in Orgs : ReadAccepter(r, o)
           \/ \E o \in Orgs, u \in Accounts : Remove(r, o, u)
           \/ Plan(r)
           \/ ReadHome(r)
           \/ Drop(r)
    PROVE  TypeInv'
<1>1. /\ req[r] \in ReqRecords
      /\ ~ReqAt(r, "idle") => req[r].acct \in Accounts /\ req[r].sub \in Subs
      /\ \A s \in Subs : identity[s].home \in Orgs
      /\ \A u \in Accounts : profile[u] \in Orgs \union {NoOrg}
      /\ failures \in 0..MaxFailures
  BY DEF TypeInv, RecordsGood, ReqsGood, GoodReq, ReqAt, RowsGood
<1>2. ASSUME NEW o \in Orgs, ReadAccepter(r, o)
      PROVE  TypeInv'
  <2>1. /\ req[r].acct \in Accounts /\ req[r].sub \in Subs
        /\ UNCHANGED <<fenced, deletion, rows, auth0, pass>>
    BY <1>1, <1>2 DEF ReadAccepter, ReqAt
  <2>0. failures' \in 0..MaxFailures
    <3>1. UNCHANGED failures \/ (failures < MaxFailures /\ failures' = failures + 1)
      BY <1>2 DEF ReadAccepter
    <3> QED BY <1>1, <3>1, ConstantsAssumption
  <2>2. PICK seen \in {profile[req[r].acct], NoOrg} :
           ReqBecomes(r, [req[r] EXCEPT !.pc = "accept", !.org = o, !.seenProfile = seen])
    BY <1>2 DEF ReadAccepter
  <2>3. seen \in Orgs \union {NoOrg}
    BY <1>1, <2>1
  <2> DEFINE q == [req[r] EXCEPT !.pc = "accept", !.org = o, !.seenProfile = seen]
  <2>4. GoodReq(q)
    BY <1>1, <2>1, <2>3 DEF GoodReq, ReqRecords
  <2> HIDE DEF q
  <2> QED BY <2>0, <2>1, <2>2, <2>4, AsksOnlyGood DEF q
<1>3. ASSUME NEW o \in Orgs, NEW u \in Accounts, Remove(r, o, u)
      PROVE  TypeInv'
  <2> DEFINE q == [IdleReq EXCEPT !.pc = "plan", !.sub = Sub(u), !.acct = u,
                                  !.org = o, !.leaves = TRUE]
  <2>1. Sub(u) \in Subs
    BY DEF Sub, Accounts
  <2>2. GoodReq(q)
    BY <2>1 DEF GoodReq, ReqRecords, IdleReq
  <2>3. /\ ReqBecomes(r, q)
        /\ UNCHANGED <<fenced, deletion, rows, auth0, pass, failures>>
    BY <1>3 DEF Remove
  <2> HIDE DEF q
  <2> QED BY <2>2, <2>3, <1>1, AsksOnlyGood
<1>4. CASE Plan(r)
  <2>1. PICK to \in Orgs \union {NoOrg} : ReqBecomes(r, [req[r] EXCEPT !.pc = "pointers", !.to = to])
    BY <1>4 DEF Plan, Remaining, OrgsOf
  <2>2. GoodReq([req[r] EXCEPT !.pc = "pointers", !.to = to])
    BY <1>1, <1>4 DEF Plan, GoodReq, ReqRecords, ReqAt
  <2> QED BY <1>4, <2>1, <2>2, <1>1, AsksOnlyGood DEF Plan
<1>5. CASE ReadHome(r)
  <2> DEFINE seenP == profile[req[r].acct]
             seenI == identity[req[r].sub].home
             q == [req[r] EXCEPT !.pc = "commit", !.seenProfile = seenP, !.seenIdentity = seenI]
  <2>1. /\ req[r].acct \in Accounts /\ req[r].sub \in Subs
        /\ ReqBecomes(r, q)
        /\ UNCHANGED <<fenced, deletion, rows, auth0, pass, failures>>
    BY <1>1, <1>5 DEF ReadHome, ReqAt
  <2>2. seenP \in Orgs \union {NoOrg} /\ seenI \in Orgs
    BY <1>1, <2>1
  <2>3. GoodReq(q)
    <3> HIDE DEF seenP, seenI
    <3> QED BY <1>1, <2>1, <2>2 DEF GoodReq, ReqRecords
  <2> HIDE DEF q
  <2> QED BY <2>1, <2>3, <1>1, AsksOnlyGood
<1>6. CASE Drop(r)
  BY <1>1, <1>6, IdleIsGood, AsksOnlyGood DEF Drop, Answered
<1> QED BY <1>2, <1>3, <1>4, <1>5, <1>6

LEMMA TypeOfJoining ==
    ASSUME TypeInv, NEW r \in Reqs, Accept(r) \/ CreateOrg(r)
    PROVE  TypeInv'
<1>1. /\ req[r].pc # "idle" => req[r].acct \in Accounts
      /\ auth0 \in SUBSET Subs
      /\ RowsGood
  BY DEF TypeInv, ReqsGood, GoodReq, RowsGood, RecordsGood
<1>2. CASE Accept(r)
  <2> DEFINE o == req[r].org
             u == req[r].acct
  <2>1. /\ o \in Orgs
        /\ u \in Accounts
        /\ "invitation" \in Sources
        /\ AddMember(o, u, "invitation")
    BY <1>1, <1>2 DEF Accept, ReqAt, InvitingStands, Open, RowsGood, Sources
  <2> HIDE DEF o, u
  <2>2. RowsGood'
    BY <1>1, <1>2, <2>1, AddMemberGood DEF Accept, RowsGood
  <2>3. RecordsGood' /\ Begun' /\ ReqsGood' /\ PassesGood'
    BY <1>1, <1>2, RecordsUnchangedGood, AnsweredGood, PassesUnchangedGood DEF Accept, TypeInv
  <2> QED BY <2>2, <2>3 DEF TypeInv
<1>3. CASE CreateOrg(r)
  <2>1. PICK o \in Orgs : Found(o, req[r].acct)
    BY <1>3 DEF CreateOrg
  <2>2. req[r].acct \in Accounts
    BY <1>1, <1>3 DEF CreateOrg, ReqAt
  <2>3. /\ orgs \subseteq orgs'
        /\ orgs' \in SUBSET Orgs
        /\ member' \in [Orgs -> [Accounts -> Sources]]
        /\ inverse' \in [Orgs -> SUBSET Accounts]
    BY <1>1, <2>1, <2>2, FoundGood
  <2>4. RowsGood'
    BY <1>1, <1>3, <2>3 DEF CreateOrg, RowsGood
  <2>5. RecordsGood' /\ Begun' /\ ReqsGood' /\ PassesGood'
    BY <1>1, <1>3, <2>3, RecordsUnchangedGood, AnsweredGood, PassesUnchangedGood DEF CreateOrg, TypeInv
  <2> QED BY <2>4, <2>5 DEF TypeInv
<1> QED BY <1>2, <1>3

LEMMA TypeOfMove ==
    ASSUME TypeInv, NEW r \in Reqs, CommitMove(r)
    PROVE  TypeInv'
<1> DEFINE u == req[r].acct
           s == req[r].sub
           o == req[r].org
           to == req[r].to
           kept == IF req[r].leaves THEN "none" ELSE member[o][u]
           left == IF req[r].leaves THEN inverse[o] \ {u} ELSE inverse[o]
           out == [member EXCEPT ![o][u] = kept]
           gone == [inverse EXCEPT ![o] = left]
<1>1. /\ u \in Accounts
      /\ auth0 \in SUBSET Subs
      /\ RowsGood
  BY DEF TypeInv, ReqsGood, GoodReq, RecordsGood, CommitMove, ReqAt
<1>2. out \in [Orgs -> [Accounts -> Sources]]
  <2>1. o \in Orgs => kept \in Sources
    BY <1>1 DEF RowsGood, Sources
  <2> HIDE DEF u, o, kept
  <2> QED BY <1>1, <2>1 DEF RowsGood
<1>3. gone \in [Orgs -> SUBSET Accounts]
  <2>1. o \in Orgs => left \in SUBSET Accounts
    BY <1>1 DEF RowsGood
  <2> HIDE DEF o, left
  <2> QED BY <1>1, <2>1 DEF RowsGood
<1>4. RowsGood' /\ orgs \subseteq orgs'
  <2>1. CASE MoveHome(r) /\ member' = out /\ inverse' = gone
    <3>1. to \in Orgs /\ UNCHANGED orgs
      BY <1>1, <2>1 DEF MoveHome, RemainingStands, Open, RowsGood
    <3>2. profile' \in [Accounts -> Orgs \union {NoOrg}]
      <4>1. UNCHANGED profile \/ RehomeProfile(u, to)
        BY <2>1 DEF MoveHome
      <4> HIDE DEF u, to
      <4> QED BY <1>1, <3>1, <4>1, RehomeProfileGood DEF RowsGood
    <3>3. identity' \in [Subs -> [acct : Accounts, home : Orgs, deleted : BOOLEAN]]
      <4>1. UNCHANGED identity \/ Rehome(s, to)
        BY <2>1 DEF MoveHome
      <4> HIDE DEF s, to
      <4> QED BY <1>1, <3>1, <4>1, RehomeGood DEF RowsGood
    <3> HIDE DEF out, gone
    <3> QED BY <1>1, <1>2, <1>3, <2>1, <3>1, <3>2, <3>3 DEF RowsGood
  <2>2. ASSUME NEW f \in Orgs \ orgs,
               orgs' = orgs \union {f},
               member' = [out EXCEPT ![f][u] = "own"],
               inverse' = [gone EXCEPT ![f] = inverse[f] \union {u}],
               Rehome(s, f),
               RehomeProfile(u, f)
        PROVE  RowsGood' /\ orgs \subseteq orgs'
    <3> HIDE DEF out, gone, u, s
    <3>1. member' \in [Orgs -> [Accounts -> Sources]]
      BY <1>2, <2>2 DEF Sources
    <3>2. inverse' \in [Orgs -> SUBSET Accounts]
      <4>1. inverse[f] \union {u} \in SUBSET Accounts
        BY <1>1 DEF RowsGood
      <4> QED BY <1>3, <2>2, <4>1
    <3>3. identity' \in [Subs -> [acct : Accounts, home : Orgs, deleted : BOOLEAN]]
      BY <1>1, <2>2, RehomeGood
    <3>4. profile' \in [Accounts -> Orgs \union {NoOrg}]
      BY <1>1, <2>2, RehomeProfileGood
    <3> QED BY <1>1, <2>2, <3>1, <3>2, <3>3, <3>4 DEF RowsGood
  <2> QED BY <2>1, <2>2 DEF CommitMove
<1>5. RecordsGood' /\ Begun' /\ ReqsGood' /\ PassesGood'
  BY <1>1, <1>4, RecordsUnchangedGood, AnsweredGood, PassesUnchangedGood DEF CommitMove, TypeInv
<1> QED BY <1>4, <1>5 DEF TypeInv

LEMMA TypeStep ==
    ASSUME TypeInv, PassesBegun, [Next]_vars
    PROVE  TypeInv'
<1>1. CASE UNCHANGED vars
  BY <1>1, UnchangedRowsGood, PassesUnchangedGood, ReqsUnchangedGood
     DEF vars, TypeInv, RecordsGood, Begun, rows
<1>2. ASSUME NEW p \in Passes, PassStep(p)
      PROVE  TypeInv'
  BY <1>2, TypeOfCensus, TypeOfMoves, TypeOfEndings, TypeOfDestruction DEF PassStep
<1>3. ASSUME NEW r \in Reqs, ReqStep(r)
      PROVE  TypeInv'
  BY <1>3, TypeOfSigningIn, TypeOfAsking, TypeOfJoining, TypeOfMove DEF ReqStep
<1> QED BY <1>1, <1>2, <1>3, TypeOfDeletion DEF Next

-----------------------------------------------------------------------------
(* How the rows, the records and the passes may change in one step.        *)

\* The stages in which rows are destroyed, and after.
Late == {"inverse", "rows", "done"}

\* A member is added where no fence is up, or leaves, or is destroyed.
LEMMA RowSteps ==
    ASSUME TypeInv, [Next]_vars
    PROVE  \/ UNCHANGED <<member, inverse>>
           \/ \E o \in Orgs \ fenced, u \in Accounts, source \in {"own", "invitation"} :
                 AddMember(o, u, source)
           \/ \E p \in Passes, u \in Accounts : DestroyInverse(p, u) \/ DestroyRow(p, u)
           \/ \E r \in Reqs : CommitMove(r)
<1> DEFINE Added == \E o \in Orgs \ fenced, u \in Accounts, source \in {"own", "invitation"} :
                       AddMember(o, u, source)
<1>1. fenced \subseteq orgs /\ orgs \subseteq Orgs
  BY DEF TypeInv, RecordsGood, RowsGood
<1>2. ASSUME NEW o, NEW u \in Accounts, Found(o, u)
      PROVE  Added
  BY <1>1, <1>2 DEF Found
<1>3. ASSUME NEW p \in Passes, MoveToFloor(p)
      PROVE  UNCHANGED <<member, inverse>> \/ Added
  <2>1. pass[p].cur.acct \in Accounts
    BY <1>3 DEF MoveToFloor, In, TypeInv, PassesGood, GoodPass, CursorStages, Verdicts
  <2> HIDE DEF Added
  <2> QED BY <1>2, <1>3, <2>1 DEF MoveToFloor, Floor, rows
<1>4. ASSUME NEW p \in Passes, PassStep(p), ~MoveToFloor(p)
      PROVE  \/ UNCHANGED <<member, inverse>>
             \/ \E u \in Accounts : DestroyInverse(p, u) \/ DestroyRow(p, u)
  BY <1>4 DEF PassStep, ListMembers, CensusMember, MoveIdentity, MoveProfile, ReadPointers,
              CheckIdentity, DeleteAuth0User, ScrubIdentity, ReadRows, MarkDone, rows
<1>5. ASSUME NEW r \in Reqs, CreateOrg(r) \/ Accept(r) \/ \E o \in Orgs : JoinAnew(r, o)
      PROVE  Added
  <2>1. req[r].pc # "idle" => req[r].acct \in Accounts
    BY DEF TypeInv, ReqsGood, GoodReq
  <2>2. CASE CreateOrg(r)
    <3> HIDE DEF Added
    <3> QED BY <1>2, <2>1, <2>2 DEF CreateOrg, ReqAt
  <2>3. CASE Accept(r)
    BY <1>1, <2>1, <2>3 DEF Accept, ReqAt, InvitingStands, Open
  <2>4. ASSUME NEW o \in Orgs, JoinAnew(r, o)
        PROVE  Added
    <3> DEFINE u == <<req[r].sub, req[r].acct[2] + 1>>
    <3>1. u \in Accounts /\ Open(o) /\ AddMember(o, u, "invitation")
      BY <2>4 DEF JoinAnew
    <3> HIDE DEF u
    <3> QED BY <3>1 DEF Open
  <2> QED BY <1>5, <2>2, <2>3, <2>4
<1>6. ASSUME NEW r \in Reqs, ReqStep(r)
      PROVE  UNCHANGED <<member, inverse>> \/ Added \/ CommitMove(r)
  <2> HIDE DEF Added
  <2> QED BY <1>5, <1>6 DEF ReqStep, SignIn, SignInAgain, ReadAccepter, Remove, Plan, ReadHome,
                            Drop, rows
<1> HIDE DEF Added
<1>7. \/ UNCHANGED <<member, inverse>>
      \/ Added
      \/ \E p \in Passes, u \in Accounts : DestroyInverse(p, u) \/ DestroyRow(p, u)
      \/ \E r \in Reqs : CommitMove(r)
  BY <1>3, <1>4, <1>6 DEF Next, CommitDeletion, StartPass, PassFails, ReturnToAuth0, rows, vars
<1> QED BY <1>7 DEF Added

\* A record is never withdrawn, and is done by MarkDone only.
LEMMA RecordSteps ==
    ASSUME TypeInv, [Next]_vars, NEW o \in Orgs
    PROVE  /\ deletion[o].status # "none" => deletion'[o].status # "none"
           /\ deletion'[o].status = "done" =>
                 \/ deletion[o].status = "done"
                 \/ \E p \in Passes : MarkDone(p) /\ pass[p].org = o
<1> DEFINE Recorded == /\ deletion[o].status # "none" => deletion'[o].status # "none"
                       /\ deletion'[o].status = "done" =>
                             \/ deletion[o].status = "done"
                             \/ \E p \in Passes : MarkDone(p) /\ pass[p].org = o
<1>1. CASE UNCHANGED deletion
  BY <1>1
<1>2. ASSUME NEW x \in Orgs, NEW t \in {"user", "other"}, CommitDeletion(x, t)
      PROVE  Recorded
  <2>1. deletion' = [deletion EXCEPT ![x] =
                       [status |-> "pending", trigger |-> t, attempts |-> 0]]
    BY <1>2 DEF CommitDeletion
  <2> QED BY <2>1 DEF TypeInv, RecordsGood
<1>3. ASSUME NEW p \in Passes, NEW x \in Orgs, StartPass(p, x)
      PROVE  Recorded
  <2> DEFINE n == IF deletion[x].attempts > Blocked THEN deletion[x].attempts
                  ELSE deletion[x].attempts + 1
  <2>1. deletion' = [deletion EXCEPT ![x].attempts = n]
    BY <1>3 DEF StartPass
  <2> HIDE DEF n
  <2>2. deletion'[o].status = deletion[o].status
    BY <2>1 DEF TypeInv, RecordsGood
  <2> QED BY <2>2
<1>4. ASSUME NEW p \in Passes, MarkDone(p)
      PROVE  Recorded
  <2> DEFINE x == pass[p].org
  <2>1. deletion' = [deletion EXCEPT ![x].status = "done"]
    BY <1>4 DEF MarkDone
  <2> HIDE DEF x
  <2>2. CASE o = x
    BY <1>4, <2>1, <2>2 DEF TypeInv, RecordsGood, x
  <2>3. CASE o # x
    BY <2>1, <2>3 DEF TypeInv, RecordsGood
  <2> QED BY <2>2, <2>3
<1>5. ASSUME NEW p \in Passes, PassStep(p), ~MarkDone(p)
      PROVE  UNCHANGED deletion
  BY <1>5 DEF PassStep, ListMembers, CensusMember, MoveIdentity, MoveProfile, ReadPointers,
              MoveToFloor, CheckIdentity, DeleteAuth0User, ScrubIdentity, ReadRows,
              DestroyInverse, DestroyRow
<1>6. ASSUME NEW r \in Reqs, ReqStep(r)
      PROVE  UNCHANGED deletion
  BY <1>6 DEF ReqStep, SignIn, SignInAgain, JoinAnew, ReadAccepter, Accept, CreateOrg, Remove,
              Plan, ReadHome, CommitMove, Drop
<1> HIDE DEF Recorded
<1>7. Recorded
  <2>1. UNCHANGED deletion => Recorded
    BY <1>1 DEF Recorded
  <2> QED BY <1>2, <1>3, <1>4, <1>5, <1>6, <2>1 DEF Next, PassFails, ReturnToAuth0, vars
<1> QED BY <1>7 DEF Recorded

\* The stages before the destruction leave the pass on its organization.
LEMMA EntersEarly ==
    ASSUME NEW q \in PassRecords, NEW m,
           NEW e \in {EnterRead(q), EnterScrub(q), EnterCheck(q), EnterMove(q),
                      MoveNext(q, m), CheckNext(q, m), ScrubNext(q, m)}
    PROVE  e.org = q.org /\ e.pc \notin Late
<1>1. ASSUME NEW stage \in Stages \ Late, NEW todo
      PROVE  Enter(q, stage, todo).org = q.org /\ Enter(q, stage, todo).pc \notin Late
  BY <1>1 DEF Enter, PassRecords
<1>2. {"read", "scrub", "check", "move"} \subseteq Stages \ Late
  BY DEF Stages, Late
<1>3. EnterRead(q).org = q.org /\ EnterRead(q).pc \notin Late
  BY <1>1, <1>2 DEF EnterRead
<1>4. EnterScrub(q).org = q.org /\ EnterScrub(q).pc \notin Late
  BY <1>1, <1>2, <1>3 DEF EnterScrub
<1>5. EnterCheck(q).org = q.org /\ EnterCheck(q).pc \notin Late
  BY <1>1, <1>2, <1>3 DEF EnterCheck
<1>6. EnterMove(q).org = q.org /\ EnterMove(q).pc \notin Late
  BY <1>1, <1>2, <1>5 DEF EnterMove
<1>7. MoveNext(q, m).org = q.org /\ MoveNext(q, m).pc \notin Late
  BY <1>1, <1>2, <1>5 DEF MoveNext
<1>8. CheckNext(q, m).org = q.org /\ CheckNext(q, m).pc \notin Late
  BY <1>1, <1>2, <1>4 DEF CheckNext
<1>9. ScrubNext(q, m).org = q.org /\ ScrubNext(q, m).pc \notin Late
  BY <1>1, <1>2, <1>3 DEF ScrubNext
<1> QED BY <1>3, <1>4, <1>5, <1>6, <1>7, <1>8, <1>9

LEMMA EarlySteps ==
    ASSUME TypeInv, NEW p \in Passes, PassStep(p),
           ~ReadRows(p), ~MarkDone(p),
           \A u \in Accounts : ~DestroyInverse(p, u) /\ ~DestroyRow(p, u)
    PROVE  /\ pass[p].pc # "idle"
           /\ \E q : PassBecomes(p, q) /\ q.org = pass[p].org /\ q.pc \notin Late
<1> DEFINE Stays == \E q : PassBecomes(p, q) /\ q.org = pass[p].org /\ q.pc \notin Late
<1>1. pass[p] \in PassRecords
  BY DEF TypeInv, PassesGood
<1>2. ASSUME NEW m, NEW stage \in {"profile", "pointers", "auth0"}
      PROVE  LET q == [pass[p] EXCEPT !.pc = stage, !.cur = m]
             IN q.org = pass[p].org /\ q.pc \notin Late
  BY <1>1, <1>2 DEF PassRecords, Late
<1>3. ASSUME ListMembers(p)
      PROVE  pass[p].pc # "idle" /\ Stays
  <2> DEFINE o == pass[p].org
             listed == ListedMembers(o)
             q == [pass[p] EXCEPT !.pc = "census", !.left = listed,
                            !.invited = {u \in listed : member[o][u] = "invitation"}]
  <2>1. /\ pass[p].pc = "list"
        /\ PassBecomes(p, IF listed = {} THEN EnterMove(pass[p]) ELSE q)
    BY <1>3 DEF ListMembers, In
  <2>2. q.org = pass[p].org /\ q.pc \notin Late
    <3> HIDE DEF listed
    <3> QED BY <1>1 DEF PassRecords, Late
  <2> HIDE DEF listed, q
  <2> QED BY <1>1, <2>1, <2>2, EntersEarly
<1>4. ASSUME NEW u \in Accounts, CensusMember(p, u)
      PROVE  pass[p].pc # "idle" /\ Stays
  <2>1. PICK m \in Verdicts :
          LET q == [pass[p] EXCEPT !.census = pass[p].census \union {m},
                                   !.left = pass[p].left \ {u}]
          IN PassBecomes(p, IF q.left = {} THEN EnterMove(q) ELSE q)
    BY <1>4 DEF CensusMember
  <2> DEFINE q == [pass[p] EXCEPT !.census = pass[p].census \union {m},
                                  !.left = pass[p].left \ {u}]
  <2>2. pass[p].pc = "census" /\ PassBecomes(p, IF q.left = {} THEN EnterMove(q) ELSE q)
    BY <1>4, <2>1 DEF CensusMember, In
  <2>3. q \in PassRecords /\ q.org = pass[p].org /\ q.pc = "census"
    BY <1>1, <2>2 DEF PassRecords
  <2> HIDE DEF q
  <2> QED BY <2>2, <2>3, EntersEarly DEF Late
<1>5. ASSUME NEW m \in pass[p].todo, MoveIdentity(p, m)
      PROVE  pass[p].pc # "idle" /\ Stays
  BY <1>2, <1>5 DEF MoveIdentity, In
<1>6. ASSUME MoveProfile(p)
      PROVE  pass[p].pc # "idle" /\ Stays
  BY <1>1, <1>6, EntersEarly DEF MoveProfile, In
<1>7. ASSUME NEW m \in pass[p].todo, ReadPointers(p, m)
      PROVE  pass[p].pc # "idle" /\ Stays
  <2> DEFINE q == [pass[p] EXCEPT !.pc = "floor", !.cur = m, !.seen = profile[m.acct]]
  <2>1. q.org = pass[p].org /\ q.pc \notin Late
    BY <1>1 DEF PassRecords, Late
  <2>2. PassBecomes(p, q) /\ pass[p].pc # "idle"
    BY <1>7 DEF ReadPointers, In
  <2> HIDE DEF q
  <2> QED BY <2>1, <2>2
<1>8. ASSUME MoveToFloor(p)
      PROVE  pass[p].pc # "idle" /\ Stays
  BY <1>1, <1>8, EntersEarly DEF MoveToFloor, In
<1>9. ASSUME NEW m \in pass[p].todo, CheckIdentity(p, m)
      PROVE  pass[p].pc # "idle" /\ Stays
  BY <1>1, <1>2, <1>9, EntersEarly DEF CheckIdentity, In
<1>10. ASSUME DeleteAuth0User(p)
       PROVE  pass[p].pc # "idle" /\ Stays
  BY <1>1, <1>10, EntersEarly DEF DeleteAuth0User, In
<1>11. ASSUME NEW m \in pass[p].todo, ScrubIdentity(p, m)
       PROVE  pass[p].pc # "idle" /\ Stays
  BY <1>1, <1>11, EntersEarly DEF ScrubIdentity, In
<1> HIDE DEF Stays
<1>12. pass[p].pc # "idle" /\ Stays
  BY <1>3, <1>4, <1>5, <1>6, <1>7, <1>8, <1>9, <1>10, <1>11 DEF PassStep
<1> QED BY <1>12 DEF Stays

\* What one step makes of a pass.
LEMMA PassSteps ==
    ASSUME TypeInv, [Next]_vars, NEW p \in Passes
    PROVE  \/ pass'[p] = pass[p]
           \/ pass'[p].pc = "idle"
           \/ /\ pass'[p].pc \notin Late
              /\ \/ pass[p].pc # "idle" /\ pass'[p].org = pass[p].org
                 \/ \E o \in Orgs : pass'[p].org = o /\ deletion[o].status # "none"
           \/ ReadRows(p)
           \/ \E u \in Accounts : DestroyInverse(p, u) \/ DestroyRow(p, u)
<1>1. pass \in [Passes -> PassRecords] /\ IdlePass.pc = "idle"
  BY DEF TypeInv, PassesGood, IdlePass
<1>2. ASSUME NEW x \in Passes, NEW q, PassBecomes(x, q)
      PROVE  pass'[p] = IF x = p THEN q ELSE pass[p]
  BY <1>1, <1>2 DEF PassBecomes
<1> DEFINE Steps ==
           \/ pass'[p] = pass[p]
           \/ pass'[p].pc = "idle"
           \/ /\ pass'[p].pc \notin Late
              /\ \/ pass[p].pc # "idle" /\ pass'[p].org = pass[p].org
                 \/ \E o \in Orgs : pass'[p].org = o /\ deletion[o].status # "none"
           \/ ReadRows(p)
           \/ \E u \in Accounts : DestroyInverse(p, u) \/ DestroyRow(p, u)
<1>3. ASSUME NEW x \in Passes, PassStep(x)
      PROVE  \E q : PassBecomes(x, q)
  BY <1>3 DEF PassStep, ListMembers, CensusMember, MoveIdentity, MoveProfile, ReadPointers,
              MoveToFloor, CheckIdentity, DeleteAuth0User, ScrubIdentity, ReadRows,
              DestroyInverse, DestroyRow, MarkDone
<1>4. ASSUME PassStep(p)
      PROVE  Steps
  BY <1>1, <1>2, <1>4, EarlySteps DEF MarkDone
<1>5. ASSUME NEW o \in Orgs, StartPass(p, o)
      PROVE  Steps
  <2> DEFINE q == [IdlePass EXCEPT !.pc = "list", !.org = o]
  <2>1. q.pc \notin Late /\ q.org = o
    BY DEF IdlePass, Late
  <2>2. PassBecomes(p, q) /\ deletion[o].status # "none"
    BY <1>5 DEF StartPass, Redrives
  <2> HIDE DEF q
  <2>3. pass'[p] = q
    BY <1>2, <2>2
  <2> QED BY <2>1, <2>2, <2>3
<1>6. ASSUME NEW x \in Passes,
             PassStep(x) \/ PassFails(x) \/ \E o \in Orgs : StartPass(x, o),
             x # p
      PROVE  pass'[p] = pass[p]
  BY <1>2, <1>3, <1>6 DEF PassFails, StartPass
<1>7. PassFails(p) => pass'[p].pc = "idle"
  BY <1>1, <1>2 DEF PassFails
<1>8. ASSUME NEW r \in Reqs, ReqStep(r)
      PROVE  UNCHANGED pass
  BY <1>8 DEF ReqStep, SignIn, SignInAgain, JoinAnew, ReadAccepter, Accept, CreateOrg, Remove,
              Plan, ReadHome, CommitMove, Drop
<1>9. UNCHANGED pass \/ pass'[p].pc = "idle" => Steps
  OBVIOUS
<1> HIDE DEF Steps
<1>11. UNCHANGED pass => pass'[p] = pass[p]
  OBVIOUS
<1>12. pass'[p] = pass[p] => Steps
  BY DEF Steps
<1>10. Steps
  BY <1>4, <1>5, <1>6, <1>7, <1>8, <1>9, <1>11, <1>12
     DEF Next, CommitDeletion, ReturnToAuth0, vars
<1> QED BY <1>10 DEF Steps

LEMMA PassesBegunStep ==
    ASSUME TypeInv, PassesBegun, [Next]_vars
    PROVE  PassesBegun'
<1> SUFFICES ASSUME NEW p \in Passes, pass'[p].pc # "idle"
             PROVE  /\ pass'[p].org \in Orgs
                    /\ deletion'[pass'[p].org].status # "none"
  BY DEF PassesBegun
<1>1. pass[p] \in PassRecords
  BY DEF TypeInv, PassesGood
<1>2. /\ pass'[p].org \in Orgs
      /\ deletion[pass'[p].org].status # "none"
  <2>1. CASE ReadRows(p)
    <3> DEFINE read == DestroyedRows(p)
               left == read \union {m.acct : m \in pass[p].census}
               q == [pass[p] EXCEPT !.pc = "inverse", !.rows = read, !.left = left]
    <3>1. /\ pass[p].pc # "idle"
          /\ PassBecomes(p, IF q.left = {} THEN EnterRows(q) ELSE q)
      BY <2>1 DEF ReadRows, In
    <3>2. q.org = pass[p].org /\ EnterRows(q).org = pass[p].org
      <4> HIDE DEF read, left
      <4> QED BY <1>1 DEF PassRecords, EnterRows
    <3> HIDE DEF q
    <3> QED BY <3>1, <3>2 DEF PassesBegun, PassBecomes, TypeInv, PassesGood
  <2>2. ASSUME NEW u \in Accounts, DestroyInverse(p, u) \/ DestroyRow(p, u)
        PROVE  pass'[p].org = pass[p].org /\ pass[p].pc # "idle"
    <3> DEFINE q == [pass[p] EXCEPT !.left = pass[p].left \ {u}]
    <3>1. /\ pass[p].pc # "idle"
          /\ \/ PassBecomes(p, IF q.left = {} THEN EnterRows(q) ELSE q)
             \/ PassBecomes(p, IF q.left = {} THEN [q EXCEPT !.pc = "done"] ELSE q)
      BY <2>2 DEF DestroyInverse, DestroyRow, In
    <3>2. /\ q.org = pass[p].org
          /\ EnterRows(q).org = pass[p].org
          /\ [q EXCEPT !.pc = "done"].org = pass[p].org
      BY <1>1 DEF PassRecords, EnterRows
    <3> HIDE DEF q
    <3> QED BY <3>1, <3>2 DEF PassBecomes, TypeInv, PassesGood
  <2>3. CASE pass'[p] = pass[p]
    BY <2>3 DEF PassesBegun
  <2> QED BY <2>1, <2>2, <2>3, PassSteps DEF PassesBegun
<1> QED BY <1>2, RecordSteps

-----------------------------------------------------------------------------
(* A deletion that is done has left nobody.                                *)

\* Every inverse item has a membership row.
Listed == \A o \in Orgs : inverse[o] \subseteq Members(o)

\* What a pass has still to destroy covers what is left of the rows.
Destroying(p) ==
    LET o == pass[p].org IN
    /\ pass[p].pc = "inverse" =>
          Members(o) \subseteq pass[p].rows /\ inverse[o] \subseteq pass[p].left
    /\ pass[p].pc = "rows" => Members(o) \subseteq pass[p].left /\ inverse[o] = {}
    /\ pass[p].pc = "done" => Members(o) = {} /\ inverse[o] = {}

IInv ==
    /\ TypeInv
    /\ PassesBegun
    /\ Listed
    /\ \A p \in Passes : Destroying(p)
    /\ DoneIsEmpty
    /\ slipped \in SUBSET Subs

\* What one row changed in a table makes of it.
Changed(x, u, kept) == [member EXCEPT ![x][u] = kept]

LEMMA RowChanged ==
    ASSUME member \in [Orgs -> [Accounts -> Sources]], NEW x, NEW u, NEW kept
    PROVE  /\ Changed(x, u, kept) \in [Orgs -> [Accounts -> {kept} \union Sources]]
           /\ \A y \in Orgs, w \in Accounts :
                 Changed(x, u, kept)[y][w] = IF y = x /\ w = u THEN kept ELSE member[y][w]
<1> DEFINE out == Changed(x, u, kept)
<1>0. out = [member EXCEPT ![x][u] = kept]
  BY DEF Changed
<1> HIDE DEF out
<1>1. ASSUME NEW y \in Orgs
      PROVE  /\ out[y] \in [Accounts -> {kept} \union Sources]
             /\ \A w \in Accounts : out[y][w] = IF y = x /\ w = u THEN kept ELSE member[y][w]
  <2>1. CASE y = x
    <3> DEFINE row == member[y]
    <3>1. out[y] = [row EXCEPT ![u] = kept] /\ row \in [Accounts -> Sources]
      BY <1>0, <2>1
    <3> HIDE DEF row
    <3>2. out[y] \in [Accounts -> {kept} \union Sources]
      BY <3>1
    <3>3. \A w \in Accounts : out[y][w] = IF w = u THEN kept ELSE row[w]
      BY <3>1
    <3> QED BY <2>1, <3>2, <3>3 DEF row
  <2>2. CASE y # x
    <3>1. out[y] = member[y]
      BY <1>0, <2>2
    <3> QED BY <2>2, <3>1
  <2> QED BY <2>1, <2>2
<1>2. out = [y \in Orgs |-> out[y]]
  BY <1>0
<1> QED BY <1>1, <1>2 DEF out

\* orgNotDeletingCheck: behind the fence memberships are only lost, by whomever.
LEMMA FencedShrinks ==
    ASSUME TypeInv, PassesBegun, [Next]_vars, NEW o \in fenced
    PROVE  /\ Members(o)' \subseteq Members(o)
           /\ inverse'[o] \subseteq inverse[o]
<1>1. /\ o \in Orgs
      /\ o \in orgs
      /\ member \in [Orgs -> [Accounts -> Sources]]
      /\ inverse \in [Orgs -> SUBSET Accounts]
      /\ pass \in [Passes -> PassRecords]
  BY DEF TypeInv, RecordsGood, RowsGood, PassesGood
<1>2. SUFFICES /\ \A v \in Accounts : member'[o][v] # "none" => member[o][v] # "none"
               /\ inverse'[o] \subseteq inverse[o]
  BY DEF Members
<1>3. CASE UNCHANGED <<member, inverse>>
  BY <1>3
<1>4. ASSUME NEW x \in Orgs \ fenced, NEW u \in Accounts, NEW source, AddMember(x, u, source)
      PROVE  member'[o] = member[o] /\ inverse'[o] = inverse[o]
  BY <1>1, <1>4 DEF AddMember
<1>5. ASSUME NEW p \in Passes, NEW u \in Accounts, DestroyInverse(p, u)
      PROVE  member'[o] = member[o] /\ inverse'[o] \subseteq inverse[o]
  BY <1>1, <1>5 DEF DestroyInverse
<1>6. ASSUME NEW p \in Passes, NEW u \in Accounts, DestroyRow(p, u)
      PROVE  /\ \A v \in Accounts : member'[o][v] # "none" => member[o][v] # "none"
             /\ inverse'[o] = inverse[o]
  BY <1>1, <1>6 DEF DestroyRow
<1>7. ASSUME NEW r \in Reqs, CommitMove(r)
      PROVE  /\ \A v \in Accounts : member'[o][v] # "none" => member[o][v] # "none"
             /\ inverse'[o] \subseteq inverse[o]
  <2> DEFINE u == req[r].acct
             x == req[r].org
             kept == IF req[r].leaves THEN "none" ELSE member[x][u]
             left == IF req[r].leaves THEN inverse[x] \ {u} ELSE inverse[x]
             out == [member EXCEPT ![x][u] = kept]
             gone == [inverse EXCEPT ![x] = left]
  <2>1. /\ out \in [Orgs -> [Accounts -> {kept} \union Sources]]
        /\ \A v \in Accounts : out[o][v] # "none" => member[o][v] # "none"
        /\ gone[o] \subseteq inverse[o]
    <3>1. kept \in {"none", member[x][u]} /\ left \subseteq inverse[x]
      OBVIOUS
    <3> HIDE DEF u, x, kept, left
    <3>5. out = Changed(x, u, kept)
      BY DEF Changed
    <3>6. gone = [inverse EXCEPT ![x] = left]
      OBVIOUS
    <3> HIDE DEF out, gone
    <3>2. /\ out \in [Orgs -> [Accounts -> {kept} \union Sources]]
          /\ \A v \in Accounts : out[o][v] = IF o = x /\ v = u THEN kept ELSE member[o][v]
      BY <1>1, <3>5, RowChanged
    <3>3. gone[o] \subseteq inverse[o]
      BY <1>1, <3>1, <3>6
    <3> QED BY <3>1, <3>2, <3>3
  <2>2. DOMAIN gone = Orgs
    BY <1>1
  <2>3. \/ member' = out /\ inverse' = gone
        \/ \E f \in Orgs \ orgs :
              /\ member' = [out EXCEPT ![f][u] = "own"]
              /\ inverse' = [gone EXCEPT ![f] = inverse[f] \union {u}]
    BY <1>7 DEF CommitMove
  <2> HIDE DEF out, gone
  <2>4. member'[o] = out[o] /\ inverse'[o] = gone[o]
    BY <1>1, <2>1, <2>2, <2>3
  <2> QED BY <2>1, <2>4
<1> QED BY <1>3, <1>4, <1>5, <1>6, <1>7, RowSteps

LEMMA ListedStep ==
    ASSUME IInv, [Next]_vars
    PROVE  Listed'
<1>1. /\ member \in [Orgs -> [Accounts -> Sources]]
      /\ inverse \in [Orgs -> SUBSET Accounts]
      /\ pass \in [Passes -> PassRecords]
      /\ \A o \in Orgs : \A v \in inverse[o] : v \in Accounts /\ member[o][v] # "none"
  BY DEF IInv, TypeInv, RowsGood, PassesGood, Listed, Members
<1>2. SUFFICES ASSUME NEW o \in Orgs, NEW v \in inverse'[o]
               PROVE  v \in Accounts /\ member'[o][v] # "none"
  BY DEF Listed, Members
<1>3. CASE UNCHANGED <<member, inverse>>
  BY <1>1, <1>3
<1>4. ASSUME NEW x \in Orgs \ fenced, NEW u \in Accounts,
             NEW source \in {"own", "invitation"}, AddMember(x, u, source)
      PROVE  v \in Accounts /\ member'[o][v] # "none"
  BY <1>1, <1>4 DEF AddMember
<1>5. ASSUME NEW p \in Passes, NEW u \in Accounts, DestroyInverse(p, u)
      PROVE  v \in Accounts /\ member'[o][v] # "none"
  BY <1>1, <1>5 DEF DestroyInverse
<1>6. ASSUME NEW p \in Passes, NEW u \in Accounts, DestroyRow(p, u)
      PROVE  v \in Accounts /\ member'[o][v] # "none"
  <2>1. pass[p].org = o => inverse[o] = {}
    BY <1>6 DEF DestroyRow, In, IInv, Destroying
  <2>2. /\ inverse' = inverse
        /\ member' = [member EXCEPT ![pass[p].org][u] = "none"]
    BY <1>6 DEF DestroyRow
  <2> QED BY <1>1, <2>1, <2>2
<1>7. ASSUME NEW r \in Reqs, CommitMove(r)
      PROVE  v \in Accounts /\ member'[o][v] # "none"
  <2> DEFINE u == req[r].acct
             x == req[r].org
             kept == IF req[r].leaves THEN "none" ELSE member[x][u]
             left == IF req[r].leaves THEN inverse[x] \ {u} ELSE inverse[x]
             out == [member EXCEPT ![x][u] = kept]
             gone == [inverse EXCEPT ![x] = left]
  <2>1. u \in Accounts
    BY <1>7 DEF CommitMove, ReqAt, IInv, TypeInv, ReqsGood, GoodReq
  <2>2. /\ out \in [Orgs -> [Accounts -> {kept} \union Sources]]
        /\ DOMAIN gone = Orgs
        /\ \A y \in Orgs, w \in Accounts : out[y][w] = IF y = x /\ w = u THEN kept ELSE member[y][w]
        /\ \A y \in Orgs : gone[y] = IF y = x THEN left ELSE inverse[y]
    <3> HIDE DEF u, x, kept, left
    <3>5. out = Changed(x, u, kept)
      BY DEF Changed
    <3>6. gone = [inverse EXCEPT ![x] = left]
      OBVIOUS
    <3> HIDE DEF out, gone
    <3>1. /\ out \in [Orgs -> [Accounts -> {kept} \union Sources]]
          /\ \A y \in Orgs, w \in Accounts : out[y][w] = IF y = x /\ w = u THEN kept ELSE member[y][w]
      BY <1>1, <3>5, RowChanged
    <3> QED BY <1>1, <3>1, <3>6
  <2>3. \A y \in Orgs : \A w \in gone[y] : w \in Accounts /\ out[y][w] # "none"
    <3> HIDE DEF out, gone, u, x
    <3> QED BY <1>1, <2>2
  <2>4. \A y \in Orgs : \A w \in inverse[y] : w # u => w \in Accounts /\ out[y][w] # "none"
    <3> HIDE DEF out, gone, u, x
    <3> QED BY <1>1, <2>2
  <2>5. \/ member' = out /\ inverse' = gone
        \/ \E f \in Orgs \ orgs :
              /\ member' = [out EXCEPT ![f][u] = "own"]
              /\ inverse' = [gone EXCEPT ![f] = inverse[f] \union {u}]
    BY <1>7 DEF CommitMove
  <2> HIDE DEF out, gone, u, kept
  <2>6. CASE member' = out /\ inverse' = gone
    BY <2>3, <2>6
  <2>7. ASSUME NEW f \in Orgs \ orgs,
               member' = [out EXCEPT ![f][u] = "own"],
               inverse' = [gone EXCEPT ![f] = inverse[f] \union {u}]
        PROVE  v \in Accounts /\ member'[o][v] # "none"
    BY <2>1, <2>2, <2>3, <2>4, <2>7
  <2> QED BY <2>5, <2>6, <2>7
<1> QED BY <1>3, <1>4, <1>5, <1>6, <1>7, RowSteps, <1>1 DEF IInv

\* destroyOrgTableRows: a pass that has gone through its list leaves nothing,
\* whatever became of the rows since it read them.
LEMMA DestroyingStep ==
    ASSUME IInv, [Next]_vars, NEW p \in Passes
    PROVE  Destroying(p)'
<1>0. PICK o : o = pass[p].org
  OBVIOUS
<1>1. /\ pass \in [Passes -> PassRecords]
      /\ pass[p] \in PassRecords
      /\ inverse \in [Orgs -> SUBSET Accounts]
      /\ member \in [Orgs -> [Accounts -> Sources]]
      /\ Destroying(p)
  BY DEF IInv, TypeInv, PassesGood, RowsGood
<1>2. ASSUME pass[p].pc # "idle"
      PROVE  /\ o \in Orgs
             /\ Members(o)' \subseteq Members(o)
             /\ inverse'[o] \subseteq inverse[o]
  BY <1>0, <1>2, FencedShrinks DEF IInv, TypeInv, PassesBegun, Begun
<1>3. CASE pass'[p] = pass[p]
  <2>1. CASE pass[p].pc = "idle"
    BY <1>0, <1>3, <2>1 DEF Destroying
  <2>2. CASE pass[p].pc # "idle"
    BY <1>0, <1>1, <1>2, <1>3, <2>2 DEF Destroying, Members
  <2> QED BY <1>0, <2>1, <2>2
<1>4. CASE pass'[p].pc \notin Late
  BY <1>0, <1>4 DEF Destroying, Late
<1>5. ASSUME ReadRows(p)
      PROVE  Destroying(p)'
  <2> DEFINE read == DestroyedRows(p)
             left == read \union {m.acct : m \in pass[p].census}
             q == [pass[p] EXCEPT !.pc = "inverse", !.rows = read, !.left = left]
  <2>1. /\ PassBecomes(p, IF q.left = {} THEN EnterRows(q) ELSE q)
        /\ UNCHANGED rows
        /\ pass[p].pc # "idle"
    BY <1>0, <1>5 DEF ReadRows, In
  <2>2. read = Members(o) /\ inverse[o] \subseteq Members(o)
    BY <1>0, <1>2, <2>1 DEF DestroyedRows, IInv, Listed
  <2>3. read \subseteq left
    OBVIOUS
  <2>4. q.org = o /\ q.pc = "inverse" /\ q.rows = read /\ q.left = left
    <3> HIDE DEF read, left
    <3> QED BY <1>0, <1>1 DEF PassRecords
  <2>5. /\ EnterRows(q).org = o
        /\ EnterRows(q).left = read
        /\ EnterRows(q).pc = IF read = {} THEN "done" ELSE "rows"
    <3>1. q \in [pc : {"inverse"}, org : {o}, census : {pass[p].census}, todo : {pass[p].todo},
                 left : {left}, invited : {pass[p].invited}, cur : {pass[p].cur},
                 seen : {pass[p].seen}, rows : {read}]
      <4> HIDE DEF read, left
      <4> QED BY <1>0, <1>1 DEF PassRecords
    <3> HIDE DEF q, read, left
    <3> QED BY <3>1 DEF EnterRows
  <2>6. Members(o)' = Members(o) /\ inverse'[o] = inverse[o]
    BY <1>0, <2>1 DEF Members, rows
  <2>7. pass'[p] = IF q.left = {} THEN EnterRows(q) ELSE q
    BY <1>0, <1>1, <2>1 DEF PassBecomes
  <2> HIDE DEF q, read, left
  <2>8. CASE q.left = {}
    BY <1>0, <2>2, <2>3, <2>4, <2>5, <2>6, <2>7, <2>8 DEF Destroying, Members
  <2>9. CASE q.left # {}
    BY <1>0, <2>2, <2>3, <2>4, <2>6, <2>7, <2>9 DEF Destroying, Members
  <2> QED BY <1>0, <2>8, <2>9
<1>6. ASSUME NEW u \in Accounts, DestroyInverse(p, u)
      PROVE  Destroying(p)'
  <2> DEFINE q == [pass[p] EXCEPT !.left = pass[p].left \ {u}]
  <2>1. /\ pass[p].pc = "inverse"
        /\ PassBecomes(p, IF q.left = {} THEN EnterRows(q) ELSE q)
        /\ inverse' = [inverse EXCEPT ![o] = inverse[o] \ {u}]
        /\ member' = member
    BY <1>0, <1>6 DEF DestroyInverse, In
  <2>2. /\ Members(o) \subseteq pass[p].rows
        /\ inverse[o] \subseteq pass[p].left
        /\ o \in Orgs
    BY <1>0, <1>1, <1>2, <2>1 DEF Destroying
  <2>3. Members(o)' = Members(o) /\ inverse'[o] = inverse[o] \ {u}
    BY <1>0, <1>1, <2>1, <2>2 DEF Members
  <2>4. q.org = o /\ q.pc = "inverse" /\ q.rows = pass[p].rows /\ q.left = pass[p].left \ {u}
    BY <1>0, <1>1, <2>1 DEF PassRecords
  <2>5. /\ EnterRows(q).org = o
        /\ EnterRows(q).left = pass[p].rows
        /\ EnterRows(q).pc = IF pass[p].rows = {} THEN "done" ELSE "rows"
    <3>1. q \in PassRecords
      BY <1>0, <1>1 DEF PassRecords
    <3> HIDE DEF q
    <3> QED BY <1>0, <2>4, <3>1 DEF EnterRows, PassRecords
  <2>6. pass'[p] = IF q.left = {} THEN EnterRows(q) ELSE q
    BY <1>0, <1>1, <2>1 DEF PassBecomes
  <2> HIDE DEF q
  <2>7. CASE q.left = {}
    BY <1>0, <2>2, <2>3, <2>4, <2>5, <2>6, <2>7 DEF Destroying, Members
  <2>8. CASE q.left # {}
    BY <1>0, <2>2, <2>3, <2>4, <2>6, <2>8 DEF Destroying, Members
  <2> QED BY <1>0, <2>7, <2>8
<1>7. ASSUME NEW u \in Accounts, DestroyRow(p, u)
      PROVE  Destroying(p)'
  <2> DEFINE q == [pass[p] EXCEPT !.left = pass[p].left \ {u}]
  <2>1. /\ pass[p].pc = "rows"
        /\ PassBecomes(p, IF q.left = {} THEN [q EXCEPT !.pc = "done"] ELSE q)
        /\ member' = [member EXCEPT ![o][u] = "none"]
        /\ inverse' = inverse
    BY <1>0, <1>7 DEF DestroyRow, In
  <2>2. Members(o) \subseteq pass[p].left /\ inverse[o] = {} /\ o \in Orgs
    BY <1>0, <1>1, <1>2, <2>1 DEF Destroying
  <2>3. Members(o)' \subseteq Members(o) \ {u}
    <3>1. member'[o] = [member[o] EXCEPT ![u] = "none"]
      BY <1>0, <1>1, <2>1, <2>2
    <3>2. \A v \in Accounts : member'[o][v] # "none" => member[o][v] # "none" /\ v # u
      BY <1>0, <1>1, <2>2, <3>1
    <3> QED BY <3>2 DEF Members
  <2>4. q.org = o /\ q.pc = "rows" /\ q.left = pass[p].left \ {u}
    BY <1>0, <1>1, <2>1 DEF PassRecords
  <2>5. [q EXCEPT !.pc = "done"].org = o /\ [q EXCEPT !.pc = "done"].pc = "done"
    BY <1>0, <1>1 DEF PassRecords
  <2>6. pass'[p] = IF q.left = {} THEN [q EXCEPT !.pc = "done"] ELSE q
    BY <1>0, <1>1, <2>1 DEF PassBecomes
  <2> HIDE DEF q
  <2>7. CASE q.left = {}
    BY <1>0, <2>1, <2>2, <2>3, <2>4, <2>5, <2>6, <2>7 DEF Destroying, Members
  <2>8. CASE q.left # {}
    BY <1>0, <2>1, <2>2, <2>3, <2>4, <2>6, <2>8 DEF Destroying, Members
  <2> QED BY <1>0, <2>7, <2>8
<1>8. "idle" \notin Late
  BY DEF Late
<1> QED BY <1>0, <1>3, <1>4, <1>5, <1>6, <1>7, <1>8, PassSteps DEF IInv

LEMMA DoneStaysEmpty ==
    ASSUME IInv, [Next]_vars
    PROVE  DoneIsEmpty'
<1> SUFFICES ASSUME NEW o \in Orgs, deletion'[o].status = "done"
             PROVE  Members(o)' = {} /\ inverse'[o] = {}
  BY DEF DoneIsEmpty
<1>1. CASE deletion[o].status = "done"
  <2>1. o \in fenced /\ Members(o) = {} /\ inverse[o] = {}
    BY <1>1 DEF IInv, TypeInv, Begun, DoneIsEmpty
  <2> QED BY <2>1, FencedShrinks DEF IInv
<1>2. ASSUME NEW p \in Passes, MarkDone(p), pass[p].org = o
      PROVE  Members(o)' = {} /\ inverse'[o] = {}
  <2>1. Members(o) = {} /\ inverse[o] = {}
    BY <1>2 DEF MarkDone, In, IInv, Destroying
  <2>2. UNCHANGED <<member, inverse>>
    BY <1>2 DEF MarkDone, rows
  <2> QED BY <2>1, <2>2 DEF Members
<1> QED BY <1>1, <1>2, RecordSteps DEF IInv

\* Who has joined past a fence has done so for good.
LEMMA SlippedStep ==
    ASSUME TypeInv, slipped \in SUBSET Subs, [Next]_vars
    PROVE  slipped' \in SUBSET Subs /\ Unslipped' \subseteq Unslipped
<1>1. ASSUME NEW p \in Passes, PassStep(p)
      PROVE  UNCHANGED slipped
  BY <1>1 DEF PassStep, ListMembers, CensusMember, MoveIdentity, MoveProfile, ReadPointers,
              MoveToFloor, CheckIdentity, DeleteAuth0User, ScrubIdentity, ReadRows,
              DestroyInverse, DestroyRow, MarkDone
<1>2. ASSUME NEW r \in Reqs, ReqStep(r), ~Accept(r)
      PROVE  UNCHANGED slipped
  BY <1>2 DEF ReqStep, SignIn, SignInAgain, JoinAnew, ReadAccepter, CreateOrg, Remove,
              Plan, ReadHome, CommitMove, Drop
<1>3. ASSUME NEW r \in Reqs, Accept(r)
      PROVE  slipped \subseteq slipped' /\ slipped' \in SUBSET Subs
  BY <1>3 DEF Accept, ReqAt, TypeInv, ReqsGood, GoodReq
<1>4. slipped \subseteq slipped' /\ slipped' \in SUBSET Subs
  BY <1>1, <1>2, <1>3 DEF Next, CommitDeletion, StartPass, PassFails, ReturnToAuth0, vars
<1> QED BY <1>4 DEF Unslipped

LEMMA InvariantInit ==
    Init => IInv
<1> SUFFICES ASSUME Init PROVE IInv
  OBVIOUS
<1>1. TypeInv
  BY TypeInit
<1>2. PassesBegun /\ \A p \in Passes : Destroying(p)
  BY DEF Init, PassesBegun, Destroying, IdlePass
<1>3. DoneIsEmpty
  BY DEF Init, DoneIsEmpty, NoDeletion
<1>4. Listed
  <2> SUFFICES ASSUME NEW o \in Orgs, NEW u \in inverse[o]
               PROVE  u \in Accounts /\ member[o][u] # "none"
    BY DEF Listed, Members
  <2>1. PICK joined \in [Founded -> [Subs -> Sources]] :
          /\ member = [x \in Orgs |-> [v \in Accounts |->
                IF x \in Founded /\ v[2] = 1 THEN joined[x][v[1]] ELSE "none"]]
          /\ inverse = [x \in Orgs |-> {v \in Accounts :
                x \in Founded /\ v[2] = 1 /\ joined[x][v[1]] # "none"}]
    BY DEF Init
  <2> QED BY <2>1
<1>5. slipped \in SUBSET Subs
  BY DEF Init
<1> QED BY <1>1, <1>2, <1>3, <1>4, <1>5 DEF IInv

LEMMA InvariantStep ==
    ASSUME IInv, [Next]_vars
    PROVE  IInv'
<1>1. TypeInv' /\ PassesBegun'
  BY TypeStep, PassesBegunStep DEF IInv
<1>2. Listed' /\ DoneIsEmpty'
  BY ListedStep, DoneStaysEmpty
<1>3. (\A p \in Passes : Destroying(p))'
  BY DestroyingStep
<1>4. slipped' \in SUBSET Subs
  BY SlippedStep DEF IInv
<1> QED BY <1>1, <1>2, <1>3, <1>4 DEF IInv

\* The strengthening that carries the two theorems below.
THEOREM Invariant == Spec => []IInv
<1>1. Init => IInv
  BY InvariantInit
<1>2. IInv /\ [Next]_vars => IInv'
  BY InvariantStep
<1> QED BY <1>1, <1>2, PTL DEF Spec

\* Type correctness of the rows, the records, the passes and the requests.
THEOREM TypeCorrect == Spec => []TypeOK
<1>1. IInv => TypeOK
  BY DEF IInv, TypeInv, RowsGood, RecordsGood, PassesGood, ReqsGood, TypeOK
<1> QED BY <1>1, Invariant, PTL

\* destroyOrgTableRows and orgNotDeletingCheck: an organization whose deletion
\* is done has neither a membership row nor an inverse item, however many
\* passes overlapped, died and were run again, and whatever was requested.
THEOREM DoneMeansEmpty == Spec => []DoneIsEmpty
<1>1. IInv => DoneIsEmpty
  BY DEF IInv
<1> QED BY <1>1, Invariant, PTL

-----------------------------------------------------------------------------
(* What a stage of a pass has to do comes from the pass's own census.      *)

MoveStages == {"move", "profile", "pointers", "floor"}
EndStages == {"check", "auth0", "scrub"}

Staged(q) ==
    /\ q.pc \in MoveStages => q.todo \subseteq Moving(q.census)
    /\ q.pc \in EndStages => q.todo \subseteq Ending(q.census)
    /\ q.pc \in CursorStages => q.cur \in q.todo

AllStaged == \A p \in Passes : Staged(pass[p])

\* What the stages that follow one another make of the pass.
LEMMA Entered ==
    ASSUME NEW q \in PassRecords, NEW stage \in Stages, NEW todo
    PROVE  LET e == Enter(q, stage, todo) IN
              /\ e.pc = stage
              /\ e.todo = todo
              /\ e.org = q.org
              /\ e.census = q.census
BY DEF Enter, PassRecords

LEMMA EntersNext ==
    ASSUME NEW q \in PassRecords
    PROVE  /\ LET e == EnterRead(q) IN
                 e.org = q.org /\ e.census = q.census /\ e.pc = "read"
           /\ LET e == EnterScrub(q) IN
                 /\ e.org = q.org /\ e.census = q.census
                 /\ \/ e.pc = "scrub" /\ e.todo = Ending(q.census)
                    \/ e.pc = "read" /\ Ending(q.census) = {}
           /\ LET e == EnterCheck(q) IN
                 /\ e.org = q.org /\ e.census = q.census
                 /\ \/ e.pc = "check" /\ e.todo = Ending(q.census) /\ e.todo # {}
                    \/ e.pc = "read" /\ Ending(q.census) = {}
           /\ LET e == EnterMove(q) IN
                 /\ e.org = q.org /\ e.census = q.census
                 /\ \/ e.pc = "move" /\ e.todo = Moving(q.census) /\ e.todo # {}
                    \/ /\ e.pc = "check" /\ e.todo = Ending(q.census)
                       /\ e.todo # {} /\ Moving(q.census) = {}
                    \/ /\ e.pc = "read"
                       /\ Ending(q.census) = {}
                       /\ Moving(q.census) = {}
<1>1. {"read", "scrub", "check", "move"} \subseteq Stages
  BY DEF Stages
<1>2. LET e == EnterRead(q) IN
         e.org = q.org /\ e.census = q.census /\ e.pc = "read"
  BY <1>1, Entered DEF EnterRead
<1>3. LET e == EnterScrub(q) IN
         /\ e.org = q.org /\ e.census = q.census
         /\ \/ e.pc = "scrub" /\ e.todo = Ending(q.census)
            \/ e.pc = "read" /\ Ending(q.census) = {}
  BY <1>1, <1>2, Entered DEF EnterScrub
<1>4. LET e == EnterCheck(q) IN
         /\ e.org = q.org /\ e.census = q.census
         /\ \/ e.pc = "check" /\ e.todo = Ending(q.census) /\ e.todo # {}
            \/ e.pc = "read" /\ Ending(q.census) = {}
  BY <1>1, <1>2, Entered DEF EnterCheck
<1>5. LET e == EnterMove(q) IN
         /\ e.org = q.org /\ e.census = q.census
         /\ \/ e.pc = "move" /\ e.todo = Moving(q.census) /\ e.todo # {}
            \/ /\ e.pc = "check" /\ e.todo = Ending(q.census)
               /\ e.todo # {} /\ Moving(q.census) = {}
            \/ /\ e.pc = "read"
               /\ Ending(q.census) = {}
               /\ Moving(q.census) = {}
  <2>1. CASE Moving(q.census) = {}
    BY <1>4, <2>1 DEF EnterMove
  <2>2. CASE Moving(q.census) # {}
    BY <1>1, <2>2, Entered DEF EnterMove
  <2> QED BY <2>1, <2>2
<1> QED BY <1>2, <1>3, <1>4, <1>5

LEMMA GoesOn ==
    ASSUME NEW q \in PassRecords, NEW m
    PROVE  /\ LET e == MoveNext(q, m) IN
                 /\ e.org = q.org /\ e.census = q.census
                 /\ \/ e.pc = "move" /\ e.todo = q.todo \ {m}
                    \/ /\ q.todo = {m}
                       /\ \/ e.pc = "check" /\ e.todo = Ending(q.census)
                          \/ e.pc = "read" /\ Ending(q.census) = {}
           /\ LET e == CheckNext(q, m) IN
                 /\ e.org = q.org /\ e.census = q.census
                 /\ \/ e.pc = "check" /\ e.todo = q.todo \ {m}
                    \/ e.pc = "scrub" /\ e.todo = Ending(q.census)
                    \/ e.pc = "read" /\ Ending(q.census) = {}
           /\ LET e == ScrubNext(q, m) IN
                 /\ e.org = q.org /\ e.census = q.census
                 /\ \/ e.pc = "scrub" /\ e.todo = q.todo \ {m}
                    \/ e.pc = "read" /\ q.todo = {m}
<1>1. {"read", "scrub", "check", "move"} \subseteq Stages
  BY DEF Stages
<1>2. LET e == MoveNext(q, m) IN
         /\ e.org = q.org /\ e.census = q.census
         /\ \/ e.pc = "move" /\ e.todo = q.todo \ {m}
            \/ /\ q.todo = {m}
               /\ \/ e.pc = "check" /\ e.todo = Ending(q.census)
                  \/ e.pc = "read" /\ Ending(q.census) = {}
  <2>1. CASE q.todo = {m}
    BY <2>1, EntersNext DEF MoveNext
  <2>2. CASE q.todo # {m}
    BY <1>1, <2>2, Entered DEF MoveNext
  <2> QED BY <2>1, <2>2
<1>3. LET e == CheckNext(q, m) IN
         /\ e.org = q.org /\ e.census = q.census
         /\ \/ e.pc = "check" /\ e.todo = q.todo \ {m}
            \/ e.pc = "scrub" /\ e.todo = Ending(q.census)
            \/ e.pc = "read" /\ Ending(q.census) = {}
  <2>1. CASE q.todo = {m}
    BY <2>1, EntersNext DEF CheckNext
  <2>2. CASE q.todo # {m}
    BY <1>1, <2>2, Entered DEF CheckNext
  <2> QED BY <2>1, <2>2
<1>4. LET e == ScrubNext(q, m) IN
         /\ e.org = q.org /\ e.census = q.census
         /\ \/ e.pc = "scrub" /\ e.todo = q.todo \ {m}
            \/ e.pc = "read" /\ q.todo = {m}
  <2>1. CASE q.todo = {m}
    BY <2>1, EntersNext DEF ScrubNext
  <2>2. CASE q.todo # {m}
    BY <1>1, <2>2, Entered DEF ScrubNext
  <2> QED BY <2>1, <2>2
<1> QED BY <1>2, <1>3, <1>4

LEMMA StagedNext ==
    ASSUME NEW q \in PassRecords, NEW m
    PROVE  /\ Staged(EnterMove(q))
           /\ q.todo \subseteq Moving(q.census) => Staged(MoveNext(q, m))
           /\ q.todo \subseteq Ending(q.census) => Staged(CheckNext(q, m)) /\ Staged(ScrubNext(q, m))
BY EntersNext, GoesOn DEF Staged, MoveStages, EndStages, CursorStages

\* Of the steps of a pass those that say where it goes.
LEMMA StagedPassStep ==
    ASSUME TypeInv, AllStaged, NEW p \in Passes, PassStep(p)
    PROVE  \E q : PassBecomes(p, q) /\ Staged(q)
<1> DEFINE Stays == \E q : PassBecomes(p, q) /\ Staged(q)
<1> USE DEF MoveStages, EndStages, CursorStages
<1>1. pass[p] \in PassRecords /\ Staged(pass[p])
  BY DEF TypeInv, PassesGood, AllStaged
<1>2. CASE ListMembers(p)
  <2> DEFINE o == pass[p].org
             listed == ListedMembers(o)
             q == [pass[p] EXCEPT !.pc = "census", !.left = listed,
                            !.invited = {u \in listed : member[o][u] = "invitation"}]
  <2>1. PassBecomes(p, IF listed = {} THEN EnterMove(pass[p]) ELSE q)
    BY <1>2 DEF ListMembers
  <2>2. Staged(q)
    <3> HIDE DEF listed
    <3> QED BY <1>1 DEF Staged, PassRecords
  <2> HIDE DEF listed, q
  <2> QED BY <1>1, <2>1, <2>2, StagedNext
<1>3. ASSUME NEW u \in Accounts, CensusMember(p, u)
      PROVE  Stays
  <2>1. PICK m \in Verdicts :
          LET q == [pass[p] EXCEPT !.census = pass[p].census \union {m},
                                   !.left = pass[p].left \ {u}]
          IN PassBecomes(p, IF q.left = {} THEN EnterMove(q) ELSE q)
    BY <1>3 DEF CensusMember
  <2> DEFINE q == [pass[p] EXCEPT !.census = pass[p].census \union {m},
                                  !.left = pass[p].left \ {u}]
  <2>2. PassBecomes(p, IF q.left = {} THEN EnterMove(q) ELSE q) /\ pass[p].pc = "census"
    BY <1>3, <2>1 DEF CensusMember, In
  <2>3. q \in PassRecords /\ Staged(q)
    BY <1>1, <2>2 DEF PassRecords, Staged
  <2> HIDE DEF q
  <2> QED BY <2>2, <2>3, StagedNext
<1>4. ASSUME NEW m \in pass[p].todo, MoveIdentity(p, m)
      PROVE  Stays
  <2>1. /\ Staged([pass[p] EXCEPT !.pc = "profile", !.cur = m])
        /\ Staged([pass[p] EXCEPT !.pc = "pointers", !.cur = m])
    BY <1>1, <1>4 DEF MoveIdentity, In, PassRecords, Staged
  <2> QED BY <1>4, <2>1 DEF MoveIdentity
<1>5. CASE MoveProfile(p)
  BY <1>1, <1>5, StagedNext DEF MoveProfile, In, Staged
<1>6. ASSUME NEW m \in pass[p].todo, ReadPointers(p, m)
      PROVE  Stays
  <2> DEFINE q == [pass[p] EXCEPT !.pc = "floor", !.cur = m, !.seen = profile[m.acct]]
  <2>1. Staged(q) /\ PassBecomes(p, q)
    BY <1>1, <1>6 DEF ReadPointers, In, PassRecords, Staged
  <2> HIDE DEF q
  <2> QED BY <2>1
<1>7. CASE MoveToFloor(p)
  BY <1>1, <1>7, StagedNext DEF MoveToFloor, In, Staged
<1>8. ASSUME NEW m \in pass[p].todo, CheckIdentity(p, m)
      PROVE  Stays
  <2>1. Staged([pass[p] EXCEPT !.pc = "auth0", !.cur = m])
    BY <1>1, <1>8 DEF CheckIdentity, In, PassRecords, Staged
  <2>2. Staged(CheckNext(pass[p], m))
    BY <1>1, <1>8, StagedNext DEF CheckIdentity, In, Staged
  <2> QED BY <1>8, <2>1, <2>2 DEF CheckIdentity
<1>9. CASE DeleteAuth0User(p)
  BY <1>1, <1>9, StagedNext DEF DeleteAuth0User, In, Staged
<1>10. ASSUME NEW m \in pass[p].todo, ScrubIdentity(p, m)
       PROVE  Stays
  BY <1>1, <1>10, StagedNext DEF ScrubIdentity, In, Staged
<1>11. CASE ReadRows(p)
  <2> DEFINE read == DestroyedRows(p)
             left == read \union {m.acct : m \in pass[p].census}
             q == [pass[p] EXCEPT !.pc = "inverse", !.rows = read, !.left = left]
  <2>1. PassBecomes(p, IF q.left = {} THEN EnterRows(q) ELSE q)
    BY <1>11 DEF ReadRows
  <2>2. Staged(q) /\ Staged(EnterRows(q))
    <3> HIDE DEF read, left
    <3> QED BY <1>1 DEF PassRecords, Staged, EnterRows
  <2> HIDE DEF q
  <2> QED BY <2>1, <2>2
<1>12. ASSUME NEW u \in Accounts, DestroyInverse(p, u) \/ DestroyRow(p, u)
       PROVE  Stays
  <2> DEFINE q == [pass[p] EXCEPT !.left = pass[p].left \ {u}]
  <2>1. \/ PassBecomes(p, IF q.left = {} THEN EnterRows(q) ELSE q)
        \/ PassBecomes(p, IF q.left = {} THEN [q EXCEPT !.pc = "done"] ELSE q)
    BY <1>12 DEF DestroyInverse, DestroyRow
  <2>2. Staged(q) /\ Staged(EnterRows(q)) /\ Staged([q EXCEPT !.pc = "done"])
    BY <1>1, <1>12 DEF PassRecords, Staged, EnterRows, DestroyInverse, DestroyRow, In
  <2> HIDE DEF q
  <2> QED BY <2>1, <2>2
<1>13. CASE MarkDone(p)
  BY <1>13 DEF MarkDone, Staged, IdlePass
<1> HIDE DEF Stays
<1>14. Stays
  <2>1. /\ ListMembers(p) => Stays
        /\ MoveProfile(p) => Stays
        /\ MoveToFloor(p) => Stays
        /\ DeleteAuth0User(p) => Stays
        /\ ReadRows(p) => Stays
        /\ MarkDone(p) => Stays
    BY <1>2, <1>5, <1>7, <1>9, <1>11, <1>13 DEF Stays
  <2> QED BY <1>3, <1>4, <1>6, <1>8, <1>10, <1>12, <2>1 DEF PassStep
<1> QED BY <1>14 DEF Stays

LEMMA StagedStep ==
    ASSUME TypeInv, AllStaged, [Next]_vars
    PROVE  AllStaged'
<1>1. pass \in [Passes -> PassRecords]
  BY DEF TypeInv, PassesGood
<1>2. ASSUME NEW p \in Passes, NEW q, PassBecomes(p, q), Staged(q)
      PROVE  AllStaged'
  <2> SUFFICES ASSUME NEW x \in Passes PROVE Staged(pass'[x])
    BY DEF AllStaged, Staged, Moving, Ending
  <2>1. pass'[x] = IF x = p THEN q ELSE pass[x]
    BY <1>1, <1>2 DEF PassBecomes
  <2> QED BY <1>2, <2>1 DEF AllStaged
<1>3. CASE UNCHANGED pass
  BY <1>3 DEF AllStaged, Staged, Moving, Ending
<1>4. ASSUME NEW p \in Passes, PassStep(p)
      PROVE  AllStaged'
  BY <1>2, <1>4, StagedPassStep
<1>5. ASSUME NEW p \in Passes, PassFails(p) \/ \E o \in Orgs : StartPass(p, o)
      PROVE  AllStaged'
  <2>1. Staged(IdlePass) /\ \A o : Staged([IdlePass EXCEPT !.pc = "list", !.org = o])
    BY DEF Staged, IdlePass, MoveStages, EndStages, CursorStages
  <2>2. PICK q : PassBecomes(p, q) /\ Staged(q)
    BY <1>5, <2>1 DEF PassFails, StartPass
  <2> QED BY <1>2, <2>2
<1>6. ASSUME NEW r \in Reqs, ReqStep(r)
      PROVE  UNCHANGED pass
  BY <1>6 DEF ReqStep, SignIn, SignInAgain, JoinAnew, ReadAccepter, Accept, CreateOrg, Remove,
              Plan, ReadHome, CommitMove, Drop
<1> QED BY <1>3, <1>4, <1>5, <1>6 DEF Next, CommitDeletion, ReturnToAuth0, vars

\* Of a running pass: everything it still has to do, whichever stage it is at, is a
\* verdict of the census it took itself (runDeletionPass).
THEOREM StagesInvariant == Spec => [](IInv /\ AllStaged)
<1>1. Init => AllStaged
  BY DEF Init, AllStaged, Staged, IdlePass, MoveStages, EndStages, CursorStages
<1>2. IInv /\ AllStaged /\ [Next]_vars => AllStaged'
  BY StagedStep DEF IInv
<1> QED BY <1>1, <1>2, Invariant, PTL DEF Spec

\* Only ScrubIdentity stamps an account.
LEMMA StampedByScrub ==
    ASSUME TypeInv, [Next]_vars, NEW s \in Subs,
           identity'[s].deleted, ~identity[s].deleted
    PROVE  \E p \in Passes : \E m \in pass[p].todo :
              ScrubIdentity(p, m) /\ StampsIdentity(m.acct) /\ Sub(m.acct) = s
<1> DEFINE Id == [acct : Accounts, home : Orgs, deleted : BOOLEAN]
<1>1. identity \in [Subs -> Id]
  BY DEF TypeInv, RowsGood
<1>2. ASSUME UNCHANGED identity PROVE FALSE
  BY <1>2
<1>3. ASSUME NEW x, NEW o, Rehome(x, o) PROVE FALSE
  BY <1>1, <1>3 DEF Rehome
<1>4. ASSUME NEW r \in Reqs, NEW o \in Orgs, JoinAnew(r, o) PROVE FALSE
  <2> DEFINE x == req[r].sub
             u == <<x, req[r].acct[2] + 1>>
  <2>1. identity' = [identity EXCEPT ![x] = [acct |-> u, home |-> o, deleted |-> FALSE]]
    BY <1>4 DEF JoinAnew
  <2> HIDE DEF x, u
  <2> QED BY <1>1, <2>1
<1>5. ASSUME NEW r \in Reqs, ReqStep(r) PROVE FALSE
  <2>1. ASSUME CommitMove(r) PROVE FALSE
    BY <1>2, <1>3, <2>1 DEF CommitMove, MoveHome
  <2> QED BY <1>2, <1>4, <1>5, <2>1 DEF ReqStep, SignIn, SignInAgain, ReadAccepter, Accept,
                    CreateOrg, Remove, Plan, ReadHome, Drop, rows
<1>6. ASSUME NEW p \in Passes, PassStep(p), \A m \in pass[p].todo : ~ScrubIdentity(p, m)
      PROVE  FALSE
  <2>1. ASSUME NEW m, MoveIdentity(p, m) PROVE FALSE
    BY <1>2, <1>3, <2>1 DEF MoveIdentity
  <2>2. ASSUME MoveToFloor(p) PROVE FALSE
    BY <1>2, <1>3, <2>2 DEF MoveToFloor, Floor, rows
  <2> QED BY <1>2, <1>6, <2>1, <2>2 DEF PassStep, ListMembers, CensusMember, MoveProfile,
                    ReadPointers, CheckIdentity, DeleteAuth0User, ReadRows, DestroyInverse,
                    DestroyRow, MarkDone, rows
<1>7. ASSUME NEW p \in Passes, NEW m \in pass[p].todo, ScrubIdentity(p, m)
      PROVE  StampsIdentity(m.acct) /\ Sub(m.acct) = s
  <2> DEFINE x == Sub(m.acct)
  <2>1. CASE UNCHANGED identity
    BY <1>2, <2>1
  <2>2. CASE StampsIdentity(m.acct) /\ identity' = [identity EXCEPT ![x].deleted = TRUE]
    <3> HIDE DEF x
    <3>1. x = s
      BY <1>1, <2>2
    <3> QED BY <2>2, <3>1 DEF x
  <2> QED BY <1>7, <2>1, <2>2 DEF ScrubIdentity
<1>8. PICK p \in Passes : \E m \in pass[p].todo : ScrubIdentity(p, m)
  BY <1>2, <1>5, <1>6 DEF Next, CommitDeletion, StartPass, PassFails, ReturnToAuth0, rows, vars
<1> QED BY <1>7, <1>8

\* scrubMembers: an account is stamped by a pass whose own census ends that very
\* account, however many passes overlap and whoever came back under a new one.
THEOREM StampedByItsCensus == Spec => StampsOnlyItsOwn
<1> DEFINE Own == \A s \in Subs : identity'[s].deleted /\ ~identity[s].deleted =>
                     \E p \in Passes : \E m \in pass[p].census :
                        m.ends /\ m.acct = identity[s].acct
<1>1. IInv /\ AllStaged /\ [Next]_vars => [Own]_vars
  <2> SUFFICES ASSUME IInv, AllStaged, [Next]_vars,
                      NEW s \in Subs, identity'[s].deleted, ~identity[s].deleted
               PROVE  \E p \in Passes : \E m \in pass[p].census :
                         m.ends /\ m.acct = identity[s].acct
    OBVIOUS
  <2>0. PICK p \in Passes : \E m \in pass[p].todo :
           ScrubIdentity(p, m) /\ StampsIdentity(m.acct) /\ Sub(m.acct) = s
    BY StampedByScrub DEF IInv
  <2>1. PICK m \in pass[p].todo :
           ScrubIdentity(p, m) /\ StampsIdentity(m.acct) /\ Sub(m.acct) = s
    BY <2>0
  <2>2. pass[p].todo \subseteq Ending(pass[p].census)
    BY <2>1 DEF ScrubIdentity, In, AllStaged, Staged, EndStages
  <2> QED BY <2>1, <2>2 DEF Ending, StampsIdentity
<1> QED BY <1>1, StagesInvariant, PTL DEF Spec, StampsOnlyItsOwn

-----------------------------------------------------------------------------
(* Who an account that goes on, and one that has ended, still belongs to,  *)
(* when passes do not overlap and nobody is removed or founds on their own. *)
(* All of it is about people who have not slipped, except what RowInv says  *)
(* of the rows alone (Synced, Numbered, Profiled) and what a pass knows of  *)
(* its own census.                                                          *)

OneAtATime == \A p, q \in Passes : p = q
OnlyAccepts == Kinds \subseteq {"accept"}

Live(s) == ~identity[s].deleted
Acct(s) == identity[s].acct
Home(s) == identity[s].home

\* The account is not one its person is still to have.
Known(u) == u[2] <= identity[Sub(u)].acct[2]

BelongsAtMost(u, o) == \A x \in Orgs : u \in inverse[x] => x = o
BelongsNowhere(u) == \A x \in Orgs : u \notin inverse[x]

\* The rows of an organization that is not being deleted have their inverse items.
Synced == \A o \in Orgs \ fenced, u \in Accounts : member[o][u] # "none" => u \in inverse[o]

Homed == \A s \in Unslipped : Live(s) => Acct(s) \in inverse[Home(s)]

\* An account that has ended is left in the organization that ended it at most, so
\* that another pass finds it ending again.
Ended ==
    \A s \in Unslipped : ~Live(s) =>
        /\ Home(s) \in fenced
        /\ BelongsAtMost(Acct(s), Home(s))
        /\ member[Home(s)][Acct(s)] # "invitation"

\* Nor has a person's home a row of an earlier account of theirs.
Current ==
    \A u \in Accounts : Sub(u) \in Unslipped /\ Replaced(u) =>
        BelongsNowhere(u) /\ member[Home(Sub(u))][u] = "none"

Numbered ==
    /\ \A s \in Subs : Sub(Acct(s)) = s
    /\ \A o \in Orgs, u \in Accounts : member[o][u] # "none" => Known(u)

Profiled ==
    \A u \in Accounts :
        /\ Known(u) => profile[u] # NoOrg
        /\ profile[u] # NoOrg => profile[u] \in fenced \/ u \in inverse[profile[u]]

RowInv == Synced /\ Homed /\ Ended /\ Current /\ Numbered /\ Profiled

LEMMA AccountParts ==
    ASSUME NEW u \in Accounts
    PROVE  /\ Sub(u) \in Subs
           /\ u[2] \in Int
           /\ u[2] >= 1
           /\ u = <<Sub(u), u[2]>>
BY ConstantsAssumption DEF Accounts, Sub

LEMMA RowTypes ==
    ASSUME TypeInv
    PROVE  /\ fenced \subseteq orgs /\ orgs \subseteq Orgs
           /\ \A s \in Subs : /\ Acct(s) \in Accounts
                              /\ Home(s) \in Orgs
                              /\ identity[s].deleted \in BOOLEAN
           /\ \A o \in Orgs : inverse[o] \subseteq Accounts
           /\ \A u \in Accounts : profile[u] \in Orgs \union {NoOrg}
           /\ \A o \in Orgs, u \in Accounts : member[o][u] \in Sources
           /\ Unslipped \subseteq Subs
BY DEF TypeInv, RowsGood, RecordsGood, Acct, Home, Unslipped

-----------------------------------------------------------------------------
(* What the writes make of the rows.                                       *)

LEMMA Adds ==
    ASSUME RowsGood, NEW o \in Orgs, NEW u \in Accounts, NEW source, AddMember(o, u, source)
    PROVE  /\ \A x \in Orgs, v \in Accounts :
                 member'[x][v] = IF x = o /\ v = u THEN source ELSE member[x][v]
           /\ \A x \in Orgs : \A v : v \in inverse'[x] <=> v \in inverse[x] \/ (x = o /\ v = u)
<1>1. /\ member \in [Orgs -> [Accounts -> Sources]]
      /\ inverse \in [Orgs -> SUBSET Accounts]
      /\ member' = Changed(o, u, source)
      /\ inverse' = [inverse EXCEPT ![o] = inverse[o] \union {u}]
  BY DEF RowsGood, AddMember, Changed
<1>2. \A x \in Orgs, v \in Accounts :
         member'[x][v] = IF x = o /\ v = u THEN source ELSE member[x][v]
  BY <1>1, RowChanged
<1>3. \A x \in Orgs : \A v : v \in inverse'[x] <=> v \in inverse[x] \/ (x = o /\ v = u)
  BY <1>1
<1> QED BY <1>2, <1>3

LEMMA Rehomes ==
    ASSUME RowsGood, NEW s, NEW o, Rehome(s, o)
    PROVE  \A x \in Subs : /\ Acct(x)' = Acct(x)
                           /\ Live(x)' = Live(x)
                           /\ Home(x)' = IF x = s THEN o ELSE Home(x)
BY DEF RowsGood, Rehome, Acct, Live, Home

LEMMA RehomesProfile ==
    ASSUME RowsGood, NEW u, NEW o, RehomeProfile(u, o)
    PROVE  \A v \in Accounts : profile'[v] = IF v = u THEN o ELSE profile[v]
BY DEF RowsGood, RehomeProfile

\* Nothing is written, though a fence may go up.
LEMMA RowsStay ==
    ASSUME RowInv, UNCHANGED rows, fenced \subseteq fenced', Unslipped' \subseteq Unslipped
    PROVE  RowInv'
BY DEF RowInv, rows, Synced, Homed, Ended, Current, Numbered, Profiled, Live, Acct, Home,
       Known, BelongsAtMost, BelongsNowhere, Replaced, Sub

\* An account gets a further organization, and perhaps its home there.
LEMMA RowsOfAdding ==
    ASSUME TypeInv, RowInv, Unslipped' \subseteq Unslipped, UNCHANGED fenced,
           NEW o \in Orgs \ fenced, NEW u \in Accounts, NEW source \in Sources \ {"none"},
           Known(u), Sub(u) \in Unslipped' => Live(Sub(u)) /\ Acct(Sub(u)) = u,
           AddMember(o, u, source),
           UNCHANGED identity \/ Rehome(Sub(u), o),
           UNCHANGED profile \/ RehomeProfile(u, o)
    PROVE  RowInv'
<1>0. PICK s : s = Sub(u)
  OBVIOUS
<1>1. s \in Subs /\ RowsGood /\ Unslipped \subseteq Subs
  BY <1>0, AccountParts, RowTypes DEF TypeInv
<1>2. /\ \A x \in Orgs, v \in Accounts :
            member'[x][v] = IF x = o /\ v = u THEN source ELSE member[x][v]
      /\ \A x \in Orgs : \A v : v \in inverse'[x] <=> v \in inverse[x] \/ (x = o /\ v = u)
  BY <1>1, Adds
<1>3. \A x \in Subs : /\ Acct(x)' = Acct(x)
                      /\ Live(x)' = Live(x)
                      /\ Home(x)' = Home(x) \/ (x = s /\ Home(x)' = o)
  <2>1. CASE UNCHANGED identity
    BY <2>1 DEF Acct, Live, Home
  <2>2. CASE Rehome(s, o)
    BY <1>1, <2>2, Rehomes
  <2> QED BY <1>0, <2>1, <2>2
<1>4. \A v \in Accounts : profile'[v] = profile[v] \/ (v = u /\ profile'[v] = o)
  <2>1. CASE RehomeProfile(u, o)
    BY <1>1, <2>1, RehomesProfile
  <2> QED BY <2>1
<1>5. \A v \in Accounts : /\ Sub(v) \in Subs
                          /\ Known(v)' = Known(v)
                          /\ Replaced(v)' = Replaced(v)
                          /\ Sub(v) \in Unslipped' /\ Replaced(v) => v # u
  BY <1>1, <1>3, AccountParts DEF Known, Replaced, Acct, Sub
<1>6. s \in Unslipped' => Live(s) /\ Acct(s) = u
  BY <1>0
<1>7. /\ o \notin fenced
      /\ \A x \in Subs : Acct(x) \in Accounts /\ Home(x) \in Orgs
      /\ \A v \in Accounts : profile[v] \in Orgs \union {NoOrg}
      /\ \A x \in Subs : Sub(Acct(x)) = x
  BY RowTypes DEF RowInv, Numbered
<1>8. \A x \in Subs : Acct(x) = u => x = s
  BY <1>0, <1>1, <1>7
<1>9. Synced'
  BY <1>2 DEF RowInv, Synced
<1>10. Homed'
  BY <1>1, <1>2, <1>3, <1>6, <1>7 DEF RowInv, Homed
<1>11. Ended'
  <2> SUFFICES ASSUME NEW x \in Unslipped', ~Live(x)'
               PROVE  /\ Home(x)' \in fenced'
                      /\ BelongsAtMost(Acct(x), Home(x))'
                      /\ (member[Home(x)][Acct(x)])' # "invitation"
    BY DEF Ended
  <2>1. /\ x \in Unslipped /\ ~Live(x) /\ x # s
        /\ Home(x)' = Home(x) /\ Acct(x)' = Acct(x) /\ Acct(x) # u
    BY <1>1, <1>3, <1>6, <1>8
  <2> QED BY <1>1, <1>2, <1>7, <2>1 DEF RowInv, Ended, BelongsAtMost
<1>12. Current'
  <2> SUFFICES ASSUME NEW v \in Accounts, Sub(v) \in Unslipped', Replaced(v)'
               PROVE  /\ BelongsNowhere(v)'
                      /\ (member[Home(Sub(v))][v])' = "none"
    BY DEF Current, Sub
  <2>1. Replaced(v) /\ v # u /\ Sub(v) \in Subs
    BY <1>5
  <2>2. BelongsNowhere(v) /\ member[Home(Sub(v))][v] = "none"
    BY <2>1 DEF RowInv, Current
  <2>3. member[o][v] = "none"
    BY <2>2 DEF RowInv, Synced, BelongsNowhere
  <2>4. BelongsNowhere(v)'
    BY <1>2, <2>1, <2>2 DEF BelongsNowhere
  <2>5. Home(Sub(v))' \in Orgs /\ (Home(Sub(v))' = Home(Sub(v)) \/ Home(Sub(v))' = o)
    BY <1>3, <1>7, <2>1
  <2>6. (member[Home(Sub(v))][v])' = member[Home(Sub(v))'][v]
    BY <1>2, <2>1, <2>5 DEF Sub
  <2> QED BY <2>2, <2>3, <2>4, <2>5, <2>6
<1>13. Numbered'
  BY <1>2, <1>3, <1>5 DEF RowInv, Numbered
<1>14. Profiled'
  BY <1>2, <1>4, <1>5, <1>7, ConstantsAssumption DEF RowInv, Profiled
<1> QED BY <1>9, <1>10, <1>11, <1>12, <1>13, <1>14 DEF RowInv

\* The pointers of an account, or one of them, go to an organization it belongs to.
LEMMA RowsOfRehoming ==
    ASSUME TypeInv, RowInv, Unslipped' \subseteq Unslipped,
           UNCHANGED <<fenced, orgs, member, inverse>>,
           NEW o \in Orgs, NEW u \in Accounts, u \in inverse[o],
           \/ UNCHANGED identity
           \/ /\ Rehome(Sub(u), o)
              /\ Sub(u) \in Unslipped' => o \notin fenced /\ Live(Sub(u)) /\ Acct(Sub(u)) = u,
           UNCHANGED profile \/ RehomeProfile(u, o)
    PROVE  RowInv'
<1>0. PICK s : s = Sub(u)
  OBVIOUS
<1>1. s \in Subs /\ RowsGood /\ Unslipped \subseteq Subs
  BY <1>0, AccountParts, RowTypes DEF TypeInv
<1>2. \A x \in Subs :
         /\ Acct(x)' = Acct(x)
         /\ Live(x)' = Live(x)
         /\ \/ Home(x)' = Home(x)
            \/ /\ x = s /\ Home(x)' = o
               /\ x \in Unslipped' => o \notin fenced /\ Live(x) /\ Acct(x) = u
  <2>1. CASE UNCHANGED identity
    BY <2>1 DEF Acct, Live, Home
  <2>2. CASE /\ Rehome(s, o)
             /\ s \in Unslipped' => o \notin fenced /\ Live(s) /\ Acct(s) = u
    BY <1>1, <2>2, Rehomes
  <2> QED BY <1>0, <2>1, <2>2
<1>3. \A v \in Accounts : /\ Sub(v) \in Subs
                          /\ Known(v)' = Known(v)
                          /\ Replaced(v)' = Replaced(v)
  BY <1>2, AccountParts DEF Known, Replaced, Acct, Sub
<1>4. Synced' /\ Homed' /\ Ended'
  BY <1>1, <1>2 DEF RowInv, Synced, Homed, Ended, BelongsAtMost
<1>5. Current'
  BY <1>1, <1>2, <1>3 DEF RowInv, Current, Synced, BelongsNowhere, Sub
<1>6. \A v \in Accounts : profile'[v] = profile[v] \/ (v = u /\ profile'[v] = o)
  <2>1. CASE RehomeProfile(u, o)
    BY <1>1, <2>1, RehomesProfile
  <2> QED BY <2>1
<1>7. Numbered' /\ Profiled'
  BY <1>2, <1>3, <1>6, ConstantsAssumption DEF RowInv, Numbered, Profiled
<1> QED BY <1>4, <1>5, <1>7 DEF RowInv

\* An account that belongs to one organization at most ends with it.
LEMMA RowsOfStamping ==
    ASSUME TypeInv, RowInv, UNCHANGED <<fenced, orgs, member, inverse, profile>>,
           Unslipped' \subseteq Unslipped, NEW o \in fenced, NEW s \in Subs,
           s \in Unslipped' => BelongsAtMost(Acct(s), o) /\ member[o][Acct(s)] # "invitation",
           identity' = [identity EXCEPT ![s].deleted = TRUE]
    PROVE  RowInv'
<1>1. \A x \in Subs : /\ Acct(x)' = Acct(x)
                      /\ Home(x)' = Home(x)
                      /\ Live(x)' = (Live(x) /\ x # s)
  BY DEF TypeInv, RowsGood, Acct, Home, Live
<1>2. \A v \in Accounts : /\ Sub(v) \in Subs
                          /\ Known(v)' = Known(v)
                          /\ Replaced(v)' = Replaced(v)
  BY <1>1, AccountParts DEF Known, Replaced, Acct, Sub
<1>3. Unslipped \subseteq Subs /\ (s \in Unslipped' /\ Live(s) => Home(s) = o)
  BY RowTypes DEF RowInv, Homed, BelongsAtMost
<1>4. Ended'
  BY <1>1, <1>3 DEF RowInv, Ended, BelongsAtMost
<1>5. Synced' /\ Homed'
  BY <1>1, <1>3 DEF RowInv, Synced, Homed
<1>6. Current' /\ Numbered'
  BY <1>1, <1>2 DEF RowInv, Current, Numbered, BelongsNowhere, Sub
<1>7. Profiled'
  BY <1>2 DEF RowInv, Profiled
<1> QED BY <1>4, <1>5, <1>6, <1>7 DEF RowInv

\* An inverse item of an organization nobody has for a home is destroyed.
LEMMA RowsOfInverse ==
    ASSUME TypeInv, RowInv, UNCHANGED <<fenced, orgs, member, identity, profile>>,
           Unslipped' \subseteq Unslipped, NEW o \in fenced, NEW u,
           \A s \in Unslipped : Live(s) => Home(s) # o,
           inverse' = [inverse EXCEPT ![o] = inverse[o] \ {u}]
    PROVE  RowInv'
<1>1. o \in Orgs /\ Unslipped \subseteq Subs /\ \A s \in Subs : Home(s) \in Orgs
  BY RowTypes
<1>2. \A x \in Orgs : /\ inverse'[x] \subseteq inverse[x]
                      /\ x # o => inverse'[x] = inverse[x]
  BY <1>1 DEF TypeInv, RowsGood
<1>3. \A x \in Subs : Acct(x)' = Acct(x) /\ Home(x)' = Home(x) /\ Live(x)' = Live(x)
  BY DEF Acct, Home, Live
<1>4. \A v \in Accounts : /\ Sub(v) \in Subs
                          /\ Known(v)' = Known(v)
                          /\ Replaced(v)' = Replaced(v)
  BY <1>3, AccountParts DEF Known, Replaced, Acct, Sub
<1>5. Synced' /\ Homed' /\ Ended'
  BY <1>1, <1>2, <1>3 DEF RowInv, Synced, Homed, Ended, BelongsAtMost
<1>6. Current' /\ Numbered'
  BY <1>2, <1>3, <1>4 DEF RowInv, Current, Numbered, BelongsNowhere, Sub
<1>7. Profiled'
  BY <1>2, <1>4, RowTypes DEF RowInv, Profiled
<1> QED BY <1>5, <1>6, <1>7 DEF RowInv

LEMMA RowsOfRow ==
    ASSUME TypeInv, RowInv, UNCHANGED <<fenced, orgs, inverse, identity, profile>>,
           Unslipped' \subseteq Unslipped, NEW o \in fenced, NEW u,
           member' = [member EXCEPT ![o][u] = "none"]
    PROVE  RowInv'
<1>1. /\ o \in Orgs /\ Unslipped \subseteq Subs
      /\ \A s \in Subs : Home(s) \in Orgs /\ Acct(s) \in Accounts
  BY RowTypes
<1>2. \A x \in Orgs, v \in Accounts :
         member'[x][v] = IF x = o /\ v = u THEN "none" ELSE member[x][v]
  BY RowChanged DEF TypeInv, RowsGood, Changed
<1>3. \A x \in Subs : Acct(x)' = Acct(x) /\ Home(x)' = Home(x) /\ Live(x)' = Live(x)
  BY DEF Acct, Home, Live
<1>4. \A v \in Accounts : /\ Sub(v) \in Subs
                          /\ Known(v)' = Known(v)
                          /\ Replaced(v)' = Replaced(v)
  BY <1>3, AccountParts DEF Known, Replaced, Acct, Sub
<1>5. Synced' /\ Homed' /\ Ended'
  BY <1>1, <1>2, <1>3 DEF RowInv, Synced, Homed, Ended, BelongsAtMost
<1>6. Current' /\ Numbered'
  BY <1>1, <1>2, <1>3, <1>4 DEF RowInv, Current, Numbered, BelongsNowhere, Sub
<1>7. Profiled'
  BY <1>4 DEF RowInv, Profiled
<1> QED BY <1>5, <1>6, <1>7 DEF RowInv

\* A person whose account has ended comes back under the next.
LEMMA RowsOfJoining ==
    ASSUME TypeInv, RowInv, UNCHANGED <<fenced, orgs>>, Unslipped' \subseteq Unslipped,
           NEW o \in Orgs \ fenced, NEW s \in Subs, NEW u \in Accounts,
           u = <<s, Acct(s)[2] + 1>>, s \in Unslipped' => BelongsNowhere(Acct(s)), ~Live(s),
           identity' = [identity EXCEPT ![s] = [acct |-> u, home |-> o, deleted |-> FALSE]],
           RehomeProfile(u, o), AddMember(o, u, "invitation")
    PROVE  RowInv'
<1> DEFINE u0 == Acct(s)
<1>1. u0 \in Accounts /\ RowsGood /\ Sub(u0) = s /\ Sub(u) = s /\ u[2] = u0[2] + 1 /\ u0[2] \in Int
  BY RowTypes, AccountParts DEF TypeInv, RowInv, Numbered, Sub
<1>2. /\ \A x \in Orgs, v \in Accounts :
            member'[x][v] = IF x = o /\ v = u THEN "invitation" ELSE member[x][v]
      /\ \A x \in Orgs : \A v : v \in inverse'[x] <=> v \in inverse[x] \/ (x = o /\ v = u)
  BY <1>1, Adds
<1>3. /\ Acct(s)' = u /\ Home(s)' = o /\ Live(s)'
      /\ \A x \in Subs \ {s} : Acct(x)' = Acct(x) /\ Live(x)' = Live(x) /\ Home(x)' = Home(x)
  BY DEF TypeInv, RowsGood, Acct, Home, Live
<1>4. \A v \in Accounts : profile'[v] = IF v = u THEN o ELSE profile[v]
  BY <1>1, RehomesProfile
<1>5. \A v \in Accounts :
         /\ Sub(v) \in Subs
         /\ Known(v)' <=> Known(v) \/ v = u
         /\ Replaced(v)' => v # u /\ (Replaced(v) \/ v = u0)
  <2> SUFFICES ASSUME NEW v \in Accounts
               PROVE  /\ Sub(v) \in Subs
                      /\ Known(v)' <=> Known(v) \/ v = u
                      /\ Replaced(v)' => v # u /\ (Replaced(v) \/ v = u0)
    OBVIOUS
  <2>1. Sub(v) \in Subs /\ v[2] \in Int /\ v = <<Sub(v), v[2]>>
    BY AccountParts
  <2>2. CASE Sub(v) = s
    <3>1. Known(v) <=> v[2] <= u0[2]
      BY <2>2 DEF Known, Acct
    <3>2. Known(v)' <=> v[2] <= u[2]
      BY <1>3, <2>2 DEF Known, Acct, Sub
    <3>3. v = u <=> v[2] = u[2]
      BY <1>1, <2>1, <2>2, AccountParts
    <3>4. Replaced(v) <=> v # u0
      BY <2>2 DEF Replaced, Acct
    <3>5. Replaced(v)' <=> v # u
      BY <1>3, <2>2 DEF Replaced, Acct, Sub
    <3> HIDE DEF u0
    <3> QED BY <1>1, <2>1, <3>1, <3>2, <3>3, <3>4, <3>5
  <2>3. CASE Sub(v) # s
    <3>1. Known(v)' = Known(v) /\ Replaced(v)' = Replaced(v)
      BY <1>3, <2>1, <2>3 DEF Known, Replaced, Acct, Sub
    <3> QED BY <1>1, <2>1, <2>3, <3>1
  <2> QED BY <2>2, <2>3
<1>6. /\ o \notin fenced
      /\ \A x \in Subs : Acct(x) \in Accounts /\ Home(x) \in Orgs
      /\ \A v \in Accounts : profile[v] \in Orgs \union {NoOrg}
      /\ \A x \in Subs : Sub(Acct(x)) = x
      /\ Unslipped \subseteq Subs
  BY RowTypes DEF RowInv, Numbered
<1>7. u # u0 /\ (s \in Unslipped' => BelongsNowhere(u0))
  BY <1>1
<1> HIDE DEF u0
<1>8. Synced'
  BY <1>2 DEF RowInv, Synced
<1>9. Homed'
  BY <1>2, <1>3, <1>6 DEF RowInv, Homed
<1>10. Ended'
  <2> SUFFICES ASSUME NEW x \in Unslipped', ~Live(x)'
               PROVE  /\ Home(x)' \in fenced'
                      /\ BelongsAtMost(Acct(x), Home(x))'
                      /\ (member[Home(x)][Acct(x)])' # "invitation"
    BY DEF Ended
  <2>1. x \in Subs /\ x # s /\ ~Live(x) /\ Home(x)' = Home(x) /\ Acct(x)' = Acct(x) /\ Acct(x) # u
    BY <1>1, <1>3, <1>6
  <2> QED BY <1>2, <1>6, <2>1 DEF RowInv, Ended, BelongsAtMost
<1>11. Current'
  <2> SUFFICES ASSUME NEW v \in Accounts, Sub(v) \in Unslipped', Replaced(v)'
               PROVE  /\ BelongsNowhere(v)'
                      /\ (member[Home(Sub(v))][v])' = "none"
    BY DEF Current, Sub
  <2>1. v # u /\ Sub(v) \in Subs /\ (Replaced(v) \/ v = u0)
    BY <1>5
  <2>2. BelongsNowhere(v)
    BY <1>1, <1>7, <2>1 DEF RowInv, Current
  <2>3. member[o][v] = "none"
    BY <2>2 DEF RowInv, Synced, BelongsNowhere
  <2>4. BelongsNowhere(v)'
    BY <1>2, <2>1, <2>2 DEF BelongsNowhere
  <2>5. CASE Sub(v) = s
    BY <1>2, <1>3, <2>1, <2>3, <2>4, <2>5 DEF Sub
  <2>6. CASE Sub(v) # s
    <3>1. Replaced(v) /\ Home(Sub(v))' = Home(Sub(v)) /\ Home(Sub(v)) \in Orgs
      BY <1>1, <1>3, <1>6, <2>1, <2>6 DEF Sub
    <3>2. member[Home(Sub(v))][v] = "none"
      BY <3>1 DEF RowInv, Current
    <3> QED BY <1>2, <2>1, <2>4, <3>1, <3>2 DEF Sub
  <2> QED BY <2>5, <2>6
<1>12. Numbered'
  BY <1>1, <1>2, <1>3, <1>5 DEF RowInv, Numbered, Sub
<1>13. Profiled'
  BY <1>2, <1>4, <1>5, <1>6, ConstantsAssumption DEF RowInv, Profiled
<1> QED BY <1>8, <1>9, <1>10, <1>11, <1>12, <1>13 DEF RowInv

-----------------------------------------------------------------------------
(* What requests and passes know, and how long it stays true.              *)

\* Of a request: the account it is for, and, if it has read what its profile
\* names, that the account belongs there as long as that organization stands.
Asked(q) ==
    /\ ~q.leaves
    /\ q.pc \in {"plan", "pointers", "commit"} => q.sub \notin Unslipped
    /\ q.pc # "idle" => Known(q.acct) /\ Sub(q.acct) = q.sub
    /\ q.pc = "new" /\ q.sub \in Unslipped /\ ~Replaced(q.acct) =>
          ~Live(q.sub) /\ deletion[Home(q.sub)].status = "done"
    /\ q.pc = "accept" /\ q.seenProfile # NoOrg =>
          q.seenProfile \in fenced \/ q.acct \in inverse[q.seenProfile]

AllAsked == \A r \in Reqs : Asked(req[r])

\* Of a census of organization o: one verdict per account, and what it rests on.
Sound(o, census) ==
    /\ \A m \in census : Known(m.acct)
    /\ \A m \in census : m.ends <=> ~(m.floor \/ m.home # NoOrg)
    /\ \A m, n \in census : m.acct = n.acct => m = n
    /\ \A m \in census : m.home # NoOrg => m.home \in fenced \/ m.acct \in inverse[m.home]
    /\ \A m \in Ending(census) : Sub(m.acct) \in Unslipped =>
          BelongsAtMost(m.acct, o) /\ member[o][m.acct] # "invitation"

\* Whoever is to move is at home here under the account the census found.
Movable(o, census) ==
    \A m \in Moving(census) : Sub(m.acct) \in Unslipped /\ Home(Sub(m.acct)) = o =>
        Acct(Sub(m.acct)) = m.acct /\ Live(Sub(m.acct))

Listing(q) ==
    \A u \in q.left :
        /\ Known(u)
        /\ u \in q.invited <=> member[q.org][u] = "invitation"
        /\ \A m \in q.census : m.acct # u

Named(census) == {m.acct : m \in census}

\* The accounts a pass has still to move or to end.
Due(q) ==
    CASE q.pc = "list" -> Accounts
      [] q.pc = "census" -> q.left \union Named(q.census)
      [] q.pc = "profile" -> Named(Ending(q.census) \union (q.todo \ {q.cur}))
      [] q.pc \in {"move", "pointers", "floor"} -> Named(Ending(q.census) \union q.todo)
      [] q.pc \in {"check", "auth0"} -> Named(Ending(q.census))
      [] q.pc = "scrub" -> Named(q.todo)
      [] OTHER -> {}

\* Everybody at home in the organization is among them.
Covers(q) == \A s \in Unslipped : Live(s) /\ Home(s) = q.org => Acct(s) \in Due(q)

Running(q) ==
    q.pc # "idle" =>
        /\ Sound(q.org, q.census)
        /\ q.pc \in MoveStages \union {"census"} => Movable(q.org, q.census)
        /\ q.pc = "list" => q.census = {}
        /\ q.pc = "census" => Listing(q)
        /\ q.pc = "floor" /\ Sub(q.cur.acct) \in Unslipped => profile[q.cur.acct] = q.seen
        /\ Covers(q)

AllRunning == \A p \in Passes : Running(pass[p])

FullInv == IInv /\ AllStaged /\ RowInv /\ AllAsked /\ AllRunning

\* moveSurvivingMembers: a home that is done has no inverse item left to be home by.
LEMMA SurvivorsMoved ==
    ASSUME IInv, RowInv
    PROVE  SurvivorsHaveMoved
BY RowTypes DEF IInv, DoneIsEmpty, RowInv, Homed, SurvivorsHaveMoved, Live, Acct, Home

\* JoinAnew, as seen by everybody else.
Joins(s) ==
    /\ ~Live(s) /\ Live(s)'
    /\ Acct(s)' = <<s, Acct(s)[2] + 1>>
    /\ Home(s)' \in Orgs \ fenced

\* What every step keeps for the requests.
Steady ==
    /\ Unslipped' \subseteq Unslipped
    /\ fenced \subseteq fenced'
    /\ \A o \in Orgs \ fenced : inverse[o] \subseteq inverse'[o]
    /\ \A o \in Orgs : deletion[o].status = "done" => deletion'[o].status = "done"
    /\ \A s \in Subs :
          \/ Joins(s)
          \/ /\ Acct(s)' = Acct(s)
             /\ s \in Unslipped' /\ ~Live(s) => ~Live(s)' /\ Home(s)' = Home(s)

\* What the steps of others keep for a pass.
Aside ==
    /\ Unslipped' \subseteq Unslipped
    /\ fenced \subseteq fenced'
    /\ \A o \in fenced : member'[o] = member[o] /\ inverse'[o] = inverse[o]
    /\ \A o \in Orgs : inverse[o] \subseteq inverse'[o]
    /\ \A o \in Orgs, u \in Accounts : Sub(u) \in Unslipped' /\ u \in inverse'[o] =>
          \/ u \in inverse[o]
          \/ ~Known(u)
          \/ \E x \in Orgs \ fenced : u \in inverse[x]
    /\ \A s \in Subs : Acct(s)' = Acct(s) \/ Joins(s)
    /\ \A s \in Unslipped' : identity'[s] = identity[s] \/ Joins(s)
    /\ \A u \in Accounts : Sub(u) \in Unslipped' /\ Known(u) => profile'[u] = profile[u]

LEMMA KnownStays ==
    ASSUME TypeInv, NEW u \in Accounts, Known(u),
           Joins(Sub(u)) \/ Acct(Sub(u))' = Acct(Sub(u))
    PROVE  Known(u)' /\ (Replaced(u) => Replaced(u)')
<1> DEFINE s == Sub(u)
<1>1. s \in Subs /\ u[2] \in Int /\ Acct(s) \in Accounts /\ Acct(s)[2] \in Int
  BY AccountParts, RowTypes
<1>2. u[2] <= Acct(s)[2]
  BY DEF Known, Acct
<1>3. u[2] <= Acct(s)'[2] /\ (u # Acct(s) => u # Acct(s)')
  <2>1. CASE Acct(s)' = Acct(s)
    BY <1>2, <2>1
  <2>2. CASE Joins(s)
    <3>1. Acct(s)' = <<s, Acct(s)[2] + 1>>
      BY <2>2 DEF Joins
    <3>2. Acct(s)'[2] = Acct(s)[2] + 1
      BY <3>1
    <3> HIDE DEF s
    <3> QED BY <1>1, <1>2, <3>2
  <2> QED BY <2>1, <2>2
<1> QED BY <1>3 DEF Known, Replaced, Acct, Sub

LEMMA AskedStays ==
    ASSUME TypeInv, Steady, NEW q, GoodReq(q), Asked(q)
    PROVE  Asked(q)'
<1>1. CASE q.pc = "idle"
  BY <1>1 DEF Asked
<1>2. CASE q.pc # "idle"
  <2>1. /\ q.acct \in Accounts /\ q.sub \in Subs /\ Sub(q.acct) = q.sub /\ Known(q.acct)
        /\ q.seenProfile \in Orgs \union {NoOrg}
    BY <1>2 DEF GoodReq, ReqRecords, Asked
  <2>2. Known(q.acct)' /\ (Replaced(q.acct) => Replaced(q.acct)')
    BY <2>1, KnownStays DEF Steady
  <2>3. ASSUME q.pc = "new", q.sub \in Unslipped', ~Replaced(q.acct)'
        PROVE  ~Live(q.sub)' /\ (deletion[Home(q.sub)].status)' = "done"
    <3>1. ~Live(q.sub) /\ deletion[Home(q.sub)].status = "done" /\ Acct(q.sub) = q.acct
      BY <2>1, <2>2, <2>3 DEF Steady, Asked, Replaced, Acct
    <3>2. ~Joins(q.sub)
      <4>1. Acct(q.sub)' = q.acct
        BY <2>1, <2>3 DEF Replaced, Acct, Sub
      <4>2. q.acct[2] \in Int
        BY <2>1, AccountParts
      <4> QED BY <3>1, <4>1, <4>2 DEF Joins
    <3>3. ~Live(q.sub)' /\ Home(q.sub)' = Home(q.sub) /\ Home(q.sub) \in Orgs
      BY <2>1, <2>3, <3>1, <3>2, RowTypes DEF Steady
    <3> QED BY <3>1, <3>3 DEF Steady
  <2>4. ASSUME q.pc = "accept", q.seenProfile # NoOrg
        PROVE  q.seenProfile \in fenced' \/ q.acct \in inverse'[q.seenProfile]
    BY <2>1, <2>4 DEF Asked, Steady
  <2> QED BY <2>1, <2>2, <2>3, <2>4 DEF Asked, Sub, Steady
<1> QED BY <1>1, <1>2

LEMMA RunningAside ==
    ASSUME TypeInv, RowInv, Aside, NEW q, GoodPass(q), Staged(q), Running(q),
           q.pc # "idle" => q.org \in fenced
    PROVE  Running(q)'
<1> SUFFICES ASSUME q.pc # "idle"
             PROVE  Running(q)'
  BY DEF Running
<1> DEFINE o == q.org
<1>1. /\ o \in fenced /\ o \in Orgs
      /\ q.census \subseteq Verdicts /\ q.left \subseteq Accounts
      /\ \A m \in q.census : m.acct \in Accounts /\ Known(m.acct) /\ m.home \in Orgs \union {NoOrg}
      /\ Unslipped \subseteq Subs
  BY RowTypes DEF GoodPass, PassRecords, Verdicts, Running, Sound
<1>2. /\ Unslipped' \subseteq Unslipped
      /\ fenced \subseteq fenced'
      /\ member'[o] = member[o] /\ inverse'[o] = inverse[o]
      /\ \A x \in Orgs : inverse[x] \subseteq inverse'[x]
      /\ \A s \in Unslipped' : identity'[s] = identity[s] \/ Joins(s)
      /\ \A u \in Accounts : Sub(u) \in Unslipped' /\ Known(u) => profile'[u] = profile[u]
  BY <1>1 DEF Aside
<1>3. \A s \in Subs : Acct(s)' = Acct(s) \/ Joins(s)
  BY DEF Aside
<1>4. \A u \in Accounts : Known(u) => Known(u)'
  BY <1>3, KnownStays, AccountParts
<1>5. ASSUME NEW s \in Unslipped', Home(s)' = o
      PROVE  Home(s) = o /\ Acct(s)' = Acct(s) /\ Live(s)' = Live(s)
  BY <1>1, <1>2, <1>5 DEF Joins, Home, Acct, Live
<1>6. Sound(o, q.census)'
  <2>1. Sound(o, q.census)
    BY DEF Running
  <2>2. ASSUME NEW m \in Ending(q.census), Sub(m.acct) \in Unslipped'
        PROVE  BelongsAtMost(m.acct, o)' /\ (member[o][m.acct])' # "invitation"
    <3>1. m \in q.census /\ m.acct \in Accounts /\ Known(m.acct)
      BY <1>1 DEF Ending
    <3>2. BelongsAtMost(m.acct, o) /\ member[o][m.acct] # "invitation"
      BY <1>2, <2>1, <2>2 DEF Sound
    <3>3. \A x \in Orgs : m.acct \in inverse'[x] => m.acct \in inverse[x]
      BY <1>1, <2>2, <3>1, <3>2 DEF Aside, BelongsAtMost
    <3> QED BY <1>2, <3>2, <3>3 DEF BelongsAtMost
  <2> HIDE DEF o
  <2>3. \A m \in q.census : Known(m.acct)'
    BY <1>1, <1>4
  <2>4. \A m \in q.census : m.home # NoOrg => m.home \in fenced' \/ m.acct \in inverse'[m.home]
    BY <1>1, <1>2, <2>1 DEF Sound
  <2> QED BY <2>1, <2>2, <2>3, <2>4 DEF Sound, Ending, Sub
<1>7. ASSUME q.pc \in MoveStages \union {"census"}
      PROVE  Movable(o, q.census)'
  <2> SUFFICES ASSUME NEW m \in Moving(q.census), Sub(m.acct) \in Unslipped',
                      Home(Sub(m.acct))' = o
               PROVE  Acct(Sub(m.acct))' = m.acct /\ Live(Sub(m.acct))'
    BY DEF Movable, Moving, Sub
  <2>1. Sub(m.acct) \in Subs
    BY <1>1, AccountParts DEF Moving
  <2> QED BY <1>2, <1>5, <1>7, <2>1 DEF Running, Movable
<1>8. ASSUME q.pc = "census"
      PROVE  Listing(q)'
  BY <1>1, <1>2, <1>4, <1>8 DEF Running, Listing
<1>9. ASSUME q.pc = "floor", Sub(q.cur.acct) \in Unslipped'
      PROVE  profile'[q.cur.acct] = q.seen
  <2>1. q.cur \in q.census
    BY <1>9 DEF Staged, MoveStages, CursorStages, Moving
  <2> QED BY <1>1, <1>2, <1>9, <2>1 DEF Running
<1>10. Covers(q)'
  BY <1>2, <1>5 DEF Running, Covers, Due, Named, Ending
<1> QED BY <1>6, <1>7, <1>8, <1>9, <1>10 DEF Running, Sub

\* Nothing is written, and a fence may go up.
LEMMA QuietAside ==
    ASSUME UNCHANGED rows, fenced \subseteq fenced', Unslipped' \subseteq Unslipped
    PROVE  Aside
BY DEF Aside, rows, Acct

LEMMA AsideSteady ==
    ASSUME Aside, \A o \in Orgs : deletion[o].status = "done" => deletion'[o].status = "done"
    PROVE  Steady
<1>1. \A s \in Unslipped' : Joins(s) \/ (~Live(s) => ~Live(s)' /\ Home(s)' = Home(s))
  BY DEF Aside, Live, Home
<1> QED BY <1>1 DEF Aside, Steady

-----------------------------------------------------------------------------
(* The steps of requests.                                                  *)

\* moveHomeOffDeletedOrg, which only who has slipped can come to need.
LEMMA CommittingMove ==
    ASSUME FullInv, Unslipped' \subseteq Unslipped, NEW r \in Reqs, CommitMove(r)
    PROVE  RowInv' /\ Aside /\ Answered(r)
<1>0. PICK u, s, o, to : u = req[r].acct /\ s = req[r].sub /\ o = req[r].org /\ to = req[r].to
  OBVIOUS
<1>1. /\ TypeInv /\ RowInv /\ RowsGood /\ Unslipped \subseteq Subs
      /\ u \in Accounts /\ s \in Subs /\ Known(u) /\ Sub(u) = s
      /\ s \notin Unslipped' /\ ~req[r].leaves
      /\ Answered(r) /\ UNCHANGED fenced
  BY <1>0, RowTypes DEF FullInv, IInv, TypeInv, ReqsGood, GoodReq, AllAsked, Asked, CommitMove,
                        ReqAt
<1>2. /\ [member EXCEPT ![o][u] = IF req[r].leaves THEN "none" ELSE member[o][u]] = member
      /\ [inverse EXCEPT ![o] = IF req[r].leaves THEN inverse[o] \ {u} ELSE inverse[o]] = inverse
  BY <1>1 DEF RowsGood
<1>3. ASSUME MoveHome(r), UNCHANGED <<member, inverse>>
      PROVE  RowInv' /\ Aside
  <2>1. /\ to \in Orgs /\ u \in inverse[to]
        /\ UNCHANGED identity \/ Rehome(s, to)
        /\ UNCHANGED profile \/ RehomeProfile(u, to)
        /\ UNCHANGED orgs
    BY <1>0, <1>1, <1>3, RowTypes DEF MoveHome, RemainingStands, Open
  <2>2. RowInv'
    BY <1>1, <1>3, <2>1, RowsOfRehoming
  <2>3. \A x \in Subs : Acct(x)' = Acct(x) /\ (x # s => identity'[x] = identity[x])
    BY <1>1, <2>1 DEF RowsGood, Rehome, Acct
  <2>4. \A v \in Accounts : v # u => profile'[v] = profile[v]
    BY <1>1, <2>1, RehomesProfile
  <2> QED BY <1>1, <1>3, <2>2, <2>3, <2>4 DEF Aside
<1>4. ASSUME NEW f \in Orgs \ orgs, AddMember(f, u, "own"), Rehome(s, f), RehomeProfile(u, f)
      PROVE  RowInv' /\ Aside
  <2>1. f \in Orgs \ fenced /\ "own" \in Sources \ {"none"}
    BY <1>1, RowTypes DEF Sources
  <2>2. RowInv'
    BY <1>1, <1>4, <2>1, RowsOfAdding
  <2>3. \A x \in Subs : Acct(x)' = Acct(x) /\ (x # s => identity'[x] = identity[x])
    BY <1>1, <1>4 DEF RowsGood, Rehome, Acct
  <2>4. \A v \in Accounts : v # u => profile'[v] = profile[v]
    BY <1>1, <1>4, RehomesProfile
  <2>5. \A y \in Orgs : \A v : v \in inverse'[y] <=> v \in inverse[y] \/ (y = f /\ v = u)
    BY <1>1, <1>4, Adds
  <2>6. \A y \in fenced : member'[y] = member[y] /\ inverse'[y] = inverse[y]
    BY <1>1, <1>4, <2>1 DEF AddMember, RowsGood
  <2> QED BY <1>1, <2>2, <2>3, <2>4, <2>5, <2>6 DEF Aside
<1>5. \/ MoveHome(r) /\ UNCHANGED <<member, inverse>>
      \/ \E f \in Orgs \ orgs : AddMember(f, u, "own") /\ Rehome(s, f) /\ RehomeProfile(u, f)
  BY <1>0, <1>2 DEF CommitMove, AddMember
<1> QED BY <1>1, <1>3, <1>4, <1>5

LEMMA RunningRequest ==
    ASSUME FullInv, OnlyAccepts, Unslipped' \subseteq Unslipped, NEW r \in Reqs, ReqStep(r)
    PROVE  RowInv' /\ Aside /\ \E q : ReqBecomes(r, q) /\ Asked(q)'
<1> DEFINE Goes == RowInv' /\ Aside /\ \E q : ReqBecomes(r, q) /\ Asked(q)'
<1>1. /\ TypeInv /\ RowInv /\ SurvivorsHaveMoved
      /\ req[r] \in ReqRecords /\ Asked(req[r])
      /\ ~ReqAt(r, "idle") => req[r].acct \in Accounts /\ req[r].sub \in Subs
      /\ "create" \notin Kinds /\ "remove" \notin Kinds
      /\ RowsGood
      /\ Unslipped \subseteq Subs
  BY SurvivorsMoved, RowTypes DEF FullInv, IInv, TypeInv, ReqsGood, GoodReq, ReqAt, AllAsked,
                                  OnlyAccepts
<1>2. \A s \in Subs : Acct(s) \in Accounts /\ Home(s) \in Orgs /\ Sub(Acct(s)) = s /\ Known(Acct(s))
  <2> SUFFICES ASSUME NEW s \in Subs
               PROVE  Acct(s) \in Accounts /\ Home(s) \in Orgs /\ Sub(Acct(s)) = s /\ Known(Acct(s))
    OBVIOUS
  <2>1. Acct(s) \in Accounts /\ Home(s) \in Orgs /\ Sub(Acct(s)) = s
    BY <1>1, RowTypes DEF RowInv, Numbered
  <2> QED BY <2>1, AccountParts DEF Known, Acct
<1>3. UNCHANGED <<rows, fenced>> => RowInv' /\ Aside
  BY <1>1, RowsStay, QuietAside
<1>4. Asked(IdleReq)'
  BY DEF Asked, IdleReq
<1>5. ASSUME NEW s \in Subs, SignIn(r, s)
      PROVE  Goes
  <2> DEFINE b == \E o \in Orgs : member[o][identity[s].acct] # "none"
             q == [IdleReq EXCEPT !.sub = s, !.acct = identity[s].acct, !.belongs = b]
  <2>1. identity[s].home \in fenced /\ deletion[identity[s].home].status = "done" =>
           s \notin Unslipped
    BY <1>1, <1>5 DEF SignIn, SurvivorsHaveMoved
  <2>2. /\ UNCHANGED <<rows, fenced>>
        /\ \/ ReqBecomes(r, [q EXCEPT !.pc = "in"])
           \/ /\ ReqBecomes(r, [q EXCEPT !.pc = "plan", !.org = identity[s].home])
              /\ s \notin Unslipped
    BY <1>5, <2>1 DEF SignIn
  <2>3. PICK e : /\ ReqBecomes(r, e)
                 /\ \/ e = [q EXCEPT !.pc = "in"]
                    \/ e = [q EXCEPT !.pc = "plan", !.org = identity[s].home] /\ s \notin Unslipped
    <3> HIDE DEF q
    <3> QED BY <2>2
  <2>4. Asked(e)'
    <3>1. /\ e.sub = s /\ e.acct = Acct(s) /\ ~e.leaves
          /\ e.pc = "in" \/ (e.pc = "plan" /\ s \notin Unslipped)
      <4> HIDE DEF b
      <4> QED BY <2>3 DEF IdleReq, Acct
    <3> HIDE DEF q
    <3> QED BY <1>2, <2>2, <3>1 DEF Asked, rows, Known, Sub
  <2> QED BY <1>3, <2>2, <2>3, <2>4
<1>6. ASSUME NEW s \in Subs, SignInAgain(r, s)
      PROVE  Goes
  <2> DEFINE q == [IdleReq EXCEPT !.pc = "new", !.sub = s, !.acct = identity[s].acct]
  <2>1. /\ ReqBecomes(r, q)
        /\ UNCHANGED <<rows, fenced, deletion>>
        /\ ~Live(s) /\ deletion[Home(s)].status = "done"
    BY <1>6 DEF SignInAgain, MayRejoin, Live, Home
  <2>2. PICK e : e = q
    OBVIOUS
  <2>3. e.pc = "new" /\ e.sub = s /\ e.acct = Acct(s) /\ ~e.leaves
    BY <2>2 DEF IdleReq, Acct
  <2> HIDE DEF q
  <2>4. Asked(e)'
    BY <1>2, <2>1, <2>3 DEF Asked, rows, Known, Sub, Live, Home
  <2> QED BY <1>3, <2>1, <2>2, <2>4
<1>7. ASSUME NEW o \in Orgs, JoinAnew(r, o)
      PROVE  Goes
  <2>0. PICK s, u : s = req[r].sub /\ u = <<s, req[r].acct[2] + 1>>
    OBVIOUS
  <2>1. /\ s \in Subs /\ u \in Accounts /\ o \in Orgs \ fenced
        /\ ~Live(s) /\ Acct(s) = req[r].acct
        /\ identity' = [identity EXCEPT ![s] = [acct |-> u, home |-> o, deleted |-> FALSE]]
        /\ RehomeProfile(u, o) /\ AddMember(o, u, "invitation")
        /\ Answered(r)
        /\ UNCHANGED <<fenced, deletion, orgs>>
        /\ req[r].pc = "new"
    BY <1>1, <1>7, <2>0 DEF JoinAnew, ReqAt, Open, Live, Acct
  <2>2. u = <<s, Acct(s)[2] + 1>>
    BY <2>0, <2>1
  <2>3. s \in Unslipped => deletion[Home(s)].status = "done"
    <3>1. Sub(req[r].acct) = s /\ ~Replaced(req[r].acct)
      BY <1>1, <2>0, <2>1 DEF Asked, Replaced, Acct
    <3> QED BY <1>1, <2>0, <2>1, <3>1 DEF Asked
  <2>4. ASSUME s \in Unslipped
        PROVE  BelongsNowhere(Acct(s))
    <3>1. Home(s) \in Orgs /\ inverse[Home(s)] = {}
      BY <1>2, <2>1, <2>3, <2>4 DEF FullInv, IInv, DoneIsEmpty
    <3> QED BY <1>1, <2>1, <2>4, <3>1 DEF RowInv, Ended, BelongsAtMost, BelongsNowhere
  <2>5. RowInv'
    BY <1>1, <2>1, <2>2, <2>4, RowsOfJoining
  <2>6. /\ Acct(s)' = u /\ Home(s)' = o /\ Live(s)'
        /\ \A x \in Subs \ {s} : identity'[x] = identity[x]
    BY <1>1, <2>1 DEF RowsGood, Acct, Home, Live
  <2>7. ~Known(u)
    <3>1. Acct(s) \in Accounts /\ Acct(s)[2] \in Int
      BY <1>2, <2>1, AccountParts
    <3>2. u[2] = Acct(s)[2] + 1 /\ Sub(u) = s
      BY <2>2 DEF Sub
    <3> QED BY <3>1, <3>2 DEF Known, Acct
  <2>8. Aside
    <3>1. \A x \in Orgs : \A v : v \in inverse'[x] <=> v \in inverse[x] \/ (x = o /\ v = u)
      BY <1>1, <2>1, Adds
    <3>2. \A x \in fenced : member'[x] = member[x] /\ inverse'[x] = inverse[x]
      BY <1>1, <2>1 DEF AddMember, RowsGood
    <3>3. \A v \in Accounts : Known(v) => profile'[v] = profile[v]
      BY <1>1, <2>1, <2>7, RehomesProfile
    <3>4. \A x \in Subs : identity'[x] = identity[x] \/ Joins(x)
      BY <2>1, <2>2, <2>6 DEF Joins
    <3>5. \A x \in Subs : Acct(x)' = Acct(x) \/ Joins(x)
      BY <3>4 DEF Acct
    <3> QED BY <1>1, <2>1, <2>7, <3>1, <3>2, <3>3, <3>4, <3>5 DEF Aside
  <2> QED BY <1>4, <2>1, <2>5, <2>8 DEF Answered
<1>8. ASSUME NEW o \in Orgs, ReadAccepter(r, o)
      PROVE  Goes
  <2>1. /\ req[r].pc = "in"
        /\ req[r].acct \in Accounts /\ Known(req[r].acct) /\ Sub(req[r].acct) = req[r].sub
        /\ ~req[r].leaves
        /\ UNCHANGED <<rows, fenced>>
    BY <1>1, <1>8 DEF ReadAccepter, ReqAt, Asked
  <2>2. PICK seen \in {profile[req[r].acct], NoOrg} :
           ReqBecomes(r, [req[r] EXCEPT !.pc = "accept", !.org = o, !.seenProfile = seen])
    BY <1>8 DEF ReadAccepter
  <2>3. PICK e : e = [req[r] EXCEPT !.pc = "accept", !.org = o, !.seenProfile = seen]
    OBVIOUS
  <2>4. /\ e.pc = "accept" /\ e.seenProfile = seen /\ ~e.leaves
        /\ e.acct = req[r].acct /\ e.sub = req[r].sub
    BY <1>1, <2>1, <2>3 DEF ReqRecords
  <2>5. seen # NoOrg => seen \in fenced \/ e.acct \in inverse[seen]
    BY <1>1, <2>1, <2>2, <2>4 DEF RowInv, Profiled
  <2>6. Asked(e)'
    BY <2>1, <2>4, <2>5 DEF Asked, rows, Known, Sub
  <2> QED BY <1>3, <2>1, <2>2, <2>3, <2>6
<1>9. CASE Accept(r)
  <2>0. PICK u, o, s : u = req[r].acct /\ o = req[r].org /\ s = Sub(u)
    OBVIOUS
  <2>1. /\ req[r].pc = "accept" /\ s = req[r].sub
        /\ u \in Accounts /\ Known(u) /\ s \in Subs
        /\ o \in Orgs \ fenced
        /\ AddMember(o, u, "invitation")
        /\ Answered(r)
        /\ UNCHANGED <<fenced, orgs, identity, profile>>
    BY <1>1, <1>9, <2>0, RowTypes DEF Accept, ReqAt, InvitingStands, Open, Asked
  <2>2. ASSUME s \in Unslipped'
        PROVE  \E x \in Orgs \ fenced : u \in inverse[x]
    <3>1. ~Slips(r)
      BY <1>9, <2>1, <2>2 DEF Accept, Unslipped
    <3>2. CASE req[r].seenProfile # NoOrg
      BY <1>1, <1>9, <2>0, <2>1, <3>2, RowTypes DEF Accept, AccepterStands, Open, Asked
    <3>3. CASE req[r].seenProfile = NoOrg
      <4>1. Open(profile[u])
        BY <2>0, <3>1, <3>3 DEF Slips
      <4> QED BY <1>1, <2>1, <4>1, RowTypes DEF Open, RowInv, Profiled
    <3> QED BY <3>2, <3>3
  <2>3. s \in Unslipped' => Acct(s) = u
    BY <1>1, <2>0, <2>1, <2>2 DEF RowInv, Current, BelongsNowhere, Replaced, Acct
  <2>4. s \in Unslipped' => Live(s)
    BY <1>1, <2>1, <2>2, <2>3 DEF RowInv, Ended, BelongsAtMost
  <2>5. RowInv'
    <3>1. "invitation" \in Sources \ {"none"}
      BY DEF Sources
    <3> QED BY <1>1, <2>0, <2>1, <2>3, <2>4, <3>1, RowsOfAdding
  <2>6. Aside
    <3>1. \A y \in Orgs : \A v : v \in inverse'[y] <=> v \in inverse[y] \/ (y = o /\ v = u)
      BY <1>1, <2>1, Adds
    <3>2. \A y \in fenced : member'[y] = member[y] /\ inverse'[y] = inverse[y]
      BY <1>1, <2>1 DEF AddMember, RowsGood
    <3> QED BY <2>0, <2>1, <2>2, <3>1, <3>2 DEF Aside, Acct
  <2> QED BY <1>4, <2>1, <2>5, <2>6 DEF Answered
<1>10. CASE Drop(r)
  BY <1>3, <1>4, <1>10 DEF Drop, Answered
<1>11. CASE Plan(r) \/ ReadHome(r)
  <2>1. /\ req[r].pc \in {"plan", "pointers"} /\ ~req[r].leaves
        /\ req[r].sub \notin Unslipped /\ Known(req[r].acct) /\ Sub(req[r].acct) = req[r].sub
        /\ UNCHANGED <<rows, fenced>>
    BY <1>1, <1>11 DEF Plan, ReadHome, ReqAt, Asked
  <2>2. PICK to, seenP, seenI :
           \/ ReqBecomes(r, [req[r] EXCEPT !.pc = "pointers", !.to = to])
           \/ ReqBecomes(r, [req[r] EXCEPT !.pc = "commit", !.seenProfile = seenP,
                                           !.seenIdentity = seenI])
    BY <1>11 DEF Plan, ReadHome
  <2>3. PICK e : /\ ReqBecomes(r, e)
                 /\ \/ e = [req[r] EXCEPT !.pc = "pointers", !.to = to]
                    \/ e = [req[r] EXCEPT !.pc = "commit", !.seenProfile = seenP,
                                          !.seenIdentity = seenI]
    BY <2>2
  <2>4. Asked(e)'
    <3>1. /\ e.pc \in {"pointers", "commit"} /\ ~e.leaves
          /\ e.acct = req[r].acct /\ e.sub = req[r].sub
      BY <1>1, <2>1, <2>3 DEF ReqRecords
    <3> QED BY <2>1, <3>1 DEF Asked, rows, Known, Sub
  <2> QED BY <1>3, <2>1, <2>3, <2>4
<1>12. CASE CommitMove(r)
  BY <1>1, <1>4, <1>12, CommittingMove DEF Answered
<1>13. /\ ~CreateOrg(r)
       /\ \A o \in Orgs, u \in Accounts : ~Remove(r, o, u)
  BY <1>1 DEF CreateOrg, Remove
<1> HIDE DEF Goes
<1>14. Goes
  <2>1. /\ Accept(r) => Goes
        /\ Drop(r) => Goes
        /\ Plan(r) \/ ReadHome(r) => Goes
        /\ CommitMove(r) => Goes
    BY <1>9, <1>10, <1>11, <1>12 DEF Goes
  <2> QED BY <1>5, <1>6, <1>7, <1>8, <1>13, <2>1 DEF ReqStep
<1> QED BY <1>14 DEF Goes

-----------------------------------------------------------------------------
(* The steps of the pass.                                                  *)

LEMMA DueNext ==
    ASSUME NEW q \in PassRecords, NEW m
    PROVE  /\ (\A n \in q.census : n.ends <=> ~(n.floor \/ n.home # NoOrg)) =>
                 Named(q.census) \subseteq Due(EnterMove(q))
           /\ Named(Ending(q.census) \union (q.todo \ {m})) \subseteq Due(MoveNext(q, m))
           /\ Named(Ending(q.census)) \subseteq Due(CheckNext(q, m))
           /\ Named(q.todo \ {m}) \subseteq Due(ScrubNext(q, m))
<1>1. ASSUME \A n \in q.census : n.ends <=> ~(n.floor \/ n.home # NoOrg)
      PROVE  Named(q.census) \subseteq Due(EnterMove(q))
  <2>1. q.census = Ending(q.census) \union Moving(q.census)
    BY <1>1 DEF Ending, Moving
  <2> DEFINE e == EnterMove(q)
  <2>2. /\ e.census = q.census
        /\ \/ e.pc = "move" /\ e.todo = Moving(q.census)
           \/ e.pc = "check" /\ e.todo = Ending(q.census) /\ Moving(q.census) = {}
           \/ /\ e.pc = "read"
              /\ Ending(q.census) = {}
              /\ Moving(q.census) = {}
    BY EntersNext
  <2> HIDE DEF e
  <2>3. Named(q.census) \subseteq Due(e)
    BY <2>1, <2>2 DEF Due, Named
  <2> QED BY <2>3 DEF e
<1>2. Named(Ending(q.census) \union (q.todo \ {m})) \subseteq Due(MoveNext(q, m))
  <2> DEFINE e == MoveNext(q, m)
  <2>1. /\ e.census = q.census
        /\ \/ e.pc = "move" /\ e.todo = q.todo \ {m}
           \/ /\ q.todo = {m}
              /\ \/ e.pc = "check" /\ e.todo = Ending(q.census)
                 \/ e.pc = "read" /\ Ending(q.census) = {}
    BY GoesOn
  <2> HIDE DEF e
  <2>2. Named(Ending(q.census) \union (q.todo \ {m})) \subseteq Due(e)
    BY <2>1 DEF Due, Named
  <2> QED BY <2>2 DEF e
<1>3. Named(Ending(q.census)) \subseteq Due(CheckNext(q, m))
  <2> DEFINE e == CheckNext(q, m)
  <2>1. /\ e.census = q.census
        /\ \/ e.pc = "check" /\ e.todo = q.todo \ {m}
           \/ e.pc = "scrub" /\ e.todo = Ending(q.census)
           \/ e.pc = "read" /\ Ending(q.census) = {}
    BY GoesOn
  <2> HIDE DEF e
  <2>2. Named(Ending(q.census)) \subseteq Due(e)
    BY <2>1 DEF Due, Named
  <2> QED BY <2>2 DEF e
<1>4. Named(q.todo \ {m}) \subseteq Due(ScrubNext(q, m))
  <2> DEFINE e == ScrubNext(q, m)
  <2>1. \/ e.pc = "scrub" /\ e.todo = q.todo \ {m}
        \/ e.pc = "read" /\ q.todo = {m}
    BY GoesOn
  <2> HIDE DEF e
  <2>2. Named(q.todo \ {m}) \subseteq Due(e)
    BY <2>1 DEF Due, Named
  <2> QED BY <2>2 DEF e
<1> QED BY <1>1, <1>2, <1>3, <1>4

LEMMA QuietRunning ==
    ASSUME NEW e, Running(e), UNCHANGED <<rows, fenced>>, Unslipped' \subseteq Unslipped
    PROVE  Running(e)'
<1>1. Sound(e.org, e.census) => Sound(e.org, e.census)'
  BY DEF rows, Sound, Ending, Known, Sub, BelongsAtMost
<1>2. Movable(e.org, e.census) => Movable(e.org, e.census)'
  BY DEF rows, Movable, Moving, Home, Acct, Live, Sub
<1>3. Listing(e) => Listing(e)'
  BY DEF rows, Listing, Known, Sub
<1>4. Covers(e) => Covers(e)'
  BY DEF rows, Covers, Home, Acct, Live, Due, Named, Ending
<1> QED BY <1>1, <1>2, <1>3, <1>4 DEF Running, rows, Sub

\* The stages that know nothing but the census.
Plain == {"move", "profile", "pointers", "check", "auth0", "scrub", "read",
          "inverse", "rows", "done"}

LEMMA PlainNext ==
    ASSUME NEW q \in PassRecords, NEW m
    PROVE  /\ EnterMove(q).pc \in Plain
           /\ MoveNext(q, m).pc \in Plain
           /\ CheckNext(q, m).pc \in Plain \ MoveStages
           /\ ScrubNext(q, m).pc \in Plain \ MoveStages
BY EntersNext, GoesOn DEF Plain, MoveStages

\* What every step of a pass has to show.
Proceeds(p) == RowInv' /\ Steady /\ \E e : PassBecomes(p, e) /\ Running(e)'

LEMMA Quietly ==
    ASSUME RowInv, NEW p, NEW e, PassBecomes(p, e), Running(e), UNCHANGED <<rows, fenced>>,
           Unslipped' \subseteq Unslipped,
           \A o \in Orgs : deletion[o].status = "done" => deletion'[o].status = "done"
    PROVE  Proceeds(p)
BY RowsStay, QuietAside, AsideSteady, QuietRunning DEF Proceeds

\* What is known of a pass that runs.
LEMMA PassFacts ==
    ASSUME FullInv, NEW p \in Passes, NEW q, q = pass[p], q.pc # "idle"
    PROVE  /\ TypeInv /\ RowInv /\ RowsGood
           /\ q \in PassRecords /\ GoodPass(q) /\ Staged(q) /\ Running(q)
           /\ q.org \in fenced /\ q.org \in Orgs
           /\ q.census \subseteq Verdicts /\ q.left \subseteq Accounts
           /\ \A m \in Verdicts : m.acct \in Accounts /\ m.home \in Orgs \union {NoOrg}
           /\ \A s \in Subs : Acct(s) \in Accounts /\ Home(s) \in Orgs /\ Sub(Acct(s)) = s
           /\ Unslipped \subseteq Subs
<1>1. TypeInv /\ RowInv
  BY DEF FullInv, IInv
<1>2. q \in PassRecords /\ GoodPass(q) /\ Staged(q) /\ Running(q)
  BY DEF FullInv, IInv, TypeInv, PassesGood, AllStaged, AllRunning
<1>3. q.org \in fenced /\ q.org \in Orgs
  BY DEF FullInv, IInv, PassesBegun, TypeInv, Begun
<1>4. /\ q.census \subseteq Verdicts /\ q.left \subseteq Accounts
      /\ \A m \in Verdicts : m.acct \in Accounts /\ m.home \in Orgs \union {NoOrg}
  BY <1>2 DEF PassRecords, Verdicts
<1>5. /\ \A s \in Subs : Acct(s) \in Accounts /\ Home(s) \in Orgs /\ Sub(Acct(s)) = s
      /\ Unslipped \subseteq Subs
  BY <1>1, RowTypes DEF RowInv, Numbered
<1> QED BY <1>1, <1>2, <1>3, <1>4, <1>5 DEF TypeInv

LEMMA StartingPass ==
    ASSUME FullInv, Unslipped' \subseteq Unslipped,
           NEW p \in Passes, NEW o \in Orgs, StartPass(p, o)
    PROVE  Proceeds(p)
<1>1. PICK e : e = [IdlePass EXCEPT !.pc = "list", !.org = o]
  OBVIOUS
<1>2. e.pc = "list" /\ e.org = o /\ e.census = {}
  BY <1>1 DEF IdlePass
<1>3. TypeInv /\ RowInv
  BY DEF FullInv, IInv
<1>4. Running(e)
  <2>1. Sound(e.org, e.census)
    BY <1>2 DEF Sound, Ending
  <2>2. Covers(e)
    BY <1>2, <1>3, RowTypes DEF Covers, Due
  <2> QED BY <1>2, <2>1, <2>2 DEF Running, MoveStages
<1>5. UNCHANGED <<rows, fenced>> /\ PassBecomes(p, e)
  BY <1>1, <1>3 DEF StartPass, Redrives, TypeInv, Begun
<1>6. \A x \in Orgs : deletion'[x].status = deletion[x].status
  <2> DEFINE n == IF deletion[o].attempts > Blocked THEN deletion[o].attempts
                  ELSE deletion[o].attempts + 1
  <2>1. deletion' = [deletion EXCEPT ![o].attempts = n]
    BY DEF StartPass
  <2> HIDE DEF n
  <2> QED BY <1>3, <2>1 DEF TypeInv, RecordsGood
<1> QED BY <1>3, <1>4, <1>5, <1>6, Quietly

LEMMA EndingPass ==
    ASSUME FullInv, Unslipped' \subseteq Unslipped, NEW p \in Passes, MarkDone(p) \/ PassFails(p)
    PROVE  Proceeds(p)
<1>1. Running(IdlePass)
  BY DEF Running, IdlePass
<1>2. PICK e : e = IdlePass
  OBVIOUS
<1>3. /\ PassBecomes(p, e) /\ Running(e)
      /\ UNCHANGED <<rows, fenced>>
  BY <1>1, <1>2 DEF MarkDone, PassFails
<1>4. \A o \in Orgs : deletion[o].status = "done" => deletion'[o].status = "done"
  <2>1. CASE UNCHANGED deletion
    BY <2>1
  <2>2. CASE MarkDone(p)
    <3>1. PICK x : x = pass[p].org
      OBVIOUS
    <3>2. deletion' = [deletion EXCEPT ![x].status = "done"]
      BY <2>2, <3>1 DEF MarkDone
    <3> QED BY <3>2 DEF FullInv, IInv, TypeInv, RecordsGood
  <2> QED BY <2>1, <2>2 DEF PassFails
<1> QED BY <1>3, <1>4, Quietly DEF FullInv

LEMMA TakingCensus ==
    ASSUME FullInv, Unslipped' \subseteq Unslipped, NEW p \in Passes, ListMembers(p)
    PROVE  Proceeds(p)
<1>0. PICK q : q = pass[p]
  OBVIOUS
<1>1. q.pc = "list"
  BY <1>0 DEF ListMembers, In
<1>2. /\ TypeInv /\ RowInv
      /\ q \in PassRecords /\ Running(q) /\ q.org \in Orgs
      /\ \A s \in Subs : Acct(s) \in Accounts /\ Home(s) \in Orgs /\ Sub(Acct(s)) = s
      /\ Unslipped \subseteq Subs
  BY <1>0, <1>1, PassFacts
<1> DEFINE o == q.org
<1>3. PICK listed : listed = ListedMembers(o)
  OBVIOUS
<1>4. \A u \in listed : u \in Accounts /\ Known(u)
  <2> SUFFICES ASSUME NEW u \in listed
               PROVE  u \in Accounts /\ Known(u)
    OBVIOUS
  <2>1. CASE u \in Members(o)
    BY <1>2, <2>1 DEF Members, RowInv, Numbered
  <2>2. ASSUME NEW s \in Subs, u = <<s, 1>>
        PROVE  u \in Accounts /\ Known(u)
    <3>1. u \in Accounts /\ Sub(u) = s /\ u[2] = 1
      BY <2>2, ConstantsAssumption DEF Accounts, Sub
    <3>2. Acct(s)[2] \in Int /\ Acct(s)[2] >= 1
      BY <1>2, AccountParts
    <3> QED BY <3>1, <3>2 DEF Known, Acct
  <2> QED BY <1>3, <2>1, <2>2 DEF ListedMembers
<1>5. \A s \in Unslipped : Live(s) /\ Home(s) = o => Acct(s) \in listed
  <2> SUFFICES ASSUME NEW s \in Unslipped, Live(s), Home(s) = o
               PROVE  Acct(s) \in Members(o)
    BY <1>3 DEF ListedMembers
  <2> QED BY <1>2 DEF RowInv, Homed, FullInv, IInv, Listed
<1>6. q.census = {} /\ Sound(o, q.census)
  BY <1>1, <1>2 DEF Running
<1>7. /\ PassBecomes(p, IF listed = {} THEN EnterMove(q)
                        ELSE [q EXCEPT !.pc = "census", !.left = listed,
                                       !.invited = {u \in listed : member[o][u] = "invitation"}])
      /\ UNCHANGED <<rows, fenced, deletion>>
  BY <1>0, <1>3 DEF ListMembers
<1>8. CASE listed = {}
  <2>1. PICK e : e = EnterMove(q)
    OBVIOUS
  <2>2. e.org = o /\ e.census = {} /\ e.pc = "read"
    BY <1>2, <1>6, <2>1, EntersNext DEF Moving, Ending
  <2>3. Covers(e)
    BY <1>5, <1>8, <2>2 DEF Covers
  <2>4. Running(e)
    BY <1>6, <2>2, <2>3 DEF Running, MoveStages
  <2> QED BY <1>2, <1>7, <1>8, <2>1, <2>4, Quietly
<1>9. CASE listed # {}
  <2>1. PICK invited : invited = {u \in listed : member[o][u] = "invitation"}
    OBVIOUS
  <2>2. PICK e : e = [q EXCEPT !.pc = "census", !.left = listed, !.invited = invited]
    OBVIOUS
  <2>3. e.org = o /\ e.census = {} /\ e.pc = "census" /\ e.left = listed /\ e.invited = invited
    BY <1>2, <1>6, <2>2 DEF PassRecords
  <2>4. Listing(e)
    BY <1>4, <2>1, <2>3 DEF Listing
  <2>5. Covers(e) /\ Movable(o, {})
    BY <1>5, <2>3 DEF Covers, Due, Named, Movable, Moving
  <2>6. Running(e)
    BY <1>6, <2>3, <2>4, <2>5 DEF Running
  <2> QED BY <1>2, <1>7, <1>9, <2>1, <2>2, <2>6, Quietly
<1> QED BY <1>8, <1>9

LEMMA DecidingMember ==
    ASSUME FullInv, Unslipped' \subseteq Unslipped,
           NEW p \in Passes, NEW u \in Accounts, CensusMember(p, u)
    PROVE  Proceeds(p)
<1>0. PICK q : q = pass[p]
  OBVIOUS
<1>1. q.pc = "census" /\ u \in q.left
  BY <1>0 DEF CensusMember, In
<1>2. /\ TypeInv /\ RowInv
      /\ q \in PassRecords /\ Running(q) /\ q.org \in Orgs /\ q.org \in fenced
      /\ q.census \subseteq Verdicts
      /\ \A s \in Subs : Acct(s) \in Accounts /\ Home(s) \in Orgs /\ Sub(Acct(s)) = s
      /\ Unslipped \subseteq Subs
  BY <1>0, <1>1, PassFacts
<1> DEFINE o == q.org
<1>3. PICK m \in Verdicts :
         /\ Decides(p, u, m)
         /\ LET q1 == [q EXCEPT !.census = q.census \union {m}, !.left = q.left \ {u}]
            IN PassBecomes(p, IF q1.left = {} THEN EnterMove(q1) ELSE q1)
  BY <1>0 DEF CensusMember
<1>4. PICK keeps \in BOOLEAN :
         keeps <=> (\E x \in Orgs : x # o /\ u \in inverse[x]) \/ u \in q.invited
  OBVIOUS
<1>5. /\ m.acct = u
      /\ m.ends <=> ~keeps
      /\ m.ends <=> ~(m.floor \/ m.home # NoOrg)
      /\ m.home # NoOrg => m.home \in Orgs /\ u \in inverse[m.home]
  <2>1. Keeps(p, u) <=> keeps
    BY <1>0, <1>4 DEF Keeps, OrgsOf
  <2>2. NoOrg \notin Orgs
    BY ConstantsAssumption
  <2>3. LiveOrgs(p, u) \subseteq Orgs /\ \A x \in LiveOrgs(p, u) : u \in inverse[x]
    BY DEF LiveOrgs, OrgsOf
  <2> QED BY <1>3, <2>1, <2>2, <2>3 DEF Decides
<1>6. /\ Sound(o, q.census) /\ Movable(o, q.census) /\ Listing(q) /\ Covers(q)
  BY <1>1, <1>2 DEF Running
<1>7. PICK census : census = q.census \union {m}
  OBVIOUS
<1>8. Sound(o, census)
  <2>1. \A n \in census : Known(n.acct) /\ (n.ends <=> ~(n.floor \/ n.home # NoOrg))
    BY <1>1, <1>5, <1>6, <1>7 DEF Sound, Listing
  <2>2. \A n1, n2 \in census : n1.acct = n2.acct => n1 = n2
    BY <1>1, <1>5, <1>6, <1>7 DEF Sound, Listing
  <2>3. \A n \in census : n.home # NoOrg => n.home \in fenced \/ n.acct \in inverse[n.home]
    BY <1>5, <1>6, <1>7 DEF Sound
  <2>4. m.ends => BelongsAtMost(u, o) /\ member[o][u] # "invitation"
    BY <1>1, <1>4, <1>5, <1>6 DEF BelongsAtMost, Listing
  <2>5. \A n \in Ending(census) : Sub(n.acct) \in Unslipped =>
           BelongsAtMost(n.acct, o) /\ member[o][n.acct] # "invitation"
    BY <1>5, <1>6, <1>7, <2>4 DEF Sound, Ending
  <2> QED BY <2>1, <2>2, <2>3, <2>5 DEF Sound
<1>9. Movable(o, census)
  <2> DEFINE s == Sub(u)
  <2>1. ASSUME ~m.ends, s \in Unslipped, Home(s) = o
        PROVE  Acct(s) = u /\ Live(s)
    <3>1. (\E x \in Orgs : x # o /\ u \in inverse[x]) \/ member[o][u] = "invitation"
      BY <1>1, <1>4, <1>5, <1>6, <2>1 DEF Listing
    <3>2. s \in Subs
      BY AccountParts
    <3>3. Acct(s) = u
      BY <1>2, <2>1, <3>1 DEF RowInv, Current, BelongsNowhere, Replaced, Acct
    <3>4. Live(s)
      BY <1>2, <2>1, <3>1, <3>2, <3>3 DEF RowInv, Ended, BelongsAtMost
    <3> QED BY <3>3, <3>4
  <2> QED BY <1>5, <1>6, <1>7, <2>1 DEF Movable, Moving
<1>10. PICK q1 : q1 = [q EXCEPT !.census = census, !.left = q.left \ {u}]
  OBVIOUS
<1>11. /\ q1.org = o /\ q1.pc = "census" /\ q1.census = census
       /\ q1.left = q.left \ {u} /\ q1.invited = q.invited
       /\ q1 \in PassRecords
  BY <1>1, <1>2, <1>7, <1>10 DEF PassRecords
<1>12. \A s \in Unslipped : Live(s) /\ Home(s) = o => Acct(s) \in q1.left \union Named(census)
  BY <1>1, <1>5, <1>6, <1>7, <1>11 DEF Covers, Due, Named
<1>13. CASE q1.left = {}
  <2>1. PICK e : e = EnterMove(q1)
    OBVIOUS
  <2>2. e.org = o /\ e.census = census /\ e.pc \in Plain
    BY <1>11, <2>1, EntersNext, PlainNext
  <2>3. Covers(e)
    <3>1. Named(census) \subseteq Due(e)
      BY <1>8, <1>11, <2>1, DueNext DEF Sound
    <3> QED BY <1>12, <1>13, <2>2, <3>1 DEF Covers
  <2>4. Running(e)
    BY <1>8, <1>9, <2>2, <2>3 DEF Running, Plain
  <2>5. PassBecomes(p, e) /\ UNCHANGED <<rows, fenced, deletion>>
    BY <1>3, <1>7, <1>10, <1>13, <2>1 DEF CensusMember
  <2> QED BY <1>2, <2>4, <2>5, Quietly
<1>14. CASE q1.left # {}
  <2>1. Listing(q1)
    BY <1>5, <1>6, <1>7, <1>11 DEF Listing
  <2>2. Covers(q1)
    BY <1>11, <1>12 DEF Covers, Due
  <2>3. Running(q1)
    BY <1>8, <1>9, <1>11, <2>1, <2>2 DEF Running
  <2>4. PassBecomes(p, q1) /\ UNCHANGED <<rows, fenced, deletion>>
    BY <1>3, <1>7, <1>10, <1>14 DEF CensusMember
  <2> QED BY <1>2, <2>3, <2>4, Quietly
<1> QED BY <1>13, <1>14

LEMMA PlainRunning ==
    ASSUME NEW e, e.pc \in Plain,
           Sound(e.org, e.census)',
           e.pc \in MoveStages => Movable(e.org, e.census)',
           \A s \in Unslipped' : (Live(s) /\ Home(s) = e.org)' => Acct(s)' \in Due(e)
    PROVE  Running(e)'
<1>1. Covers(e)'
  BY DEF Covers, Due, Named, Ending
<1> QED BY <1>1 DEF Running, Plain

LEMMA Unrecorded ==
    ASSUME UNCHANGED deletion
    PROVE  \A o \in Orgs : deletion[o].status = "done" => deletion'[o].status = "done"
OBVIOUS

\* Of whoever is at home in the organization somebody else than m is due.
LEMMA DueElse ==
    ASSUME NEW q \in PassRecords, NEW m, NEW s \in Subs,
           q.pc \in MoveStages, q.pc = "profile" => q.cur = m,
           Acct(s) \in Due(q), m.acct # Acct(s)
    PROVE  Acct(s) \in Named(Ending(q.census) \union (q.todo \ {m}))
BY DEF MoveStages, Due, Named

LEMMA MovingIdentity ==
    ASSUME FullInv, Unslipped' \subseteq Unslipped,
           NEW p \in Passes, NEW m \in pass[p].todo, MoveIdentity(p, m)
    PROVE  Proceeds(p)
<1>0. PICK q : q = pass[p]
  OBVIOUS
<1>1. q.pc = "move" /\ m \in q.todo /\ m.home # NoOrg
  BY <1>0 DEF MoveIdentity, In
<1>2. /\ TypeInv /\ RowInv /\ RowsGood
      /\ q \in PassRecords /\ Staged(q) /\ Running(q) /\ q.org \in Orgs /\ q.org \in fenced
      /\ q.census \subseteq Verdicts
      /\ \A n \in Verdicts : n.acct \in Accounts
      /\ \A s \in Subs : Acct(s) \in Accounts /\ Home(s) \in Orgs /\ Sub(Acct(s)) = s
      /\ Unslipped \subseteq Subs
  BY <1>0, <1>1, PassFacts
<1> DEFINE o == q.org
<1>3. m \in Moving(q.census) /\ m \in q.census /\ m.acct \in Accounts
  BY <1>1, <1>2 DEF Staged, MoveStages, Moving
<1>4. Sound(o, q.census) /\ Movable(o, q.census) /\ Covers(q)
  BY <1>1, <1>2 DEF Running, MoveStages
<1>5. PICK s : s = Sub(m.acct)
  OBVIOUS
<1>6. s \in Subs
  BY <1>3, <1>5, AccountParts
<1>7. UNCHANGED <<fenced, deletion, orgs, member, inverse, profile>>
  BY DEF MoveIdentity
<1>8. CASE Open(m.home)
  <2>1. m.home \in Orgs \ fenced /\ m.acct \in inverse[m.home]
    BY <1>1, <1>3, <1>4, <1>8, RowTypes, <1>2 DEF Open, Sound
  <2>2. PICK e : e = [q EXCEPT !.pc = "profile", !.cur = m]
    OBVIOUS
  <2>3. e.pc = "profile" /\ e.cur = m /\ e.org = o /\ e.census = q.census /\ e.todo = q.todo
    BY <1>2, <2>2 DEF PassRecords
  <2>4. PassBecomes(p, e)
    BY <1>0, <1>8, <2>2 DEF MoveIdentity, DestinationStands
  <2>5. CASE Home(s) = o
    <3>1. s \in Unslipped => Acct(s) = m.acct /\ Live(s)
      BY <1>3, <1>4, <1>5, <2>5 DEF Movable
    <3>2. Rehome(s, m.home)
      BY <1>0, <1>5, <1>8, <2>5 DEF MoveIdentity, DestinationStands, Home
    <3>3. RowInv'
      BY <1>2, <1>3, <1>5, <1>7, <2>1, <3>1, <3>2, RowsOfRehoming
    <3>4. PICK h : h = m.home
      OBVIOUS
    <3>5. \A x \in Subs : /\ Acct(x)' = Acct(x)
                          /\ Live(x)' = Live(x)
                          /\ Home(x)' = IF x = s THEN h ELSE Home(x)
      BY <1>2, <3>2, <3>4, Rehomes
    <3>6. h # o
      BY <1>2, <2>1, <3>4
    <3>7. Sound(o, q.census)'
      <4>1. \A n \in q.census : Known(n.acct)' = Known(n.acct)
        BY <1>2, <3>5, AccountParts DEF Known, Acct, Sub
      <4> QED BY <1>4, <1>7, <4>1 DEF Sound, Ending, BelongsAtMost, Sub
    <3>8. Movable(o, q.census)'
      BY <1>2, <1>4, <3>5, <3>6, AccountParts DEF Movable, Moving, Sub
    <3>9. \A x \in Unslipped' : (Live(x) /\ Home(x) = o)' => Acct(x)' \in Due(e)
      <4> SUFFICES ASSUME NEW x \in Unslipped, Live(x), Home(x) = o, x # s
                   PROVE  Acct(x) \in Due(e)
        BY <1>2, <3>5, <3>6
      <4>1. m.acct # Acct(x)
        BY <1>2, <1>5
      <4>2. Acct(x) \in Named(Ending(q.census) \union (q.todo \ {m}))
        BY <1>1, <1>2, <1>4, <4>1, DueElse DEF Covers, MoveStages
      <4> QED BY <2>3, <4>2 DEF Due
    <3>10. Running(e)'
      BY <2>3, <3>7, <3>8, <3>9, PlainRunning DEF Plain
    <3>11. Steady
      BY <1>7, <3>1, <3>5 DEF Steady
    <3> QED BY <2>4, <3>3, <3>10, <3>11 DEF Proceeds
  <2>6. CASE Home(s) # o
    <3>1. UNCHANGED rows
      BY <1>0, <1>5, <1>7, <1>8, <2>6 DEF MoveIdentity, DestinationStands, Home, rows
    <3>2. Covers(e)
      <4> SUFFICES ASSUME NEW x \in Unslipped, Live(x), Home(x) = o
                   PROVE  Acct(x) \in Due(e)
        BY <2>3 DEF Covers
      <4>1. m.acct # Acct(x)
        BY <1>2, <1>5, <2>6
      <4>2. Acct(x) \in Named(Ending(q.census) \union (q.todo \ {m}))
        BY <1>1, <1>2, <1>4, <4>1, DueElse DEF Covers, MoveStages
      <4> QED BY <2>3, <4>2 DEF Due
    <3>3. Running(e)
      BY <1>4, <2>3, <3>2 DEF Running
    <3> QED BY <1>2, <1>7, <2>4, <3>1, <3>3, Quietly, Unrecorded
  <2> QED BY <2>5, <2>6
<1>9. CASE ~Open(m.home)
  <2>1. PICK e : e = [q EXCEPT !.pc = "pointers", !.cur = m]
    OBVIOUS
  <2>2. e.pc = "pointers" /\ e.org = o /\ e.census = q.census /\ e.todo = q.todo
    BY <1>2, <2>1 DEF PassRecords
  <2>3. PassBecomes(p, e) /\ UNCHANGED rows
    BY <1>0, <1>9, <2>1 DEF MoveIdentity, DestinationStands, rows
  <2>4. Covers(e)
    BY <1>1, <1>4, <2>2 DEF Covers, Due
  <2>5. Running(e)
    BY <1>4, <2>2, <2>4 DEF Running
  <2> QED BY <1>2, <1>7, <2>3, <2>5, Quietly, Unrecorded
<1> QED BY <1>8, <1>9

LEMMA MovingProfile ==
    ASSUME FullInv, Unslipped' \subseteq Unslipped, NEW p \in Passes, MoveProfile(p)
    PROVE  Proceeds(p)
<1>0. PICK q, m : q = pass[p] /\ m = q.cur
  OBVIOUS
<1>1. q.pc = "profile"
  BY <1>0 DEF MoveProfile, In
<1>2. /\ TypeInv /\ RowInv /\ RowsGood
      /\ q \in PassRecords /\ Staged(q) /\ Running(q) /\ q.org \in Orgs /\ q.org \in fenced
      /\ q.census \subseteq Verdicts
      /\ \A n \in Verdicts : n.acct \in Accounts
  BY <1>0, <1>1, PassFacts
<1>3. m \in Moving(q.census) /\ m \in q.census /\ m.acct \in Accounts
  BY <1>0, <1>1, <1>2 DEF Staged, MoveStages, CursorStages, Moving
<1>4. Sound(q.org, q.census) /\ Movable(q.org, q.census) /\ Covers(q)
  BY <1>1, <1>2 DEF Running, MoveStages
<1>5. PICK e : e = MoveNext(q, m)
  OBVIOUS
<1>6. e.org = q.org /\ e.census = q.census /\ e.pc \in Plain /\ PassBecomes(p, e)
  BY <1>0, <1>2, <1>5, GoesOn, PlainNext DEF MoveProfile
<1>7. UNCHANGED <<fenced, deletion, orgs, member, inverse, identity>>
  BY DEF MoveProfile
<1>8. Running(e)'
  <2>1. Sound(e.org, e.census)' /\ Movable(e.org, e.census)'
    BY <1>4, <1>6, <1>7 DEF Sound, Movable, Ending, Moving, Known, Sub, BelongsAtMost,
                            Home, Acct, Live
  <2>2. Named(Ending(q.census) \union (q.todo \ {m})) \subseteq Due(e)
    BY <1>2, <1>5, DueNext
  <2>3. Due(q) \subseteq Due(e)
    BY <1>0, <1>1, <2>2 DEF Due
  <2>4. \A s \in Unslipped' : (Live(s) /\ Home(s) = e.org)' => Acct(s)' \in Due(e)
    BY <1>4, <1>6, <1>7, <2>3 DEF Covers, Live, Home, Acct
  <2> QED BY <1>6, <2>1, <2>4, PlainRunning
<1>9. RowInv'
  <2>1. CASE UNCHANGED profile
    BY <1>2, <1>7, <2>1, RowsStay DEF rows
  <2>2. CASE Open(m.home) /\ RehomeProfile(m.acct, m.home)
    <3>1. m.home \in Orgs \ fenced /\ m.home # NoOrg
      BY <1>2, <2>2, RowTypes, ConstantsAssumption DEF Open
    <3>2. m.acct \in inverse[m.home]
      BY <1>3, <1>4, <3>1 DEF Sound
    <3> QED BY <1>2, <1>3, <1>7, <2>2, <3>1, <3>2, RowsOfRehoming
  <2> QED BY <1>0, <2>1, <2>2 DEF MoveProfile, DestinationStands
<1>10. Steady
  BY <1>7 DEF Steady, Acct, Live, Home
<1> QED BY <1>6, <1>8, <1>9, <1>10 DEF Proceeds

LEMMA ReadingPointers ==
    ASSUME FullInv, Unslipped' \subseteq Unslipped,
           NEW p \in Passes, NEW m \in pass[p].todo, ReadPointers(p, m)
    PROVE  Proceeds(p)
<1>0. PICK q, seen : q = pass[p] /\ seen = profile[m.acct]
  OBVIOUS
<1>1. q.pc \in {"move", "pointers"}
  BY <1>0 DEF ReadPointers, In
<1>2. RowInv /\ q \in PassRecords /\ Running(q)
  BY <1>0, <1>1, PassFacts
<1>3. PICK e : e = [q EXCEPT !.pc = "floor", !.cur = m, !.seen = seen]
  OBVIOUS
<1>4. /\ e.pc = "floor" /\ e.cur = m /\ e.seen = seen
      /\ e.org = q.org /\ e.census = q.census /\ e.todo = q.todo
  BY <1>2, <1>3 DEF PassRecords
<1>5. Covers(e)
  BY <1>1, <1>2, <1>4 DEF Running, Covers, Due
<1>6. Running(e)
  BY <1>0, <1>1, <1>2, <1>4, <1>5 DEF Running, MoveStages
<1>7. PassBecomes(p, e) /\ UNCHANGED <<rows, fenced, deletion>>
  BY <1>0, <1>3 DEF ReadPointers
<1> QED BY <1>2, <1>6, <1>7, Quietly, Unrecorded

LEMMA MovingToFloor ==
    ASSUME FullInv, Unslipped' \subseteq Unslipped, NEW p \in Passes, MoveToFloor(p)
    PROVE  Proceeds(p)
<1>0. PICK q, m : q = pass[p] /\ m = q.cur
  OBVIOUS
<1>1. q.pc = "floor"
  BY <1>0 DEF MoveToFloor, In
<1>2. /\ TypeInv /\ RowInv /\ RowsGood
      /\ q \in PassRecords /\ Staged(q) /\ Running(q) /\ q.org \in Orgs /\ q.org \in fenced
      /\ q.census \subseteq Verdicts
      /\ \A n \in Verdicts : n.acct \in Accounts
      /\ \A s \in Subs : Acct(s) \in Accounts /\ Home(s) \in Orgs /\ Sub(Acct(s)) = s
      /\ Unslipped \subseteq Subs
  BY <1>0, <1>1, PassFacts
<1> DEFINE o == q.org
<1>3. m \in Moving(q.census) /\ m \in q.census /\ m.acct \in Accounts
  BY <1>0, <1>1, <1>2 DEF Staged, MoveStages, CursorStages, Moving
<1>4. /\ Sound(o, q.census) /\ Movable(o, q.census) /\ Covers(q)
      /\ Sub(m.acct) \in Unslipped => profile[m.acct] = q.seen
  BY <1>0, <1>1, <1>2 DEF Running, MoveStages
<1>5. PICK s : s = Sub(m.acct)
  OBVIOUS
<1>6. s \in Subs
  BY <1>3, <1>5, AccountParts
<1>7. PICK e : e = MoveNext(q, m)
  OBVIOUS
<1>8. /\ e.org = o /\ e.census = q.census /\ e.pc \in Plain /\ PassBecomes(p, e)
      /\ UNCHANGED <<fenced, deletion>>
  BY <1>0, <1>2, <1>7, GoesOn, PlainNext DEF MoveToFloor
<1>9. ASSUME NEW x \in Unslipped, x # s, Live(x), Home(x) = o
      PROVE  Acct(x) \in Due(e)
  <2>1. m.acct # Acct(x)
    BY <1>2, <1>5, <1>9
  <2>2. Acct(x) \in Named(Ending(q.census) \union (q.todo \ {m}))
    BY <1>1, <1>2, <1>4, <1>9, <2>1, DueElse DEF Covers, MoveStages
  <2> QED BY <1>2, <1>7, <2>2, DueNext
<1>10. CASE Floor(m.acct, o, ExpectedProfile(p))
  <2>1. PICK f \in Orgs : Found(f, m.acct) /\ Rehome(s, f) /\ RehomeProfile(m.acct, f)
    BY <1>5, <1>10 DEF Floor
  <2>2. f \in Orgs \ fenced /\ f # o /\ AddMember(f, m.acct, "own")
    BY <1>2, <2>1, RowTypes DEF Found
  <2>3. s \in Unslipped => Acct(s) = m.acct /\ Live(s)
    BY <1>3, <1>4, <1>5, <1>10 DEF Movable, Floor, Home
  <2>4. RowInv'
    <3>1. "own" \in Sources \ {"none"}
      BY DEF Sources
    <3>2. Known(m.acct)
      BY <1>3, <1>4 DEF Sound
    <3> QED BY <1>2, <1>3, <1>5, <1>8, <2>1, <2>2, <2>3, <3>1, <3>2, RowsOfAdding
  <2>5. /\ \A x \in Orgs, v \in Accounts :
              member'[x][v] = IF x = f /\ v = m.acct THEN "own" ELSE member[x][v]
        /\ \A x \in Orgs : \A v : v \in inverse'[x] <=> v \in inverse[x] \/ (x = f /\ v = m.acct)
    BY <1>2, <1>3, <2>2, Adds
  <2>6. \A x \in Subs : /\ Acct(x)' = Acct(x)
                        /\ Live(x)' = Live(x)
                        /\ Home(x)' = IF x = s THEN f ELSE Home(x)
    BY <1>2, <2>1, Rehomes
  <2>7. Sound(o, q.census)'
    <3>1. \A n \in q.census : Known(n.acct)' = Known(n.acct)
      BY <1>2, <2>6, AccountParts DEF Known, Acct, Sub
    <3>2. \A n \in q.census : n.home # NoOrg => n.home \in fenced' \/ n.acct \in inverse'[n.home]
      <4>1. \A n \in q.census : n.home \in Orgs \union {NoOrg}
        BY <1>2 DEF Verdicts
      <4> QED BY <1>4, <1>8, <2>5, <4>1 DEF Sound
    <3>3. ASSUME NEW n \in Ending(q.census), Sub(n.acct) \in Unslipped'
          PROVE  BelongsAtMost(n.acct, o)' /\ (member[o][n.acct])' # "invitation"
      <4>1. n \in q.census /\ n.acct \in Accounts /\ n.acct # m.acct
        BY <1>2, <1>3, <1>4 DEF Sound, Ending, Moving
      <4>2. BelongsAtMost(n.acct, o) /\ member[o][n.acct] # "invitation"
        BY <1>4, <3>3 DEF Sound
      <4> QED BY <1>2, <2>5, <4>1, <4>2 DEF BelongsAtMost
    <3> QED BY <1>4, <3>1, <3>2, <3>3 DEF Sound, Ending, Sub
  <2>8. Movable(o, q.census)'
    BY <1>2, <1>4, <2>2, <2>6, AccountParts DEF Movable, Moving, Sub
  <2>9. \A x \in Unslipped' : (Live(x) /\ Home(x) = o)' => Acct(x)' \in Due(e)
    BY <1>2, <1>9, <2>2, <2>6
  <2>10. Running(e)'
    BY <1>8, <2>7, <2>8, <2>9, PlainRunning
  <2>11. Steady
    BY <1>8, <2>3, <2>5, <2>6, RowTypes DEF Steady
  <2> QED BY <1>8, <2>4, <2>10, <2>11 DEF Proceeds
<1>11. CASE (s \in Unslipped => Home(s) # o) /\ UNCHANGED rows
  <2>1. Covers(e)
    BY <1>8, <1>9, <1>11 DEF Covers
  <2>2. Running(e)
    BY <1>4, <1>8, <2>1 DEF Running, Plain
  <2> QED BY <1>2, <1>8, <1>11, <2>2, Quietly, Unrecorded
<1>12. \/ Floor(m.acct, o, ExpectedProfile(p))
       \/ UNCHANGED rows /\ (Home(s) # o \/ profile[m.acct] # q.seen)
  BY <1>0, <1>5 DEF MoveToFloor, ExpectedProfile, Home
<1> QED BY <1>4, <1>5, <1>10, <1>11, <1>12

LEMMA CheckingIdentity ==
    ASSUME FullInv, Unslipped' \subseteq Unslipped, NEW p \in Passes,
           (\E m \in pass[p].todo : CheckIdentity(p, m)) \/ DeleteAuth0User(p)
    PROVE  Proceeds(p)
<1>0. PICK q : q = pass[p]
  OBVIOUS
<1>1. q.pc \in {"check", "auth0"} /\ UNCHANGED <<rows, fenced, deletion>>
  BY <1>0 DEF CheckIdentity, DeleteAuth0User, In
<1>2. RowInv /\ q \in PassRecords /\ Running(q)
  BY <1>0, <1>1, PassFacts
<1>3. Sound(q.org, q.census) /\ Covers(q)
  BY <1>1, <1>2 DEF Running
<1>4. ASSUME NEW m
      PROVE  Running(CheckNext(q, m))
  <2>1. PICK e : e = CheckNext(q, m)
    OBVIOUS
  <2>2. e.org = q.org /\ e.census = q.census /\ e.pc \in Plain \ MoveStages
    BY <1>2, <2>1, GoesOn, PlainNext
  <2>3. Due(q) \subseteq Due(e)
    BY <1>1, <1>2, <2>1, DueNext DEF Due
  <2>4. Running(e)
    BY <1>3, <2>2, <2>3 DEF Running, Plain, Covers
  <2> QED BY <2>1, <2>4
<1>5. ASSUME NEW m
      PROVE  Running([q EXCEPT !.pc = "auth0", !.cur = m])
  <2>1. PICK e : e = [q EXCEPT !.pc = "auth0", !.cur = m]
    OBVIOUS
  <2>2. e.org = q.org /\ e.census = q.census /\ e.pc = "auth0"
    BY <1>2, <2>1 DEF PassRecords
  <2>3. Running(e)
    BY <1>1, <1>3, <2>2 DEF Running, Covers, Due, MoveStages
  <2> QED BY <2>1, <2>3
<1>6. PICK e : PassBecomes(p, e) /\ Running(e)
  BY <1>0, <1>4, <1>5 DEF CheckIdentity, DeleteAuth0User
<1> QED BY <1>1, <1>2, <1>6, Quietly, Unrecorded

LEMMA ScrubbingIdentity ==
    ASSUME FullInv, Unslipped' \subseteq Unslipped,
           NEW p \in Passes, NEW m \in pass[p].todo, ScrubIdentity(p, m)
    PROVE  Proceeds(p)
<1>0. PICK q : q = pass[p]
  OBVIOUS
<1>1. q.pc = "scrub" /\ m \in q.todo
  BY <1>0 DEF ScrubIdentity, In
<1>2. /\ TypeInv /\ RowInv /\ RowsGood
      /\ q \in PassRecords /\ Staged(q) /\ Running(q) /\ q.org \in Orgs /\ q.org \in fenced
      /\ q.census \subseteq Verdicts
      /\ \A n \in Verdicts : n.acct \in Accounts
      /\ \A s \in Subs : Acct(s) \in Accounts /\ Home(s) \in Orgs /\ Sub(Acct(s)) = s
      /\ Unslipped \subseteq Subs
  BY <1>0, <1>1, PassFacts
<1> DEFINE o == q.org
<1>3. m \in Ending(q.census) /\ m.acct \in Accounts
  BY <1>1, <1>2 DEF Staged, EndStages, Ending
<1>4. Sound(o, q.census) /\ Covers(q)
  BY <1>1, <1>2 DEF Running
<1>5. PICK s : s = Sub(m.acct)
  OBVIOUS
<1>6. s \in Subs
  BY <1>3, <1>5, AccountParts
<1>7. PICK e : e = ScrubNext(q, m)
  OBVIOUS
<1>8. /\ e.org = o /\ e.census = q.census /\ e.pc \in Plain \ MoveStages /\ PassBecomes(p, e)
      /\ UNCHANGED <<fenced, deletion, orgs, member, inverse, profile>>
  BY <1>0, <1>2, <1>7, GoesOn, PlainNext DEF ScrubIdentity
<1>9. ASSUME NEW x \in Unslipped, Acct(x) # m.acct, Live(x), Home(x) = o
      PROVE  Acct(x) \in Due(e)
  <2>1. Acct(x) \in Named(q.todo \ {m})
    BY <1>1, <1>4, <1>9 DEF Covers, Due, Named
  <2> QED BY <1>2, <1>7, <2>1, DueNext
<1>10. CASE Acct(s) = m.acct /\ identity' = [identity EXCEPT ![s].deleted = TRUE]
  <2>1. s \in Unslipped => BelongsAtMost(Acct(s), o) /\ member[o][Acct(s)] # "invitation"
    BY <1>3, <1>4, <1>5, <1>10 DEF Sound
  <2>2. RowInv'
    BY <1>2, <1>6, <1>8, <1>10, <2>1, RowsOfStamping
  <2>3. \A x \in Subs : /\ Acct(x)' = Acct(x)
                        /\ Home(x)' = Home(x)
                        /\ Live(x)' = (Live(x) /\ x # s)
    BY <1>2, <1>10 DEF RowsGood, Acct, Home, Live
  <2>4. Sound(o, q.census)'
    <3>1. \A n \in q.census : Known(n.acct)' = Known(n.acct)
      BY <1>2, <2>3, AccountParts DEF Known, Acct, Sub
    <3> QED BY <1>4, <1>8, <3>1 DEF Sound, Ending, BelongsAtMost, Sub
  <2>5. \A x \in Unslipped' : (Live(x) /\ Home(x) = o)' => Acct(x)' \in Due(e)
    <3> SUFFICES ASSUME NEW x \in Unslipped, Live(x), x # s, Home(x) = o
                 PROVE  Acct(x) \in Due(e)
      BY <1>2, <2>3
    <3> QED BY <1>2, <1>5, <1>9
  <2>6. Running(e)'
    BY <1>8, <2>4, <2>5, PlainRunning
  <2>7. Steady
    BY <1>8, <2>3 DEF Steady
  <2> QED BY <1>8, <2>2, <2>6, <2>7 DEF Proceeds
<1>11. CASE Acct(s) # m.acct /\ UNCHANGED identity
  <2>1. Covers(e)
    BY <1>2, <1>5, <1>8, <1>9, <1>11 DEF Covers
  <2>2. Running(e)
    BY <1>4, <1>8, <2>1 DEF Running, Plain
  <2> QED BY <1>2, <1>8, <1>11, <2>2, Quietly, Unrecorded DEF rows
<1> QED BY <1>5, <1>10, <1>11 DEF ScrubIdentity, StampsIdentity, Acct

\* From the reading of the rows on nobody is at home in the organization.
LEMMA NobodyHome ==
    ASSUME NEW q, Running(q), q.pc \in {"read", "inverse", "rows", "done"}
    PROVE  /\ Sound(q.org, q.census)
           /\ \A s \in Unslipped : Live(s) => Home(s) # q.org
BY DEF Running, Covers, Due

LEMMA ReadingRows ==
    ASSUME FullInv, Unslipped' \subseteq Unslipped, NEW p \in Passes, ReadRows(p)
    PROVE  Proceeds(p)
<1>0. PICK q, read : q = pass[p] /\ read = DestroyedRows(p)
  OBVIOUS
<1>1. q.pc = "read" /\ UNCHANGED <<rows, fenced, deletion>>
  BY <1>0 DEF ReadRows, In
<1>2. RowInv /\ q \in PassRecords /\ Running(q)
  BY <1>0, <1>1, PassFacts
<1>3. PICK left : left = read \union {m.acct : m \in q.census}
  OBVIOUS
<1>4. PICK q1 : q1 = [q EXCEPT !.pc = "inverse", !.rows = read, !.left = left]
  OBVIOUS
<1>5. /\ q1.pc = "inverse" /\ q1.org = q.org /\ q1.census = q.census
      /\ EnterRows(q1).pc \in {"rows", "done"}
      /\ EnterRows(q1).org = q.org /\ EnterRows(q1).census = q.census
  BY <1>2, <1>4 DEF PassRecords, EnterRows
<1>6. PICK e : /\ PassBecomes(p, e) /\ e.org = q.org /\ e.census = q.census
               /\ e.pc \in {"inverse", "rows", "done"}
  BY <1>0, <1>3, <1>4, <1>5 DEF ReadRows
<1>7. Running(e)
  BY <1>1, <1>2, <1>6, NobodyHome DEF Running, Covers, MoveStages
<1> QED BY <1>1, <1>2, <1>6, <1>7, Quietly, Unrecorded

LEMMA DestroyingOne ==
    ASSUME FullInv, Unslipped' \subseteq Unslipped,
           NEW p \in Passes, NEW u \in Accounts, DestroyInverse(p, u) \/ DestroyRow(p, u)
    PROVE  Proceeds(p)
<1>0. PICK q : q = pass[p]
  OBVIOUS
<1>1. q.pc \in {"inverse", "rows"} /\ UNCHANGED <<fenced, deletion, orgs, identity, profile>>
  BY <1>0 DEF DestroyInverse, DestroyRow, In
<1>2. /\ TypeInv /\ RowInv /\ RowsGood
      /\ q \in PassRecords /\ Running(q) /\ q.org \in Orgs /\ q.org \in fenced
      /\ q.census \subseteq Verdicts
      /\ \A m \in Verdicts : m.acct \in Accounts /\ m.home \in Orgs \union {NoOrg}
      /\ Unslipped \subseteq Subs
  BY <1>0, <1>1, PassFacts
<1> DEFINE o == q.org
<1>3. Sound(o, q.census) /\ \A s \in Unslipped : Live(s) => Home(s) # o
  BY <1>1, <1>2, NobodyHome
<1>4. PICK q1 : q1 = [q EXCEPT !.left = q.left \ {u}]
  OBVIOUS
<1>5. PICK e : /\ PassBecomes(p, e) /\ e.org = o /\ e.census = q.census
               /\ e.pc \in {"inverse", "rows", "done"}
  <2>1. q1.pc = q.pc /\ q1.org = o /\ q1.census = q.census
    BY <1>2, <1>4 DEF PassRecords
  <2>2. /\ EnterRows(q1).pc \in {"rows", "done"}
        /\ EnterRows(q1).org = o /\ EnterRows(q1).census = q.census
    BY <1>2, <1>4 DEF PassRecords, EnterRows
  <2>3. LET e == [q1 EXCEPT !.pc = "done"] IN
           e.pc = "done" /\ e.org = o /\ e.census = q.census
    BY <1>2, <1>4 DEF PassRecords
  <2>4. \/ PassBecomes(p, EnterRows(q1))
        \/ PassBecomes(p, q1)
        \/ PassBecomes(p, [q1 EXCEPT !.pc = "done"])
    BY <1>0, <1>4 DEF DestroyInverse, DestroyRow
  <2> QED BY <1>1, <2>1, <2>2, <2>3, <2>4
<1>6. /\ \A x \in Orgs : inverse'[x] \subseteq inverse[x] /\ (x # o => inverse'[x] = inverse[x])
      /\ \A x \in Orgs, v \in Accounts : member'[x][v] \in {member[x][v], "none"}
      /\ RowInv'
  <2>1. CASE DestroyInverse(p, u)
    <3>1. inverse' = [inverse EXCEPT ![o] = inverse[o] \ {u}] /\ member' = member
      BY <1>0, <2>1 DEF DestroyInverse
    <3>2. RowInv'
      BY <1>1, <1>2, <1>3, <3>1, RowsOfInverse
    <3> QED BY <1>2, <3>1, <3>2 DEF RowsGood
  <2>2. CASE DestroyRow(p, u)
    <3>1. member' = [member EXCEPT ![o][u] = "none"] /\ inverse' = inverse
      BY <1>0, <2>2 DEF DestroyRow
    <3>2. RowInv'
      BY <1>1, <1>2, <3>1, RowsOfRow
    <3>3. \A x \in Orgs, v \in Accounts : member'[x][v] \in {member[x][v], "none"}
      BY <1>2, <3>1, RowChanged DEF RowsGood, Changed
    <3> QED BY <3>1, <3>2, <3>3
  <2> QED BY <2>1, <2>2
<1>7. \A s \in Subs : Acct(s)' = Acct(s) /\ Home(s)' = Home(s) /\ Live(s)' = Live(s)
  BY <1>1 DEF Acct, Home, Live
<1>8. Sound(o, q.census)'
  <2>1. \A n \in q.census : n.acct \in Accounts /\ n.home \in Orgs \union {NoOrg}
    BY <1>2
  <2>2. \A n \in q.census : Known(n.acct)' = Known(n.acct)
    BY <1>1 DEF Known, Sub
  <2>3. \A n \in q.census : n.home # NoOrg => n.home \in fenced' \/ n.acct \in inverse'[n.home]
    BY <1>1, <1>2, <1>3, <1>6, <2>1 DEF Sound
  <2>4. \A n \in Ending(q.census) : Sub(n.acct) \in Unslipped' =>
           BelongsAtMost(n.acct, o)' /\ (member[o][n.acct])' # "invitation"
    BY <1>2, <1>3, <1>6, <2>1 DEF Sound, BelongsAtMost, Ending
  <2> QED BY <1>3, <2>2, <2>3, <2>4 DEF Sound, Ending, Sub
<1>9. Running(e)'
  BY <1>2, <1>3, <1>5, <1>7, <1>8, PlainRunning DEF Plain, MoveStages
<1>10. Steady
  BY <1>1, <1>2, <1>6, <1>7 DEF Steady
<1> QED BY <1>5, <1>6, <1>9, <1>10 DEF Proceeds

LEMMA RunningPass ==
    ASSUME FullInv, Unslipped' \subseteq Unslipped, NEW p \in Passes,
           PassStep(p) \/ PassFails(p) \/ \E o \in Orgs : StartPass(p, o)
    PROVE  Proceeds(p)
BY StartingPass, EndingPass, TakingCensus, DecidingMember, MovingIdentity, MovingProfile,
   ReadingPointers, MovingToFloor, CheckingIdentity, ScrubbingIdentity, ReadingRows,
   DestroyingOne DEF PassStep

-----------------------------------------------------------------------------
(* Every step, and what follows.                                           *)

LEMMA QuietOthers ==
    ASSUME FullInv, Unslipped' \subseteq Unslipped,
           \/ UNCHANGED vars
           \/ \E o \in Orgs, t \in {"user", "other"} : CommitDeletion(o, t)
           \/ \E s \in Subs : ReturnToAuth0(s)
    PROVE  RowInv' /\ Steady /\ Aside /\ UNCHANGED <<pass, req>>
<1>1. UNCHANGED <<rows, pass, req>> /\ fenced \subseteq fenced'
  BY DEF vars, rows, CommitDeletion, ReturnToAuth0
<1>2. \A o \in Orgs : deletion[o].status = "done" => deletion'[o].status = "done"
  <2>1. CASE UNCHANGED deletion
    BY <2>1
  <2>2. ASSUME NEW x \in Orgs, NEW t \in {"user", "other"}, CommitDeletion(x, t)
        PROVE  \A o \in Orgs : deletion[o].status = "done" => deletion'[o].status = "done"
    <3>1. /\ deletion[x].status = "none"
          /\ deletion' = [deletion EXCEPT ![x] =
                            [status |-> "pending", trigger |-> t, attempts |-> 0]]
      BY <2>2 DEF CommitDeletion, Deletable
    <3> QED BY <3>1
  <2> QED BY <2>1, <2>2 DEF ReturnToAuth0, vars
<1> QED BY <1>1, <1>2, RowsStay, QuietAside, AsideSteady DEF FullInv

LEMMA RunningStays ==
    ASSUME FullInv, Aside, UNCHANGED pass
    PROVE  AllRunning'
<1> SUFFICES ASSUME NEW p \in Passes
             PROVE  Running(pass[p])'
  BY DEF AllRunning
<1>1. PICK q : q = pass[p]
  OBVIOUS
<1>2. Running(q)'
  <2>1. TypeInv /\ RowInv /\ GoodPass(q) /\ Staged(q) /\ Running(q)
    BY <1>1 DEF FullInv, IInv, TypeInv, PassesGood, AllStaged, AllRunning
  <2>2. q.pc # "idle" => q.org \in fenced
    BY <1>1, PassFacts
  <2> QED BY <2>1, <2>2, RunningAside
<1>3. pass'[p] = q
  BY <1>1
<1> QED BY <1>2, <1>3 DEF Running, Sound, Movable, Listing, Covers, Due, Named, Ending, Moving,
                          Known, Sub, BelongsAtMost, Home, Acct, Live

LEMMA AskedStay ==
    ASSUME FullInv, Steady, NEW r \in Reqs, req'[r] = req[r]
    PROVE  Asked(req[r])'
<1>1. PICK q : q = req[r]
  OBVIOUS
<1>2. TypeInv /\ GoodReq(q) /\ Asked(q)
  BY <1>1 DEF FullInv, IInv, TypeInv, ReqsGood, AllAsked
<1>3. Asked(q)' /\ req'[r] = q
  BY <1>1, <1>2, AskedStays
<1> QED BY <1>3 DEF Asked, Known, Sub, Replaced, Live, Home

LEMMA FullStep ==
    ASSUME FullInv, OneAtATime, OnlyAccepts, [Next]_vars
    PROVE  FullInv'
<1>1. IInv' /\ AllStaged' /\ Unslipped' \subseteq Unslipped
  BY InvariantStep, StagedStep, SlippedStep DEF FullInv, IInv
<1>2. pass \in [Passes -> PassRecords] /\ req \in [Reqs -> ReqRecords]
  BY DEF FullInv, IInv, TypeInv, PassesGood, ReqsGood
<1>3. CASE \/ UNCHANGED vars
           \/ \E o \in Orgs, t \in {"user", "other"} : CommitDeletion(o, t)
           \/ \E s \in Subs : ReturnToAuth0(s)
  <2>1. RowInv' /\ Steady /\ Aside /\ UNCHANGED <<pass, req>>
    BY <1>1, <1>3, QuietOthers
  <2>2. AllAsked'
    BY <2>1, AskedStay DEF AllAsked
  <2>3. AllRunning'
    BY <2>1, RunningStays
  <2> QED BY <1>1, <2>1, <2>2, <2>3 DEF FullInv
<1>4. ASSUME NEW p \in Passes,
             PassStep(p) \/ PassFails(p) \/ \E o \in Orgs : StartPass(p, o)
      PROVE  FullInv'
  <2>1. RowInv' /\ Steady /\ \E e : PassBecomes(p, e) /\ Running(e)'
    BY <1>1, <1>4, RunningPass DEF Proceeds
  <2>2. UNCHANGED req
    BY <1>4 DEF PassStep, PassFails, StartPass, ListMembers, CensusMember, MoveIdentity,
                MoveProfile, ReadPointers, MoveToFloor, CheckIdentity, DeleteAuth0User,
                ScrubIdentity, ReadRows, DestroyInverse, DestroyRow, MarkDone
  <2>3. AllAsked'
    BY <2>1, <2>2, AskedStay DEF AllAsked
  <2>4. PICK e : PassBecomes(p, e) /\ Running(e)'
    BY <2>1
  <2>5. \A x \in Passes : pass'[x] = e
    BY <1>2, <2>4 DEF PassBecomes, OneAtATime
  <2>6. AllRunning'
    <3> SUFFICES ASSUME NEW x \in Passes
                 PROVE  Running(pass[x])'
      BY DEF AllRunning
    <3>1. pass'[x] = e
      BY <2>5
    <3> QED BY <2>4, <3>1 DEF Running, Sound, Movable, Listing, Covers, Due, Named, Ending,
                              Moving, Known, Sub, BelongsAtMost, Home, Acct, Live
  <2> QED BY <1>1, <2>1, <2>3, <2>6 DEF FullInv
<1>5. ASSUME NEW r \in Reqs, ReqStep(r)
      PROVE  FullInv'
  <2>1. RowInv' /\ Aside /\ \E q : ReqBecomes(r, q) /\ Asked(q)'
    BY <1>1, <1>5, RunningRequest
  <2>2. UNCHANGED <<pass, deletion>>
    BY <1>5 DEF ReqStep, SignIn, SignInAgain, JoinAnew, ReadAccepter, Accept, CreateOrg, Remove,
                Plan, ReadHome, CommitMove, Drop
  <2>3. Steady
    BY <2>1, <2>2, AsideSteady
  <2>4. PICK q : ReqBecomes(r, q) /\ Asked(q)'
    BY <2>1
  <2>5. AllAsked'
    <3> SUFFICES ASSUME NEW x \in Reqs
                 PROVE  Asked(req[x])'
      BY DEF AllAsked
    <3>1. CASE x = r
      <4>1. req'[x] = q
        BY <1>2, <2>4, <3>1 DEF ReqBecomes
      <4> QED BY <2>4, <4>1 DEF Asked, Known, Sub, Replaced, Live, Home
    <3>2. CASE x # r
      <4>1. req'[x] = req[x]
        BY <1>2, <2>4, <3>2 DEF ReqBecomes
      <4> QED BY <2>3, <4>1, AskedStay
    <3> QED BY <3>1, <3>2
  <2>6. AllRunning'
    BY <2>1, <2>2, RunningStays
  <2> QED BY <1>1, <2>1, <2>5, <2>6 DEF FullInv
<1> QED BY <1>3, <1>4, <1>5 DEF Next

LEMMA FullInit ==
    ASSUME Init
    PROVE  FullInv
<1>1. IInv /\ AllStaged
  <2>1. AllStaged
    BY DEF Init, AllStaged, Staged, IdlePass, MoveStages, EndStages, CursorStages
  <2> QED BY <2>1, InvariantInit
<1>2. AllAsked /\ AllRunning
  BY DEF Init, AllAsked, Asked, AllRunning, Running, IdleReq, IdlePass
<1>3. RowInv
  <2>1. PICK joined \in [Founded -> [Subs -> Sources]], home \in [Subs -> Founded] :
          /\ \A s \in Subs : joined[home[s]][s] # "none"
          /\ member = [o \in Orgs |-> [u \in Accounts |->
                IF o \in Founded /\ u[2] = 1 THEN joined[o][u[1]] ELSE "none"]]
          /\ inverse = [o \in Orgs |-> {u \in Accounts :
                o \in Founded /\ u[2] = 1 /\ joined[o][u[1]] # "none"}]
          /\ identity = [s \in Subs |->
                [acct |-> <<s, 1>>, home |-> home[s], deleted |-> FALSE]]
          /\ profile = [u \in Accounts |-> IF u[2] = 1 THEN home[u[1]] ELSE NoOrg]
    BY DEF Init
  <2>2. Founded \subseteq Orgs /\ NoOrg \notin Orgs
    BY ConstantsAssumption
  <2>3. \A u \in Accounts : Sub(u) \in Subs /\ u[1] = Sub(u) /\ u[2] \in Int /\ u[2] >= 1
                            /\ u = <<Sub(u), u[2]>>
    BY AccountParts DEF Sub
  <2>4. \A s \in Subs : /\ Acct(s) = <<s, 1>> /\ Home(s) = home[s] /\ Live(s)
                        /\ Acct(s) \in Accounts /\ Acct(s)[2] = 1 /\ Sub(Acct(s)) = s
                        /\ Home(s) \in Founded
    BY <2>1, ConstantsAssumption DEF Acct, Home, Live, Accounts, Sub
  <2>5. /\ \A o \in Orgs, u \in Accounts :
              member[o][u] = IF o \in Founded /\ u[2] = 1 THEN joined[o][Sub(u)] ELSE "none"
        /\ \A o \in Orgs, u \in Accounts :
              u \in inverse[o] <=> o \in Founded /\ u[2] = 1 /\ joined[o][Sub(u)] # "none"
        /\ \A u \in Accounts : profile[u] = IF u[2] = 1 THEN home[Sub(u)] ELSE NoOrg
    BY <2>1, <2>3
  <2>6. \A u \in Accounts : /\ Known(u) <=> u[2] = 1
                            /\ Replaced(u) <=> u[2] # 1
    <3> SUFFICES ASSUME NEW u \in Accounts
                 PROVE  (Known(u) <=> u[2] = 1) /\ (Replaced(u) <=> u[2] # 1)
      OBVIOUS
    <3>1. identity[Sub(u)].acct = <<Sub(u), 1>>
      BY <2>3, <2>4 DEF Acct
    <3>2. Known(u) <=> u[2] = 1
      BY <2>3, <3>1 DEF Known
    <3>3. Replaced(u) <=> u # <<Sub(u), 1>>
      BY <3>1 DEF Replaced
    <3>4. u = <<Sub(u), u[2]>>
      BY <2>3
    <3> QED BY <3>2, <3>3, <3>4
  <2>13. Unslipped \subseteq Subs
    BY DEF Unslipped
  <2>7. Synced
    BY <2>5 DEF Synced
  <2>8. Homed
    BY <2>1, <2>2, <2>4, <2>5, <2>13 DEF Homed
  <2>9. Ended
    BY <2>4, <2>13 DEF Ended
  <2>10. Current
    <3> SUFFICES ASSUME NEW u \in Accounts, Replaced(u)
                 PROVE  BelongsNowhere(u) /\ member[Home(Sub(u))][u] = "none"
      BY DEF Current
    <3>1. u[2] # 1 /\ Home(Sub(u)) \in Orgs
      BY <2>2, <2>3, <2>4, <2>6
    <3> QED BY <2>5, <3>1 DEF BelongsNowhere
  <2>11. Numbered
    BY <2>4, <2>5, <2>6 DEF Numbered
  <2>12. Profiled
    BY <2>1, <2>2, <2>3, <2>4, <2>5, <2>6 DEF Profiled
  <2> QED BY <2>7, <2>8, <2>9, <2>10, <2>11, <2>12 DEF RowInv
<1> QED BY <1>1, <1>2, <1>3 DEF FullInv

\* The strengthening that carries the three theorems below.
THEOREM FullInvariant ==
    ASSUME OneAtATime, OnlyAccepts
    PROVE  Spec => []FullInv
<1>1. Init => FullInv
  BY FullInit
<1>2. FullInv /\ [Next]_vars => FullInv'
  BY FullStep
<1> QED BY <1>1, <1>2, PTL DEF Spec

\* moveSurvivingMembers: nobody whose account goes on is left with a home whose
\* deletion is done, however often passes died and were run again, as long as no two
\* run at once and people only sign in, accept invitations and come back.  Whoever
\* joined past the fence of their home (accepterOrgFence, its read failed) is excepted.
THEOREM SurvivorsMove ==
    ASSUME OneAtATime, OnlyAccepts
    PROVE  Spec => []SurvivorsHaveMoved
<1>1. FullInv => SurvivorsHaveMoved
  BY SurvivorsMoved DEF FullInv
<1> QED BY <1>1, FullInvariant, PTL

\* deleteIdentity: under the same conditions, and with the same exception, an account
\* that has ended is a member of no organization that stays.
THEOREM EndedBelongNowhere ==
    ASSUME OneAtATime, OnlyAccepts
    PROVE  Spec => []EndedAccountsBelongNowhere
<1>1. FullInv => EndedAccountsBelongNowhere
  <2> SUFFICES ASSUME FullInv, NEW s \in Unslipped, ~Live(s), NEW o \in orgs \ fenced
               PROVE  member[o][Acct(s)] = "none"
    BY DEF EndedAccountsBelongNowhere, Live, Acct
  <2>1. TypeInv /\ RowInv
    BY DEF FullInv, IInv
  <2>2. o \in Orgs \ fenced /\ s \in Subs /\ Acct(s) \in Accounts
    BY <2>1, RowTypes
  <2>3. Acct(s) \notin inverse[o]
    BY <2>1, <2>2 DEF RowInv, Ended, BelongsAtMost
  <2> QED BY <2>1, <2>2, <2>3 DEF RowInv, Synced
<1> QED BY <1>1, FullInvariant, PTL

LEMMA DeletedByPass ==
    ASSUME TypeInv, [Next]_vars, NEW s \in auth0, s \notin auth0'
    PROVE  \E p \in Passes : DeleteAuth0User(p) /\ Sub(pass[p].cur.acct) = s
<1>1. ASSUME NEW p \in Passes, DeleteAuth0User(p)
      PROVE  Sub(pass[p].cur.acct) = s
  BY <1>1 DEF DeleteAuth0User
<1>2. ASSUME NEW p \in Passes, PassStep(p), ~DeleteAuth0User(p)
      PROVE  UNCHANGED auth0
  BY <1>2 DEF PassStep, ListMembers, CensusMember, MoveIdentity, MoveProfile, ReadPointers,
              MoveToFloor, CheckIdentity, ScrubIdentity, ReadRows, DestroyInverse, DestroyRow,
              MarkDone
<1>3. ASSUME NEW r \in Reqs, ReqStep(r)
      PROVE  UNCHANGED auth0
  BY <1>3 DEF ReqStep, SignIn, SignInAgain, JoinAnew, ReadAccepter, Accept, CreateOrg, Remove,
              Plan, ReadHome, CommitMove, Drop
<1>4. PICK p \in Passes : DeleteAuth0User(p)
  BY <1>2, <1>3 DEF Next, CommitDeletion, StartPass, PassFails, ReturnToAuth0, vars
<1> QED BY <1>1, <1>4

\* The stages that act on the census.
Surveyed == {"census"} \union MoveStages \union EndStages

\* Whom a pass took for a member is listed in its organization until it reads the
\* rows to destroy them.
StillListed(q) ==
    /\ q.pc = "census" => q.left \subseteq ListedMembers(q.org)
    /\ q.pc \in Surveyed => Named(q.census) \subseteq ListedMembers(q.org)

AllStillListed == \A p \in Passes : StillListed(pass[p])

\* Nobody is struck from the list of a fenced organization but by DestroyRow.
LEMMA ListStands ==
    ASSUME FullInv, OnlyAccepts, [Next]_vars, NEW o \in fenced,
           \A p \in Passes, u \in Accounts : ~DestroyRow(p, u)
    PROVE  ListedMembers(o) \subseteq ListedMembers(o)'
<1>1. /\ TypeInv /\ RowsGood /\ RecordsGood /\ o \in Orgs
      /\ \A r \in Reqs : Asked(req[r])
  BY DEF FullInv, IInv, TypeInv, RecordsGood, RowsGood, AllAsked
<1>2. ASSUME NEW r \in Reqs, CommitMove(r)
      PROVE  \A v \in Accounts : member'[o][v] = member[o][v]
  <2>1. [member EXCEPT ![req[r].org][req[r].acct] =
           IF req[r].leaves THEN "none" ELSE member[req[r].org][req[r].acct]] = member
    BY <1>1 DEF Asked, RowsGood
  <2>2. CASE member' = member
    BY <2>2
  <2>3. ASSUME NEW f \in Orgs \ orgs, member' = [member EXCEPT ![f][req[r].acct] = "own"]
        PROVE  \A v \in Accounts : member'[o][v] = member[o][v]
    <3>1. o # f
      BY <1>1 DEF RecordsGood
    <3>2. PICK u : u = req[r].acct
      OBVIOUS
    <3> QED BY <1>1, <2>3, <3>1, <3>2 DEF RowsGood
  <2>4. member' = member \/ \E f \in Orgs \ orgs : member' = [member EXCEPT ![f][req[r].acct] = "own"]
    BY <1>2, <2>1 DEF CommitMove
  <2> QED BY <2>2, <2>3, <2>4
<1>3. ASSUME NEW x \in Orgs \ fenced, NEW u \in Accounts,
             NEW source \in {"own", "invitation"}, AddMember(x, u, source)
      PROVE  \A v \in Accounts : member'[o][v] = member[o][v]
  BY <1>1, <1>3, Adds
<1>4. ASSUME NEW p \in Passes, NEW u \in Accounts, DestroyInverse(p, u)
      PROVE  UNCHANGED member
  BY <1>4 DEF DestroyInverse
<1>5. \A v \in Accounts : member'[o][v] = member[o][v]
  BY <1>1, <1>2, <1>3, <1>4, RowSteps
<1> QED BY <1>5 DEF ListedMembers, Members

LEMMA SurveyNext ==
    ASSUME NEW q \in PassRecords, NEW m,
           Named(q.census) \subseteq ListedMembers(q.org)
    PROVE  /\ StillListed(EnterMove(q))
           /\ StillListed(MoveNext(q, m))
           /\ StillListed(CheckNext(q, m))
           /\ StillListed(ScrubNext(q, m))
<1>1. ASSUME NEW e, e.org = q.org, e.census = q.census, e.pc # "census"
      PROVE  StillListed(e)
  BY <1>1 DEF StillListed
<1> QED BY <1>1, EntersNext, GoesOn

LEMMA DestroyedBy ==
    ASSUME FullInv, NEW p \in Passes,
           ReadRows(p) \/ \E u \in Accounts : DestroyInverse(p, u) \/ DestroyRow(p, u)
    PROVE  \E q : PassBecomes(p, q) /\ q.pc \in {"inverse", "rows", "done"}
<1>1. pass[p] \in PassRecords
  BY DEF FullInv, IInv, TypeInv, PassesGood
<1>2. CASE ReadRows(p)
  <2> DEFINE read == DestroyedRows(p)
             left == read \union {m.acct : m \in pass[p].census}
             q == [pass[p] EXCEPT !.pc = "inverse", !.rows = read, !.left = left]
  <2>1. PassBecomes(p, IF q.left = {} THEN EnterRows(q) ELSE q)
    BY <1>2 DEF ReadRows
  <2>2. q.pc = "inverse" /\ EnterRows(q).pc \in {"rows", "done"}
    <3> HIDE DEF read, left
    <3> QED BY <1>1 DEF PassRecords, EnterRows
  <2> HIDE DEF q
  <2> QED BY <2>1, <2>2
<1>3. ASSUME NEW u \in Accounts, DestroyInverse(p, u) \/ DestroyRow(p, u)
      PROVE  \E q : PassBecomes(p, q) /\ q.pc \in {"inverse", "rows", "done"}
  <2> DEFINE q == [pass[p] EXCEPT !.left = pass[p].left \ {u}]
  <2>1. \/ PassBecomes(p, IF q.left = {} THEN EnterRows(q) ELSE q)
        \/ PassBecomes(p, IF q.left = {} THEN [q EXCEPT !.pc = "done"] ELSE q)
    BY <1>3 DEF DestroyInverse, DestroyRow
  <2>2. /\ q.pc \in {"inverse", "rows"}
        /\ EnterRows(q).pc \in {"rows", "done"}
        /\ [q EXCEPT !.pc = "done"].pc = "done"
    BY <1>1, <1>3 DEF PassRecords, EnterRows, DestroyInverse, DestroyRow, In
  <2> HIDE DEF q
  <2> QED BY <2>1, <2>2
<1> QED BY <1>2, <1>3

LEMMA SurveyStep ==
    ASSUME FullInv, AllStillListed, NEW p \in Passes, PassStep(p)
    PROVE  \E q : PassBecomes(p, q) /\ StillListed(q)
<1> DEFINE Stays == \E q : PassBecomes(p, q) /\ StillListed(q)
<1> USE DEF Surveyed, MoveStages, EndStages
<1>1. /\ pass[p] \in PassRecords /\ StillListed(pass[p])
      /\ pass[p].pc = "list" => pass[p].census = {}
  BY DEF FullInv, IInv, TypeInv, PassesGood, AllStillListed, AllRunning, Running
<1>2. CASE ListMembers(p)
  <2> DEFINE o == pass[p].org
             invited == {u \in ListedMembers(o) : member[o][u] = "invitation"}
             q == [pass[p] EXCEPT !.pc = "census", !.left = ListedMembers(o), !.invited = invited]
  <2>1. /\ PassBecomes(p, IF ListedMembers(o) = {} THEN EnterMove(pass[p]) ELSE q)
        /\ pass[p].census = {}
    BY <1>1, <1>2 DEF ListMembers, In
  <2>2. StillListed(q)
    <3> HIDE DEF invited
    <3> QED BY <1>1, <2>1 DEF StillListed, PassRecords, Named
  <2>3. StillListed(EnterMove(pass[p]))
    BY <1>1, <2>1, SurveyNext DEF Named
  <2> HIDE DEF q
  <2> QED BY <2>1, <2>2, <2>3
<1>3. ASSUME NEW u \in Accounts, CensusMember(p, u)
      PROVE  Stays
  <2>1. PICK m \in Verdicts :
          LET q == [pass[p] EXCEPT !.census = pass[p].census \union {m},
                                   !.left = pass[p].left \ {u}]
          IN m.acct = u /\ PassBecomes(p, IF q.left = {} THEN EnterMove(q) ELSE q)
    BY <1>3 DEF CensusMember, Decides
  <2> DEFINE q == [pass[p] EXCEPT !.census = pass[p].census \union {m},
                                  !.left = pass[p].left \ {u}]
  <2>2. /\ PassBecomes(p, IF q.left = {} THEN EnterMove(q) ELSE q)
        /\ pass[p].pc = "census"
        /\ u \in pass[p].left
    BY <1>3, <2>1 DEF CensusMember, In
  <2>3. q \in PassRecords
    BY <1>1 DEF PassRecords
  <2>4. q.left \subseteq ListedMembers(q.org) /\ Named(q.census) \subseteq ListedMembers(q.org)
    BY <1>1, <2>1, <2>2 DEF PassRecords, StillListed, Named
  <2> HIDE DEF q
  <2>5. StillListed(q) /\ StillListed(EnterMove(q))
    BY <2>3, <2>4, SurveyNext DEF StillListed
  <2> QED BY <2>2, <2>5
<1>4. pass[p].pc \in Surveyed => Named(pass[p].census) \subseteq ListedMembers(pass[p].org)
  BY <1>1 DEF StillListed
<1>5. ASSUME NEW m \in pass[p].todo, MoveIdentity(p, m)
      PROVE  Stays
  <2>1. /\ StillListed([pass[p] EXCEPT !.pc = "profile", !.cur = m])
        /\ StillListed([pass[p] EXCEPT !.pc = "pointers", !.cur = m])
    BY <1>1, <1>4, <1>5 DEF MoveIdentity, In, PassRecords, StillListed
  <2> QED BY <1>5, <2>1 DEF MoveIdentity
<1>6. CASE MoveProfile(p)
  BY <1>1, <1>4, <1>6, SurveyNext DEF MoveProfile, In
<1>7. ASSUME NEW m \in pass[p].todo, ReadPointers(p, m)
      PROVE  Stays
  <2> DEFINE q == [pass[p] EXCEPT !.pc = "floor", !.cur = m, !.seen = profile[m.acct]]
  <2>1. StillListed(q) /\ PassBecomes(p, q)
    BY <1>1, <1>4, <1>7 DEF ReadPointers, In, PassRecords, StillListed
  <2> HIDE DEF q
  <2> QED BY <2>1
<1>8. CASE MoveToFloor(p)
  BY <1>1, <1>4, <1>8, SurveyNext DEF MoveToFloor, In
<1>9. ASSUME NEW m \in pass[p].todo, CheckIdentity(p, m)
      PROVE  Stays
  <2>1. StillListed([pass[p] EXCEPT !.pc = "auth0", !.cur = m])
    BY <1>1, <1>4, <1>9 DEF CheckIdentity, In, PassRecords, StillListed
  <2>2. StillListed(CheckNext(pass[p], m))
    BY <1>1, <1>4, <1>9, SurveyNext DEF CheckIdentity, In
  <2> QED BY <1>9, <2>1, <2>2 DEF CheckIdentity
<1>10. CASE DeleteAuth0User(p)
  BY <1>1, <1>4, <1>10, SurveyNext DEF DeleteAuth0User, In
<1>11. ASSUME NEW m \in pass[p].todo, ScrubIdentity(p, m)
       PROVE  Stays
  BY <1>1, <1>4, <1>11, SurveyNext DEF ScrubIdentity, In
<1>12. ASSUME ReadRows(p) \/ \E u \in Accounts : DestroyInverse(p, u) \/ DestroyRow(p, u)
       PROVE  Stays
  <2>1. PICK q : PassBecomes(p, q) /\ q.pc \in {"inverse", "rows", "done"}
    BY <1>12, DestroyedBy
  <2> QED BY <2>1 DEF StillListed
<1>13. CASE MarkDone(p)
  BY <1>13 DEF MarkDone, StillListed, IdlePass
<1> HIDE DEF Stays
<1>14. Stays
  <2>1. /\ ListMembers(p) => Stays
        /\ MoveProfile(p) => Stays
        /\ MoveToFloor(p) => Stays
        /\ DeleteAuth0User(p) => Stays
        /\ MarkDone(p) => Stays
    BY <1>2, <1>6, <1>8, <1>10, <1>13 DEF Stays
  <2> QED BY <1>3, <1>5, <1>7, <1>9, <1>11, <1>12, <2>1 DEF PassStep
<1> QED BY <1>14 DEF Stays

\* What a pass has after any step that destroys no row.
LEMMA SurveyedNext ==
    ASSUME FullInv, OneAtATime, AllStillListed, [Next]_vars, NEW x \in Passes
    PROVE  /\ StillListed(pass'[x])
           /\ pass'[x].pc \in Surveyed => pass'[x].org \in fenced
<1> USE DEF Surveyed, MoveStages, EndStages
<1>1. /\ pass \in [Passes -> PassRecords]
      /\ StillListed(pass[x])
      /\ pass[x].pc # "idle" => pass[x].org \in fenced
      /\ IInv /\ TypeInv
  BY DEF FullInv, IInv, TypeInv, Begun, PassesGood, PassesBegun, AllStillListed
<1>2. CASE UNCHANGED pass
  BY <1>1, <1>2
<1>3. ASSUME NEW p \in Passes, PassStep(p)
      PROVE  StillListed(pass'[x])
  <2>1. PICK q : PassBecomes(p, q) /\ StillListed(q)
    BY <1>3, SurveyStep
  <2>2. pass'[x] = q
    BY <1>1, <2>1 DEF PassBecomes, OneAtATime
  <2> QED BY <2>1, <2>2
<1>4. ASSUME NEW p \in Passes, PassFails(p) \/ \E o \in Orgs : StartPass(p, o)
      PROVE  StillListed(pass'[x])
  <2>1. PICK q : PassBecomes(p, q) /\ q.pc \in {"idle", "list"}
    <3>1. /\ IdlePass.pc = "idle"
          /\ \A o : [IdlePass EXCEPT !.pc = "list", !.org = o].pc = "list"
      BY DEF IdlePass
    <3> QED BY <1>4, <3>1 DEF PassFails, StartPass
  <2>2. pass'[x] = q
    BY <1>1, <2>1 DEF PassBecomes, OneAtATime
  <2> QED BY <2>1, <2>2 DEF StillListed
<1>5. ASSUME NEW r \in Reqs, ReqStep(r)
      PROVE  UNCHANGED pass
  BY <1>5 DEF ReqStep, SignIn, SignInAgain, JoinAnew, ReadAccepter, Accept, CreateOrg, Remove,
              Plan, ReadHome, CommitMove, Drop
<1>6. StillListed(pass'[x])
  <2> HIDE DEF Surveyed, MoveStages, EndStages
  <2> QED BY <1>2, <1>3, <1>4, <1>5 DEF Next, CommitDeletion, ReturnToAuth0, vars
<1>7. pass'[x].pc \in Surveyed => pass'[x].org \in fenced
  <2>1. ASSUME ReadRows(x) \/ \E u \in Accounts : DestroyInverse(x, u) \/ DestroyRow(x, u)
        PROVE  pass'[x].pc \notin Surveyed
    <3>1. PICK q : PassBecomes(x, q) /\ q.pc \in {"inverse", "rows", "done"}
      BY <2>1, DestroyedBy
    <3> QED BY <1>1, <3>1 DEF PassBecomes
  <2>2. \A o \in Orgs : deletion[o].status # "none" => o \in fenced
    BY <1>1 DEF TypeInv, Begun
  <2> QED BY <1>1, <2>1, <2>2, PassSteps
<1> QED BY <1>6, <1>7

LEMMA StillListedStep ==
    ASSUME FullInv, OneAtATime, OnlyAccepts, AllStillListed, [Next]_vars
    PROVE  AllStillListed'
<1>1. /\ pass \in [Passes -> PassRecords]
      /\ \A x \in Passes : pass[x].pc # "idle" => pass[x].org \in fenced
  BY DEF FullInv, IInv, TypeInv, Begun, PassesGood, PassesBegun
<1>2. ASSUME NEW p \in Passes, NEW u \in Accounts, DestroyRow(p, u)
      PROVE  AllStillListed'
  <2>1. PICK q : PassBecomes(p, q) /\ q.pc \in {"inverse", "rows", "done"}
    BY <1>1, <1>2, DestroyedBy DEF FullInv
  <2>2. \A x \in Passes : pass'[x] = q
    BY <1>1, <2>1 DEF PassBecomes, OneAtATime
  <2> QED BY <2>1, <2>2 DEF AllStillListed, StillListed, Surveyed, MoveStages, EndStages
<1>3. ASSUME \A p \in Passes, u \in Accounts : ~DestroyRow(p, u)
      PROVE  AllStillListed'
  <2> SUFFICES ASSUME NEW x \in Passes
               PROVE  StillListed(pass[x])'
    BY DEF AllStillListed
  <2>1. PICK q : q = pass'[x]
    OBVIOUS
  <2>2. StillListed(q)
    BY <1>1, <2>1, SurveyedNext
  <2>3. q.pc \in Surveyed => q.org \in fenced
    BY <1>1, <2>1, SurveyedNext DEF Surveyed, MoveStages, EndStages
  <2>4. q.pc \in Surveyed => ListedMembers(q.org) \subseteq ListedMembers(q.org)'
    BY <1>3, <2>3, ListStands
  <2>5. StillListed(q)'
    BY <2>2, <2>4 DEF StillListed, Named, Surveyed
  <2> QED BY <2>1, <2>5 DEF StillListed, Named, ListedMembers, Members
<1> QED BY <1>2, <1>3

\* tearDownAuth0: under the same conditions, and with the same exception, the Auth0 user
\* a pass deletes belongs to the account it ends, unless a pass that died left that
\* account half destroyed.
THEOREM OwnAuth0User ==
    ASSUME OneAtATime, OnlyAccepts
    PROVE  Spec => DeletesOnlyItsOwnUser
<1> DEFINE Own == \A s \in auth0 \ slipped : s \notin auth0' =>
                     \E p \in Passes : LET u == pass[p].cur.acct IN
                        /\ pass[p].pc = "auth0"
                        /\ Sub(u) = s
                        /\ u = identity[s].acct \/ HalfDestroyed(pass[p].org, u)
<1>1. FullInv /\ AllStillListed /\ [Next]_vars => [Own]_vars
  <2> SUFFICES ASSUME FullInv, AllStillListed, [Next]_vars, NEW s \in auth0 \ slipped,
                      s \notin auth0'
               PROVE  \E p \in Passes : LET u == pass[p].cur.acct IN
                         /\ pass[p].pc = "auth0"
                         /\ Sub(u) = s
                         /\ u = identity[s].acct \/ HalfDestroyed(pass[p].org, u)
    OBVIOUS
  <2>1. PICK p \in Passes : DeleteAuth0User(p) /\ Sub(pass[p].cur.acct) = s
    BY DeletedByPass DEF FullInv, IInv
  <2> DEFINE u == pass[p].cur.acct
             o == pass[p].org
  <2>2. pass[p].pc = "auth0"
    BY <2>1 DEF DeleteAuth0User, In
  <2>3. RowInv /\ o \in Orgs /\ u \in Accounts /\ pass[p].cur \in pass[p].census
    BY <2>2, PassFacts DEF GoodPass, CursorStages, Staged, EndStages, Ending
  <2>4. Replaced(u) => u \notin inverse[o]
    BY <2>1, <2>3, AccountParts DEF Unslipped, RowInv, Current, BelongsNowhere
  <2>5. u \in ListedMembers(o)
    BY <2>2, <2>3 DEF AllStillListed, StillListed, Surveyed, EndStages, Named
  <2> QED BY <2>1, <2>2, <2>4, <2>5 DEF Replaced, HalfDestroyed
<1>2. Init => AllStillListed
  BY DEF Init, AllStillListed, StillListed, IdlePass, Surveyed, MoveStages, EndStages
<1>3. FullInv /\ AllStillListed /\ [Next]_vars => AllStillListed'
  BY StillListedStep
<1> QED BY <1>1, <1>2, <1>3, FullInvariant, PTL DEF Spec, DeletesOnlyItsOwnUser
=============================================================================
