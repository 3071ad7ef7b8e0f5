---------------------------- MODULE BillingProofs ----------------------------
(***************************************************************************)
(* Proofs about Billing, for any subscriptions, regions, activations and   *)
(* bounds: an event that is acknowledged is kept, the worker keeps its     *)
(* hands off a row operators or a deletion have taken, and, unless one is  *)
(* reverted from manual billing, a trial nobody paid for has the grace of  *)
(* a trial and a cancellation is dated once.                               *)
(***************************************************************************)
EXTENDS Billing, TLAPS

\* The worker has an event exactly while it is busy, of the kind its stage is for.
WorkerInv ==
    /\ worker.pc \in {"idle", "update", "superseded", "stored", "write", "close", "sync"}
    /\ worker.pc = "idle" => worker.ev = NoEvent
    /\ worker.pc # "idle" => worker.ev \in Event
    /\ worker.pc = "update" => worker.ev.kind = "updated"
    /\ worker.pc \in {"superseded", "stored", "write"} => worker.ev.kind = "deleted"

\* An activation saves a subscription it has.
SavesInv == \A a \in Activators : proc[a].pc = "save" => proc[a].sub # NoSub

FlowInv == WorkerInv /\ SavesInv

-----------------------------------------------------------------------------
(* Events, records and where a step leaves them *)

LEMMA EventFields ==
    ASSUME NEW e \in Event
    PROVE  /\ e.kind \in {"updated", "deleted", "customer"}
           /\ e.kind # "customer" => e.sub \in Subs
           /\ e.kind = "updated" => e.status \in StripeStatuses \ {"none"}
BY DEF Event

LEMMA EventsMade ==
    /\ CustomerDeleted \in Event
    /\ \A s \in Subs : Deleted(s) \in Event
    /\ \A s \in Subs, status \in StripeStatuses \ {"none"} : Updated(s, status) \in Event
BY DEF Event, CustomerDeleted, Deleted, Updated

LEMMA FirstStage ==
    ASSUME NEW e \in Event
    PROVE  /\ First(e) \in {"update", "superseded", "close"}
           /\ First(e) = "update" => e.kind = "updated"
           /\ First(e) = "superseded" => e.kind = "deleted"
<1>1. CASE e.kind = "updated"
  BY <1>1 DEF First
<1>2. CASE e.kind = "deleted"
  BY <1>2 DEF First
<1>3. CASE e.kind = "customer"
  BY <1>3 DEF First
<1> QED
  BY <1>1, <1>2, <1>3, EventFields

LEMMA Writers ==
    /\ "worker" \in Procs /\ "enforcer" \in Procs /\ "request" \in Procs /\ "usage" \in Procs
    /\ Activators \subseteq Procs
    /\ \A a \in Activators : a \notin {"worker", "enforcer", "request", "usage"}
BY ConstantsAssumption DEF Procs, AllOthers

LEMMA IdleType ==
    /\ Idle \in Records /\ [Idle EXCEPT !.pc = "done"] \in Records
    /\ Idle.pc = "idle" /\ Idle.ev = NoEvent
    /\ [Idle EXCEPT !.pc = "done"].pc = "done"
BY DEF Idle, Records, Stages, Marks, TenantStatuses, Times, NoTime

LEMMA GoesTo ==
    ASSUME TypeOK, NEW p \in Procs, NEW record \in Records, Goes(p, record)
    PROVE  /\ proc' \in [Procs -> Records]
           /\ proc'[p] = record
           /\ \A q \in Procs : q # p => proc'[q] = proc[q]
BY DEF TypeOK, Goes

LEMMA StopsAt ==
    ASSUME TypeOK, NEW p \in Procs, Stops(p)
    PROVE  /\ proc' \in [Procs -> Records]
           /\ proc'[p] \in {Idle, [Idle EXCEPT !.pc = "done"]}
           /\ p = "worker" => proc'[p] = Idle
           /\ \A q \in Procs : q # p => proc'[q] = proc[q]
<1>1. CASE p \in Activators \cup {"usage"} \/ (p = "enforcer" /\ now < MaxTime)
  BY <1>1, GoesTo, IdleType, Writers DEF Stops
<1>2. CASE ~(p \in Activators \cup {"usage"} \/ (p = "enforcer" /\ now < MaxTime))
  BY <1>2, GoesTo, IdleType DEF Stops
<1> QED
  BY <1>1, <1>2

LEMMA SyncingType ==
    ASSUME TypeOK, NEW p \in Procs, NEW want \in TenantStatuses
    PROVE  /\ Syncing(p, want) \in Records
           /\ Syncing(p, want).pc = "sync"
           /\ Syncing(p, want).ev = proc[p].ev
           /\ Syncing(p, want).sub = proc[p].sub
<1>1. proc[p] \in Records
  BY DEF TypeOK
<1> QED
  BY <1>1 DEF Syncing, Records, Stages, Marks

LEMMA MarkedType ==
    ASSUME TypeOK, NEW p \in Procs, NEW r \in Regions, NEW mark \in Marks,
           Marked(p, r, mark)
    PROVE  /\ proc' \in [Procs -> Records]
           /\ \A q \in Procs : /\ proc'[q].pc = proc[q].pc
                               /\ proc'[q].ev = proc[q].ev
                               /\ proc'[q].sub = proc[q].sub
                               /\ proc'[q].grace = proc[q].grace
           /\ \A q \in Procs : q # p => proc'[q] = proc[q]
<1> DEFINE record == [proc[p] EXCEPT !.seen = [proc[p].seen EXCEPT ![r] = mark]]
<1>1. proc[p] \in Records
  BY DEF TypeOK
<1>2. [proc[p].seen EXCEPT ![r] = mark] \in [Regions -> Marks]
  BY <1>1 DEF Records
<1>3. /\ record \in Records
      /\ record.pc = proc[p].pc /\ record.ev = proc[p].ev
      /\ record.sub = proc[p].sub /\ record.grace = proc[p].grace
  BY <1>1, <1>2 DEF Records
<1>4. Goes(p, record)
  BY DEF Marked
<1> HIDE DEF record
<1>5. /\ proc' \in [Procs -> Records]
      /\ proc'[p] = record
      /\ \A q \in Procs : q # p => proc'[q] = proc[q]
  BY <1>3, <1>4, GoesTo
<1> QED
  BY <1>3, <1>5

LEMMA AgainAt ==
    ASSUME TypeOK, WorkerInv, worker.pc # "idle", Again
    PROVE  /\ proc' \in [Procs -> Records]
           /\ \A q \in Procs : q # "worker" => proc'[q] = proc[q]
           /\ \/ /\ worker'.pc = First(worker.ev) /\ worker'.ev = worker.ev
                 /\ UNCHANGED queueVars
              \/ /\ worker' = Idle /\ parked' = parked \cup {worker.ev}
                 /\ UNCHANGED <<marks, queued, handled>>
           /\ WorkerInv'
<1> DEFINE record == [Idle EXCEPT !.pc = First(worker.ev), !.ev = worker.ev,
                                  !.tries = worker.tries + 1]
<1>1. worker \in Records /\ worker.ev \in Event
  BY Writers DEF TypeOK, WorkerInv, worker
<1>2. First(worker.ev) \in {"update", "superseded", "close"}
  BY <1>1, FirstStage
<1>3. CASE worker.tries + 1 < MaxReceives
  <2>1. worker.tries + 1 \in Nat
    BY <1>1 DEF Records
  <2>2. record \in Records /\ record.pc = First(worker.ev) /\ record.ev = worker.ev
    BY <1>1, <1>2, <2>1, IdleType DEF Records, Stages, Idle
  <2>3. Goes("worker", record) /\ UNCHANGED queueVars
    BY <1>3 DEF Again
  <2> HIDE DEF record
  <2>4. /\ proc' \in [Procs -> Records] /\ worker' = record
        /\ \A q \in Procs : q # "worker" => proc'[q] = proc[q]
    BY <2>2, <2>3, GoesTo, Writers DEF worker
  <2>5. WorkerInv'
    BY <1>1, <1>2, <2>2, <2>4, FirstStage DEF WorkerInv
  <2> QED
    BY <2>2, <2>3, <2>4, <2>5
<1>4. CASE ~(worker.tries + 1 < MaxReceives)
  <2>1. Stops("worker") /\ parked' = parked \cup {worker.ev} /\ UNCHANGED <<marks, queued, handled>>
    BY <1>4 DEF Again
  <2>2. /\ proc' \in [Procs -> Records] /\ worker' = Idle
        /\ \A q \in Procs : q # "worker" => proc'[q] = proc[q]
    BY <2>1, StopsAt, Writers DEF worker
  <2> QED
    BY <2>1, <2>2, IdleType DEF WorkerInv
<1> QED
  BY <1>3, <1>4

LEMMA HandledAt ==
    ASSUME TypeOK, Handled
    PROVE  /\ proc' \in [Procs -> Records]
           /\ \A q \in Procs : q # "worker" => proc'[q] = proc[q]
           /\ worker' = Idle /\ WorkerInv'
           /\ handled' = handled \cup {worker.ev}
           /\ UNCHANGED <<marks, queued, parked>>
<1>1. /\ proc' \in [Procs -> Records] /\ worker' = Idle
      /\ \A q \in Procs : q # "worker" => proc'[q] = proc[q]
  BY StopsAt, Writers DEF Handled, worker
<1> QED
  BY <1>1, IdleType DEF Handled, WorkerInv

-----------------------------------------------------------------------------
(* Type correctness *)

LEMMA FlowKept ==
    ASSUME FlowInv, proc' \in [Procs -> Records],
           \A q \in Procs : proc'[q].pc = proc[q].pc /\ proc'[q].ev = proc[q].ev
                              /\ proc'[q].sub = proc[q].sub
    PROVE  FlowInv'
BY Writers DEF FlowInv, WorkerInv, SavesInv, worker

\* A step of a writer other than the worker.
LEMMA FlowElsewhere ==
    ASSUME FlowInv, NEW p \in Procs, p # "worker",
           \A q \in Procs : q # p => proc'[q] = proc[q],
           proc'[p].pc = "save" => proc'[p].sub # NoSub
    PROVE  FlowInv'
<1>1. worker' = worker
  BY Writers DEF worker
<1>2. SavesInv'
  BY Writers DEF FlowInv, SavesInv
<1> QED
  BY <1>1, <1>2 DEF FlowInv, WorkerInv

\* A step of the worker.
LEMMA FlowAtWorker ==
    ASSUME FlowInv, WorkerInv', \A q \in Procs : q # "worker" => proc'[q] = proc[q]
    PROVE  FlowInv'
BY Writers DEF FlowInv, SavesInv

LEMMA SendType ==
    ASSUME TypeOK, NEW events \in SUBSET Event, Send(events)
    PROVE  /\ sent' \subseteq Event /\ marks' \subseteq Event /\ queued' \subseteq Event
           /\ handled' \subseteq Event /\ parked' \subseteq Event
BY DEF TypeOK, Send

LEMMA MoveToType ==
    ASSUME TypeOK, NEW s \in Subs, NEW status \in StripeStatuses, MoveTo(s, status)
    PROVE  /\ stripe' \in [Subs -> [status : StripeStatuses, endedAt : Times]]
           /\ charged' \subseteq Subs
BY DEF TypeOK, MoveTo, Times, NoTime

LEMMA StripeFlow ==
    ASSUME TypeOK, FlowInv, StripeStep
    PROVE  TypeOK' /\ FlowInv'
<1>1. ASSUME NEW s \in Subs, NEW status \in StripeStatuses, NEW events \in SUBSET Event,
             MoveTo(s, status), Send(events), UNCHANGED <<gone, External>>, moves' \in Nat
      PROVE  TypeOK' /\ FlowInv'
  <2>1. TypeOK'
    BY <1>1, SendType, MoveToType DEF TypeOK, External
  <2> QED
    BY <1>1, <2>1, FlowKept DEF TypeOK, External
<1>2. ASSUME NEW s \in Subs, TrialLapses(s) \/ Cancels(s)
      PROVE  TypeOK' /\ FlowInv'
  <2>1. {Deleted(s)} \in SUBSET Event /\ "canceled" \in StripeStatuses
    BY EventsMade DEF StripeStatuses
  <2>2. /\ MoveTo(s, "canceled") /\ Send({Deleted(s)})
        /\ UNCHANGED <<gone, External>> /\ moves' \in Nat
    BY <1>2 DEF TrialLapses, Cancels, Move, TypeOK
  <2> QED
    BY <2>1, <2>2, <1>1
<1>3. ASSUME NEW s \in Subs, PaymentFails(s) \/ Authenticates(s)
      PROVE  TypeOK' /\ FlowInv'
  <2>1. PICK status \in {"past_due", "active", "incomplete_expired"} :
          /\ MoveTo(s, status) /\ Send({Updated(s, status)})
          /\ UNCHANGED <<gone, External>> /\ moves' \in Nat
    BY <1>3 DEF PaymentFails, Authenticates, Move, TypeOK
  <2>2. status \in StripeStatuses \ {"none"}
    BY DEF StripeStatuses
  <2>3. {Updated(s, status)} \in SUBSET Event
    BY <2>2, EventsMade
  <2> QED
    BY <2>1, <2>2, <2>3, <1>1
<1>4. ASSUME CustomerGoes
      PROVE  TypeOK' /\ FlowInv'
  <2> DEFINE events == {CustomerDeleted} \cup {Deleted(s) : s \in {u \in Subs : Live(u)}}
  <2>1. events \in SUBSET Event
    BY EventsMade
  <2>2. Send(events)
    BY <1>4 DEF CustomerGoes
  <2> HIDE DEF events
  <2>3. /\ stripe' \in [Subs -> [status : StripeStatuses, endedAt : Times]]
        /\ gone' \in BOOLEAN /\ moves' \in Nat /\ UNCHANGED <<charged, External>>
    BY <1>4 DEF CustomerGoes, TypeOK, Move, StripeStatuses, Times
  <2>4. TypeOK'
    BY <2>1, <2>2, <2>3, SendType DEF TypeOK, External
  <2> QED
    BY <2>3, <2>4, FlowKept DEF TypeOK, External
<1> QED
  BY <1>2, <1>3, <1>4 DEF StripeStep

LEMMA TickFlow ==
    ASSUME TypeOK, FlowInv, Tick
    PROVE  TypeOK' /\ FlowInv'
<1>1. proc' \in [Procs -> Records] /\ worker' = Idle
  BY IdleType, Writers DEF Tick, TypeOK, worker
<1>2. \A a \in Activators : proc'[a] = proc[a]
  BY Writers DEF Tick, TypeOK
<1>3. TypeOK'
  BY <1>1 DEF Tick, TypeOK, stripeVars, queueVars
<1> QED
  BY <1>1, <1>2, <1>3, IdleType DEF FlowInv, WorkerInv, SavesInv

LEMMA QueueFlow ==
    ASSUME TypeOK, FlowInv, NEW e \in Event, Receive(e) \/ Redrive(e)
    PROVE  TypeOK' /\ FlowInv'
<1>1. TypeOK' /\ UNCHANGED proc
  BY ConstantsAssumption DEF TypeOK, Receive, Redrive, stripeVars
<1> QED
  BY <1>1, FlowKept DEF TypeOK

\* A region is probed, updated or given up on.
LEMMA SyncFlow ==
    ASSUME TypeOK, FlowInv, NEW p \in Procs, SyncStep(p) \/ SyncFailure(p)
    PROVE  TypeOK' /\ FlowInv'
<1>1. PICK r \in Regions : Probe(p, r) \/ SetTenant(p, r) \/ SyncFails(p, r)
  BY DEF SyncStep, SyncFailure
<1>2. PICK mark \in Marks : Marked(p, r, mark)
  BY <1>1 DEF Probe, SetTenant, SyncFails, Marks
<1>3. proc[p].want \in TenantStatuses
  BY DEF TypeOK, Records
<1>4. tenant' \in [Regions -> TenantStatuses \cup {Gone}] /\ failures' \in 0..MaxFailures
  BY <1>1, <1>3, ConstantsAssumption DEF TypeOK, Probe, SetTenant, SyncFails
<1>5. UNCHANGED BillingUnchanged
  BY <1>1 DEF Probe, SetTenant, SyncFails
<1>6. TypeOK'
  BY <1>2, <1>4, <1>5, MarkedType DEF TypeOK, BillingUnchanged, stripeVars, queueVars
<1> QED
  BY <1>2, <1>6, MarkedType, FlowKept

LEMMA MappedType ==
    ASSUME NEW status \in StripeStatuses \ {"none", "incomplete"}
    PROVE  Mapped(status) \in Statuses
BY DEF Mapped, StripeStatuses, Statuses

LEMMA WindowType ==
    ASSUME TypeOK, NEW s \in Subs
    PROVE  Window(s) \in Times
BY ConstantsAssumption DEF TypeOK, Window, Rows, Times, NoTime

LEMMA WorkerFlow ==
    ASSUME TypeOK, FlowInv, WorkerStep \/ WorkerDies
    PROVE  TypeOK' /\ FlowInv'
<1>0. WorkerInv /\ worker \in Records
  BY Writers DEF FlowInv, TypeOK, worker
<1>1. ASSUME Handled, worker.pc # "idle", row' \in Rows,
             deletion' \in {"none", "fenced", "scrubbed"}, failures' \in 0..MaxFailures,
             UNCHANGED <<stripeVars, tenant, now, moves>>
      PROVE  TypeOK' /\ FlowInv'
  <2>1. worker.ev \in Event
    BY <1>0, <1>1 DEF WorkerInv
  <2>2. TypeOK'
    BY <1>1, <2>1, HandledAt DEF TypeOK, stripeVars
  <2> QED
    BY <1>1, <2>2, HandledAt, FlowAtWorker
<1>2. ASSUME NEW e \in Event, Take(e)
      PROVE  TypeOK' /\ FlowInv'
  <2> DEFINE record == [Idle EXCEPT !.pc = First(e), !.ev = e]
  <2>1. First(e) \in {"update", "superseded", "close"}
    BY FirstStage
  <2>2. record \in Records /\ record.pc = First(e) /\ record.ev = e
    BY <2>1, IdleType DEF Records, Stages, Idle
  <2>3. Goes("worker", record)
    BY <1>2 DEF Take
  <2> HIDE DEF record
  <2>4. /\ proc' \in [Procs -> Records] /\ worker' = record
        /\ \A q \in Procs : q # "worker" => proc'[q] = proc[q]
    BY <2>2, <2>3, GoesTo, Writers DEF worker
  <2>5. WorkerInv'
    BY <2>1, <2>2, <2>4, FirstStage DEF WorkerInv
  <2>6. TypeOK'
    BY <1>2, <2>4 DEF Take, TypeOK, stripeVars
  <2> QED
    BY <2>4, <2>5, <2>6, FlowAtWorker
<1>3. CASE Update
  <2>1. worker.ev \in Event /\ worker.ev.kind = "updated"
    BY <1>0, <1>3 DEF Update, WorkerInv
  <2>2. worker.ev.sub \in Subs /\ worker.ev.status \in StripeStatuses \ {"none"}
    BY <2>1, EventFields
  <2>3. worker.ev.status = "incomplete" \/ Mapped(worker.ev.status) \in Statuses
    BY <2>2, MappedType
  <2>4. row' \in Rows
    BY <1>3, <2>2, <2>3 DEF Update, TypeOK, Rows, Times, NoTime
  <2> QED
    BY <1>1, <1>3, <2>1, <2>4 DEF Update, TypeOK
<1>4. ASSUME NEW pc \in {"close", "stored", "write"}, NEW grace \in Times,
             Goes("worker", [worker EXCEPT !.pc = pc, !.grace = grace]),
             worker.pc \in {"superseded", "stored"},
             UNCHANGED queueVars, UNCHANGED <<row, deletion, stripeVars, tenant, now, moves, failures>>
      PROVE  TypeOK' /\ FlowInv'
  <2> DEFINE record == [worker EXCEPT !.pc = pc, !.grace = grace]
  <2>1. record \in Records /\ record.pc = pc /\ record.ev = worker.ev
    BY <1>0 DEF Records, Stages
  <2> HIDE DEF record
  <2>2. /\ proc' \in [Procs -> Records] /\ worker' = record
        /\ \A q \in Procs : q # "worker" => proc'[q] = proc[q]
    BY <1>4, <2>1, GoesTo, Writers DEF worker, record
  <2>3. WorkerInv'
    BY <1>0, <1>4, <2>1, <2>2 DEF WorkerInv
  <2>4. TypeOK'
    BY <1>4, <2>2 DEF TypeOK, stripeVars, queueVars
  <2> QED
    BY <2>2, <2>3, <2>4, FlowAtWorker
<1>5. CASE Superseded
  <2>1. CASE Handled
    BY <1>1, <1>5, <2>1 DEF Superseded, TypeOK
  <2>2. CASE ~Handled
    <3>1. PICK pc \in {"close", "stored"} :
            Goes("worker", [worker EXCEPT !.pc = pc]) /\ UNCHANGED queueVars
      BY <1>5, <2>2 DEF Superseded
    <3>2. [worker EXCEPT !.pc = pc] = [worker EXCEPT !.pc = pc, !.grace = worker.grace]
      BY <1>0 DEF Records
    <3>3. worker.grace \in Times
      BY <1>0 DEF Records
    <3> QED
      BY <1>4, <1>5, <3>1, <3>2, <3>3 DEF Superseded
  <2> QED
    BY <2>1, <2>2
<1>6. CASE Stored
  <2>1. CASE row.status = "manual"
    BY <1>1, <1>6, <2>1 DEF Stored, TypeOK
  <2>2. CASE row.status # "manual"
    <3>1. worker.ev.sub \in Subs
      BY <1>0, <1>6, EventFields DEF Stored, WorkerInv
    <3>2. Window(worker.ev.sub) \in Times
      BY <3>1, WindowType
    <3> QED
      BY <1>4, <1>6, <2>2, <3>2 DEF Stored
  <2> QED
    BY <2>1, <2>2
<1>7. CASE WriteGrace
  <2>1. CASE Guarded /\ NotBilledManually
    <3>1. /\ Goes("worker", Syncing("worker", "write-locked")) /\ UNCHANGED queueVars
          /\ row' = [row EXCEPT !.status = "grace_period", !.ended = TRUE, !.grace = worker.grace]
      BY <1>7, <2>1 DEF WriteGrace
    <3>2. row' \in Rows
      BY <1>0, <3>1 DEF TypeOK, Rows, Records, Statuses
    <3>3. /\ proc' \in [Procs -> Records] /\ worker'.pc = "sync" /\ worker'.ev = worker.ev
          /\ \A q \in Procs : q # "worker" => proc'[q] = proc[q]
      BY <3>1, SyncingType, GoesTo, Writers DEF TenantStatuses, worker
    <3>4. WorkerInv'
      BY <1>0, <1>7, <3>3 DEF WorkerInv, WriteGrace
    <3>5. TypeOK'
      BY <1>7, <3>1, <3>2, <3>3 DEF WriteGrace, TypeOK, stripeVars, queueVars
    <3> QED
      BY <3>3, <3>4, <3>5, FlowAtWorker
  <2>2. CASE ~(Guarded /\ NotBilledManually)
    BY <1>1, <1>7, <2>2 DEF WriteGrace, TypeOK
  <2> QED
    BY <2>1, <2>2
<1>8. CASE Close
  <2>1. deletion' \in {"none", "fenced", "scrubbed"}
    BY <1>8 DEF Close, StartDeletionFromStripe, Fenced, TypeOK
  <2>2. failures' \in 0..MaxFailures
    BY <1>8, ConstantsAssumption DEF Close, StartDeletionFromStripe, TypeOK
  <2> QED
    BY <1>1, <1>8, <2>1, <2>2 DEF Close, TypeOK
<1>9. CASE WorkerSynced \/ WorkerDies
  <2>1. CASE Handled
    <3>1. /\ UNCHANGED <<row, deletion, stripeVars, tenant, now, moves>>
          /\ failures' \in 0..MaxFailures /\ worker.ev \in Event
      BY <1>0, <1>9, ConstantsAssumption
         DEF WorkerSynced, WorkerDies, TypeOK, Synced, WorkerInv, worker
    <3> QED
      BY <2>1, <3>1, <1>0, HandledAt, FlowAtWorker DEF TypeOK, stripeVars
  <2>2. CASE Again
    <3>1. /\ UNCHANGED <<row, deletion, stripeVars, tenant, now, moves>>
          /\ failures' \in 0..MaxFailures /\ worker.pc # "idle"
      BY <1>9, ConstantsAssumption DEF WorkerSynced, WorkerDies, TypeOK, Synced, worker
    <3>2. /\ proc' \in [Procs -> Records] /\ WorkerInv'
          /\ \A q \in Procs : q # "worker" => proc'[q] = proc[q]
          /\ UNCHANGED queueVars
               \/ (parked' = parked \cup {worker.ev} /\ UNCHANGED <<marks, queued, handled>>)
      BY <1>0, <2>2, <3>1, AgainAt
    <3>3. TypeOK'
      BY <1>0, <3>1, <3>2 DEF TypeOK, stripeVars, queueVars, WorkerInv
    <3> QED
      BY <3>2, <3>3, FlowAtWorker
  <2> QED
    BY <1>9, <2>1, <2>2 DEF WorkerSynced, WorkerDies
<1> QED
  BY <1>2, <1>3, <1>5, <1>6, <1>7, <1>8, <1>9 DEF WorkerStep

\* A writer other than the worker goes on or stops; the queue and the tenants are
\* left alone.
LEMMA ElsewhereFlow ==
    ASSUME TypeOK, FlowInv, NEW p \in Procs, p # "worker",
           \/ Stops(p)
           \/ \E record \in Records :
                 Goes(p, record) /\ (record.pc = "save" => record.sub # NoSub),
           row' \in Rows, deletion' \in {"none", "fenced", "scrubbed"},
           failures' \in 0..MaxFailures,
           UNCHANGED <<stripeVars, queueVars, tenant, now, moves>>
    PROVE  TypeOK' /\ FlowInv'
<1>1. /\ proc' \in [Procs -> Records]
      /\ \A q \in Procs : q # p => proc'[q] = proc[q]
      /\ proc'[p].pc = "save" => proc'[p].sub # NoSub
  <2>1. CASE Stops(p)
    BY <2>1, StopsAt, IdleType
  <2>2. CASE ~Stops(p)
    BY <2>2, GoesTo
  <2> QED
    BY <2>1, <2>2
<1>2. TypeOK'
  BY <1>1 DEF TypeOK, stripeVars, queueVars
<1> QED
  BY <1>1, <1>2, FlowElsewhere

LEMMA EnforcerFlow ==
    ASSUME TypeOK, FlowInv, EnforcerStep
    PROVE  TypeOK' /\ FlowInv'
<1>0. enforcer \in Records /\ "enforcer" \in Procs
  BY Writers DEF TypeOK, enforcer
<1>1. CASE Enforce
  <2>1. PICK want \in {"disabled", "write-locked"} : Goes("enforcer", Syncing("enforcer", want))
    BY <1>1 DEF Enforce
  <2>2. Syncing("enforcer", want) \in Records /\ Syncing("enforcer", want).pc = "sync"
    BY <1>0, SyncingType DEF TenantStatuses
  <2> QED
    BY <1>0, <1>1, <2>1, <2>2, ElsewhereFlow DEF Enforce, BillingUnchanged, TypeOK
<1>2. CASE EnforcerSynced
  <2>1. [enforcer EXCEPT !.pc = "cancel"] \in Records
        /\ [enforcer EXCEPT !.pc = "cancel"].pc = "cancel"
    BY <1>0 DEF Records, Stages
  <2> QED
    BY <1>0, <1>2, <2>1, ElsewhereFlow DEF EnforcerSynced, BillingUnchanged, TypeOK
<1>3. CASE Cancel
  <2>1. row' \in Rows
    BY <1>3 DEF Cancel, TypeOK, Rows, Statuses
  <2> QED
    BY <1>0, <1>3, <2>1, ElsewhereFlow DEF Cancel, TypeOK
<1> QED
  BY <1>1, <1>2, <1>3 DEF EnforcerStep

LEMMA RequestFlow ==
    ASSUME TypeOK, FlowInv, RequestStep
    PROVE  TypeOK' /\ FlowInv'
<1>1. CASE FindLapsed
  <2>1. [Idle EXCEPT !.pc = "lapse"] \in Records /\ [Idle EXCEPT !.pc = "lapse"].pc = "lapse"
    BY IdleType DEF Records, Stages
  <2> QED
    BY <1>1, <2>1, ElsewhereFlow, Writers DEF FindLapsed, BillingUnchanged, TypeOK
<1>2. CASE Lapse
  <2>0. TrialEnd + TrialGrace \in Times
    BY ConstantsAssumption DEF Times
  <2>1. row' \in Rows
    BY <1>2, <2>0 DEF Lapse, TypeOK, Rows, Statuses
  <2> QED
    BY <1>2, <2>1, ElsewhereFlow, Writers DEF Lapse, TypeOK
<1> QED
  BY <1>1, <1>2 DEF RequestStep

LEMMA UsageFlow ==
    ASSUME TypeOK, FlowInv, UsageStep
    PROVE  TypeOK' /\ FlowInv'
<1>1. CASE ScanUsage
  <2> DEFINE record == [Idle EXCEPT !.pc = "meter", !.trial = row.status = "trialing"]
  <2>1. record \in Records /\ record.pc = "meter"
    BY IdleType DEF Records, Stages
  <2>2. Goes("usage", record)
    BY <1>1 DEF ScanUsage
  <2> HIDE DEF record
  <2> QED
    BY <1>1, <2>1, <2>2, ElsewhereFlow, Writers DEF ScanUsage, BillingUnchanged, TypeOK
<1>2. CASE Meter
  <2>1. deletion' \in {"none", "fenced", "scrubbed"}
    BY <1>2 DEF Meter, StartDeletionFromStripe, Fenced, TypeOK
  <2>2. failures' \in 0..MaxFailures
    BY <1>2, ConstantsAssumption DEF Meter, StartDeletionFromStripe, TypeOK
  <2>3. \/ Stops("usage")
        \/ \E want \in TenantStatuses : Goes("usage", Syncing("usage", want))
    BY <1>2 DEF Meter
  <2>4. \A want \in TenantStatuses :
          Syncing("usage", want) \in Records /\ Syncing("usage", want).pc = "sync"
    BY SyncingType, Writers
  <2>5. \/ Stops("usage")
        \/ \E record \in Records :
              Goes("usage", record) /\ (record.pc = "save" => record.sub # NoSub)
    BY <2>3, <2>4
  <2> QED
    BY <1>2, <2>1, <2>2, <2>5, ElsewhereFlow, Writers DEF Meter, TypeOK
<1>3. CASE UsageSynced
  BY <1>3, ElsewhereFlow, Writers DEF UsageSynced, BillingUnchanged, TypeOK
<1> QED
  BY <1>1, <1>2, <1>3 DEF UsageStep

LEMMA ActivationFlow ==
    ASSUME TypeOK, FlowInv, NEW a \in Activators, Activate(a) \/ ActivatorStep(a)
    PROVE  TypeOK' /\ FlowInv'
<1>0. a \in Procs /\ a # "worker" /\ proc[a] \in Records
  BY Writers DEF TypeOK
<1>1. CASE Activate(a)
  <2> DEFINE sub == IF Ended(row.status) THEN NoSub ELSE row.sub
             record == [Idle EXCEPT !.pc = "charge", !.sub = sub]
  <2>1. sub \in Subs \cup {NoSub}
    BY DEF TypeOK, Rows
  <2> HIDE DEF sub
  <2>2. record \in Records /\ record.pc = "charge"
    BY <2>1, IdleType DEF Records, Stages
  <2>3. Goes(a, record)
    BY <1>1 DEF Activate, sub
  <2> HIDE DEF record
  <2> QED
    BY <1>0, <1>1, <2>2, <2>3, ElsewhereFlow DEF Activate, BillingUnchanged, TypeOK
<1>2. ASSUME NEW s \in Subs, NEW status \in {"active", "incomplete", "past_due"},
             MoveTo(s, status), Send({Updated(s, status)}),
             UNCHANGED <<row, deletion, gone, tenant, now, moves, failures>>,
             \/ Stops(a)
             \/ Goes(a, [proc[a] EXCEPT !.pc = "save", !.sub = s])
      PROVE  TypeOK' /\ FlowInv'
  <2>1. status \in StripeStatuses \ {"none"}
    BY DEF StripeStatuses
  <2>2. {Updated(s, status)} \in SUBSET Event
    BY <2>1, EventsMade
  <2>3. /\ proc' \in [Procs -> Records]
        /\ \A q \in Procs : q # a => proc'[q] = proc[q]
        /\ proc'[a].pc = "save" => proc'[a].sub # NoSub
    <3>1. CASE Stops(a)
      BY <1>0, <3>1, StopsAt, IdleType
    <3>2. CASE Goes(a, [proc[a] EXCEPT !.pc = "save", !.sub = s])
      <4> DEFINE record == [proc[a] EXCEPT !.pc = "save", !.sub = s]
      <4>1. record \in Records /\ record.sub = s
        BY <1>0 DEF Records, Stages
      <4> HIDE DEF record
      <4>2. /\ proc' \in [Procs -> Records] /\ proc'[a] = record
            /\ \A q \in Procs : q # a => proc'[q] = proc[q]
        BY <1>0, <3>2, <4>1, GoesTo DEF record
      <4> QED
        BY <4>1, <4>2, ConstantsAssumption
    <3> QED
      BY <1>2, <3>1, <3>2
  <2>4. TypeOK'
    BY <1>2, <2>1, <2>2, <2>3, SendType, MoveToType DEF TypeOK
  <2> QED
    BY <1>0, <2>3, <2>4, FlowElsewhere
<1>3. CASE Create(a)
  BY <1>2, <1>3 DEF Create
<1>4. CASE EndTrial(a)
  <2>1. proc[a].sub \in Subs
    BY <1>0, <1>4 DEF EndTrial, Records
  <2>2. [proc[a] EXCEPT !.pc = "save"] = [proc[a] EXCEPT !.pc = "save", !.sub = proc[a].sub]
    BY <1>0 DEF Records
  <2> QED
    BY <1>2, <1>4, <2>1, <2>2 DEF EndTrial
<1>5. CASE Refused(a) \/ ActivationSynced(a)
  BY <1>0, <1>5, ElsewhereFlow DEF Refused, ActivationSynced, BillingUnchanged, TypeOK
<1>6. CASE Save(a)
  <2>1. proc[a].sub \in Subs
    BY <1>0, <1>6 DEF Save, FlowInv, SavesInv, Records
  <2>2. row' \in Rows
    BY <1>6, <2>1 DEF Save, TypeOK, Rows, Statuses, Times, NoTime
  <2>3. Syncing(a, "active") \in Records /\ Syncing(a, "active").pc = "sync"
    BY <1>0, SyncingType DEF TenantStatuses
  <2> QED
    BY <1>0, <1>6, <2>2, <2>3, ElsewhereFlow DEF Save, TypeOK
<1> QED
  BY <1>1, <1>3, <1>4, <1>5, <1>6 DEF ActivatorStep

LEMMA OtherFlow ==
    ASSUME TypeOK, FlowInv,
           \/ \E p \in Procs : Dies(p)
           \/ BillManually \/ EndManualBilling \/ ConfirmDeletion \/ Scrub
    PROVE  TypeOK' /\ FlowInv'
<1>1. ASSUME NEW p \in Procs, Dies(p)
      PROVE  TypeOK' /\ FlowInv'
  BY <1>1, ElsewhereFlow, ConstantsAssumption DEF Dies, BillingUnchanged, TypeOK
<1>2. ASSUME BillManually \/ EndManualBilling \/ ConfirmDeletion \/ Scrub
      PROVE  TypeOK' /\ FlowInv'
  <2>0. now + PaidGrace \in Times /\ NoTime \in Times
    BY ConstantsAssumption DEF TypeOK, Times, NoTime
  <2>1. row' \in Rows
    BY <1>2, <2>0
       DEF BillManually, EndManualBilling, ConfirmDeletion, Scrub, TypeOK, Rows, Statuses
  <2>2. /\ deletion' \in {"none", "fenced", "scrubbed"} /\ moves' \in Nat
        /\ tenant' \in [Regions -> TenantStatuses \cup {Gone}]
        /\ UNCHANGED <<stripeVars, queueVars, proc, now, failures>>
    BY <1>2 DEF BillManually, EndManualBilling, ConfirmDeletion, Scrub, TypeOK, Move
  <2>3. TypeOK'
    BY <2>1, <2>2 DEF TypeOK, stripeVars, queueVars
  <2> QED
    BY <2>2, <2>3, FlowKept DEF TypeOK
<1> QED
  BY <1>1, <1>2

LEMMA FlowStep == TypeOK /\ FlowInv /\ [Next]_vars => TypeOK' /\ FlowInv'
<1> SUFFICES ASSUME TypeOK, FlowInv, [Next]_vars
             PROVE  TypeOK' /\ FlowInv'
  OBVIOUS
<1>1. CASE UNCHANGED vars
  BY <1>1 DEF vars, stripeVars, queueVars, TypeOK, FlowInv, WorkerInv, SavesInv, worker
<1>2. CASE Next
  <2>1. CASE StripeStep \/ Tick \/ \E e \in Event : Receive(e) \/ Redrive(e)
    BY <2>1, StripeFlow, TickFlow, QueueFlow
  <2>2. CASE WorkerStep \/ WorkerDies \/ EnforcerStep \/ RequestStep \/ UsageStep
    BY <2>2, WorkerFlow, EnforcerFlow, RequestFlow, UsageFlow
  <2>3. CASE \E a \in Activators : Activate(a) \/ ActivatorStep(a)
    BY <2>3, ActivationFlow
  <2>4. CASE \E p \in Procs : SyncStep(p) \/ SyncFailure(p) \/ Dies(p)
    BY <2>4, SyncFlow, OtherFlow
  <2>5. CASE BillManually \/ EndManualBilling \/ ConfirmDeletion \/ Scrub
    BY <2>5, OtherFlow
  <2> QED
    BY <1>2, <2>1, <2>2, <2>3, <2>4, <2>5 DEF Next
<1> QED
  BY <1>1, <1>2

LEMMA FlowInit == Init => TypeOK /\ FlowInv
<1> SUFFICES ASSUME Init PROVE TypeOK /\ FlowInv
  OBVIOUS
<1>1. proc \in [Procs -> Records] /\ worker = Idle
  BY IdleType, Writers DEF Init, worker
<1>a. row \in Rows
  BY ConstantsAssumption DEF Init, Rows, Statuses, Times, NoTime
<1>b. stripe \in [Subs -> [status : StripeStatuses, endedAt : Times]]
  BY DEF Init, StripeStatuses, Times, NoTime
<1>c. tenant \in [Regions -> TenantStatuses \cup {Gone}]
  BY DEF Init, TenantStatuses
<1>d. now \in Nat /\ moves \in Nat /\ failures \in 0..MaxFailures
  BY ConstantsAssumption DEF Init
<1>2. TypeOK
  BY <1>1, <1>a, <1>b, <1>c, <1>d DEF Init, TypeOK
<1>3. FlowInv
  BY <1>1, IdleType, Writers DEF FlowInv, WorkerInv, SavesInv, Init
<1> QED
  BY <1>2, <1>3

LEMMA FlowAlways == Spec => [](TypeOK /\ FlowInv)
BY FlowInit, FlowStep, PTL DEF Spec

\* Whatever the parameters, each variable stays in its type.
THEOREM TypeCorrect == Spec => []TypeOK
BY FlowAlways, PTL

-----------------------------------------------------------------------------
(* What the steps of the others leave to the worker *)

LEMMA GoesElsewhere ==
    ASSUME TypeOK, NEW p \in Procs, p # "worker",
           Stops(p) \/ \E record : Goes(p, record)
    PROVE  worker' = worker
BY Writers DEF TypeOK, Stops, Goes, worker

\* A step that is not the worker's: of a writer, of Stripe, of the webhook, of an
\* operator or of the deletion.
Elsewhere ==
    \/ StripeStep \/ \E e \in Event : Receive(e) \/ Redrive(e)
    \/ EnforcerStep \/ RequestStep \/ UsageStep
    \/ \E a \in Activators : Activate(a) \/ ActivatorStep(a)
    \/ \E p \in Procs : Dies(p)
    \/ BillManually \/ EndManualBilling \/ ConfirmDeletion \/ Scrub

LEMMA ElsewhereSparesWorker ==
    ASSUME TypeOK, Elsewhere
    PROVE  worker' = worker
<1>1. CASE StripeStep
  BY <1>1 DEF StripeStep, TrialLapses, Cancels, PaymentFails, Authenticates, CustomerGoes,
              External, worker
<1>2. CASE \E e \in Event : Receive(e) \/ Redrive(e)
  BY <1>2 DEF Receive, Redrive, worker
<1>3. CASE EnforcerStep
  <2>1. Stops("enforcer") \/ \E record : Goes("enforcer", record)
    BY <1>3 DEF EnforcerStep, Enforce, EnforcerSynced, Cancel
  <2> QED
    BY <2>1, GoesElsewhere, Writers
<1>4. CASE RequestStep
  <2>1. Stops("request") \/ \E record : Goes("request", record)
    BY <1>4 DEF RequestStep, FindLapsed, Lapse
  <2> QED
    BY <2>1, GoesElsewhere, Writers
<1>5. CASE UsageStep
  <2>1. Stops("usage") \/ \E record : Goes("usage", record)
    BY <1>5 DEF UsageStep, ScanUsage, Meter, UsageSynced
  <2> QED
    BY <2>1, GoesElsewhere, Writers
<1>6. ASSUME NEW a \in Activators, Activate(a) \/ ActivatorStep(a)
      PROVE  worker' = worker
  <2>1. Stops(a) \/ \E record : Goes(a, record)
    BY <1>6 DEF ActivatorStep, Activate, Create, EndTrial, Refused, Save, ActivationSynced
  <2> QED
    BY <2>1, GoesElsewhere, Writers
<1>7. ASSUME NEW p \in Procs, Dies(p)
      PROVE  worker' = worker
  BY <1>7, GoesElsewhere DEF Dies
<1>8. CASE BillManually \/ EndManualBilling \/ ConfirmDeletion \/ Scrub
  BY <1>8 DEF BillManually, EndManualBilling, ConfirmDeletion, Scrub, worker
<1> QED
  BY <1>1, <1>2, <1>3, <1>4, <1>5, <1>6, <1>7, <1>8 DEF Elsewhere

LEMMA SyncSparesWorker ==
    ASSUME TypeOK, NEW p \in Procs, SyncStep(p) \/ SyncFailure(p)
    PROVE  /\ worker'.pc = worker.pc /\ worker'.ev = worker.ev /\ worker'.grace = worker.grace
           /\ UNCHANGED BillingUnchanged
<1>1. PICK r \in Regions, mark \in Marks :
        Marked(p, r, mark) /\ UNCHANGED BillingUnchanged
  BY DEF SyncStep, SyncFailure, Probe, SetTenant, SyncFails, Marks
<1> QED
  BY <1>1, MarkedType, Writers DEF worker

LEMMA TickSparesWorker ==
    ASSUME TypeOK, FlowInv, Tick
    PROVE  worker.pc = "idle" /\ worker' = Idle /\ worker'.ev = worker.ev
BY IdleType, Writers DEF Tick, TypeOK, worker, FlowInv, WorkerInv

\* A step is the worker's, or leaves its stage, its event and its date alone, or
\* is a day that passes while it is idle.
LEMMA StepIsEither ==
    ASSUME [Next]_vars
    PROVE  \/ UNCHANGED vars \/ Tick \/ WorkerStep \/ WorkerDies \/ Elsewhere
           \/ \E p \in Procs : SyncStep(p) \/ SyncFailure(p)
BY DEF Next, Elsewhere

-----------------------------------------------------------------------------
(* An acknowledged event is kept *)

LEMMA KeptStep ==
    TypeOK /\ FlowInv /\ AcknowledgedIsKept /\ [Next]_vars => AcknowledgedIsKept'
<1> SUFFICES ASSUME TypeOK, FlowInv, AcknowledgedIsKept, [Next]_vars
             PROVE  AcknowledgedIsKept'
  OBVIOUS
<1>0. WorkerInv /\ marks \subseteq Event
  BY DEF FlowInv, TypeOK
<1>1. ASSUME UNCHANGED queueVars, worker'.ev = worker.ev
      PROVE  AcknowledgedIsKept'
  BY <1>1 DEF AcknowledgedIsKept, queueVars
<1>2. ASSUME NEW events, Send(events), worker' = worker
      PROVE  AcknowledgedIsKept'
  BY <1>2 DEF AcknowledgedIsKept, Send
<1>3. ASSUME Handled PROVE AcknowledgedIsKept'
  BY <1>3, HandledAt, <1>0 DEF AcknowledgedIsKept
<1>4. CASE WorkerStep \/ WorkerDies
  <2>1. ASSUME NEW e \in Event, Take(e) PROVE AcknowledgedIsKept'
    <3>1. worker.ev = NoEvent /\ worker'.ev = e
      BY <1>0, <2>1, Writers, IdleType
         DEF Take, Starts, WorkerInv, worker, Goes, TypeOK, Idle
    <3>2. queued' = queued \ {e} /\ UNCHANGED <<marks, handled, parked>>
      BY <2>1 DEF Take
    <3> QED
      BY <1>0, <3>1, <3>2, NoEventAssumption DEF AcknowledgedIsKept
  <2>2. CASE (WorkerSynced \/ WorkerDies) /\ Again
    <3>1. worker.pc # "idle"
      BY <2>2 DEF WorkerSynced, WorkerDies, Synced, worker
    <3> QED
      BY <1>0, <1>1, <2>2, <3>1, AgainAt, IdleType DEF AcknowledgedIsKept
  <2>3. ASSUME NEW record, Goes("worker", record), record.ev = worker.ev, UNCHANGED queueVars
        PROVE  AcknowledgedIsKept'
    BY <1>1, <2>3, Writers DEF Goes, TypeOK, worker
  <2>4. CASE (Superseded \/ Stored \/ WriteGrace) /\ ~Handled
    <3>1. worker \in Records
      BY Writers DEF TypeOK, worker
    <3>2. PICK record \in {[worker EXCEPT !.pc = "close"], [worker EXCEPT !.pc = "stored"],
                           [worker EXCEPT !.pc = "write", !.grace = Window(worker.ev.sub)],
                           Syncing("worker", "write-locked")} :
            Goes("worker", record) /\ UNCHANGED queueVars
      BY <2>4 DEF Superseded, Stored, WriteGrace
    <3>3. record.ev = worker.ev
      BY <3>1, <3>2 DEF Records, Syncing, worker
    <3> QED
      BY <2>3, <3>2, <3>3
  <2> QED
    BY <1>3, <1>4, <2>1, <2>2, <2>4
       DEF WorkerStep, WorkerDies, Update, Close, WorkerSynced
<1>5. CASE Elsewhere
  <2>1. worker' = worker
    BY <1>5, ElsewhereSparesWorker
  <2>2. CASE StripeStep \/ \E a \in Activators : Create(a) \/ EndTrial(a)
    <3>1. \E events : Send(events)
      BY <2>2 DEF StripeStep, TrialLapses, Cancels, PaymentFails, Authenticates,
                  CustomerGoes, Create, EndTrial
    <3> QED
      BY <1>2, <2>1, <3>1
  <2>3. CASE \E e \in Event : Receive(e) \/ Redrive(e)
    BY <2>1, <2>3 DEF Receive, Redrive, AcknowledgedIsKept
  <2>4. CASE ~(StripeStep \/ \E a \in Activators : Create(a) \/ EndTrial(a))
               /\ ~(\E e \in Event : Receive(e) \/ Redrive(e))
    <3>1. UNCHANGED queueVars
      BY <1>5, <2>4
         DEF Elsewhere, EnforcerStep, Enforce, EnforcerSynced, Cancel, RequestStep, FindLapsed,
             Lapse, UsageStep, ScanUsage, Meter, UsageSynced, Activate, ActivatorStep, Refused,
             Save, ActivationSynced, Dies, BillManually, EndManualBilling, ConfirmDeletion,
             Scrub, BillingUnchanged
    <3> QED
      BY <1>1, <2>1, <3>1
  <2> QED
    BY <2>2, <2>3, <2>4
<1>6. CASE UNCHANGED vars
  BY <1>1, <1>6 DEF vars, worker, queueVars
<1>7. CASE Tick
  BY <1>1, <1>7, TickSparesWorker DEF Tick
<1>8. CASE \E p \in Procs : SyncStep(p) \/ SyncFailure(p)
  BY <1>1, <1>8, SyncSparesWorker DEF BillingUnchanged
<1> QED
  BY <1>4, <1>5, <1>6, <1>7, <1>8, StepIsEither

\* An event that is marked as received is never lost, wherever an enqueue, a mark,
\* a sync or an invocation fails.
THEOREM AcknowledgedKept == Spec => []AcknowledgedIsKept
<1>1. Init => AcknowledgedIsKept
  BY DEF Init, AcknowledgedIsKept
<1>2. Spec => [](TypeOK /\ FlowInv)
  BY FlowAlways
<1> QED
  BY <1>1, <1>2, KeptStep, PTL DEF Spec

-----------------------------------------------------------------------------
(* Hands off *)

\* No event changes a row that operators took over or a deletion has scrubbed, or
\* brings down an organization billed by hand, whatever happens between the read
\* of the row and its write.
THEOREM WorkerHandsOff == Spec => HandsOff
<1>1. ASSUME TypeOK, FlowInv, [Next]_vars
      PROVE  \/ UNCHANGED vars \/ worker' = worker \/ UNCHANGED <<row, deletion>>
             \/ /\ row.status = "manual" \/ deletion = "scrubbed" => UNCHANGED row
                /\ row.status = "manual" => UNCHANGED deletion
  <2>1. CASE WorkerStep \/ WorkerDies
    <3>1. CASE WriteGrace \/ Update
      BY <3>1 DEF WriteGrace, Update, Guarded, NotBilledManually
    <3>2. CASE Close
      BY <3>2 DEF Close, StartDeletionFromStripe, Fenced, NotBilledManually
    <3>3. CASE ~WriteGrace /\ ~Update /\ ~Close
      BY <2>1, <3>3 DEF WorkerStep, WorkerDies, Take, Superseded, Stored, WorkerSynced
    <3> QED
      BY <3>1, <3>2, <3>3
  <2>2. CASE Elsewhere
    BY <1>1, <2>2, ElsewhereSparesWorker
  <2>3. CASE Tick
    BY <2>3 DEF Tick
  <2>4. CASE \E p \in Procs : SyncStep(p) \/ SyncFailure(p)
    BY <1>1, <2>4, SyncSparesWorker DEF BillingUnchanged
  <2> QED
    BY <1>1, <2>1, <2>2, <2>3, <2>4, StepIsEither
<1>2. TypeOK /\ FlowInv /\ [Next]_vars =>
        [proc'["worker"] # proc["worker"] =>
           /\ row.status = "manual" \/ deletion = "scrubbed" => UNCHANGED row
           /\ row.status = "manual" => UNCHANGED deletion]_vars
  BY <1>1 DEF worker
<1> QED
  BY <1>2, FlowAlways, PTL DEF Spec, HandsOff

-----------------------------------------------------------------------------
(* The grace of a trial nobody paid for, and the date of a cancellation *)

\* Events that are somewhere between Stripe and the end of their handling.
Underway == Event \cap (sent \cup queued \cup parked \cup {worker.ev})

\* What an event says is so: a charge was tried for what is paid or past due, and
\* what was deleted has ended, before the trial would have if it was the trial.
Backed(e) ==
    /\ e.kind = "updated" /\ e.status \in {"active", "past_due"} => e.sub \in charged
    /\ e.kind = "deleted" =>
         /\ stripe[e.sub].status = "canceled"
         /\ e.sub \in charged \/ stripe[e.sub].endedAt <= TrialEnd

Short(grace) == grace <= TrialEnd + TrialGrace

\* Stripe's side: nothing is paid for that was not charged, and no trial outlives
\* its end.
StripeInv ==
    /\ \A s \in Subs :
         /\ stripe[s].status \in {"active", "past_due"} => s \in charged
         /\ stripe[s].status = "trialing" => now <= TrialEnd
    /\ \A e \in Underway : Backed(e)
    /\ \A a \in Activators : proc[a].pc = "save" => proc[a].sub \in charged

\* The row's side: what was not charged is a trial, on its way out or gone; and what
\* the worker is about to write to it is short.
GraceInv ==
    row.sub \notin charged =>
        /\ row.status \in {"trialing", "grace_period", "canceled", "manual"}
        /\ Short(row.grace)
        /\ worker.pc \in {"stored", "write"} => worker.ev.sub = row.sub
        /\ worker.pc = "write" => Short(worker.grace)

\* What the worker is about to write is the date the row has, or the row has none
\* of a cancellation.
DateInv ==
    worker.pc = "write" /\ row.ended =>
        row.grace \in {worker.grace, NoTime, TrialEnd + TrialGrace}

LEMMA SavesKept ==
    ASSUME TypeOK, StripeInv, NEW p \in Procs, charged \subseteq charged',
           Stops(p) \/ \E record : Goes(p, record) /\ record.pc # "save"
    PROVE  \A a \in Activators : proc'[a].pc = "save" => proc'[a].sub \in charged'
<1>1. proc'[p].pc # "save" /\ \A q \in Procs : q # p => proc'[q] = proc[q]
  <2>1. CASE Stops(p)
    BY <2>1, StopsAt, IdleType
  <2>2. CASE ~Stops(p)
    BY <2>2 DEF TypeOK, Goes
  <2> QED
    BY <2>1, <2>2
<1> QED
  BY <1>1, Writers DEF StripeInv

LEMMA StripeStays ==
    ASSUME StripeInv, UNCHANGED <<stripe, charged, now>>, Underway' \subseteq Underway,
           \A a \in Activators : proc'[a].pc = "save" => proc'[a].sub \in charged'
    PROVE  StripeInv'
<1>1. \A e \in Underway' : Backed(e)'
  BY DEF StripeInv, Backed
<1> QED
  BY <1>1 DEF StripeInv

\* A subscription moves, and its event is underway.
LEMMA StripeMoves ==
    ASSUME TypeOK, StripeInv, NEW s \in Subs,
           NEW status \in {"active", "past_due", "incomplete", "incomplete_expired", "canceled"},
           stripe[s].status # "canceled",
           status = "canceled" => s \in charged \/ now <= TrialEnd,
           MoveTo(s, status),
           NEW e \in Event, e \in {Updated(s, status), Deleted(s)},
           e.kind = "deleted" => status = "canceled",
           Send({e}), worker' = worker, UNCHANGED now,
           \A a \in Activators : proc'[a].pc = "save" => proc'[a].sub \in charged'
    PROVE  StripeInv'
<1>1. /\ stripe' = [stripe EXCEPT ![s] = [status |-> status, endedAt |->
                     IF status = "canceled" THEN now ELSE NoTime]]
      /\ charged \subseteq charged'
      /\ status \in {"active", "past_due"} => s \in charged'
  BY DEF MoveTo
<1>2. \A u \in Subs : u # s => stripe'[u] = stripe[u]
  BY <1>1 DEF TypeOK
<1>3. /\ stripe'[s].status = status
      /\ status = "canceled" => stripe'[s].endedAt = now
  BY <1>1 DEF TypeOK
<1>4. \A u \in Subs :
        /\ stripe'[u].status \in {"active", "past_due"} => u \in charged'
        /\ stripe'[u].status = "trialing" => now' <= TrialEnd
  BY <1>1, <1>2, <1>3 DEF StripeInv
<1>5. Backed(e)'
  BY <1>1, <1>3 DEF Backed, Updated, Deleted
<1>6. ASSUME NEW f \in Underway PROVE Backed(f)'
  <2>1. Backed(f) /\ f \in Event
    BY DEF StripeInv, Underway
  <2>2. f.kind = "deleted" => f.sub \in Subs /\ f.sub # s
    BY <2>1, EventFields DEF Backed
  <2> QED
    BY <1>1, <1>2, <2>1, <2>2 DEF Backed
<1>7. Underway' \subseteq Underway \cup {e}
  BY DEF Underway, Send
<1> QED
  BY <1>4, <1>5, <1>6, <1>7 DEF StripeInv

LEMMA StripeInvStep ==
    ASSUME "lapse" \in Moves, TypeOK, FlowInv, StripeInv, [Next]_vars
    PROVE  StripeInv'
<1>0. WorkerInv /\ worker \in Records
  BY Writers DEF FlowInv, TypeOK, worker
<1>1. ASSUME UNCHANGED proc
      PROVE  /\ worker' = worker
             /\ charged \subseteq charged' =>
                  \A a \in Activators : proc'[a].pc = "save" => proc'[a].sub \in charged'
  BY <1>1 DEF worker, StripeInv
<1>2. CASE StripeStep
  <2>0. charged \subseteq charged' /\ UNCHANGED <<proc, now>>
    BY <1>2 DEF StripeStep, TrialLapses, Cancels, PaymentFails, Authenticates, CustomerGoes,
                External, MoveTo
  <2>1. ASSUME NEW s \in Subs, TrialLapses(s) \/ Cancels(s) PROVE StripeInv'
    <3>1. /\ stripe[s].status # "canceled" /\ MoveTo(s, "canceled") /\ Send({Deleted(s)})
          /\ s \in charged \/ now <= TrialEnd
      BY <2>1, ConstantsAssumption DEF TrialLapses, Cancels, StripeInv
    <3> QED
      BY <1>1, <2>0, <3>1, EventsMade, StripeMoves
  <2>2. ASSUME NEW s \in Subs, PaymentFails(s) \/ Authenticates(s) PROVE StripeInv'
    <3>1. PICK status \in {"past_due", "active", "incomplete_expired"} :
            /\ stripe[s].status # "canceled"
            /\ MoveTo(s, status) /\ Send({Updated(s, status)})
      BY <2>2 DEF PaymentFails, Authenticates
    <3>2. Updated(s, status) \in Event /\ Updated(s, status).kind = "updated"
      BY EventsMade DEF StripeStatuses, Updated
    <3> QED
      BY <1>1, <2>0, <3>1, <3>2, StripeMoves
  <2>3. CASE CustomerGoes
    <3> DEFINE events == {CustomerDeleted} \cup {Deleted(s) : s \in {u \in Subs : Live(u)}}
    <3>1. \A u \in Subs :
            stripe'[u] = IF Live(u) \/ stripe[u].status = "incomplete"
                         THEN [status |-> "canceled", endedAt |-> now] ELSE stripe[u]
      BY <2>3 DEF CustomerGoes
    <3>2. Send(events) /\ UNCHANGED charged
      BY <2>3 DEF CustomerGoes, External
    <3>3. \A u \in Subs :
            /\ stripe'[u].status \in {"active", "past_due"} => u \in charged'
            /\ stripe'[u].status = "trialing" => now' <= TrialEnd
      BY <2>0, <3>1, <3>2 DEF StripeInv, Live
    <3>4. ASSUME NEW e \in events PROVE Backed(e)'
      <4>1. CASE e = CustomerDeleted
        BY <4>1 DEF Backed, CustomerDeleted
      <4>2. CASE e # CustomerDeleted
        <5>1. PICK s \in Subs : Live(s) /\ e = Deleted(s)
          BY <4>2
        <5>2. stripe'[s].status = "canceled" /\ stripe'[s].endedAt = now
          BY <3>1, <5>1
        <5>3. s \in charged \/ now <= TrialEnd
          BY <5>1 DEF Live, StripeInv
        <5> QED
          BY <3>2, <5>1, <5>2, <5>3 DEF Backed, Deleted
      <4> QED
        BY <4>1, <4>2
    <3>5. ASSUME NEW f \in Underway PROVE Backed(f)'
      <4>1. Backed(f) /\ f \in Event
        BY DEF StripeInv, Underway
      <4>2. f.kind = "deleted" => f.sub \in Subs /\ stripe'[f.sub] = stripe[f.sub]
        BY <3>1, <4>1, EventFields DEF Backed, Live
      <4> QED
        BY <3>2, <4>1, <4>2 DEF Backed
    <3> HIDE DEF events
    <3>6. Underway' \subseteq Underway \cup events
      BY <1>1, <2>0, <3>2 DEF Underway, Send
    <3> QED
      BY <1>1, <2>0, <3>3, <3>4, <3>5, <3>6 DEF StripeInv
  <2> QED
    BY <1>2, <2>1, <2>2, <2>3 DEF StripeStep
<1>3. CASE Tick
  <2>1. worker'.ev = worker.ev /\ UNCHANGED <<stripeVars, queueVars>> /\ now' = now + 1
    BY <1>3, TickSparesWorker DEF Tick
  <2>2. \A s \in Subs : stripe[s].status = "trialing" => now < TrialEnd
    BY <1>3 DEF Tick
  <2>3. \A s \in Subs : stripe'[s].status = "trialing" => now' <= TrialEnd
    BY <2>1, <2>2, ConstantsAssumption DEF TypeOK, stripeVars
  <2>4. Underway' = Underway
    BY <2>1 DEF Underway, stripeVars, queueVars
  <2>5. \A a \in Activators : proc'[a] = proc[a]
    BY <1>3, Writers DEF Tick, TypeOK
  <2>6. \A e \in Underway : Backed(e)'
    BY <2>1 DEF StripeInv, Backed, stripeVars
  <2> QED
    BY <2>1, <2>3, <2>4, <2>5, <2>6 DEF StripeInv, stripeVars
<1>4. CASE \E e \in Event : Receive(e) \/ Redrive(e)
  <2>1. UNCHANGED <<stripe, charged, now, proc>> /\ Underway' \subseteq Underway
    BY <1>1, <1>4 DEF Receive, Redrive, Underway, stripeVars
  <2> QED
    BY <1>1, <2>1, StripeStays
<1>5. CASE WorkerStep \/ WorkerDies
  <2>1. UNCHANGED <<stripe, charged, sent, now>>
    BY <1>5 DEF WorkerStep, WorkerDies, Take, Update, Superseded, Stored, WriteGrace, Close,
                WorkerSynced, stripeVars
  <2>2. /\ \A q \in Procs : q # "worker" => proc'[q] = proc[q]
        /\ Underway' \subseteq Underway
    <3>1. CASE Handled
      BY <2>1, <3>1, HandledAt, IdleType, NoEventAssumption DEF Underway
    <3>2. ASSUME NEW e \in Event, Take(e)
          PROVE  /\ \A q \in Procs : q # "worker" => proc'[q] = proc[q]
                 /\ Underway' \subseteq Underway
      <4>1. worker'.ev = e /\ \A q \in Procs : q # "worker" => proc'[q] = proc[q]
        BY <3>2, Writers DEF Take, Goes, TypeOK, worker, Idle
      <4> QED
        BY <2>1, <3>2, <4>1 DEF Take, Underway
    <3>3. CASE (WorkerSynced \/ WorkerDies) /\ Again
      <4>1. worker.pc # "idle"
        BY <3>3 DEF WorkerSynced, WorkerDies, Synced, worker
      <4> QED
        BY <1>0, <2>1, <3>3, <4>1, AgainAt, IdleType, NoEventAssumption DEF Underway, queueVars
    <3>4. CASE (Superseded \/ Stored \/ WriteGrace) /\ ~Handled
      <4>1. PICK record \in {[worker EXCEPT !.pc = "close"], [worker EXCEPT !.pc = "stored"],
                             [worker EXCEPT !.pc = "write", !.grace = Window(worker.ev.sub)],
                             Syncing("worker", "write-locked")} :
              Goes("worker", record) /\ UNCHANGED queueVars
        BY <3>4 DEF Superseded, Stored, WriteGrace
      <4>2. record.ev = worker.ev
        BY <1>0, <4>1 DEF Records, Syncing, worker
      <4>3. worker'.ev = worker.ev /\ \A q \in Procs : q # "worker" => proc'[q] = proc[q]
        BY <4>1, <4>2, Writers DEF Goes, TypeOK, worker
      <4> QED
        BY <2>1, <4>1, <4>3 DEF Underway, queueVars
    <3> QED
      BY <1>5, <3>1, <3>2, <3>3, <3>4
         DEF WorkerStep, WorkerDies, Update, Close, WorkerSynced
  <2>3. \A a \in Activators : proc'[a] = proc[a]
    BY <2>2, Writers
  <2> QED
    BY <2>1, <2>2, <2>3, StripeStays DEF StripeInv
<1>6. ASSUME NEW a \in Activators, Create(a) \/ EndTrial(a) PROVE StripeInv'
  <2>0. worker' = worker /\ a \in Procs /\ a # "worker" /\ proc[a] \in Records
    BY <1>6, ElsewhereSparesWorker, Writers DEF Elsewhere, ActivatorStep, TypeOK
  <2>1. PICK s \in Subs, status \in {"active", "incomplete", "past_due"} :
          /\ stripe[s].status # "canceled" /\ MoveTo(s, status) /\ Send({Updated(s, status)})
          /\ \/ Stops(a)
             \/ status = "active" /\ Goes(a, [proc[a] EXCEPT !.pc = "save", !.sub = s])
    <3>1. CASE Create(a)
      BY <3>1 DEF Create
    <3>2. CASE EndTrial(a)
      <4>1. proc[a].sub \in Subs
        BY <2>0, <3>2 DEF EndTrial, Records
      <4>2. [proc[a] EXCEPT !.pc = "save"] = [proc[a] EXCEPT !.pc = "save", !.sub = proc[a].sub]
        BY <2>0 DEF Records
      <4> QED
        BY <3>2, <4>1, <4>2 DEF EndTrial, Live
    <3> QED
      BY <1>6, <3>1, <3>2
  <2>2. charged \subseteq charged' /\ (status = "active" => s \in charged')
    BY <2>1 DEF MoveTo
  <2>3. \A b \in Activators : proc'[b].pc = "save" => proc'[b].sub \in charged'
    <3>1. CASE Stops(a)
      BY <2>0, <2>2, <3>1, SavesKept
    <3>2. CASE ~Stops(a)
      <4>1. proc' = [proc EXCEPT ![a] = [proc[a] EXCEPT !.pc = "save", !.sub = s]]
        BY <2>1, <3>2 DEF Goes
      <4>2. proc'[a].sub = s /\ \A b \in Activators : b # a => proc'[b] = proc[b]
        BY <2>0, <4>1, Writers DEF TypeOK, Records
      <4> QED
        BY <2>1, <2>2, <3>2, <4>2 DEF StripeInv
    <3> QED
      BY <3>1, <3>2
  <2>4. Updated(s, status) \in Event /\ Updated(s, status).kind = "updated"
    BY EventsMade DEF StripeStatuses, Updated
  <2>5. UNCHANGED now
    BY <1>6 DEF Create, EndTrial
  <2> QED
    BY <2>0, <2>1, <2>3, <2>4, <2>5, StripeMoves
<1>7. CASE /\ Elsewhere
           /\ ~StripeStep /\ ~(\E e \in Event : Receive(e) \/ Redrive(e))
           /\ ~(\E a \in Activators : Create(a) \/ EndTrial(a))
  <2>1. UNCHANGED <<stripeVars, queueVars, now>>
    BY <1>7
       DEF Elsewhere, EnforcerStep, Enforce, EnforcerSynced, Cancel, RequestStep, FindLapsed,
           Lapse, UsageStep, ScanUsage, Meter, UsageSynced, Activate, ActivatorStep, Refused,
           Save, ActivationSynced, Dies, BillManually, EndManualBilling, ConfirmDeletion,
           Scrub, BillingUnchanged
  <2>2. worker' = worker
    BY <1>7, ElsewhereSparesWorker
  <2>3. \A a \in Activators : proc'[a].pc = "save" => proc'[a].sub \in charged'
    <3>1. CASE EnforcerStep \/ RequestStep \/ UsageStep
      <4>1. PICK p \in {"enforcer", "request", "usage"} : Stops(p) \/ \E record : Goes(p, record)
        BY <3>1 DEF EnforcerStep, Enforce, EnforcerSynced, Cancel, RequestStep, FindLapsed,
                    Lapse, UsageStep, ScanUsage, Meter, UsageSynced
      <4>2. \A a \in Activators : proc'[a] = proc[a]
        BY <4>1, Writers DEF Stops, Goes, TypeOK
      <4> QED
        BY <2>1, <4>2 DEF StripeInv, stripeVars
    <3>2. ASSUME NEW a \in Activators, Activate(a) \/ ActivatorStep(a)
          PROVE  \A b \in Activators : proc'[b].pc = "save" => proc'[b].sub \in charged'
      <4>1. Stops(a) \/ \E record : Goes(a, record) /\ record.pc # "save"
        <5>1. CASE Activate(a)
          <6> DEFINE record == [Idle EXCEPT !.pc = "charge",
                                !.sub = IF Ended(row.status) THEN NoSub ELSE row.sub]
          <6>1. record.pc = "charge"
            BY DEF Idle
          <6>2. Goes(a, record)
            BY <5>1 DEF Activate
          <6> QED
            BY <6>1, <6>2
        <5>2. CASE Save(a)
          BY <5>2, SyncingType, Writers DEF Save, TenantStatuses
        <5> QED
          BY <1>7, <3>2, <5>1, <5>2 DEF ActivatorStep, Refused, ActivationSynced
      <4> QED
        BY <2>1, <4>1, SavesKept, Writers DEF stripeVars
    <3>3. ASSUME NEW p \in Procs, Dies(p)
          PROVE  \A b \in Activators : proc'[b].pc = "save" => proc'[b].sub \in charged'
      BY <2>1, <3>3, SavesKept DEF Dies, stripeVars
    <3>4. CASE BillManually \/ EndManualBilling \/ ConfirmDeletion \/ Scrub
      BY <1>1, <2>1, <3>4 DEF BillManually, EndManualBilling, ConfirmDeletion, Scrub, stripeVars
    <3> QED
      BY <1>7, <3>1, <3>2, <3>3, <3>4 DEF Elsewhere
  <2> QED
    BY <2>1, <2>2, <2>3, StripeStays DEF Underway, stripeVars, queueVars
<1>8. ASSUME NEW p \in Procs, SyncStep(p) \/ SyncFailure(p) PROVE StripeInv'
  <2>1. PICK r \in Regions, mark \in Marks : Marked(p, r, mark)
    BY <1>8 DEF SyncStep, SyncFailure, Probe, SetTenant, SyncFails, Marks
  <2>2. \A q \in Procs : proc'[q].pc = proc[q].pc /\ proc'[q].sub = proc[q].sub
    BY <2>1, MarkedType
  <2>3. UNCHANGED <<stripe, charged, now>> /\ Underway' = Underway
    BY <1>8, SyncSparesWorker DEF BillingUnchanged, Underway, stripeVars, queueVars
  <2> QED
    BY <2>2, <2>3, StripeStays, Writers DEF StripeInv
<1>9. CASE UNCHANGED vars
  BY <1>1, <1>9, StripeStays DEF vars, stripeVars, queueVars, Underway
<1> QED
  BY <1>2, <1>3, <1>4, <1>5, <1>6, <1>7, <1>8, <1>9, StepIsEither

LEMMA ShortDates ==
    Short(NoTime) /\ Short(TrialEnd + TrialGrace)
BY ConstantsAssumption DEF Short, NoTime

LEMMA GraceElsewhere ==
    ASSUME GraceInv, charged \subseteq charged', row'.sub = row.sub,
           worker'.pc = worker.pc, worker'.ev = worker.ev, worker'.grace = worker.grace,
           row'.status \in {row.status, "grace_period", "canceled", "manual"},
           row'.grace \in {row.grace, NoTime, TrialEnd + TrialGrace}
    PROVE  GraceInv'
BY ShortDates DEF GraceInv, Short

\* What the steps elsewhere make of the row.
LEMMA RowElsewhere ==
    ASSUME "revert" \notin Moves, TypeOK, Elsewhere
    PROVE  /\ charged \subseteq charged'
           /\ \/ /\ row'.sub = row.sub
                 /\ row'.status \in {row.status, "grace_period", "canceled", "manual"}
                 /\ row'.grace \in {row.grace, NoTime, TrialEnd + TrialGrace}
                 /\ row'.ended => row.ended
              \/ \E a \in Activators :
                    /\ proc[a].pc = "save" /\ UNCHANGED charged
                    /\ row'.sub = proc[a].sub /\ ~row'.ended
<1>1. row \in Rows
  BY DEF TypeOK
<1>2. charged \subseteq charged'
  BY DEF Elsewhere, StripeStep, TrialLapses, Cancels, PaymentFails, Authenticates, CustomerGoes,
         External, MoveTo, Receive, Redrive, EnforcerStep, Enforce, EnforcerSynced, Cancel,
         RequestStep, FindLapsed, Lapse, UsageStep, ScanUsage, Meter, UsageSynced, Activate,
         ActivatorStep, Create, EndTrial, Refused, Save, ActivationSynced, Dies, BillManually,
         EndManualBilling, ConfirmDeletion, Scrub, BillingUnchanged, stripeVars
<1>3. CASE UNCHANGED row
  BY <1>2, <1>3
<1>4. CASE Cancel \/ Lapse \/ BillManually \/ Scrub
  BY <1>1, <1>2, <1>4 DEF Cancel, Lapse, BillManually, Scrub, Rows
<1>5. ASSUME NEW a \in Activators, Save(a), row' # row
      PROVE  /\ proc[a].pc = "save" /\ UNCHANGED charged
             /\ row'.sub = proc[a].sub /\ ~row'.ended
  BY <1>5 DEF Save, stripeVars
<1>6. \/ UNCHANGED row \/ Cancel \/ Lapse \/ BillManually \/ Scrub
      \/ \E a \in Activators : Save(a)
  BY DEF Elsewhere, StripeStep, TrialLapses, Cancels, PaymentFails, Authenticates, CustomerGoes,
         External, Receive, Redrive, EnforcerStep, Enforce, EnforcerSynced, RequestStep,
         FindLapsed, UsageStep, ScanUsage, Meter, UsageSynced, Activate, ActivatorStep, Create,
         EndTrial, Refused, ActivationSynced, Dies, EndManualBilling, Move, ConfirmDeletion,
         BillingUnchanged
<1> QED
  BY <1>2, <1>3, <1>4, <1>5, <1>6

\* The date the worker settles on for the row of a trial.
LEMMA ShortWindow ==
    ASSUME TypeOK, FlowInv, StripeInv, GraceInv, worker.pc = "stored",
           row.sub \notin charged, row.status # "manual"
    PROVE  Short(Window(worker.ev.sub))
<1>1. /\ worker.ev.sub = row.sub /\ Short(row.grace)
      /\ row.status \in {"trialing", "grace_period", "canceled"}
  BY DEF GraceInv
<1>2. worker.ev \in Event /\ worker.ev.kind = "deleted"
  BY DEF FlowInv, WorkerInv
<1>3. Backed(worker.ev)
  BY <1>2 DEF StripeInv, Underway
<1>4. stripe[row.sub].endedAt <= TrialEnd /\ stripe[row.sub].endedAt \in Nat
  BY <1>1, <1>2, <1>3, EventFields DEF Backed, TypeOK, Times
<1>5. stripe[row.sub].endedAt + TrialGrace <= TrialEnd + TrialGrace
  BY <1>4, ConstantsAssumption
<1> QED
  BY <1>1, <1>5 DEF Window, WasTrialing, Short

\* A step of the worker, by what it makes of the row.
LEMMA WorkerMoves ==
    ASSUME TypeOK, FlowInv, WorkerStep \/ WorkerDies
    PROVE  /\ UNCHANGED <<stripe, charged, sent, now>>
           /\ \/ UNCHANGED row /\ worker'.pc \notin {"stored", "write"}
              \/ /\ Superseded /\ UNCHANGED row
                 /\ worker'.pc = "stored" /\ worker'.ev = worker.ev /\ row.sub = worker.ev.sub
              \/ /\ Stored /\ row.status # "manual" /\ UNCHANGED row
                 /\ worker'.pc = "write" /\ worker'.ev = worker.ev
                 /\ worker'.grace = Window(worker.ev.sub)
              \/ WriteGrace /\ worker'.pc = "sync"
                 /\ row' = [row EXCEPT !.status = "grace_period", !.ended = TRUE,
                                       !.grace = worker.grace]
              \/ Update /\ row' # row /\ worker' = Idle
<1>0. worker \in Records /\ WorkerInv
  BY Writers DEF TypeOK, worker, FlowInv
<1>1. UNCHANGED <<stripe, charged, sent, now>>
  BY DEF WorkerStep, WorkerDies, Take, Update, Superseded, Stored, WriteGrace, Close,
         WorkerSynced, stripeVars
<1>2. CASE Handled /\ UNCHANGED row
  BY <1>1, <1>2, HandledAt, IdleType
<1>3. ASSUME NEW e \in Event, Take(e)
      PROVE  UNCHANGED row /\ worker'.pc \notin {"stored", "write"}
  <2>1. worker'.pc = First(e)
    BY <1>3, Writers DEF Take, Goes, TypeOK, worker, Idle
  <2> QED
    BY <1>3, <2>1, FirstStage DEF Take
<1>4. CASE (WorkerSynced \/ WorkerDies) /\ Again
  <2>1. worker.pc # "idle" /\ UNCHANGED row
    BY <1>4 DEF WorkerSynced, WorkerDies, Synced, worker
  <2>2. worker'.pc \notin {"stored", "write"}
    BY <1>0, <1>4, <2>1, AgainAt, IdleType, FirstStage DEF WorkerInv
  <2> QED
    BY <1>1, <2>1, <2>2
<1>5. CASE Superseded /\ ~Handled
  <2>1. UNCHANGED row /\ (gone \/ row.sub = worker.ev.sub)
    BY <1>5 DEF Superseded
  <2>2. \/ gone /\ worker' = [worker EXCEPT !.pc = "close"]
        \/ row.sub = worker.ev.sub /\ worker' = [worker EXCEPT !.pc = "stored"]
    BY <1>5, Writers DEF Superseded, Goes, TypeOK, worker
  <2> QED
    BY <1>0, <1>1, <1>5, <2>1, <2>2 DEF Records
<1>6. CASE Stored /\ ~Handled
  <2>1. row.status # "manual" /\ UNCHANGED row
    BY <1>6 DEF Stored
  <2>2. worker' = [worker EXCEPT !.pc = "write", !.grace = Window(worker.ev.sub)]
    BY <1>6, Writers DEF Stored, Goes, TypeOK, worker
  <2> QED
    BY <1>0, <1>1, <1>6, <2>1, <2>2 DEF Records
<1>7. CASE WriteGrace /\ ~(Handled /\ UNCHANGED row)
  <2>1. /\ row' = [row EXCEPT !.status = "grace_period", !.ended = TRUE, !.grace = worker.grace]
        /\ Goes("worker", Syncing("worker", "write-locked"))
    BY <1>7 DEF WriteGrace
  <2>2. worker'.pc = "sync"
    BY <2>1, SyncingType, GoesTo, Writers DEF worker, TenantStatuses
  <2> QED
    BY <1>1, <1>7, <2>1, <2>2
<1>8. CASE Update /\ row' # row
  BY <1>1, <1>8, HandledAt DEF Update
<1>9. \/ Handled /\ UNCHANGED row
      \/ \E e \in Event : Take(e)
      \/ (WorkerSynced \/ WorkerDies) /\ Again
      \/ (Superseded \/ Stored) /\ ~Handled
      \/ WriteGrace /\ ~(Handled /\ UNCHANGED row)
      \/ Update /\ row' # row
  BY DEF WorkerStep, WorkerDies, Update, Superseded, Stored, WriteGrace, Close, WorkerSynced
<1> QED
  BY <1>1, <1>2, <1>3, <1>4, <1>5, <1>6, <1>7, <1>8, <1>9

LEMMA GraceInvStep ==
    ASSUME "revert" \notin Moves, TypeOK, FlowInv, StripeInv, GraceInv, [Next]_vars
    PROVE  GraceInv'
<1>0. row \in Rows
  BY DEF TypeOK
<1>1. CASE WorkerStep \/ WorkerDies
  <2>1. CASE Superseded /\ worker'.pc = "stored" /\ worker'.ev = worker.ev
             /\ row.sub = worker.ev.sub /\ UNCHANGED row
    BY <1>1, <2>1, WorkerMoves DEF GraceInv
  <2>2. CASE /\ Stored /\ row.status # "manual" /\ UNCHANGED row
             /\ worker'.pc = "write" /\ worker'.ev = worker.ev
             /\ worker'.grace = Window(worker.ev.sub)
    <3>1. worker.pc = "stored"
      BY <2>2 DEF Stored
    <3> QED
      BY <1>1, <2>2, <3>1, WorkerMoves, ShortWindow DEF GraceInv, Short
  <2>3. CASE /\ WriteGrace /\ worker'.pc = "sync"
             /\ row' = [row EXCEPT !.status = "grace_period", !.ended = TRUE,
                                   !.grace = worker.grace]
    <3>1. worker.pc = "write" /\ row'.sub = row.sub /\ row'.status = "grace_period"
          /\ row'.grace = worker.grace
      BY <1>0, <2>3 DEF WriteGrace, Rows
    <3> QED
      BY <1>1, <2>3, <3>1, WorkerMoves DEF GraceInv, Short
  <2>4. CASE Update /\ row' # row /\ worker' = Idle
    <3>1. /\ row' = [row EXCEPT !.sub = worker.ev.sub, !.status = Mapped(worker.ev.status),
                                !.ended = FALSE, !.grace = NoTime]
          /\ worker.ev.status # "incomplete" /\ worker.pc = "update"
      BY <2>4 DEF Update
    <3>2. row'.sub = worker.ev.sub /\ row'.status = Mapped(worker.ev.status)
          /\ row'.grace = NoTime
      BY <1>0, <3>1 DEF Rows
    <3>3. worker.ev \in Event /\ worker.ev.kind = "updated"
      BY <3>1 DEF FlowInv, WorkerInv
    <3>4. worker.ev.status \in {"active", "past_due"} => worker.ev.sub \in charged
      BY <3>3 DEF StripeInv, Underway, Backed
    <3>5. worker.ev.status \notin {"active", "past_due"}
            => Mapped(worker.ev.status) \in {"trialing", "canceled"}
      BY <3>1, <3>3, EventFields DEF Mapped, StripeStatuses
    <3> QED
      BY <1>1, <2>4, <3>2, <3>4, <3>5, WorkerMoves, ShortDates, IdleType DEF GraceInv, Short
  <2>5. CASE UNCHANGED row /\ worker'.pc \notin {"stored", "write"}
    BY <1>1, <2>5, WorkerMoves DEF GraceInv, Short
  <2> QED
    BY <1>1, <2>1, <2>2, <2>3, <2>4, <2>5, WorkerMoves
<1>2. CASE Elsewhere
  <2>1. worker' = worker
    BY <1>2, ElsewhereSparesWorker
  <2>2. ASSUME NEW a \in Activators, proc[a].pc = "save", UNCHANGED charged,
               row'.sub = proc[a].sub
        PROVE  GraceInv'
    BY <2>2 DEF StripeInv, GraceInv
  <2> QED
    BY <1>2, <2>1, <2>2, RowElsewhere, GraceElsewhere
<1>3. CASE Tick
  BY <1>3, TickSparesWorker, IdleType DEF Tick, GraceInv, Short, stripeVars
<1>4. CASE \E p \in Procs : SyncStep(p) \/ SyncFailure(p)
  BY <1>4, SyncSparesWorker, GraceElsewhere DEF BillingUnchanged, stripeVars
<1>5. CASE UNCHANGED vars
  BY <1>5, GraceElsewhere DEF vars, worker, stripeVars
<1> QED
  BY <1>1, <1>2, <1>3, <1>4, <1>5, StepIsEither

\* Unless operators revert one to Stripe, a trial nobody paid for has the grace of
\* a trial and no more, in whatever order events, requests and activations come.
THEOREM UnpaidGraceKeptShort ==
    ASSUME "lapse" \in Moves, "revert" \notin Moves
    PROVE  Spec => []UnpaidGraceIsShort
<1>1. Init => StripeInv /\ GraceInv
  <2> SUFFICES ASSUME Init PROVE StripeInv /\ GraceInv
    OBVIOUS
  <2>1. /\ \A p \in Procs : proc[p] = Idle
        /\ worker = Idle
    BY Writers DEF Init, worker
  <2>2. Underway = {}
    BY <2>1, IdleType, NoEventAssumption DEF Init, Underway
  <2>3. \A s \in Subs : stripe[s].status \in {"none", "trialing"} /\ now <= TrialEnd
    BY ConstantsAssumption DEF Init
  <2>4. StripeInv
    BY <2>1, <2>2, <2>3, IdleType, Writers DEF StripeInv
  <2>5. GraceInv
    BY <2>1, IdleType, ShortDates DEF Init, GraceInv
  <2> QED
    BY <2>4, <2>5
<1>2. TypeOK /\ FlowInv /\ StripeInv /\ GraceInv /\ [Next]_vars => StripeInv' /\ GraceInv'
  BY StripeInvStep, GraceInvStep
<1>3. GraceInv => UnpaidGraceIsShort
  BY DEF GraceInv, UnpaidGraceIsShort, Short
<1> QED
  BY <1>1, <1>2, <1>3, FlowAlways, PTL DEF Spec

LEMMA DateInvStep ==
    ASSUME "revert" \notin Moves, TypeOK, FlowInv, DateInv, [Next]_vars
    PROVE  DateInv'
<1>1. CASE WorkerStep \/ WorkerDies
  <2>1. CASE /\ Stored /\ row.status # "manual" /\ UNCHANGED row
             /\ worker'.pc = "write" /\ worker'.ev = worker.ev
             /\ worker'.grace = Window(worker.ev.sub)
    BY <2>1 DEF DateInv, Window
  <2>2. CASE worker'.pc # "write"
    BY <2>2 DEF DateInv
  <2> QED
    BY <1>1, <2>1, <2>2, WorkerMoves, IdleType
<1>2. CASE Elsewhere
  BY <1>2, ElsewhereSparesWorker, RowElsewhere DEF DateInv
<1>3. CASE Tick
  BY <1>3, TickSparesWorker, IdleType DEF DateInv
<1>4. CASE \E p \in Procs : SyncStep(p) \/ SyncFailure(p)
  BY <1>4, SyncSparesWorker DEF BillingUnchanged, DateInv
<1>5. CASE UNCHANGED vars
  BY <1>5 DEF vars, worker, DateInv
<1> QED
  BY <1>1, <1>2, <1>3, <1>4, <1>5, StepIsEither

\* Unless operators revert one to Stripe, a delivery that dates a cancellation is
\* the last to move the date, however often the event comes or is put back.
THEOREM CancellationDatedOnce ==
    ASSUME "revert" \notin Moves
    PROVE  Spec => DatedOnce
<1>1. Init => DateInv
  BY Writers, IdleType DEF Init, DateInv, worker
<1>2. TypeOK /\ FlowInv /\ DateInv /\ [Next]_vars => DateInv'
  BY DateInvStep
<1>3. ASSUME TypeOK, FlowInv, DateInv, [Next]_vars
      PROVE  \/ worker' = worker \/ UNCHANGED row \/ ~row'.ended
             \/ row.ended /\ row.grace \notin {NoTime, TrialEnd + TrialGrace}
                  => row'.grace = row.grace
  <2>0. row \in Rows
    BY <1>3 DEF TypeOK
  <2>1. CASE WorkerStep \/ WorkerDies
    <3>1. CASE WriteGrace /\ row' = [row EXCEPT !.status = "grace_period", !.ended = TRUE,
                                                !.grace = worker.grace]
      <4>1. worker.pc = "write" /\ row'.grace = worker.grace
        BY <2>0, <3>1 DEF WriteGrace, Rows
      <4> QED
        BY <1>3, <4>1 DEF DateInv
    <3>2. CASE Update /\ row' # row
      BY <2>0, <3>2 DEF Update, Rows
    <3> QED
      BY <1>3, <2>1, <3>1, <3>2, WorkerMoves
  <2>2. CASE Elsewhere
    BY <1>3, <2>2, ElsewhereSparesWorker
  <2>3. CASE Tick
    BY <2>3 DEF Tick
  <2>4. CASE \E p \in Procs : SyncStep(p) \/ SyncFailure(p)
    BY <1>3, <2>4, SyncSparesWorker DEF BillingUnchanged
  <2>5. CASE UNCHANGED vars
    BY <2>5 DEF vars
  <2> QED
    BY <1>3, <2>1, <2>2, <2>3, <2>4, <2>5, StepIsEither
<1>4. TypeOK /\ FlowInv /\ DateInv /\ [Next]_vars =>
        [row.ended /\ row'.ended
           /\ row.grace \notin {NoTime, TrialEnd + TrialGrace}
           /\ proc'["worker"] # proc["worker"] => row'.grace = row.grace]_vars
  BY <1>3 DEF worker
<1> QED
  BY <1>1, <1>2, <1>4, FlowAlways, PTL DEF Spec, DatedOnce

=============================================================================
