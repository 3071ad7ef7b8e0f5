------------------------------- MODULE Billing -------------------------------
(***************************************************************************)
(* One organization's subscription row, and everything that writes it.     *)
(*                                                                         *)
(* Stripe tells of a change by an event.  A webhook queues an event it has *)
(* not marked as received, and Stripe may deliver one late, twice, or      *)
(* after a later one.  A worker takes one event of the customer at a time: *)
(* one that fails is received again, and parked when it has been received  *)
(* too often, from where an operator may put it back.                      *)
(*                                                                         *)
(* No event is waited for by the others who write the row: a request that  *)
(* finds the trial over moves it into its grace period, an Owner activates *)
(* a subscription, a daily enforcer ends grace periods, operators take the *)
(* organization over to manual billing, and a deletion scrubs the row.     *)
(* Each reads the row in one step and writes it in a later one, and most   *)
(* then bring the tenants of the organization's regions in line, each      *)
(* region probed in one step and updated in another.                       *)
(*                                                                         *)
(* Time passes in steps.  An operator named Bug... is a definition broken  *)
(* on purpose, and no part of Next.                                        *)
(***************************************************************************)
EXTENDS Integers, FiniteSets

CONSTANTS
    Subs,         \* Stripe subscription ids, those in use and those to come
    Trial,        \* of those, the one the trial is
    Regions,      \* regions the organization has a tenant in
    Activators,   \* activations in flight (a bound)
    Others,       \* which of the other writers take part
    Moves,        \* what Stripe and the operators do
    TrialEnd,     \* when the trial ends; the time starts at 1
    TrialGrace,   \* TRIAL_GRACE_DAYS
    PaidGrace,    \* PAID_GRACE_DAYS
    MaxTime,      \* the time does not pass this (a bound)
    MaxReceives,  \* how often the queue hands an event out before parking it
    MaxMoves,     \* how many of Moves are made, lapses and redrives aside (a bound)
    MaxBusy,      \* how many invocations run at once (a bound)
    MaxFailures,  \* region syncs and commits that fail, invocations that die (a bound)
    NoSub, NoEvent

AllOthers == {"enforcer", "request", "usage"}
AllMoves == {"lapse", "cancel", "pastDue", "authenticate", "expire",
             "customer", "manual", "revert", "delete", "redrive"}

ASSUME ConstantsAssumption ==
    /\ Trial \in Subs
    /\ NoSub \notin Subs
    /\ Others \subseteq AllOthers
    /\ Moves \subseteq AllMoves
    /\ Activators \cap (AllOthers \cup {"worker"}) = {}
    /\ TrialEnd \in Nat \ {0}
    /\ TrialGrace \in Nat
    /\ PaidGrace \in Nat
    /\ TrialGrace <= PaidGrace
    /\ MaxTime \in Nat
    /\ MaxReceives \in Nat \ {0}
    /\ MaxFailures \in Nat
    /\ MaxMoves \in Nat
    /\ MaxBusy \in Nat

Procs == {"worker"} \cup AllOthers \cup Activators

Statuses == {"trialing", "active", "past_due", "grace_period", "canceled", "manual"}
StripeStatuses == {"none", "incomplete", "incomplete_expired", "trialing", "active",
                   "past_due", "canceled"}
TenantStatuses == {"active", "write-locked", "disabled"}
Gone == "gone"

NoTime == 0
Times == Nat

Event == [kind : {"updated"}, sub : Subs, status : StripeStatuses \ {"none"}]
         \cup [kind : {"deleted"}, sub : Subs, status : {"canceled"}]
         \cup [kind : {"customer"}, sub : {NoSub}, status : {"canceled"}]

Updated(s, status) == [kind |-> "updated", sub |-> s, status |-> status]
Deleted(s) == [kind |-> "deleted", sub |-> s, status |-> "canceled"]
CustomerDeleted == [kind |-> "customer", sub |-> NoSub, status |-> "canceled"]

ASSUME NoEventAssumption == NoEvent \notin Event

VARIABLES
    row,       \* the subscription row; ended is whether it has a canceledAt
    deletion,  \* the organization's: none, then its fence, then the scrub
    stripe,    \* Stripe's subscriptions: their status and when they ended
    gone,      \* whether the Stripe customer is deleted
    charged,   \* subscriptions that were charged for, or tried to be (history)
    sent,      \* events Stripe has for delivery
    marks,     \* events marked as received
    queued,    \* events in the queue
    handled,   \* events the worker is done with
    parked,    \* events in the dead-letter queue
    tenant,    \* the status of each region's tenant, or that it is gone
    proc,      \* where each writer is
    now,
    moves,     \* how many moves were made
    failures

vars == <<row, deletion, stripe, gone, charged, sent, marks, queued, handled,
          parked, tenant, proc, now, moves, failures>>

stripeVars == <<stripe, gone, charged, sent>>
queueVars == <<marks, queued, handled, parked>>

Rows == [status : Statuses, sub : Subs, ended : BOOLEAN, grace : Times,
         trial : BOOLEAN]

Stages == {"idle", "update", "superseded", "stored", "write", "close",
           "charge", "save", "lapse", "meter", "sync", "cancel", "done"}

Marks == {"todo", "differs", "settled", "failed"}

Records == [pc : Stages, ev : Event \cup {NoEvent}, tries : Nat,
            sub : Subs \cup {NoSub}, grace : Times,
            trial : BOOLEAN, want : TenantStatuses, seen : [Regions -> Marks]]

Idle == [pc |-> "idle", ev |-> NoEvent, tries |-> 0, sub |-> NoSub,
         grace |-> NoTime, trial |-> FALSE, want |-> "active",
         seen |-> [r \in Regions |-> "settled"]]

TypeOK ==
    /\ row \in Rows
    /\ deletion \in {"none", "fenced", "scrubbed"}
    /\ stripe \in [Subs -> [status : StripeStatuses, endedAt : Times]]
    /\ gone \in BOOLEAN
    /\ charged \subseteq Subs
    /\ sent \subseteq Event
    /\ marks \subseteq Event
    /\ queued \subseteq Event
    /\ handled \subseteq Event
    /\ parked \subseteq Event
    /\ tenant \in [Regions -> TenantStatuses \cup {Gone}]
    /\ proc \in [Procs -> Records]
    /\ now \in Nat
    /\ moves \in Nat
    /\ failures \in 0..MaxFailures

\* A claimed trial, the event of its creation done with.
Init ==
    /\ row = [status |-> "trialing", sub |-> Trial, ended |-> FALSE,
              grace |-> NoTime, trial |-> TRUE]
    /\ deletion = "none"
    /\ stripe = [s \in Subs |->
                    [status |-> IF s = Trial THEN "trialing" ELSE "none",
                     endedAt |-> NoTime]]
    /\ gone = FALSE
    /\ charged = {}
    /\ sent = {}
    /\ marks = {} /\ queued = {} /\ handled = {} /\ parked = {}
    /\ tenant = [r \in Regions |-> "active"]
    /\ proc = [p \in Procs |-> Idle]
    /\ now = 1
    /\ moves = 0
    /\ failures = 0

-----------------------------------------------------------------------------
(* Stripe *)

Live(s) == stripe[s].status \in {"trialing", "active", "past_due"}

\* Two events that say the same are one: the later is received anew.
Send(events) ==
    /\ sent' = sent \cup events
    /\ marks' = marks \ events
    /\ handled' = handled \ events
    /\ UNCHANGED <<queued, parked>>

\* A subscription's status changes, and Stripe has an event that says so.
MoveTo(s, status) ==
    /\ stripe' = [stripe EXCEPT ![s] = [status |-> status, endedAt |->
                    IF status = "canceled" THEN now ELSE NoTime]]
    /\ charged' = IF status \in {"active", "past_due"} THEN charged \cup {s} ELSE charged

\* What is not done of itself.
Move(kind) ==
    /\ kind \in Moves
    /\ moves < MaxMoves
    /\ moves' = moves + 1

External == <<row, deletion, tenant, proc, now, failures>>

\* A trial that ends without a payment method is canceled when it ends.
TrialLapses(s) ==
    /\ "lapse" \in Moves
    /\ stripe[s].status = "trialing" /\ now = TrialEnd
    /\ MoveTo(s, "canceled")
    /\ Send({Deleted(s)})
    /\ UNCHANGED <<gone, moves, External>>

Cancels(s) ==
    /\ Move("cancel")
    /\ stripe[s].status \in {"active", "past_due"}
    /\ MoveTo(s, "canceled")
    /\ Send({Deleted(s)})
    /\ UNCHANGED <<gone, External>>

PaymentFails(s) ==
    /\ Move("pastDue")
    /\ stripe[s].status = "active"
    /\ MoveTo(s, "past_due")
    /\ Send({Updated(s, "past_due")})
    /\ UNCHANGED <<gone, External>>

\* The first payment needed authentication: it is given, or given up on.
Authenticates(s) ==
    /\ stripe[s].status = "incomplete"
    /\ \/ /\ Move("authenticate")
          /\ MoveTo(s, "active")
          /\ Send({Updated(s, "active")})
       \/ /\ Move("expire")
          /\ MoveTo(s, "incomplete_expired")
          /\ Send({Updated(s, "incomplete_expired")})
    /\ UNCHANGED <<gone, External>>

\* An admin deletes the customer, or a teardown does: its subscriptions go too.
CustomerGoes ==
    /\ \/ Move("customer")
       \/ deletion = "fenced" /\ UNCHANGED moves
    /\ ~gone
    /\ gone' = TRUE
    /\ stripe' = [s \in Subs |->
                    IF Live(s) \/ stripe[s].status = "incomplete"
                    THEN [status |-> "canceled", endedAt |-> now]
                    ELSE stripe[s]]
    /\ Send({CustomerDeleted} \cup {Deleted(s) : s \in {u \in Subs : Live(u)}})
    /\ UNCHANGED <<charged, External>>

\* A step is a day, and an invocation is over in minutes: no time passes while
\* one runs.  Stripe ends a trial on time, so none passes over one that is due.
Tick ==
    /\ now < MaxTime
    /\ \A p \in Procs : proc[p].pc \in {"idle", "done"}
    /\ "lapse" \in Moves =>
         \A s \in Subs : stripe[s].status = "trialing" => now < TrialEnd
    /\ now' = now + 1
    /\ proc' = [p \in Procs |-> IF p \in Activators THEN proc[p] ELSE Idle]
    /\ UNCHANGED <<row, deletion, stripeVars, queueVars, tenant, moves, failures>>

-----------------------------------------------------------------------------
(* The webhook and the queue *)

BugReceive(e) ==
    /\ e \in sent \ marks
    /\ \/ queued' = queued \cup {e}
       \/ UNCHANGED queued
    /\ marks' = marks \cup {e}
    /\ UNCHANGED <<handled, parked, stripeVars, row, deletion, tenant, proc, now,
                   moves, failures>>

\* Queued first and marked after, so a mark that is lost only lets the event
\* be received again.
Receive(e) ==
    /\ e \in sent \ marks
    /\ queued' = queued \cup {e}
    /\ \/ marks' = marks \cup {e} /\ UNCHANGED failures
       \/ failures < MaxFailures /\ failures' = failures + 1 /\ UNCHANGED marks
    /\ UNCHANGED <<handled, parked, stripeVars, row, deletion, tenant, proc, now,
                   moves>>

Redrive(e) ==
    /\ "redrive" \in Moves
    /\ e \in parked
    /\ parked' = parked \ {e}
    /\ queued' = queued \cup {e}
    /\ UNCHANGED <<marks, handled, stripeVars, row, deletion, tenant, proc, now,
                   moves, failures>>

-----------------------------------------------------------------------------
(* Bringing the tenants in line, whoever asks *)

Resting == {"idle", "done"}
Busy == {p \in Procs : proc[p].pc \notin Resting}
Starts(p) == proc[p].pc = "idle" /\ Cardinality(Busy) < MaxBusy

Goes(p, record) == proc' = [proc EXCEPT ![p] = record]
\* A slot for an activation serves one, and a scheduled job runs once a day; for
\* the enforcer, the last day stands for all that follow.
Stops(p) ==
    Goes(p, IF p \in Activators \cup {"usage"} \/ (p = "enforcer" /\ now < MaxTime)
            THEN [Idle EXCEPT !.pc = "done"] ELSE Idle)

\* From here on p brings every region to the status want.
Syncing(p, want) ==
    [proc[p] EXCEPT !.pc = "sync", !.want = want,
                    !.seen = [r \in Regions |-> "todo"]]

Marked(p, r, mark) == Goes(p, [proc[p] EXCEPT !.seen = [proc[p].seen EXCEPT ![r] = mark]])

BillingUnchanged == <<row, deletion, stripeVars, queueVars, now, moves>>

\* A disabled tenant is not brought down to a write lock.
InLine(r, want) ==
    \/ tenant[r] \in {want, Gone}
    \/ tenant[r] = "disabled" /\ want = "write-locked"

Probe(p, r) ==
    /\ proc[p].pc = "sync" /\ proc[p].seen[r] = "todo"
    /\ Marked(p, r, IF InLine(r, proc[p].want) THEN "settled" ELSE "differs")
    /\ UNCHANGED <<BillingUnchanged, tenant, failures>>

SetTenant(p, r) ==
    /\ proc[p].pc = "sync" /\ proc[p].seen[r] = "differs"
    /\ tenant[r] # Gone
    /\ tenant' = [tenant EXCEPT ![r] = proc[p].want]
    /\ Marked(p, r, "settled")
    /\ UNCHANGED <<BillingUnchanged, failures>>

SyncFails(p, r) ==
    /\ proc[p].pc = "sync" /\ proc[p].seen[r] \in {"todo", "differs"}
    /\ \/ proc[p].seen[r] = "differs" /\ tenant[r] = Gone /\ UNCHANGED failures
       \/ failures < MaxFailures /\ failures' = failures + 1
    /\ Marked(p, r, "failed")
    /\ UNCHANGED <<BillingUnchanged, tenant>>

Synced(p) ==
    /\ proc[p].pc = "sync"
    /\ \A r \in Regions : proc[p].seen[r] \in {"settled", "failed"}

SyncFailed(p) == \E r \in Regions : proc[p].seen[r] = "failed"

-----------------------------------------------------------------------------
(* The worker *)

worker == proc["worker"]

First(e) == CASE e.kind = "updated" -> "update"
              [] e.kind = "deleted" -> "superseded"
              [] OTHER -> "close"

Take(e) ==
    /\ Starts("worker")
    /\ e \in queued
    /\ queued' = queued \ {e}
    /\ Goes("worker", [Idle EXCEPT !.pc = First(e), !.ev = e])
    /\ UNCHANGED <<row, deletion, stripeVars, marks, handled, parked, tenant,
                   now, moves, failures>>

\* The event is done with; the record that says so is best effort.
Handled ==
    /\ handled' = handled \cup {worker.ev}
    /\ Stops("worker")
    /\ UNCHANGED <<marks, queued, parked>>

BugMapped(status) == status

\* What Stripe's status is to the row; an expired subscription was never charged.
Mapped(status) == IF status = "incomplete_expired" THEN "canceled" ELSE status

\* The event is handed out again, from the start, or parked.
Again ==
    IF worker.tries + 1 < MaxReceives
    THEN /\ Goes("worker", [Idle EXCEPT !.pc = First(worker.ev), !.ev = worker.ev,
                                        !.tries = worker.tries + 1])
         /\ UNCHANGED queueVars
    ELSE /\ parked' = parked \cup {worker.ev}
         /\ Stops("worker")
         /\ UNCHANGED <<marks, queued, handled>>

Guarded == deletion # "scrubbed"
NotBilledManually == row.status # "manual"

\* The row takes the status of the event, unless the event is about the
\* subscription whose end it has recorded.  A refusal is no error, and an
\* incomplete subscription is none yet.
Update ==
    /\ worker.pc = "update"
    /\ LET s == worker.ev.sub
           status == worker.ev.status
       IN  row' = IF /\ status # "incomplete"
                     /\ Guarded /\ NotBilledManually
                     /\ ~row.ended \/ row.sub # s
                  THEN [row EXCEPT !.sub = s, !.status = Mapped(status),
                                   !.ended = FALSE, !.grace = NoTime]
                  ELSE row
    /\ Handled
    /\ UNCHANGED <<deletion, stripeVars, tenant, now, moves, failures>>

\* Asks Stripe for the customer and the row for its subscription.
Superseded ==
    /\ worker.pc = "superseded"
    /\ IF gone THEN /\ Goes("worker", [worker EXCEPT !.pc = "close"])
                    /\ UNCHANGED queueVars
       ELSE IF row.sub # worker.ev.sub THEN Handled
       ELSE /\ Goes("worker", [worker EXCEPT !.pc = "stored"])
            /\ UNCHANGED queueVars
    /\ UNCHANGED <<row, deletion, stripeVars, tenant, now, moves, failures>>

BugWasTrialing == row.status \in {"trialing", "grace_period"}

WasTrialing == row.status \in {"trialing", "grace_period", "canceled"}

BugWindow(s) ==
    stripe[s].endedAt + (IF WasTrialing THEN TrialGrace ELSE PaidGrace)

\* The dates a row has are kept; others count from when Stripe ended it.
Window(s) ==
    IF row.ended /\ row.grace # NoTime THEN row.grace
    ELSE stripe[s].endedAt + (IF WasTrialing THEN TrialGrace ELSE PaidGrace)

BugStored ==
    /\ worker.pc = "stored"
    /\ IF row.status = "manual"
       THEN /\ queued' = queued \cup {worker.ev}
            /\ Stops("worker")
            /\ UNCHANGED <<marks, handled, parked>>
       ELSE /\ Goes("worker", [worker EXCEPT !.pc = "write",
                                             !.grace = Window(worker.ev.sub)])
            /\ UNCHANGED queueVars
    /\ UNCHANGED <<row, deletion, stripeVars, tenant, now, moves, failures>>

Stored ==
    /\ worker.pc = "stored"
    /\ IF row.status = "manual" THEN Handled
       ELSE /\ Goes("worker", [worker EXCEPT !.pc = "write",
                                             !.grace = Window(worker.ev.sub)])
            /\ UNCHANGED queueVars
    /\ UNCHANGED <<row, deletion, stripeVars, tenant, now, moves, failures>>

BugWriteGrace ==
    /\ worker.pc = "write"
    /\ IF Guarded
       THEN /\ row' = [row EXCEPT !.status = "grace_period", !.ended = TRUE,
                                  !.grace = worker.grace]
            /\ Goes("worker", Syncing("worker", "write-locked"))
            /\ UNCHANGED queueVars
       ELSE Handled /\ UNCHANGED row
    /\ UNCHANGED <<deletion, stripeVars, tenant, now, moves, failures>>

\* The row is asked again whether it is billed by hand, and not whether it
\* still names the subscription.
WriteGrace ==
    /\ worker.pc = "write"
    /\ IF Guarded /\ NotBilledManually
       THEN /\ row' = [row EXCEPT !.status = "grace_period", !.ended = TRUE,
                                  !.grace = worker.grace]
            /\ Goes("worker", Syncing("worker", "write-locked"))
            /\ UNCHANGED queueVars
       ELSE Handled /\ UNCHANGED row
    /\ UNCHANGED <<deletion, stripeVars, tenant, now, moves, failures>>

\* The organization of a customer that is gone goes too.
Fenced == IF deletion = "none" /\ NotBilledManually THEN "fenced" ELSE deletion

\* It never throws: a deletion that could not be committed is logged, and the
\* caller goes on.
StartDeletionFromStripe ==
    \/ deletion' = Fenced /\ UNCHANGED failures
    \/ failures < MaxFailures /\ failures' = failures + 1 /\ UNCHANGED deletion

Close ==
    /\ worker.pc = "close"
    /\ StartDeletionFromStripe
    /\ Handled
    /\ UNCHANGED <<row, stripeVars, tenant, now, moves>>

\* A region that failed fails the event.
WorkerSynced ==
    /\ Synced("worker")
    /\ IF SyncFailed("worker") THEN Again ELSE Handled
    /\ UNCHANGED <<row, deletion, stripeVars, tenant, now, moves, failures>>

WorkerDies ==
    /\ worker.pc # "idle"
    /\ failures < MaxFailures
    /\ failures' = failures + 1
    /\ Again
    /\ UNCHANGED <<row, deletion, stripeVars, tenant, now, moves>>

-----------------------------------------------------------------------------
(* The enforcer of grace periods *)

enforcer == proc["enforcer"]

\* A grace period that is over is ended, one that is not is write-locked.
Enforce ==
    /\ "enforcer" \in Others
    /\ Starts("enforcer")
    /\ row.status = "grace_period" /\ deletion = "none"
    /\ Goes("enforcer", Syncing("enforcer",
            IF row.grace # NoTime /\ row.grace < now THEN "disabled"
            ELSE "write-locked"))
    /\ UNCHANGED <<BillingUnchanged, tenant, failures>>

BugEnforcerSynced ==
    /\ Synced("enforcer")
    /\ IF enforcer.want = "disabled"
       THEN Goes("enforcer", [enforcer EXCEPT !.pc = "cancel"])
       ELSE Stops("enforcer")
    /\ UNCHANGED <<BillingUnchanged, tenant, failures>>

\* An organization is canceled once all of its tenants are disabled.
EnforcerSynced ==
    /\ Synced("enforcer")
    /\ IF enforcer.want = "disabled" /\ ~SyncFailed("enforcer")
       THEN Goes("enforcer", [enforcer EXCEPT !.pc = "cancel"])
       ELSE Stops("enforcer")
    /\ UNCHANGED <<BillingUnchanged, tenant, failures>>

\* Whatever the row has come to be.
Cancel ==
    /\ enforcer.pc = "cancel"
    /\ row' = [row EXCEPT !.status = "canceled"]
    /\ Stops("enforcer")
    /\ UNCHANGED <<deletion, stripeVars, queueVars, tenant, now, moves, failures>>

-----------------------------------------------------------------------------
(* Requests: a trial found over, and an activation *)

\* Both ways a request looks at the row: the guard's and the billing page's.
FindLapsed ==
    /\ "request" \in Others
    /\ Starts("request")
    /\ deletion = "none"
    /\ row.status = "trialing" /\ row.trial /\ TrialEnd < now
    /\ Goes("request", [Idle EXCEPT !.pc = "lapse"])
    /\ UNCHANGED <<BillingUnchanged, tenant, failures>>

\* Whatever the row has come to be.
Lapse ==
    /\ proc["request"].pc = "lapse"
    /\ row' = [row EXCEPT !.status = "grace_period", !.grace = TrialEnd + TrialGrace]
    /\ Stops("request")
    /\ UNCHANGED <<deletion, stripeVars, queueVars, tenant, now, moves, failures>>

Ended(status) == status \in {"grace_period", "canceled"}

\* Reads the fence and the row: what has ended is replaced, and what has not is
\* charged from now on.
Activate(a) ==
    /\ a \in Activators
    /\ Starts(a)
    /\ deletion = "none"
    /\ NotBilledManually
    /\ Goes(a, [Idle EXCEPT !.pc = "charge",
                            !.sub = IF Ended(row.status) THEN NoSub ELSE row.sub])
    /\ UNCHANGED <<BillingUnchanged, tenant, failures>>

\* Stripe creates a subscription, which may want authentication first.
Create(a) ==
    /\ proc[a].pc = "charge" /\ proc[a].sub = NoSub
    /\ ~gone
    /\ \E s \in Subs, status \in {"active", "incomplete"} :
          /\ stripe[s].status = "none"
          /\ MoveTo(s, status)
          /\ Send({Updated(s, status)})
          /\ IF status = "active"
             THEN Goes(a, [proc[a] EXCEPT !.pc = "save", !.sub = s])
             ELSE Stops(a)
    /\ UNCHANGED <<row, deletion, gone, tenant, now, moves, failures>>

\* Stripe ends the trial and charges, which may fail.
EndTrial(a) ==
    /\ proc[a].pc = "charge" /\ proc[a].sub # NoSub
    /\ Live(proc[a].sub)
    /\ \E status \in {"active", "past_due"} :
          /\ MoveTo(proc[a].sub, status)
          /\ Send({Updated(proc[a].sub, status)})
          /\ IF status = "active" THEN Goes(a, [proc[a] EXCEPT !.pc = "save"])
             ELSE Stops(a)
    /\ UNCHANGED <<row, deletion, gone, tenant, now, moves, failures>>

\* Stripe refuses: the customer is gone, or the subscription has ended.
Refused(a) ==
    /\ proc[a].pc = "charge"
    /\ IF proc[a].sub = NoSub THEN gone ELSE ~Live(proc[a].sub)
    /\ Stops(a)
    /\ UNCHANGED <<BillingUnchanged, tenant, failures>>

\* Unless it is scrubbed, and whatever else the row has come to be; the tenants
\* are unlocked in either case.
Save(a) ==
    /\ proc[a].pc = "save"
    /\ row' = IF Guarded
              THEN [status |-> "active", sub |-> proc[a].sub, ended |-> FALSE,
                    grace |-> NoTime, trial |-> FALSE]
              ELSE row
    /\ Goes(a, Syncing(a, "active"))
    /\ UNCHANGED <<deletion, stripeVars, queueVars, tenant, now, moves, failures>>

ActivationSynced(a) ==
    /\ a \in Activators
    /\ Synced(a)
    /\ Stops(a)
    /\ UNCHANGED <<BillingUnchanged, tenant, failures>>

-----------------------------------------------------------------------------
(* The usage report *)

\* The fan-out reads the row and hands what it read to a worker.
ScanUsage ==
    /\ "usage" \in Others
    /\ Starts("usage")
    /\ row.status \notin {"canceled", "manual"} /\ deletion # "scrubbed"
    /\ Goes("usage", [Idle EXCEPT !.pc = "meter", !.trial = row.status = "trialing"])
    /\ UNCHANGED <<BillingUnchanged, tenant, failures>>

\* A customer that is gone takes the organization with it; a trial gets the
\* status its usage asks for.
Meter ==
    /\ proc["usage"].pc = "meter"
    /\ IF deletion = "none" /\ gone
       THEN StartDeletionFromStripe /\ Stops("usage")
       ELSE /\ UNCHANGED <<deletion, failures>>
            /\ IF deletion = "none" /\ proc["usage"].trial
               THEN \E want \in TenantStatuses : Goes("usage", Syncing("usage", want))
               ELSE Stops("usage")
    /\ UNCHANGED <<row, stripeVars, queueVars, tenant, now, moves>>

UsageSynced ==
    /\ Synced("usage")
    /\ Stops("usage")
    /\ UNCHANGED <<BillingUnchanged, tenant, failures>>

-----------------------------------------------------------------------------
(* Operators, and the deletion *)

\* Conditioned on the status the operator's script read, so read and written in
\* one step.
BillManually ==
    /\ Move("manual")
    /\ NotBilledManually /\ Guarded
    /\ row' = [row EXCEPT !.status = "manual", !.ended = FALSE, !.grace = NoTime]
    /\ UNCHANGED <<deletion, stripeVars, queueVars, tenant, proc, now, failures>>

\* Back off it, into the grace period of a paid subscription, while that can end
\* within MaxTime (a bound).
EndManualBilling ==
    /\ Move("revert")
    /\ ~NotBilledManually /\ Guarded
    /\ now + PaidGrace < MaxTime
    /\ row' = [row EXCEPT !.status = "grace_period", !.ended = TRUE,
                          !.grace = now + PaidGrace]
    /\ UNCHANGED <<deletion, stripeVars, queueVars, tenant, proc, now, failures>>

ConfirmDeletion ==
    /\ Move("delete")
    /\ deletion = "none"
    /\ deletion' = "fenced"
    /\ UNCHANGED <<row, stripeVars, queueVars, tenant, proc, now, failures>>

\* The end of the teardown: the customer is gone, the tenants go, and the row is
\* stamped.
Scrub ==
    /\ deletion = "fenced" /\ gone
    /\ deletion' = "scrubbed"
    /\ row' = [row EXCEPT !.status = "canceled", !.grace = NoTime]
    /\ tenant' = [r \in Regions |-> Gone]
    /\ UNCHANGED <<stripeVars, queueVars, proc, now, moves, failures>>

\* Any other invocation dies, and nobody takes up where it was.
Dies(p) ==
    /\ p # "worker" /\ p \in Busy
    /\ failures < MaxFailures
    /\ failures' = failures + 1
    /\ Stops(p)
    /\ UNCHANGED <<BillingUnchanged, tenant>>

-----------------------------------------------------------------------------

WorkerStep ==
    \/ \E e \in Event : Take(e)
    \/ Update \/ Superseded \/ Stored \/ WriteGrace \/ Close \/ WorkerSynced

EnforcerStep == Enforce \/ EnforcerSynced \/ Cancel

RequestStep == FindLapsed \/ Lapse

UsageStep == ScanUsage \/ Meter \/ UsageSynced

ActivatorStep(a) ==
    \/ Create(a) \/ EndTrial(a) \/ Refused(a) \/ Save(a) \/ ActivationSynced(a)

SyncStep(p) == \E r \in Regions : Probe(p, r) \/ SetTenant(p, r)

SyncFailure(p) == \E r \in Regions : SyncFails(p, r)

StripeStep ==
    \/ \E s \in Subs :
          TrialLapses(s) \/ Cancels(s) \/ PaymentFails(s) \/ Authenticates(s)
    \/ CustomerGoes

Next ==
    \/ StripeStep \/ Tick
    \/ \E e \in Event : Receive(e) \/ Redrive(e)
    \/ WorkerStep \/ WorkerDies
    \/ EnforcerStep \/ RequestStep \/ UsageStep
    \/ \E a \in Activators : Activate(a) \/ ActivatorStep(a)
    \/ \E p \in Procs : SyncStep(p) \/ SyncFailure(p) \/ Dies(p)
    \/ BillManually \/ EndManualBilling \/ ConfirmDeletion \/ Scrub

Spec == Init /\ [][Next]_vars

Syncs(p) == SyncStep(p) \/ SyncFailure(p)

\* Days pass; Stripe ends trials on time, and delivers what is not acknowledged;
\* the queue hands out what it has; the enforcer runs daily; what runs comes to
\* its end.
Fairness ==
    /\ WF_vars(Tick)
    /\ WF_vars(\E s \in Subs : TrialLapses(s))
    /\ WF_vars(\E e \in Event : Receive(e))
    /\ WF_vars(WorkerStep \/ Syncs("worker"))
    /\ WF_vars(EnforcerStep \/ Syncs("enforcer"))
    /\ WF_vars(Lapse)
    /\ WF_vars(Meter \/ UsageSynced \/ Syncs("usage"))
    /\ \A a \in Activators : WF_vars(ActivatorStep(a) \/ Syncs(a))

FairSpec == Spec /\ Fairness

-----------------------------------------------------------------------------
(* Properties *)

\* An event that is marked as received is never lost: it is in the queue, at
\* the worker, done with, or parked where an operator finds it.
AcknowledgedIsKept ==
    \A e \in marks : e \in queued \cup {worker.ev} \cup handled \cup parked

\* No event changes a row that operators took over or a deletion has scrubbed,
\* or brings down an organization billed by hand, although each is read ahead of
\* the write.
HandsOff ==
    [][proc'["worker"] # proc["worker"] =>
         /\ row.status = "manual" \/ deletion = "scrubbed" => UNCHANGED row
         /\ row.status = "manual" => UNCHANGED deletion]_vars

\* A trial nobody paid for ends within the grace of a trial, in whatever order
\* its end, the requests that notice it and a redriven event come.
UnpaidGraceIsShort ==
    row.sub \notin charged => row.grace <= TrialEnd + TrialGrace

\* Once a delivery has dated a cancellation, no later one moves the date, unless
\* a request has put the date of a lapsed trial there.
DatedOnce ==
    [][row.ended /\ row'.ended
         /\ row.grace \notin {NoTime, TrialEnd + TrialGrace}
         /\ proc'["worker"] # proc["worker"] => row'.grace = row.grace]_vars

\* The comment on the write in updateBillingRecord: a late event for the
\* subscription Stripe ended may not revive the row, also when the row names a
\* later one by now.  The code does not keep it: a retried event for an older id
\* is written over the row of a newer one.
EndedSubscriptionsStayEnded ==
    [][\A s \in Subs :
         Deleted(s) \in handled /\ row.sub # s /\ proc'["worker"] # proc["worker"]
            => row'.sub # s]_vars

\* The comment on the update of a region: a disabled tenant is never brought down
\* to a write lock.  The code does not keep it: the probe may be older than the
\* update.
DisabledIsKept ==
    [][\A r \in Regions : tenant[r] = "disabled" => tenant'[r] # "write-locked"]_vars

\* The queue comes to rest: no event blocks the ones behind it for good.
QueueDrains ==
    queued # {} ~> queued = {} /\ worker.ev = NoEvent

\* A grace period comes to its end: unless it is paid for, taken over or deleted,
\* the organization is canceled and none of its tenants takes writes.
GraceEnds ==
    row.status = "grace_period" ~>
        \/ row.status \in {"active", "past_due", "manual"}
        \/ deletion # "none"
        \/ row.status = "canceled" /\ \A r \in Regions : tenant[r] # "active"

=============================================================================
