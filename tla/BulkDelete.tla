------------------------------ MODULE BulkDelete ------------------------------
(***************************************************************************)
(* Jobs that empty a bucket, a page of its listing at a time.              *)
(*                                                                         *)
(* A request records a job and queues its first message.  A worker that    *)
(* takes a message walks the bucket from the row's cursor and records its  *)
(* progress after every page; out of time, it queues another message and   *)
(* leaves.  The queue is FIFO and a job is a message group: one message of *)
(* it is in flight.  A message whose delivery throws or dies is delivered  *)
(* again, and MaxReceives times at most; then it is a dead letter, and a   *)
(* watchdog fails the job if the worker did not.                           *)
(*                                                                         *)
(* Whoever writes a row writes the whole of what it has in memory.         *)
(*                                                                         *)
(* An operator named Bug... is a definition broken on purpose, and no part *)
(* of Next.                                                                *)
(***************************************************************************)
EXTENDS Integers, Sequences, FiniteSets

CONSTANTS
    Jobs,         \* jobs on one bucket
    LastKey,      \* the bucket's keys are 1..LastKey, listed in that order
    Locked,       \* of those, the keys whose objects refuse to be deleted
    PageSize,     \* PAGE_SIZE
    MaxReceives,  \* MAX_BULK_DELETE_DELIVERY_ATTEMPTS
    MaxUploads,   \* objects put into the bucket meanwhile (a bound)
    MaxFailures   \* calls that fail or lose their answer, and deaths (a bound)

Keys == 1..LastKey

ASSUME ConstantsAssumption ==
    /\ LastKey \in Nat
    /\ Locked \subseteq Keys
    /\ PageSize \in Nat \ {0}
    /\ MaxReceives \in Nat \ {0}
    /\ MaxUploads \in Nat
    /\ MaxFailures \in Nat

VARIABLES
    row,        \* the job rows
    bucket,     \* keys that have an object
    fresh,      \* keys put since the job was submitted (history)
    permitted,  \* whether the member who started the job still may
    late,       \* pages deleted since they may not (history)
    request,    \* where the request that creates the job is
    queue,      \* the job's messages: how often each was received
    used,       \* deduplication ids the queue has seen
    letters,    \* the job's dead letters
    worker,     \* where the delivery of the job's first message is
    watchdog,   \* where the watchdog is, and the row it read
    uploads, failures

vars == <<row, bucket, fresh, permitted, late, request, queue, used, letters,
          worker, watchdog, uploads, failures>>

bucketVars == <<bucket, fresh, permitted, late, uploads>>

Completed == {"completed", "completed_with_errors"}
Terminal == Completed \cup {"failed"}
Statuses == {"none", "pending", "running"} \cup Terminal

\* A cursor is the last key of a page; at 0 there is none.
Cursors == 0..LastKey

Rows == [status : Statuses, cursor : Cursors, failed : Nat, resumes : Nat]

Submitted == [status |-> "pending", cursor |-> 0, failed |-> 0, resumes |-> 0]

Stages == {"idle", "check", "list", "delete", "checkpoint", "handOff",
           "enqueue", "finalize", "answer", "fail", "refuse", "return"}

\* job is the row the delivery has in memory; targets and next are a page.
Deliveries == [pc : Stages, job : Rows, targets : SUBSET Keys, next : Cursors]

Idle == [pc |-> "idle", job |-> Submitted, targets |-> {}, next |-> 0]

TypeOK ==
    /\ row \in [Jobs -> Rows]
    /\ bucket \subseteq Keys
    /\ fresh \in [Jobs -> SUBSET Keys]
    /\ permitted \in [Jobs -> BOOLEAN]
    /\ late \in [Jobs -> Nat]
    /\ request \in [Jobs -> {"idle", "enqueue", "fail", "done"}]
    /\ queue \in [Jobs -> Seq(0..MaxReceives)]
    /\ used \in [Jobs -> SUBSET Nat]
    /\ letters \in [Jobs -> Nat]
    /\ worker \in [Jobs -> Deliveries]
    /\ watchdog \in [Jobs -> [pc : {"idle", "write"}, job : Rows]]
    /\ uploads \in 0..MaxUploads
    /\ failures \in 0..MaxFailures

Init ==
    /\ row = [j \in Jobs |-> [Submitted EXCEPT !.status = "none"]]
    /\ bucket = Keys
    /\ fresh = [j \in Jobs |-> {}]
    /\ permitted = [j \in Jobs |-> TRUE]
    /\ late = [j \in Jobs |-> 0]
    /\ request = [j \in Jobs |-> "idle"]
    /\ queue = [j \in Jobs |-> <<>>]
    /\ used = [j \in Jobs |-> {}]
    /\ letters = [j \in Jobs |-> 0]
    /\ worker = [j \in Jobs |-> Idle]
    /\ watchdog = [j \in Jobs |-> [pc |-> "idle", job |-> Submitted]]
    /\ uploads = 0
    /\ failures = 0

Finished(record) == record.status \in Terminal
Failed(record) == [record EXCEPT !.status = "failed"]

Fault == failures < MaxFailures /\ failures' = failures + 1

Writes(j, record) == row' = [row EXCEPT ![j] = record]
Goes(j, pc) == worker' = [worker EXCEPT ![j].pc = pc]
Leaves(j) == worker' = [worker EXCEPT ![j] = Idle]

-----------------------------------------------------------------------------
(* The queue *)

\* An id the queue has seen is dropped without a word.
Posts(j, id) ==
    /\ queue' = IF id \in used[j] THEN queue
                ELSE [queue EXCEPT ![j] = Append(queue[j], 0)]
    /\ used' = [used EXCEPT ![j] = used[j] \cup {id}]

\* The first message goes into flight.
Receives(j) ==
    queue' = [queue EXCEPT ![j] = <<Head(queue[j]) + 1>> \o Tail(queue[j])]

\* The message in flight is done with.
Drops(j) == queue' = [queue EXCEPT ![j] = Tail(queue[j])]

BugReturns(j) ==
    IF Head(queue[j]) <= MaxReceives THEN UNCHANGED <<queue, letters>>
    ELSE Drops(j) /\ letters' = [letters EXCEPT ![j] = letters[j] + 1]

\* The message is delivered again, or is a dead letter.
Returns(j) ==
    IF Head(queue[j]) < MaxReceives THEN UNCHANGED <<queue, letters>>
    ELSE Drops(j) /\ letters' = [letters EXCEPT ![j] = letters[j] + 1]

-----------------------------------------------------------------------------
(* The request *)

\* A request that comes twice finds the row and changes nothing.
Submit(j) ==
    /\ row[j].status = "none"
    /\ Writes(j, Submitted)
    /\ fresh' = [fresh EXCEPT ![j] = {}]
    /\ request' = [request EXCEPT ![j] = "enqueue"]
    /\ UNCHANGED <<bucket, permitted, late, queue, used, letters, worker,
                   watchdog, uploads, failures>>

\* A message that was queued with no answer looks like one that was not.
EnqueueFirst(j) ==
    /\ request[j] = "enqueue"
    /\ \/ /\ Posts(j, 0)
          /\ request' = [request EXCEPT ![j] = "done"]
          /\ UNCHANGED failures
       \/ /\ Fault
          /\ Posts(j, 0) \/ UNCHANGED <<queue, used>>
          /\ request' = [request EXCEPT ![j] = "fail"]
    /\ UNCHANGED <<row, letters, worker, watchdog, bucketVars>>

FailUnqueued(j) ==
    /\ request[j] = "fail"
    /\ Writes(j, Failed(Submitted))
    /\ request' = [request EXCEPT ![j] = "done"]
    /\ UNCHANGED <<queue, used, letters, worker, watchdog, failures, bucketVars>>

RequestDies(j) ==
    /\ request[j] \in {"enqueue", "fail"}
    /\ Fault
    /\ request' = [request EXCEPT ![j] = "done"]
    /\ UNCHANGED <<row, queue, used, letters, worker, watchdog, bucketVars>>

-----------------------------------------------------------------------------
(* The worker *)

workerUnchanged == <<request, watchdog, bucketVars, failures>>

BugTake(j) ==
    /\ worker[j].pc = "idle" /\ queue[j] # <<>>
    /\ Receives(j)
    /\ worker' = [worker EXCEPT ![j] = [Idle EXCEPT !.pc = "check", !.job = row[j]]]
    /\ UNCHANGED <<row, used, letters, workerUnchanged>>

BugTakeAnew(j) ==
    /\ worker[j].pc = "idle" /\ queue[j] # <<>>
    /\ IF Finished(row[j])
       THEN Drops(j) /\ UNCHANGED worker
       ELSE /\ Receives(j)
            /\ worker' = [worker EXCEPT ![j] =
                            [Idle EXCEPT !.pc = "check",
                                         !.job = [row[j] EXCEPT !.cursor = 0]]]
    /\ UNCHANGED <<row, used, letters, workerUnchanged>>

\* Reads the row: a job that is finished is left alone.
Take(j) ==
    /\ worker[j].pc = "idle" /\ queue[j] # <<>>
    /\ IF Finished(row[j])
       THEN Drops(j) /\ UNCHANGED worker
       ELSE /\ Receives(j)
            /\ worker' = [worker EXCEPT ![j] =
                            [Idle EXCEPT !.pc = "check", !.job = row[j]]]
    /\ UNCHANGED <<row, used, letters, workerUnchanged>>

\* The member's role and policies are asked before every page.
Check(j) ==
    /\ worker[j].pc = "check"
    /\ Goes(j, IF permitted[j] THEN "list" ELSE "refuse")
    /\ UNCHANGED <<row, queue, used, letters, workerUnchanged>>

\* A page of the listing starts after the row's cursor and ends at the next; at 0
\* it is the last.
Page(j, next) ==
    {k \in bucket : worker[j].job.cursor < k /\ (next # 0 => k <= next)}

EndsPage(j, next) ==
    IF next = 0 THEN Cardinality(Page(j, 0)) <= PageSize
    ELSE /\ next \in Page(j, 0) /\ Page(j, next) # Page(j, 0)
         /\ Cardinality(Page(j, next)) = PageSize

BugList(j) ==
    /\ worker[j].pc = "list"
    /\ \E next \in Cursors :
          /\ EndsPage(j, next)
          /\ worker' = [worker EXCEPT
                ![j] = [worker[j] EXCEPT !.pc = "delete", !.next = next,
                                         !.targets = Page(j, next)]]
          /\ Writes(j, [worker[j].job EXCEPT !.cursor = next])
    /\ UNCHANGED <<queue, used, letters, workerUnchanged>>

List(j) ==
    /\ worker[j].pc = "list"
    /\ \E next \in Cursors :
          /\ EndsPage(j, next)
          /\ worker' = [worker EXCEPT
                ![j] = [worker[j] EXCEPT !.pc = "delete", !.next = next,
                                         !.targets = Page(j, next)]]
    /\ UNCHANGED <<row, queue, used, letters, workerUnchanged>>

\* What the bucket does with a page, whether or not its answer arrives.
DeletesTargets(j) ==
    /\ bucket' = bucket \ (worker[j].targets \ Locked)
    /\ late' = [late EXCEPT ![j] = IF permitted[j] THEN late[j] ELSE late[j] + 1]
    /\ UNCHANGED <<fresh, permitted, uploads>>

\* Objects that refuse are counted and passed by.
Applied(j) ==
    [worker[j].job EXCEPT
        !.status = "running", !.cursor = worker[j].next,
        !.failed = worker[j].job.failed + Cardinality(worker[j].targets \cap Locked)]

Delete(j) ==
    /\ worker[j].pc = "delete"
    /\ DeletesTargets(j)
    /\ worker' = [worker EXCEPT
          ![j] = [worker[j] EXCEPT !.pc = IF worker[j].next = 0 THEN "finalize"
                                          ELSE "checkpoint",
                                   !.job = Applied(j)]]
    /\ UNCHANGED <<row, queue, used, letters, request, watchdog, failures>>

BugCheckpoint(j) ==
    /\ worker[j].pc = "checkpoint"
    /\ Writes(j, worker[j].job)
    /\ \E pc \in {"list", "handOff"} : Goes(j, pc)
    /\ UNCHANGED <<queue, used, letters, workerUnchanged>>

\* Progress is recorded, and there is time for another page or there is not.
Checkpoint(j) ==
    /\ worker[j].pc = "checkpoint"
    /\ Writes(j, worker[j].job)
    /\ \E pc \in {"check", "handOff"} : Goes(j, pc)
    /\ UNCHANGED <<queue, used, letters, workerUnchanged>>

NextResume(j) == worker[j].job.resumes + 1

BugHandOff(j) ==
    /\ worker[j].pc = "handOff"
    /\ Writes(j, worker[j].job)
    /\ Goes(j, "enqueue")
    /\ UNCHANGED <<queue, used, letters, workerUnchanged>>

\* The id of the next message is recorded before it is used.
HandOff(j) ==
    /\ worker[j].pc = "handOff"
    /\ Writes(j, [worker[j].job EXCEPT !.resumes = NextResume(j)])
    /\ Goes(j, "enqueue")
    /\ UNCHANGED <<queue, used, letters, workerUnchanged>>

Enqueue(j) ==
    /\ worker[j].pc = "enqueue"
    /\ Posts(j, NextResume(j))
    /\ Goes(j, "answer")
    /\ UNCHANGED <<row, letters, workerUnchanged>>

Finalize(j) ==
    /\ worker[j].pc = "finalize"
    /\ Writes(j, [worker[j].job EXCEPT
                    !.cursor = 0,
                    !.status = IF worker[j].job.failed > 0
                               THEN "completed_with_errors" ELSE "completed"])
    /\ Goes(j, "answer")
    /\ UNCHANGED <<queue, used, letters, workerUnchanged>>

\* A job its member may not run any more fails, and its message is done with.
Refuse(j) ==
    /\ worker[j].pc = "refuse"
    /\ Writes(j, Failed(worker[j].job))
    /\ Goes(j, "return")
    /\ UNCHANGED <<queue, used, letters, workerUnchanged>>

Return(j) ==
    /\ worker[j].pc \in {"answer", "return"}
    /\ Drops(j)
    /\ Leaves(j)
    /\ UNCHANGED <<row, used, letters, workerUnchanged>>

\* An error: the message returns, the last time after the job was failed.
Caught(j) ==
    IF Head(queue[j]) < MaxReceives THEN Leaves(j) ELSE Goes(j, "fail")

\* A call fails, or was made with no answer.
Throws(j) ==
    /\ worker[j].pc \notin {"idle", "fail", "refuse", "return"}
    /\ Fault
    /\ \/ UNCHANGED bucketVars
       \/ worker[j].pc = "delete" /\ DeletesTargets(j)
    /\ Caught(j)
    /\ UNCHANGED <<row, queue, used, letters, request, watchdog>>

Fail(j) ==
    /\ worker[j].pc = "fail"
    /\ Writes(j, Failed(worker[j].job))
    /\ Returns(j)
    /\ Leaves(j)
    /\ UNCHANGED <<used, workerUnchanged>>

\* A timeout, a kill, or an error where nothing catches it.
Dies(j) ==
    /\ worker[j].pc # "idle"
    /\ Fault
    /\ \/ UNCHANGED bucketVars
       \/ worker[j].pc = "delete" /\ DeletesTargets(j)
    /\ Returns(j)
    /\ Leaves(j)
    /\ UNCHANGED <<row, used, request, watchdog>>

-----------------------------------------------------------------------------
(* The watchdog *)

Answered(j) == letters' = [letters EXCEPT ![j] = letters[j] - 1]

watchdogUnchanged == <<request, queue, used, worker, bucketVars>>

BugStalled(j) == row[j].status = "running"

\* The worker has not recorded an outcome of its own.
Stalled(j) == ~Finished(row[j])

FindStalled(j) ==
    /\ letters[j] > 0 /\ watchdog[j].pc = "idle"
    /\ IF Stalled(j)
       THEN /\ watchdog' = [watchdog EXCEPT ![j] = [pc |-> "write", job |-> row[j]]]
            /\ UNCHANGED letters
       ELSE Answered(j) /\ UNCHANGED watchdog
    /\ UNCHANGED <<row, failures, watchdogUnchanged>>

FailStalled(j) ==
    /\ watchdog[j].pc = "write"
    /\ Writes(j, Failed(watchdog[j].job))
    /\ watchdog' = [watchdog EXCEPT ![j].pc = "idle"]
    /\ Answered(j)
    /\ UNCHANGED <<failures, watchdogUnchanged>>

WatchdogDies(j) ==
    /\ watchdog[j].pc = "write"
    /\ Fault
    /\ watchdog' = [watchdog EXCEPT ![j].pc = "idle"]
    /\ UNCHANGED <<row, letters, watchdogUnchanged>>

-----------------------------------------------------------------------------
(* Meanwhile *)

Upload(k) ==
    /\ uploads < MaxUploads
    /\ uploads' = uploads + 1
    /\ bucket' = bucket \cup {k}
    /\ fresh' = [j \in Jobs |-> fresh[j] \cup {k}]
    /\ UNCHANGED <<row, permitted, late, request, queue, used, letters, worker,
                   watchdog, failures>>

\* The member is removed, loses the role, or the policy of the bucket.
Revoke(j) ==
    /\ permitted[j]
    /\ permitted' = [permitted EXCEPT ![j] = FALSE]
    /\ UNCHANGED <<row, bucket, fresh, late, request, queue, used, letters,
                   worker, watchdog, uploads, failures>>

-----------------------------------------------------------------------------

RequestStep(j) ==
    Submit(j) \/ EnqueueFirst(j) \/ FailUnqueued(j) \/ RequestDies(j)

WorkerStep(j) ==
    \/ Take(j) \/ Check(j) \/ List(j) \/ Delete(j) \/ Checkpoint(j)
    \/ HandOff(j) \/ Enqueue(j) \/ Finalize(j) \/ Refuse(j) \/ Return(j) \/ Fail(j)

WatchdogStep(j) == FindStalled(j) \/ FailStalled(j)

Next ==
    \/ \E j \in Jobs :
          \/ RequestStep(j) \/ WorkerStep(j) \/ WatchdogStep(j)
          \/ Throws(j) \/ Dies(j) \/ WatchdogDies(j) \/ Revoke(j)
    \/ \E k \in Keys : Upload(k)

Spec == Init /\ [][Next]_vars

\* The queues deliver what they hold, and what runs comes to its end.
FairSpec ==
    /\ Spec
    /\ \A j \in Jobs : WF_vars(WorkerStep(j)) /\ WF_vars(WatchdogStep(j))

-----------------------------------------------------------------------------
(* Properties *)

\* finalizeJob: a completed job left nothing of what was in the bucket when it
\* was submitted, and one completed with errors no more than it counted; however
\* often the walk was cut off, taken up and raced by others.
CompletedIsEmptied ==
    \A j \in Jobs :
        /\ row[j].status = "completed" => bucket \subseteq fresh[j]
        /\ row[j].status = "completed_with_errors" =>
             Cardinality(bucket \ fresh[j]) <= row[j].failed

\* applyPageResult: an object that refuses is counted once, although a page whose
\* outcome was not recorded is walked again.
FailuresCountOnce ==
    \A j \in Jobs : row[j].failed <= Cardinality(Locked)

\* assertMemberCanDelete: a member who may no longer delete has one more page
\* deleted in their name at the most, and no further delivery goes on.
StopsWithinAPage ==
    \A j \in Jobs : late[j] <= 1

\* A completed job is never taken up again, by however many of its messages a
\* lost answer left behind; the worst that is written over it is that it failed.
CompletedStays ==
    [][\A j \in Jobs : row[j].status \in Completed => Finished(row'[j])]_vars

\* putBulkDeleteJob: "The worker owns the row while it runs."  The code does not
\* keep it: the watchdog and the request write rows a worker has taken up.
WorkerOwnsRow ==
    [][\A j \in Jobs :
          worker[j].pc # "idle" /\ row'[j] # row[j] => worker'[j] # worker[j]]_vars

\* A job that was queued comes to an outcome and keeps it: the page that polls it
\* does not wait for good.
JobsSettle ==
    \A j \in Jobs : queue[j] # <<>> ~> [](Finished(row[j]))

=============================================================================
