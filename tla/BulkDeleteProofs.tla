--------------------------- MODULE BulkDeleteProofs ---------------------------
(***************************************************************************)
(* Proofs about BulkDelete, for any jobs, keys, page size and bounds: a    *)
(* completed job left nothing behind, an object that refuses is counted    *)
(* once, a member who may no longer delete is stopped within a page, and a *)
(* completed job is never taken up again.                                  *)
(*                                                                         *)
(* What carries them is InProgress: what a record of a job says, in the    *)
(* row or in a delivery's memory, is true of the bucket up to its cursor,  *)
(* and stays true whoever else deletes or uploads.                         *)
(***************************************************************************)
EXTENDS BulkDelete, FiniteSetTheorems, SequenceTheorems, TLAPS

\* A job's messages but the first were never received.
Shape(q) == \A i \in 2..Len(q) : q[i] = 0

\* Only the first message of a job was ever received, and it is in flight while a
\* delivery of it runs.
QueueInv(j) ==
    /\ Shape(queue[j])
    /\ worker[j].pc = "idle" /\ queue[j] # <<>> => Head(queue[j]) < MaxReceives
    /\ worker[j].pc # "idle" => queue[j] # <<>> /\ worker[j].job.status # "none"
    /\ watchdog[j].pc = "write" => letters[j] > 0 /\ watchdog[j].job.status # "none"

\* Nothing knows of a job that was not submitted.
Unknown(j) ==
    row[j].status = "none" =>
        /\ request[j] = "idle" /\ queue[j] = <<>> /\ letters[j] = 0
        /\ worker[j].pc = "idle" /\ watchdog[j].pc = "idle"

FlowInv == \A j \in Jobs : QueueInv(j) /\ Unknown(j)

-----------------------------------------------------------------------------
(* Type correctness *)

LEMMA GoesType ==
    ASSUME TypeOK, NEW j \in Jobs, NEW pc \in Stages, Goes(j, pc)
    PROVE  /\ worker' \in [Jobs -> Deliveries]
           /\ worker'[j] = [worker[j] EXCEPT !.pc = pc]
           /\ \A i \in Jobs : i # j => worker'[i] = worker[i]
<1>1. worker[j] \in Deliveries
  BY DEF TypeOK
<1>2. [worker[j] EXCEPT !.pc = pc] \in Deliveries
  BY <1>1 DEF Deliveries
<1>3. worker' = [worker EXCEPT ![j] = [worker[j] EXCEPT !.pc = pc]]
  BY DEF Goes
<1> QED
  BY <1>2, <1>3 DEF TypeOK

LEMMA IdleType == Idle \in Deliveries
BY ConstantsAssumption
   DEF Idle, Deliveries, Stages, Submitted, Rows, Statuses, Cursors, Keys, Terminal

LEMMA LeavesType ==
    ASSUME TypeOK, NEW j \in Jobs, Leaves(j)
    PROVE  /\ worker' \in [Jobs -> Deliveries]
           /\ worker'[j] = Idle
           /\ \A i \in Jobs : i # j => worker'[i] = worker[i]
BY IdleType DEF TypeOK, Leaves

LEMMA DropsType ==
    ASSUME TypeOK, NEW j \in Jobs, queue[j] # <<>>, Drops(j)
    PROVE  queue' \in [Jobs -> Seq(0..MaxReceives)]
BY DEF TypeOK, Drops

LEMMA PostsType ==
    ASSUME TypeOK, NEW j \in Jobs, NEW id \in Nat, Posts(j, id)
    PROVE  /\ queue' \in [Jobs -> Seq(0..MaxReceives)]
           /\ used' \in [Jobs -> SUBSET Nat]
BY ConstantsAssumption DEF TypeOK, Posts

LEMMA ReceivesType ==
    ASSUME TypeOK, NEW j \in Jobs, queue[j] # <<>>, Head(queue[j]) < MaxReceives,
           Receives(j)
    PROVE  queue' \in [Jobs -> Seq(0..MaxReceives)]
<1> DEFINE q == queue[j]
<1>1. q \in Seq(0..MaxReceives) /\ q # <<>>
  BY DEF TypeOK
<1> HIDE DEF q
<1>2. Head(q) \in 0..MaxReceives /\ Head(q) < MaxReceives
  BY <1>1, HeadTailProperties DEF q
<1>5. Tail(q) \in Seq(0..MaxReceives)
  BY <1>1
<1>3. <<Head(q) + 1>> \in Seq(0..MaxReceives)
  BY <1>2, ConstantsAssumption
<1>4. <<Head(q) + 1>> \o Tail(q) \in Seq(0..MaxReceives)
  BY <1>3, <1>5
<1> QED
  BY <1>4 DEF TypeOK, Receives, q

LEMMA ReturnsType ==
    ASSUME TypeOK, NEW j \in Jobs, queue[j] # <<>>, Returns(j)
    PROVE  /\ queue' \in [Jobs -> Seq(0..MaxReceives)]
           /\ letters' \in [Jobs -> Nat]
<1>1. CASE Head(queue[j]) < MaxReceives
  BY <1>1 DEF TypeOK, Returns
<1>2. CASE ~(Head(queue[j]) < MaxReceives)
  BY <1>2, DropsType DEF TypeOK, Returns
<1> QED
  BY <1>1, <1>2

LEMMA LockedFinite ==
    /\ IsFiniteSet(Locked)
    /\ Cardinality(Locked) \in Nat
    /\ \A S \in SUBSET Keys : IsFiniteSet(S) /\ Cardinality(S) \in Nat
<1>1. IsFiniteSet(Keys)
  BY FS_Interval, ConstantsAssumption DEF Keys
<1> QED
  BY <1>1, FS_Subset, FS_CardinalityType, ConstantsAssumption

LEMMA AppliedType ==
    ASSUME TypeOK, NEW j \in Jobs
    PROVE  Applied(j) \in Rows
<1> DEFINE n == Cardinality(worker[j].targets \cap Locked)
<1>1. worker[j] \in Deliveries
  BY DEF TypeOK
<1>2. worker[j].job \in Rows /\ worker[j].next \in Cursors /\ worker[j].targets \subseteq Keys
  BY <1>1 DEF Deliveries
<1>3. n \in Nat
  BY <1>2, LockedFinite
<1> HIDE DEF n
<1>4. worker[j].job.failed + n \in Nat
  BY <1>2, <1>3 DEF Rows
<1>5. [worker[j].job EXCEPT !.status = "running", !.cursor = worker[j].next,
                            !.failed = worker[j].job.failed + n] \in Rows
  BY <1>2, <1>4 DEF Rows, Statuses
<1> QED
  BY <1>5 DEF Applied, n

LEMMA FailedType ==
    ASSUME NEW record \in Rows
    PROVE  Failed(record) \in Rows
BY DEF Failed, Rows, Statuses, Terminal

LEMMA WritesType ==
    ASSUME TypeOK, NEW j \in Jobs, NEW record \in Rows, Writes(j, record)
    PROVE  /\ row' \in [Jobs -> Rows]
           /\ row'[j] = record
           /\ \A i \in Jobs : i # j => row'[i] = row[i]
BY DEF TypeOK, Writes

LEMMA DeletesTargetsType ==
    ASSUME TypeOK, NEW j \in Jobs, DeletesTargets(j)
    PROVE  /\ bucket' \subseteq Keys
           /\ late' \in [Jobs -> Nat]
           /\ UNCHANGED <<fresh, permitted, uploads>>
BY DEF TypeOK, DeletesTargets

LEMMA FaultType ==
    ASSUME TypeOK, Fault
    PROVE  failures' \in 0..MaxFailures
BY ConstantsAssumption DEF TypeOK, Fault

LEMMA SubmittedType == Submitted \in Rows
BY ConstantsAssumption DEF Submitted, Rows, Statuses, Cursors

LEMMA InitFlow == Init => TypeOK /\ FlowInv
<1> SUFFICES ASSUME Init PROVE TypeOK /\ FlowInv
  OBVIOUS
<1>1. [Submitted EXCEPT !.status = "none"] \in Rows
  BY SubmittedType DEF Rows, Statuses
<1>2. Idle \in Deliveries
  BY SubmittedType, ConstantsAssumption DEF Idle, Deliveries, Stages, Cursors
<1>3. row \in [Jobs -> Rows]
  BY <1>1 DEF Init
<1>5. TypeOK
  <2>1. queue \in [Jobs -> Seq(0..MaxReceives)]
    BY DEF Init
  <2>2. /\ worker \in [Jobs -> Deliveries]
        /\ watchdog \in [Jobs -> [pc : {"idle", "write"}, job : Rows]]
    BY <1>2, SubmittedType DEF Init
  <2> QED
    BY <1>3, <2>1, <2>2, ConstantsAssumption DEF Init, TypeOK
<1>6. FlowInv
  BY DEF Init, FlowInv, QueueInv, Unknown, Idle, Shape
<1> QED
  BY <1>5, <1>6

LEMMA DropsShape ==
    ASSUME TypeOK, NEW j \in Jobs, queue[j] # <<>>, Shape(queue[j]), Drops(j)
    PROVE  /\ Shape(queue'[j])
           /\ queue'[j] # <<>> => Head(queue'[j]) = 0
           /\ \A i \in Jobs : i # j => queue'[i] = queue[i]
<1> DEFINE q == queue[j]
<1>1. q \in Seq(0..MaxReceives) /\ q # <<>> /\ queue'[j] = Tail(q)
  BY DEF TypeOK, Drops
<1>2. Shape(q)
  OBVIOUS
<1>3. \A i \in Jobs : i # j => queue'[i] = queue[i]
  BY DEF TypeOK, Drops
<1> HIDE DEF q
<1>4. /\ Tail(q) \in Seq(0..MaxReceives)
      /\ Len(Tail(q)) = Len(q) - 1
      /\ \A i \in 1..Len(Tail(q)) : Tail(q)[i] = q[i + 1]
  BY <1>1, HeadTailProperties
<1>5. \A i \in 1..Len(Tail(q)) : Tail(q)[i] = 0
  BY <1>1, <1>2, <1>4 DEF Shape
<1>6. Shape(Tail(q))
  BY <1>4, <1>5 DEF Shape
<1>7. Tail(q) # <<>> => Head(Tail(q)) = 0
  BY <1>4, <1>5
<1> QED
  BY <1>1, <1>3, <1>6, <1>7

LEMMA PostsShape ==
    ASSUME TypeOK, NEW j \in Jobs, NEW id \in Nat, Shape(queue[j]), Posts(j, id)
    PROVE  /\ Shape(queue'[j])
           /\ queue[j] # <<>> => queue'[j] # <<>> /\ Head(queue'[j]) = Head(queue[j])
           /\ queue[j] = <<>> /\ queue'[j] # <<>> => Head(queue'[j]) = 0
           /\ \A i \in Jobs : i # j => queue'[i] = queue[i]
<1> DEFINE q == queue[j]
<1>1. q \in Seq(0..MaxReceives) /\ queue'[j] \in {q, Append(q, 0)}
  BY DEF TypeOK, Posts
<1>2. Shape(q)
  OBVIOUS
<1>3. \A i \in Jobs : i # j => queue'[i] = queue[i]
  BY DEF TypeOK, Posts
<1> HIDE DEF q
<1>4. /\ Append(q, 0) \in Seq(0..MaxReceives) /\ Append(q, 0) # <<>>
      /\ Len(Append(q, 0)) = Len(q) + 1
      /\ \A i \in 1..Len(q) : Append(q, 0)[i] = q[i]
      /\ Append(q, 0)[Len(q) + 1] = 0
  BY <1>1, AppendProperties, ConstantsAssumption
<1>5. Shape(Append(q, 0))
  BY <1>1, <1>2, <1>4 DEF Shape
<1>6. Head(Append(q, 0)) = IF q = <<>> THEN 0 ELSE Head(q)
  BY <1>1, HeadTailAppend
<1> QED
  BY <1>1, <1>2, <1>3, <1>4, <1>5, <1>6 DEF q

LEMMA ReceivesShape ==
    ASSUME TypeOK, NEW j \in Jobs, queue[j] # <<>>, Head(queue[j]) < MaxReceives,
           Shape(queue[j]), Receives(j)
    PROVE  /\ Shape(queue'[j])
           /\ queue'[j] # <<>>
           /\ \A i \in Jobs : i # j => queue'[i] = queue[i]
<1> DEFINE q == queue[j]
           x == Head(queue[j]) + 1
<1>1. q \in Seq(0..MaxReceives) /\ q # <<>> /\ queue'[j] = <<x>> \o Tail(q)
  BY DEF TypeOK, Receives
<1>2. Shape(q)
  OBVIOUS
<1>3. \A i \in Jobs : i # j => queue'[i] = queue[i]
  BY DEF TypeOK, Receives
<1>4. x \in 0..MaxReceives
  <2>1. Head(q) \in 0..MaxReceives
    BY <1>1, HeadTailProperties
  <2> QED
    BY <2>1, ConstantsAssumption
<1> HIDE DEF q, x
<1>5. /\ Tail(q) \in Seq(0..MaxReceives)
      /\ Len(Tail(q)) = Len(q) - 1
      /\ \A i \in 1..Len(Tail(q)) : Tail(q)[i] = q[i + 1]
  BY <1>1, HeadTailProperties
<1>6. <<x>> \in Seq(0..MaxReceives) /\ Len(<<x>>) = 1
  BY <1>4
<1> DEFINE r == <<x>> \o Tail(q)
<1>7. /\ r \in Seq(0..MaxReceives) /\ Len(r) = Len(q)
      /\ \A i \in 2..Len(r) : r[i] = Tail(q)[i - 1]
  BY <1>1, <1>5, <1>6, ConcatProperties
<1>8. Len(q) # 0
  BY <1>1
<1> HIDE DEF r
<1>9. Shape(r)
  BY <1>1, <1>2, <1>5, <1>7 DEF Shape
<1>10. r # <<>>
  BY <1>7, <1>8, <1>1
<1> QED
  BY <1>1, <1>3, <1>9, <1>10 DEF r

\* What happens to one job is all that can disturb the invariant.
LEMMA FlowFrame ==
    ASSUME FlowInv, NEW j \in Jobs, QueueInv(j)', Unknown(j)',
           \A i \in Jobs : i # j =>
             /\ row'[i] = row[i] /\ queue'[i] = queue[i] /\ worker'[i] = worker[i]
             /\ watchdog'[i] = watchdog[i] /\ letters'[i] = letters[i]
             /\ request'[i] = request[i]
    PROVE  FlowInv'
<1> SUFFICES ASSUME NEW i \in Jobs PROVE (QueueInv(i) /\ Unknown(i))'
  BY DEF FlowInv
<1>1. CASE i = j
  BY <1>1
<1>2. CASE i # j
  <2>1. QueueInv(i) /\ Unknown(i)
    BY DEF FlowInv
  <2> QED
    BY <1>2, <2>1 DEF QueueInv, Unknown
<1> QED
  BY <1>1, <1>2

LEMMA RequestFlow ==
    ASSUME TypeOK, FlowInv, NEW j \in Jobs, RequestStep(j)
    PROVE  TypeOK' /\ FlowInv'
<1> USE DEF bucketVars
<1>0. QueueInv(j) /\ Unknown(j)
  BY DEF FlowInv
<1>1. CASE Submit(j)
  <2>1. Writes(j, Submitted) /\ row[j].status = "none"
    BY <1>1 DEF Submit
  <2>2. /\ row' \in [Jobs -> Rows] /\ row'[j] = Submitted
        /\ \A i \in Jobs : i # j => row'[i] = row[i]
    BY <2>1, WritesType, SubmittedType
  <2>3. TypeOK'
    BY <1>1, <2>2 DEF Submit, TypeOK
  <2>4. (QueueInv(j) /\ Unknown(j))'
    BY <1>0, <1>1, <2>2 DEF Submit, QueueInv, Unknown, Submitted
  <2> QED
    BY <1>1, <2>2, <2>3, <2>4, FlowFrame DEF Submit, TypeOK
<1>2. CASE EnqueueFirst(j)
  <2>1. row[j].status # "none"
    BY <1>0, <1>2 DEF EnqueueFirst, Unknown
  <2>2. failures' \in 0..MaxFailures
    BY <1>2, FaultType DEF EnqueueFirst, TypeOK
  <2>3. CASE Posts(j, 0)
    <3>1. TypeOK'
      BY <1>2, <2>2, <2>3, PostsType DEF EnqueueFirst, TypeOK
    <3>2. (QueueInv(j) /\ Unknown(j))'
      BY <1>0, <1>2, <2>1, <2>3, PostsShape, ConstantsAssumption
         DEF EnqueueFirst, QueueInv, Unknown
    <3>3. \A i \in Jobs : i # j => queue'[i] = queue[i]
      BY <1>0, <2>3, PostsShape DEF QueueInv
    <3>4. /\ row' = row /\ worker' = worker /\ watchdog' = watchdog /\ letters' = letters
          /\ \A i \in Jobs : i # j => request'[i] = request[i]
      BY <1>2 DEF EnqueueFirst, TypeOK
    <3> QED
      BY <3>1, <3>2, <3>3, <3>4, FlowFrame
  <2>4. CASE UNCHANGED <<queue, used>>
    <3>1. TypeOK'
      BY <1>2, <2>2, <2>4 DEF EnqueueFirst, TypeOK
    <3>2. (QueueInv(j) /\ Unknown(j))'
      BY <1>0, <1>2, <2>1, <2>4 DEF EnqueueFirst, QueueInv, Unknown
    <3> QED
      BY <1>2, <2>4, <3>1, <3>2, FlowFrame DEF EnqueueFirst, TypeOK
  <2> QED
    BY <1>2, <2>3, <2>4 DEF EnqueueFirst
<1>3. CASE FailUnqueued(j)
  <2>1. Writes(j, Failed(Submitted)) /\ Failed(Submitted) \in Rows
    BY <1>3, FailedType, SubmittedType DEF FailUnqueued
  <2>2. /\ row' \in [Jobs -> Rows] /\ row'[j] = Failed(Submitted)
        /\ \A i \in Jobs : i # j => row'[i] = row[i]
    BY <2>1, WritesType
  <2>3. TypeOK'
    BY <1>3, <2>2 DEF FailUnqueued, TypeOK
  <2>4. (QueueInv(j) /\ Unknown(j))'
    BY <1>0, <1>3, <2>2 DEF FailUnqueued, QueueInv, Unknown, Failed, Submitted
  <2> QED
    BY <1>3, <2>2, <2>3, <2>4, FlowFrame DEF FailUnqueued, TypeOK
<1>4. CASE RequestDies(j)
  <2>1. TypeOK'
    BY <1>4, FaultType DEF RequestDies, TypeOK
  <2>2. (QueueInv(j) /\ Unknown(j))'
    BY <1>0, <1>4 DEF RequestDies, QueueInv, Unknown
  <2> QED
    BY <1>4, <2>1, <2>2, FlowFrame DEF RequestDies, TypeOK
<1> QED
  BY <1>1, <1>2, <1>3, <1>4 DEF RequestStep

LEMMA WatchesType ==
    ASSUME TypeOK, NEW j \in Jobs, NEW pc \in {"idle", "write"}, NEW record \in Rows,
           watchdog' = [watchdog EXCEPT ![j] = [pc |-> pc, job |-> record]]
    PROVE  watchdog' \in [Jobs -> [pc : {"idle", "write"}, job : Rows]]
<1>1. [pc |-> pc, job |-> record] \in [pc : {"idle", "write"}, job : Rows]
  OBVIOUS
<1> QED
  BY <1>1 DEF TypeOK

LEMMA WatchdogRests ==
    ASSUME TypeOK, NEW j \in Jobs, watchdog' = [watchdog EXCEPT ![j].pc = "idle"]
    PROVE  /\ watchdog' = [watchdog EXCEPT ![j] = [pc |-> "idle", job |-> watchdog[j].job]]
           /\ watchdog' \in [Jobs -> [pc : {"idle", "write"}, job : Rows]]
<1>1. watchdog[j] \in [pc : {"idle", "write"}, job : Rows]
  BY DEF TypeOK
<1>2. [watchdog[j] EXCEPT !.pc = "idle"] = [pc |-> "idle", job |-> watchdog[j].job]
  BY <1>1
<1>3. watchdog' = [watchdog EXCEPT ![j] = [pc |-> "idle", job |-> watchdog[j].job]]
  BY <1>2
<1>4. watchdog[j].job \in Rows
  BY <1>1
<1> QED
  BY <1>3, <1>4, WatchesType

LEMMA WatchdogFlow ==
    ASSUME TypeOK, FlowInv, NEW j \in Jobs, WatchdogStep(j) \/ WatchdogDies(j)
    PROVE  TypeOK' /\ FlowInv'
<1> USE DEF bucketVars, watchdogUnchanged
<1>0. QueueInv(j) /\ Unknown(j)
  BY DEF FlowInv
<1>w. watchdog[j].job \in Rows
  BY DEF TypeOK
<1>1. CASE FindStalled(j)
  <2>1. row[j].status # "none"
    BY <1>0, <1>1 DEF FindStalled, Unknown, TypeOK
  <2>2. watchdog' \in [Jobs -> [pc : {"idle", "write"}, job : Rows]]
    <3>1. CASE Stalled(j)
      <4>1. row[j] \in Rows
        BY DEF TypeOK
      <4> QED
        BY <1>1, <3>1, <4>1, WatchesType DEF FindStalled
    <3>2. CASE ~Stalled(j)
      BY <1>1, <3>2 DEF FindStalled, TypeOK
    <3> QED
      BY <3>1, <3>2
  <2>3. letters' \in [Jobs -> Nat]
    <3>1. letters[j] - 1 \in Nat
      BY <1>1 DEF FindStalled, TypeOK
    <3> QED
      BY <1>1, <3>1 DEF FindStalled, Answered, TypeOK
  <2>4. TypeOK'
    BY <1>1, <2>2, <2>3 DEF FindStalled, TypeOK
  <2>5. (QueueInv(j) /\ Unknown(j))'
    BY <1>0, <1>1, <2>1 DEF FindStalled, Answered, QueueInv, Unknown, TypeOK
  <2> QED
    BY <1>1, <2>4, <2>5, FlowFrame DEF FindStalled, Answered, TypeOK
<1>2. CASE FailStalled(j)
  <2>1. Failed(watchdog[j].job) \in Rows /\ letters[j] > 0
    BY <1>0, <1>w, <1>2, FailedType DEF FailStalled, QueueInv
  <2>2. /\ row' \in [Jobs -> Rows] /\ row'[j] = Failed(watchdog[j].job)
        /\ \A i \in Jobs : i # j => row'[i] = row[i]
    BY <1>2, <2>1, WritesType DEF FailStalled
  <2>3. /\ watchdog' = [watchdog EXCEPT ![j] = [pc |-> "idle", job |-> watchdog[j].job]]
        /\ watchdog' \in [Jobs -> [pc : {"idle", "write"}, job : Rows]]
        /\ letters' \in [Jobs -> Nat]
    <3>1. letters[j] - 1 \in Nat
      BY <2>1 DEF TypeOK
    <3>2. letters' \in [Jobs -> Nat]
      BY <1>2, <3>1 DEF FailStalled, Answered, TypeOK
    <3> QED
      BY <1>2, <3>2, WatchdogRests DEF FailStalled
  <2>4. TypeOK'
    BY <1>2, <2>2, <2>3 DEF FailStalled, TypeOK
  <2>5. (QueueInv(j) /\ Unknown(j))'
    BY <1>0, <1>2, <1>w, <2>2, <2>3 DEF FailStalled, QueueInv, Unknown, Failed, TypeOK, Rows
  <2> QED
    BY <1>2, <2>2, <2>3, <2>4, <2>5, FlowFrame DEF FailStalled, Answered, TypeOK
<1>3. CASE WatchdogDies(j)
  <2>1. /\ watchdog' = [watchdog EXCEPT ![j] = [pc |-> "idle", job |-> watchdog[j].job]]
        /\ watchdog' \in [Jobs -> [pc : {"idle", "write"}, job : Rows]]
    BY <1>3, WatchdogRests DEF WatchdogDies
  <2>2. TypeOK'
    BY <1>3, <2>1, FaultType DEF WatchdogDies, TypeOK
  <2>3. (QueueInv(j) /\ Unknown(j))'
    BY <1>0, <1>3, <2>1 DEF WatchdogDies, QueueInv, Unknown, TypeOK
  <2> QED
    BY <1>3, <2>1, <2>2, <2>3, FlowFrame DEF WatchdogDies, TypeOK
<1> QED
  BY <1>1, <1>2, <1>3 DEF WatchdogStep

LEMMA MeanwhileFlow ==
    ASSUME TypeOK, FlowInv,
           (\E j \in Jobs : Revoke(j)) \/ (\E k \in Keys : Upload(k)) \/ UNCHANGED vars
    PROVE  TypeOK' /\ FlowInv'
<1>1. ASSUME NEW j \in Jobs, Revoke(j) PROVE TypeOK' /\ FlowInv'
  BY <1>1 DEF Revoke, TypeOK, FlowInv, QueueInv, Unknown
<1>2. ASSUME NEW k \in Keys, Upload(k) PROVE TypeOK' /\ FlowInv'
  BY <1>2, ConstantsAssumption DEF Upload, TypeOK, FlowInv, QueueInv, Unknown
<1>3. ASSUME UNCHANGED vars PROVE TypeOK' /\ FlowInv'
  BY <1>3 DEF vars, TypeOK, FlowInv, QueueInv, Unknown
<1> QED
  BY <1>1, <1>2, <1>3

\* A delivery goes on with a record in memory, and may write the row.
LEMMA GoesOnFlow ==
    ASSUME TypeOK, FlowInv, NEW j \in Jobs, worker[j].pc # "idle",
           NEW w \in Deliveries, w.pc # "idle", w.job.status # "none",
           worker' = [worker EXCEPT ![j] = w],
           row'[j].status # "none",
           \A i \in Jobs : i # j => row'[i] = row[i],
           UNCHANGED <<queue, letters, watchdog, request>>
    PROVE  FlowInv'
<1>1. worker'[j] = w /\ \A i \in Jobs : i # j => worker'[i] = worker[i]
  BY DEF TypeOK
<1>2. QueueInv(j)
  BY DEF FlowInv
<1>3. (QueueInv(j) /\ Unknown(j))'
  BY <1>1, <1>2 DEF QueueInv, Unknown
<1> QED
  BY <1>1, <1>3, FlowFrame

LEMMA GoesFlow ==
    ASSUME TypeOK, FlowInv, NEW j \in Jobs, worker[j].pc # "idle",
           NEW pc \in Stages, pc # "idle", Goes(j, pc),
           row'[j].status # "none",
           \A i \in Jobs : i # j => row'[i] = row[i],
           UNCHANGED <<queue, letters, watchdog, request>>
    PROVE  FlowInv'
<1>1. worker[j] \in Deliveries /\ worker[j].job.status # "none"
  BY DEF TypeOK, FlowInv, QueueInv
<1> DEFINE w == [worker[j] EXCEPT !.pc = pc]
<1>2. w \in Deliveries /\ w.pc = pc /\ w.job = worker[j].job
  BY <1>1 DEF Deliveries
<1>3. worker' = [worker EXCEPT ![j] = w]
  BY DEF Goes
<1> HIDE DEF w
<1> QED
  BY <1>1, <1>2, <1>3, GoesOnFlow

LEMMA InFlight ==
    ASSUME TypeOK, FlowInv, NEW j \in Jobs, worker[j].pc # "idle"
    PROVE  /\ worker[j] \in Deliveries /\ worker[j].job \in Rows
           /\ worker[j].job.status # "none"
           /\ row[j].status # "none"
           /\ queue[j] # <<>> /\ Shape(queue[j])
BY DEF TypeOK, FlowInv, QueueInv, Unknown, Deliveries

\* A delivery is over: its message is dropped, or returns.
LEMMA OverFlow ==
    ASSUME TypeOK, FlowInv, NEW j \in Jobs, worker[j].pc # "idle", Leaves(j),
           Drops(j) \/ (queue' = queue /\ Head(queue[j]) < MaxReceives),
           row'[j].status # "none",
           \A i \in Jobs : i # j => row'[i] = row[i] /\ letters'[i] = letters[i],
           watchdog[j].pc = "write" => letters'[j] > 0,
           UNCHANGED <<watchdog, request>>
    PROVE  FlowInv'
<1>1. /\ worker'[j] = Idle
      /\ \A i \in Jobs : i # j => worker'[i] = worker[i]
  BY LeavesType
<1>2. queue[j] # <<>> /\ QueueInv(j)
  BY InFlight DEF FlowInv
<1>3. /\ Shape(queue'[j])
      /\ queue'[j] # <<>> => Head(queue'[j]) < MaxReceives
      /\ \A i \in Jobs : i # j => queue'[i] = queue[i]
  <2>1. CASE Drops(j)
    BY <2>1, <1>2, DropsShape, ConstantsAssumption DEF QueueInv
  <2>2. CASE queue' = queue /\ Head(queue[j]) < MaxReceives
    BY <2>2, <1>2 DEF QueueInv
  <2> QED
    BY <2>1, <2>2
<1>4. (QueueInv(j) /\ Unknown(j))'
  BY <1>1, <1>2, <1>3 DEF QueueInv, Unknown, Idle
<1> QED
  BY <1>1, <1>3, <1>4, FlowFrame

LEMMA ReturnsLetters ==
    ASSUME TypeOK, FlowInv, NEW j \in Jobs, worker[j].pc # "idle", Returns(j)
    PROVE  /\ Drops(j) \/ (queue' = queue /\ Head(queue[j]) < MaxReceives)
           /\ \A i \in Jobs : i # j => letters'[i] = letters[i]
           /\ watchdog[j].pc = "write" => letters'[j] > 0
<1>1. letters[j] \in Nat /\ (watchdog[j].pc = "write" => letters[j] > 0)
  BY DEF TypeOK, FlowInv, QueueInv
<1> QED
  BY <1>1 DEF Returns, TypeOK

LEMMA TakeFlow ==
    ASSUME TypeOK, FlowInv, NEW j \in Jobs, Take(j)
    PROVE  TypeOK' /\ FlowInv'
<1> USE DEF bucketVars, workerUnchanged
<1>0. QueueInv(j) /\ Unknown(j) /\ worker[j].pc = "idle" /\ queue[j] # <<>>
  BY DEF FlowInv, Take
<1>1. row[j].status # "none" /\ row[j] \in Rows
  BY <1>0 DEF Unknown, TypeOK
<1>2. CASE Finished(row[j])
  <2>1. /\ queue' \in [Jobs -> Seq(0..MaxReceives)]
        /\ Shape(queue'[j])
        /\ queue'[j] # <<>> => Head(queue'[j]) < MaxReceives
        /\ \A i \in Jobs : i # j => queue'[i] = queue[i]
    BY <1>0, <1>2, DropsType, DropsShape, ConstantsAssumption DEF Take, QueueInv
  <2>2. TypeOK'
    BY <1>2, <2>1 DEF Take, TypeOK
  <2>3. (QueueInv(j) /\ Unknown(j))'
    BY <1>0, <1>1, <1>2, <2>1 DEF Take, QueueInv, Unknown
  <2> QED
    BY <1>2, <2>1, <2>2, <2>3, FlowFrame DEF Take
<1>3. CASE ~Finished(row[j])
  <2> DEFINE w == [Idle EXCEPT !.pc = "check", !.job = row[j]]
  <2>1. w \in Deliveries /\ w.pc = "check" /\ w.job = row[j]
    BY <1>1, IdleType DEF Deliveries, Stages
  <2>2. worker' = [worker EXCEPT ![j] = w] /\ Receives(j)
    BY <1>3 DEF Take
  <2> HIDE DEF w
  <2>3. /\ worker' \in [Jobs -> Deliveries] /\ worker'[j] = w
        /\ \A i \in Jobs : i # j => worker'[i] = worker[i]
    BY <2>1, <2>2 DEF TypeOK
  <2>4. /\ queue' \in [Jobs -> Seq(0..MaxReceives)]
        /\ Shape(queue'[j]) /\ queue'[j] # <<>>
        /\ \A i \in Jobs : i # j => queue'[i] = queue[i]
    BY <1>0, <2>2, ReceivesType, ReceivesShape DEF QueueInv
  <2>5. TypeOK'
    BY <1>3, <2>3, <2>4 DEF Take, TypeOK
  <2>6. (QueueInv(j) /\ Unknown(j))'
    BY <1>0, <1>1, <1>3, <2>1, <2>3, <2>4 DEF Take, QueueInv, Unknown
  <2> QED
    BY <1>3, <2>3, <2>4, <2>5, <2>6, FlowFrame DEF Take
<1> QED
  BY <1>2, <1>3

\* A record that is written leaves the job known.
LEMMA WritesKnown ==
    ASSUME TypeOK, NEW j \in Jobs, NEW record \in Rows, record.status # "none",
           Writes(j, record)
    PROVE  /\ row' \in [Jobs -> Rows]
           /\ row'[j].status # "none"
           /\ \A i \in Jobs : i # j => row'[i] = row[i]
BY WritesType

LEMMA PageFlow ==
    ASSUME TypeOK, FlowInv, NEW j \in Jobs, Check(j) \/ List(j) \/ Delete(j)
    PROVE  TypeOK' /\ FlowInv'
<1> USE DEF bucketVars, workerUnchanged
<1>0. worker[j].pc # "idle"
  BY DEF Check, List, Delete
<1>i. /\ worker[j] \in Deliveries /\ worker[j].job \in Rows
      /\ worker[j].job.status # "none"
      /\ row[j].status # "none"
  BY <1>0, InFlight
<1>1. CASE Check(j)
  <2>1. PICK pc \in {"list", "refuse"} : Goes(j, pc)
    BY <1>1 DEF Check
  <2>2. pc \in Stages /\ pc # "idle"
    BY DEF Stages
  <2>3. TypeOK'
    BY <1>1, <2>1, <2>2, GoesType DEF Check, TypeOK
  <2>4. UNCHANGED <<row, queue, letters, watchdog, request>>
    BY <1>1 DEF Check
  <2> QED
    BY <1>0, <1>i, <2>1, <2>2, <2>3, <2>4, GoesFlow
<1>2. CASE List(j)
  <2>1. PICK next \in Cursors :
          worker' = [worker EXCEPT
                ![j] = [worker[j] EXCEPT !.pc = "delete", !.next = next,
                                         !.targets = Page(j, next)]]
    BY <1>2 DEF List
  <2> DEFINE w == [worker[j] EXCEPT !.pc = "delete", !.next = next,
                                    !.targets = Page(j, next)]
  <2>2. Page(j, next) \subseteq Keys
    BY DEF Page, TypeOK
  <2>3. w \in Deliveries /\ w.pc = "delete" /\ w.job = worker[j].job
    BY <1>i, <2>2 DEF Deliveries, Stages
  <2>4. worker' = [worker EXCEPT ![j] = w]
    BY <2>1
  <2> HIDE DEF w
  <2>5. TypeOK'
    BY <1>2, <2>3, <2>4 DEF List, TypeOK
  <2>6. UNCHANGED <<row, queue, letters, watchdog, request>>
    BY <1>2 DEF List
  <2> QED
    BY <1>0, <1>i, <2>3, <2>4, <2>5, <2>6, GoesOnFlow
<1>3. CASE Delete(j)
  <2> DEFINE pc == IF worker[j].next = 0 THEN "finalize" ELSE "checkpoint"
             w == [worker[j] EXCEPT !.pc = pc, !.job = Applied(j)]
  <2>1. pc \in Stages /\ pc # "idle"
    BY DEF Stages
  <2>2. worker' = [worker EXCEPT ![j] = w]
    BY <1>3 DEF Delete
  <2> HIDE DEF pc
  <2>3. Applied(j) \in Rows /\ Applied(j).status = "running"
    <3>1. worker[j].job \in Rows
      BY <1>i
    <3> QED
      BY <3>1, AppliedType DEF Applied, Rows
  <2>4. w \in Deliveries /\ w.pc = pc /\ w.job = Applied(j)
    BY <1>i, <2>1, <2>3 DEF Deliveries
  <2> HIDE DEF w
  <2>5. bucket' \subseteq Keys /\ late' \in [Jobs -> Nat]
    BY <1>3, DeletesTargetsType DEF Delete
  <2>6. TypeOK'
    BY <1>3, <2>2, <2>4, <2>5 DEF Delete, DeletesTargets, TypeOK
  <2>7. UNCHANGED <<row, queue, letters, watchdog, request>>
    BY <1>3 DEF Delete
  <2> QED
    BY <1>0, <1>i, <2>1, <2>2, <2>3, <2>4, <2>6, <2>7, GoesOnFlow
<1> QED
  BY <1>1, <1>2, <1>3

LEMMA RecordFlow ==
    ASSUME TypeOK, FlowInv, NEW j \in Jobs,
           Checkpoint(j) \/ HandOff(j) \/ Finalize(j) \/ Refuse(j)
    PROVE  TypeOK' /\ FlowInv'
<1> USE DEF bucketVars, workerUnchanged
<1>0. worker[j].pc # "idle"
  BY DEF Checkpoint, HandOff, Finalize, Refuse
<1>i. worker[j].job \in Rows /\ worker[j].job.status # "none"
  BY <1>0, InFlight
<1>1. PICK record \in Rows : record.status # "none" /\ Writes(j, record)
  <2>1. CASE Checkpoint(j)
    BY <1>i, <2>1 DEF Checkpoint
  <2>2. CASE HandOff(j)
    <3> DEFINE record == [worker[j].job EXCEPT !.resumes = NextResume(j)]
    <3>1. NextResume(j) \in Nat
      BY <1>i DEF NextResume, Rows
    <3>2. record \in Rows /\ record.status = worker[j].job.status
      BY <1>i, <3>1 DEF Rows
    <3> QED
      BY <1>i, <2>2, <3>2 DEF HandOff
  <2>3. CASE Finalize(j)
    <3> DEFINE status == IF worker[j].job.failed > 0
                         THEN "completed_with_errors" ELSE "completed"
               record == [worker[j].job EXCEPT !.cursor = 0, !.status = status]
    <3>1. Writes(j, record)
      BY <2>3 DEF Finalize
    <3>2. status \in Statuses \ {"none"} /\ 0 \in Cursors
      BY ConstantsAssumption DEF Statuses, Terminal, Completed, Cursors
    <3> HIDE DEF status
    <3>3. record \in Rows /\ record.status = status
      BY <1>i, <3>2 DEF Rows
    <3> QED
      BY <3>1, <3>2, <3>3
  <2>4. CASE Refuse(j)
    <3>1. Failed(worker[j].job) \in Rows /\ Failed(worker[j].job).status = "failed"
      BY <1>i, FailedType DEF Failed, Rows
    <3> QED
      BY <2>4, <3>1 DEF Refuse
  <2> QED
    BY <2>1, <2>2, <2>3, <2>4
<1>2. /\ row' \in [Jobs -> Rows] /\ row'[j].status # "none"
      /\ \A i \in Jobs : i # j => row'[i] = row[i]
  BY <1>1, WritesKnown
<1>3. PICK pc \in Stages : pc # "idle" /\ Goes(j, pc)
  BY DEF Checkpoint, HandOff, Finalize, Refuse, Stages
<1>4. UNCHANGED <<queue, used, letters, request, watchdog, bucketVars, failures>>
  BY DEF Checkpoint, HandOff, Finalize, Refuse
<1>5. TypeOK'
  BY <1>2, <1>3, <1>4, GoesType DEF TypeOK
<1> QED
  BY <1>0, <1>2, <1>3, <1>4, <1>5, GoesFlow

LEMMA EnqueueFlow ==
    ASSUME TypeOK, FlowInv, NEW j \in Jobs, Enqueue(j)
    PROVE  TypeOK' /\ FlowInv'
<1> USE DEF bucketVars, workerUnchanged
<1>0. worker[j].pc # "idle" /\ QueueInv(j)
  BY DEF Enqueue, FlowInv
<1>i. /\ worker[j] \in Deliveries /\ worker[j].job \in Rows
      /\ worker[j].job.status # "none" /\ row[j].status # "none"
      /\ queue[j] # <<>> /\ Shape(queue[j])
  BY <1>0, InFlight
<1>1. NextResume(j) \in Nat
  BY <1>i DEF NextResume, Rows
<1>2. Posts(j, NextResume(j)) /\ Goes(j, "answer") /\ "answer" \in Stages
  BY DEF Enqueue, Stages
<1>3. /\ queue' \in [Jobs -> Seq(0..MaxReceives)] /\ used' \in [Jobs -> SUBSET Nat]
      /\ Shape(queue'[j]) /\ queue'[j] # <<>>
      /\ \A i \in Jobs : i # j => queue'[i] = queue[i]
  BY <1>i, <1>1, <1>2, PostsType, PostsShape
<1>4. /\ worker' \in [Jobs -> Deliveries]
      /\ worker'[j] = [worker[j] EXCEPT !.pc = "answer"]
      /\ \A i \in Jobs : i # j => worker'[i] = worker[i]
  BY <1>2, GoesType
<1>5. worker'[j].pc = "answer" /\ worker'[j].job = worker[j].job
  BY <1>i, <1>4 DEF Deliveries
<1>6. TypeOK'
  BY <1>3, <1>4 DEF Enqueue, TypeOK
<1>7. (QueueInv(j) /\ Unknown(j))'
  BY <1>0, <1>i, <1>3, <1>5 DEF Enqueue, QueueInv, Unknown
<1> QED
  BY <1>3, <1>4, <1>6, <1>7, FlowFrame DEF Enqueue

LEMMA EndFlow ==
    ASSUME TypeOK, FlowInv, NEW j \in Jobs, Return(j) \/ Fail(j) \/ Dies(j)
    PROVE  TypeOK' /\ FlowInv'
<1> USE DEF bucketVars, workerUnchanged
<1>0. worker[j].pc # "idle" /\ Leaves(j)
  BY DEF Return, Fail, Dies
<1>i. /\ worker[j].job \in Rows /\ worker[j].job.status # "none"
      /\ row[j].status # "none" /\ queue[j] # <<>>
  BY <1>0, InFlight
<1>l. worker' \in [Jobs -> Deliveries]
  BY <1>0, LeavesType
<1>1. CASE Return(j)
  <2>1. TypeOK'
    BY <1>1, <1>i, <1>l, DropsType DEF Return, TypeOK
  <2>2. Drops(j) /\ UNCHANGED <<row, letters, watchdog, request>>
    BY <1>1 DEF Return
  <2>3. watchdog[j].pc = "write" => letters'[j] > 0
    BY <2>2 DEF FlowInv, QueueInv
  <2> QED
    BY <1>0, <1>i, <2>1, <2>2, <2>3, OverFlow
<1>2. CASE Fail(j)
  <2>1. Failed(worker[j].job) \in Rows /\ Failed(worker[j].job).status = "failed"
    BY <1>i, FailedType DEF Failed, Rows
  <2>2. /\ row' \in [Jobs -> Rows] /\ row'[j].status # "none"
        /\ \A i \in Jobs : i # j => row'[i] = row[i]
    BY <1>2, <2>1, WritesKnown DEF Fail
  <2>3. Returns(j) /\ UNCHANGED <<watchdog, request>>
    BY <1>2 DEF Fail
  <2>4. TypeOK'
    BY <1>2, <1>i, <1>l, <2>2, <2>3, ReturnsType DEF Fail, TypeOK
  <2> QED
    BY <1>0, <2>2, <2>3, <2>4, ReturnsLetters, OverFlow
<1>3. CASE Dies(j)
  <2>1. /\ bucket' \subseteq Keys /\ late' \in [Jobs -> Nat]
        /\ UNCHANGED <<fresh, permitted, uploads>>
    BY <1>3, DeletesTargetsType DEF Dies, TypeOK
  <2>2. Returns(j) /\ UNCHANGED <<row, watchdog, request>>
    BY <1>3 DEF Dies
  <2>3. TypeOK'
    BY <1>3, <1>i, <1>l, <2>1, <2>2, ReturnsType, FaultType DEF Dies, TypeOK
  <2> QED
    BY <1>0, <1>i, <2>2, <2>3, ReturnsLetters, OverFlow
<1> QED
  BY <1>1, <1>2, <1>3

LEMMA ThrowsFlow ==
    ASSUME TypeOK, FlowInv, NEW j \in Jobs, Throws(j)
    PROVE  TypeOK' /\ FlowInv'
<1> USE DEF bucketVars
<1>0. worker[j].pc # "idle" /\ QueueInv(j)
  BY DEF Throws, FlowInv
<1>i. row[j].status # "none" /\ queue[j] # <<>>
  BY <1>0, InFlight
<1>1. /\ bucket' \subseteq Keys /\ late' \in [Jobs -> Nat]
      /\ UNCHANGED <<fresh, permitted, uploads>>
  BY DeletesTargetsType DEF Throws, TypeOK
<1>2. UNCHANGED <<row, queue, used, letters, request, watchdog>>
  BY DEF Throws
<1>3. failures' \in 0..MaxFailures
  BY FaultType DEF Throws
<1>4. CASE Head(queue[j]) < MaxReceives /\ Leaves(j)
  <2>1. TypeOK'
    BY <1>1, <1>2, <1>3, <1>4, LeavesType DEF TypeOK
  <2> QED
    BY <1>0, <1>i, <1>2, <1>4, <2>1, OverFlow DEF QueueInv
<1>5. CASE Goes(j, "fail")
  <2>1. "fail" \in Stages
    BY DEF Stages
  <2>2. TypeOK'
    BY <1>1, <1>2, <1>3, <1>5, <2>1, GoesType DEF TypeOK
  <2> QED
    BY <1>0, <1>i, <1>2, <1>5, <2>1, <2>2, GoesFlow
<1> QED
  BY <1>4, <1>5 DEF Throws, Caught

LEMMA FlowStep == TypeOK /\ FlowInv /\ [Next]_vars => TypeOK' /\ FlowInv'
<1> SUFFICES ASSUME TypeOK, FlowInv, [Next]_vars PROVE TypeOK' /\ FlowInv'
  OBVIOUS
<1>1. ASSUME NEW j \in Jobs, WorkerStep(j) PROVE TypeOK' /\ FlowInv'
  BY <1>1, TakeFlow, PageFlow, RecordFlow, EnqueueFlow, EndFlow DEF WorkerStep
<1> QED
  BY <1>1, RequestFlow, WatchdogFlow, MeanwhileFlow, EndFlow, ThrowsFlow DEF Next

\* TypeOK: the variables keep their types.  (Code behaviour: a message is received
\* MAX_BULK_DELETE_DELIVERY_ATTEMPTS times at most.)
THEOREM TypeCorrect == Spec => []TypeOK
<1>1. Spec => [](TypeOK /\ FlowInv)
  BY InitFlow, FlowStep, PTL DEF Spec
<1> QED
  BY <1>1, PTL

-----------------------------------------------------------------------------
(* What a record of a job says of the bucket *)

LockedUpTo(c) == {k \in Locked : k <= c}

\* With objects in b, those put since the submission in f: the walk is done up to
\* the record's cursor, and its refusals are counted.
InProgress(b, f, record) ==
    /\ \A k \in b : k <= record.cursor => k \in f \cup Locked
    /\ record.failed = Cardinality(LockedUpTo(record.cursor))

\* The walk is done.
Walked(b, f, record) ==
    /\ b \subseteq f \cup Locked
    /\ record.failed = Cardinality(Locked)

RowInv(b, f, record) ==
    /\ record.failed <= Cardinality(Locked)
    /\ record.status \in {"pending", "running"} => InProgress(b, f, record)
    /\ record.status \in Completed => Walked(b, f, record)
    /\ record.status = "completed" => record.failed = 0

OnPage(w, k) == w.job.cursor < k /\ (w.next # 0 => k <= w.next)

\* A page that was listed holds what was in the bucket then.
PageInv(b, f, w) ==
    /\ w.next # 0 => w.job.cursor < w.next
    /\ \A k \in b : OnPage(w, k) => k \in w.targets \cup f
    /\ \A k \in Locked : OnPage(w, k) <=> k \in w.targets

Walking == {"check", "list", "delete", "checkpoint", "handOff", "enqueue", "refuse"}

DeliveryInv(b, f, w) ==
    /\ w.job.failed <= Cardinality(Locked)
    /\ w.pc \in Walking =>
         InProgress(b, f, w.job) /\ w.job.status \in {"pending", "running"}
    /\ w.pc = "delete" => PageInv(b, f, w)
    /\ w.pc = "finalize" => Walked(b, f, w.job)

WalkInv ==
    /\ Locked \subseteq bucket
    /\ \A j \in Jobs :
          /\ RowInv(bucket, fresh[j], row[j])
          /\ DeliveryInv(bucket, fresh[j], worker[j])
          /\ watchdog[j].job.failed <= Cardinality(Locked)

\* Others delete from the bucket, and put objects that are new.
Moved(b, f, b2, f2) == f \subseteq f2 /\ \A k \in b2 : k \in b \/ k \in f2

LEMMA MovedKeeps ==
    ASSUME NEW b, NEW f, NEW b2, NEW f2, Moved(b, f, b2, f2),
           NEW record, NEW w
    PROVE  /\ RowInv(b, f, record) => RowInv(b2, f2, record)
           /\ DeliveryInv(b, f, w) => DeliveryInv(b2, f2, w)
<1>1. \A r : InProgress(b, f, r) => InProgress(b2, f2, r)
  BY DEF Moved, InProgress
<1>2. \A r : Walked(b, f, r) => Walked(b2, f2, r)
  BY DEF Moved, Walked
<1>3. PageInv(b, f, w) => PageInv(b2, f2, w)
  BY DEF Moved, PageInv
<1> QED
  BY <1>1, <1>2, <1>3 DEF RowInv, DeliveryInv

LEMMA UpToCounted ==
    ASSUME NEW c \in Cursors
    PROVE  /\ IsFiniteSet(LockedUpTo(c))
           /\ Cardinality(LockedUpTo(c)) \in Nat
           /\ Cardinality(LockedUpTo(c)) <= Cardinality(Locked)
<1>1. LockedUpTo(c) \subseteq Locked
  BY DEF LockedUpTo
<1> QED
  BY <1>1, LockedFinite, FS_Subset, FS_CardinalityType

LEMMA NothingYet ==
    /\ LockedUpTo(0) = {}
    /\ Cardinality(LockedUpTo(0)) = 0
    /\ 0 <= Cardinality(Locked)
    /\ \A b \in SUBSET Keys : \A f : InProgress(b, f, Submitted)
<1>3. \A k \in Keys : ~(k <= 0)
  BY ConstantsAssumption DEF Keys
<1>1. LockedUpTo(0) = {}
  <2>1. Locked \subseteq Keys
    BY ConstantsAssumption
  <2> QED
    BY <1>3, <2>1 DEF LockedUpTo
<1>2. Cardinality(LockedUpTo(0)) = 0
  BY <1>1, FS_EmptySet
<1> QED
  BY <1>1, <1>2, <1>3, LockedFinite DEF InProgress, Submitted

\* applyPageResult: with a page deleted, the record is right up to its end.
LEMMA PageApplied ==
    ASSUME NEW b \in SUBSET Keys, NEW f, NEW w \in Deliveries, PageInv(b, f, w),
           InProgress(b, f, w.job), NEW record \in Rows,
           record.cursor = w.next,
           record.failed = w.job.failed + Cardinality(w.targets \cap Locked)
    PROVE  LET b2 == b \ (w.targets \ Locked)
           IN  /\ w.next # 0 => InProgress(b2, f, record)
               /\ w.next = 0 => Walked(b2, f, record)
<1> DEFINE c == w.job.cursor
           done == LockedUpTo(c)
           page == w.targets \cap Locked
           b2 == b \ (w.targets \ Locked)
<1>1. c \in Cursors /\ w.next \in Cursors /\ w.targets \subseteq Keys
  BY DEF Deliveries, Rows
<1>2. IsFiniteSet(done) /\ IsFiniteSet(page)
  <2>1. page \subseteq Keys
    BY <1>1
  <2> QED
    BY <1>1, <2>1, UpToCounted, LockedFinite
<1>3. \A k \in Locked : k \in Int /\ (k \in page <=> (c < k /\ (w.next # 0 => k <= w.next)))
  BY ConstantsAssumption DEF PageInv, OnPage, Keys
<1>4. done \cap page = {}
  BY <1>1, <1>3, ConstantsAssumption DEF LockedUpTo, Cursors
<1>5. Cardinality(done \cup page) = Cardinality(done) + Cardinality(page)
  <2>1. Cardinality(done \cap page) = 0
    BY <1>4, FS_EmptySet
  <2>2. Cardinality(done \cup page)
          = Cardinality(done) + Cardinality(page) - Cardinality(done \cap page)
    BY <1>2, FS_Union
  <2>3. Cardinality(done) \in Nat /\ Cardinality(page) \in Nat
    BY <1>2, FS_CardinalityType
  <2> QED
    BY <2>1, <2>2, <2>3
<1>6. record.failed = Cardinality(done \cup page)
  BY <1>5 DEF InProgress
<1>7. CASE w.next # 0
  <2>1. done \cup page = LockedUpTo(w.next)
    BY <1>1, <1>3, <1>7, ConstantsAssumption DEF LockedUpTo, PageInv, Cursors
  <2>2. \A k \in b2 : k <= w.next => k \in f \cup Locked
    <3> SUFFICES ASSUME NEW k \in b2, k <= w.next PROVE k \in f \cup Locked
      OBVIOUS
    <3>1. k \in Int /\ c \in Int
      BY <1>1, ConstantsAssumption DEF Keys, Cursors
    <3>2. CASE k <= c
      BY <3>2 DEF InProgress
    <3>3. CASE c < k
      BY <3>3 DEF PageInv, OnPage
    <3> QED
      BY <3>1, <3>2, <3>3
  <2> QED
    BY <1>6, <1>7, <2>1, <2>2 DEF InProgress
<1>8. CASE w.next = 0
  <2>1. done \cup page = Locked
    BY <1>1, <1>3, <1>8, ConstantsAssumption DEF LockedUpTo, Cursors
  <2>2. b2 \subseteq f \cup Locked
    <3> SUFFICES ASSUME NEW k \in b2 PROVE k \in f \cup Locked
      OBVIOUS
    <3>1. k \in Int /\ c \in Int
      BY <1>1, ConstantsAssumption DEF Keys, Cursors
    <3>2. CASE k <= c
      BY <3>2 DEF InProgress
    <3>3. CASE c < k
      BY <1>8, <3>3 DEF PageInv, OnPage
    <3> QED
      BY <3>1, <3>2, <3>3
  <2> QED
    BY <1>6, <1>8, <2>1, <2>2 DEF Walked
<1> QED
  BY <1>7, <1>8

-----------------------------------------------------------------------------
(* The walk, whatever cuts it off *)

\* What happens to one job is all that can disturb the invariant, others only move
\* the bucket.
LEMMA WalkFrame ==
    ASSUME TypeOK, WalkInv, NEW j \in Jobs, Locked \subseteq bucket',
           \A i \in Jobs : i # j => Moved(bucket, fresh[i], bucket', fresh'[i]),
           RowInv(bucket', fresh'[j], row'[j]),
           DeliveryInv(bucket', fresh'[j], worker'[j]),
           watchdog'[j].job.failed <= Cardinality(Locked),
           \A i \in Jobs : i # j => /\ row'[i] = row[i] /\ worker'[i] = worker[i]
                                    /\ watchdog'[i] = watchdog[i]
    PROVE  WalkInv'
<1> SUFFICES ASSUME NEW i \in Jobs
             PROVE  /\ RowInv(bucket', fresh'[i], row'[i])
                    /\ DeliveryInv(bucket', fresh'[i], worker'[i])
                    /\ watchdog'[i].job.failed <= Cardinality(Locked)
  BY DEF WalkInv
<1>1. CASE i = j
  BY <1>1
<1>2. CASE i # j
  <2>1. /\ RowInv(bucket, fresh[i], row[i])
        /\ DeliveryInv(bucket, fresh[i], worker[i])
        /\ watchdog[i].job.failed <= Cardinality(Locked)
    BY DEF WalkInv
  <2>2. Moved(bucket, fresh[i], bucket', fresh'[i])
    BY <1>2
  <2> QED
    BY <1>2, <2>1, <2>2, MovedKeeps
<1> QED
  BY <1>1, <1>2

LEMMA Unmoved ==
    ASSUME UNCHANGED <<bucket, fresh>>, NEW j \in Jobs
    PROVE  Moved(bucket, fresh[j], bucket', fresh'[j])
BY DEF Moved

LEMMA DeletedMoves ==
    ASSUME TypeOK, WalkInv, NEW j \in Jobs, DeletesTargets(j)
    PROVE  /\ \A i \in Jobs : Moved(bucket, fresh[i], bucket', fresh'[i])
           /\ Locked \subseteq bucket'
           /\ bucket' = bucket \ (worker[j].targets \ Locked) /\ fresh' = fresh
BY DEF DeletesTargets, Moved, WalkInv

LEMMA IdleDelivery ==
    ASSUME NEW b, NEW f
    PROVE  DeliveryInv(b, f, Idle)
BY NothingYet DEF DeliveryInv, Idle, Submitted, Walking

\* A record in memory that is in progress may be written as such or as failed.
LEMMA FailedRow ==
    ASSUME NEW b, NEW f, NEW record \in Rows, record.failed <= Cardinality(Locked)
    PROVE  RowInv(b, f, Failed(record))
<1>1. Failed(record).status = "failed" /\ Failed(record).failed = record.failed
  BY DEF Failed, Rows
<1> QED
  BY <1>1 DEF RowInv, Completed

LEMMA InProgressBounded ==
    ASSUME NEW b, NEW f, NEW record \in Rows, InProgress(b, f, record)
    PROVE  record.failed <= Cardinality(Locked)
BY UpToCounted DEF InProgress, Rows

LEMMA RequestWalk ==
    ASSUME TypeOK, FlowInv, WalkInv, NEW j \in Jobs, RequestStep(j)
    PROVE  WalkInv'
<1> USE DEF bucketVars
<1>0. /\ RowInv(bucket, fresh[j], row[j]) /\ DeliveryInv(bucket, fresh[j], worker[j])
      /\ watchdog[j].job.failed <= Cardinality(Locked) /\ Locked \subseteq bucket
  BY DEF WalkInv
<1>1. CASE Submit(j)
  <2>1. /\ row'[j] = Submitted /\ \A i \in Jobs : i # j => row'[i] = row[i]
        /\ UNCHANGED <<worker, watchdog, bucket>>
        /\ fresh'[j] = {} /\ \A i \in Jobs : i # j => fresh'[i] = fresh[i]
    BY <1>1, WritesType, SubmittedType DEF Submit, TypeOK
  <2>2. InProgress(bucket, {}, Submitted)
    BY NothingYet DEF TypeOK
  <2>3. RowInv(bucket, {}, Submitted)
    BY <2>2, NothingYet DEF RowInv, Submitted, Completed
  <2>4. worker[j].pc = "idle"
    BY <1>1 DEF Submit, FlowInv, Unknown
  <2>5. DeliveryInv(bucket, {}, worker[j])
    BY <1>0, <2>4 DEF DeliveryInv, Walking
  <2>6. \A i \in Jobs : i # j => Moved(bucket, fresh[i], bucket', fresh'[i])
    BY <2>1 DEF Moved
  <2> QED
    BY <1>0, <2>1, <2>3, <2>5, <2>6, WalkFrame
<1>2. CASE FailUnqueued(j)
  <2>1. Failed(Submitted) \in Rows
    BY FailedType, SubmittedType
  <2>2. /\ row'[j] = Failed(Submitted) /\ \A i \in Jobs : i # j => row'[i] = row[i]
        /\ UNCHANGED <<worker, watchdog, bucket, fresh>>
    BY <1>2, <2>1, WritesType DEF FailUnqueued
  <2>3. RowInv(bucket, fresh[j], Failed(Submitted))
    BY NothingYet, SubmittedType, FailedRow DEF Submitted
  <2> QED
    BY <1>0, <2>2, <2>3, Unmoved, WalkFrame
<1>3. CASE EnqueueFirst(j) \/ RequestDies(j)
  <2>1. UNCHANGED <<row, worker, watchdog, bucket, fresh>>
    BY <1>3 DEF EnqueueFirst, RequestDies
  <2> QED
    BY <2>1 DEF WalkInv
<1> QED
  BY <1>1, <1>2, <1>3 DEF RequestStep

LEMMA WatchdogWalk ==
    ASSUME TypeOK, FlowInv, WalkInv, NEW j \in Jobs, WatchdogStep(j) \/ WatchdogDies(j)
    PROVE  WalkInv'
<1> USE DEF bucketVars, watchdogUnchanged
<1>0. /\ RowInv(bucket, fresh[j], row[j]) /\ DeliveryInv(bucket, fresh[j], worker[j])
      /\ watchdog[j].job.failed <= Cardinality(Locked) /\ Locked \subseteq bucket
      /\ watchdog[j].job \in Rows
  BY DEF WalkInv, TypeOK
<1>1. CASE FindStalled(j)
  <2>1. UNCHANGED <<row, worker, bucket, fresh>>
    BY <1>1 DEF FindStalled
  <2>2. watchdog'[j].job.failed <= Cardinality(Locked)
    BY <1>0, <1>1 DEF FindStalled, RowInv, TypeOK
  <2>3. \A i \in Jobs : i # j => watchdog'[i] = watchdog[i]
    BY <1>1 DEF FindStalled, TypeOK
  <2> QED
    BY <1>0, <2>1, <2>2, <2>3, Unmoved, WalkFrame
<1>2. CASE FailStalled(j)
  <2>1. /\ row'[j] = Failed(watchdog[j].job)
        /\ \A i \in Jobs : i # j => row'[i] = row[i]
    BY <1>0, <1>2, FailedType, WritesType DEF FailStalled
  <2>2. /\ watchdog' = [watchdog EXCEPT ![j] = [pc |-> "idle", job |-> watchdog[j].job]]
        /\ UNCHANGED <<worker, bucket, fresh>>
    BY <1>2, WatchdogRests DEF FailStalled
  <2>3. /\ watchdog'[j].job = watchdog[j].job
        /\ \A i \in Jobs : i # j => watchdog'[i] = watchdog[i]
    BY <2>2 DEF TypeOK
  <2>4. RowInv(bucket, fresh[j], Failed(watchdog[j].job))
    BY <1>0, FailedRow
  <2> QED
    BY <1>0, <2>1, <2>2, <2>3, <2>4, Unmoved, WalkFrame
<1>3. CASE WatchdogDies(j)
  <2>1. /\ watchdog' = [watchdog EXCEPT ![j] = [pc |-> "idle", job |-> watchdog[j].job]]
        /\ UNCHANGED <<row, worker, bucket, fresh>>
    BY <1>3, WatchdogRests DEF WatchdogDies
  <2>2. \A i \in Jobs : watchdog'[i].job = watchdog[i].job
    BY <2>1 DEF TypeOK
  <2> QED
    BY <2>1, <2>2 DEF WalkInv
<1> QED
  BY <1>1, <1>2, <1>3 DEF WatchdogStep

LEMMA MeanwhileWalk ==
    ASSUME TypeOK, WalkInv,
           (\E j \in Jobs : Revoke(j)) \/ (\E k \in Keys : Upload(k)) \/ UNCHANGED vars
    PROVE  WalkInv'
<1>1. ASSUME NEW k \in Keys, Upload(k) PROVE WalkInv'
  <2>1. \A j \in Jobs : Moved(bucket, fresh[j], bucket', fresh'[j])
    BY <1>1 DEF Upload, Moved
  <2>2. UNCHANGED <<row, worker, watchdog>> /\ Locked \subseteq bucket'
    BY <1>1 DEF Upload, WalkInv
  <2> QED
    BY <2>1, <2>2, MovedKeeps DEF WalkInv
<1>2. CASE (\E j \in Jobs : Revoke(j)) \/ UNCHANGED vars
  <2>1. UNCHANGED <<row, worker, watchdog, bucket, fresh>>
    BY <1>2 DEF Revoke, vars
  <2> QED
    BY <2>1 DEF WalkInv
<1> QED
  BY <1>1, <1>2

LEMMA TakeWalk ==
    ASSUME TypeOK, FlowInv, WalkInv, NEW j \in Jobs, Take(j)
    PROVE  WalkInv'
<1> USE DEF bucketVars, workerUnchanged
<1>0. /\ RowInv(bucket, fresh[j], row[j]) /\ row[j] \in Rows
      /\ watchdog[j].job.failed <= Cardinality(Locked) /\ Locked \subseteq bucket
      /\ UNCHANGED <<row, watchdog, bucket, fresh>>
  BY DEF WalkInv, TypeOK, Take
<1>1. CASE Finished(row[j])
  <2>1. UNCHANGED worker
    BY <1>1 DEF Take
  <2> QED
    BY <1>0, <2>1 DEF WalkInv
<1>2. CASE ~Finished(row[j])
  <2> DEFINE w == [Idle EXCEPT !.pc = "check", !.job = row[j]]
  <2>1. w \in Deliveries /\ w.pc = "check" /\ w.job = row[j]
    BY <1>0, IdleType DEF Deliveries, Stages
  <2>2. worker' = [worker EXCEPT ![j] = w]
    BY <1>2 DEF Take
  <2>3. row[j].status \in {"pending", "running"}
    <3>1. row[j].status # "none"
      BY DEF Take, FlowInv, Unknown
    <3> QED
      BY <1>0, <1>2, <3>1 DEF Finished, Rows, Statuses
  <2> HIDE DEF w
  <2>4. DeliveryInv(bucket, fresh[j], w)
    BY <1>0, <2>1, <2>3 DEF DeliveryInv, RowInv
  <2>5. worker'[j] = w /\ \A i \in Jobs : i # j => worker'[i] = worker[i]
    BY <2>2 DEF TypeOK
  <2> QED
    BY <1>0, <2>4, <2>5, Unmoved, WalkFrame
<1> QED
  BY <1>1, <1>2

LEMMA PageWalk ==
    ASSUME TypeOK, FlowInv, WalkInv, NEW j \in Jobs, Check(j) \/ List(j) \/ Delete(j)
    PROVE  WalkInv'
<1> USE DEF bucketVars, workerUnchanged
<1>0. /\ RowInv(bucket, fresh[j], row[j]) /\ DeliveryInv(bucket, fresh[j], worker[j])
      /\ watchdog[j].job.failed <= Cardinality(Locked) /\ Locked \subseteq bucket
      /\ worker[j] \in Deliveries /\ worker[j].job \in Rows
      /\ UNCHANGED <<row, watchdog>>
  BY DEF WalkInv, TypeOK, Deliveries, Check, List, Delete
<1>1. CASE Check(j)
  <2>1. PICK pc \in {"list", "refuse"} : Goes(j, pc)
    BY <1>1 DEF Check
  <2>2. pc \in Stages
    BY DEF Stages
  <2>3. /\ worker'[j] = [worker[j] EXCEPT !.pc = pc]
        /\ \A i \in Jobs : i # j => worker'[i] = worker[i]
    BY <2>1, <2>2, GoesType
  <2>4. worker'[j].pc = pc /\ worker'[j].job = worker[j].job
    BY <1>0, <2>3 DEF Deliveries
  <2>5. DeliveryInv(bucket, fresh[j], worker'[j])
    BY <1>0, <1>1, <2>4 DEF Check, DeliveryInv, Walking
  <2>6. UNCHANGED <<bucket, fresh>>
    BY <1>1 DEF Check
  <2> QED
    BY <1>0, <2>3, <2>5, <2>6, Unmoved, WalkFrame
<1>2. CASE List(j)
  <2>1. PICK next \in Cursors :
          /\ EndsPage(j, next)
          /\ worker' = [worker EXCEPT
                ![j] = [worker[j] EXCEPT !.pc = "delete", !.next = next,
                                         !.targets = Page(j, next)]]
    BY <1>2 DEF List
  <2> DEFINE w == [worker[j] EXCEPT !.pc = "delete", !.next = next,
                                    !.targets = Page(j, next)]
  <2>2. /\ w.pc = "delete" /\ w.job = worker[j].job /\ w.next = next
        /\ w.targets = Page(j, next)
    BY <1>0 DEF Deliveries
  <2>3. worker'[j] = w /\ \A i \in Jobs : i # j => worker'[i] = worker[i]
    BY <2>1 DEF TypeOK
  <2> HIDE DEF w
  <2>4. PageInv(bucket, fresh[j], w)
    <3>1. next # 0 => worker[j].job.cursor < next
      BY <2>1 DEF EndsPage, Page
    <3>2. \A k \in bucket : OnPage(w, k) <=> k \in w.targets
      BY <2>2 DEF OnPage, Page
    <3> QED
      BY <1>0, <2>2, <3>1, <3>2 DEF PageInv
  <2>5. DeliveryInv(bucket, fresh[j], w)
    BY <1>0, <1>2, <2>2, <2>4 DEF List, DeliveryInv, Walking
  <2>6. UNCHANGED <<bucket, fresh>>
    BY <1>2 DEF List
  <2> QED
    BY <1>0, <2>3, <2>5, <2>6, Unmoved, WalkFrame
<1>3. CASE Delete(j)
  <2> DEFINE pc == IF worker[j].next = 0 THEN "finalize" ELSE "checkpoint"
             w == [worker[j] EXCEPT !.pc = pc, !.job = Applied(j)]
  <2>1. /\ worker'[j] = w /\ \A i \in Jobs : i # j => worker'[i] = worker[i]
        /\ w.pc = pc /\ w.job = Applied(j)
    BY <1>0, <1>3 DEF Delete, TypeOK, Deliveries
  <2> HIDE DEF w
  <2>2. /\ Applied(j) \in Rows /\ Applied(j).status = "running"
        /\ Applied(j).cursor = worker[j].next
        /\ Applied(j).failed = worker[j].job.failed + Cardinality(worker[j].targets \cap Locked)
    BY <1>0, AppliedType DEF Applied, Rows
  <2>3. /\ \A i \in Jobs : Moved(bucket, fresh[i], bucket', fresh'[i])
        /\ Locked \subseteq bucket'
        /\ bucket' = bucket \ (worker[j].targets \ Locked) /\ fresh' = fresh
    BY <1>3, DeletedMoves DEF Delete
  <2>4. PageInv(bucket, fresh[j], worker[j]) /\ InProgress(bucket, fresh[j], worker[j].job)
    BY <1>0, <1>3 DEF Delete, DeliveryInv, Walking
  <2>5. /\ worker[j].next # 0 => InProgress(bucket', fresh[j], Applied(j))
        /\ worker[j].next = 0 => Walked(bucket', fresh[j], Applied(j))
    <3>1. bucket \in SUBSET Keys
      BY DEF TypeOK
    <3> QED
      BY <1>0, <2>2, <2>3, <2>4, <3>1, PageApplied
  <2>6. Applied(j).failed <= Cardinality(Locked)
    BY <2>2, <2>5, InProgressBounded, LockedFinite DEF Walked
  <2>7. DeliveryInv(bucket', fresh'[j], w)
    BY <2>1, <2>2, <2>3, <2>5, <2>6 DEF DeliveryInv, Walking
  <2>8. RowInv(bucket', fresh'[j], row[j])
    BY <1>0, <2>3, MovedKeeps
  <2> QED
    BY <1>0, <2>1, <2>3, <2>7, <2>8, WalkFrame
<1> QED
  BY <1>1, <1>2, <1>3

LEMMA RecordWalk ==
    ASSUME TypeOK, FlowInv, WalkInv, NEW j \in Jobs,
           Checkpoint(j) \/ HandOff(j) \/ Finalize(j) \/ Refuse(j) \/ Enqueue(j)
    PROVE  WalkInv'
<1> USE DEF bucketVars, workerUnchanged
<1>0. /\ RowInv(bucket, fresh[j], row[j]) /\ DeliveryInv(bucket, fresh[j], worker[j])
      /\ watchdog[j].job.failed <= Cardinality(Locked) /\ Locked \subseteq bucket
      /\ worker[j] \in Deliveries /\ worker[j].job \in Rows
      /\ UNCHANGED <<watchdog, bucket, fresh>>
  BY DEF WalkInv, TypeOK, Deliveries, Checkpoint, HandOff, Finalize, Refuse, Enqueue
<1>1. PICK pc \in Stages : Goes(j, pc) /\ (pc \in Walking => worker[j].pc \in Walking)
                           /\ pc \notin {"delete", "finalize"}
  BY DEF Checkpoint, HandOff, Finalize, Refuse, Enqueue, Stages, Walking
<1>2. /\ worker'[j] = [worker[j] EXCEPT !.pc = pc]
      /\ \A i \in Jobs : i # j => worker'[i] = worker[i]
  BY <1>1, GoesType
<1>3. worker'[j].pc = pc /\ worker'[j].job = worker[j].job
  BY <1>0, <1>2 DEF Deliveries
<1>4. DeliveryInv(bucket, fresh[j], worker'[j])
  BY <1>0, <1>1, <1>3 DEF DeliveryInv
<1>5. CASE Enqueue(j)
  <2>1. UNCHANGED row
    BY <1>5 DEF Enqueue
  <2> QED
    BY <1>0, <1>2, <1>4, <2>1, Unmoved, WalkFrame
<1>6. ASSUME NEW record \in Rows, Writes(j, record), RowInv(bucket, fresh[j], record)
      PROVE  WalkInv'
  <2>1. row'[j] = record /\ \A i \in Jobs : i # j => row'[i] = row[i]
    BY <1>6, WritesType
  <2> QED
    BY <1>0, <1>2, <1>4, <1>6, <2>1, Unmoved, WalkFrame
<1>7. CASE Checkpoint(j)
  <2>1. RowInv(bucket, fresh[j], worker[j].job)
    BY <1>0, <1>7 DEF Checkpoint, DeliveryInv, Walking, RowInv, Completed
  <2> QED
    BY <1>0, <1>6, <1>7, <2>1 DEF Checkpoint
<1>8. CASE HandOff(j)
  <2> DEFINE record == [worker[j].job EXCEPT !.resumes = NextResume(j)]
  <2>1. NextResume(j) \in Nat
    BY <1>0 DEF NextResume, Rows
  <2>2. /\ record \in Rows /\ record.status = worker[j].job.status
        /\ record.cursor = worker[j].job.cursor /\ record.failed = worker[j].job.failed
    BY <1>0, <2>1 DEF Rows
  <2>3. Writes(j, record)
    BY <1>8 DEF HandOff
  <2> HIDE DEF record
  <2>4. RowInv(bucket, fresh[j], record)
    BY <1>0, <1>8, <2>2
       DEF HandOff, DeliveryInv, Walking, RowInv, Completed, InProgress
  <2> QED
    BY <1>6, <2>2, <2>3, <2>4
<1>9. CASE Finalize(j)
  <2> DEFINE status == IF worker[j].job.failed > 0
                       THEN "completed_with_errors" ELSE "completed"
             record == [worker[j].job EXCEPT !.cursor = 0, !.status = status]
  <2>1. Writes(j, record)
    BY <1>9 DEF Finalize
  <2>2. status \in Completed /\ (status = "completed" => worker[j].job.failed = 0)
    BY <1>0 DEF Completed, Rows
  <2>6. status \in Statuses /\ 0 \in Cursors
    BY <2>2, ConstantsAssumption DEF Statuses, Terminal, Cursors
  <2> HIDE DEF status
  <2>3. /\ record \in Rows /\ record.status = status
        /\ record.failed = worker[j].job.failed
    BY <1>0, <2>6 DEF Rows
  <2> HIDE DEF record
  <2>4. RowInv(bucket, fresh[j], record)
    BY <1>0, <1>9, <2>2, <2>3 DEF Finalize, DeliveryInv, RowInv, Completed, Walked
  <2> QED
    BY <1>6, <2>1, <2>3, <2>4
<1>10. CASE Refuse(j)
  <2>1. Failed(worker[j].job) \in Rows /\ RowInv(bucket, fresh[j], Failed(worker[j].job))
    BY <1>0, FailedType, FailedRow DEF DeliveryInv
  <2> QED
    BY <1>6, <1>10, <2>1 DEF Refuse
<1> QED
  BY <1>5, <1>7, <1>8, <1>9, <1>10

\* A delivery that ends leaves its row or fails it, and may have deleted a page.
LEMMA EndWalk ==
    ASSUME TypeOK, FlowInv, WalkInv, NEW j \in Jobs,
           Return(j) \/ Fail(j) \/ Dies(j) \/ Throws(j)
    PROVE  WalkInv'
<1> USE DEF bucketVars, workerUnchanged
<1>0. /\ RowInv(bucket, fresh[j], row[j]) /\ DeliveryInv(bucket, fresh[j], worker[j])
      /\ watchdog[j].job.failed <= Cardinality(Locked) /\ Locked \subseteq bucket
      /\ worker[j] \in Deliveries /\ worker[j].job \in Rows
      /\ UNCHANGED watchdog
  BY DEF WalkInv, TypeOK, Deliveries, Return, Fail, Dies, Throws
<1>1. /\ \A i \in Jobs : Moved(bucket, fresh[i], bucket', fresh'[i])
      /\ Locked \subseteq bucket'
  BY <1>0, Unmoved, DeletedMoves DEF Return, Fail, Dies, Throws
<1>2. /\ worker'[j] = Idle \/ worker'[j] = [worker[j] EXCEPT !.pc = "fail"]
      /\ \A i \in Jobs : i # j => worker'[i] = worker[i]
  <2>1. Leaves(j) \/ Goes(j, "fail")
    BY DEF Return, Fail, Dies, Throws, Caught
  <2> QED
    BY <2>1, LeavesType, GoesType DEF Stages
<1>3. DeliveryInv(bucket', fresh'[j], worker'[j])
  <2>1. CASE worker'[j] = Idle
    BY <2>1, IdleDelivery
  <2>2. CASE worker'[j] = [worker[j] EXCEPT !.pc = "fail"]
    <3>1. worker'[j].pc = "fail" /\ worker'[j].job = worker[j].job
      BY <1>0, <2>2 DEF Deliveries
    <3> QED
      BY <1>0, <3>1 DEF DeliveryInv, Walking
  <2> QED
    BY <1>2, <2>1, <2>2
<1>4. CASE Fail(j)
  <2>1. Failed(worker[j].job) \in Rows
    BY <1>0, FailedType
  <2>2. row'[j] = Failed(worker[j].job) /\ \A i \in Jobs : i # j => row'[i] = row[i]
    BY <1>4, <2>1, WritesType DEF Fail
  <2>3. RowInv(bucket', fresh'[j], row'[j])
    BY <1>0, <2>2, FailedRow DEF DeliveryInv
  <2> QED
    BY <1>0, <1>1, <1>2, <1>3, <2>2, <2>3, WalkFrame
<1>5. CASE ~Fail(j)
  <2>1. UNCHANGED row
    BY <1>5 DEF Return, Dies, Throws
  <2>2. RowInv(bucket', fresh'[j], row'[j])
    BY <1>0, <1>1, <2>1, MovedKeeps
  <2> QED
    BY <1>0, <1>1, <1>2, <1>3, <2>1, <2>2, WalkFrame
<1> QED
  BY <1>4, <1>5

LEMMA InitWalk == Init => WalkInv
<1> SUFFICES ASSUME Init, NEW j \in Jobs
             PROVE  /\ Locked \subseteq bucket
                    /\ RowInv(bucket, fresh[j], row[j])
                    /\ DeliveryInv(bucket, fresh[j], worker[j])
                    /\ watchdog[j].job.failed <= Cardinality(Locked)
  BY ConstantsAssumption DEF WalkInv, Init
<1>1. row[j].status = "none" /\ row[j].failed = 0
  BY DEF Init, Submitted
<1> QED
  BY <1>1, IdleDelivery, NothingYet, ConstantsAssumption
     DEF Init, RowInv, Submitted, Completed

LEMMA WalkStep == TypeOK /\ FlowInv /\ WalkInv /\ [Next]_vars => WalkInv'
<1> SUFFICES ASSUME TypeOK, FlowInv, WalkInv, [Next]_vars PROVE WalkInv'
  OBVIOUS
<1>1. CASE UNCHANGED vars
  BY <1>1 DEF WalkInv, vars
<1>2. ASSUME NEW j \in Jobs, RequestStep(j) PROVE WalkInv'
  BY <1>2, RequestWalk
<1>3. ASSUME NEW j \in Jobs, WatchdogStep(j) \/ WatchdogDies(j) PROVE WalkInv'
  BY <1>3, WatchdogWalk
<1>4. ASSUME NEW j \in Jobs, WorkerStep(j) PROVE WalkInv'
  BY <1>4, TakeWalk, PageWalk, RecordWalk, EndWalk DEF WorkerStep
<1>5. ASSUME NEW j \in Jobs, Throws(j) \/ Dies(j) PROVE WalkInv'
  BY <1>5, EndWalk
<1> QED
  BY <1>1, <1>2, <1>3, <1>4, <1>5, MeanwhileWalk DEF Next

LEMMA WalkAlways == Spec => [](TypeOK /\ WalkInv)
<1>1. Init => TypeOK /\ FlowInv /\ WalkInv
  BY InitFlow, InitWalk
<1>2. TypeOK /\ FlowInv /\ WalkInv /\ [Next]_vars => (TypeOK /\ FlowInv /\ WalkInv)'
  BY FlowStep, WalkStep
<1> QED
  BY <1>1, <1>2, PTL DEF Spec

\* finalizeJob: whatever cut the walk off, however often it was taken up and whoever
\* else deleted or uploaded meanwhile, a completed job left nothing of what was in
\* the bucket, and one completed with errors no more than it counted.
THEOREM CompletedLeftNothing == Spec => []CompletedIsEmptied
<1>1. TypeOK /\ WalkInv => CompletedIsEmptied
  <2> SUFFICES ASSUME TypeOK, WalkInv, NEW j \in Jobs
               PROVE  /\ row[j].status = "completed" => bucket \subseteq fresh[j]
                      /\ row[j].status = "completed_with_errors" =>
                           Cardinality(bucket \ fresh[j]) <= row[j].failed
    BY DEF CompletedIsEmptied
  <2>1. RowInv(bucket, fresh[j], row[j])
    BY DEF WalkInv
  <2>2. CASE row[j].status = "completed"
    <3>1. Cardinality(Locked) = 0 /\ bucket \subseteq fresh[j] \cup Locked
      BY <2>1, <2>2 DEF RowInv, Walked, Completed
    <3>2. Locked = {}
      BY <3>1, LockedFinite, FS_EmptySet
    <3> QED
      BY <2>2, <3>1, <3>2
  <2>3. CASE row[j].status = "completed_with_errors"
    <3>1. row[j].failed = Cardinality(Locked) /\ bucket \ fresh[j] \subseteq Locked
      BY <2>1, <2>3 DEF RowInv, Walked, Completed
    <3>2. Cardinality(bucket \ fresh[j]) <= Cardinality(Locked)
      BY <3>1, LockedFinite, FS_Subset
    <3> QED
      BY <2>3, <3>1, <3>2
  <2> QED
    BY <2>2, <2>3
<1> QED
  BY <1>1, WalkAlways, PTL

\* applyPageResult: a page whose outcome was not recorded is walked again, and an
\* object that refuses is counted once all the same.
THEOREM FailuresCounted == Spec => []FailuresCountOnce
<1>1. WalkInv => FailuresCountOnce
  BY DEF WalkInv, RowInv, FailuresCountOnce
<1> QED
  BY <1>1, WalkAlways, PTL

-----------------------------------------------------------------------------
(* The member who may no longer delete *)

Deleting == {"list", "delete"}

\* A page deleted in the name of a member who may not was asked for before.
PermitInv ==
    \A j \in Jobs :
        /\ late[j] <= 1
        /\ permitted[j] => late[j] = 0
        /\ late[j] = 1 => worker[j].pc \notin Deleting

\* A delivery starts to delete when its member may.
Enters(j) == worker'[j].pc \in Deleting => worker[j].pc \in Deleting \/ permitted[j]

LEMMA EntersStep ==
    ASSUME TypeOK, [Next]_vars, NEW j \in Jobs
    PROVE  /\ Enters(j)
           /\ permitted'[j] => permitted[j]
           /\ \/ late'[j] = late[j]
              \/ /\ worker[j].pc = "delete" /\ worker'[j].pc \notin Deleting
                 /\ late'[j] = IF permitted[j] THEN late[j] ELSE late[j] + 1
<1> USE DEF bucketVars, workerUnchanged, watchdogUnchanged
<1>1. CASE UNCHANGED <<worker, permitted, late>>
  BY <1>1 DEF Enters
<1>2. ASSUME NEW i \in Jobs, NEW pc \in Stages, Goes(i, pc), UNCHANGED <<permitted, late>>,
             pc \in Deleting => worker[i].pc \in Deleting \/ permitted[i]
      PROVE  /\ Enters(j) /\ (permitted'[j] => permitted[j]) /\ late'[j] = late[j]
  <2>1. /\ worker'[i] = [worker[i] EXCEPT !.pc = pc]
        /\ \A k \in Jobs : k # i => worker'[k] = worker[k]
    BY <1>2, GoesType
  <2>2. worker'[i].pc = pc
    BY <2>1 DEF TypeOK, Deliveries
  <2> QED
    BY <1>2, <2>1, <2>2 DEF Enters
<1>3. ASSUME NEW i \in Jobs, Leaves(i), UNCHANGED <<permitted, late>>
      PROVE  /\ Enters(j) /\ (permitted'[j] => permitted[j]) /\ late'[j] = late[j]
  BY <1>3, LeavesType DEF Enters, Idle, Deleting
<1>4. ASSUME NEW i \in Jobs, NEW w \in Deliveries, UNCHANGED permitted,
             worker' = [worker EXCEPT ![i] = w], w.pc \notin Deleting,
             \/ UNCHANGED late
             \/ worker[i].pc = "delete" /\ DeletesTargets(i)
      PROVE  /\ Enters(j) /\ (permitted'[j] => permitted[j])
             /\ \/ late'[j] = late[j]
                \/ /\ worker[j].pc = "delete" /\ worker'[j].pc \notin Deleting
                   /\ late'[j] = IF permitted[j] THEN late[j] ELSE late[j] + 1
  BY <1>4 DEF Enters, DeletesTargets, TypeOK
<1>5. ASSUME NEW i \in Jobs, Take(i)
      PROVE  Enters(j) /\ UNCHANGED <<permitted, late>>
  <2> DEFINE w == [Idle EXCEPT !.pc = "check", !.job = row[i]]
  <2>1. worker' = worker \/ worker' = [worker EXCEPT ![i] = w]
    BY <1>5 DEF Take
  <2>2. w.pc = "check"
    BY DEF Idle
  <2> HIDE DEF w
  <2> QED
    BY <1>5, <2>1, <2>2 DEF Take, Enters, Deleting, TypeOK
<1>6. ASSUME NEW i \in Jobs, List(i)
      PROVE  Enters(j) /\ UNCHANGED <<permitted, late>>
  BY <1>6 DEF List, Enters, Deleting, TypeOK
<1>7. ASSUME NEW i \in Jobs, Delete(i) \/ Dies(i) \/ Throws(i)
      PROVE  \E w \in Deliveries :
                /\ worker' = [worker EXCEPT ![i] = w] /\ w.pc \notin Deleting
                /\ UNCHANGED permitted
                /\ UNCHANGED late \/ (worker[i].pc = "delete" /\ DeletesTargets(i))
  <2>1. worker[i] \in Deliveries
    BY DEF TypeOK
  <2>2. CASE Delete(i)
    <3> DEFINE pc == IF worker[i].next = 0 THEN "finalize" ELSE "checkpoint"
               w == [worker[i] EXCEPT !.pc = pc, !.job = Applied(i)]
    <3>1. pc \in Stages /\ pc \notin Deleting
      BY DEF Stages, Deleting
    <3>2. worker' = [worker EXCEPT ![i] = w]
      BY <2>2 DEF Delete
    <3> HIDE DEF pc
    <3>3. w \in Deliveries /\ w.pc = pc
      BY <2>1, <3>1, AppliedType DEF Deliveries
    <3> HIDE DEF w
    <3> QED
      BY <2>2, <3>1, <3>2, <3>3 DEF Delete, DeletesTargets
  <2>3. CASE Dies(i) \/ Throws(i)
    <3>1. Leaves(i) \/ Goes(i, "fail")
      BY <2>3 DEF Dies, Throws, Caught
    <3>2. [worker[i] EXCEPT !.pc = "fail"] \in Deliveries
      BY <2>1 DEF Deliveries, Stages
    <3>3. [worker[i] EXCEPT !.pc = "fail"].pc = "fail"
      BY <2>1 DEF Deliveries
    <3>4. PICK w \in {Idle, [worker[i] EXCEPT !.pc = "fail"]} :
            worker' = [worker EXCEPT ![i] = w]
      BY <3>1 DEF Leaves, Goes
    <3>5. w \in Deliveries /\ w.pc \notin Deleting
      <4>1. Idle \in Deliveries /\ Idle.pc = "idle"
        BY IdleType DEF Idle
      <4>2. CASE w = Idle
        BY <4>1, <4>2 DEF Deleting
      <4>3. CASE w = [worker[i] EXCEPT !.pc = "fail"]
        BY <3>2, <3>3, <4>3 DEF Deleting
      <4> QED
        BY <4>2, <4>3
    <3>6. UNCHANGED late \/ (worker[i].pc = "delete" /\ DeletesTargets(i))
      BY <2>3 DEF Dies, Throws
    <3>7. UNCHANGED permitted
      BY <2>3 DEF Dies, Throws, DeletesTargets
    <3> QED
      BY <3>4, <3>5, <3>6, <3>7
  <2> QED
    BY <1>7, <2>2, <2>3
<1>8. ASSUME NEW i \in Jobs, WorkerStep(i) \/ Throws(i) \/ Dies(i)
      PROVE  /\ Enters(j) /\ (permitted'[j] => permitted[j])
             /\ \/ late'[j] = late[j]
                \/ /\ worker[j].pc = "delete" /\ worker'[j].pc \notin Deleting
                   /\ late'[j] = IF permitted[j] THEN late[j] ELSE late[j] + 1
  <2>1. CASE Check(i)
    <3>1. Goes(i, IF permitted[i] THEN "list" ELSE "refuse")
      BY <2>1 DEF Check
    <3> QED
      BY <1>2, <2>1, <3>1 DEF Check, Stages, Deleting
  <2>2. CASE Checkpoint(i) \/ HandOff(i) \/ Enqueue(i) \/ Finalize(i) \/ Refuse(i)
    <3>1. PICK pc \in Stages : Goes(i, pc) /\ pc \notin Deleting
      BY <2>2 DEF Checkpoint, HandOff, Enqueue, Finalize, Refuse, Stages, Deleting
    <3> QED
      BY <1>2, <2>2, <3>1 DEF Checkpoint, HandOff, Enqueue, Finalize, Refuse
  <2>3. CASE Return(i) \/ Fail(i)
    BY <1>3, <2>3 DEF Return, Fail
  <2>4. CASE Take(i) \/ List(i)
    BY <1>5, <1>6, <2>4
  <2>5. CASE Delete(i) \/ Dies(i) \/ Throws(i)
    BY <1>4, <1>7, <2>5
  <2> QED
    BY <1>8, <2>1, <2>2, <2>3, <2>4, <2>5 DEF WorkerStep
<1>9. ASSUME NEW i \in Jobs, RequestStep(i) \/ WatchdogStep(i) \/ WatchdogDies(i)
      PROVE  UNCHANGED <<worker, permitted, late>>
  BY <1>9 DEF RequestStep, Submit, EnqueueFirst, FailUnqueued, RequestDies,
              WatchdogStep, FindStalled, FailStalled, WatchdogDies
<1>10. ASSUME NEW i \in Jobs, Revoke(i)
       PROVE  UNCHANGED <<worker, late>> /\ (permitted'[j] => permitted[j])
  BY <1>10 DEF Revoke, TypeOK
<1>11. ASSUME NEW k \in Keys, Upload(k)
       PROVE  UNCHANGED <<worker, permitted, late>>
  BY <1>11 DEF Upload
<1> QED
  BY <1>1, <1>8, <1>9, <1>10, <1>11 DEF Next, vars, Enters

\* assertMemberCanDelete: a member who loses the right to delete while their job runs
\* has one more page deleted in their name at the most; no delivery after that goes on.
THEOREM StoppedWithinAPage == Spec => []StopsWithinAPage
<1>1. Init => PermitInv
  BY DEF Init, PermitInv
<1>2. TypeOK /\ PermitInv /\ [Next]_vars => PermitInv'
  <2> SUFFICES ASSUME TypeOK, PermitInv, [Next]_vars, NEW j \in Jobs
               PROVE  /\ late'[j] <= 1
                      /\ permitted'[j] => late'[j] = 0
                      /\ late'[j] = 1 => worker'[j].pc \notin Deleting
    BY DEF PermitInv
  <2>1. /\ late[j] \in Nat /\ late[j] <= 1
        /\ permitted[j] => late[j] = 0
        /\ late[j] = 1 => worker[j].pc \notin Deleting
    BY DEF PermitInv, TypeOK
  <2>2. /\ Enters(j)
        /\ permitted'[j] => permitted[j]
        /\ \/ late'[j] = late[j]
           \/ /\ worker[j].pc = "delete" /\ worker'[j].pc \notin Deleting
              /\ late'[j] = IF permitted[j] THEN late[j] ELSE late[j] + 1
    BY EntersStep
  <2>3. CASE late'[j] = late[j]
    BY <2>1, <2>2, <2>3 DEF Enters
  <2>4. CASE late'[j] # late[j]
    <3>1. late[j] # 1
      BY <2>1, <2>2, <2>4 DEF Deleting
    <3> QED
      BY <2>1, <2>2, <2>4, <3>1
  <2> QED
    BY <2>3, <2>4
<1>3. PermitInv => StopsWithinAPage
  BY DEF PermitInv, StopsWithinAPage
<1> QED
  BY <1>1, <1>2, <1>3, TypeCorrect, PTL DEF Spec

-----------------------------------------------------------------------------
(* A completed job *)

\* A delivery on its way has a row that is not completed: whoever else writes the row
\* fails it.
RunInv ==
    \A j \in Jobs :
        worker[j].pc \in Walking \cup {"finalize"} => row[j].status \notin Completed


LEMMA WritesRun ==
    ASSUME TypeOK, RunInv, NEW j \in Jobs, NEW record \in Rows, Writes(j, record),
           NEW i \in Jobs
    PROVE  /\ row[i].status \in Completed =>
                Finished(row'[i]) \/ (i = j /\ ~Finished(record))
           /\ row'[i] = IF i = j THEN record ELSE row[i]
BY DEF TypeOK, Writes, Finished, Terminal

LEMMA RunFrame ==
    ASSUME TypeOK, RunInv, NEW j \in Jobs,
           \A i \in Jobs : i # j => worker'[i] = worker[i] /\ row'[i] = row[i],
           worker'[j].pc \in Walking \cup {"finalize"} => row'[j].status \notin Completed
    PROVE  RunInv'
BY DEF RunInv

\* What a delivery on its way writes is not completed, until it is done.
LEMMA RunStep ==
    ASSUME TypeOK, WalkInv, RunInv, [Next]_vars
    PROVE  /\ RunInv'
           /\ \A j \in Jobs : row[j].status \in Completed => Finished(row'[j])
<1> DEFINE Goal == /\ RunInv'
                   /\ \A j \in Jobs : row[j].status \in Completed => Finished(row'[j])
<1> USE DEF bucketVars, workerUnchanged, watchdogUnchanged
<1>0. \A j \in Jobs : row[j].status \in Completed => Finished(row[j])
  BY DEF Finished, Terminal
<1>1. CASE UNCHANGED <<row, worker>>
  BY <1>0, <1>1 DEF RunInv
<1>2. ASSUME NEW j \in Jobs, UNCHANGED row, NEW w,
             worker' = [worker EXCEPT ![j] = w],
             w.pc \in Walking \cup {"finalize"} => row[j].status \notin Completed
      PROVE  Goal
  <2>1. worker'[j] = w /\ \A i \in Jobs : i # j => worker'[i] = worker[i]
    BY <1>2 DEF TypeOK
  <2> QED
    BY <1>0, <1>2, <2>1, RunFrame
<1>3. ASSUME NEW j \in Jobs, NEW record \in Rows, Writes(j, record),
             \/ record.status \notin Completed
             \/ worker'[j].pc \notin Walking \cup {"finalize"},
             Finished(record) \/ row[j].status \notin Completed,
             \A i \in Jobs : i # j => worker'[i] = worker[i]
      PROVE  Goal
  <2>1. row'[j] = record /\ \A i \in Jobs : i # j => row'[i] = row[i]
    BY <1>3, WritesType
  <2>2. RunInv'
    BY <1>3, <2>1, RunFrame
  <2> QED
    BY <1>0, <1>3, <2>1, <2>2
<1>4. ASSUME NEW j \in Jobs, NEW record \in Rows, Writes(j, Failed(record)),
             \A i \in Jobs : i # j => worker'[i] = worker[i]
      PROVE  Goal
  <2>1. Failed(record) \in Rows /\ Failed(record).status = "failed"
    BY FailedType DEF Failed, Rows
  <2> QED
    BY <1>3, <1>4, <2>1 DEF Finished, Terminal, Completed
<1>5. ASSUME NEW j \in Jobs, RequestStep(j) PROVE Goal
  <2>1. CASE Submit(j)
    BY <1>3, <2>1, SubmittedType DEF Submit, Submitted, Completed
  <2>2. CASE FailUnqueued(j)
    BY <1>4, <2>2, SubmittedType DEF FailUnqueued
  <2>3. CASE EnqueueFirst(j) \/ RequestDies(j)
    BY <1>1, <2>3 DEF EnqueueFirst, RequestDies
  <2> QED
    BY <1>5, <2>1, <2>2, <2>3 DEF RequestStep
<1>6. ASSUME NEW j \in Jobs, WatchdogStep(j) \/ WatchdogDies(j) PROVE Goal
  <2>1. CASE FailStalled(j)
    <3>1. watchdog[j].job \in Rows
      BY DEF TypeOK
    <3> QED
      BY <1>4, <2>1, <3>1 DEF FailStalled
  <2>2. CASE ~FailStalled(j)
    BY <1>1, <1>6, <2>2 DEF WatchdogStep, FindStalled, WatchdogDies
  <2> QED
    BY <2>1, <2>2
<1>7. ASSUME NEW j \in Jobs, WorkerStep(j) \/ Throws(j) \/ Dies(j) PROVE Goal
  <2>0. /\ worker[j] \in Deliveries /\ worker[j].job \in Rows /\ row[j] \in Rows
        /\ worker[j].pc \in Walking \cup {"finalize"} => row[j].status \notin Completed
        /\ worker[j].pc \in Walking => worker[j].job.status \in {"pending", "running"}
    BY DEF TypeOK, Deliveries, RunInv, WalkInv, DeliveryInv
  <2>g. ASSUME NEW pc \in Stages, Goes(j, pc)
        PROVE  /\ worker' = [worker EXCEPT ![j] = [worker[j] EXCEPT !.pc = pc]]
               /\ worker'[j].pc = pc /\ [worker[j] EXCEPT !.pc = pc].pc = pc
               /\ \A i \in Jobs : i # j => worker'[i] = worker[i]
    BY <2>0, <2>g, GoesType DEF Goes, Deliveries
  <2>1. CASE Take(j)
    <3>1. CASE UNCHANGED worker
      BY <1>1, <2>1, <3>1 DEF Take
    <3>2. CASE worker' # worker
      <4>1. row[j].status \notin Completed
        BY <2>1, <3>2 DEF Take, Finished, Terminal
      <4> QED
        BY <1>2, <2>1, <3>2, <4>1 DEF Take
    <3> QED
      BY <3>1, <3>2
  <2>2. CASE Check(j) \/ Enqueue(j)
    <3>1. PICK pc \in Stages : Goes(j, pc)
      BY <2>2 DEF Check, Enqueue, Stages
    <3>2. worker[j].pc \in Walking /\ UNCHANGED row
      BY <2>2 DEF Check, Enqueue, Walking
    <3> QED
      BY <1>2, <2>0, <2>g, <3>1, <3>2
  <2>3. CASE List(j) \/ Delete(j)
    <3>1. PICK w : worker' = [worker EXCEPT ![j] = w]
      BY <2>3 DEF List, Delete
    <3>2. worker[j].pc \in Walking /\ UNCHANGED row
      BY <2>3 DEF List, Delete, Walking
    <3> QED
      BY <1>2, <2>0, <3>1, <3>2
  <2>4. CASE Checkpoint(j) \/ HandOff(j)
    <3>1. PICK pc \in Stages : Goes(j, pc)
      BY <2>4 DEF Checkpoint, HandOff, Stages
    <3>2. PICK record \in Rows :
            Writes(j, record) /\ record.status = worker[j].job.status
      <4>1. NextResume(j) \in Nat
        BY <2>0 DEF NextResume, Rows
      <4>2. /\ [worker[j].job EXCEPT !.resumes = NextResume(j)] \in Rows
            /\ [worker[j].job EXCEPT !.resumes = NextResume(j)].status
                 = worker[j].job.status
        BY <2>0, <4>1 DEF Rows
      <4> QED
        BY <2>0, <2>4, <4>2 DEF Checkpoint, HandOff
    <3>3. worker[j].pc \in Walking
      BY <2>4 DEF Checkpoint, HandOff, Walking
    <3>4. record.status \notin Completed /\ row[j].status \notin Completed
      BY <2>0, <3>2, <3>3 DEF Completed
    <3> QED
      BY <1>3, <2>g, <3>1, <3>2, <3>4
  <2>5. CASE Finalize(j)
    <3> DEFINE status == IF worker[j].job.failed > 0
                         THEN "completed_with_errors" ELSE "completed"
               record == [worker[j].job EXCEPT !.cursor = 0, !.status = status]
    <3>1. status \in Statuses /\ 0 \in Cursors /\ status \in Terminal
      BY ConstantsAssumption DEF Statuses, Terminal, Completed, Cursors
    <3>2. Writes(j, record) /\ Goes(j, "answer")
      BY <2>5 DEF Finalize
    <3> HIDE DEF status
    <3>3. record \in Rows /\ record.status = status
      BY <2>0, <3>1 DEF Rows
    <3> HIDE DEF record
    <3>4. Finished(record)
      BY <3>1, <3>3 DEF Finished
    <3>5. "answer" \in Stages /\ "answer" \notin Walking \cup {"finalize"}
      BY DEF Stages, Walking
    <3> QED
      BY <1>3, <2>g, <3>2, <3>3, <3>4, <3>5
  <2>6. CASE Refuse(j) \/ Fail(j)
    <3>1. Writes(j, Failed(worker[j].job)) /\ (Goes(j, "return") \/ Leaves(j))
      BY <2>6 DEF Refuse, Fail
    <3>2. \A i \in Jobs : i # j => worker'[i] = worker[i]
      BY <2>g, <3>1, LeavesType DEF Stages
    <3> QED
      BY <1>4, <2>0, <3>1, <3>2
  <2>7. CASE Return(j) \/ Throws(j) \/ Dies(j)
    <3>1. UNCHANGED row /\ (Leaves(j) \/ Goes(j, "fail"))
      BY <2>7 DEF Return, Throws, Dies, Caught
    <3>2. CASE Leaves(j)
      BY <1>2, <3>1, <3>2 DEF Leaves, Idle, Walking
    <3>3. CASE Goes(j, "fail")
      BY <1>2, <2>g, <3>1, <3>3 DEF Stages, Walking
    <3> QED
      BY <3>1, <3>2, <3>3
  <2> QED
    BY <1>7, <2>1, <2>2, <2>3, <2>4, <2>5, <2>6, <2>7 DEF WorkerStep
<1>8. ASSUME NEW j \in Jobs, Revoke(j) PROVE Goal
  BY <1>1, <1>8 DEF Revoke
<1>9. ASSUME NEW k \in Keys, Upload(k) PROVE Goal
  BY <1>1, <1>9 DEF Upload
<1> QED
  BY <1>1, <1>5, <1>6, <1>7, <1>8, <1>9 DEF Next, vars

\* A completed job is never taken up again, whichever of its messages a lost answer
\* left behind; the worst that is written over it is that it failed.
THEOREM CompletedForGood == Spec => CompletedStays
<1>1. Init => RunInv
  BY DEF Init, RunInv, Idle, Walking
<1>2. TypeOK /\ WalkInv /\ RunInv /\ [Next]_vars =>
        /\ RunInv'
        /\ [\A j \in Jobs : row[j].status \in Completed => Finished(row'[j])]_vars
  BY RunStep
<1> QED
  BY <1>1, <1>2, WalkAlways, PTL DEF Spec, CompletedStays

=============================================================================
