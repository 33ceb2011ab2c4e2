-------------------- MODULE EvidenceRunScheduler_proofs --------------------
(***************************************************************************)
(* What the scheduler guarantees for every number of jobs and slots and    *)
(* every retention setting.  SlotAccounting is not inductive: pump may be  *)
(* known to start one job at most only because the queue is empty or every *)
(* slot is taken (WorkConserving) and the queue holds queued jobs only     *)
(* (QueueMatchesStatus), and the counter is right only because each stage  *)
(* of a promise chain goes with its status (TaskMatchesStatus).            *)
(***************************************************************************)
EXTENDS EvidenceRunScheduler, ListsAndSums, SequenceTheorems, TLAPS

\* Each stage of a promise chain goes with its status; jobs yet to be created
\* are absent; cancellation is requested of running and cancelled jobs only.
TaskMatchesStatus ==
    \A j \in Job :
        /\ status[j] = "running" <=> task[j] \in {"executing"} \cup Settlements
        /\ status[j] \in {"absent", "queued"} => task[j] = "idle"
        /\ j >= nextId => status[j] = "absent"
        /\ j \in cancelRequested => status[j] \in {"running", "canceled", "removed"}

\* The queue is in the order of creation.
QueueSorted == \A i, k \in 1..Len(queue) : i < k => queue[i] < queue[k]

IInv ==
    /\ TypeOK
    /\ SlotAccounting
    /\ QueueMatchesStatus
    /\ WorkConserving
    /\ ControllerWhileRunning
    /\ TaskMatchesStatus
    /\ QueueSorted

-----------------------------------------------------------------------------
\* pump shifts nothing when the queue is empty or every slot is taken.
LEMMA PumpIdle ==
    ASSUME SchedulerAssumption,
           NEW q \in Seq(Job), NEW st, NEW run \in Nat,
           q = <<>> \/ run = Concurrency
    PROVE  Shifted(q, st, run) = 0 /\ PumpStarts(q, st, run) = {}
<1>1. PumpStops(q, st, run, 0)
  <2>1. StartedIn(q, st, 0) = {}
    BY DEF StartedIn
  <2>2. Cardinality(StartedIn(q, st, 0)) = 0
    BY <2>1, FS_EmptySet
  <2>3. CASE q = <<>>
    BY <2>3, EmptySeq DEF PumpStops
  <2>4. CASE run = Concurrency
    BY <2>2, <2>4 DEF PumpStops, SchedulerAssumption
  <2> QED
    BY <2>3, <2>4
<1>2. 0 \in 0..Len(q) /\ Len(q) \in Nat
  BY LenProperties
<1>3. \A n \in 0..Len(q) :
          (PumpStops(q, st, run, n) /\ \A m \in 0..(n - 1) : ~PumpStops(q, st, run, m)) <=> n = 0
  BY <1>1, <1>2
<1>4. Shifted(q, st, run) = 0
  BY <1>2, <1>3 DEF Shifted
<1> QED
  BY <1>4 DEF PumpStarts, StartedIn

\* With one slot free, or one id in the queue, pump starts the head of the
\* queue and stops.
LEMMA PumpStartsHead ==
    ASSUME SchedulerAssumption,
           NEW q \in Seq(Job), q # <<>>, NEW st, NEW run \in Nat,
           run < Concurrency, st[q[1]] = "queued",
           Len(q) = 1 \/ run + 1 = Concurrency
    PROVE  Shifted(q, st, run) = 1 /\ PumpStarts(q, st, run) = {q[1]}
<1>0. Len(q) \in Nat /\ Len(q) >= 1 /\ q[1] \in Job /\ Concurrency \in Nat
  BY LenProperties, EmptySeq DEF SchedulerAssumption
<1>1. StartedIn(q, st, 0) = {} /\ StartedIn(q, st, 1) = {q[1]}
  BY <1>0 DEF StartedIn
<1>2. Cardinality(StartedIn(q, st, 0)) = 0 /\ Cardinality(StartedIn(q, st, 1)) = 1
  BY <1>1, FS_EmptySet, FS_Singleton
<1>3. ~PumpStops(q, st, run, 0) /\ PumpStops(q, st, run, 1)
  <2>1. ~PumpStops(q, st, run, 0)
    BY <1>0, <1>2 DEF PumpStops
  <2>2. PumpStops(q, st, run, 1)
    BY <1>0, <1>2 DEF PumpStops
  <2> QED
    BY <2>1, <2>2
<1>4. \A n \in 0..Len(q) :
          (PumpStops(q, st, run, n) /\ \A m \in 0..(n - 1) : ~PumpStops(q, st, run, m)) <=> n = 1
  <2>1. ASSUME NEW n \in 0..Len(q), PumpStops(q, st, run, n),
               \A m \in 0..(n - 1) : ~PumpStops(q, st, run, m)
        PROVE  n = 1
    <3>1. n # 0
      BY <1>3, <2>1
    <3>2. ~(n > 1)
      BY <1>3, <2>1
    <3> QED
      BY <3>1, <3>2
  <2>2. \A m \in 0..(1 - 1) : ~PumpStops(q, st, run, m)
    BY <1>3
  <2> QED
    BY <1>3, <2>1, <2>2
<1>5. 1 \in 0..Len(q)
  BY <1>0
<1>6. Shifted(q, st, run) = 1
  BY <1>4, <1>5 DEF Shifted
<1> QED
  BY <1>1, <1>6 DEF PumpStarts

\* pruneTerminal touches finished jobs only.
LEMMA PruneEffect ==
    ASSUME NEW st \in [Job -> Statuses], NEW upd \in [Job -> 0..MaxClock],
           NEW olderThan, NEW limit, PruneTerminal(st, upd, olderThan, limit),
           SchedulerAssumption
    PROVE  /\ status' \in [Job -> Statuses] /\ updatedAt' \in [Job -> 0..MaxClock]
           /\ \A j \in Job : status'[j] = st[j] \/ (st[j] \in Terminal /\ status'[j] = "removed")
           /\ \A j \in Job, x \in {"absent", "queued", "running"} : status'[j] = x <=> st[j] = x
<1> DEFINE gone == Pruned(st, upd, olderThan, limit)
<1>1. gone \subseteq TerminalIn(st)
  BY DEF Pruned, TooOld, BeyondLimit
<1>2. /\ status' = [j \in Job |-> IF j \in gone THEN "removed" ELSE st[j]]
      /\ updatedAt' = [j \in Job |-> IF j \in gone THEN 0 ELSE upd[j]]
  BY DEF PruneTerminal
<1>3. 0 \in 0..MaxClock
  BY DEF SchedulerAssumption
<1> HIDE DEF gone
<1> QED
  BY <1>1, <1>2, <1>3 DEF TerminalIn, Statuses, Terminal

-----------------------------------------------------------------------------
\* enqueue either starts the new job at once or appends it to the queue.
LEMMA EnqueueEffect ==
    ASSUME SchedulerAssumption, IInv, Enqueue
    PROVE  /\ nextId \in Job /\ nextId' = nextId + 1 /\ UNCHANGED <<cancelRequested, clock>>
           /\ \/ /\ queue = <<>> /\ running < Concurrency
                 /\ queue' = <<>> /\ running' = running + 1
                 /\ controllers' = controllers \cup {nextId}
                 /\ task' = [task EXCEPT ![nextId] = "executing"]
                 /\ PruneTerminal([status EXCEPT ![nextId] = "running"], updatedAt, {}, MaxTerminalJobs)
              \/ /\ running = Concurrency
                 /\ queue' = Append(queue, nextId)
                 /\ UNCHANGED <<running, controllers, task>>
                 /\ PruneTerminal([status EXCEPT ![nextId] = "queued"], updatedAt, {}, MaxTerminalJobs)
<1> DEFINE q == Append(queue, nextId)
           st == [status EXCEPT ![nextId] = "queued"]
           started == PumpStarts(q, st, running)
<1>1. /\ nextId \in Job /\ nextId' = nextId + 1 /\ UNCHANGED <<cancelRequested, clock>>
      /\ Pump(q, st, running)
      /\ task' = [j \in Job |-> IF j \in started THEN "executing" ELSE task[j]]
      /\ PruneTerminal(MarkRunning(st, started), updatedAt, {}, MaxTerminalJobs)
  BY DEF Enqueue, Enqueued, IInv, TypeOK, Job, SchedulerAssumption
<1>2. /\ queue \in Seq(Job) /\ q \in Seq(Job) /\ Len(q) = Len(queue) + 1
      /\ running \in Nat /\ Concurrency \in Nat /\ running <= Concurrency
      /\ controllers \subseteq Job /\ task \in [Job -> Tasks] /\ status \in [Job -> Statuses]
      /\ st \in [Job -> Statuses]
  BY <1>1, AppendProperties DEF IInv, TypeOK, SlotAccounting, SchedulerAssumption, Statuses
<1>3. CASE queue = <<>> /\ running < Concurrency
  <2>1. q # <<>> /\ Len(q) = 1 /\ q[1] = nextId /\ st[q[1]] = "queued"
    BY <1>1, <1>2, <1>3, AppendProperties, EmptySeq
  <2>2. Shifted(q, st, running) = 1 /\ started = {nextId}
    BY <1>2, <1>3, <2>1, PumpStartsHead
  <2>3. SubSeq(q, 2, Len(q)) = <<>>
    BY <2>1, <1>2, SubSeqEmpty
  <2>4. Cardinality({nextId}) = 1
    BY FS_Singleton
  <2>5. MarkRunning(st, {nextId}) = [status EXCEPT ![nextId] = "running"]
    BY <1>1, <1>2 DEF MarkRunning
  <2>6. [j \in Job |-> IF j \in {nextId} THEN "executing" ELSE task[j]]
            = [task EXCEPT ![nextId] = "executing"]
    BY <1>1, <1>2
  <2>7. queue' = <<>> /\ running' = running + 1 /\ controllers' = controllers \cup {nextId}
    <3> HIDE DEF q, st
    <3> QED
      BY <1>1, <2>2, <2>3, <2>4 DEF Pump
  <2> HIDE DEF q, st, started
  <2> QED
    BY <1>1, <1>3, <2>2, <2>5, <2>6, <2>7
<1>4. CASE ~(queue = <<>> /\ running < Concurrency)
  <2>1. running = Concurrency
    BY <1>2, <1>4 DEF IInv, WorkConserving
  <2>2. Shifted(q, st, running) = 0 /\ started = {}
    BY <1>2, <2>1, PumpIdle
  <2>3. SubSeq(q, 1, Len(q)) = q
    BY <1>2, SubSeqFull
  <2>4. Cardinality({}) = 0
    BY FS_EmptySet
  <2>5. MarkRunning(st, {}) = st
    BY <1>2 DEF MarkRunning
  <2>6. [j \in Job |-> IF j \in {} THEN "executing" ELSE task[j]] = task
    BY <1>2
  <2>7. queue' = q /\ UNCHANGED <<running, controllers>>
    <3> HIDE DEF q, st
    <3> QED
      BY <1>1, <1>2, <2>2, <2>3, <2>4 DEF Pump
  <2> HIDE DEF st, started
  <2> QED
    BY <1>1, <2>1, <2>2, <2>5, <2>6, <2>7 DEF st
<1> QED
  BY <1>3, <1>4

\* The .finally callback passes the slot to the head of the queue, if any.
LEMMA ReleaseSlotEffect ==
    ASSUME SchedulerAssumption, IInv, NEW j \in Job, ReleaseSlot(j)
    PROVE  /\ task[j] = "finishing" /\ UNCHANGED <<nextId, updatedAt, cancelRequested, clock>>
           /\ \/ /\ queue = <<>> /\ queue' = <<>>
                 /\ running' = running - 1
                 /\ task' = [task EXCEPT ![j] = "idle"]
                 /\ UNCHANGED <<controllers, status>>
              \/ /\ queue # <<>> /\ queue' = Tail(queue)
                 /\ queue[1] \in Job /\ queue[1] # j /\ status[queue[1]] = "queued"
                 /\ running' = running
                 /\ controllers' = controllers \cup {queue[1]}
                 /\ status' = [status EXCEPT ![queue[1]] = "running"]
                 /\ task' = [task EXCEPT ![queue[1]] = "executing", ![j] = "idle"]
<1> DEFINE rest == running - 1
           started == PumpStarts(queue, status, rest)
<1>1. /\ task[j] = "finishing" /\ UNCHANGED <<nextId, updatedAt, cancelRequested, clock>>
      /\ Pump(queue, status, rest)
      /\ task' = [k \in Job |-> IF k \in started THEN "executing"
                                ELSE IF k = j THEN "idle" ELSE task[k]]
      /\ status' = MarkRunning(status, started)
  BY DEF ReleaseSlot
<1>2. /\ queue \in Seq(Job) /\ controllers \subseteq Job /\ task \in [Job -> Tasks]
      /\ status \in [Job -> Statuses] /\ Concurrency \in Nat
  BY DEF IInv, TypeOK, SchedulerAssumption
<1>3. running \in Nat /\ running >= 1 /\ running <= Concurrency
  <2>1. j \in SlotHolders /\ IsFiniteSet(SlotHolders)
    <3>1. SlotHolders \subseteq Job /\ IsFiniteSet(Job)
      BY FS_Interval DEF SlotHolders, Job, SchedulerAssumption
    <3> QED
      BY <1>1, <3>1, FS_Subset DEF SlotHolders
  <2>2. Cardinality(SlotHolders) # 0 /\ Cardinality(SlotHolders) \in Nat
    BY <2>1, FS_EmptySet, FS_CardinalityType
  <2> QED
    BY <2>2 DEF IInv, SlotAccounting
<1>4. rest \in Nat /\ rest < Concurrency /\ rest + 1 = running
  BY <1>2, <1>3
<1> HIDE DEF rest
<1>5. CASE queue = <<>>
  <2>1. Shifted(queue, status, rest) = 0 /\ started = {}
    BY <1>2, <1>5, <1>4, PumpIdle
  <2>2. SubSeq(queue, 1, Len(queue)) = queue /\ Cardinality({}) = 0
    BY <1>2, SubSeqFull, FS_EmptySet
  <2>3. queue' = queue /\ running' = running - 1 /\ controllers' = controllers
    <3>1. /\ queue' = SubSeq(queue, 0 + 1, Len(queue))
          /\ running' = rest + Cardinality({}) /\ controllers' = controllers \cup {}
      BY <1>1, <2>1 DEF Pump
    <3> QED
      BY <1>3, <1>4, <2>2, <3>1
  <2>4. status' = status /\ task' = [task EXCEPT ![j] = "idle"]
    <3> HIDE DEF started
    <3> QED
      BY <1>1, <1>2, <2>1 DEF MarkRunning
  <2> QED
    BY <1>1, <1>5, <2>3, <2>4
<1>6. CASE queue # <<>>
  <2>1. /\ Len(queue) \in Nat /\ Len(queue) >= 1
        /\ queue[1] \in Job /\ running = Concurrency
    BY <1>2, <1>6, EmptySeq, ElementOfSeq DEF IInv, WorkConserving
  <2>2. status[queue[1]] = "queued"
    BY <1>2, <2>1 DEF IInv, QueueMatchesStatus
  <2>3. Shifted(queue, status, rest) = 1 /\ started = {queue[1]}
    BY <1>2, <1>6, <1>4, <2>1, <2>2, PumpStartsHead
  <2>4. SubSeq(queue, 2, Len(queue)) = Tail(queue) /\ Cardinality({queue[1]}) = 1
    BY <1>2, <1>6, TailIsSubSeq, FS_Singleton
  <2>5. queue' = Tail(queue) /\ running' = running /\ controllers' = controllers \cup {queue[1]}
    <3>1. /\ queue' = SubSeq(queue, 1 + 1, Len(queue))
          /\ running' = rest + Cardinality({queue[1]})
          /\ controllers' = controllers \cup {queue[1]}
      BY <1>1, <2>3 DEF Pump
    <3> QED
      BY <1>3, <1>4, <2>4, <3>1
  <2>6. queue[1] # j
    BY <1>1, <1>2, <2>1, <2>2 DEF IInv, TaskMatchesStatus
  <2>7. /\ status' = [status EXCEPT ![queue[1]] = "running"]
        /\ task' = [task EXCEPT ![queue[1]] = "executing", ![j] = "idle"]
    <3> HIDE DEF started
    <3> QED
      BY <1>1, <1>2, <2>1, <2>3, <2>6 DEF MarkRunning
  <2> QED
    BY <1>1, <1>6, <2>1, <2>2, <2>5, <2>6, <2>7
<1> QED
  BY <1>5, <1>6

\* Splicing a queued id out keeps the order of the others.
LEMMA DequeuedEffect ==
    ASSUME SchedulerAssumption, IInv, NEW j \in Job, status[j] = "queued"
    PROVE  /\ Dequeued(j) \in Seq(Job) /\ Len(Dequeued(j)) = Len(queue) - 1
           /\ \E i \in 1..Len(queue) :
                 /\ queue[i] = j
                 /\ \A k \in 1..(Len(queue) - 1) :
                       Dequeued(j)[k] = IF k < i THEN queue[k] ELSE queue[k + 1]
<1> DEFINE i == CHOOSE k \in 1..Len(queue) : queue[k] = j
           front == SubSeq(queue, 1, i - 1)
           back == SubSeq(queue, i + 1, Len(queue))
<1>1. queue \in Seq(Job) /\ Len(queue) \in Nat
  BY LenProperties DEF IInv, TypeOK
<1>2. i \in 1..Len(queue) /\ queue[i] = j
  BY DEF IInv, QueueMatchesStatus
<1>3. Dequeued(j) = front \o back
  BY DEF Dequeued, Seqs!RemoveAt
<1> HIDE DEF i
<1>4. i \in Int /\ 1 <= i /\ i <= Len(queue)
  BY <1>1, <1>2
<1>5. /\ front \in Seq(Job) /\ Len(front) = i - 1
      /\ \A k \in 1..(i - 1) : front[k] = queue[k]
  <2>1. /\ \A k \in 1..(i - 1) : queue[k] \in Job
        /\ 1 \in Int /\ i - 1 \in Int
    BY <1>1, <1>4, ElementOfSeq
  <2> QED
    BY <1>1, <1>4, <2>1, SubSeqProperties
<1>6. /\ back \in Seq(Job) /\ Len(back) = Len(queue) - i
      /\ \A k \in 1..(Len(queue) - i) : back[k] = queue[i + k]
  <2>1. /\ \A k \in (i + 1)..Len(queue) : queue[k] \in Job
        /\ i + 1 \in Int /\ Len(queue) \in Int
    BY <1>1, <1>4, ElementOfSeq
  <2> QED
    BY <1>1, <1>4, <2>1, SubSeqProperties
<1> HIDE DEF front, back
<1>7. /\ front \o back \in Seq(Job) /\ Len(front \o back) = Len(queue) - 1
      /\ \A k \in 1..(Len(queue) - 1) :
            (front \o back)[k] = IF k < i THEN queue[k] ELSE queue[k + 1]
  <2>1. /\ front \o back \in Seq(Job)
        /\ Len(front \o back) = Len(front) + Len(back)
        /\ \A k \in 1..(Len(front) + Len(back)) :
              (front \o back)[k] = IF k <= Len(front) THEN front[k] ELSE back[k - Len(front)]
    BY <1>5, <1>6, ConcatProperties
  <2>2. ASSUME NEW k \in 1..(Len(queue) - 1)
        PROVE  (front \o back)[k] = IF k < i THEN queue[k] ELSE queue[k + 1]
    <3>1. CASE k < i
      BY <1>1, <1>4, <1>5, <1>6, <2>1, <3>1
    <3>2. CASE k >= i
      <4> DEFINE d == k - (i - 1)
      <4>1. d \in 1..(Len(queue) - i) /\ i + d = k + 1
        BY <1>1, <1>4, <3>2
      <4>2. (front \o back)[k] = back[d]
        BY <1>1, <1>4, <1>5, <1>6, <2>1, <3>2
      <4> HIDE DEF d
      <4>3. back[d] = queue[k + 1]
        BY <1>6, <4>1
      <4> QED
        BY <1>1, <1>4, <3>2, <4>2, <4>3
    <3>3. k < i \/ k >= i
      BY <1>1, <1>4
    <3> QED
      BY <3>1, <3>2, <3>3
  <2> QED
    BY <1>1, <1>4, <1>5, <1>6, <2>1, <2>2
<1> QED
  BY <1>2, <1>3, <1>7

-----------------------------------------------------------------------------
\* The jobs that hold slots are finitely many.
LEMMA SlotHoldersFinite ==
    ASSUME SchedulerAssumption
    PROVE  IsFiniteSet(SlotHolders) /\ Cardinality(SlotHolders) \in Nat
<1>1. SlotHolders \subseteq Job /\ IsFiniteSet(Job)
  BY FS_Interval DEF SlotHolders, Job, SchedulerAssumption
<1> QED
  BY <1>1, FS_Subset, FS_CardinalityType

\* Facts about the job that enqueue creates.
LEMMA FreshJob ==
    ASSUME SchedulerAssumption, IInv, nextId \in Job
    PROVE  /\ status[nextId] = "absent" /\ task[nextId] = "idle"
           /\ nextId \notin cancelRequested /\ nextId \notin controllers
           /\ \A i \in 1..Len(queue) : queue[i] \in Job /\ queue[i] < nextId
<1>1. status[nextId] = "absent" /\ task[nextId] = "idle" /\ nextId \in Nat
  BY DEF IInv, TaskMatchesStatus, Job
<1>2. nextId \notin cancelRequested /\ nextId \notin controllers
  BY <1>1 DEF IInv, TaskMatchesStatus, ControllerWhileRunning
<1>3. ASSUME NEW i \in 1..Len(queue) PROVE queue[i] \in Job /\ queue[i] < nextId
  <2>1. queue[i] \in Job
    BY ElementOfSeq DEF IInv, TypeOK
  <2>2. status[queue[i]] = "queued"
    BY <2>1 DEF IInv, QueueMatchesStatus
  <2>3. ~(queue[i] >= nextId)
    BY <2>1, <2>2 DEF IInv, TaskMatchesStatus
  <2> QED
    BY <1>1, <2>1, <2>3 DEF Job
<1> QED
  BY <1>1, <1>2, <1>3

\* A new scheduler satisfies the inductive invariant.
LEMMA InitIInv ==
    ASSUME SchedulerAssumption, Init
    PROVE  IInv
<1>1. TypeOK
  <2>1. <<>> \in Seq(Job)
    BY EmptySeq
  <2> QED
    BY <2>1 DEF Init, TypeOK, SchedulerAssumption, Statuses, Tasks, Job
<1>2. SlotAccounting
  <2>1. SlotHolders = {}
    BY DEF Init, SlotHolders
  <2> QED
    BY <2>1, FS_EmptySet DEF Init, SlotAccounting, SchedulerAssumption
<1>3. QueueMatchesStatus /\ QueueSorted
  <2>1. Len(queue) = 0
    BY EmptySeq DEF Init
  <2>2. 1..Len(queue) = {}
    BY <2>1
  <2> QED
    BY <2>2 DEF Init, QueueMatchesStatus, QueueSorted
<1>4. WorkConserving /\ ControllerWhileRunning /\ TaskMatchesStatus
  BY DEF Init, WorkConserving, ControllerWhileRunning, TaskMatchesStatus, Settlements
<1> QED
  BY <1>1, <1>2, <1>3, <1>4 DEF IInv

\* enqueue keeps the invariant: the new job takes a free slot or waits last.
LEMMA EnqueueKeepsIInv ==
    ASSUME SchedulerAssumption, IInv, Enqueue
    PROVE  IInv'
<1>1. /\ nextId \in Job /\ nextId' = nextId + 1 /\ UNCHANGED <<cancelRequested, clock>>
      /\ nextId \in 1..MaxJobs /\ MaxJobs \in Nat
  BY EnqueueEffect DEF Job, SchedulerAssumption
<1>2. /\ status[nextId] = "absent" /\ task[nextId] = "idle"
      /\ nextId \notin cancelRequested /\ nextId \notin controllers
      /\ \A i \in 1..Len(queue) : queue[i] \in Job /\ queue[i] < nextId
  BY <1>1, FreshJob
<1>3. /\ status \in [Job -> Statuses] /\ updatedAt \in [Job -> 0..MaxClock]
      /\ task \in [Job -> Tasks] /\ queue \in Seq(Job) /\ running \in Nat
      /\ controllers \subseteq Job /\ cancelRequested \subseteq Job /\ clock \in 0..MaxClock
  BY DEF IInv, TypeOK
<1>4. CASE /\ queue = <<>> /\ running < Concurrency
           /\ queue' = <<>> /\ running' = running + 1
           /\ controllers' = controllers \cup {nextId}
           /\ task' = [task EXCEPT ![nextId] = "executing"]
           /\ PruneTerminal([status EXCEPT ![nextId] = "running"], updatedAt, {}, MaxTerminalJobs)
  <2> DEFINE st == [status EXCEPT ![nextId] = "running"]
  <2>1. st \in [Job -> Statuses]
    BY <1>1, <1>3 DEF Statuses
  <2>2. /\ status' \in [Job -> Statuses] /\ updatedAt' \in [Job -> 0..MaxClock]
        /\ \A j \in Job : status'[j] = st[j] \/ (st[j] \in Terminal /\ status'[j] = "removed")
        /\ \A j \in Job, x \in {"absent", "queued", "running"} : status'[j] = x <=> st[j] = x
    BY <1>3, <1>4, <2>1, PruneEffect
  <2>3. Len(queue) = 0 /\ Len(queue') = 0 /\ 1..Len(queue) = {} /\ 1..Len(queue') = {}
    BY <1>4, EmptySeq
  <2>4. TypeOK'
    <3>1. queue' \in Seq(Job) /\ nextId' \in 1..(MaxJobs + 1)
      BY <1>1, <1>4, EmptySeq
    <3>2. task' \in [Job -> Tasks]
      BY <1>1, <1>3, <1>4 DEF Tasks
    <3>3. controllers' \subseteq Job /\ running' \in Nat
      BY <1>1, <1>3, <1>4
    <3> QED
      BY <1>1, <1>3, <2>2, <3>1, <3>2, <3>3 DEF TypeOK
  <2>5. SlotAccounting'
    <3>1. SlotHolders' = SlotHolders \cup {nextId} /\ nextId \notin SlotHolders
      BY <1>1, <1>2, <1>3, <1>4 DEF SlotHolders
    <3>2. Cardinality(SlotHolders') = Cardinality(SlotHolders) + 1
      BY <3>1, SlotHoldersFinite, FS_AddElement
    <3> QED
      BY <1>3, <1>4, <3>2 DEF IInv, SlotAccounting, SchedulerAssumption
  <2>6. QueueMatchesStatus' /\ QueueSorted' /\ WorkConserving'
    <3>1. \A j \in Job : status[j] # "queued"
      BY <2>3 DEF IInv, QueueMatchesStatus
    <3> QED
      BY <1>4, <2>2, <2>3, <3>1 DEF QueueMatchesStatus, QueueSorted, WorkConserving
  <2>7. ControllerWhileRunning'
    BY <1>1, <1>3, <1>4, <2>2 DEF IInv, ControllerWhileRunning
  <2>8. TaskMatchesStatus'
    BY <1>1, <1>2, <1>3, <1>4, <2>2 DEF IInv, TaskMatchesStatus, Terminal, Settlements, Job
  <2> QED
    BY <2>4, <2>5, <2>6, <2>7, <2>8 DEF IInv
<1>5. CASE /\ running = Concurrency
           /\ queue' = Append(queue, nextId)
           /\ UNCHANGED <<running, controllers, task>>
           /\ PruneTerminal([status EXCEPT ![nextId] = "queued"], updatedAt, {}, MaxTerminalJobs)
  <2> DEFINE st == [status EXCEPT ![nextId] = "queued"]
  <2>1. st \in [Job -> Statuses]
    BY <1>1, <1>3 DEF Statuses
  <2>2. /\ status' \in [Job -> Statuses] /\ updatedAt' \in [Job -> 0..MaxClock]
        /\ \A j \in Job : status'[j] = st[j] \/ (st[j] \in Terminal /\ status'[j] = "removed")
        /\ \A j \in Job, x \in {"absent", "queued", "running"} : status'[j] = x <=> st[j] = x
    BY <1>3, <1>5, <2>1, PruneEffect
  <2>3. /\ queue' \in Seq(Job) /\ Len(queue') = Len(queue) + 1 /\ Len(queue) \in Nat
        /\ \A i \in 1..Len(queue) : queue'[i] = queue[i]
        /\ queue'[Len(queue) + 1] = nextId
    BY <1>1, <1>3, <1>5, AppendProperties, LenProperties
  <2>4. TypeOK'
    BY <1>1, <1>3, <1>5, <2>2, <2>3 DEF TypeOK
  <2>5. SlotAccounting' /\ WorkConserving'
    BY <1>5 DEF IInv, SlotAccounting, WorkConserving, SlotHolders
  <2>6. QueueMatchesStatus'
    <3>1. ASSUME NEW j \in Job
          PROVE  status'[j] = "queued" <=> \E i \in 1..Len(queue') : queue'[i] = j
      <4>1. CASE j = nextId
        BY <1>1, <1>3, <2>2, <2>3, <4>1
      <4>2. CASE j # nextId
        <5>1. status'[j] = "queued" <=> status[j] = "queued"
          BY <1>3, <2>2, <4>2
        <5>2. (\E i \in 1..Len(queue') : queue'[i] = j) <=> \E i \in 1..Len(queue) : queue[i] = j
          BY <2>3, <4>2
        <5> QED
          BY <5>1, <5>2 DEF IInv, QueueMatchesStatus
      <4> QED
        BY <4>1, <4>2
    <3>2. \A i, k \in 1..Len(queue') : queue'[i] = queue'[k] => i = k
      <4>1. \A i, k \in 1..Len(queue) : queue[i] = queue[k] => i = k
        BY DEF IInv, QueueMatchesStatus
      <4>2. \A i \in 1..Len(queue) : queue'[i] # nextId
        BY <1>1, <1>2, <2>3 DEF Job
      <4> QED
        BY <2>3, <4>1, <4>2
    <3> QED
      BY <3>1, <3>2 DEF QueueMatchesStatus
  <2>7. QueueSorted'
    BY <1>2, <2>3 DEF IInv, QueueSorted
  <2>8. ControllerWhileRunning'
    BY <1>1, <1>2, <1>3, <1>5, <2>2 DEF IInv, ControllerWhileRunning
  <2>9. TaskMatchesStatus'
    BY <1>1, <1>2, <1>3, <1>5, <2>2 DEF IInv, TaskMatchesStatus, Terminal, Settlements, Job
  <2> QED
    BY <2>4, <2>5, <2>6, <2>7, <2>8, <2>9 DEF IInv
<1> QED
  BY <1>4, <1>5, EnqueueEffect

\* The .finally callback keeps the invariant: the slot is passed on or freed.
LEMMA ReleaseSlotKeepsIInv ==
    ASSUME SchedulerAssumption, IInv, NEW j \in Job, ReleaseSlot(j)
    PROVE  IInv'
<1>1. task[j] = "finishing" /\ UNCHANGED <<nextId, updatedAt, cancelRequested, clock>>
  BY ReleaseSlotEffect
<1>2. /\ status \in [Job -> Statuses] /\ updatedAt \in [Job -> 0..MaxClock]
      /\ task \in [Job -> Tasks] /\ queue \in Seq(Job) /\ running \in Nat
      /\ controllers \subseteq Job /\ Concurrency \in Nat
  BY DEF IInv, TypeOK, SchedulerAssumption
<1>3. j \in SlotHolders
  BY <1>1 DEF SlotHolders
<1>4. CASE /\ queue = <<>> /\ queue' = <<>>
           /\ running' = running - 1
           /\ task' = [task EXCEPT ![j] = "idle"]
           /\ UNCHANGED <<controllers, status>>
  <2>1. SlotAccounting'
    <3>1. SlotHolders' = SlotHolders \ {j}
      BY <1>2, <1>4 DEF SlotHolders
    <3>2. Cardinality(SlotHolders') = Cardinality(SlotHolders) - 1
      BY <1>3, <3>1, SlotHoldersFinite, FS_RemoveElement
    <3> QED
      BY <1>2, <1>4, <3>2, SlotHoldersFinite DEF IInv, SlotAccounting
  <2>2. TypeOK'
    <3>1. running' \in Nat
      BY <2>1, <1>2, <1>3, <1>4, SlotHoldersFinite, FS_EmptySet DEF IInv, SlotAccounting
    <3> QED
      BY <1>1, <1>2, <1>4, <3>1 DEF IInv, TypeOK, Tasks
  <2>3. QueueMatchesStatus' /\ QueueSorted' /\ WorkConserving' /\ ControllerWhileRunning'
    BY <1>4 DEF IInv, QueueMatchesStatus, QueueSorted, WorkConserving, ControllerWhileRunning
  <2>4. TaskMatchesStatus'
    BY <1>1, <1>2, <1>4 DEF IInv, TaskMatchesStatus, Settlements
  <2> QED
    BY <2>1, <2>2, <2>3, <2>4 DEF IInv
<1>5. CASE /\ queue # <<>> /\ queue' = Tail(queue)
           /\ queue[1] \in Job /\ queue[1] # j /\ status[queue[1]] = "queued"
           /\ running' = running
           /\ controllers' = controllers \cup {queue[1]}
           /\ status' = [status EXCEPT ![queue[1]] = "running"]
           /\ task' = [task EXCEPT ![queue[1]] = "executing", ![j] = "idle"]
  <2> DEFINE h == queue[1]
  <2>1. /\ queue' \in Seq(Job) /\ Len(queue) \in Nat /\ Len(queue) >= 1
        /\ Len(queue') = Len(queue) - 1
        /\ \A i \in 1..Len(queue') : queue'[i] = queue[i + 1]
    <3>1. /\ Tail(queue) \in Seq(Job) /\ Len(Tail(queue)) = Len(queue) - 1
          /\ \A i \in 1..Len(Tail(queue)) : Tail(queue)[i] = queue[i + 1]
      BY <1>2, <1>5, HeadTailProperties
    <3> QED
      BY <1>2, <1>5, <3>1, EmptySeq
  <2>2. task[h] = "idle" /\ h \notin controllers /\ h \in Job /\ h # j
    BY <1>5 DEF IInv, TaskMatchesStatus, ControllerWhileRunning
  <2>3. SlotAccounting'
    <3>1. SlotHolders' = (SlotHolders \ {j}) \cup {h} /\ h \notin SlotHolders \ {j}
      BY <1>2, <1>5, <2>2 DEF SlotHolders
    <3>2. IsFiniteSet(SlotHolders \ {j}) /\ Cardinality(SlotHolders \ {j}) = Cardinality(SlotHolders) - 1
      BY <1>3, SlotHoldersFinite, FS_RemoveElement
    <3>3. Cardinality(SlotHolders') = Cardinality(SlotHolders \ {j}) + 1
      BY <3>1, <3>2, FS_AddElement
    <3> QED
      BY <1>2, <1>5, <3>2, <3>3, SlotHoldersFinite DEF IInv, SlotAccounting
  <2>4. TypeOK'
    <3>1. /\ status' \in [Job -> Statuses] /\ task' \in [Job -> Tasks]
          /\ controllers' \subseteq Job
      BY <1>2, <1>5 DEF Statuses, Tasks
    <3> QED
      BY <1>1, <1>2, <1>5, <2>1, <3>1 DEF IInv, TypeOK
  <2>5. WorkConserving'
    BY <1>5 DEF IInv, WorkConserving
  <2>6. QueueMatchesStatus'
    <3>1. \A i \in 1..Len(queue) : i # 1 => queue[i] # h
      BY <2>1 DEF IInv, QueueMatchesStatus
    <3>2. ASSUME NEW k \in Job
          PROVE  status'[k] = "queued" <=> \E i \in 1..Len(queue') : queue'[i] = k
      <4>1. CASE k = h
        <5>1. \A i \in 1..Len(queue') : queue'[i] # h
          BY <2>1, <3>1
        <5> QED
          BY <1>2, <1>5, <4>1, <5>1
      <4>2. CASE k # h
        <5>1. status'[k] = status[k]
          BY <1>2, <1>5, <4>2
        <5>2. ASSUME NEW i \in 1..Len(queue), queue[i] = k
              PROVE  \E n \in 1..Len(queue') : queue'[n] = k
          <6>1. i - 1 \in 1..Len(queue') /\ (i - 1) + 1 = i
            BY <2>1, <4>2, <5>2
          <6> QED
            BY <2>1, <5>2, <6>1
        <5>3. ASSUME NEW n \in 1..Len(queue'), queue'[n] = k
              PROVE  \E i \in 1..Len(queue) : queue[i] = k
          BY <2>1, <5>3
        <5> QED
          BY <5>1, <5>2, <5>3 DEF IInv, QueueMatchesStatus
      <4> QED
        BY <4>1, <4>2
    <3>3. ASSUME NEW i \in 1..Len(queue'), NEW k \in 1..Len(queue'), queue'[i] = queue'[k]
          PROVE  i = k
      <4>1. i + 1 \in 1..Len(queue) /\ k + 1 \in 1..Len(queue) /\ queue[i + 1] = queue[k + 1]
        BY <2>1, <3>3
      <4>2. i + 1 = k + 1
        BY <4>1 DEF IInv, QueueMatchesStatus
      <4> QED
        BY <2>1, <4>2
    <3> QED
      BY <3>2, <3>3 DEF QueueMatchesStatus
  <2>7. QueueSorted'
    <3>1. ASSUME NEW i \in 1..Len(queue'), NEW k \in 1..Len(queue'), i < k
          PROVE  queue'[i] < queue'[k]
      <4>1. i + 1 \in 1..Len(queue) /\ k + 1 \in 1..Len(queue) /\ i + 1 < k + 1
        BY <2>1, <3>1
      <4> QED
        BY <2>1, <4>1 DEF IInv, QueueSorted
    <3> QED
      BY <3>1 DEF QueueSorted
  <2>8. ControllerWhileRunning'
    BY <1>2, <1>5 DEF IInv, ControllerWhileRunning
  <2>9. TaskMatchesStatus'
    BY <1>1, <1>2, <1>5, <2>2 DEF IInv, TaskMatchesStatus, Settlements
  <2> QED
    BY <2>3, <2>4, <2>5, <2>6, <2>7, <2>8, <2>9 DEF IInv
<1> QED
  BY <1>4, <1>5, ReleaseSlotEffect

\* Cancelling a queued job keeps the invariant: its id leaves the queue too.
LEMMA CancelQueuedKeepsIInv ==
    ASSUME SchedulerAssumption, IInv, NEW j \in Job, CancelQueued(j)
    PROVE  IInv'
<1> DEFINE st == [status EXCEPT ![j] = "canceled"]
           upd == [updatedAt EXCEPT ![j] = clock]
           n == Len(queue)
<1>1. /\ status[j] = "queued" /\ queue' = Dequeued(j)
      /\ cancelRequested' = cancelRequested \cup {j}
      /\ PruneTerminal(st, upd, {}, MaxTerminalJobs)
      /\ UNCHANGED <<nextId, controllers, running, task, clock>>
  BY DEF CancelQueued
<1>2. /\ status \in [Job -> Statuses] /\ st \in [Job -> Statuses] /\ upd \in [Job -> 0..MaxClock]
      /\ queue \in Seq(Job) /\ n \in Nat
  BY LenProperties DEF IInv, TypeOK, Statuses, Terminal
<1>3. /\ status' \in [Job -> Statuses] /\ updatedAt' \in [Job -> 0..MaxClock]
      /\ \A k \in Job : status'[k] = st[k] \/ (st[k] \in Terminal /\ status'[k] = "removed")
      /\ \A k \in Job, x \in {"absent", "queued", "running"} : status'[k] = x <=> st[k] = x
  BY <1>1, <1>2, PruneEffect
<1>4. PICK i \in 1..n :
          /\ queue[i] = j
          /\ \A k \in 1..(n - 1) : queue'[k] = IF k < i THEN queue[k] ELSE queue[k + 1]
  BY <1>1, DequeuedEffect
<1>5. queue' \in Seq(Job) /\ Len(queue') = n - 1
  BY <1>1, DequeuedEffect
<1>6. /\ \A k, l \in 1..n : queue[k] = queue[l] => k = l
      /\ \A k, l \in 1..n : k < l => queue[k] < queue[l]
      /\ \A k \in Job : status[k] = "queued" <=> \E l \in 1..n : queue[l] = k
  BY DEF IInv, QueueMatchesStatus, QueueSorted
<1> HIDE DEF n
<1>7. TypeOK'
  BY <1>1, <1>3, <1>5 DEF IInv, TypeOK
<1>8. SlotAccounting'
  BY <1>1 DEF IInv, SlotAccounting, SlotHolders
<1>9. WorkConserving'
  <2>1. queue # <<>>
    BY <1>2, <1>4, EmptySeq DEF n
  <2> QED
    BY <1>1, <2>1 DEF IInv, WorkConserving
<1>10. ControllerWhileRunning' /\ TaskMatchesStatus'
  <2>1. ControllerWhileRunning'
    BY <1>1, <1>2, <1>3 DEF IInv, ControllerWhileRunning
  <2>2. TaskMatchesStatus'
    BY <1>1, <1>2, <1>3 DEF IInv, TaskMatchesStatus, Terminal, Settlements
  <2> QED
    BY <2>1, <2>2
<1>11. QueueMatchesStatus'
  <2>1. ASSUME NEW k \in Job
        PROVE  status'[k] = "queued" <=> \E l \in 1..(n - 1) : queue'[l] = k
    <3>1. CASE k = j
      <4>1. \A l \in 1..(n - 1) : queue'[l] # j
        BY <1>2, <1>4, <1>6
      <4>2. status'[k] # "queued"
        BY <1>2, <1>3, <3>1
      <4> QED
        BY <3>1, <4>1, <4>2
    <3>2. CASE k # j
      <4>1. status'[k] = "queued" <=> status[k] = "queued"
        BY <1>2, <1>3, <3>2
      <4>2. ASSUME NEW l \in 1..n, queue[l] = k
            PROVE  \E m \in 1..(n - 1) : queue'[m] = k
        <5>1. CASE l < i
          <6>1. l \in 1..(n - 1) /\ queue'[l] = k
            BY <1>2, <1>4, <4>2, <5>1
          <6> QED
            BY <6>1
        <5>2. CASE l > i
          <6>1. l - 1 \in 1..(n - 1) /\ ~(l - 1 < i) /\ (l - 1) + 1 = l
            BY <1>2, <5>2
          <6>2. queue'[l - 1] = k
            BY <1>4, <4>2, <6>1
          <6> QED
            BY <6>1, <6>2
        <5>3. l # i /\ l \in Int /\ i \in Int
          BY <1>2, <1>4, <3>2, <4>2
        <5> QED
          BY <5>1, <5>2, <5>3
      <4>3. ASSUME NEW l \in 1..(n - 1), queue'[l] = k
            PROVE  \E m \in 1..n : queue[m] = k
        <5>1. l \in 1..n /\ l + 1 \in 1..n
          BY <1>2
        <5> QED
          BY <1>4, <4>3, <5>1
      <4> QED
        BY <1>6, <4>1, <4>2, <4>3
    <3> QED
      BY <3>1, <3>2
  <2>2. ASSUME NEW k \in 1..(n - 1), NEW l \in 1..(n - 1), queue'[k] = queue'[l]
        PROVE  k = l
    <3>1. /\ k \in 1..n /\ l \in 1..n /\ k + 1 \in 1..n /\ l + 1 \in 1..n
          /\ k \in Int /\ l \in Int /\ i \in Int
      BY <1>2
    <3> QED
      BY <1>4, <1>6, <2>2, <3>1
  <2> QED
    BY <1>5, <2>1, <2>2 DEF QueueMatchesStatus
<1>12. QueueSorted'
  <2>1. ASSUME NEW k \in 1..(n - 1), NEW l \in 1..(n - 1), k < l
        PROVE  queue'[k] < queue'[l]
    <3>1. /\ k \in 1..n /\ l \in 1..n /\ k + 1 \in 1..n /\ l + 1 \in 1..n
          /\ k \in Int /\ l \in Int /\ i \in Int
      BY <1>2
    <3> QED
      BY <1>4, <1>6, <2>1, <3>1
  <2> QED
    BY <1>5, <2>1 DEF QueueSorted
<1> QED
  BY <1>7, <1>8, <1>9, <1>10, <1>11, <1>12 DEF IInv

\* The calls and callbacks that leave queue and slots alone.
LEMMA OthersKeepIInv ==
    ASSUME SchedulerAssumption, IInv,
           \/ \E j \in Job : \/ CancelRunning(j) \/ Delete(j) \/ RunJobContinues(j)
                            \/ \E how \in Settlements : SettleExecutor(j, how)
           \/ PruneRequest \/ ClockTicks \/ UNCHANGED vars
    PROVE  IInv'
<1>1. /\ status \in [Job -> Statuses] /\ updatedAt \in [Job -> 0..MaxClock]
      /\ task \in [Job -> Tasks] /\ controllers \subseteq Job /\ clock \in 0..MaxClock
      /\ MaxClock \in Nat
  BY DEF IInv, TypeOK, SchedulerAssumption
<1>2. ASSUME NEW j \in Job, CancelRunning(j) PROVE IInv'
  <2>1. /\ status[j] = "running" /\ cancelRequested' = cancelRequested \cup {j}
        /\ UNCHANGED <<nextId, status, updatedAt, queue, controllers, running, task, clock>>
    BY <1>2 DEF CancelRunning
  <2>2. TypeOK' /\ TaskMatchesStatus'
    BY <2>1 DEF IInv, TypeOK, TaskMatchesStatus
  <2>3. /\ SlotAccounting' /\ QueueMatchesStatus' /\ QueueSorted' /\ WorkConserving'
        /\ ControllerWhileRunning'
    BY <2>1 DEF IInv, SlotAccounting, SlotHolders, QueueMatchesStatus, QueueSorted,
                WorkConserving, ControllerWhileRunning
  <2> QED
    BY <2>2, <2>3 DEF IInv
<1>3. ASSUME NEW j \in Job, NEW how \in Settlements, SettleExecutor(j, how) PROVE IInv'
  <2>1. /\ task[j] = "executing" /\ task' = [task EXCEPT ![j] = how]
        /\ UNCHANGED <<nextId, status, updatedAt, cancelRequested, queue, controllers, running, clock>>
    BY <1>3 DEF SettleExecutor
  <2>2. TypeOK' /\ TaskMatchesStatus'
    BY <1>1, <2>1 DEF IInv, TypeOK, TaskMatchesStatus, Tasks, Settlements
  <2>3. SlotHolders' = SlotHolders
    BY <1>1, <2>1 DEF SlotHolders, Settlements
  <2>4. /\ SlotAccounting' /\ QueueMatchesStatus' /\ QueueSorted' /\ WorkConserving'
        /\ ControllerWhileRunning'
    BY <2>1, <2>3 DEF IInv, SlotAccounting, QueueMatchesStatus, QueueSorted,
                WorkConserving, ControllerWhileRunning
  <2> QED
    BY <2>2, <2>4 DEF IInv
<1>4. ASSUME NEW j \in Job, Delete(j) PROVE IInv'
  <2>1. /\ status[j] \in Terminal /\ status' = [status EXCEPT ![j] = "removed"]
        /\ updatedAt' = [updatedAt EXCEPT ![j] = 0]
        /\ UNCHANGED <<nextId, cancelRequested, queue, controllers, running, task, clock>>
    BY <1>4 DEF Delete
  <2>2. TypeOK'
    BY <1>1, <2>1 DEF IInv, TypeOK, Statuses
  <2>3. TaskMatchesStatus' /\ ControllerWhileRunning'
    BY <1>1, <2>1 DEF IInv, TaskMatchesStatus, ControllerWhileRunning, Terminal
  <2>4. QueueMatchesStatus'
    BY <1>1, <2>1 DEF IInv, QueueMatchesStatus, Terminal
  <2>5. SlotAccounting' /\ QueueSorted' /\ WorkConserving'
    BY <2>1 DEF IInv, SlotAccounting, SlotHolders, QueueSorted, WorkConserving
  <2> QED
    BY <2>2, <2>3, <2>4, <2>5 DEF IInv
<1>5. ASSUME PruneRequest PROVE IInv'
  <2>1. PICK olderThan, limit : PruneTerminal(status, updatedAt, olderThan, limit)
    BY <1>5 DEF PruneRequest
  <2>2. UNCHANGED <<nextId, cancelRequested, queue, controllers, running, task, clock>>
    BY <1>5 DEF PruneRequest
  <2>3. /\ status' \in [Job -> Statuses] /\ updatedAt' \in [Job -> 0..MaxClock]
        /\ \A j \in Job : status'[j] = status[j] \/ (status[j] \in Terminal /\ status'[j] = "removed")
        /\ \A j \in Job, x \in {"absent", "queued", "running"} : status'[j] = x <=> status[j] = x
    BY <1>1, <2>1, PruneEffect
  <2>4. TypeOK' /\ SlotAccounting' /\ QueueSorted' /\ WorkConserving'
    BY <2>2, <2>3 DEF IInv, TypeOK, SlotAccounting, SlotHolders, QueueSorted, WorkConserving
  <2>5. QueueMatchesStatus' /\ ControllerWhileRunning'
    BY <2>2, <2>3 DEF IInv, QueueMatchesStatus, ControllerWhileRunning
  <2>6. TaskMatchesStatus'
    BY <2>2, <2>3 DEF IInv, TaskMatchesStatus, Terminal
  <2> QED
    BY <2>4, <2>5, <2>6 DEF IInv
<1>6. ASSUME NEW j \in Job, RunJobContinues(j) PROVE IInv'
  <2> DEFINE st == [status EXCEPT ![j] = FinalStatus(j)]
             upd == [updatedAt EXCEPT ![j] = clock]
  <2>1. /\ task[j] \in Settlements /\ task' = [task EXCEPT ![j] = "finishing"]
        /\ controllers' = controllers \ {j}
        /\ PruneTerminal(st, upd, {}, MaxTerminalJobs)
        /\ UNCHANGED <<nextId, cancelRequested, queue, running, clock>>
    BY <1>6 DEF RunJobContinues
  <2>2. FinalStatus(j) \in Terminal /\ (j \in cancelRequested => FinalStatus(j) = "canceled")
    BY DEF FinalStatus, Terminal
  <2>3. status[j] = "running"
    BY <2>1 DEF IInv, TaskMatchesStatus
  <2>4. st \in [Job -> Statuses] /\ upd \in [Job -> 0..MaxClock]
    BY <1>1, <2>2 DEF Statuses
  <2>5. /\ status' \in [Job -> Statuses] /\ updatedAt' \in [Job -> 0..MaxClock]
        /\ \A k \in Job : status'[k] = st[k] \/ (st[k] \in Terminal /\ status'[k] = "removed")
        /\ \A k \in Job, x \in {"absent", "queued", "running"} : status'[k] = x <=> st[k] = x
    BY <2>1, <2>4, PruneEffect
  <2>6. \A k \in Job : k # j => st[k] = status[k]
    BY <1>1
  <2>7. st[j] = FinalStatus(j)
    BY <1>1
  <2> HIDE DEF st, upd
  <2>8. TypeOK'
    <3>1. task' \in [Job -> Tasks] /\ controllers' \subseteq Job
      BY <1>1, <2>1 DEF Tasks
    <3> QED
      BY <2>1, <2>5, <3>1 DEF IInv, TypeOK
  <2>9. SlotHolders' = SlotHolders
    BY <1>1, <2>1 DEF SlotHolders, Settlements
  <2>10. SlotAccounting' /\ QueueSorted' /\ WorkConserving'
    BY <2>1, <2>9 DEF IInv, SlotAccounting, QueueSorted, WorkConserving
  <2>11. \A k \in Job : status'[k] = "queued" <=> status[k] = "queued"
    BY <2>2, <2>3, <2>5, <2>6, <2>7 DEF Terminal
  <2>12. QueueMatchesStatus'
    BY <2>1, <2>11 DEF IInv, QueueMatchesStatus
  <2>13. ControllerWhileRunning'
    BY <1>1, <2>1, <2>2, <2>5, <2>6, <2>7 DEF IInv, ControllerWhileRunning, Terminal
  <2>14. TaskMatchesStatus'
    <3>1. ASSUME NEW k \in Job, k # j
          PROVE  /\ status'[k] = "running" <=> task'[k] \in {"executing"} \cup Settlements
                 /\ status'[k] \in {"absent", "queued"} => task'[k] = "idle"
                 /\ k >= nextId' => status'[k] = "absent"
                 /\ k \in cancelRequested' => status'[k] \in {"running", "canceled", "removed"}
      BY <1>1, <2>1, <2>5, <2>6, <3>1 DEF IInv, TaskMatchesStatus, Terminal
    <3>2. /\ status'[j] # "running" /\ task'[j] = "finishing"
          /\ status'[j] \notin {"absent", "queued"} /\ ~(j >= nextId')
          /\ j \in cancelRequested' => status'[j] \in {"canceled", "removed"}
      BY <1>1, <2>1, <2>2, <2>3, <2>5, <2>7 DEF IInv, TaskMatchesStatus, Terminal
    <3> QED
      BY <3>1, <3>2 DEF TaskMatchesStatus, Settlements
  <2> QED
    BY <2>8, <2>10, <2>12, <2>13, <2>14 DEF IInv
<1>7. ASSUME ClockTicks \/ UNCHANGED vars PROVE IInv'
  <2>1. /\ UNCHANGED <<nextId, status, updatedAt, cancelRequested, queue, controllers, running, task>>
        /\ clock' \in 0..MaxClock
    BY <1>1, <1>7 DEF ClockTicks, vars
  <2> QED
    BY <2>1 DEF IInv, TypeOK, SlotAccounting, SlotHolders, QueueMatchesStatus, QueueSorted,
                WorkConserving, ControllerWhileRunning, TaskMatchesStatus
<1> QED
  BY <1>2, <1>3, <1>4, <1>5, <1>6, <1>7

\* Every step keeps the invariant.
LEMMA NextKeepsIInv ==
    ASSUME SchedulerAssumption, IInv, [Next]_vars
    PROVE  IInv'
BY EnqueueKeepsIInv, ReleaseSlotKeepsIInv, CancelQueuedKeepsIInv, OthersKeepIInv DEF Next

\* The invariant holds in every reachable state.
LEMMA AlwaysIInv == Spec => []IInv
BY SchedulerAssumption, InitIInv, NextKeepsIInv, PTL DEF Spec

-----------------------------------------------------------------------------
\* The scheduler's fields keep their types.
THEOREM TypeCorrect == Spec => []TypeOK
<1>1. IInv => TypeOK
  BY DEF IInv
<1> QED
  BY <1>1, AlwaysIInv, PTL

\* this.running counts the promise chains under way, never more than
\* concurrency: no interleaving of callbacks runs one executor too many.
THEOREM SlotsAccounted == Spec => []SlotAccounting
<1>1. IInv => SlotAccounting
  BY DEF IInv
<1> QED
  BY <1>1, AlwaysIInv, PTL

\* The queue holds each queued job once and nothing else.
THEOREM QueueFaithful == Spec => []QueueMatchesStatus
<1>1. IInv => QueueMatchesStatus
  BY DEF IInv
<1> QED
  BY <1>1, AlwaysIInv, PTL

\* No job waits while a slot is free: pump misses no wake-up.
THEOREM NoIdleSlot == Spec => []WorkConserving
<1>1. IInv => WorkConserving
  BY DEF IInv
<1> QED
  BY <1>1, AlwaysIInv, PTL

\* cancel always finds the abort controller of a running job.
THEOREM ControllerPresent == Spec => []ControllerWhileRunning
<1>1. IInv => ControllerWhileRunning
  BY DEF IInv
<1> QED
  BY <1>1, AlwaysIInv, PTL

\* A job whose cancellation was accepted never ends completed or failed.
THEOREM CancelIsFinal == Spec => []CancelHonoured
<1>1. IInv => CancelHonoured
  BY DEF IInv, TypeOK, TaskMatchesStatus, CancelHonoured
<1> QED
  BY <1>1, AlwaysIInv, PTL

\* How a job's status may change in one step.
StatusStep(k) ==
    \/ status'[k] = status[k]
    \/ status[k] = "absent" /\ status'[k] \in {"queued", "running"}
    \/ status[k] = "queued" /\ status'[k] = "running"
    \/ status[k] = "queued" /\ status'[k] \in Terminal \cup {"removed"} /\ k \in cancelRequested'
    \/ status[k] = "running" /\ status'[k] \in Terminal \cup {"removed"} /\ task[k] \in Settlements
    \/ status[k] \in Terminal /\ status'[k] = "removed"

\* What one step may do to the status of each job.
LEMMA EveryStatusStep ==
    ASSUME SchedulerAssumption, IInv, [Next]_vars
    PROVE  \A k \in Job : StatusStep(k)
<1>1. /\ status \in [Job -> Statuses] /\ updatedAt \in [Job -> 0..MaxClock]
      /\ clock \in 0..MaxClock
  BY DEF IInv, TypeOK
<1>2. ASSUME NEW st \in [Job -> Statuses], NEW upd \in [Job -> 0..MaxClock],
             NEW olderThan, NEW limit, PruneTerminal(st, upd, olderThan, limit)
      PROVE  \A k \in Job : status'[k] = st[k] \/ (st[k] \in Terminal /\ status'[k] = "removed")
  BY <1>2, PruneEffect
<1>3. CASE Enqueue
  <2>1. nextId \in Job /\ status[nextId] = "absent"
    BY <1>3, EnqueueEffect, FreshJob
  <2>2. PICK new \in {"queued", "running"} :
            PruneTerminal([status EXCEPT ![nextId] = new], updatedAt, {}, MaxTerminalJobs)
    BY <1>3, EnqueueEffect
  <2>3. [status EXCEPT ![nextId] = new] \in [Job -> Statuses]
    BY <1>1 DEF Statuses
  <2>4. \A k \in Job : \/ status'[k] = [status EXCEPT ![nextId] = new][k]
                       \/ /\ [status EXCEPT ![nextId] = new][k] \in Terminal
                          /\ status'[k] = "removed"
    BY <1>1, <1>2, <2>2, <2>3
  <2> QED
    BY <1>1, <2>1, <2>4 DEF StatusStep, Terminal
<1>4. ASSUME NEW j \in Job, ReleaseSlot(j) PROVE \A k \in Job : StatusStep(k)
  BY <1>1, <1>4, ReleaseSlotEffect DEF StatusStep
<1>5. ASSUME NEW j \in Job, CancelQueued(j) PROVE \A k \in Job : StatusStep(k)
  <2>1. /\ status[j] = "queued" /\ j \in cancelRequested'
        /\ PruneTerminal([status EXCEPT ![j] = "canceled"], [updatedAt EXCEPT ![j] = clock],
                         {}, MaxTerminalJobs)
    BY <1>5 DEF CancelQueued
  <2>2. /\ [status EXCEPT ![j] = "canceled"] \in [Job -> Statuses]
        /\ [updatedAt EXCEPT ![j] = clock] \in [Job -> 0..MaxClock]
    BY <1>1 DEF Statuses, Terminal
  <2>3. \A k \in Job : \/ status'[k] = [status EXCEPT ![j] = "canceled"][k]
                       \/ /\ [status EXCEPT ![j] = "canceled"][k] \in Terminal
                          /\ status'[k] = "removed"
    BY <1>2, <2>1, <2>2
  <2> QED
    BY <1>1, <2>1, <2>3 DEF StatusStep, Terminal
<1>6. ASSUME NEW j \in Job, RunJobContinues(j) PROVE \A k \in Job : StatusStep(k)
  <2>1. /\ task[j] \in Settlements /\ FinalStatus(j) \in Terminal
        /\ PruneTerminal([status EXCEPT ![j] = FinalStatus(j)], [updatedAt EXCEPT ![j] = clock],
                         {}, MaxTerminalJobs)
    BY <1>6 DEF RunJobContinues, FinalStatus, Terminal
  <2>2. status[j] = "running"
    BY <2>1 DEF IInv, TaskMatchesStatus
  <2>3. /\ [status EXCEPT ![j] = FinalStatus(j)] \in [Job -> Statuses]
        /\ [updatedAt EXCEPT ![j] = clock] \in [Job -> 0..MaxClock]
    BY <1>1, <2>1 DEF Statuses
  <2>4. \A k \in Job : \/ status'[k] = [status EXCEPT ![j] = FinalStatus(j)][k]
                       \/ /\ [status EXCEPT ![j] = FinalStatus(j)][k] \in Terminal
                          /\ status'[k] = "removed"
    BY <1>2, <2>1, <2>3
  <2> QED
    BY <1>1, <2>1, <2>2, <2>4 DEF StatusStep
<1>7. ASSUME NEW j \in Job, Delete(j) PROVE \A k \in Job : StatusStep(k)
  BY <1>1, <1>7 DEF Delete, StatusStep
<1>8. CASE PruneRequest
  BY <1>1, <1>2, <1>8 DEF PruneRequest, StatusStep
<1>9. ASSUME UNCHANGED status PROVE \A k \in Job : StatusStep(k)
  BY <1>9 DEF StatusStep
<1> QED
  BY <1>3, <1>4, <1>5, <1>6, <1>7, <1>8, <1>9
     DEF Next, CancelRunning, SettleExecutor, ClockTicks, vars

\* No job is lost or rewritten: it leaves the queue only to start or because it
\* was cancelled, leaves running only when its executor has settled, and a
\* final status is never changed.
THEOREM NoJobLost == Spec => NothingLost
<1> DEFINE Kept == \A j \in Job :
        /\ status[j] = "queued" /\ status'[j] \notin {"queued", "running"} => j \in cancelRequested'
        /\ status[j] = "running" /\ status'[j] # "running" => task[j] \in Settlements
        /\ status[j] \in Terminal => status'[j] \in {status[j], "removed"}
        /\ status[j] = "removed" => status'[j] = "removed"
<1>1. ASSUME SchedulerAssumption, IInv, [Next]_vars PROVE Kept
  <2>1. \A j \in Job : StatusStep(j)
    BY <1>1, EveryStatusStep
  <2> QED
    BY <2>1 DEF StatusStep, Terminal
<1>2. SchedulerAssumption /\ IInv /\ [Next]_vars => [Kept]_vars
  BY <1>1
<1> QED
  BY <1>2, SchedulerAssumption, AlwaysIInv, PTL DEF Spec, NothingLost

\* Jobs start in the order they were enqueued.
THEOREM StartsInOrder == Spec => FirstComeFirstServed
<1> DEFINE InOrder == \A j, k \in Job :
        j < k /\ status[k] # "running" /\ status'[k] = "running" => status'[j] # "queued"
<1>1. ASSUME SchedulerAssumption, IInv, [Next]_vars,
             NEW j \in Job, NEW k \in Job, j < k, status[k] # "running", status'[k] = "running"
      PROVE  status'[j] # "queued"
  <2>1. /\ status \in [Job -> Statuses] /\ updatedAt \in [Job -> 0..MaxClock]
        /\ queue \in Seq(Job)
        /\ \A n \in Job : status[n] = "queued" <=> \E i \in 1..Len(queue) : queue[i] = n
    BY <1>1 DEF IInv, TypeOK, QueueMatchesStatus
  <2>2. CASE Enqueue
    <3>1. PICK new \in {"queued", "running"} :
              /\ PruneTerminal([status EXCEPT ![nextId] = new], updatedAt, {}, MaxTerminalJobs)
              /\ new = "running" => queue = <<>>
      BY <1>1, <2>2, EnqueueEffect
    <3>2. [status EXCEPT ![nextId] = new] \in [Job -> Statuses] /\ nextId \in Job
      BY <1>1, <2>1, <2>2, EnqueueEffect DEF Statuses
    <3> DEFINE st == [status EXCEPT ![nextId] = new]
    <3>a. /\ st \in [Job -> Statuses] /\ PruneTerminal(st, updatedAt, {}, MaxTerminalJobs)
          /\ \A n \in Job : st[n] = IF n = nextId THEN new ELSE status[n]
      BY <2>1, <3>1, <3>2
    <3> HIDE DEF st
    <3>3. \A n \in Job : /\ status'[n] = "queued" <=> st[n] = "queued"
                         /\ status'[n] = "running" <=> st[n] = "running"
      <4>1. SchedulerAssumption /\ updatedAt \in [Job -> 0..MaxClock]
        BY <1>1, <2>1
      <4>2. \A n \in Job, x \in {"absent", "queued", "running"} : status'[n] = x <=> st[n] = x
        BY <3>a, <4>1, PruneEffect
      <4> QED
        BY <4>2
    <3>4. new = "running" /\ k = nextId
      BY <1>1, <2>1, <3>2, <3>3, <3>a
    <3>5. status[j] # "queued"
      BY <2>1, <3>1, <3>4, EmptySeq
    <3> QED
      BY <1>1, <2>1, <3>2, <3>3, <3>4, <3>5, <3>a
  <2>3. ASSUME NEW n \in Job, ReleaseSlot(n) PROVE status'[j] # "queued"
    <3>1. /\ k = queue[1] /\ queue # <<>>
          /\ status' = [status EXCEPT ![queue[1]] = "running"]
      BY <1>1, <2>1, <2>3, ReleaseSlotEffect
    <3>2. SUFFICES ASSUME status[j] = "queued", j # k PROVE FALSE
      BY <1>1, <2>1, <3>1 DEF Job
    <3>3. PICK i \in 1..Len(queue) : queue[i] = j
      BY <2>1, <3>2
    <3>4. Len(queue) \in Nat /\ 1 \in 1..Len(queue) /\ i # 1
      BY <2>1, <3>1, <3>2, <3>3, EmptySeq
    <3>5. queue[1] < queue[i]
      BY <1>1, <3>4 DEF IInv, QueueSorted
    <3> QED
      BY <1>1, <3>1, <3>3, <3>5 DEF Job
  <2>4. CASE PruneRequest
    <3>1. status'[k] = "running" => status[k] = "running"
      BY <1>1, <2>1, <2>4, PruneEffect DEF PruneRequest
    <3> QED
      BY <1>1, <3>1
  <2>5. ASSUME NEW n \in Job, CancelQueued(n) \/ RunJobContinues(n) PROVE status'[j] # "queued"
    <3>1. PICK final \in Terminal, upd \in [Job -> 0..MaxClock] :
              PruneTerminal([status EXCEPT ![n] = final], upd, {}, MaxTerminalJobs)
      <4>1. /\ "canceled" \in Terminal /\ FinalStatus(n) \in Terminal
            /\ [updatedAt EXCEPT ![n] = clock] \in [Job -> 0..MaxClock]
        BY <1>1 DEF FinalStatus, Terminal, IInv, TypeOK
      <4> QED
        BY <2>5, <4>1 DEF CancelQueued, RunJobContinues
    <3>2. [status EXCEPT ![n] = final] \in [Job -> Statuses]
      BY <2>1 DEF Statuses
    <3>3. status'[k] = "running" => [status EXCEPT ![n] = final][k] = "running"
      BY <1>1, <3>1, <3>2, PruneEffect
    <3> QED
      BY <1>1, <2>1, <3>1, <3>3 DEF Terminal
  <2>6. ASSUME NEW n \in Job, Delete(n) PROVE status'[j] # "queued"
    BY <1>1, <2>1, <2>6 DEF Delete
  <2>7. CASE UNCHANGED status
    BY <1>1, <2>7
  <2> QED
    BY <1>1, <2>2, <2>3, <2>4, <2>5, <2>6, <2>7
       DEF Next, CancelRunning, SettleExecutor, ClockTicks, vars
<1>2. SchedulerAssumption /\ IInv /\ [Next]_vars => [InOrder]_vars
  BY <1>1
<1> QED
  BY <1>2, SchedulerAssumption, AlwaysIInv, PTL DEF Spec, FirstComeFirstServed

-----------------------------------------------------------------------------
(***************************************************************************)
(* What pruneTerminal of src/scheduler.ts keeps: after every method at     *)
(* most maxTerminalJobs results are in memory, and no result goes while an *)
(* older one stays.  That counting the results that are not older than one *)
(* bounds those that stay needs an oldest among them (OldestOf): its count *)
(* has all the others in it.                                               *)
(***************************************************************************)

\* The order of retention is total on jobs.
LEMMA NotOlderIsTotal ==
    ASSUME SchedulerAssumption, NEW upd \in [Job -> 0..MaxClock], NEW j \in Job, NEW k \in Job
    PROVE  NotOlder(upd, j, k) \/ NotOlder(upd, k, j)
<1>1. j \in Nat /\ k \in Nat /\ upd[j] \in Nat /\ upd[k] \in Nat
  BY DEF Job, SchedulerAssumption
<1> QED
  BY <1>1 DEF NotOlder

\* It is transitive.
LEMMA NotOlderIsTransitive ==
    ASSUME SchedulerAssumption, NEW upd \in [Job -> 0..MaxClock],
           NEW i \in Job, NEW j \in Job, NEW k \in Job, NotOlder(upd, i, j), NotOlder(upd, j, k)
    PROVE  NotOlder(upd, i, k)
<1>1. /\ i \in Nat /\ j \in Nat /\ k \in Nat
      /\ upd[i] \in Nat /\ upd[j] \in Nat /\ upd[k] \in Nat
  BY DEF Job, SchedulerAssumption
<1> QED
  BY <1>1 DEF NotOlder

\* Among some jobs there is an oldest.
LEMMA OldestOf ==
    ASSUME SchedulerAssumption, NEW upd \in [Job -> 0..MaxClock],
           NEW K \in SUBSET Job, K # {}
    PROVE  \E m \in K : \A k \in K : NotOlder(upd, k, m)
<1> DEFINE times == {upd[k] : k \in K}
<1>1. \A k \in Job : k \in Nat /\ upd[k] \in Nat
  BY DEF Job, SchedulerAssumption
<1>2. PICK t \in times : \A u \in times : t <= u
  <2>1. times \in SUBSET Nat /\ times # {}
    BY <1>1
  <2> HIDE DEF times
  <2> QED
    BY <2>1, LeastOf
<1> DEFINE first == {k \in K : upd[k] = t}
<1>3. PICK m \in first : \A k \in first : m <= k
  <2>1. first \in SUBSET Nat /\ first # {}
    BY <1>1, <1>2
  <2> HIDE DEF first
  <2> QED
    BY <2>1, LeastOf
<1>4. ASSUME NEW k \in K PROVE NotOlder(upd, k, m)
  <2>1. upd[m] = t /\ t <= upd[k] /\ upd[k] \in Nat /\ t \in Nat /\ k \in Nat /\ m \in Nat
    BY <1>1, <1>2, <1>3
  <2>2. upd[k] = t => m <= k
    BY <1>3
  <2> QED
    BY <2>1, <2>2 DEF NotOlder
<1> QED
  BY <1>3, <1>4

\* Finitely many jobs are ever submitted.
LEMMA JobIsFinite ==
    ASSUME SchedulerAssumption
    PROVE  IsFiniteSet(Job)
<1>1. MaxJobs \in Nat
  BY DEF SchedulerAssumption
<1> QED
  BY <1>1, FS_Interval DEF Job

\* What is not beyond the limit is within it.
LEMMA WithinLimit ==
    ASSUME SchedulerAssumption, NEW upd \in [Job -> 0..MaxClock],
           NEW some \in SUBSET Job, NEW limit \in Nat
    PROVE  Cardinality(some \ BeyondLimit(some, upd, limit)) <= limit
<1> DEFINE kept == some \ BeyondLimit(some, upd, limit)
<1>1. CASE kept = {}
  <2>1. Cardinality(kept) = 0
    BY <1>1, FS_EmptySet
  <2> QED
    BY <2>1
<1>2. CASE kept # {}
  <2>1. kept \in SUBSET Job
    OBVIOUS
  <2>2. PICK m \in kept : \A k \in kept : NotOlder(upd, k, m)
    <3> HIDE DEF kept
    <3> QED
      BY <1>2, <2>1, OldestOf
  <2> DEFINE younger == {j \in some : NotOlder(upd, j, m)}
  <2>3. kept \in SUBSET younger
    BY <2>2
  <2>4. IsFiniteSet(younger)
    <3>1. younger \in SUBSET Job
      OBVIOUS
    <3> HIDE DEF younger
    <3> QED
      BY <3>1, JobIsFinite, FS_Subset
  <2>5. ~(Cardinality(younger) > limit)
    BY <2>2 DEF BeyondLimit
  <2>6. Cardinality(kept) <= Cardinality(younger)
    <3> HIDE DEF kept, younger
    <3> QED
      BY <2>3, <2>4, FS_Subset
  <2>7. Cardinality(younger) \in Nat /\ Cardinality(kept) \in Nat
    <3> HIDE DEF kept, younger
    <3> QED
      BY <2>3, <2>4, FS_Subset, FS_CardinalityType
  <2>8. Cardinality(kept) <= limit
    <3> HIDE DEF kept, younger
    <3> QED
      BY <2>5, <2>6, <2>7
  <2> QED
    BY <2>8
<1> QED
  BY <1>1, <1>2

\* What stays is not older than what goes, whether for its age or beyond the limit.
LEMMA PrunesTheOldest ==
    ASSUME SchedulerAssumption, NEW st, NEW upd \in [Job -> 0..MaxClock],
           NEW olderThan \in SUBSET Nat, NEW limit \in Nat, clock \in 0..MaxClock,
           NEW j \in Pruned(st, upd, olderThan, limit),
           NEW k \in TerminalIn(st) \ Pruned(st, upd, olderThan, limit)
    PROVE  NotOlder(upd, k, j)
<1> DEFINE old == TooOld(st, upd, olderThan)
           some == TerminalIn(st) \ old
<1>1. /\ j \in Job /\ k \in Job /\ some \in SUBSET Job
      /\ upd[j] \in Nat /\ upd[k] \in Nat /\ clock \in Nat
  BY DEF Pruned, TooOld, BeyondLimit, TerminalIn, SchedulerAssumption
<1>2. k \in some /\ k \notin old /\ k \notin BeyondLimit(some, upd, limit)
  BY DEF Pruned
<1>3. CASE j \in old
  <2>1. PICK age \in olderThan : clock - upd[j] >= age
    BY <1>3 DEF TooOld
  <2>2. ~(clock - upd[k] >= age)
    BY <1>2, <2>1 DEF TooOld
  <2>3. age \in Nat
    BY <2>1
  <2> QED
    BY <1>1, <2>1, <2>2, <2>3 DEF NotOlder
<1>4. CASE j \in BeyondLimit(some, upd, limit)
  <2> DEFINE youngerThan(x) == {i \in some : NotOlder(upd, i, x)}
  <2>1. Cardinality(youngerThan(j)) > limit /\ ~(Cardinality(youngerThan(k)) > limit)
    BY <1>2, <1>4 DEF BeyondLimit
  <2>2. IsFiniteSet(youngerThan(k)) /\ IsFiniteSet(youngerThan(j))
    <3>1. youngerThan(k) \in SUBSET Job /\ youngerThan(j) \in SUBSET Job
      BY <1>1
    <3> HIDE DEF youngerThan
    <3> QED
      BY <3>1, JobIsFinite, FS_Subset
  <2>3. SUFFICES ASSUME NotOlder(upd, j, k) PROVE FALSE
    BY <1>1, NotOlderIsTotal
  <2>4. youngerThan(j) \in SUBSET youngerThan(k)
    BY <1>1, <2>3, NotOlderIsTransitive
  <2>5. /\ Cardinality(youngerThan(j)) <= Cardinality(youngerThan(k))
        /\ Cardinality(youngerThan(j)) \in Nat /\ Cardinality(youngerThan(k)) \in Nat
    <3> HIDE DEF youngerThan
    <3> QED
      BY <2>2, <2>4, FS_Subset, FS_CardinalityType
  <2> HIDE DEF youngerThan
  <2> QED
    BY <2>1, <2>5
<1>5. j \in old \/ j \in BeyondLimit(some, upd, limit)
  BY DEF Pruned
<1> QED
  BY <1>3, <1>4, <1>5

-----------------------------------------------------------------------------
\* The state half of RetentionKeepsTheNewest, and its other half.
ResultsBounded == Cardinality(TerminalIn(status)) <= MaxTerminalJobs

OldestGoFirst ==
    \A j, k \in FinishedByNow :
        status'[j] = "removed" /\ status'[k] # "removed" => NotOlder(EndedAt, k, j)

\* A job ends at a time of the clock.
LEMMA EndedAtType ==
    ASSUME SchedulerAssumption, IInv
    PROVE  EndedAt \in [Job -> 0..MaxClock]
BY DEF EndedAt, IInv, TypeOK

\* Fewer results are within the bound, too.
LEMMA FewerResults ==
    ASSUME SchedulerAssumption, ResultsBounded, TerminalIn(status') \subseteq TerminalIn(status)
    PROVE  ResultsBounded'
<1>1. TerminalIn(status) \in SUBSET Job /\ IsFiniteSet(Job)
  BY FS_Interval DEF TerminalIn, Job, SchedulerAssumption
<1>2. IsFiniteSet(TerminalIn(status))
  BY <1>1, FS_Subset
<1>3. /\ Cardinality(TerminalIn(status')) <= Cardinality(TerminalIn(status))
      /\ Cardinality(TerminalIn(status')) \in Nat /\ Cardinality(TerminalIn(status)) \in Nat
  BY <1>2, FS_Subset, FS_CardinalityType
<1>4. TerminalIn(status') = TerminalIn(status)'
  BY DEF TerminalIn
<1> QED
  BY <1>3, <1>4 DEF ResultsBounded, SchedulerAssumption

\* A step that prunes: st and upd are what it makes of the jobs before that.
LEMMA PruningStep ==
    ASSUME SchedulerAssumption, IInv,
           NEW st \in [Job -> Statuses], NEW upd \in [Job -> 0..MaxClock],
           NEW olderThan \in SUBSET Nat, NEW limit \in Nat,
           PruneTerminal(st, upd, olderThan, limit),
           \A j \in Job : st[j] \in Terminal => upd[j] = EndedAt[j],
           \A j \in Job : st[j] = "removed" => status[j] = "removed"
    PROVE  /\ OldestGoFirst
           /\ Cardinality(TerminalIn(status')) <= limit
           /\ TerminalIn(status') \subseteq TerminalIn(st)
<1> DEFINE gone == Pruned(st, upd, olderThan, limit)
<1>1. status' = [j \in Job |-> IF j \in gone THEN "removed" ELSE st[j]]
  BY DEF PruneTerminal
<1>2. gone \subseteq TerminalIn(st)
  BY DEF Pruned, TooOld, BeyondLimit
<1>3. TerminalIn(status') = TerminalIn(st) \ gone
  <2> HIDE DEF gone
  <2> QED
    BY <1>1, <1>2 DEF TerminalIn, Terminal
<1>4. Cardinality(TerminalIn(st) \ gone) <= limit
  <2> DEFINE some == TerminalIn(st) \ TooOld(st, upd, olderThan)
  <2>1. TerminalIn(st) \ gone = some \ BeyondLimit(some, upd, limit) /\ some \in SUBSET Job
    BY DEF Pruned, TerminalIn
  <2> HIDE DEF some, gone
  <2> QED
    BY <2>1, WithinLimit
<1>5. clock \in 0..MaxClock
  BY DEF IInv, TypeOK
<1>6. \A j \in gone, k \in TerminalIn(st) \ gone : NotOlder(upd, k, j)
  BY <1>5, PrunesTheOldest
<1> HIDE DEF gone
<1>7. ASSUME NEW j \in FinishedByNow, NEW k \in FinishedByNow,
             status'[j] = "removed", status'[k] # "removed"
      PROVE  NotOlder(EndedAt, k, j)
  <2>1. j \in Job /\ k \in Job /\ status[j] # "removed" /\ status'[k] \in Terminal
    BY <1>7 DEF FinishedByNow, Terminal
  <2>2. j \in gone /\ k \in TerminalIn(st) \ gone
    BY <1>1, <1>7, <2>1 DEF TerminalIn, Terminal
  <2>3. upd[j] = EndedAt[j] /\ upd[k] = EndedAt[k]
    BY <1>2, <2>1, <2>2 DEF TerminalIn
  <2> QED
    BY <1>6, <2>2, <2>3 DEF NotOlder
<1> QED
  BY <1>3, <1>4, <1>7 DEF OldestGoFirst

\* Every step keeps the bound, and all but a deletion let the oldest go first.
LEMMA StepsRetain ==
    ASSUME SchedulerAssumption, IInv, ResultsBounded, [Next]_vars
    PROVE  ResultsBounded' /\ (OldestGoFirst \/ \E j \in Job : Delete(j))
<1>1. /\ status \in [Job -> Statuses] /\ updatedAt \in [Job -> 0..MaxClock]
      /\ clock \in 0..MaxClock /\ MaxTerminalJobs \in Nat
  BY DEF IInv, TypeOK, SchedulerAssumption
<1>2. \A j \in Job : EndedAt[j] = IF status[j] \in Terminal THEN updatedAt[j] ELSE clock
  BY DEF EndedAt
<1>3. TerminalIn(status') = TerminalIn(status)'
  BY DEF TerminalIn
<1>4. CASE Enqueue
  <2>1. nextId \in Job /\ status[nextId] = "absent"
    BY <1>4, EnqueueEffect, FreshJob
  <2>2. PICK new \in {"queued", "running"} :
            PruneTerminal([status EXCEPT ![nextId] = new], updatedAt, {}, MaxTerminalJobs)
    BY <1>4, EnqueueEffect
  <2> DEFINE st == [status EXCEPT ![nextId] = new]
  <2>3. /\ st \in [Job -> Statuses] /\ PruneTerminal(st, updatedAt, {}, MaxTerminalJobs)
        /\ \A j \in Job : st[j] = IF j = nextId THEN new ELSE status[j]
    BY <1>1, <2>1, <2>2 DEF Statuses
  <2> HIDE DEF st
  <2>4. /\ \A j \in Job : st[j] \in Terminal => updatedAt[j] = EndedAt[j]
        /\ \A j \in Job : st[j] = "removed" => status[j] = "removed"
    BY <1>2, <2>3 DEF Terminal
  <2> QED
    BY <1>1, <1>3, <2>3, <2>4, PruningStep DEF ResultsBounded
<1>5. ASSUME NEW n \in Job, CancelQueued(n) \/ RunJobContinues(n)
      PROVE  ResultsBounded' /\ OldestGoFirst
  <2>1. status[n] \notin Terminal
    BY <1>5 DEF CancelQueued, RunJobContinues, IInv, TaskMatchesStatus, Terminal
  <2>2. PICK final \in Terminal :
            PruneTerminal([status EXCEPT ![n] = final], [updatedAt EXCEPT ![n] = clock],
                          {}, MaxTerminalJobs)
    <3>1. "canceled" \in Terminal /\ FinalStatus(n) \in Terminal
      BY DEF FinalStatus, Terminal
    <3> QED
      BY <1>5, <3>1 DEF CancelQueued, RunJobContinues
  <2> DEFINE st == [status EXCEPT ![n] = final]
             upd == [updatedAt EXCEPT ![n] = clock]
  <2>3. /\ st \in [Job -> Statuses] /\ upd \in [Job -> 0..MaxClock]
        /\ PruneTerminal(st, upd, {}, MaxTerminalJobs)
        /\ \A j \in Job : st[j] = IF j = n THEN final ELSE status[j]
        /\ \A j \in Job : upd[j] = IF j = n THEN clock ELSE updatedAt[j]
    BY <1>1, <2>2 DEF Statuses
  <2> HIDE DEF st, upd
  <2>4. /\ \A j \in Job : st[j] \in Terminal => upd[j] = EndedAt[j]
        /\ \A j \in Job : st[j] = "removed" => status[j] = "removed"
    BY <1>2, <2>1, <2>3 DEF Terminal
  <2> QED
    BY <1>1, <1>3, <2>3, <2>4, PruningStep DEF ResultsBounded
<1>6. CASE PruneRequest
  <2>1. PICK olderThan \in SUBSET Nat, limit \in Nat :
            PruneTerminal(status, updatedAt, olderThan, limit)
    BY <1>6 DEF PruneRequest, SchedulerAssumption
  <2>2. \A j \in Job : status[j] \in Terminal => updatedAt[j] = EndedAt[j]
    BY <1>2
  <2>3. OldestGoFirst /\ TerminalIn(status') \subseteq TerminalIn(status)
    BY <1>1, <2>1, <2>2, PruningStep
  <2> QED
    BY <2>3, FewerResults
<1>7. ASSUME NEW n \in Job, Delete(n) PROVE ResultsBounded'
  <2>1. TerminalIn(status') \subseteq TerminalIn(status)
    BY <1>1, <1>7 DEF Delete, TerminalIn, Terminal
  <2> QED
    BY <2>1, FewerResults
<1>8. ASSUME \A j \in Job : status'[j] = status[j] \/ (status[j] = "queued" /\ status'[j] = "running")
      PROVE  ResultsBounded' /\ OldestGoFirst
  <2>1. TerminalIn(status') \subseteq TerminalIn(status)
    BY <1>8 DEF TerminalIn, Terminal
  <2>2. ASSUME NEW j \in FinishedByNow, status'[j] = "removed" PROVE FALSE
    <3>1. j \in Job /\ status[j] # "removed"
      BY <2>2 DEF FinishedByNow, Terminal
    <3>2. status'[j] = status[j] \/ status'[j] = "running"
      BY <1>8, <3>1
    <3> QED
      BY <2>2, <3>1, <3>2
  <2>3. OldestGoFirst
    BY <2>2 DEF OldestGoFirst
  <2> QED
    BY <2>1, <2>3, FewerResults
<1>9. ASSUME NEW n \in Job, ReleaseSlot(n) PROVE ResultsBounded' /\ OldestGoFirst
  <2>1. \A j \in Job : status'[j] = status[j] \/ (status[j] = "queued" /\ status'[j] = "running")
    BY <1>1, <1>9, ReleaseSlotEffect
  <2> QED
    BY <1>8, <2>1
<1>10. CASE UNCHANGED status
  BY <1>8, <1>10
<1> QED
  BY <1>4, <1>5, <1>6, <1>7, <1>9, <1>10
     DEF Next, CancelRunning, SettleExecutor, ClockTicks, vars

\* The bound on results holds in every reachable state.
LEMMA AlwaysBounded == Spec => []ResultsBounded
<1>1. Init => ResultsBounded
  <2>1. ASSUME Init PROVE TerminalIn(status) = {}
    BY <2>1 DEF Init, TerminalIn, Terminal
  <2> QED
    BY <2>1, FS_EmptySet, SchedulerAssumption DEF ResultsBounded, SchedulerAssumption
<1>2. IInv /\ ResultsBounded /\ [Next]_vars => ResultsBounded'
  BY SchedulerAssumption, StepsRetain
<1> QED
  BY <1>1, <1>2, AlwaysIInv, PTL DEF Spec

\* After every method at most maxTerminalJobs results are in memory, and unless
\* a client deletes one, those that go are not younger than any that stay.
THEOREM NewestAreKept == Spec => RetentionKeepsTheNewest
<1> DEFINE Retains ==
        /\ Cardinality(TerminalIn(status')) <= MaxTerminalJobs
        /\ (\E j \in Job : Delete(j)) \/
           \A j, k \in FinishedByNow :
             status'[j] = "removed" /\ status'[k] # "removed" => NotOlder(EndedAt, k, j)
<1>1. ASSUME SchedulerAssumption, IInv, ResultsBounded, [Next]_vars PROVE Retains
  <2>1. TerminalIn(status') = TerminalIn(status)'
    BY DEF TerminalIn
  <2>2. ResultsBounded' /\ (OldestGoFirst \/ \E j \in Job : Delete(j))
    BY <1>1, StepsRetain
  <2> QED
    BY <2>1, <2>2 DEF ResultsBounded, OldestGoFirst
<1>2. SchedulerAssumption /\ IInv /\ ResultsBounded /\ [Next]_vars => [Retains]_vars
  BY <1>1
<1> QED
  BY <1>2, SchedulerAssumption, AlwaysIInv, AlwaysBounded, PTL DEF Spec, RetentionKeepsTheNewest

-----------------------------------------------------------------------------
(***************************************************************************)
(* The scheduler of src/scheduler.ts is a job service: every step of       *)
(* EvidenceRunScheduler is a step of JobService, or a stutter, when the    *)
(* queue is read as the waiting line and the promise chains as the slots.  *)
(* The invariant supplies what the guards of JobService ask for: that the  *)
(* counter of pump is the number of slots taken (SlotAccounting), that a   *)
(* finishing chain belongs to a concluded job (TaskMatchesStatus) and that *)
(* a queued job has a place in the line (QueueMatchesStatus).              *)
(***************************************************************************)

\* The outcome of a job, as the mapping of Service reads it off the status.
Outcome == [j \in Job |-> IF status[j] \in Terminal THEN status[j]
                          ELSE IF status[j] = "removed" THEN "forgotten" ELSE "none"]

\* What the mapping makes of each status.
LEMMA OutcomeOf ==
    ASSUME NEW j \in Job
    PROVE  /\ status[j] \in Terminal => Outcome[j] = status[j]
           /\ status[j] = "removed" => Outcome[j] = "forgotten"
           /\ status[j] \notin Terminal \cup {"removed"} => Outcome[j] = "none"
           /\ Outcome[j] \in Terminal <=> status[j] \in Terminal
           /\ Outcome[j] = "none" <=> status[j] \notin Terminal \cup {"removed"}
BY DEF Outcome, Terminal

\* The same of the status after a step.
LEMMA OutcomeOfNext ==
    ASSUME NEW j \in Job
    PROVE  /\ status'[j] \in Terminal => Outcome'[j] = status'[j]
           /\ status'[j] = "removed" => Outcome'[j] = "forgotten"
           /\ status'[j] \notin Terminal \cup {"removed"} => Outcome'[j] = "none"
BY DEF Outcome, Terminal

\* JobService counts its slots as the scheduler does.
LEMMA SameCardinality ==
    ASSUME NEW S
    PROVE  Service!Cardinality(S) = Cardinality(S)
BY DEF Service!Cardinality, Cardinality

\* The outcomes become result, except that some finished jobs are forgotten.
Forgotten(result) ==
    \E gone \in SUBSET {j \in Job : result[j] \in Service!Outcomes} :
        Outcome' = [j \in Job |-> IF j \in gone THEN "forgotten" ELSE result[j]]

\* A step that changes outcomes to result and removes some finished jobs,
\* those that finish in it included, is a step that forgets.
LEMMA RemovalForgets ==
    ASSUME NEW result, DOMAIN result = Job,
           \A j \in Job : \/ Outcome'[j] = result[j]
                          \/ result[j] \in Terminal /\ status'[j] = "removed"
    PROVE  Forgotten(result)
<1> DEFINE gone == {j \in Job : result[j] \in Terminal /\ status'[j] = "removed"}
<1>1. gone \in SUBSET {j \in Job : result[j] \in Service!Outcomes}
  BY DEF Service!Outcomes, Terminal
<1>2. Outcome' = [j \in Job |-> IF j \in gone THEN "forgotten" ELSE result[j]]
  <2>1. \A j \in Job : Outcome'[j] = IF j \in gone THEN "forgotten" ELSE result[j]
    BY OutcomeOfNext
  <2> HIDE DEF gone
  <2> QED
    BY <2>1 DEF Outcome
<1> HIDE DEF gone
<1> QED
  BY <1>1, <1>2 DEF Forgotten

-----------------------------------------------------------------------------
\* An empty scheduler is a service without jobs.
LEMMA InitIsServiceInit ==
    ASSUME SchedulerAssumption, Init
    PROVE  Service!ServiceInit
BY DEF Init, Service!ServiceInit, SlotHolders, Terminal

\* enqueue submits a job.
LEMMA EnqueueSubmits ==
    ASSUME SchedulerAssumption, IInv, Enqueue, NEW j \in Job, j = nextId
    PROVE  Service!Submit(j)
<1>1. /\ nextId \in Job /\ status[nextId] = "absent" /\ task[nextId] = "idle"
      /\ \A i \in 1..Len(queue) : queue[i] < nextId
  BY EnqueueEffect, FreshJob
<1>2. /\ status \in [Job -> Statuses] /\ updatedAt \in [Job -> 0..MaxClock]
      /\ task \in [Job -> Tasks] /\ running = Cardinality(SlotHolders)
      /\ running \in Nat /\ Concurrency \in Nat /\ nextId \in Nat
  BY <1>1 DEF IInv, TypeOK, SlotAccounting, SchedulerAssumption, Job
<1>3. Outcome[nextId] = "none"
  BY <1>1, OutcomeOf DEF Terminal
<1>4. nextId \notin SlotHolders \cup Service!InWaiting
  BY <1>1, <1>2 DEF SlotHolders, Service!InWaiting
<1>5. ASSUME NEW new \in {"queued", "running"},
             PruneTerminal([status EXCEPT ![nextId] = new], updatedAt, {}, MaxTerminalJobs)
      PROVE  Forgotten(Outcome)
  <2> DEFINE st == [status EXCEPT ![nextId] = new]
  <2>1. st \in [Job -> Statuses] /\ PruneTerminal(st, updatedAt, {}, MaxTerminalJobs)
    BY <1>2, <1>5 DEF Statuses
  <2>2. \A k \in Job : st[k] = IF k = nextId THEN new ELSE status[k]
    BY <1>2
  <2> HIDE DEF st
  <2>3. \A k \in Job : status'[k] = st[k] \/ (st[k] \in Terminal /\ status'[k] = "removed")
    BY <1>2, <2>1, PruneEffect
  <2>4. \A k \in Job : \/ Outcome'[k] = Outcome[k]
                       \/ Outcome[k] \in Terminal /\ status'[k] = "removed"
    BY <1>1, <2>2, <2>3 DEF Outcome, Terminal
  <2>5. DOMAIN Outcome = Job
    BY DEF Outcome
  <2> QED
    BY <2>4, <2>5, RemovalForgets
<1>6. CASE /\ queue = <<>> /\ queue' = <<>> /\ running < Concurrency
           /\ task' = [task EXCEPT ![nextId] = "executing"]
           /\ PruneTerminal([status EXCEPT ![nextId] = "running"], updatedAt, {}, MaxTerminalJobs)
  <2>1. SlotHolders' = SlotHolders \cup {nextId}
    BY <1>1, <1>2, <1>6 DEF SlotHolders
  <2> QED
    BY <1>2, <1>3, <1>4, <1>5, <1>6, <2>1, SameCardinality
       DEF Service!Submit, Service!Forgetting, Forgotten, Outcome
<1>7. CASE /\ running = Concurrency
           /\ queue' = Append(queue, nextId)
           /\ UNCHANGED task
           /\ PruneTerminal([status EXCEPT ![nextId] = "queued"], updatedAt, {}, MaxTerminalJobs)
  <2>1. SlotHolders' = SlotHolders /\ ~(Cardinality(SlotHolders) < Concurrency)
    BY <1>2, <1>7 DEF SlotHolders
  <2> QED
    BY <1>3, <1>4, <1>5, <1>7, <2>1, SameCardinality
       DEF Service!Submit, Service!Forgetting, Forgotten, Outcome
<1> QED
  BY <1>6, <1>7, EnqueueEffect

\* Cancelling a queued job withdraws it.
LEMMA CancelQueuedWithdraws ==
    ASSUME SchedulerAssumption, IInv, NEW j \in Job, CancelQueued(j)
    PROVE  Service!Withdraw(j)
<1> DEFINE st == [status EXCEPT ![j] = "canceled"]
           upd == [updatedAt EXCEPT ![j] = clock]
           result == [Outcome EXCEPT ![j] = "canceled"]
<1>1. /\ status[j] = "queued" /\ queue' = Dequeued(j) /\ UNCHANGED task
      /\ PruneTerminal(st, upd, {}, MaxTerminalJobs)
  BY DEF CancelQueued
<1>2. /\ st \in [Job -> Statuses] /\ upd \in [Job -> 0..MaxClock]
      /\ \A k \in Job : st[k] = IF k = j THEN "canceled" ELSE status[k]
  BY DEF IInv, TypeOK, Statuses, Terminal
<1>3. PICK i \in 1..Len(queue) : queue[i] = j /\ i = CHOOSE k \in 1..Len(queue) : queue[k] = j
  BY <1>1 DEF IInv, QueueMatchesStatus
<1>4. queue' = SubSeq(queue, 1, i - 1) \o SubSeq(queue, i + 1, Len(queue))
  BY <1>1, <1>3 DEF Dequeued, Seqs!RemoveAt
<1>5. j \in Service!InWaiting
  BY <1>3 DEF Service!InWaiting
<1>6. \A k \in Job : status'[k] = st[k] \/ (st[k] \in Terminal /\ status'[k] = "removed")
  <2> HIDE DEF st, upd
  <2> QED
    BY <1>1, <1>2, PruneEffect
<1>7. DOMAIN result = Job /\ \A k \in Job : result[k] = IF k = j THEN "canceled" ELSE Outcome[k]
  BY DEF Outcome
<1> HIDE DEF st, upd, result
<1>8. \A k \in Job : Outcome'[k] = result[k] \/ (result[k] \in Terminal /\ status'[k] = "removed")
  BY <1>2, <1>6, <1>7 DEF Outcome, Terminal
<1>9. Forgotten(result)
  BY <1>7, <1>8, RemovalForgets
<1>10. SlotHolders' = SlotHolders
  BY <1>1 DEF SlotHolders
<1> QED
  BY <1>3, <1>4, <1>5, <1>9, <1>10 DEF Service!Withdraw, Service!Forgetting, Forgotten, Outcome, result

\* runJob's continuation concludes a job, which keeps its slot.
LEMMA ContinuationConcludes ==
    ASSUME SchedulerAssumption, IInv, NEW j \in Job, RunJobContinues(j)
    PROVE  Service!Conclude(j)
<1> DEFINE st == [status EXCEPT ![j] = FinalStatus(j)]
           upd == [updatedAt EXCEPT ![j] = clock]
           result == [Outcome EXCEPT ![j] = FinalStatus(j)]
<1>1. /\ task[j] \in Settlements /\ task' = [task EXCEPT ![j] = "finishing"]
      /\ PruneTerminal(st, upd, {}, MaxTerminalJobs) /\ UNCHANGED queue
  BY DEF RunJobContinues
<1>2. FinalStatus(j) \in Terminal
  BY DEF FinalStatus, Terminal
<1>3. /\ st \in [Job -> Statuses] /\ upd \in [Job -> 0..MaxClock] /\ task \in [Job -> Tasks]
      /\ \A k \in Job : st[k] = IF k = j THEN FinalStatus(j) ELSE status[k]
  BY <1>2 DEF IInv, TypeOK, Statuses
<1>4. status[j] = "running"
  BY <1>1 DEF IInv, TaskMatchesStatus
<1>5. \A k \in Job : status'[k] = st[k] \/ (st[k] \in Terminal /\ status'[k] = "removed")
  <2> HIDE DEF st, upd
  <2> QED
    BY <1>1, <1>3, PruneEffect
<1>6. DOMAIN result = Job /\ \A k \in Job : result[k] = IF k = j THEN FinalStatus(j) ELSE Outcome[k]
  BY DEF Outcome
<1>7. j \in SlotHolders /\ SlotHolders' = SlotHolders /\ Outcome[j] = "none"
  BY <1>1, <1>3, <1>4 DEF SlotHolders, Settlements, Outcome, Terminal
<1> HIDE DEF st, upd, result
<1>8. \A k \in Job : Outcome'[k] = result[k] \/ (result[k] \in Terminal /\ status'[k] = "removed")
  BY <1>2, <1>3, <1>5, <1>6 DEF Outcome, Terminal
<1>9. Forgotten(result)
  BY <1>6, <1>8, RemovalForgets
<1>10. FinalStatus(j) \in Service!Outcomes
  BY <1>2 DEF Service!Outcomes, Terminal
<1> QED
  BY <1>1, <1>7, <1>9, <1>10 DEF Service!Conclude, Service!Forgetting, Forgotten, Outcome, result

\* The .finally callback vacates a slot, to the head of the line if there is one.
LEMMA ReleaseVacates ==
    ASSUME SchedulerAssumption, IInv, NEW j \in Job, ReleaseSlot(j)
    PROVE  Service!Vacate(j)
<1>1. /\ status \in [Job -> Statuses] /\ task \in [Job -> Tasks] /\ queue \in Seq(Job)
      /\ task[j] = "finishing"
  BY ReleaseSlotEffect DEF IInv, TypeOK
<1>2. status[j] \in Terminal \cup {"removed"}
  BY <1>1 DEF IInv, TaskMatchesStatus, Statuses, Settlements
<1>3. j \in SlotHolders /\ Outcome[j] # "none"
  BY <1>1, <1>2 DEF SlotHolders, Outcome, Terminal
<1>4. CASE queue = <<>> /\ queue' = <<>> /\ task' = [task EXCEPT ![j] = "idle"] /\ UNCHANGED status
  <2>1. SlotHolders' = SlotHolders \ {j} /\ Outcome' = Outcome
    BY <1>1, <1>4 DEF SlotHolders, Outcome
  <2> QED
    BY <1>3, <1>4, <2>1 DEF Service!Vacate, Outcome
<1>5. CASE /\ queue # <<>> /\ queue' = Tail(queue)
           /\ queue[1] \in Job /\ queue[1] # j /\ status[queue[1]] = "queued"
           /\ status' = [status EXCEPT ![queue[1]] = "running"]
           /\ task' = [task EXCEPT ![queue[1]] = "executing", ![j] = "idle"]
  <2>1. Head(queue) = queue[1]
    BY <1>1, <1>5
  <2>2. SlotHolders' = (SlotHolders \ {j}) \cup {Head(queue)}
    BY <1>1, <1>5, <2>1 DEF SlotHolders
  <2>3. Outcome' = Outcome
    BY <1>1, <1>5 DEF Outcome, Terminal
  <2> QED
    BY <1>3, <1>5, <2>2, <2>3 DEF Service!Vacate, Outcome
<1> QED
  BY <1>4, <1>5, ReleaseSlotEffect

\* Removing results, on request, forgets them.
LEMMA RemovalIsForget ==
    ASSUME SchedulerAssumption, IInv, PruneRequest \/ \E j \in Job : Delete(j)
    PROVE  Service!Forget
<1>1. /\ status \in [Job -> Statuses] /\ updatedAt \in [Job -> 0..MaxClock]
      /\ UNCHANGED <<queue, task>>
  BY DEF IInv, TypeOK, PruneRequest, Delete
<1>2. \A k \in Job : status'[k] = status[k] \/ (status[k] \in Terminal /\ status'[k] = "removed")
  <2>1. CASE PruneRequest
    BY <1>1, <2>1, PruneEffect DEF PruneRequest
  <2>2. ASSUME NEW j \in Job, Delete(j)
        PROVE  \A k \in Job : status'[k] = status[k] \/ (status[k] \in Terminal /\ status'[k] = "removed")
    BY <1>1, <2>2 DEF Delete
  <2> QED
    BY <2>1, <2>2
<1>3. /\ DOMAIN Outcome = Job
      /\ \A k \in Job : Outcome'[k] = Outcome[k] \/ (Outcome[k] \in Terminal /\ status'[k] = "removed")
  BY <1>2 DEF Outcome, Terminal
<1>4. Forgotten(Outcome) /\ SlotHolders' = SlotHolders
  BY <1>1, <1>3, RemovalForgets DEF SlotHolders
<1> QED
  BY <1>1, <1>4 DEF Service!Forget, Service!Forgetting, Forgotten, Outcome

\* Whatever else happens, the service does not notice.
LEMMA OthersStutter ==
    ASSUME IInv,
           \/ ClockTicks \/ UNCHANGED vars
           \/ \E j \in Job : CancelRunning(j) \/ \E how \in Settlements : SettleExecutor(j, how)
    PROVE  UNCHANGED Service!serviceVars
<1>1. UNCHANGED <<queue, status>>
  BY DEF ClockTicks, vars, CancelRunning, SettleExecutor
<1>2. SlotHolders' = SlotHolders
  BY DEF IInv, TypeOK, ClockTicks, vars, CancelRunning, SettleExecutor, SlotHolders, Settlements
<1> QED
  BY <1>1, <1>2 DEF Service!serviceVars

\* Every step of the scheduler is a step of the service or a stutter.
LEMMA NextIsServiceNext ==
    ASSUME SchedulerAssumption, IInv, [Next]_vars
    PROVE  [Service!ServiceNext]_(Service!serviceVars)
<1>1. CASE Enqueue
  <2>1. nextId \in Job
    BY <1>1, EnqueueEffect
  <2>2. \A j \in Job : j = nextId => Service!Submit(j)
    BY <1>1, EnqueueSubmits
  <2> QED
    BY <2>1, <2>2 DEF Service!ServiceNext
<1>2. CASE PruneRequest \/ \E j \in Job : Delete(j)
  BY <1>2, RemovalIsForget DEF Service!ServiceNext
<1>3. ASSUME NEW j \in Job, CancelQueued(j) \/ RunJobContinues(j) \/ ReleaseSlot(j)
      PROVE  Service!ServiceNext
  BY <1>3, CancelQueuedWithdraws, ContinuationConcludes, ReleaseVacates DEF Service!ServiceNext
<1>4. CASE \/ ClockTicks \/ UNCHANGED vars
           \/ \E j \in Job : CancelRunning(j) \/ \E how \in Settlements : SettleExecutor(j, how)
  BY <1>4, OthersStutter
<1> QED
  BY <1>1, <1>2, <1>3, <1>4 DEF Next

\* The scheduler is a bounded service that admits first come, first served,
\* gives each job one outcome at most and forgets only finished jobs: for every
\* number of jobs and slots, whatever is pruned, cancelled or settled meanwhile.
THEOREM ImplementsJobService == Spec => RefinesJobService
<1>1. Init => Service!ServiceInit
  BY SchedulerAssumption, InitIsServiceInit
<1>2. IInv /\ [Next]_vars => [Service!ServiceNext]_(Service!serviceVars)
  BY SchedulerAssumption, NextIsServiceNext
<1> QED
  BY <1>1, <1>2, AlwaysIInv, PTL DEF Spec, RefinesJobService, Service!ServiceSpec

=============================================================================
