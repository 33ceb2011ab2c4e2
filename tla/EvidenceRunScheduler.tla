----------------------- MODULE EvidenceRunScheduler -----------------------
(***************************************************************************)
(* EvidenceRunScheduler of src/scheduler.ts: the in-process job queue      *)
(* behind the HTTP worker.  Node runs each method to its first await       *)
(* without interruption, so a method call is one action; a job's runJob    *)
(* promise chain is cut where it awaits: at the executor, between the      *)
(* executor's settling and runJob's continuation, and between runJob's end *)
(* and the .finally callback that gives the slot back.                     *)
(***************************************************************************)
EXTENDS Naturals, Sequences, FiniteSets
Seqs == INSTANCE SequencesExt

CONSTANTS
    MaxJobs,          \* bound: jobs enqueued in a behaviour
    MaxClock,         \* bound: value of the wall clock
    Concurrency,      \* this.concurrency, at least 1
    MaxTerminalJobs,  \* this.maxTerminalJobs, at least 0
    PruneAges,        \* olderThanMs values a /jobs/prune request may carry
    PruneLimits       \* maxTerminalJobs values a /jobs/prune request may carry

ASSUME SchedulerAssumption ==
    /\ MaxJobs \in Nat /\ MaxClock \in Nat
    /\ Concurrency \in Nat \ {0}
    /\ MaxTerminalJobs \in Nat
    /\ PruneAges \subseteq Nat /\ PruneLimits \subseteq Nat

\* Job ids in the order of creation, which is the insertion order of this.jobs.
Job == 1..MaxJobs

VARIABLES
    nextId,           \* the next job to be created
    status,           \* job.status; "absent" before enqueue, "removed" after
    updatedAt,        \* job.updatedAt, kept for terminal jobs (only they are sorted by it)
    cancelRequested,  \* jobs whose cancelRequestedAt is set; their signal is aborted
    queue,            \* this.queue
    controllers,      \* keys of this.runningControllers
    running,          \* this.running
    task,             \* where the job's runJob promise chain stands
    clock             \* Date.now(), coarse: several updates may share a tick

vars == <<nextId, status, updatedAt, cancelRequested, queue, controllers,
          running, task, clock>>

Terminal == {"completed", "failed", "canceled"}
Statuses == {"absent", "queued", "running", "removed"} \cup Terminal

\* How the executor's promise settled: a value, an error, an AbortError.
Settlements == {"resolved", "threw", "aborted"}
Tasks == {"idle", "executing", "finishing"} \cup Settlements

SlotHolders == {j \in Job : task[j] # "idle"}

-----------------------------------------------------------------------------
\* pruneTerminal: age first, then the oldest beyond the limit.  The sort is
\* stable, so equal timestamps fall back to insertion order.

TerminalIn(st) == {j \in Job : st[j] \in Terminal}

NotOlder(upd, j, k) == upd[j] > upd[k] \/ (upd[j] = upd[k] /\ j >= k)

TooOld(st, upd, olderThan) ==
    {j \in TerminalIn(st) : \E age \in olderThan : clock - upd[j] >= age}

\* Mutant: the sort is descending.
BeyondLimit_NewestFirst(remaining, upd, limit) ==
    {k \in remaining : Cardinality({j \in remaining : NotOlder(upd, k, j)}) > limit}

BeyondLimit(remaining, upd, limit) ==
    {k \in remaining : Cardinality({j \in remaining : NotOlder(upd, j, k)}) > limit}

\* olderThan is {} when the option is undefined, else the singleton of its value.
Pruned(st, upd, olderThan, limit) ==
    LET old == TooOld(st, upd, olderThan)
    IN  old \cup BeyondLimit(TerminalIn(st) \ old, upd, limit)

PruneTerminal(st, upd, olderThan, limit) ==
    LET gone == Pruned(st, upd, olderThan, limit)
    IN  /\ status' = [j \in Job |-> IF j \in gone THEN "removed" ELSE st[j]]
        /\ updatedAt' = [j \in Job |-> IF j \in gone THEN 0 ELSE upd[j]]

-----------------------------------------------------------------------------
\* pump: shift ids off the queue while a slot is free; ids that are no longer
\* queued are skipped, the others start.

StartedIn(q, st, n) == {j \in Job : st[j] = "queued" /\ \E i \in 1..n : q[i] = j}

\* Mutants: one executor too many; one slot never used.
PumpStops_TooLate(q, st, run, n) ==
    n = Len(q) \/ run + Cardinality(StartedIn(q, st, n)) > Concurrency
PumpStops_TooEarly(q, st, run, n) ==
    n = Len(q) \/ run + Cardinality(StartedIn(q, st, n)) >= Concurrency - 1

PumpStops(q, st, run, n) ==
    n = Len(q) \/ run + Cardinality(StartedIn(q, st, n)) >= Concurrency

Shifted(q, st, run) ==
    CHOOSE n \in 0..Len(q) :
        /\ PumpStops(q, st, run, n)
        /\ \A m \in 0..(n - 1) : ~PumpStops(q, st, run, m)

PumpStarts(q, st, run) == StartedIn(q, st, Shifted(q, st, run))

\* Every started runJob executes synchronously up to its executor call.
Pump(q, st, run) ==
    LET started == PumpStarts(q, st, run)
    IN  /\ queue' = SubSeq(q, Shifted(q, st, run) + 1, Len(q))
        /\ running' = run + Cardinality(started)
        /\ controllers' = controllers \cup started

MarkRunning(st, started) == [j \in Job |-> IF j \in started THEN "running" ELSE st[j]]

-----------------------------------------------------------------------------
Init ==
    /\ nextId = 1
    /\ status = [j \in Job |-> "absent"]
    /\ updatedAt = [j \in Job |-> 0]
    /\ cancelRequested = {}
    /\ queue = <<>>
    /\ controllers = {}
    /\ running = 0
    /\ task = [j \in Job |-> "idle"]
    /\ clock = 0

\* Mutant: unshift instead of push.
Enqueued_AtFront == <<nextId>> \o queue

Enqueued == Append(queue, nextId)

Enqueue ==
    LET q == Enqueued
        st == [status EXCEPT ![nextId] = "queued"]
        started == PumpStarts(q, st, running)
    IN  /\ nextId <= MaxJobs
        /\ nextId' = nextId + 1
        /\ Pump(q, st, running)
        /\ task' = [j \in Job |-> IF j \in started THEN "executing" ELSE task[j]]
        /\ PruneTerminal(MarkRunning(st, started), updatedAt, {}, MaxTerminalJobs)
        /\ UNCHANGED <<cancelRequested, clock>>

\* cancel of a running job only signals; the job ends when its executor settles.
CancelRunning(j) ==
    /\ status[j] = "running"
    /\ j \in controllers
    /\ cancelRequested' = cancelRequested \cup {j}
    /\ UNCHANGED <<nextId, status, updatedAt, queue, controllers, running, task, clock>>

\* Mutant: the id stays in the queue, for pump to skip.
Dequeued_Kept(j) == queue

Dequeued(j) == Seqs!RemoveAt(queue, CHOOSE i \in 1..Len(queue) : queue[i] = j)

CancelQueued(j) ==
    /\ status[j] = "queued"
    /\ queue' = Dequeued(j)
    /\ cancelRequested' = cancelRequested \cup {j}
    /\ PruneTerminal([status EXCEPT ![j] = "canceled"],
                     [updatedAt EXCEPT ![j] = clock], {}, MaxTerminalJobs)
    /\ UNCHANGED <<nextId, controllers, running, task, clock>>

Delete(j) ==
    /\ status[j] \in Terminal
    /\ status' = [status EXCEPT ![j] = "removed"]
    /\ updatedAt' = [updatedAt EXCEPT ![j] = 0]
    /\ UNCHANGED <<nextId, cancelRequested, queue, controllers, running, task, clock>>

\* POST /jobs/prune; an option the request leaves out takes its default.
PruneRequest ==
    /\ \E olderThan \in {{}} \cup {{age} : age \in PruneAges},
          limit \in PruneLimits \cup {MaxTerminalJobs} :
            PruneTerminal(status, updatedAt, olderThan, limit)
    /\ UNCHANGED <<nextId, cancelRequested, queue, controllers, running, task, clock>>

\* The executor's promise settles, at any time and with any outcome: an
\* executor may finish its work although its signal was aborted.
SettleExecutor(j, how) ==
    /\ task[j] = "executing"
    /\ task' = [task EXCEPT ![j] = how]
    /\ UNCHANGED <<nextId, status, updatedAt, cancelRequested, queue, controllers, running, clock>>

\* Mutants: only the catch branch looks at cancelRequestedAt; the settlement
\* itself is stored as the status.
FinalStatus_CompletesCanceled(j) ==
    IF task[j] = "resolved" THEN "completed"
    ELSE IF j \in cancelRequested \/ task[j] = "aborted" THEN "canceled"
    ELSE "failed"

FinalStatus(j) ==
    IF j \in cancelRequested \/ task[j] = "aborted" THEN "canceled"
    ELSE IF task[j] = "threw" THEN "failed"
    ELSE "completed"

\* runJob after its await: the final status, the controller, the retention.
RunJobContinues(j) ==
    /\ task[j] \in Settlements
    /\ task' = [task EXCEPT ![j] = "finishing"]
    /\ controllers' = controllers \ {j}
    /\ PruneTerminal([status EXCEPT ![j] = FinalStatus(j)],
                     [updatedAt EXCEPT ![j] = clock], {}, MaxTerminalJobs)
    /\ UNCHANGED <<nextId, cancelRequested, queue, running, clock>>

\* The .finally callback of pump: the slot is given back and pump runs again.
ReleaseSlot(j) ==
    LET started == PumpStarts(queue, status, running - 1)
    IN  /\ task[j] = "finishing"
        /\ Pump(queue, status, running - 1)
        /\ task' = [k \in Job |-> IF k \in started THEN "executing"
                                  ELSE IF k = j THEN "idle" ELSE task[k]]
        /\ status' = MarkRunning(status, started)
        /\ UNCHANGED <<nextId, updatedAt, cancelRequested, clock>>

ClockTicks ==
    /\ clock < MaxClock
    /\ clock' = clock + 1
    /\ UNCHANGED <<nextId, status, updatedAt, cancelRequested, queue, controllers, running, task>>

Next ==
    \/ Enqueue
    \/ PruneRequest
    \/ ClockTicks
    \/ \E j \in Job :
        \/ CancelRunning(j)
        \/ CancelQueued(j)
        \/ Delete(j)
        \/ \E how \in Settlements : SettleExecutor(j, how)
        \/ RunJobContinues(j)
        \/ ReleaseSlot(j)

Spec == Init /\ [][Next]_vars

\* Promise callbacks run; executors are assumed to settle (their awaits carry
\* timeouts).  Clients and the clock owe nothing.
Fairness ==
    \A j \in Job :
        /\ WF_vars(\E how \in Settlements : SettleExecutor(j, how))
        /\ WF_vars(RunJobContinues(j))
        /\ WF_vars(ReleaseSlot(j))

FairSpec == Spec /\ Fairness

-----------------------------------------------------------------------------
TypeOK ==
    /\ nextId \in 1..(MaxJobs + 1)
    /\ status \in [Job -> Statuses]
    /\ updatedAt \in [Job -> 0..MaxClock]
    /\ cancelRequested \subseteq Job
    /\ queue \in Seq(Job)
    /\ controllers \subseteq Job
    /\ running \in Nat
    /\ task \in [Job -> Tasks]
    /\ clock \in 0..MaxClock

\* The counter that pump tests counts exactly the promise chains that are
\* under way, so no more than Concurrency executors ever run, although the
\* status changes one callback earlier than the counter does.
SlotAccounting ==
    /\ running = Cardinality(SlotHolders)
    /\ running <= Concurrency

\* The queue holds each queued job once and nothing else: pump's skip of
\* stale ids is never needed and a cancelled job is never started later.
QueueMatchesStatus ==
    /\ \A j \in Job : status[j] = "queued" <=> \E i \in 1..Len(queue) : queue[i] = j
    /\ \A i, k \in 1..Len(queue) : queue[i] = queue[k] => i = k

\* A job waits only while every slot is taken, whatever order of enqueue,
\* cancel, settle and prune led there: no wake-up of pump is ever missed.
WorkConserving == queue # <<>> => running = Concurrency

\* The abort controller of cancel() exists exactly while the executor may
\* need it: cancel never answers "running job has no abort controller".
ControllerWhileRunning == controllers = {j \in Job : status[j] = "running"}

\* cancel() answered ok: the job never ends completed or failed, even when
\* the executor had already settled before the cancel and only its
\* continuation was outstanding.
CancelHonoured ==
    \A j \in cancelRequested : status[j] \notin {"completed", "failed"}

\* Nothing is lost or rewritten: a queued job leaves the queue only to start
\* or because it was cancelled, a running one only after its executor settled,
\* a final status never changes and a removed job never comes back.
NothingLost ==
    [][\A j \in Job :
        /\ status[j] = "queued" /\ status'[j] \notin {"queued", "running"} => j \in cancelRequested'
        /\ status[j] = "running" /\ status'[j] # "running" => task[j] \in Settlements
        /\ status[j] \in Terminal => status'[j] \in {status[j], "removed"}
        /\ status[j] = "removed" => status'[j] = "removed"]_vars

\* The jobs that are finished after a step, those it forgets included.
FinishedByNow ==
    {j \in Job : status'[j] \in Terminal \/ (status'[j] = "removed" /\ status[j] # "removed")}
EndedAt == [j \in Job |-> IF status[j] \in Terminal THEN updatedAt[j] ELSE clock]

\* After every method at most maxTerminalJobs results are in memory, and those
\* discarded are the oldest, one that ends in this very step included: whatever
\* pruning removes is not younger than any it keeps.
RetentionKeepsTheNewest ==
    [][/\ Cardinality(TerminalIn(status')) <= MaxTerminalJobs
       /\ (\E j \in Job : Delete(j)) \/
          \A j, k \in FinishedByNow :
            status'[j] = "removed" /\ status'[k] # "removed" => NotOlder(EndedAt, k, j)]_vars

\* Jobs start in the order they were enqueued.
FirstComeFirstServed ==
    [][\A j, k \in Job :
        j < k /\ status[k] # "running" /\ status'[k] = "running" => status'[j] # "queued"]_vars

\* A queued job leaves the queue and a cancelled running job comes to an end.
QueuedLeavesQueue == \A j \in Job : status[j] = "queued" ~> status[j] # "queued"
CancelTakesEffect == \A j \in Job : j \in cancelRequested ~> status[j] \in {"canceled", "removed"}

\* Refinement: what the service promises, seen through the slots.
Service == INSTANCE JobService WITH
    Jobs <- Job,
    Slots <- Concurrency,
    waiting <- queue,
    serving <- SlotHolders,
    outcome <- [j \in Job |-> IF status[j] \in Terminal THEN status[j]
                              ELSE IF status[j] = "removed" THEN "forgotten" ELSE "none"]
RefinesJobService == Service!ServiceSpec

=============================================================================
