---------------------------- MODULE CritiqueQueue ----------------------------
(***************************************************************************)
(* The critique queue of src/critique-runner.ts: a JSON file of tasks with a *)
(* pointer to the next one.  A command reads the file and renames a changed  *)
(* copy over it; nothing locks it in between.                               *)
(***************************************************************************)
EXTENDS Naturals, FiniteSets, FiniteSetsExt

CONSTANTS
    MaxTasks,  \* bound: tasks are 1..MaxTasks, in the order of the file
    Commands   \* processes that complete tasks

\* A queue file without tasks has nothing to complete.
ASSUME CritiqueQueueAssumption == MaxTasks \in Nat \ {0}

NoTask == 0
Tasks == 1..MaxTasks

VARIABLES
    queue,     \* the file: the open tasks and next_task
    output,    \* tasks whose required output is there and not empty
    reading    \* per command: the queue it has read and will write, or <<>>

queueVars == <<queue, output, reading>>

QueueInit ==
    /\ queue = [open |-> Tasks, next |-> 1]
    /\ output = {}
    /\ reading = [c \in Commands |-> <<>>]

\* A reviewer writes a task's output.
WriteOutput(t) ==
    /\ t \notin output
    /\ output' = output \cup {t}
    /\ UNCHANGED <<queue, reading>>

After(t, open) == LET later == {u \in open : u > t} IN IF later = {} THEN NoTask ELSE Min(later)

\* Mutant: the next task is looked for from the beginning of the queue as it was.
WithoutTask_Stale(q, t) == [open |-> q.open \ {t}, next |-> After(t - 1, q.open)]
WithoutTask(q, t) == [open |-> q.open \ {t}, next |-> After(t, q.open \ {t})]

\* Mutant: the output of the task after the next one is looked for.
ReadQueue_OffByOne(c) ==
    /\ reading[c] = <<>>
    /\ queue.next \in queue.open /\ queue.next + 1 \in output
    /\ reading' = [reading EXCEPT ![c] = <<queue, queue.next>>]
    /\ UNCHANGED <<queue, output>>

\* getActiveTask: a pointer to nothing while a task is open, or to a task that is
\* not open, is an error; so is a missing output.
ReadQueue(c) ==
    /\ reading[c] = <<>>
    /\ queue.next \in queue.open \cap output
    /\ reading' = [reading EXCEPT ![c] = <<queue, queue.next>>]
    /\ UNCHANGED <<queue, output>>

\* writeQueue renames a complete file over the queue.
WriteQueue(c) ==
    /\ reading[c] # <<>>
    /\ queue' = WithoutTask(reading[c][1], reading[c][2])
    /\ reading' = [reading EXCEPT ![c] = <<>>]
    /\ UNCHANGED output

\* The command dies before the rename: only a temporary file stays.
CommandDies(c) ==
    /\ reading[c] # <<>>
    /\ reading' = [reading EXCEPT ![c] = <<>>]
    /\ UNCHANGED <<queue, output>>

QueueNext ==
    \/ \E t \in Tasks : WriteOutput(t)
    \/ \E c \in Commands : ReadQueue(c) \/ WriteQueue(c) \/ CommandDies(c)

QueueSpec == QueueInit /\ [][QueueNext]_queueVars

\* The queue is never stuck: its pointer names the first open task, and is null
\* only when none is open, whatever commands overlap and die.  So getActiveTask
\* never finds it inconsistent.
PointerNamesFirstOpen ==
    IF queue.open = {} THEN queue.next = NoTask
    ELSE queue.next = Min(queue.open)

\* With its outputs written, and commands that are run again and not killed every
\* time, the queue is emptied in the end: the completions that overlapping
\* commands undo are only ever undone a bounded number of times.
QueueFairness ==
    /\ \A t \in Tasks : WF_queueVars(WriteOutput(t))
    /\ \A c \in Commands : WF_queueVars(ReadQueue(c)) /\ SF_queueVars(WriteQueue(c))

QueueDrains == <>[](queue.open = {})

=============================================================================
