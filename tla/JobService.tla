---------------------------- MODULE JobService ----------------------------
(***************************************************************************)
(* What the evidence-run scheduler promises its callers: a bounded service *)
(* that admits jobs first come, first served, gives every admitted job one *)
(* outcome at most, and forgets nothing that is still waiting or being     *)
(* served.  It knows no controllers, no pump loop and no retention rule.   *)
(***************************************************************************)
EXTENDS Naturals, Sequences, FiniteSets

CONSTANTS Jobs,      \* every job that may ever be submitted
          Slots      \* how many may be served at once, at least 1

VARIABLES waiting,   \* jobs not yet served, oldest first
          serving,   \* jobs that hold a slot
          outcome    \* "none", the outcome of a finished job, or "forgotten"

serviceVars == <<waiting, serving, outcome>>

Outcomes == {"completed", "failed", "canceled"}

InWaiting == {waiting[i] : i \in 1..Len(waiting)}

ServiceInit ==
    /\ waiting = <<>>
    /\ serving = {}
    /\ outcome = [j \in Jobs |-> "none"]

\* Results may be forgotten at any time, the one of this very step included.
Forgetting(result) ==
    \E gone \in SUBSET {j \in Jobs : result[j] \in Outcomes} :
        outcome' = [j \in Jobs |-> IF j \in gone THEN "forgotten" ELSE result[j]]

\* A new job is served at once when a slot is free, else it waits its turn.
Submit(j) ==
    /\ outcome[j] = "none"
    /\ j \notin serving \cup InWaiting
    /\ IF Cardinality(serving) < Slots
       THEN serving' = serving \cup {j} /\ UNCHANGED waiting
       ELSE waiting' = Append(waiting, j) /\ UNCHANGED serving
    /\ Forgetting(outcome)

\* A waiting job is called off: it never takes a slot.
Withdraw(j) ==
    /\ \E i \in 1..Len(waiting) :
        /\ waiting[i] = j
        /\ waiting' = SubSeq(waiting, 1, i - 1) \o SubSeq(waiting, i + 1, Len(waiting))
    /\ Forgetting([outcome EXCEPT ![j] = "canceled"])
    /\ UNCHANGED serving

\* A job being served gets its outcome; it keeps its slot until Vacate.
Conclude(j) ==
    /\ j \in serving
    /\ outcome[j] = "none"
    /\ \E o \in Outcomes : Forgetting([outcome EXCEPT ![j] = o])
    /\ UNCHANGED <<waiting, serving>>

\* The slot of a concluded job passes to the job that has waited longest.
Vacate(j) ==
    /\ j \in serving
    /\ outcome[j] # "none"
    /\ IF waiting = <<>>
       THEN serving' = serving \ {j} /\ UNCHANGED waiting
       ELSE /\ serving' = (serving \ {j}) \cup {Head(waiting)}
            /\ waiting' = Tail(waiting)
    /\ UNCHANGED outcome

Forget == Forgetting(outcome) /\ UNCHANGED <<waiting, serving>>

ServiceNext ==
    \/ \E j \in Jobs : Submit(j) \/ Withdraw(j) \/ Conclude(j) \/ Vacate(j)
    \/ Forget

ServiceSpec == ServiceInit /\ [][ServiceNext]_serviceVars

=============================================================================
