----------------------------- MODULE MCServices -----------------------------
(***************************************************************************)
(* What must happen in the end: the jobs of the scheduler and the leases of  *)
(* the lease manager.  They are kept by different processes and have nothing *)
(* in common, so each behaviour is of one of them.                           *)
(***************************************************************************)
EXTENDS EvidenceRunScheduler, MCLeaseManager

VARIABLE service  \* which of them

ServicesInit == service \in {"jobs", "leases"} /\ Init /\ LeaseInit

ServicesNext ==
    \/ service = "jobs" /\ Next /\ UNCHANGED <<service, leaseVars>>
    \/ service = "leases" /\ LeaseNext /\ UNCHANGED <<service, vars>>

\* Fairness of the scheduler and of the lease manager, where it is their turn.
ServicesSpec ==
    /\ ServicesInit /\ [][ServicesNext]_<<service, vars, leaseVars>>
    /\ \A j \in Job :
          /\ WF_vars(service = "jobs" /\ \E how \in Settlements : SettleExecutor(j, how))
          /\ WF_vars(service = "jobs" /\ RunJobContinues(j))
          /\ WF_vars(service = "jobs" /\ ReleaseSlot(j))
    /\ WF_leaseVars(service = "leases" /\ Tick)

=============================================================================
