---------------------------- MODULE MCSharedFiles ----------------------------
(***************************************************************************)
(* What processes share on disk: the lock of a profile, the runs root, a    *)
(* hash-chained log and the critique queue.  They have nothing in common    *)
(* but the file system, so each behaviour is of one of them; of the runs    *)
(* root, it is beside every retention command, or of the capture cache      *)
(* while playwright is upgraded and runs are purged.                        *)
(***************************************************************************)
EXTENDS ProfileLock, RunStore, HashChainLog, CritiqueQueue

VARIABLES files  \* which of them

FilesInit ==
    /\ files \in {"lock", "runs", "cache", "chain", "queue"}
    /\ LockInit /\ StoreInit /\ ChainInit /\ QueueInit

FilesNext ==
    \/ files = "lock" /\ LockNext /\ UNCHANGED <<files, storeVars, chainVars, queueVars>>
    \/ files = "runs" /\ UNCHANGED installed /\ StoreNext /\ UNCHANGED <<files, lockVars, chainVars, queueVars>>
    \/ files = "cache" /\ StoreNext /\ sweep' = Idle /\ UNCHANGED <<files, lockVars, chainVars, queueVars>>
    \/ files = "chain" /\ ChainNext /\ UNCHANGED <<files, lockVars, storeVars, queueVars>>
    \/ files = "queue" /\ QueueNext /\ UNCHANGED <<files, lockVars, storeVars, chainVars>>

\* QueueFairness, where it is the queue's turn.
FilesSpec ==
    /\ FilesInit /\ [][FilesNext]_<<files, lockVars, storeVars, chainVars, queueVars>>
    /\ \A t \in Tasks : WF_queueVars(files = "queue" /\ WriteOutput(t))
    /\ \A c \in Commands : /\ WF_queueVars(files = "queue" /\ ReadQueue(c))
                          /\ SF_queueVars(files = "queue" /\ WriteQueue(c))

\* In the queue's turn, QueueDrains.
CritiqueQueueDrains == files = "queue" => QueueDrains

\* Directories and contents are interchangeable.  What has to happen eventually is
\* the queue's, whose states name none of them.
Interchangeable == Permutations(Runs) \cup Permutations(Contents)

=============================================================================
