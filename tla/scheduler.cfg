\* Two slots, one retained result, four jobs: a job waits behind two, two
\* jobs finish within one tick, retention evicts, age and limit prunes differ.
SPECIFICATION Spec
CONSTANTS
  MaxJobs = 4
  MaxClock = 2
  Concurrency = 2
  MaxTerminalJobs = 1
  PruneAges = {1}
  PruneLimits = {0}
INVARIANTS
  SlotAccounting
  QueueMatchesStatus
  WorkConserving
  CancelHonoured
PROPERTIES
  RetentionKeepsTheNewest
  RefinesJobService
\* The bounds on jobs and clock let the model stop.
CHECK_DEADLOCK FALSE
