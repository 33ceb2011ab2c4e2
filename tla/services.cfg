\* The jobs have one slot, so that a queued job depends on every release before it.
\* Three leases compete for a cap of two; ttls of one and two ticks let one
\* lease fall overdue while the other is alive.
SPECIFICATION ServicesSpec
CONSTANTS
  MaxJobs = 3
  MaxClock = 1
  Concurrency = 1
  MaxTerminalJobs = 2
  PruneAges = {1}
  PruneLimits = {}
  Token = {t1, t2, t3}
  Page = {p1, p2}
  k1 = k1
  Key = {k1}
  NoKey = NoKey
  Ttls = {1, 2}
  BridgeTtl = 1
  PageLimits = {1, 2}
  MaxContexts = {2}
  BridgeEnabled = TRUE
  Asked <- MCAsked
INVARIANTS CapacityBound
PROPERTIES QueuedLeavesQueue CancelTakesEffect NoRevival AbandonedLeaseFreesCapacity
\* Jobs are bounded and each token is acquired once, so the model comes to an end.
CHECK_DEADLOCK FALSE
