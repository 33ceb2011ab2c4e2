\* A retention command removes the run that another run is about to replay.
SPECIFICATION StoreSpec
CONSTANTS
  Runs = {r1}
  Contents = {c1}
  Engines = {v1}
  MaxTime = 1
  MaxTaken = 1
  Bucket = 2
  Ttl = 1
  MaxAge = 1
  MaxBytes = 2
  Retention = {"age", "budget", "purge", "archive"}
  None = None
INVARIANTS MissIsNoFailure
CHECK_DEADLOCK FALSE
