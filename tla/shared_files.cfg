\* Each of the shared files in turn; processes may die between two calls.
SPECIFICATION FilesSpec
CONSTANTS
  Process = {p1, p2, p3}
  Empty = Empty
  MaxFiles = 3
  Overlap = FALSE
  Runs = {r1, r2}
  Contents = {c1, c2}
  Engines = {v1, v2}
  MaxTime = 2
  MaxTaken = 2
  Bucket = 2
  Ttl = 1
  MaxAge = 1
  MaxBytes = 2
  Retention = {"age", "budget", "purge", "archive"}
  None = None
  Writers = {w1, w2}
  Tokens = {TRUE}
  MaxEntries = 3
  MaxEdits = 2
  MaxTasks = 4
  Commands = {k1, k2}
SYMMETRY Interchangeable
INVARIANTS HeldByOne ReplayedHonestly RetentionIsDue VerifiedIsComplete PointerNamesFirstOpen
PROPERTIES RefusedByHolderOnly CritiqueQueueDrains
CHECK_DEADLOCK FALSE
