\* Two live processes acquire the lock of the same profile at once.
SPECIFICATION LockSpec
CONSTANTS
  Process = {p1, p2}
  Empty = Empty
  MaxFiles = 3
  Overlap = TRUE
INVARIANTS Exclusive
CHECK_DEADLOCK FALSE
