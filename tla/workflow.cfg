\* Four ways to run; an abort, an error and an expiry at any point of each.
SPECIFICATION FairSpec
CONSTANTS
  Options <- MCOptions
INVARIANTS NothingLeftOpen OwnClaimsStand AbortHonoured
PROPERTIES CancelSettles
\* A run ends.
CHECK_DEADLOCK FALSE
