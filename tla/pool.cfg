\* Calls on one lease are awaited while the browser crashes and the farm shuts
\* down, or overlap freely while closing a context may fail.
SPECIFICATION PoolSpec
CONSTANTS
  Token = {t1, t2}
  Call = {c1, c2}
  Page = {c1, c2}
  k1 = k1
  Key = {k1}
  NoKey = NoKey
  NoCall = NoCall
  NoToken = NoToken
  Foreign = Foreign
  Releaser = {r1}
  MaxLaunches = 2
  Ttls = {1}
  BridgeTtl = 1
  PageLimits = {1, 2}
  MaxContexts = {}
  BridgeEnabled = FALSE
  Asked <- MCAsked
  Modes <- MCModes
SYMMETRY Interchangeable
INVARIANTS ProfileExclusive NothingOutOfReach OrderlyReleaseCloses LocksBacked
CHECK_DEADLOCK FALSE
