\* A client releases its lease while its own openPage call is under way.
SPECIFICATION PoolSpec
CONSTANTS
  Token = {t1, t2}
  Call = {c1, c2}
  Page = {c1, c2}
  k1 = k1
  Key = {k1}
  NoKey = NoKey
  NoCall = NoCall
  NoToken = NoToken
  Foreign = Foreign
  Releaser = {r1}
  MaxLaunches = 1
  Ttls = {1}
  BridgeTtl = 1
  PageLimits = {1}
  MaxContexts = {}
  BridgeEnabled = FALSE
  Asked <- MCStored
  Modes <- MCOverlapping
INVARIANTS ReleaseCloses
CHECK_DEADLOCK FALSE
