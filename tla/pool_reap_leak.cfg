\* A lease falls overdue while its owner (or a listing) looks at it first.
SPECIFICATION ReapedSpec
CONSTANTS
  Token = {t1, t2}
  Call = {c1, c2}
  Page = {c1, c2}
  k1 = k1
  Key = {k1}
  NoKey = NoKey
  NoCall = NoCall
  NoToken = NoToken
  Foreign = Foreign
  Releaser = {}
  MaxLaunches = 1
  Ttls = {1}
  BridgeTtl = 1
  PageLimits = {1}
  MaxContexts = {}
  BridgeEnabled = FALSE
  Asked <- MCStored
  Modes <- MCQuiet
PROPERTIES ReapCloses
CHECK_DEADLOCK FALSE
