\* Each of the planners in turn, on small pages, films and vaults.
INIT PlanningInit
NEXT PlanningNext
CONSTANTS
  Requests <- MCRequests
  Surfaces <- MCSurfaces
  Children <- MCChildren
  Aliases <- MCAliases
  Caps <- MCCaps
  Budgets <- MCBudgets
  TopKCeiling = 4
  Ledgers <- MCLedgers
  Walks <- MCWalks
  Contents <- MCContents
  TriagePath = {"t1", "t2", "t3"}
  Apostrophed = {"x'1"}
  Calls = {c1, c2}
  Intents <- MCIntents
  Pages <- MCPages
  Limits <- MCLimits
  MaxArtifacts = 2
  None = None
  Videos <- MCVideos
  Samplings <- MCSamplings
  MaxDistance = 4
  Media <- MCMedia
  MaxCount = 2
  MaxSingle = 3
  MaxTotal = 4
  MaxBundles = 1
  NoCapture = NoCapture
  Bridges <- MCBridges
  Missing = Missing
  Source <- MCSource
  ClaimForms <- MCClaims
  JudgmentForms <- MCJudgments
  Foreign <- MCForeign
  Extractions <- MCExtractions
  PublicSuffixes <- MCSuffixes
  ShingleSize = 2
  ScatterFloor = 3
  Lower <- MCLower
  MaxRows = 2
  RunDirs <- MCRunDirs
  FileBytes = {"x", "y"}
  TooLarge = {"large"}
  MaxEdits = 3
  Tasks <- MCTasks
  Site <- MCSite
  Screens <- MCScreens
  Answers <- MCAnswers
  MaxBytes = 4
  MaxRedirects = 2
  ApiTasks <- MCApiTasks
INVARIANTS VerdictsStand SelectsTheBest NextStepsAccounted RecoveryHandedOver FollowupsAccounted SamplingKeepsPromises MediaWithinPage VaultInOrder BundlesHold ComesByItHonestly ApiAsForetold
CHECK_DEADLOCK FALSE
