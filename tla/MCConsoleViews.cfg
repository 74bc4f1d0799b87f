SPECIFICATION Spec
CONSTANTS
  A = A
  hz = hz
  hk = hk
  q1 = q1
  q2 = q2
  NoKey = NoKey
  Mainland = {hz}
  ChinaQuota = 2
  AbroadQuota = 3
  NoQuery = NoQuery
  Query = {q1, q2}
  Listing <- MCListing
  Drafted <- MCDrafted
  MaxAccounts = 3
  MaxPages = 2
  MaxLoads = 5
  Hours = 3
  Minutes = 4
  PageStep = 2
  Options <- MCOptions
  Text = {"all", "some", "one", "none"}
  Matches <- MCMatches
  NoText = "all"
  NoTime = NoTime
  Zone <- MCZone
  Instant <- MCInstant
  Sampled <- MCSampled
  HourSlots = 4
  DaySlots = 4
  PoolKeys = {A}
  PoolRegions = {hz, hk}
  PoolAccounts <- MCPoolAccounts
  Usage <- MCUsage
  Months <- MCMonths
  FreshFor = 0
  CacheFor = 1
  MaxRun = 1
  MaxMoves = 1
INVARIANTS
  WizardShowsQuery
  PopupsHold
  TimelineShows
  OverviewTrue
CHECK_DEADLOCK FALSE
