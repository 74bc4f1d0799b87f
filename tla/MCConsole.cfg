SPECIFICATION Spec
CONSTANTS
  acct = acct
  All = All
  LoadRead = LoadRead
  PollRead = PollRead
  Account = {acct}
  Content <- MCContent
  MaxMounts = 2
  MaxRuns = 1
INVARIANTS
  TypeOK
PROPERTIES
  RefreshShows
  ActionFits
  NoSurpriseLogout
  CatchesUp
  LeavesDeadSession
  BusyEnds
CHECK_DEADLOCK FALSE
