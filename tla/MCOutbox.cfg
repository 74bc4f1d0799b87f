SPECIFICATION FairSpec
CONSTANTS
  Event = {e1}
  Channel = {email, webhook}
  Mail = {email}
  Proc = {p1, p2}
  NoRow = NoRow
  MaxAttempts = 2
  Backoff <- MCBackoff
  SendTimeout = 1
  RecoverAfter = 1
  MaxFaults = 1
INVARIANTS
  TypeOK
  OneSender
  SentArrived
  RepeatsExplained
  BudgetUsed
PROPERTIES
  KeepsPromise
  Settled
CHECK_DEADLOCK FALSE
