SPECIFICATION FairSpec
CONSTANTS
  Event = {e1}
  Channel = {email, webhook}
  Mail = {email}
  Proc = {p1}
  NoRow = NoRow
  MaxAttempts = 2
  Backoff <- MCBackoff
  SendTimeout = 1
  RecoverAfter = 1
  MaxFaults = 1
PROPERTIES
  CallsEnd
CHECK_DEADLOCK FALSE
