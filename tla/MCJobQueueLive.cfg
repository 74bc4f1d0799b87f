SPECIFICATION FairSpec
CONSTANTS
  p1 = p1
  p2 = p2
  w1 = w1
  w2 = w2
  acc = acc
  mon = mon
  ctl = ctl
  test = test
  mail = mail
  Job = {1, 2}
  Proc <- MCProc
  Worker <- MCWorker
  Home <- MCHome
  NoJob = NoJob
  MonitorKey = {}
  OtherKey = {ctl}
  Unkeyed = {test, mail}
  Mail = {mail}
  NoKey = NoKey
  AccountOf <- MCNoAccountOf
  Account = {}
  NoAccount = NoAccount
  MaxAttempts = 2
  Backoff <- MCBackoff
  JobTimeout = 1
  RecoverAfter = 1
  MaxInterrupts = 1
PROPERTIES
  KeyFreed
CHECK_DEADLOCK FALSE
