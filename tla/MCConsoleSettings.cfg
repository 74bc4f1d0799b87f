SPECIFICATION Spec
CONSTANTS
  A = A
  B = B
  hz = hz
  hk = hk
  i1 = i1
  i2 = i2
  Key = {A, B}
  Region = {hz, hk}
  Mainland = {hz}
  HongKong = hk
  Inst = {i1, i2}
  NoKey = NoKey
  NoInst = NoInst
  NoSecret = NoSecret
  ChinaQuota = 2
  AbroadQuota = 3
  Typed = {5}
  Stored <- MCStored
  Discovered <- MCDiscovered
  MaxAccounts = 3
  MaxEdits = 2
  MaxSaves = 2
INVARIANTS
  TypeOK
  QuotasShared
  ConfigAgrees
  ActsOnShown
PROPERTIES
  StoresEveryEntry
  SecretsFit
CHECK_DEADLOCK FALSE
