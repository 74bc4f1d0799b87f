SPECIFICATION Spec
CONSTANTS
  w1 = w1
  w2 = w2
  Worker = {w1, w2}
  Confs <- MCOneProcess
  LastSlot = 2
  StartDue = {1, 2}
  StopDue = {2}
  Running = {1}
  Cycle <- MCCycle
  MaxFaults = 2
  Busy = TRUE
INVARIANTS
  ScheduleMadeUpFor
