SPECIFICATION Spec
CONSTANTS
  w1 = w1
  w2 = w2
  Worker = {w1, w2}
  Confs <- MCTwoProcesses
  LastSlot = 2
  StartDue = {1, 2}
  StopDue = {2}
  Running = {1}
  Cycle <- MCCycle
  MaxFaults = 1
  Busy = FALSE
SYMMETRY MCSymmetry
INVARIANTS
  OneCallPerKey
  KeysTellCalls
