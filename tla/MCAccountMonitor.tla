--------------------------- MODULE MCAccountMonitor ---------------------------
(* Two workers of one process, or of two, and one schedule cycle.          *)
EXTENDS AccountMonitor, TLC

CONSTANTS w1, w2

Conf(schedule, keepAlive, report, pool, one) ==
  [schedule |-> schedule, keepAlive |-> keepAlive, stopOnThreshold |-> one,
   report |-> report, pool |-> pool, oneProcess |-> one]

\* In one process, with the threshold policy: kept alive and reported, kept alive in
\* a pool, scheduled and kept alive, scheduled.
MCOneProcess ==
  {Conf(FALSE, TRUE, TRUE, FALSE, TRUE), Conf(FALSE, TRUE, FALSE, TRUE, TRUE),
   Conf(TRUE, TRUE, FALSE, FALSE, TRUE), Conf(TRUE, FALSE, FALSE, FALSE, TRUE)}

\* In two processes: scheduled or kept alive.
MCTwoProcesses ==
  {Conf(TRUE, FALSE, FALSE, FALSE, FALSE), Conf(FALSE, TRUE, FALSE, FALSE, FALSE)}

MCCycle == [s \in 1..LastSlot |-> 1]

MCSymmetry == Permutations({w1, w2})
=============================================================================
