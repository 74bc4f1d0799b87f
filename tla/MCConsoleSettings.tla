--------------------------- MODULE MCConsoleSettings ---------------------------
(* Two stored accounts of one key: in one pool, or in two with an instance *)
(* that has not been filled in.                                            *)
EXTENDS ConsoleSettings

CONSTANTS A, B, hz, hk, i1, i2

StoredRow(region, inst, quota) ==
  [live |-> TRUE, key |-> A, region |-> region, inst |-> inst, quota |-> quota, secret |-> A, schedule |-> FALSE]

MCStored == {<<StoredRow(hz, i1, 2), StoredRow(hz, i2, 2)>>,
             <<StoredRow(hz, i1, 2), StoredRow(hk, NoInst, 3)>>}

\* A stored instance, and one that is listed twice.
MCDiscovered == {<<[region |-> hz, inst |-> i1], [region |-> hk, inst |-> i1], [region |-> hk, inst |-> i1]>>}
=============================================================================
