----------------------------- MODULE MCJobQueue -----------------------------
(* An instance of JobQueue for TLC: two processes that share the database, *)
(* a worker in each, and two rows for jobs asked for under a monitor key,  *)
(* a control key, or none.                                                 *)
EXTENDS JobQueue, TLC

CONSTANTS p1, p2, w1, w2, acc, mon, ctl, test, mail

MCProc == {p1, p2}
MCWorker == {w1, w2}
MCHome == (w1 :> p1) @@ (w2 :> p2)
MCAccountOf == [k \in {mon, ctl, mail} |-> IF k = mail THEN NoAccount ELSE acc]
MCBackoff == [a \in 1..6 |-> 1]

\* The processes may be exchanged, with their workers.
MCSymmetry == {(p1 :> p2) @@ (p2 :> p1) @@ (w1 :> w2) @@ (w2 :> w1)}

\* The liveness instance: one key, of a scheduled report, which needs no account.
MCNoAccountOf == [k \in {ctl, test, mail} |-> NoAccount]
=============================================================================
