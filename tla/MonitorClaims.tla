---------------------------- MODULE MonitorClaims ----------------------------
(* AccountMonitor with a history variable, for a claim of the design       *)
(* document that needs one: which scheduled actions the cloud has carried  *)
(* out.                                                                    *)
EXTENDS AccountMonitor

VARIABLE carried   \* keys of scheduled actions that had their effect

\* The step in which the cloud begins to carry out worker w's scheduled action.
Obeys(w) == At(w, "call") /\ run[w].why = "schedule" /\ ~At(w, "call")' /\ cloud' # cloud

ClaimInit == Init /\ carried = {}

ClaimNext ==
  /\ Next
  /\ carried' = carried \cup {KeyOf(run[w]) : w \in {v \in Worker : Obeys(v)}}

ClaimSpec == ClaimInit /\ [][ClaimNext]_<<vars, carried>>

\* "The same schedule or threshold event is executed at most once under restarts,
\* retries and several instances", says the design; but an answer that got lost
\* counts as a failure, and the retry acts again.
ExecutedAtMostOnce ==
  [][\A w \in Worker : Obeys(w) => KeyOf(run[w]) \notin carried]_<<vars, carried>>

=============================================================================
