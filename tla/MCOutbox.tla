------------------------------- MODULE MCOutbox -------------------------------
(* An instance of Outbox for TLC: two processes share the database, and an *)
(* event goes out on a channel that heeds its context and by mail.         *)
EXTENDS Outbox

MCBackoff == [a \in 1..7 |-> 1]
=============================================================================
