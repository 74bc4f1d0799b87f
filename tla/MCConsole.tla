------------------------------- MODULE MCConsole -------------------------------
(* One account, whose instance is stopped by hand, then kept alive.        *)
EXTENDS Console

CONSTANT acct

Is(status, keep) == [x \in Account |-> [status |-> status, keep |-> keep]]

MCContent == <<Is("Running", FALSE), Is("Running", TRUE), Is("Stopped", FALSE)>>
=============================================================================
