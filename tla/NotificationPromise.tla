-------------------------- MODULE NotificationPromise --------------------------
(***************************************************************************)
(* What the notification outbox promises, without clocks, processes or     *)
(* retries.  A notification that was promised is owed until it is recorded *)
(* as sent or given up.  It reaches its receiver only while it is owed,    *)
(* and is recorded as sent only if it did.  It may reach it more than once.*)
(***************************************************************************)
EXTENDS Naturals

CONSTANT Row          \* the notifications: one event on one channel each

VARIABLES
  promise,            \* "none", "owed", "kept", "broken" or "forgotten"
  arrived             \* how often each has reached its receiver

vars == <<promise, arrived>>

Init ==
  /\ promise = [r \in Row |-> "none"]
  /\ arrived = [r \in Row |-> 0]

\* Notifications are promised together; those promised before are left alone.
Promise(S) ==
  /\ promise' = [r \in Row |-> IF r \in S /\ promise[r] = "none" THEN "owed" ELSE promise[r]]
  /\ UNCHANGED arrived

Arrive(r) ==
  /\ promise[r] = "owed"
  /\ arrived' = [arrived EXCEPT ![r] = @ + 1]
  /\ UNCHANGED promise

Keep(r) ==
  /\ promise[r] = "owed"
  /\ arrived[r] > 0
  /\ promise' = [promise EXCEPT ![r] = "kept"]
  /\ UNCHANGED arrived

Break(r) ==
  /\ promise[r] = "owed"
  /\ promise' = [promise EXCEPT ![r] = "broken"]
  /\ UNCHANGED arrived

Forget(r) ==
  /\ promise[r] \in {"kept", "broken"}
  /\ promise' = [promise EXCEPT ![r] = "forgotten"]
  /\ UNCHANGED arrived

Next ==
  \/ \E S \in SUBSET Row : Promise(S)
  \/ \E r \in Row : Arrive(r) \/ Keep(r) \/ Break(r) \/ Forget(r)

Spec == Init /\ [][Next]_vars

=============================================================================
