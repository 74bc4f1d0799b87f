----------------------------- MODULE OutboxProofs -----------------------------
(***************************************************************************)
(* Proofs about Outbox, for every set of events, channels and processes    *)
(* and every timeout: the inductive invariant IInv, the safety properties  *)
(* it implies, and the refinement of NotificationPromise.                  *)
(***************************************************************************)
EXTENDS Outbox, TLAPS

\* What the sender of process p knows of its row, as long as the send heeds its
\* context.  The row's lock is exactly as old as the send, so that recovery,
\* which goes by the age, spares it.
Current(p) ==
  /\ status[item[p]] = "sending"
  /\ attempts[item[p]] = copy[p]
  /\ age[item[p]] = held[p]
  /\ held[p] <= SendTimeout

SenderInv ==
  \A p \in Proc :
    /\ item[p] = NoRow => held[p] = 0 /\ answer[p] = "none"
    /\ item[p] # NoRow =>
         /\ status[item[p]] # "none"
         /\ copy[p] > 0
         /\ Bounded(item[p]) => Current(p)
         /\ answer[p] \in {"reached", "ok"} => arrived[item[p]] > 0

\* No two processes send the same message, unless it is a mail.
OneInv ==
  \A p, q \in Proc : (item[p] # NoRow /\ Bounded(item[p]) /\ item[p] = item[q]) => p = q

\* Process p has the message of row r delivered, and not yet recorded how.
Done(p, r) == item[p] = r /\ answer[p] \in {"reached", "ok"}

\* Until it is recorded as sent, a message that arrived and is not in the hands
\* of a sender which knows that has a lost answer or an interruption for it.
RepeatInv ==
  \A r \in Row : Bounded(r) =>
    /\ arrived[r] <= 1 + lost[r] + interrupted[r]
    /\ (status[r] \notin {"sent", "pruned"} /\ \A p \in Proc : ~Done(p, r)) =>
         arrived[r] <= lost[r] + interrupted[r]

\* A send that may still be started has an attempt, or an interruption, left.
BudgetInv ==
  \A r \in Row :
    /\ status[r] = "none" => attempts[r] = 0
    /\ Bounded(r) =>
         /\ attempts[r] <= MaxAttempts + interrupted[r]
         /\ status[r] = "queued" => attempts[r] < MaxAttempts + interrupted[r]
         /\ (status[r] = "sending" /\ \A p \in Proc : item[p] # r) =>
              attempts[r] < MaxAttempts + interrupted[r]
         /\ status[r] = "failed" => attempts[r] >= MaxAttempts

IInv == TypeOK /\ SenderInv /\ OneInv /\ SentArrived /\ RepeatInv /\ BudgetInv

-----------------------------------------------------------------------------

LEMMA DelayType == \A a \in Nat \ {0} : Delay(a) \in Nat
  BY OutboxAssumption, SMT DEF Delay

LEMMA InitIInv == Init => IInv
  BY OutboxAssumption
  DEF Init, IInv, TypeOK, SenderInv, OneInv, SentArrived, RepeatInv, BudgetInv, Statuses

-----------------------------------------------------------------------------
(* Every action preserves the invariant.                                   *)

LEMMA AddIInv ==
  ASSUME IInv, NEW e \in Event, AddOutbox(e)
  PROVE  IInv'
<1> USE DEF IInv
<1>1. PICK S \in SUBSET Row, c \in Ranks :
        /\ \A r \in S : status[r] = "none"
        /\ status' = [r \in Row |-> IF r \in S THEN "queued" ELSE status[r]]
        /\ created' = [r \in Row |-> IF r \in S THEN c ELSE created[r]]
  <2>1. PICK C \in SUBSET Channel, c \in Ranks :
          LET new == {r \in {e} \X C : status[r] = "none"}
          IN  /\ status' = [r \in Row |-> IF r \in new THEN "queued" ELSE status[r]]
              /\ created' = [r \in Row |-> IF r \in new THEN c ELSE created[r]]
    BY DEF AddOutbox
  <2> DEFINE new == {r \in {e} \X C : status[r] = "none"}
  <2>2. new \subseteq Row
    BY DEF Row
  <2> QED
    BY <2>1, <2>2
<1>2. UNCHANGED <<attempts, wait, age, up, item, copy, held, answer, arrived, lost, interrupted>>
  BY DEF AddOutbox, sendVars, histVars
<1>3. TypeOK'
  <2>1. c \in Nat
    BY DEF Ranks, Newest, Present, TypeOK
  <2> QED
    BY <1>1, <1>2, <2>1 DEF TypeOK, Statuses
<1>4. \A p \in Proc : item[p] # NoRow => item[p] \in Row \ S
  BY <1>1 DEF TypeOK, SenderInv
<1>5. SenderInv'
  BY <1>1, <1>2, <1>4 DEF SenderInv, Current
<1>6. OneInv'
  BY <1>2 DEF OneInv
<1>7. SentArrived'
  BY <1>1, <1>2 DEF SentArrived
<1>8. RepeatInv'
  BY <1>1, <1>2 DEF RepeatInv, Done
<1>9. BudgetInv'
  BY <1>1, <1>2, OutboxAssumption DEF TypeOK, BudgetInv
<1> QED
  BY <1>3, <1>5, <1>6, <1>7, <1>8, <1>9

LEMMA ClaimIInv ==
  ASSUME IInv, NEW p \in Proc, NEW r \in Row, Claim(p, r)
  PROVE  IInv'
<1> USE OutboxAssumption DEF IInv, TypeOK, Claim, histVars
<1>1. status[r] = "queued"
  BY DEF Oldest, Due
<1>2. \A q \in Proc : item[q] = r => ~Bounded(r)
  BY <1>1 DEF SenderInv, Current
<1>3. TypeOK'
  BY DEF Statuses
<1>4. SenderInv'
  <2> SUFFICES ASSUME NEW q \in Proc
               PROVE  /\ item'[q] = NoRow => held'[q] = 0 /\ answer'[q] = "none"
                      /\ item'[q] # NoRow =>
                           /\ status'[item'[q]] # "none"
                           /\ copy'[q] > 0
                           /\ Bounded(item[q])' => Current(q)'
                           /\ answer'[q] \in {"reached", "ok"} => arrived'[item'[q]] > 0
    BY DEF SenderInv
  <2>1. CASE q = p
    BY <2>1 DEF SenderInv, Current
  <2>2. CASE q # p
    <3>1. /\ item'[q] = item[q] /\ copy'[q] = copy[q] /\ held'[q] = held[q]
          /\ answer'[q] = answer[q] /\ item[q] \in Row \cup {NoRow}
      BY <2>2
    <3>2. CASE item[q] = r
      BY <3>1, <3>2, <1>2 DEF SenderInv, Bounded
    <3>3. CASE item[q] # r
      BY <3>1, <3>3 DEF SenderInv, Current, Bounded
    <3> QED
      BY <3>2, <3>3
  <2> QED
    BY <2>1, <2>2
<1>5. OneInv'
  BY <1>2 DEF OneInv
<1>6. SentArrived'
  BY DEF SentArrived
<1>7. RepeatInv'
  <2>1. \A q \in Proc, s \in Row : Done(q, s) => Done(q, s)'
    BY DEF Done, SenderInv
  <2> QED
    BY <1>1, <2>1 DEF RepeatInv
<1>8. BudgetInv'
  BY <1>1, <1>2 DEF BudgetInv
<1> QED
  BY <1>3, <1>4, <1>5, <1>6, <1>7, <1>8

-----------------------------------------------------------------------------
(* The send and its answer.                                                *)

LEMMA ReachIInv ==
  ASSUME IInv, NEW p \in Proc, Reach(p)
  PROVE  IInv'
<1> USE OutboxAssumption DEF IInv, TypeOK, Reach, rowVars
<1>1. item[p] \in Row /\ (Bounded(item[p]) => status[item[p]] = "sending")
  BY DEF SenderInv, Current
<1>2. \A q \in Proc : q # p /\ Bounded(item[p]) => item[q] # item[p]
  BY DEF OneInv
<1>3. TypeOK'
  BY <1>1
<1>4. SenderInv'
  BY <1>1 DEF SenderInv, Current
<1>5. OneInv'
  BY DEF OneInv
<1>6. SentArrived'
  BY <1>1 DEF SentArrived
<1>7. RepeatInv'
  BY <1>1, <1>2 DEF RepeatInv, Done
<1>8. BudgetInv'
  BY DEF BudgetInv
<1> QED
  BY <1>3, <1>4, <1>5, <1>6, <1>7, <1>8

LEMMA SucceedIInv ==
  ASSUME IInv, NEW p \in Proc, Succeed(p)
  PROVE  IInv'
<1> USE OutboxAssumption DEF IInv, TypeOK, Succeed, rowVars, histVars
<1>1. TypeOK' /\ SentArrived' /\ OneInv' /\ BudgetInv'
  BY DEF SentArrived, OneInv, BudgetInv
<1>2. SenderInv'
  BY DEF SenderInv, Current
<1>3. RepeatInv'
  BY DEF RepeatInv, Done
<1> QED
  BY <1>1, <1>2, <1>3

LEMMA ErrIInv ==
  ASSUME IInv, NEW p \in Proc, Err(p)
  PROVE  IInv'
<1> USE OutboxAssumption DEF IInv, TypeOK, Err, rowVars
<1>1. item[p] \in Row
  OBVIOUS
<1>2. TypeOK'
  BY <1>1
<1>3. SentArrived' /\ OneInv' /\ BudgetInv'
  BY DEF SentArrived, OneInv, BudgetInv
<1>4. SenderInv'
  BY DEF SenderInv, Current
<1>5. RepeatInv'
  BY <1>1 DEF RepeatInv, Done, OneInv
<1> QED
  BY <1>2, <1>3, <1>4, <1>5

-----------------------------------------------------------------------------
(* The statements that record the outcome.                                 *)

\* Once the sender of process p is released, the others hold what they held.
LEMMA ReleaseSenders ==
  ASSUME IInv, NEW p \in Proc, item[p] # NoRow, Release(p), UNCHANGED <<attempts, arrived>>,
         \A r \in Row : status'[r] = "none" => status[r] = "none",
         \A r \in Row \ {item[p]} : status'[r] = status[r] /\ age'[r] = age[r]
  PROVE  /\ SenderInv' /\ OneInv'
         /\ Bounded(item[p]) => \A q \in Proc : item'[q] # item[p]
         /\ \A q \in Proc, r \in Row \ {item[p]} : Done(q, r)' <=> Done(q, r)
<1> USE OutboxAssumption DEF IInv, TypeOK, Release
<1>1. \A q \in Proc : q # p =>
        item'[q] = item[q] /\ copy'[q] = copy[q] /\ held'[q] = held[q] /\ answer'[q] = answer[q]
  OBVIOUS
<1>2. item'[p] = NoRow /\ held'[p] = 0 /\ answer'[p] = "none" /\ item[p] \in Row
  OBVIOUS
<1>3. Bounded(item[p]) => \A q \in Proc : item'[q] # item[p]
  BY <1>1, <1>2 DEF OneInv
<1>4. SenderInv'
  <2> SUFFICES ASSUME NEW q \in Proc
               PROVE  /\ item'[q] = NoRow => held'[q] = 0 /\ answer'[q] = "none"
                      /\ item'[q] # NoRow =>
                           /\ status'[item'[q]] # "none"
                           /\ copy'[q] > 0
                           /\ Bounded(item[q])' => Current(q)'
                           /\ answer'[q] \in {"reached", "ok"} => arrived'[item'[q]] > 0
    BY DEF SenderInv
  <2>1. CASE q = p
    BY <2>1, <1>2
  <2>2. CASE q # p /\ item[q] = NoRow
    BY <2>2, <1>1 DEF SenderInv
  <2>3. CASE q # p /\ item[q] # NoRow
    <3>1. /\ item'[q] = item[q] /\ copy'[q] = copy[q] /\ held'[q] = held[q]
          /\ answer'[q] = answer[q] /\ item[q] \in Row
      BY <2>3, <1>1
    <3>2. /\ status[item[q]] # "none" /\ copy[q] > 0
          /\ Bounded(item[q]) => Current(q)
          /\ answer[q] \in {"reached", "ok"} => arrived[item[q]] > 0
      BY <2>3 DEF SenderInv
    <3>3. Bounded(item[q]) => status'[item[q]] = status[item[q]] /\ age'[item[q]] = age[item[q]]
      BY <2>3, <3>1 DEF OneInv
    <3> QED
      BY <3>1, <3>2, <3>3 DEF Current, Bounded
  <2> QED
    BY <2>1, <2>2, <2>3
<1>5. OneInv'
  BY <1>1, <1>2 DEF OneInv
<1>6. \A q \in Proc, r \in Row \ {item[p]} : Done(q, r)' <=> Done(q, r)
  BY <1>1, <1>2 DEF Done
<1> QED
  BY <1>3, <1>4, <1>5, <1>6

LEMMA CompleteIInv ==
  ASSUME IInv, NEW p \in Proc, Complete(p)
  PROVE  IInv'
<1> USE OutboxAssumption DEF IInv, TypeOK, Complete, EndAs, histVars
<1>1. /\ item[p] # NoRow /\ item[p] \in Row
      /\ Bounded(item[p]) => status[item[p]] = "sending"
      /\ arrived[item[p]] > 0
  BY DEF SenderInv, Current
<1>2. TypeOK'
  BY <1>1 DEF Release, Statuses
<1>3. /\ SenderInv' /\ OneInv'
      /\ Bounded(item[p]) => \A q \in Proc : item'[q] # item[p]
      /\ \A q \in Proc, r \in Row \ {item[p]} : Done(q, r)' <=> Done(q, r)
  BY <1>1, ReleaseSenders
<1>4. SentArrived'
  BY <1>1 DEF SentArrived
<1>5. RepeatInv'
  BY <1>1, <1>3 DEF RepeatInv
<1>6. BudgetInv'
  BY <1>1, <1>3 DEF BudgetInv, Release
<1> QED
  BY <1>2, <1>3, <1>4, <1>5, <1>6

LEMMA FailRetryIInv ==
  ASSUME IInv, NEW p \in Proc, FailRetry(p)
  PROVE  IInv'
<1> USE OutboxAssumption DEF IInv, TypeOK, FailRetry, EndAs, histVars
<1>1. /\ item[p] # NoRow /\ item[p] \in Row /\ copy[p] > 0
      /\ Bounded(item[p]) => status[item[p]] = "sending" /\ attempts[item[p]] = copy[p]
  BY DEF SenderInv, Current
<1>2. TypeOK'
  <2>1. wait' \in [Row -> Nat]
    BY <1>1, DelayType
  <2> QED
    BY <1>1, <2>1 DEF Release, Statuses
<1>3. /\ SenderInv' /\ OneInv'
      /\ Bounded(item[p]) => \A q \in Proc : item'[q] # item[p]
      /\ \A q \in Proc, r \in Row \ {item[p]} : Done(q, r)' <=> Done(q, r)
  BY <1>1, ReleaseSenders
<1>4. SentArrived'
  BY <1>1 DEF SentArrived
<1>5. RepeatInv'
  <2>1. Bounded(item[p]) => \A q \in Proc : ~Done(q, item[p])
    BY <1>1 DEF Done, OneInv
  <2> QED
    BY <1>1, <1>3, <2>1 DEF RepeatInv
<1>6. BudgetInv'
  BY <1>1, <1>3 DEF BudgetInv, Release
<1> QED
  BY <1>2, <1>3, <1>4, <1>5, <1>6

LEMMA FailFinalIInv ==
  ASSUME IInv, NEW p \in Proc, FailFinal(p)
  PROVE  IInv'
<1> USE OutboxAssumption DEF IInv, TypeOK, FailFinal, EndAs, histVars
<1>1. /\ item[p] # NoRow /\ item[p] \in Row
      /\ Bounded(item[p]) => status[item[p]] = "sending" /\ attempts[item[p]] = copy[p]
  BY DEF SenderInv, Current
<1>2. TypeOK'
  BY <1>1 DEF Release, Statuses
<1>3. /\ SenderInv' /\ OneInv'
      /\ Bounded(item[p]) => \A q \in Proc : item'[q] # item[p]
      /\ \A q \in Proc, r \in Row \ {item[p]} : Done(q, r)' <=> Done(q, r)
  BY <1>1, ReleaseSenders
<1>4. SentArrived'
  BY <1>1 DEF SentArrived
<1>5. RepeatInv'
  <2>1. Bounded(item[p]) => \A q \in Proc : ~Done(q, item[p])
    BY <1>1 DEF Done, OneInv
  <2> QED
    BY <1>1, <1>3, <2>1 DEF RepeatInv
<1>6. BudgetInv'
  BY <1>1, <1>3 DEF BudgetInv, Release
<1> QED
  BY <1>2, <1>3, <1>4, <1>5, <1>6

LEMMA EndLostIInv ==
  ASSUME IInv, NEW p \in Proc, EndLost(p)
  PROVE  IInv'
<1> USE OutboxAssumption DEF IInv, TypeOK, EndLost, rowVars
<1>1. item[p] # NoRow /\ item[p] \in Row /\ (Bounded(item[p]) => status[item[p]] = "sending")
  BY DEF SenderInv, Current
<1>2. \A r \in Row : interrupted'[r] \in Nat /\ interrupted'[r] >= interrupted[r]
      /\ (r = item[p] => interrupted'[r] = interrupted[r] + 1)
  BY <1>1
<1>3. TypeOK'
  <2>1. interrupted' \in [Row -> Nat]
    BY <1>2
  <2> QED
    BY <2>1 DEF Release
<1>4. /\ SenderInv' /\ OneInv'
      /\ Bounded(item[p]) => \A q \in Proc : item'[q] # item[p]
      /\ \A q \in Proc, r \in Row \ {item[p]} : Done(q, r)' <=> Done(q, r)
  BY <1>1, ReleaseSenders
<1>5. SentArrived'
  BY DEF SentArrived
<1>6. RepeatInv'
  BY <1>1, <1>2, <1>4 DEF RepeatInv
<1>7. BudgetInv'
  BY <1>1, <1>2 DEF BudgetInv, Release
<1> QED
  BY <1>3, <1>4, <1>5, <1>6, <1>7

-----------------------------------------------------------------------------
(* Processes, time and retention.                                          *)

\* Recovery leaves a row alone that is being sent, unless the sender hangs.
LEMMA HeldNotRecoverable ==
  ASSUME IInv, NEW p \in Proc, item[p] # NoRow, Bounded(item[p])
  PROVE  ~Recoverable(item[p])
<1>1. age[item[p]] <= SendTimeout /\ age[item[p]] \in Nat
  BY OutboxAssumption DEF IInv, TypeOK, SenderInv, Current
<1> QED
  BY <1>1, OutboxAssumption, SendAssumption DEF Recoverable

LEMMA OpenIInv ==
  ASSUME IInv, NEW p \in Proc, Open(p)
  PROVE  IInv'
<1> DEFINE taken == {r \in HeldRows : Recoverable(r)}
<1>1. \A r \in Row : Recoverable(r) => status[r] = "sending"
  BY DEF Recoverable
<1>2. \A q \in Proc : (item[q] # NoRow /\ Bounded(item[q])) => ~Recoverable(item[q])
  BY HeldNotRecoverable
<1>3. /\ up' = up \cup {p}
      /\ status' = [r \in Row |-> IF Recoverable(r) THEN "queued" ELSE status[r]]
      /\ wait' = [r \in Row |-> IF Recoverable(r) THEN 0 ELSE wait[r]]
      /\ age' = [r \in Row |-> IF Recoverable(r) THEN 0 ELSE age[r]]
      /\ interrupted' = [r \in Row |-> interrupted[r] + (IF r \in taken THEN 1 ELSE 0)]
      /\ UNCHANGED <<attempts, created, item, copy, held, answer, arrived, lost>>
  BY DEF Open, sendVars
<1>4. \A r \in Row : interrupted'[r] \in Nat /\ interrupted'[r] >= interrupted[r]
  <2> HIDE DEF taken
  <2> QED
    BY <1>3 DEF IInv, TypeOK
<1> HIDE DEF taken
<1>5. TypeOK'
  <2>1. interrupted' \in [Row -> Nat]
    BY <1>3, <1>4
  <2> QED
    BY <1>3, <2>1 DEF IInv, TypeOK, Statuses
<1>6. SenderInv'
  <2>1. \A q \in Proc : item[q] # NoRow => item[q] \in Row
    BY DEF IInv, TypeOK
  <2> QED
    BY <1>2, <1>3, <2>1 DEF IInv, SenderInv, Current
<1>7. OneInv' /\ SentArrived'
  BY <1>3 DEF IInv, OneInv, SentArrived
<1>8. RepeatInv'
  BY <1>1, <1>3, <1>4, OutboxAssumption DEF IInv, TypeOK, RepeatInv, Done
<1>9. BudgetInv'
  BY <1>1, <1>2, <1>3, <1>4, OutboxAssumption DEF IInv, TypeOK, BudgetInv
<1> QED
  BY <1>5, <1>6, <1>7, <1>8, <1>9 DEF IInv

LEMMA StopIInv ==
  ASSUME IInv, NEW p \in Proc, Stop(p)
  PROVE  IInv'
<1> USE OutboxAssumption DEF IInv, TypeOK, rowVars
<1>1. /\ UNCHANGED <<status, attempts, wait, age, created, arrived, lost>>
      /\ up' \subseteq Proc
      /\ item' = [item EXCEPT ![p] = NoRow]
      /\ copy' = [copy EXCEPT ![p] = 0]
      /\ held' = [held EXCEPT ![p] = 0]
      /\ answer' = [answer EXCEPT ![p] = "none"]
  BY DEF Stop
<1>2. \A r \in Row : interrupted'[r] \in Nat /\ interrupted'[r] >= interrupted[r]
      /\ (r = item[p] => interrupted'[r] = interrupted[r] + 1)
  BY DEF Stop
<1>3. interrupted' \in [Row -> Nat]
  BY DEF Stop
<1>4. TypeOK'
  BY <1>1, <1>3
<1>5. \A q \in Proc \ {p} : /\ item'[q] = item[q] /\ copy'[q] = copy[q]
                            /\ held'[q] = held[q] /\ answer'[q] = answer[q]
  BY <1>1
<1>6. item'[p] = NoRow /\ held'[p] = 0 /\ answer'[p] = "none"
  BY <1>1
<1>7. SenderInv'
  BY <1>1, <1>5, <1>6 DEF SenderInv, Current
<1>8. OneInv' /\ SentArrived'
  BY <1>1, <1>5, <1>6 DEF OneInv, SentArrived
<1>9. RepeatInv'
  BY <1>1, <1>2, <1>5 DEF RepeatInv, Done
<1>10. BudgetInv'
  BY <1>1, <1>2, <1>5 DEF BudgetInv
<1> QED
  BY <1>4, <1>7, <1>8, <1>9, <1>10

LEMMA TickIInv ==
  ASSUME IInv, Tick
  PROVE  IInv'
<1> USE OutboxAssumption DEF IInv, TypeOK, Tick, histVars
<1>1. TypeOK' /\ OneInv' /\ SentArrived' /\ BudgetInv'
  BY DEF OneInv, SentArrived, BudgetInv
<1>2. RepeatInv'
  BY DEF RepeatInv, Done
<1>3. SenderInv'
  <2> SUFFICES ASSUME NEW p \in Proc
               PROVE  /\ item[p] = NoRow => held'[p] = 0 /\ answer[p] = "none"
                      /\ item[p] # NoRow =>
                           /\ status[item[p]] # "none"
                           /\ copy[p] > 0
                           /\ Bounded(item[p]) => Current(p)'
                           /\ answer[p] \in {"reached", "ok"} => arrived[item[p]] > 0
    BY DEF SenderInv
  <2>1. item[p] = NoRow => held'[p] = 0
    BY DEF SenderInv, Busy
  <2>2. ASSUME item[p] # NoRow, Bounded(item[p]) PROVE Current(p)'
    <3>1. /\ item[p] \in Row /\ status[item[p]] = "sending"
          /\ attempts[item[p]] = copy[p] /\ age[item[p]] = held[p]
      BY <2>2 DEF SenderInv, Current
    <3>2. p \in Busy /\ held[p] < SendTimeout
      BY <2>2 DEF Timely, Busy
    <3>3. age[item[p]] <= RecoverAfter
      BY <3>1, <3>2, SendAssumption
    <3> QED
      BY <3>1, <3>2, <3>3 DEF Current
  <2> QED
    BY <2>1, <2>2 DEF SenderInv
<1> QED
  BY <1>1, <1>2, <1>3

LEMMA PruneIInv ==
  ASSUME IInv, NEW r \in Row, Prune(r)
  PROVE  IInv'
<1> USE OutboxAssumption DEF IInv, TypeOK, Prune, sendVars, histVars
<1>1. \A p \in Proc : (item[p] # NoRow /\ Bounded(item[p])) => item[p] # r
  BY DEF SenderInv, Current
<1>2. TypeOK' /\ OneInv' /\ SentArrived'
  BY DEF Statuses, OneInv, SentArrived
<1>3. SenderInv'
  BY <1>1 DEF SenderInv, Current
<1>4. RepeatInv'
  BY DEF RepeatInv, Done
<1>5. BudgetInv'
  BY DEF BudgetInv
<1> QED
  BY <1>2, <1>3, <1>4, <1>5

LEMMA NextIInv == IInv /\ [Next]_vars => IInv'
<1> SUFFICES ASSUME IInv, [Next]_vars PROVE IInv'
  OBVIOUS
<1>1. ASSUME NEW e \in Event, AddOutbox(e) PROVE IInv'
  BY <1>1, AddIInv
<1>2. ASSUME NEW p \in Proc, NEW r \in Row, Claim(p, r) PROVE IInv'
  BY <1>2, ClaimIInv
<1>3. ASSUME NEW p \in Proc, Reach(p) PROVE IInv'
  BY <1>3, ReachIInv
<1>4. ASSUME NEW p \in Proc, Succeed(p) PROVE IInv'
  BY <1>4, SucceedIInv
<1>5. ASSUME NEW p \in Proc, Err(p) PROVE IInv'
  BY <1>5, ErrIInv
<1>6. ASSUME NEW p \in Proc, Complete(p) PROVE IInv'
  BY <1>6, CompleteIInv
<1>7. ASSUME NEW p \in Proc, FailRetry(p) PROVE IInv'
  BY <1>7, FailRetryIInv
<1>8. ASSUME NEW p \in Proc, FailFinal(p) PROVE IInv'
  BY <1>8, FailFinalIInv
<1>9. ASSUME NEW p \in Proc, EndLost(p) PROVE IInv'
  BY <1>9, EndLostIInv
<1>10. ASSUME NEW p \in Proc, Open(p) PROVE IInv'
  BY <1>10, OpenIInv
<1>11. ASSUME NEW p \in Proc, Stop(p) PROVE IInv'
  BY <1>11, StopIInv
<1>12. ASSUME NEW r \in Row, Prune(r) PROVE IInv'
  BY <1>12, PruneIInv
<1>13. CASE Tick
  BY <1>13, TickIInv
<1>14. CASE UNCHANGED vars
  <2>1. TypeOK' /\ OneInv' /\ SentArrived' /\ BudgetInv'
    BY <1>14 DEF vars, IInv, TypeOK, OneInv, SentArrived, BudgetInv
  <2>2. SenderInv' /\ RepeatInv'
    BY <1>14 DEF vars, IInv, SenderInv, Current, RepeatInv, Done
  <2> QED
    BY <2>1, <2>2 DEF IInv
<1> QED
  BY <1>1, <1>2, <1>3, <1>4, <1>5, <1>6, <1>7, <1>8, <1>9, <1>10, <1>11, <1>12,
     <1>13, <1>14 DEF Next

LEMMA AlwaysIInv == Spec => []IInv
  BY InitIInv, NextIInv, PTL DEF Spec

-----------------------------------------------------------------------------
(* The safety properties.                                                  *)

\* Every variable keeps its type, whatever senders, processes and channels do.
THEOREM TypeCorrect == Spec => []TypeOK
<1>1. IInv => TypeOK
  BY DEF IInv
<1> QED
  BY <1>1, AlwaysIInv, PTL

\* No message but a mail is being sent by two processes, so that CompleteOutbox
\* and FailOutbox, which name a row by its id, write what their sender learned.
THEOREM NoSecondSender == Spec => []OneSender
<1>1. IInv => OneSender
  BY DEF IInv, OneInv, OneSender, Timely, Busy
<1> QED
  BY <1>1, AlwaysIInv, PTL

\* What is recorded as sent did arrive, on every channel and after every crash.
THEOREM SentIsTrue == Spec => []SentArrived
<1>1. IInv => SentArrived
  BY DEF IInv
<1> QED
  BY <1>1, AlwaysIInv, PTL

\* A message arrives again only for a lost answer or an interruption.
THEOREM RepeatsHaveCauses == Spec => []RepeatsExplained
<1>1. IInv => RepeatsExplained
  BY DEF IInv, RepeatInv, RepeatsExplained
<1> QED
  BY <1>1, AlwaysIInv, PTL

\* The budget of attempts is neither exceeded, interruptions apart, nor left unused
\* by a message that is given up.
THEOREM BudgetIsUsed == Spec => []BudgetUsed
<1>1. IInv => BudgetUsed
  BY DEF IInv, BudgetInv, BudgetUsed
<1> QED
  BY <1>1, AlwaysIInv, PTL

-----------------------------------------------------------------------------
(* The outbox keeps the promise.  Claims, retries, crashes and recovery are  *)
(* invisible there, and so is everything about mails.                        *)

LEMMA PromiseInit == Init => Promises!Init
  BY DEF Init, Promises!Init, Pledge, Arrivals, BoundedRow, Standing

\* A step that takes rows from queued to being sent or back is invisible.
LEMMA Unseen ==
  ASSUME UNCHANGED arrived,
         \A r \in BoundedRow : \/ status'[r] = status[r]
                               \/ {status[r], status'[r]} \subseteq {"queued", "sending"}
  PROVE  UNCHANGED <<Pledge, Arrivals>>
<1>1. \A r \in BoundedRow : Standing(status'[r]) = Standing(status[r])
  BY DEF Standing
<1> QED
  BY <1>1 DEF Pledge, Arrivals

\* The outcome of a row that is being sent settles the promise of it.
LEMMA EndSettles ==
  ASSUME IInv, NEW p \in Proc, item[p] # NoRow, NEW outcome \in {"sent", "failed"},
         EndAs(item[p], outcome), UNCHANGED arrived,
         outcome = "sent" => arrived[item[p]] > 0
  PROVE  Promises!Next \/ UNCHANGED <<Pledge, Arrivals>>
<1> DEFINE r == item[p]
<1>1. r \in Row /\ status \in [Row -> Statuses]
  BY DEF IInv, TypeOK
<1>2. status' = [status EXCEPT ![r] = IF @ = "pruned" THEN @ ELSE outcome]
  BY DEF EndAs
<1>3. CASE Bounded(r)
  <2>1. r \in BoundedRow /\ status[r] = "sending" /\ status'[r] = outcome
    BY <1>1, <1>2, <1>3 DEF BoundedRow, IInv, SenderInv, Current
  <2>2. \A s \in BoundedRow \ {r} : status'[s] = status[s]
    BY <1>1, <1>2 DEF BoundedRow
  <2>3. Pledge[r] = "owed" /\ Arrivals[r] = arrived[r] /\ UNCHANGED Arrivals
    BY <2>1 DEF Pledge, Arrivals, Standing
  <2>4. Pledge' = [Pledge EXCEPT ![r] = Standing(outcome)]
    BY <2>1, <2>2 DEF Pledge
  <2>5. CASE outcome = "sent"
    BY <2>1, <2>3, <2>4, <2>5 DEF Promises!Next, Promises!Keep, Standing
  <2>6. CASE outcome = "failed"
    BY <2>1, <2>3, <2>4, <2>6 DEF Promises!Next, Promises!Break, Standing
  <2> QED
    BY <2>5, <2>6
<1>4. CASE ~Bounded(r)
  <2>1. \A s \in BoundedRow : status'[s] = status[s]
    BY <1>1, <1>2, <1>4 DEF BoundedRow
  <2> QED
    BY <2>1, Unseen
<1> QED
  BY <1>3, <1>4

LEMMA PromiseNext == IInv /\ [Next]_vars => [Promises!Next]_(Promises!vars)
<1> SUFFICES ASSUME IInv, [Next]_vars PROVE Promises!Next \/ UNCHANGED <<Pledge, Arrivals>>
  BY DEF Promises!vars
<1>0. /\ status \in [Row -> Statuses] /\ arrived \in [Row -> Nat]
      /\ item \in [Proc -> Row \cup {NoRow}] /\ NoRow \notin Row
      /\ BoundedRow \subseteq Row
  BY OutboxAssumption DEF IInv, TypeOK, BoundedRow
<1>1. ASSUME NEW e \in Event, AddOutbox(e)
      PROVE  Promises!Next \/ UNCHANGED <<Pledge, Arrivals>>
  <2>1. PICK C \in SUBSET Channel :
          LET new == {r \in {e} \X C : status[r] = "none"}
          IN  status' = [r \in Row |-> IF r \in new THEN "queued" ELSE status[r]]
    BY <1>1 DEF AddOutbox
  <2> DEFINE S == {r \in BoundedRow : r \in {e} \X C /\ status[r] = "none"}
  <2>2. UNCHANGED Arrivals
    BY <1>1 DEF AddOutbox, histVars, Arrivals
  <2>3. \A r \in BoundedRow : status'[r] = IF r \in S THEN "queued" ELSE status[r]
    BY <1>0, <2>1
  <2>4. \A r \in S : Pledge[r] = "none"
    BY DEF Pledge, Standing
  <2>5. Pledge' = [r \in BoundedRow |->
                     IF r \in S /\ Pledge[r] = "none" THEN "owed" ELSE Pledge[r]]
    <3>1. \A r \in BoundedRow :
            Standing(status'[r]) = IF r \in S /\ Pledge[r] = "none" THEN "owed" ELSE Pledge[r]
      BY <2>3, <2>4 DEF Pledge, Standing
    <3> HIDE DEF S
    <3> QED
      BY <3>1 DEF Pledge
  <2>6. Promises!Promise(S)
    BY <2>2, <2>5 DEF Promises!Promise
  <2> QED
    BY <2>6 DEF Promises!Next
<1>2. ASSUME NEW p \in Proc, NEW r \in Row, Claim(p, r) PROVE UNCHANGED <<Pledge, Arrivals>>
  BY <1>0, <1>2, Unseen DEF Claim, Oldest, Due, histVars
<1>3. ASSUME NEW p \in Proc, Reach(p) PROVE Promises!Next \/ UNCHANGED <<Pledge, Arrivals>>
  <2>1. item[p] \in Row /\ UNCHANGED status /\ arrived' = [arrived EXCEPT ![item[p]] = @ + 1]
    BY <1>0, <1>3 DEF Reach, rowVars
  <2>2. UNCHANGED Pledge
    BY <2>1 DEF Pledge
  <2>3. CASE Bounded(item[p])
    <3>1. item[p] \in BoundedRow /\ Pledge[item[p]] = "owed"
      BY <1>3, <2>1, <2>3 DEF Reach, IInv, SenderInv, Current, BoundedRow, Pledge, Standing
    <3>2. Arrivals' = [Arrivals EXCEPT ![item[p]] = @ + 1]
      BY <1>0, <2>1, <3>1 DEF Arrivals
    <3> QED
      BY <2>2, <3>1, <3>2 DEF Promises!Next, Promises!Arrive
  <2>4. CASE ~Bounded(item[p])
    <3>1. UNCHANGED Arrivals
      BY <1>0, <2>1, <2>4 DEF Arrivals, BoundedRow
    <3> QED
      BY <2>2, <3>1
  <2> QED
    BY <2>3, <2>4
<1>4. ASSUME NEW p \in Proc, Succeed(p) \/ Err(p) \/ EndLost(p) \/ Stop(p)
      PROVE  UNCHANGED <<Pledge, Arrivals>>
  BY <1>4, Unseen DEF Succeed, Err, EndLost, Stop, rowVars, histVars
<1>5. ASSUME NEW p \in Proc, Complete(p) PROVE Promises!Next \/ UNCHANGED <<Pledge, Arrivals>>
  <2>1. item[p] # NoRow /\ arrived[item[p]] > 0
    BY <1>5 DEF Complete, IInv, SenderInv
  <2> QED
    BY <1>5, <2>1, EndSettles DEF Complete, histVars
<1>6. ASSUME NEW p \in Proc, FailFinal(p) PROVE Promises!Next \/ UNCHANGED <<Pledge, Arrivals>>
  <2>1. item[p] # NoRow
    BY <1>6 DEF FailFinal, IInv, SenderInv
  <2> QED
    BY <1>6, <2>1, EndSettles DEF FailFinal, histVars
<1>7. ASSUME NEW p \in Proc, FailRetry(p) PROVE UNCHANGED <<Pledge, Arrivals>>
  <2>1. item[p] # NoRow /\ (Bounded(item[p]) => status[item[p]] = "sending")
    BY <1>7 DEF FailRetry, IInv, SenderInv, Current
  <2>2. \A r \in BoundedRow : \/ status'[r] = status[r]
                              \/ status[r] = "sending" /\ status'[r] = "queued"
    BY <1>0, <1>7, <2>1 DEF FailRetry, EndAs, BoundedRow
  <2> QED
    BY <1>7, <2>2, Unseen DEF FailRetry, histVars
<1>8. ASSUME NEW p \in Proc, Open(p) PROVE UNCHANGED <<Pledge, Arrivals>>
  <2>1. \A r \in BoundedRow : \/ status'[r] = status[r]
                              \/ status[r] = "sending" /\ status'[r] = "queued"
    BY <1>0, <1>8 DEF Open, Recoverable
  <2> QED
    BY <1>8, <2>1, Unseen DEF Open
<1>9. ASSUME NEW r \in Row, Prune(r) PROVE Promises!Next \/ UNCHANGED <<Pledge, Arrivals>>
  <2>1. /\ status[r] \in {"sent", "failed"} /\ status' = [status EXCEPT ![r] = "pruned"]
        /\ UNCHANGED Arrivals
    BY <1>9 DEF Prune, histVars, Arrivals
  <2>2. CASE r \in BoundedRow
    <3>1. Pledge[r] \in {"kept", "broken"}
      BY <2>1, <2>2 DEF Pledge, Standing
    <3>2. Pledge' = [Pledge EXCEPT ![r] = "forgotten"]
      BY <1>0, <2>1, <2>2 DEF Pledge, Standing
    <3> QED
      BY <2>1, <2>2, <3>1, <3>2 DEF Promises!Next, Promises!Forget
  <2>3. CASE r \notin BoundedRow
    BY <1>0, <2>1, <2>3 DEF Pledge
  <2> QED
    BY <2>2, <2>3
<1>10. CASE Tick \/ UNCHANGED vars
  BY <1>10, Unseen DEF Tick, histVars, vars
<1> QED
  BY <1>1, <1>2, <1>3, <1>4, <1>5, <1>6, <1>7, <1>8, <1>9, <1>10 DEF Next

\* The outbox with its rows, clocks, crashes and recovery keeps the promise: mails
\* apart, a message arrives only while it is owed, and what is settled stays so.
THEOREM OutboxKeepsPromise == Spec => KeepsPromise
  BY PromiseInit, PromiseNext, AlwaysIInv, PTL DEF Spec, KeepsPromise, Promises!Spec

=============================================================================
