-------------------------------- MODULE Outbox --------------------------------
(***************************************************************************)
(* The notification outbox: the table "notification_outbox" of             *)
(* internal/store/runtime.go, the goroutine of internal/engine/engine.go   *)
(* that empties it (one in every process that has the database open), and  *)
(* the channels of internal/notify.                                        *)
(*                                                                         *)
(* Each SQL statement or transaction is one step.  A sender claims a row,  *)
(* sends the message, learns how that went, and writes the outcome with a  *)
(* statement that says WHERE id=? and nothing about the row's status.      *)
(*                                                                         *)
(* Simplifications.  Time is kept as in JobQueue: `wait' and `age' are     *)
(* relative to now, in ticks.  A row ClaimOutbox would refuse is left out: *)
(* AddOutbox applies the same tests.  A message is sent over the channel   *)
(* as configured when it is sent, which the row does not record.           *)
(***************************************************************************)
EXTENDS Naturals

CONSTANTS
  Event,          \* notification events, each with its id
  Channel,        \* email, telegram, webhook
  Mail,           \* the channels that do not heed their context: email
  Proc,           \* processes that may open the database
  NoRow,          \* "sends nothing"
  MaxAttempts,    \* notification_outbox.max_attempts, 5
  Backoff,        \* waiting times before a retry: 2, 4, ..., 128 s
  SendTimeout,    \* flushOutbox's context timeout, 20 s
  RecoverAfter,   \* age beyond which Open requeues a row being sent, 120 s
  MaxFaults       \* bound of the model: interruptions, and lost answers, of a row

\* The id of a row is <event id>:<channel>.
Row == Event \X Channel

ASSUME OutboxAssumption ==
  /\ Mail \subseteq Channel
  /\ NoRow \notin Row
  /\ MaxAttempts \in Nat \ {0}
  /\ Backoff \in [1..7 -> Nat]
  /\ SendTimeout \in Nat
  /\ RecoverAfter \in Nat
  /\ MaxFaults \in Nat

\* A send that heeds its context is over before its row is requeued: 20 s, 120 s.
ASSUME SendAssumption == SendTimeout <= RecoverAfter

VARIABLES
  \* the rows
  status,         \* "none" before the insert, "pruned" after the delete
  attempts,
  wait,           \* ticks until available_at
  age,            \* ticks since updated_at of a row being sent, at most RecoverAfter+1
  created,        \* rank of created_at
  \* the processes
  up,
  item,           \* the row each process's sender holds, or NoRow
  copy,           \* Attempts in its copy of the row
  held,           \* ticks since it claimed the row, at most SendTimeout
  answer,         \* how the send stands: "none", "reached", "ok" or "error"
  \* history
  arrived,        \* how often the message of a row reached its receiver
  lost,           \* how often it did and the sender was told of an error
  interrupted     \* how often a send was cut off, or taken for cut off

rowVars == <<status, attempts, wait, age, created>>
sendVars == <<item, copy, held, answer>>
histVars == <<arrived, lost, interrupted>>
vars == <<status, attempts, wait, age, created, up, item, copy, held, answer,
          arrived, lost, interrupted>>

Statuses == {"none", "queued", "sending", "sent", "failed", "pruned"}

\* Whether sending row r heeds its context.  sendEmail sets no deadline on the
\* connection, so that a server which falls silent holds the sender.
Bounded(r) == r[2] \notin Mail

Busy == {p \in Proc : item[p] # NoRow}
Timely == {p \in Busy : Bounded(item[p])}
HeldRows == {item[p] : p \in Busy}

TypeOK ==
  /\ status \in [Row -> Statuses]
  /\ attempts \in [Row -> Nat]
  /\ wait \in [Row -> Nat]
  /\ age \in [Row -> Nat]
  /\ created \in [Row -> Nat]
  /\ up \subseteq Proc
  /\ item \in [Proc -> Row \cup {NoRow}]
  /\ copy \in [Proc -> Nat]
  /\ held \in [Proc -> Nat]
  /\ answer \in [Proc -> {"none", "reached", "ok", "error"}]
  /\ arrived \in [Row -> Nat]
  /\ lost \in [Row -> Nat]
  /\ interrupted \in [Row -> Nat]

Init ==
  /\ status = [r \in Row |-> "none"]
  /\ attempts = [r \in Row |-> 0]
  /\ wait = [r \in Row |-> 0]
  /\ age = [r \in Row |-> 0]
  /\ created = [r \in Row |-> 0]
  /\ up = {}
  /\ item = [p \in Proc |-> NoRow]
  /\ copy = [p \in Proc |-> 0]
  /\ held = [p \in Proc |-> 0]
  /\ answer = [p \in Proc |-> "none"]
  /\ arrived = [r \in Row |-> 0]
  /\ lost = [r \in Row |-> 0]
  /\ interrupted = [r \in Row |-> 0]

-----------------------------------------------------------------------------

\* The ranks a new row may be created at: the second of the newest, or a later one.
Present == {r \in Row : status[r] # "none"}
Newest == {c \in {created[r] : r \in Present} : \A r \in Present : created[r] <= c}
Ranks == IF Present = {} THEN {1} ELSE Newest \cup {c + 1 : c \in Newest}

\* Faulty: INSERT OR REPLACE, a row that is there is queued again.
AddReplaces(e) ==
  /\ up # {}
  /\ \E C \in SUBSET Channel, c \in Ranks :
       LET new == {r \in {e} \X C : status[r] # "pruned"}
       IN  /\ new # {}
           /\ status' = [r \in Row |-> IF r \in new THEN "queued" ELSE status[r]]
           /\ created' = [r \in Row |-> IF r \in new THEN c ELSE created[r]]
  /\ UNCHANGED <<attempts, wait, age, up, sendVars, histVars>>

\* AddOutbox, with the channels that were enabled when its caller read the
\* configuration.  A report job that is run again adds its event again: rows
\* that are there are ignored.  (None is added 30 days later, after Prune.)
AddOutbox(e) ==
  /\ up # {}
  /\ \E C \in SUBSET Channel, c \in Ranks :
       LET new == {r \in {e} \X C : status[r] = "none"}
       IN  /\ new # {}
           /\ status' = [r \in Row |-> IF r \in new THEN "queued" ELSE status[r]]
           /\ created' = [r \in Row |-> IF r \in new THEN c ELSE created[r]]
  /\ UNCHANGED <<attempts, wait, age, up, sendVars, histVars>>

\* Faulty: a claim that leaves rows alone which are out of attempts.
DueInBudget(r) == status[r] = "queued" /\ wait[r] = 0 /\ attempts[r] < MaxAttempts

\* SELECT ... WHERE status='queued' AND available_at<=now ORDER BY created_at LIMIT 1
Due(r) == status[r] = "queued" /\ wait[r] = 0
Oldest(r) == Due(r) /\ \A s \in Row : Due(s) => created[r] <= created[s]

\* Faulty: the row is read and not marked.
ClaimUnmarked(p, r) ==
  /\ p \in up
  /\ item[p] = NoRow
  /\ Oldest(r)
  /\ item' = [item EXCEPT ![p] = r]
  /\ copy' = [copy EXCEPT ![p] = attempts[r] + 1]
  /\ UNCHANGED <<rowVars, up, held, answer, histVars>>

\* ClaimOutbox: the row becomes the sender's.
Claim(p, r) ==
  /\ p \in up
  /\ item[p] = NoRow
  /\ Oldest(r)
  /\ status' = [status EXCEPT ![r] = "sending"]
  /\ attempts' = [attempts EXCEPT ![r] = @ + 1]
  /\ age' = [age EXCEPT ![r] = 0]
  /\ item' = [item EXCEPT ![p] = r]
  /\ copy' = [copy EXCEPT ![p] = attempts[r] + 1]
  /\ UNCHANGED <<wait, created, up, held, answer, histVars>>

\* Send hands the message over, and the receiver has it.
Reach(p) ==
  /\ item[p] # NoRow
  /\ answer[p] = "none"
  /\ answer' = [answer EXCEPT ![p] = "reached"]
  /\ arrived' = [arrived EXCEPT ![item[p]] = @ + 1]
  /\ UNCHANGED <<rowVars, up, item, copy, held, lost, interrupted>>

\* Send returns nil.
Succeed(p) ==
  /\ answer[p] = "reached"
  /\ answer' = [answer EXCEPT ![p] = "ok"]
  /\ UNCHANGED <<rowVars, up, item, copy, held, histVars>>

\* Send returns an error, or panics: the message did not get through, or it did
\* and the answer got lost.
Err(p) ==
  /\ item[p] # NoRow
  /\ \/ answer[p] = "none" /\ UNCHANGED lost
     \/ /\ answer[p] = "reached"
        /\ lost[item[p]] < MaxFaults
        /\ lost' = [lost EXCEPT ![item[p]] = @ + 1]
  /\ answer' = [answer EXCEPT ![p] = "error"]
  /\ UNCHANGED <<rowVars, up, item, copy, held, arrived, interrupted>>

\* The sender's local state once it is done with its row.
Release(p) ==
  /\ item' = [item EXCEPT ![p] = NoRow]
  /\ copy' = [copy EXCEPT ![p] = 0]
  /\ held' = [held EXCEPT ![p] = 0]
  /\ answer' = [answer EXCEPT ![p] = "none"]
  /\ UNCHANGED up

\* An UPDATE of a row that retention has deleted changes nothing.
EndAs(r, outcome) ==
  /\ status' = [status EXCEPT ![r] = IF @ = "pruned" THEN @ ELSE outcome]
  /\ age' = [age EXCEPT ![r] = 0]

\* Faulty: the error of Send is overlooked.
CompleteRegardless(p) ==
  /\ answer[p] \in {"ok", "error"}
  /\ EndAs(item[p], "sent")
  /\ Release(p)
  /\ UNCHANGED <<attempts, wait, created, histVars>>

\* Faulty: a status no other query knows.
CompleteMisspelt(p) ==
  /\ answer[p] = "ok"
  /\ EndAs(item[p], "delivered")
  /\ Release(p)
  /\ UNCHANGED <<attempts, wait, created, histVars>>

\* CompleteOutbox.
Complete(p) ==
  /\ answer[p] = "ok"
  /\ EndAs(item[p], "sent")
  /\ Release(p)
  /\ UNCHANGED <<attempts, wait, created, histVars>>

\* 1<<min(attempts,7) seconds.
Delay(a) == Backoff[IF a < 7 THEN a ELSE 7]

\* FailOutbox, with attempts left in the sender's copy.
FailRetry(p) ==
  /\ answer[p] = "error"
  /\ copy[p] < MaxAttempts
  /\ EndAs(item[p], "queued")
  /\ wait' = [wait EXCEPT ![item[p]] = Delay(copy[p])]
  /\ Release(p)
  /\ UNCHANGED <<attempts, created, histVars>>

\* Faulty: gives up with an attempt left.
FailFinalEarly(p) ==
  /\ answer[p] = "error"
  /\ copy[p] + 1 >= MaxAttempts
  /\ EndAs(item[p], "failed")
  /\ Release(p)
  /\ UNCHANGED <<attempts, wait, created, histVars>>

\* FailOutbox, out of attempts.
FailFinal(p) ==
  /\ answer[p] = "error"
  /\ copy[p] >= MaxAttempts
  /\ EndAs(item[p], "failed")
  /\ Release(p)
  /\ UNCHANGED <<attempts, wait, created, histVars>>

\* The statement that should write the outcome fails, and flushOutbox ignores
\* that: the row stays as it is, and the sender goes on.
EndLost(p) ==
  /\ answer[p] \in {"ok", "error"}
  /\ interrupted[item[p]] < MaxFaults
  /\ interrupted' = [interrupted EXCEPT ![item[p]] = @ + 1]
  /\ Release(p)
  /\ UNCHANGED <<rowVars, arrived, lost>>

-----------------------------------------------------------------------------

\* Faulty: every row being sent is taken for interrupted.
RecoverableAnyAge(r) == status[r] = "sending"

\* The rows recoverInterruptedWork puts back.
Recoverable(r) == status[r] = "sending" /\ age[r] > RecoverAfter

\* store.Open, of a process that starts; others may be running.
Open(p) ==
  /\ p \notin up
  /\ up' = up \cup {p}
  /\ status' = [r \in Row |-> IF Recoverable(r) THEN "queued" ELSE status[r]]
  /\ wait' = [r \in Row |-> IF Recoverable(r) THEN 0 ELSE wait[r]]
  /\ age' = [r \in Row |-> IF Recoverable(r) THEN 0 ELSE age[r]]
  /\ LET taken == {r \in HeldRows : Recoverable(r)}
     IN  /\ \A r \in taken : interrupted[r] < MaxFaults
         /\ interrupted' = [r \in Row |-> interrupted[r] + (IF r \in taken THEN 1 ELSE 0)]
  /\ UNCHANGED <<attempts, created, sendVars, arrived, lost>>

\* The process is killed, told to stop, or, having run once, is done.
Stop(p) ==
  /\ p \in up
  /\ up' = up \ {p}
  /\ IF item[p] = NoRow
       THEN UNCHANGED interrupted
       ELSE /\ interrupted[item[p]] < MaxFaults
            /\ interrupted' = [interrupted EXCEPT ![item[p]] = @ + 1]
  /\ item' = [item EXCEPT ![p] = NoRow]
  /\ copy' = [copy EXCEPT ![p] = 0]
  /\ held' = [held EXCEPT ![p] = 0]
  /\ answer' = [answer EXCEPT ![p] = "none"]
  /\ UNCHANGED <<rowVars, arrived, lost>>

\* A tick passes, but no send that heeds its context outlives the deadline.
Tick ==
  /\ \A p \in Timely : held[p] < SendTimeout
  /\ wait' = [r \in Row |-> IF wait[r] > 0 THEN wait[r] - 1 ELSE 0]
  /\ age' = [r \in Row |-> IF status[r] = "sending" /\ age[r] <= RecoverAfter
                           THEN age[r] + 1 ELSE age[r]]
  /\ held' = [p \in Proc |-> IF p \in Busy /\ held[p] < SendTimeout
                              THEN held[p] + 1 ELSE held[p]]
  /\ UNCHANGED <<status, attempts, created, up, item, copy, answer, histVars>>

\* Prune deletes rows that have been settled for 30 days.
Prune(r) ==
  /\ status[r] \in {"sent", "failed"}
  /\ status' = [status EXCEPT ![r] = "pruned"]
  /\ UNCHANGED <<attempts, wait, age, created, up, sendVars, histVars>>

Next ==
  \/ \E e \in Event : AddOutbox(e)
  \/ \E p \in Proc, r \in Row : Claim(p, r)
  \/ \E p \in Proc : Reach(p) \/ Succeed(p) \/ Err(p)
  \/ \E p \in Proc : Complete(p) \/ FailRetry(p) \/ FailFinal(p) \/ EndLost(p)
  \/ \E p \in Proc : Open(p) \/ Stop(p)
  \/ \E r \in Row : Prune(r)
  \/ Tick

Spec == Init /\ [][Next]_vars

\* The sender polls every second; a send that heeds its context ends with it, and
\* one that is over has its outcome written.  No mail server is obliged to answer.
Ends(p) == Complete(p) \/ FailRetry(p) \/ FailFinal(p)

Fairness ==
  /\ WF_vars(Tick)
  /\ \A p \in Proc :
       /\ WF_vars(\E r \in Row : Claim(p, r))
       /\ WF_vars(p \in Timely /\ (Reach(p) \/ Succeed(p) \/ Err(p)))
       /\ WF_vars(Ends(p))

FairSpec == Spec /\ Fairness

-----------------------------------------------------------------------------
(* What makes the outbox correct.                                          *)

\* No message is being sent by two processes, mails apart: FailOutbox and
\* CompleteOutbox name the row by its id alone, and would write over each other.
OneSender ==
  \A p, q \in Timely : item[p] = item[q] => p = q

\* A message that is recorded as sent did reach its receiver, mails included.
SentArrived ==
  \A r \in Row : status[r] = "sent" => arrived[r] > 0

\* A message arrives once, and once more at most for every time that it had
\* arrived and the sender was told otherwise, or did not live to record it.
RepeatsExplained ==
  \A r \in Row : Bounded(r) => arrived[r] <= 1 + lost[r] + interrupted[r]

\* No more sends are started than the budget and the interruptions allow, and no
\* message is given up with an attempt left.
BudgetUsed ==
  \A r \in Row : Bounded(r) =>
    /\ attempts[r] <= MaxAttempts + interrupted[r]
    /\ status[r] = "failed" => attempts[r] >= MaxAttempts

\* Mails apart, the outbox keeps the promise: a message arrives only between
\* AddOutbox and the outcome, and what was settled is not taken up again.
BoundedRow == {r \in Row : Bounded(r)}

Standing(s) ==
  CASE s \in {"queued", "sending"} -> "owed"
    [] s = "sent" -> "kept"
    [] s = "failed" -> "broken"
    [] s = "pruned" -> "forgotten"
    [] OTHER -> "none"

Pledge == [r \in BoundedRow |-> Standing(status[r])]
Arrivals == [r \in BoundedRow |-> arrived[r]]

Promises == INSTANCE NotificationPromise WITH
  Row <- BoundedRow, promise <- Pledge, arrived <- Arrivals

KeepsPromise == Promises!Spec

\* A row without a sender: it waits for some process to open the database.
Orphan(r) == status[r] = "sending" /\ r \notin HeldRows

\* The sender of every process there is hangs in a mail.
Jammed == \A p \in up : p \in Busy \ Timely

\* If a process stays up for good, every message but mails is sent or given up in
\* the end, unless its sender was cut off, or mails hold all the senders.
Settled ==
  (\E p \in Proc : <>[](p \in up)) =>
    \A r \in BoundedRow :
      status[r] = "queued" ~>
        (status[r] \in {"sent", "failed", "pruned"} \/ Orphan(r) \/ Jammed)

\* Every call of a channel ends: the design has all external calls heed a
\* context, with a timeout for the whole of the call.
CallsEnd ==
  \A p \in Proc : item[p] # NoRow ~> item[p] = NoRow

=============================================================================
