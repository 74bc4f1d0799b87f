------------------------------- MODULE JobQueue -------------------------------
(***************************************************************************)
(* The persistent job queue: the "jobs" table of internal/store/runtime.go *)
(* and the worker goroutines of internal/engine/engine.go, in every        *)
(* process that has the database open (the server, and the run-once        *)
(* command, which opens the same file and starts workers of its own).      *)
(*                                                                         *)
(* Each SQL statement or transaction is one step: SQLite serialises them.  *)
(* Between the claim of a job and the statement that ends it a worker      *)
(* holds only a copy of the row, and the statements that end a job say     *)
(* WHERE id=? and nothing about its status.                                *)
(*                                                                         *)
(* Simplifications.  Time is kept relative to now: `age' is                *)
(* unixepoch()-locked_at, `wait' is available_at-unixepoch(), both in      *)
(* ticks and saturated.  What a job does is left to other modules: here    *)
(* a run ends well or badly.  A row of a type the program cannot write     *)
(* (bad id, payload, type, timestamp) is left out.                         *)
(***************************************************************************)
EXTENDS Naturals, FiniteSets

CONSTANTS
  Job,            \* ids of the rows a behaviour may insert, in insertion order
  Proc,           \* processes that may open the database
  Worker,         \* worker goroutines of all of them
  Home,           \* Home[w] is the process of worker w
  NoJob,          \* "runs nothing"
  MonitorKey,     \* unique keys monitor:<account>:<minute>
  OtherKey,       \* unique keys of refresh, control and scheduled report jobs
  Unkeyed,        \* what is asked for with no unique key: tests, forced reports
  Mail,           \* of these, the tests of the e-mail channel, see Bounded
  NoKey,          \* what a row that is not there was inserted with
  AccountOf,      \* AccountOf[k]: the account a job asked under k needs
  Account,        \* accounts
  NoAccount,      \* "needs no account" (notifications and reports)
  MaxAttempts,    \* jobs.max_attempts
  Backoff,        \* waiting times before a retry: 2, 4, 8, 16, 32, 64 s
  JobTimeout,     \* runJob's context timeout, 55 s
  RecoverAfter,   \* age beyond which Open requeues a running row, 120 s
  MaxInterrupts   \* bound of the model: `interrupted' of one job

Key == MonitorKey \cup OtherKey \cup Unkeyed

ASSUME QueueAssumption ==
  /\ Job \subseteq Nat
  /\ Home \in [Worker -> Proc]
  /\ NoJob \notin Job
  /\ MonitorKey \cap OtherKey = {}
  /\ Unkeyed \cap (MonitorKey \cup OtherKey) = {}
  /\ Mail \subseteq Unkeyed
  /\ NoKey \notin Key
  /\ NoAccount \notin Account
  /\ AccountOf \in [Key -> Account \cup {NoAccount}]
  /\ MaxAttempts \in Nat \ {0}
  /\ Backoff \in [1..6 -> Nat]
  /\ JobTimeout \in Nat
  /\ RecoverAfter \in Nat
  /\ MaxInterrupts \in Nat

\* A run is over, one way or the other, before its row is old enough to be
\* requeued: 55 s against 120 s.  The accounts' mutexes do not lengthen a run:
\* whoever gets one after its own deadline gives it up at once.
ASSUME TimeoutAssumption == JobTimeout <= RecoverAfter

VARIABLES
  \* the rows
  status,         \* jobs.status, "none" before the insert, "pruned" after the delete
  asked,          \* what the row was inserted for: its unique key, or one of Unkeyed
  keyed,          \* whether jobs.unique_key still holds it
  attempts,       \* jobs.attempts
  wait,           \* ticks until available_at
  age,            \* ticks since locked_at of a running row, at most RecoverAfter+1
  created,        \* rank of jobs.created_at
  \* the processes
  up,             \* processes that have the database open
  work,           \* the job each worker runs, or NoJob
  copy,           \* Attempts in the copy of the row that the worker holds
  held,           \* ticks since the worker claimed its job, at most JobTimeout
  pending,        \* keys of calls of EnqueueJob that have checked the account
  \* the rest of the program
  active,         \* accounts that have not been removed from the configuration
  past,           \* monitor keys whose minute is over
  interrupted     \* history: how many runs of a job were cut off, or taken for cut off

rowVars == <<status, asked, keyed, attempts, wait, age, created>>
procVars == <<up, work, copy, held>>
envVars == <<pending, active, past, interrupted>>
vars == <<status, asked, keyed, attempts, wait, age, created,
          up, work, copy, held, pending, active, past, interrupted>>

Statuses == {"none", "queued", "running", "completed", "failed", "pruned"}
Terminal == {"completed", "failed"}

\* Whether a run of job j heeds its context.  The SMTP conversation of a test
\* e-mail does not: sendEmail sets no deadline on the connection, and a server
\* that falls silent holds the worker for as long as it likes.
Bounded(j) == asked[j] \notin Mail

Busy == {w \in Worker : work[w] # NoJob}
HeldJobs == {work[w] : w \in Busy}

\* The workers that run jobs which heed their context.
Timely == {w \in Busy : Bounded(work[w])}

IsActive(k) == AccountOf[k] = NoAccount \/ AccountOf[k] \in active

TypeOK ==
  /\ status \in [Job -> Statuses]
  /\ asked \in [Job -> Key \cup {NoKey}]
  /\ keyed \in [Job -> BOOLEAN]
  /\ attempts \in [Job -> Nat]
  /\ wait \in [Job -> Nat]
  /\ age \in [Job -> Nat]
  /\ created \in [Job -> Nat]
  /\ up \subseteq Proc
  /\ work \in [Worker -> Job \cup {NoJob}]
  /\ copy \in [Worker -> Nat]
  /\ held \in [Worker -> Nat]
  /\ pending \subseteq Key
  /\ active \subseteq Account
  /\ past \subseteq MonitorKey
  /\ interrupted \in [Job -> Nat]

Init ==
  /\ status = [j \in Job |-> "none"]
  /\ asked = [j \in Job |-> NoKey]
  /\ keyed = [j \in Job |-> FALSE]
  /\ attempts = [j \in Job |-> 0]
  /\ wait = [j \in Job |-> 0]
  /\ age = [j \in Job |-> 0]
  /\ created = [j \in Job |-> 0]
  /\ up = {}
  /\ work = [w \in Worker |-> NoJob]
  /\ copy = [w \in Worker |-> 0]
  /\ held = [w \in Worker |-> 0]
  /\ pending = {}
  /\ active = Account
  /\ past = {}
  /\ interrupted = [j \in Job |-> 0]

-----------------------------------------------------------------------------
(* Enqueueing.  requireActiveAccount and the INSERT are two statements.    *)

\* A caller of EnqueueJob finds the account of its job active.
CheckAccount(k) ==
  /\ up # {}
  /\ AccountOf[k] # NoAccount
  /\ k \notin pending
  /\ k \notin past
  /\ IsActive(k)
  /\ pending' = pending \cup {k}
  /\ UNCHANGED <<rowVars, procVars, active, past, interrupted>>

\* The rows the UNIQUE column makes an insert under k collide with.
Holders(k) == {i \in Job : keyed[i] /\ asked[i] = k}

\* The INSERT.  When a row holds the key it fails, and the caller gets that
\* row's job instead: no row changes.
Enqueue(k) ==
  /\ up # {}
  /\ AccountOf[k] # NoAccount => k \in pending
  /\ pending' = pending \ {k}
  /\ \/ /\ Holders(k) # {}
        /\ UNCHANGED rowVars
     \/ /\ Holders(k) = {}
        /\ \E j \in Job :
             /\ status[j] = "none"
             /\ \A i \in Job : i < j => status[i] # "none"
             /\ status' = [status EXCEPT ![j] = "queued"]
             /\ asked' = [asked EXCEPT ![j] = k]
             /\ keyed' = [keyed EXCEPT ![j] = (k \notin Unkeyed)]
             \* created later than every row so far, or in the second of the newest
             /\ \E c \in {j} \cup {created[i] : i \in {m \in Job : m < j}} :
                  /\ \A i \in Job : created[i] <= c
                  /\ created' = [created EXCEPT ![j] = c]
        /\ UNCHANGED <<attempts, wait, age>>
  /\ UNCHANGED <<procVars, active, past, interrupted>>

\* The caller's process stops, or its request is cancelled, before the INSERT.
DropCall(k) ==
  /\ k \in pending
  /\ pending' = pending \ {k}
  /\ UNCHANGED <<rowVars, procVars, active, past, interrupted>>

-----------------------------------------------------------------------------
(* Workers: claim, run, complete or fail.                                  *)

\* SELECT ... WHERE status='queued' AND available_at<=now ORDER BY created_at LIMIT 1
Due(j) == status[j] = "queued" /\ wait[j] = 0
Oldest(j) == Due(j) /\ \A i \in Job : Due(i) => created[j] <= created[i]

\* ClaimJob when the row is valid: it becomes the worker's.
Claim(w, j) ==
  /\ Home[w] \in up
  /\ work[w] = NoJob
  /\ Oldest(j)
  /\ IsActive(asked[j])
  /\ status' = [status EXCEPT ![j] = "running"]
  /\ attempts' = [attempts EXCEPT ![j] = @ + 1]
  /\ age' = [age EXCEPT ![j] = 0]
  /\ work' = [work EXCEPT ![w] = j]
  /\ copy' = [copy EXCEPT ![w] = attempts[j] + 1]
  /\ held' = [held EXCEPT ![w] = 0]
  /\ UNCHANGED <<asked, keyed, wait, created, up, envVars>>

\* ClaimJob when the account has gone: the row is given up in the same transaction.
Reject(w, j) ==
  /\ Home[w] \in up
  /\ work[w] = NoJob
  /\ Oldest(j)
  /\ ~IsActive(asked[j])
  /\ status' = [status EXCEPT ![j] = "failed"]
  /\ keyed' = [keyed EXCEPT ![j] = FALSE]
  /\ UNCHANGED <<asked, attempts, wait, age, created, procVars, envVars>>

\* The worker's local state once it is done with its job.
Release(w) ==
  /\ work' = [work EXCEPT ![w] = NoJob]
  /\ copy' = [copy EXCEPT ![w] = 0]
  /\ held' = [held EXCEPT ![w] = 0]
  /\ UNCHANGED up

\* An UPDATE of a row that retention has deleted changes nothing.
EndAs(j, outcome) ==
  status' = [status EXCEPT ![j] = IF @ = "pruned" THEN @ ELSE outcome]

\* Faulty: the key of a completed monitor job is released like any other.
CompleteForgetsMinute(w) ==
  /\ work[w] # NoJob
  /\ EndAs(work[w], "completed")
  /\ keyed' = [keyed EXCEPT ![work[w]] = FALSE]
  /\ age' = [age EXCEPT ![work[w]] = 0]
  /\ Release(w)
  /\ UNCHANGED <<asked, attempts, wait, created, envVars>>

\* Faulty: a status no other query knows.
CompleteMisspelt(w) ==
  /\ work[w] # NoJob
  /\ EndAs(work[w], "done")
  /\ age' = [age EXCEPT ![work[w]] = 0]
  /\ Release(w)
  /\ UNCHANGED <<asked, keyed, attempts, wait, created, envVars>>

\* CompleteJob.  A monitor job keeps its key, so that its minute is not run
\* twice; every other job gives it back.
Complete(w) ==
  /\ work[w] # NoJob
  /\ LET j == work[w] IN
       /\ EndAs(j, "completed")
       /\ keyed' = [keyed EXCEPT ![j] = @ /\ asked[j] \in MonitorKey]
       /\ age' = [age EXCEPT ![j] = 0]
  /\ Release(w)
  /\ UNCHANGED <<asked, attempts, wait, created, envVars>>

\* 1<<min(attempts,6) seconds.
Delay(a) == Backoff[IF a < 6 THEN a ELSE 6]

\* Faulty: off by one in the comparison with the budget.
FailRetryOnceMore(w) ==
  /\ work[w] # NoJob
  /\ copy[w] <= MaxAttempts
  /\ EndAs(work[w], "queued")
  /\ wait' = [wait EXCEPT ![work[w]] = Delay(copy[w])]
  /\ age' = [age EXCEPT ![work[w]] = 0]
  /\ Release(w)
  /\ UNCHANGED <<asked, keyed, attempts, created, envVars>>

\* FailJob, with attempts left in the worker's copy: back to the queue, key kept.
FailRetry(w) ==
  /\ work[w] # NoJob
  /\ copy[w] < MaxAttempts
  /\ EndAs(work[w], "queued")
  /\ wait' = [wait EXCEPT ![work[w]] = Delay(copy[w])]
  /\ age' = [age EXCEPT ![work[w]] = 0]
  /\ Release(w)
  /\ UNCHANGED <<asked, keyed, attempts, created, envVars>>

\* Faulty: a job that is given up keeps its key.
FailFinalKeepsKey(w) ==
  /\ work[w] # NoJob
  /\ copy[w] >= MaxAttempts
  /\ EndAs(work[w], "failed")
  /\ age' = [age EXCEPT ![work[w]] = 0]
  /\ Release(w)
  /\ UNCHANGED <<asked, keyed, attempts, wait, created, envVars>>

\* FailJob, out of attempts: given up, key released.
FailFinal(w) ==
  /\ work[w] # NoJob
  /\ copy[w] >= MaxAttempts
  /\ EndAs(work[w], "failed")
  /\ keyed' = [keyed EXCEPT ![work[w]] = FALSE]
  /\ age' = [age EXCEPT ![work[w]] = 0]
  /\ Release(w)
  /\ UNCHANGED <<asked, attempts, wait, created, envVars>>

\* The statement that should end the job fails, and processJobs ignores that:
\* the row stays running and the worker goes on.
EndLost(w) ==
  /\ work[w] # NoJob
  /\ interrupted[work[w]] < MaxInterrupts
  /\ interrupted' = [interrupted EXCEPT ![work[w]] = @ + 1]
  /\ Release(w)
  /\ UNCHANGED <<rowVars, pending, active, past>>

-----------------------------------------------------------------------------
(* Processes.                                                              *)

\* Faulty: every running row is taken for interrupted.
RecoverableAnyAge(j) == status[j] = "running"

\* Faulty: a row is requeued at the age its run may still have.
RecoverableEarly(j) == status[j] = "running" /\ age[j] >= RecoverAfter

\* The rows recoverInterruptedWork puts back: running, and locked more than
\* 120 s ago.  The age is all it looks at.
Recoverable(j) == status[j] = "running" /\ age[j] > RecoverAfter

\* store.Open, of a process that starts; others may be running.
Open(p) ==
  /\ p \notin up
  /\ up' = up \cup {p}
  /\ status' = [j \in Job |-> IF Recoverable(j) THEN "queued" ELSE status[j]]
  /\ wait' = [j \in Job |-> IF Recoverable(j) THEN 0 ELSE wait[j]]
  /\ age' = [j \in Job |-> IF Recoverable(j) THEN 0 ELSE age[j]]
  /\ LET taken == {j \in HeldJobs : Recoverable(j)}
     IN  /\ \A j \in taken : interrupted[j] < MaxInterrupts
         /\ interrupted' = [j \in Job |-> interrupted[j] + (IF j \in taken THEN 1 ELSE 0)]
  /\ UNCHANGED <<asked, keyed, attempts, created, work, copy, held, pending, active, past>>

\* The process is killed, or told to stop: the cancelled context fails both the
\* run and the statement that would end it, so the rows stay as they are.
Stop(p) ==
  /\ p \in up
  /\ LET cut == {w \in Busy : Home[w] = p}
         jobs == {work[w] : w \in cut}
     IN  /\ \A j \in jobs : interrupted[j] < MaxInterrupts
         /\ interrupted' = [j \in Job |-> interrupted[j] + (IF j \in jobs THEN 1 ELSE 0)]
         /\ work' = [w \in Worker |-> IF w \in cut THEN NoJob ELSE work[w]]
         /\ copy' = [w \in Worker |-> IF w \in cut THEN 0 ELSE copy[w]]
         /\ held' = [w \in Worker |-> IF w \in cut THEN 0 ELSE held[w]]
  /\ up' = up \ {p}
  /\ pending' = IF up' = {} THEN {} ELSE pending
  /\ UNCHANGED <<rowVars, active, past>>

-----------------------------------------------------------------------------
(* Time, retention and the configuration.                                  *)

\* A tick passes, but no run that heeds its context outlives the deadline.
Tick ==
  /\ \A w \in Timely : held[w] < JobTimeout
  /\ wait' = [j \in Job |-> IF wait[j] > 0 THEN wait[j] - 1 ELSE 0]
  /\ age' = [j \in Job |-> IF status[j] = "running" /\ age[j] <= RecoverAfter
                           THEN age[j] + 1 ELSE age[j]]
  /\ held' = [w \in Worker |-> IF w \in Busy /\ held[w] < JobTimeout
                                THEN held[w] + 1 ELSE held[w]]
  /\ UNCHANGED <<status, asked, keyed, attempts, created, up, work, copy, envVars>>

\* The minute a monitor key names is over: nobody asks under it again.
MinuteOver(k) ==
  /\ k \in MonitorKey \ past
  /\ k \notin pending
  /\ past' = past \cup {k}
  /\ UNCHANGED <<rowVars, procVars, pending, active, interrupted>>

\* Faulty: retention looks at the age of a row and not at its status.
PruneAnyStatus(j) ==
  /\ status[j] \notin {"none", "pruned"}
  /\ asked[j] \in MonitorKey => asked[j] \in past
  /\ status' = [status EXCEPT ![j] = "pruned"]
  /\ keyed' = [keyed EXCEPT ![j] = FALSE]
  /\ UNCHANGED <<asked, attempts, wait, age, created, procVars, envVars>>

\* Prune deletes rows that have been terminal for a week, long after the
\* minute of a monitor key.
Prune(j) ==
  /\ status[j] \in Terminal
  /\ asked[j] \in MonitorKey => asked[j] \in past
  /\ status' = [status EXCEPT ![j] = "pruned"]
  /\ keyed' = [keyed EXCEPT ![j] = FALSE]
  /\ UNCHANGED <<asked, attempts, wait, age, created, procVars, envVars>>

\* An account is removed from the configuration.
RemoveAccount(a) ==
  /\ a \in active
  /\ active' = active \ {a}
  /\ UNCHANGED <<rowVars, procVars, pending, past, interrupted>>

Next ==
  \/ \E k \in Key : CheckAccount(k) \/ Enqueue(k) \/ DropCall(k) \/ MinuteOver(k)
  \/ \E w \in Worker, j \in Job : Claim(w, j) \/ Reject(w, j)
  \/ \E w \in Worker : Complete(w) \/ FailRetry(w) \/ FailFinal(w) \/ EndLost(w)
  \/ \E p \in Proc : Open(p) \/ Stop(p)
  \/ \E j \in Job : Prune(j)
  \/ \E a \in Account : RemoveAccount(a)
  \/ Tick

Spec == Init /\ [][Next]_vars

\* Worker goroutines poll every 800 ms and a run that heeds its context ends with
\* it; time goes on.  Nothing obliges a process to start, a caller to enqueue, or
\* a mail server to answer.
Fairness ==
  /\ WF_vars(Tick)
  /\ \A w \in Worker :
       /\ WF_vars(\E j \in Job : Claim(w, j) \/ Reject(w, j))
       /\ WF_vars(w \in Timely /\ (Complete(w) \/ FailRetry(w) \/ FailFinal(w)))

FairSpec == Spec /\ Fairness

-----------------------------------------------------------------------------
(* What makes the queue correct.  Test e-mails are left out where their      *)
(* unbounded runs break what holds for everything else.                      *)

\* No job is run by two workers at a time, in whichever processes: the age
\* that recovery goes by is only reached once the run is over.
OneRunner ==
  \A v, w \in Timely : work[v] = work[w] => v = w

\* The row a worker is about to end is still the one it claimed.  CompleteJob
\* and FailJob name the row by its id alone, so nothing else makes sure that a
\* late worker does not overwrite what happened to the job since.
EndsOwnClaim ==
  \A w \in Timely : status[work[w]] = "running" /\ attempts[work[w]] = copy[w]

\* The jobs on whose behalf a key must keep others out: those still to be run,
\* and the monitor job of a minute that has been served.
Occupies(j) ==
  \/ status[j] \in {"queued", "running"}
  \/ status[j] = "completed" /\ asked[j] \in MonitorKey

\* One job at most works under a key, through retries, crashes and recovery,
\* and the monitor job of a minute that was completed is not run again.
OneJobPerKey ==
  \A i, j \in Job :
    (i # j /\ asked[i] = asked[j] /\ asked[i] \notin Unkeyed) => ~(Occupies(i) /\ Occupies(j))

\* A job is run at most MaxAttempts times, plus once for every run of it that a
\* crash or a lost write cut off (recovery does not look at the budget).
RetryBudget ==
  \A j \in Job : Bounded(j) => attempts[j] <= MaxAttempts + interrupted[j]

\* The queue keeps the ledger's promises: only the runner settles a job, only
\* abandoned jobs are requeued, a settled job is never revived.
Stage == [j \in Job |-> IF Bounded(j) THEN status[j] ELSE "none"]
Task == [w \in Worker |-> IF w \in Timely THEN work[w] ELSE NoJob]

Ledger == INSTANCE JobLedger WITH stage <- Stage, task <- Task

ImplementsLedger == Ledger!Spec

\* A running row without a worker: it waits for some process to open the
\* database once more than RecoverAfter has passed.
Orphan(j) == status[j] = "running" /\ j \notin HeldJobs

\* Every worker there is hangs in a test e-mail.
Jammed == \A w \in Worker : Home[w] \in up => w \in Busy \ Timely

\* If a process stays up for good, a key that keeps requests out is given back,
\* unless its job was cut off, or test e-mails hold all the workers.
KeyFreed ==
  (\E p \in Proc : <>[](p \in up)) =>
    \A k \in OtherKey :
      Holders(k) # {} ~> (Holders(k) = {} \/ Jammed \/ \E j \in Holders(k) : Orphan(j))

\* Opening the database recovers the work that a stopped process left running,
\* as the test TestInterruptedWorkRecoversOnOpen is named.
InterruptedWorkRecoversOnOpen ==
  [][\A p \in Proc : Open(p) => \A j \in Job : ~Orphan(j)']_vars

=============================================================================
