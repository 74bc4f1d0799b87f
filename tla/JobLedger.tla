------------------------------ MODULE JobLedger ------------------------------
(***************************************************************************)
(* What the persistent job queue promises, without rows, keys, clocks or   *)
(* processes.  A job is posted once, taken by one worker at a time, and    *)
(* only the worker that runs it decides how the run ends.  A worker may    *)
(* lose its job; then the job may be queued again, and only then.          *)
(* Module JobQueue is shown to implement this specification.               *)
(***************************************************************************)
CONSTANTS
  Job,          \* the jobs that may ever be posted
  Worker,       \* the worker goroutines of every process
  NoJob         \* what an idle worker runs

VARIABLES
  stage,        \* where each job is in its life
  task          \* the job each worker runs, or NoJob

vars == <<stage, task>>

Outcomes == {"queued", "completed", "failed"}

Init ==
  /\ stage = [j \in Job |-> "none"]
  /\ task = [w \in Worker |-> NoJob]

\* Nobody runs job j.
Free(j) == \A w \in Worker : task[w] # j

Post(j) ==
  /\ stage[j] = "none"
  /\ stage' = [stage EXCEPT ![j] = "queued"]
  /\ UNCHANGED task

\* An idle worker takes a queued job, which nobody runs.
Take(w, j) ==
  /\ task[w] = NoJob
  /\ stage[j] = "queued"
  /\ Free(j)
  /\ stage' = [stage EXCEPT ![j] = "running"]
  /\ task' = [task EXCEPT ![w] = j]

\* The worker ends its run: done, to be tried again, or given up.
Settle(w, outcome) ==
  /\ task[w] # NoJob
  /\ stage[task[w]] = "running"
  /\ stage' = [stage EXCEPT ![task[w]] = outcome]
  /\ task' = [task EXCEPT ![w] = NoJob]

\* Workers lose their jobs, which stay marked running.
Lose(W) ==
  /\ task' = [w \in Worker |-> IF w \in W THEN NoJob ELSE task[w]]
  /\ UNCHANGED stage

\* Jobs that were lost go back to the queue.
Requeue(S) ==
  /\ \A j \in S : stage[j] = "running" /\ Free(j)
  /\ stage' = [j \in Job |-> IF j \in S THEN "queued" ELSE stage[j]]
  /\ UNCHANGED task

\* A queued job whose account is gone is given up without being run.
Refuse(j) ==
  /\ stage[j] = "queued"
  /\ stage' = [stage EXCEPT ![j] = "failed"]
  /\ UNCHANGED task

Forget(j) ==
  /\ stage[j] \in {"completed", "failed"}
  /\ stage' = [stage EXCEPT ![j] = "pruned"]
  /\ UNCHANGED task

Next ==
  \/ \E W \in SUBSET Worker : Lose(W)
  \/ \E j \in Job : Post(j) \/ Refuse(j) \/ Forget(j)
  \/ \E w \in Worker, j \in Job : Take(w, j)
  \/ \E w \in Worker, outcome \in Outcomes : Settle(w, outcome)
  \/ \E S \in SUBSET Job : Requeue(S)

Spec == Init /\ [][Next]_vars

=============================================================================
