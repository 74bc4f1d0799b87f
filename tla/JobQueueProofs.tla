---------------------------- MODULE JobQueueProofs ----------------------------
(***************************************************************************)
(* Proofs about JobQueue, for every set of jobs, workers, processes and    *)
(* keys and every timeout: the inductive invariant IInv, the safety        *)
(* properties it implies, and the refinement of JobLedger.                 *)
(***************************************************************************)
EXTENDS JobQueue, TLAPS

\* What worker w knows of its row, as long as its run heeds its context.  The
\* third conjunct is what protects the row from recovery: its lock is exactly as
\* old as the run.
Current(w) ==
  /\ status[work[w]] = "running"
  /\ attempts[work[w]] = copy[w]
  /\ age[work[w]] = held[w]
  /\ held[w] <= JobTimeout

HeldInv ==
  \A w \in Worker : work[w] # NoJob =>
    /\ status[work[w]] # "none"
    /\ copy[w] > 0
    /\ Bounded(work[w]) => Current(w)

\* No two workers run the same job, unless it is a test e-mail.
RunnerInv ==
  \A v, w \in Worker : (work[v] # NoJob /\ Bounded(work[v]) /\ work[v] = work[w]) => v = w

\* A row holds its key exactly while it must keep others out.
KeyInv ==
  /\ \A j \in Job : keyed[j] <=> (asked[j] \notin Unkeyed /\ Occupies(j))
  /\ \A i, j \in Job : (keyed[i] /\ keyed[j] /\ asked[i] = asked[j]) => i = j

\* A run that may still be started has an attempt, or an interruption, left.
BudgetInv ==
  \A j \in Job :
    /\ (status[j] = "none") => attempts[j] = 0
    /\ Bounded(j) =>
         /\ attempts[j] <= MaxAttempts + interrupted[j]
         /\ (status[j] = "queued") => attempts[j] < MaxAttempts + interrupted[j]
         /\ (status[j] = "running" /\ \A w \in Worker : work[w] # j) =>
              attempts[j] < MaxAttempts + interrupted[j]

IInv == TypeOK /\ HeldInv /\ RunnerInv /\ KeyInv /\ BudgetInv

-----------------------------------------------------------------------------

LEMMA DelayType == \A a \in Nat \ {0} : Delay(a) \in Nat
  BY QueueAssumption, SMT DEF Delay

LEMMA InitIInv == Init => IInv
  BY QueueAssumption
  DEF Init, IInv, TypeOK, HeldInv, RunnerInv, KeyInv, BudgetInv, Occupies,
      Statuses

-----------------------------------------------------------------------------
(* Every action preserves the invariant.                                   *)

\* Steps of the environment that touch no row and no worker.
LEMMA QuietIInv ==
  ASSUME IInv, UNCHANGED <<rowVars, work, copy, held, interrupted>>,
         up' \subseteq Proc, pending' \subseteq Key, active' \subseteq Account,
         past' \subseteq MonitorKey
  PROVE  IInv'
<1> USE DEF rowVars
<1>1. TypeOK'
  BY DEF IInv, TypeOK
<1>2. HeldInv' /\ RunnerInv'
  BY DEF IInv, HeldInv, RunnerInv, Current, Bounded
<1>3. KeyInv' /\ BudgetInv'
  BY DEF IInv, KeyInv, BudgetInv, Occupies, Bounded
<1> QED
  BY <1>1, <1>2, <1>3 DEF IInv

LEMMA EnqueueIInv ==
  ASSUME IInv, NEW k \in Key, Enqueue(k)
  PROVE  IInv'
<1> USE QueueAssumption
<1>1. CASE UNCHANGED rowVars
  BY <1>1, QuietIInv DEF Enqueue, procVars, envVars, IInv, TypeOK
<1>2. CASE \E j \in Job :
             /\ Holders(k) = {}
             /\ status[j] = "none"
             /\ status' = [status EXCEPT ![j] = "queued"]
             /\ asked' = [asked EXCEPT ![j] = k]
             /\ keyed' = [keyed EXCEPT ![j] = (k \notin Unkeyed)]
             /\ \E c \in {j} \cup {created[i] : i \in {m \in Job : m < j}} :
                  created' = [created EXCEPT ![j] = c]
             /\ UNCHANGED <<attempts, wait, age>>
  <2>1. PICK j \in Job :
             /\ Holders(k) = {}
             /\ status[j] = "none"
             /\ status' = [status EXCEPT ![j] = "queued"]
             /\ asked' = [asked EXCEPT ![j] = k]
             /\ keyed' = [keyed EXCEPT ![j] = (k \notin Unkeyed)]
             /\ \E c \in {j} \cup {created[i] : i \in {m \in Job : m < j}} :
                  created' = [created EXCEPT ![j] = c]
             /\ UNCHANGED <<attempts, wait, age>>
    BY <1>2
  <2>2. UNCHANGED <<up, work, copy, held, active, past, interrupted>>
    BY DEF Enqueue, procVars
  <2>3. \A i \in Job \ {j} : /\ status'[i] = status[i]
                             /\ asked'[i] = asked[i]
                             /\ keyed'[i] = keyed[i]
    BY <2>1 DEF IInv, TypeOK
  <2>4. status'[j] = "queued" /\ asked'[j] = k /\ keyed'[j] = (k \notin Unkeyed)
    BY <2>1 DEF IInv, TypeOK
  <2>5. \A w \in Worker : work[w] # NoJob => work[w] \in Job \ {j}
    BY <2>1 DEF IInv, TypeOK, HeldInv
  <2>6. TypeOK'
    <3>1. created' \in [Job -> Nat]
      BY <2>1 DEF IInv, TypeOK
    <3>2. pending' \subseteq Key
      BY DEF Enqueue, IInv, TypeOK
    <3> QED
      BY <2>1, <2>2, <3>1, <3>2 DEF IInv, TypeOK, Statuses
  <2>7. HeldInv'
    BY <2>1, <2>2, <2>3, <2>5 DEF IInv, HeldInv, Current, Bounded
  <2>8. RunnerInv'
    BY <2>2, <2>3, <2>5 DEF IInv, RunnerInv, Bounded
  <2>9. KeyInv'
    <3>1. \A i \in Job : ~(keyed[i] /\ asked[i] = k)
      BY <2>1 DEF Holders
    <3>2. \A i \in Job : (keyed[i] <=> (asked[i] \notin Unkeyed /\ Occupies(i)))'
      <4> TAKE i \in Job
      <4>1. CASE i = j
        BY <4>1, <2>4 DEF Occupies
      <4>2. CASE i # j
        BY <4>2, <2>3 DEF IInv, KeyInv, Occupies
      <4> QED
        BY <4>1, <4>2
    <3>3. \A h, i \in Job : ((keyed[h] /\ keyed[i] /\ asked[h] = asked[i]) => h = i)'
      BY <3>1, <2>3, <2>4 DEF IInv, KeyInv
    <3> QED
      BY <3>2, <3>3 DEF KeyInv
  <2>10. BudgetInv'
    <3> SUFFICES ASSUME NEW i \in Job
                 PROVE  /\ (status'[i] = "none") => attempts'[i] = 0
                        /\ Bounded(i)' =>
                             /\ attempts'[i] <= MaxAttempts + interrupted'[i]
                             /\ (status'[i] = "queued") => attempts'[i] < MaxAttempts + interrupted'[i]
                             /\ (status'[i] = "running" /\ \A w \in Worker : work'[w] # i) =>
                                  attempts'[i] < MaxAttempts + interrupted'[i]
      BY DEF BudgetInv
    <3>1. CASE i = j
      <4>1. attempts'[j] = 0 /\ interrupted'[j] \in Nat
        BY <2>1, <2>2 DEF IInv, TypeOK, BudgetInv
      <4> QED
        BY <3>1, <4>1, <2>4
    <3>2. CASE i # j
      BY <3>2, <2>1, <2>2, <2>3 DEF IInv, BudgetInv, Bounded
    <3> QED
      BY <3>1, <3>2
  <2> QED
    BY <2>6, <2>7, <2>8, <2>9, <2>10 DEF IInv
<1> QED
  BY <1>1, <1>2 DEF Enqueue

LEMMA ClaimIInv ==
  ASSUME IInv, NEW w \in Worker, NEW j \in Job, Claim(w, j)
  PROVE  IInv'
<1> USE QueueAssumption DEF IInv, TypeOK, Claim
<1>1. status[j] = "queued"
  BY DEF Oldest, Due
<1>2. \A v \in Worker : work[v] = j => ~Bounded(j)
  BY <1>1 DEF HeldInv, Current
<1>3. TypeOK'
  BY DEF Statuses, envVars
<1>4. HeldInv'
  <2> SUFFICES ASSUME NEW v \in Worker, work'[v] # NoJob
               PROVE  /\ status'[work'[v]] # "none"
                      /\ copy'[v] > 0
                      /\ Bounded(work[v])' => Current(v)'
    BY DEF HeldInv
  <2>1. CASE v = w
    BY <2>1 DEF Current
  <2>2. CASE v # w
    <3>1. work'[v] = work[v] /\ copy'[v] = copy[v] /\ held'[v] = held[v] /\ work[v] \in Job
      BY <2>2
    <3>2. CASE work[v] = j
      BY <3>1, <3>2, <1>2 DEF HeldInv, Bounded
    <3>3. CASE work[v] # j
      BY <3>1, <3>3 DEF HeldInv, Bounded, Current
    <3> QED
      BY <3>2, <3>3
  <2> QED
    BY <2>1, <2>2
<1>5. RunnerInv'
  BY <1>2 DEF RunnerInv, Bounded
<1>6. KeyInv'
  BY <1>1 DEF KeyInv, Occupies
<1>7. BudgetInv'
  BY <1>1, <1>2 DEF BudgetInv, envVars, Bounded
<1> QED
  BY <1>3, <1>4, <1>5, <1>6, <1>7

LEMMA RejectIInv ==
  ASSUME IInv, NEW w \in Worker, NEW j \in Job, Reject(w, j)
  PROVE  IInv'
<1> USE QueueAssumption DEF IInv, TypeOK, Reject, procVars, envVars
<1>1. status[j] = "queued"
  BY DEF Oldest, Due
<1>2. \A v \in Worker : work[v] = j => ~Bounded(j)
  BY <1>1 DEF HeldInv, Current
<1>3. TypeOK'
  BY DEF Statuses
<1>4. HeldInv'
  BY <1>2 DEF HeldInv, Current, Bounded
<1>5. RunnerInv'
  BY DEF RunnerInv, Bounded
<1>6. KeyInv'
  BY <1>1 DEF KeyInv, Occupies
<1>7. BudgetInv'
  BY <1>1 DEF BudgetInv, Bounded
<1> QED
  BY <1>3, <1>4, <1>5, <1>6, <1>7

-----------------------------------------------------------------------------
(* The statements that end a run.  What they share is a lemma of its own.  *)

\* Once worker w is released, the other workers hold what they held.
LEMMA ReleaseHeld ==
  ASSUME IInv, NEW w \in Worker, work[w] # NoJob, Release(w), UNCHANGED <<asked, attempts>>,
         \A i \in Job : status'[i] = "none" => status[i] = "none",
         \A i \in Job \ {work[w]} : status'[i] = status[i] /\ age'[i] = age[i]
  PROVE  HeldInv' /\ RunnerInv' /\ (Bounded(work[w]) => \A v \in Worker : work'[v] # work[w])
<1> USE QueueAssumption DEF IInv, TypeOK, Release
<1>1. \A v \in Worker : v # w => work'[v] = work[v] /\ copy'[v] = copy[v] /\ held'[v] = held[v]
  OBVIOUS
<1>2. work'[w] = NoJob /\ work[w] \in Job
  OBVIOUS
<1>3. Bounded(work[w]) => \A v \in Worker : work'[v] # work[w]
  BY <1>1, <1>2 DEF RunnerInv
<1>4. HeldInv'
  <2> SUFFICES ASSUME NEW v \in Worker, work'[v] # NoJob
               PROVE  /\ status'[work'[v]] # "none"
                      /\ copy'[v] > 0
                      /\ Bounded(work[v])' => Current(v)'
    BY DEF HeldInv
  <2>1. v # w
    BY <1>2
  <2>2. work'[v] = work[v] /\ copy'[v] = copy[v] /\ held'[v] = held[v] /\ work[v] \in Job
    BY <1>1, <2>1
  <2>3. /\ status[work[v]] # "none" /\ copy[v] > 0
        /\ Bounded(work[v]) => Current(v)
    BY <2>2 DEF HeldInv
  <2>4. ASSUME Bounded(work[v]) PROVE work[v] # work[w]
    BY <2>1, <2>2, <2>4 DEF RunnerInv
  <2>5. Bounded(work[v]) => status'[work[v]] = status[work[v]] /\ age'[work[v]] = age[work[v]]
    BY <2>2, <2>4
  <2> QED
    BY <2>2, <2>3, <2>5 DEF Bounded, Current
<1>5. RunnerInv'
  BY <1>1, <1>2 DEF RunnerInv, Bounded
<1> QED
  BY <1>3, <1>4, <1>5

LEMMA CompleteIInv ==
  ASSUME IInv, NEW w \in Worker, Complete(w)
  PROVE  IInv'
<1> USE QueueAssumption DEF IInv, TypeOK, Complete, EndAs, envVars
<1>1. work[w] \in Job /\ (Bounded(work[w]) => status[work[w]] = "running")
  BY DEF HeldInv, Current
<1>2. TypeOK'
  BY <1>1 DEF Release, Statuses
<1>3. HeldInv' /\ RunnerInv' /\ (Bounded(work[w]) => \A v \in Worker : work'[v] # work[w])
  BY <1>1, ReleaseHeld
<1>4. KeyInv'
  BY <1>1 DEF KeyInv, Occupies, Bounded
<1>5. BudgetInv'
  BY <1>1 DEF BudgetInv, Release, Bounded
<1> QED
  BY <1>2, <1>3, <1>4, <1>5

LEMMA FailRetryIInv ==
  ASSUME IInv, NEW w \in Worker, FailRetry(w)
  PROVE  IInv'
<1> USE QueueAssumption DEF IInv, TypeOK, FailRetry, EndAs, envVars
<1>1. /\ work[w] \in Job /\ copy[w] > 0
      /\ Bounded(work[w]) => status[work[w]] = "running" /\ attempts[work[w]] = copy[w]
  BY DEF HeldInv, Current
<1>2. TypeOK'
  <2>1. wait' \in [Job -> Nat]
    BY <1>1, DelayType
  <2> QED
    BY <1>1, <2>1 DEF Release, Statuses
<1>3. HeldInv' /\ RunnerInv' /\ (Bounded(work[w]) => \A v \in Worker : work'[v] # work[w])
  BY <1>1, ReleaseHeld
<1>4. KeyInv'
  BY <1>1 DEF KeyInv, Occupies, Bounded
<1>5. BudgetInv'
  BY <1>1 DEF BudgetInv, Release, Bounded
<1> QED
  BY <1>2, <1>3, <1>4, <1>5

LEMMA FailFinalIInv ==
  ASSUME IInv, NEW w \in Worker, FailFinal(w)
  PROVE  IInv'
<1> USE QueueAssumption DEF IInv, TypeOK, FailFinal, EndAs, envVars
<1>1. work[w] \in Job /\ (Bounded(work[w]) => status[work[w]] = "running")
  BY DEF HeldInv, Current
<1>2. TypeOK'
  BY <1>1 DEF Release, Statuses
<1>3. HeldInv' /\ RunnerInv' /\ (Bounded(work[w]) => \A v \in Worker : work'[v] # work[w])
  BY <1>1, ReleaseHeld
<1>4. KeyInv'
  BY <1>1 DEF KeyInv, Occupies, Bounded
<1>5. BudgetInv'
  BY <1>1 DEF BudgetInv, Release, Bounded
<1> QED
  BY <1>2, <1>3, <1>4, <1>5

LEMMA EndLostIInv ==
  ASSUME IInv, NEW w \in Worker, EndLost(w)
  PROVE  IInv'
<1> USE QueueAssumption DEF IInv, TypeOK
<1>1. work[w] \in Job
  BY DEF EndLost
<1>2. TypeOK'
  <2>1. \A j \in Job : [interrupted EXCEPT ![j] = interrupted[j] + 1] \in [Job -> Nat]
    OBVIOUS
  <2>2. interrupted' \in [Job -> Nat]
    BY <1>1, <2>1 DEF EndLost
  <2> QED
    BY <2>2 DEF Release, EndLost, rowVars
<1>3. HeldInv' /\ RunnerInv'
  BY <1>1, ReleaseHeld DEF EndLost, rowVars
<1>4. KeyInv'
  BY DEF KeyInv, Occupies, EndLost, rowVars
<1>5. BudgetInv'
  BY <1>1 DEF BudgetInv, Release, EndLost, rowVars, Bounded
<1> QED
  BY <1>2, <1>3, <1>4, <1>5

-----------------------------------------------------------------------------
(* Processes, time and retention.                                          *)

\* Recovery leaves a row alone that a worker still runs, unless it hangs.
LEMMA HeldNotRecoverable ==
  ASSUME IInv, NEW w \in Worker, work[w] # NoJob, Bounded(work[w])
  PROVE  ~Recoverable(work[w])
<1>1. age[work[w]] <= JobTimeout /\ age[work[w]] \in Nat
  BY QueueAssumption DEF IInv, TypeOK, HeldInv, Current
<1> QED
  BY <1>1, QueueAssumption, TimeoutAssumption DEF Recoverable

LEMMA OpenIInv ==
  ASSUME IInv, NEW p \in Proc, Open(p)
  PROVE  IInv'
<1> DEFINE taken == {j \in HeldJobs : Recoverable(j)}
<1>1. \A j \in Job : Recoverable(j) => status[j] = "running"
  BY DEF Recoverable
<1>2. \A w \in Worker : (work[w] # NoJob /\ Bounded(work[w])) => ~Recoverable(work[w])
  BY HeldNotRecoverable
<1>3. /\ up' = up \cup {p}
      /\ status' = [j \in Job |-> IF Recoverable(j) THEN "queued" ELSE status[j]]
      /\ wait' = [j \in Job |-> IF Recoverable(j) THEN 0 ELSE wait[j]]
      /\ age' = [j \in Job |-> IF Recoverable(j) THEN 0 ELSE age[j]]
      /\ interrupted' = [j \in Job |-> interrupted[j] + (IF j \in taken THEN 1 ELSE 0)]
      /\ UNCHANGED <<asked, keyed, attempts, created, work, copy, held, pending, active, past>>
  BY DEF Open
<1>4. \A j \in Job : interrupted'[j] \in Nat /\ interrupted'[j] >= interrupted[j]
  <2> HIDE DEF taken
  <2> QED
    BY <1>3 DEF IInv, TypeOK
<1> HIDE DEF taken
<1>5. TypeOK'
  <2>1. interrupted' \in [Job -> Nat]
    BY <1>3, <1>4
  <2> QED
    BY <1>3, <2>1 DEF IInv, TypeOK, Statuses
<1>6. HeldInv'
  <2> SUFFICES ASSUME NEW w \in Worker, work[w] # NoJob
               PROVE  /\ status'[work[w]] # "none"
                      /\ copy[w] > 0
                      /\ Bounded(work[w]) => Current(w)'
    BY <1>3 DEF HeldInv, Bounded
  <2>1. work[w] \in Job
    BY DEF IInv, TypeOK
  <2> QED
    BY <1>2, <1>3, <2>1 DEF IInv, HeldInv, Current
<1>7. RunnerInv'
  BY <1>3 DEF IInv, RunnerInv, Bounded
<1>8. KeyInv'
  BY <1>1, <1>3 DEF IInv, KeyInv, Occupies
<1>9. BudgetInv'
  BY <1>1, <1>2, <1>3, <1>4, QueueAssumption DEF IInv, TypeOK, BudgetInv, Bounded
<1> QED
  BY <1>5, <1>6, <1>7, <1>8, <1>9 DEF IInv

LEMMA StopIInv ==
  ASSUME IInv, NEW p \in Proc, Stop(p)
  PROVE  IInv'
<1> DEFINE cut == {w \in Busy : Home[w] = p}
           jobs == {work[w] : w \in cut}
<1>1. /\ interrupted' = [j \in Job |-> interrupted[j] + (IF j \in jobs THEN 1 ELSE 0)]
      /\ work' = [w \in Worker |-> IF w \in cut THEN NoJob ELSE work[w]]
      /\ copy' = [w \in Worker |-> IF w \in cut THEN 0 ELSE copy[w]]
      /\ held' = [w \in Worker |-> IF w \in cut THEN 0 ELSE held[w]]
      /\ up' = up \ {p}
      /\ pending' \in {{}, pending}
      /\ UNCHANGED <<status, asked, keyed, attempts, wait, age, created, active, past>>
  BY DEF Stop, rowVars
<1>2. \A w \in Worker : work'[w] # NoJob =>
        work'[w] = work[w] /\ copy'[w] = copy[w] /\ held'[w] = held[w]
  BY <1>1
<1>3. \A j \in Job : /\ interrupted'[j] \in Nat
                     /\ interrupted'[j] >= interrupted[j]
                     /\ j \in jobs => interrupted'[j] > interrupted[j]
  <2> HIDE DEF jobs
  <2> QED
    BY <1>1 DEF IInv, TypeOK
<1>4. TypeOK'
  <2>1. interrupted' \in [Job -> Nat]
    BY <1>1, <1>3
  <2>2. /\ work' \in [Worker -> Job \cup {NoJob}]
        /\ copy' \in [Worker -> Nat]
        /\ held' \in [Worker -> Nat]
    <3> HIDE DEF cut
    <3> QED
      BY <1>1 DEF IInv, TypeOK
  <2>3. UNCHANGED <<status, asked, keyed, attempts, wait, age, created, active, past>>
        /\ up' \subseteq Proc /\ pending' \subseteq Key
    BY <1>1 DEF IInv, TypeOK
  <2> QED
    BY <2>1, <2>2, <2>3 DEF IInv, TypeOK
<1>5. HeldInv'
  BY <1>1, <1>2 DEF IInv, HeldInv, Current, Bounded
<1>6. RunnerInv'
  BY <1>1, <1>2 DEF IInv, RunnerInv, Bounded
<1>7. KeyInv'
  BY <1>1 DEF IInv, KeyInv, Occupies
<1>8. BudgetInv'
  <2> SUFFICES ASSUME NEW j \in Job
               PROVE  /\ (status[j] = "none") => attempts[j] = 0
                      /\ Bounded(j) =>
                           /\ attempts[j] <= MaxAttempts + interrupted'[j]
                           /\ (status[j] = "queued") => attempts[j] < MaxAttempts + interrupted'[j]
                           /\ (status[j] = "running" /\ \A w \in Worker : work'[w] # j) =>
                                attempts[j] < MaxAttempts + interrupted'[j]
    BY <1>1 DEF BudgetInv, Bounded
  <2>1. CASE \E w \in Worker : work[w] = j /\ work'[w] # j
    <3>1. j \in jobs
      BY <2>1, <1>1, QueueAssumption DEF Busy
    <3> HIDE DEF jobs
    <3> QED
      BY <3>1, <1>3, QueueAssumption DEF IInv, TypeOK, BudgetInv
  <2>2. CASE \A w \in Worker : work[w] = j => work'[w] = j
    <3> HIDE DEF jobs
    <3> QED
      BY <2>2, <1>3, QueueAssumption DEF IInv, TypeOK, BudgetInv
  <2> QED
    BY <2>1, <2>2
<1> QED
  BY <1>4, <1>5, <1>6, <1>7, <1>8 DEF IInv

LEMMA TickIInv ==
  ASSUME IInv, Tick
  PROVE  IInv'
<1> USE QueueAssumption DEF IInv, TypeOK, Tick, envVars
<1>1. TypeOK'
  OBVIOUS
<1>2. HeldInv'
  <2> SUFFICES ASSUME NEW w \in Worker, work[w] # NoJob
               PROVE  /\ status[work[w]] # "none"
                      /\ copy[w] > 0
                      /\ Bounded(work[w]) => Current(w)'
    BY DEF HeldInv, Bounded
  <2>1. work[w] \in Job /\ status[work[w]] # "none" /\ copy[w] > 0
    BY DEF HeldInv
  <2>2. ASSUME Bounded(work[w]) PROVE Current(w)'
    <3>1. /\ status[work[w]] = "running"
          /\ attempts[work[w]] = copy[w] /\ age[work[w]] = held[w]
      BY <2>2 DEF HeldInv, Current
    <3>2. w \in Busy /\ held[w] < JobTimeout
      BY <2>2 DEF Timely, Busy
    <3>3. age[work[w]] <= RecoverAfter
      BY <3>1, <3>2, TimeoutAssumption
    <3> QED
      BY <2>1, <3>1, <3>2, <3>3 DEF Current
  <2> QED
    BY <2>1, <2>2
<1>3. RunnerInv'
  BY DEF RunnerInv, Bounded
<1>4. KeyInv'
  BY DEF KeyInv, Occupies
<1>5. BudgetInv'
  BY DEF BudgetInv, Bounded
<1> QED
  BY <1>1, <1>2, <1>3, <1>4, <1>5

LEMMA PruneIInv ==
  ASSUME IInv, NEW j \in Job, Prune(j)
  PROVE  IInv'
<1> USE QueueAssumption DEF IInv, TypeOK, Prune, procVars, envVars, Terminal
<1>1. \A w \in Worker : (work[w] # NoJob /\ Bounded(work[w])) => work[w] # j
  BY DEF HeldInv, Current
<1>2. TypeOK'
  BY DEF Statuses
<1>3. HeldInv'
  BY <1>1 DEF HeldInv, Current, Bounded
<1>4. RunnerInv'
  BY DEF RunnerInv, Bounded
<1>5. KeyInv'
  BY DEF KeyInv, Occupies
<1>6. BudgetInv'
  BY DEF BudgetInv, Bounded
<1> QED
  BY <1>2, <1>3, <1>4, <1>5, <1>6

LEMMA NextIInv == IInv /\ [Next]_vars => IInv'
<1> SUFFICES ASSUME IInv, [Next]_vars PROVE IInv'
  OBVIOUS
<1>1. ASSUME NEW k \in Key, CheckAccount(k) PROVE IInv'
  BY <1>1, QuietIInv DEF CheckAccount, rowVars, procVars, IInv, TypeOK
<1>2. ASSUME NEW k \in Key, Enqueue(k) PROVE IInv'
  BY <1>2, EnqueueIInv
<1>3. ASSUME NEW k \in Key, DropCall(k) PROVE IInv'
  BY <1>3, QuietIInv DEF DropCall, rowVars, procVars, IInv, TypeOK
<1>4. ASSUME NEW k \in Key, MinuteOver(k) PROVE IInv'
  BY <1>4, QuietIInv DEF MinuteOver, rowVars, procVars, IInv, TypeOK
<1>5. ASSUME NEW w \in Worker, NEW j \in Job, Claim(w, j) PROVE IInv'
  BY <1>5, ClaimIInv
<1>6. ASSUME NEW w \in Worker, NEW j \in Job, Reject(w, j) PROVE IInv'
  BY <1>6, RejectIInv
<1>7. ASSUME NEW w \in Worker, Complete(w) PROVE IInv'
  BY <1>7, CompleteIInv
<1>8. ASSUME NEW w \in Worker, FailRetry(w) PROVE IInv'
  BY <1>8, FailRetryIInv
<1>9. ASSUME NEW w \in Worker, FailFinal(w) PROVE IInv'
  BY <1>9, FailFinalIInv
<1>10. ASSUME NEW w \in Worker, EndLost(w) PROVE IInv'
  BY <1>10, EndLostIInv
<1>11. ASSUME NEW p \in Proc, Open(p) PROVE IInv'
  BY <1>11, OpenIInv
<1>12. ASSUME NEW p \in Proc, Stop(p) PROVE IInv'
  BY <1>12, StopIInv
<1>13. ASSUME NEW j \in Job, Prune(j) PROVE IInv'
  BY <1>13, PruneIInv
<1>14. ASSUME NEW a \in Account, RemoveAccount(a) PROVE IInv'
  BY <1>14, QuietIInv DEF RemoveAccount, rowVars, procVars, IInv, TypeOK
<1>15. CASE Tick
  BY <1>15, TickIInv
<1>16. CASE UNCHANGED vars
  BY <1>16, QuietIInv DEF vars, rowVars, IInv, TypeOK
<1> QED
  BY <1>1, <1>2, <1>3, <1>4, <1>5, <1>6, <1>7, <1>8, <1>9, <1>10, <1>11, <1>12,
     <1>13, <1>14, <1>15, <1>16 DEF Next

LEMMA AlwaysIInv == Spec => []IInv
  BY InitIInv, NextIInv, PTL DEF Spec

-----------------------------------------------------------------------------
(* The safety properties.                                                  *)

\* Every variable keeps its type, whatever workers, processes and requests do.
THEOREM TypeCorrect == Spec => []TypeOK
<1>1. IInv => TypeOK
  BY DEF IInv
<1> QED
  BY <1>1, AlwaysIInv, PTL

\* A job is never run by two workers at a time, in one process or in several:
\* recovery (store.Open) and ClaimJob hand out only jobs nobody runs.
THEOREM NoSecondRunner == Spec => []OneRunner
<1>1. IInv => OneRunner
  BY DEF IInv, RunnerInv, OneRunner, Timely, Busy
<1> QED
  BY <1>1, AlwaysIInv, PTL

\* CompleteJob and FailJob always end the claim their worker made, although
\* their WHERE clause does not ask for it.
THEOREM EndsAreOwn == Spec => []EndsOwnClaim
<1>1. IInv => EndsOwnClaim
  BY DEF IInv, HeldInv, Current, EndsOwnClaim, Timely, Busy
<1> QED
  BY <1>1, AlwaysIInv, PTL

\* Two jobs with one unique key are never both of use: at most one of them is
\* queued or running, or is the completed monitor job of the minute.
THEOREM KeysAreExclusive == Spec => []OneJobPerKey
<1>1. IInv => OneJobPerKey
  BY DEF IInv, KeyInv, OneJobPerKey
<1> QED
  BY <1>1, AlwaysIInv, PTL

\* A job starts at most MaxAttempts runs, plus one for each interrupted run.
THEOREM BudgetIsKept == Spec => []RetryBudget
<1>1. IInv => RetryBudget
  BY DEF IInv, BudgetInv, RetryBudget
<1> QED
  BY <1>1, AlwaysIInv, PTL

-----------------------------------------------------------------------------
(* The queue implements the ledger.  Its bookkeeping of test e-mails is      *)
(* invisible there: the steps on such a job stutter.                         *)

LEMMA LedgerInit == Init => Ledger!Init
  BY DEF Init, Ledger!Init, Stage, Task, Timely, Busy

\* While no row is inserted, the ledger's state follows status and work.
LEMMA View ==
  ASSUME UNCHANGED asked
  PROVE  /\ Stage' = [j \in Job |-> IF Bounded(j) THEN status'[j] ELSE "none"]
         /\ Task' = [w \in Worker |-> IF work'[w] # NoJob /\ asked[work'[w]] \notin Mail
                                      THEN work'[w] ELSE NoJob]
  BY DEF Stage, Task, Timely, Busy, Bounded

\* A worker that ends its run settles the job.
LEMMA EndSettles ==
  ASSUME IInv, NEW w \in Worker, NEW outcome \in {"queued", "completed", "failed"},
         work[w] # NoJob, EndAs(work[w], outcome), Release(w), UNCHANGED asked
  PROVE  Ledger!Next \/ UNCHANGED <<Stage, Task>>
<1> DEFINE j == work[w]
<1>1. j \in Job /\ j # NoJob /\ status \in [Job -> Statuses] /\ work \in [Worker -> Job \cup {NoJob}]
  BY QueueAssumption DEF IInv, TypeOK
<1>2. status' = [status EXCEPT ![j] = IF @ = "pruned" THEN @ ELSE outcome]
      /\ work' = [work EXCEPT ![w] = NoJob]
  BY DEF EndAs, Release
<1>3. CASE Bounded(j)
  <2>1. status[j] = "running"
    BY <1>3 DEF IInv, HeldInv, Current
  <2>2. Task[w] = j /\ Stage[j] = "running"
    BY <1>1, <1>3, <2>1 DEF Task, Stage, Timely, Busy
  <2>3. Stage' = [Stage EXCEPT ![j] = outcome]
    BY <1>1, <1>2, <1>3, <2>1, View DEF Stage
  <2>4. Task' = [Task EXCEPT ![w] = NoJob]
    BY <1>1, <1>2, View DEF Task, Timely, Busy, Bounded
  <2>5. Ledger!Settle(w, outcome)
    BY <1>1, <2>2, <2>3, <2>4 DEF Ledger!Settle
  <2> QED
    BY <2>5 DEF Ledger!Next, Ledger!Outcomes
<1>4. CASE ~Bounded(j)
  <2>1. UNCHANGED Stage
    BY <1>1, <1>2, <1>4, View DEF Stage
  <2>2. UNCHANGED Task
    BY <1>1, <1>2, <1>4, View DEF Task, Timely, Busy, Bounded
  <2> QED
    BY <2>1, <2>2
<1> QED
  BY <1>3, <1>4

\* A new row is a job posted, unless it is for a test e-mail.
LEMMA EnqueuePosts ==
  ASSUME IInv, NEW k \in Key, NEW j \in Job, status[j] = "none",
         status' = [status EXCEPT ![j] = "queued"],
         asked' = [asked EXCEPT ![j] = k], UNCHANGED work
  PROVE  Ledger!Next \/ UNCHANGED <<Stage, Task>>
<1>1. \A w \in Worker : work[w] # NoJob => work[w] \in Job \ {j}
  BY DEF IInv, TypeOK, HeldInv
<1>2. \A i \in Job \ {j} : asked'[i] = asked[i] /\ status'[i] = status[i]
  BY DEF IInv, TypeOK
<1>3. asked'[j] = k /\ status'[j] = "queued"
  BY DEF IInv, TypeOK
<1>4. UNCHANGED Task
  BY <1>1, <1>2 DEF Task, Timely, Busy, Bounded
<1>5. Stage' = [Stage EXCEPT ![j] = IF k \in Mail THEN "none" ELSE "queued"] /\ Stage[j] = "none"
  BY <1>2, <1>3 DEF Stage, Bounded
<1>6. CASE k \in Mail
  BY <1>4, <1>5, <1>6 DEF Stage
<1>7. CASE k \notin Mail
  BY <1>4, <1>5, <1>7 DEF Ledger!Next, Ledger!Post
<1> QED
  BY <1>6, <1>7

LEMMA LedgerNext == IInv /\ [Next]_vars => [Ledger!Next]_(Ledger!vars)
<1> SUFFICES ASSUME IInv, [Next]_vars PROVE Ledger!Next \/ UNCHANGED <<Stage, Task>>
  BY DEF Ledger!vars
<1>0. status \in [Job -> Statuses] /\ work \in [Worker -> Job \cup {NoJob}] /\ NoJob \notin Job
  BY QueueAssumption DEF IInv, TypeOK
<1>1. ASSUME NEW k \in Key, Enqueue(k)
      PROVE  Ledger!Next \/ UNCHANGED <<Stage, Task>>
  <2>1. UNCHANGED work
    BY <1>1 DEF Enqueue, procVars
  <2>2. CASE UNCHANGED rowVars
    BY <2>1, <2>2 DEF rowVars, Stage, Task, Timely, Busy, Bounded
  <2>3. CASE \E j \in Job : /\ status[j] = "none" /\ status' = [status EXCEPT ![j] = "queued"]
                            /\ asked' = [asked EXCEPT ![j] = k]
    BY <2>1, <2>3, EnqueuePosts
  <2> QED
    BY <1>1, <2>2, <2>3 DEF Enqueue
<1>2. ASSUME NEW w \in Worker, NEW j \in Job, Claim(w, j)
      PROVE  Ledger!Next \/ UNCHANGED <<Stage, Task>>
  <2>1. /\ status[j] = "queued" /\ work[w] = NoJob /\ UNCHANGED asked
        /\ status' = [status EXCEPT ![j] = "running"] /\ work' = [work EXCEPT ![w] = j]
    BY <1>2 DEF Claim, Oldest, Due
  <2>2. CASE Bounded(j)
    <3>1. \A v \in Worker : work[v] # j
      BY <1>0, <2>1, <2>2 DEF IInv, HeldInv, Current
    <3>2. Task[w] = NoJob /\ Stage[j] = "queued" /\ \A v \in Worker : Task[v] # j
      BY <1>0, <2>1, <2>2, <3>1 DEF Task, Stage, Timely, Busy
    <3>3. Stage' = [Stage EXCEPT ![j] = "running"]
      BY <1>0, <2>1, <2>2, View DEF Stage
    <3>4. Task' = [Task EXCEPT ![w] = j]
      BY <1>0, <2>1, <2>2, View DEF Task, Timely, Busy, Bounded
    <3> QED
      BY <3>2, <3>3, <3>4 DEF Ledger!Next, Ledger!Take, Ledger!Free
  <2>3. CASE ~Bounded(j)
    <3>1. UNCHANGED Stage
      BY <1>0, <2>1, <2>3, View DEF Stage
    <3>2. UNCHANGED Task
      BY <1>0, <2>1, <2>3, View DEF Task, Timely, Busy, Bounded
    <3> QED
      BY <3>1, <3>2
  <2> QED
    BY <2>2, <2>3
<1>3. ASSUME NEW w \in Worker, NEW j \in Job, Reject(w, j)
      PROVE  Ledger!Next \/ UNCHANGED <<Stage, Task>>
  <2>1. /\ status[j] = "queued" /\ UNCHANGED <<asked, work>>
        /\ status' = [status EXCEPT ![j] = "failed"]
    BY <1>3 DEF Reject, procVars, Oldest, Due
  <2>2. UNCHANGED Task
    BY <2>1, View DEF Task, Timely, Busy, Bounded
  <2>3. CASE Bounded(j)
    <3>1. Stage[j] = "queued" /\ Stage' = [Stage EXCEPT ![j] = "failed"]
      BY <1>0, <2>1, <2>3, View DEF Stage
    <3> QED
      BY <2>2, <3>1 DEF Ledger!Next, Ledger!Refuse
  <2>4. CASE ~Bounded(j)
    <3>1. UNCHANGED Stage
      BY <1>0, <2>1, <2>4, View DEF Stage
    <3> QED
      BY <2>2, <3>1
  <2> QED
    BY <2>3, <2>4
<1>4. ASSUME NEW w \in Worker, Complete(w) PROVE Ledger!Next \/ UNCHANGED <<Stage, Task>>
  BY <1>4, EndSettles DEF Complete
<1>5. ASSUME NEW w \in Worker, FailRetry(w) PROVE Ledger!Next \/ UNCHANGED <<Stage, Task>>
  BY <1>5, EndSettles DEF FailRetry
<1>6. ASSUME NEW w \in Worker, FailFinal(w) PROVE Ledger!Next \/ UNCHANGED <<Stage, Task>>
  BY <1>6, EndSettles DEF FailFinal
<1>7. ASSUME NEW w \in Worker, EndLost(w) PROVE Ledger!Next
  <2>1. UNCHANGED <<status, asked>> /\ work' = [work EXCEPT ![w] = NoJob]
    BY <1>7 DEF EndLost, rowVars, Release
  <2>2. UNCHANGED Stage
    BY <2>1, View DEF Stage
  <2>3. Task' = [v \in Worker |-> IF v \in {w} THEN NoJob ELSE Task[v]]
    BY <1>0, <2>1, View DEF Task, Timely, Busy, Bounded
  <2> QED
    BY <2>2, <2>3 DEF Ledger!Next, Ledger!Lose
<1>8. ASSUME NEW p \in Proc, Open(p) PROVE Ledger!Next
  <2> DEFINE S == {j \in Job : Recoverable(j) /\ Bounded(j)}
  <2>1. \A j \in S : Stage[j] = "running" /\ \A w \in Worker : Task[w] # j
    BY <1>0, HeldNotRecoverable DEF Recoverable, Stage, Task, Timely, Busy
  <2>2. /\ status' = [j \in Job |-> IF Recoverable(j) THEN "queued" ELSE status[j]]
        /\ UNCHANGED <<asked, work>>
    BY <1>8 DEF Open
  <2>3. UNCHANGED Task
    BY <2>2, View DEF Task, Timely, Busy, Bounded
  <2>4. Stage' = [j \in Job |-> IF j \in S THEN "queued" ELSE Stage[j]]
    BY <2>2, View DEF Stage
  <2>5. Ledger!Requeue(S)
    BY <2>1, <2>3, <2>4 DEF Ledger!Requeue, Ledger!Free
  <2> QED
    BY <2>5 DEF Ledger!Next
<1>9. ASSUME NEW p \in Proc, Stop(p) PROVE Ledger!Next
  <2> DEFINE cut == {w \in Busy : Home[w] = p}
  <2>1. /\ work' = [w \in Worker |-> IF w \in cut THEN NoJob ELSE work[w]]
        /\ UNCHANGED <<status, asked>>
    BY <1>9 DEF Stop, rowVars
  <2>2. UNCHANGED Stage
    BY <2>1, View DEF Stage
  <2>3. Task' = [w \in Worker |-> IF w \in cut THEN NoJob ELSE Task[w]]
    BY <2>1, View DEF Task, Timely, Busy, Bounded
  <2>4. Ledger!Lose(cut) /\ cut \subseteq Worker
    BY <2>2, <2>3 DEF Ledger!Lose, Busy
  <2> QED
    BY <2>4 DEF Ledger!Next
<1>10. ASSUME NEW j \in Job, Prune(j) PROVE Ledger!Next \/ UNCHANGED <<Stage, Task>>
  <2>1. /\ status[j] \in {"completed", "failed"} /\ UNCHANGED <<asked, work>>
        /\ status' = [status EXCEPT ![j] = "pruned"]
    BY <1>10 DEF Prune, procVars, Terminal
  <2>2. UNCHANGED Task
    BY <2>1, View DEF Task, Timely, Busy, Bounded
  <2>3. CASE Bounded(j)
    <3>1. Stage[j] \in {"completed", "failed"} /\ Stage' = [Stage EXCEPT ![j] = "pruned"]
      BY <1>0, <2>1, <2>3, View DEF Stage
    <3> QED
      BY <2>2, <3>1 DEF Ledger!Next, Ledger!Forget
  <2>4. CASE ~Bounded(j)
    <3>1. UNCHANGED Stage
      BY <1>0, <2>1, <2>4, View DEF Stage
    <3> QED
      BY <2>2, <3>1
  <2> QED
    BY <2>3, <2>4
<1>11. ASSUME Tick \/ (\E k \in Key : CheckAccount(k) \/ DropCall(k) \/ MinuteOver(k))
                   \/ (\E a \in Account : RemoveAccount(a)) \/ UNCHANGED vars
       PROVE  UNCHANGED <<Stage, Task>>
  <2>1. UNCHANGED <<status, asked, work>>
    BY <1>11 DEF Tick, CheckAccount, DropCall, MinuteOver, RemoveAccount, rowVars, procVars, vars
  <2> QED
    BY <2>1 DEF Stage, Task, Timely, Busy, Bounded
<1> QED
  BY <1>1, <1>2, <1>3, <1>4, <1>5, <1>6, <1>7, <1>8, <1>9, <1>10, <1>11 DEF Next

\* The queue with its rows, clocks, keys, crashes and recovery keeps the promises
\* of the ledger: only a job's runner settles it, and only abandoned jobs are requeued.
THEOREM QueueImplementsLedger == Spec => ImplementsLedger
  BY LedgerInit, LedgerNext, AlwaysIInv, PTL DEF Spec, ImplementsLedger, Ledger!Spec

=============================================================================
