---------------------------- MODULE AccountMonitor ----------------------------
(***************************************************************************)
(* One monitored account: the runs of processAccount, control and the      *)
(* daily report's refresh in internal/engine/engine.go, the account's row  *)
(* and action events in the database, the cache of traffic readings in     *)
(* internal/aliyun/client.go, and the cloud instance that the runs read    *)
(* and command.                                                            *)
(*                                                                         *)
(* A run is a job of module JobQueue.  The workers of one process take     *)
(* turns (accountLock); two processes that share the database, as the      *)
(* server and a run-once command do, are kept apart by the keys of the     *)
(* table action_events alone.  Every SQL statement and every call of the   *)
(* provider is a step, and a run may be cut off between any two: by a      *)
(* crash, or by its deadline, which makes all its later statements fail.   *)
(*                                                                         *)
(* Simplifications.  A slot is a minute in which something is scheduled;   *)
(* slots are farther apart than the polling interval.  Traffic is below or *)
(* above the threshold.  The configuration does not change.  What the      *)
(* provider answers is what the cloud's state is at that moment; only the  *)
(* traffic may be of an earlier one, from the cache.  The attempts of the  *)
(* client to make one call are one step.                                   *)
(***************************************************************************)
EXTENDS Naturals, FiniteSets

CONSTANTS
  Worker,       \* workers that run jobs of the account
  Confs,        \* the settings that are looked at, see Setting
  LastSlot,     \* bound of the model: slots are 1..LastSlot
  StartDue,     \* slots at most 10 minutes after the scheduled start
  StopDue,      \* slots at most 10 minutes after the scheduled stop
  Running,      \* slots in the time range from start to stop
  Cycle,        \* Cycle[s]: the date scheduleCycleDate gives slot s
  MaxFaults,    \* bound of the model: failed, cut off and outside operations
  Busy          \* bound of the model: whether the traffic can reach the threshold

Slot == 1..LastSlot

\* The account's configuration, whether daily reports are made of it, whether its
\* traffic pool has other accounts, and whether all workers belong to one process
\* or each to one of its own.
Setting == [schedule : BOOLEAN, keepAlive : BOOLEAN, stopOnThreshold : BOOLEAN,
            report : BOOLEAN, pool : BOOLEAN, oneProcess : BOOLEAN]

ASSUME MonitorAssumption ==
  /\ Confs \subseteq Setting
  /\ LastSlot \in Nat \ {0}
  /\ StartDue \subseteq Slot /\ StopDue \subseteq Slot /\ Running \subseteq Slot
  /\ Cycle \in [Slot -> Slot]
  /\ MaxFaults \in Nat
  /\ Busy \in BOOLEAN

VARIABLES
  conf,         \* the setting, chosen at the start
  now,          \* the slot
  \* the database
  status,       \* accounts.instance_status
  used,         \* accounts.traffic_used
  sampled,      \* the slot of accounts.updated_at, 0 for none
  events,       \* action_events.event_key
  notices,      \* threshold notifications put in the outbox
  \* the program
  run,          \* what each worker does, see Run
  cache,        \* per worker: the month's entry in the cache of its process
  \* the cloud
  cloud,        \* state of the instance
  usage,        \* traffic of the month
  \* bookkeeping of the model
  faults,       \* faults so far
  months,       \* months begun
  standing,     \* per key: calls made under it and not taken back
  lost,         \* keys whose run was cut off between the record and the call
  owed,         \* the cloud is carrying out a call that was acknowledged
  reverted,     \* a report has hidden that from the account's row
  fused,        \* the month's traffic made the engine stop the instance
  overtakes     \* low readings that got into the cache after a later high one

db == <<status, used, sampled, events, notices>>
world == <<conf, now, cloud, usage>>
pledge == <<owed, reverted>>
alarm == <<months, fused, overtakes>>
book == <<faults, standing, lost, pledge, alarm>>
vars == <<db, run, cache, world, book>>

InFlight == {"Starting", "Stopping"}
Settled == {"Running", "Stopped"}
Status == InFlight \cup Settled \cup {"Unknown"}
Level == {"low", "high"}
Act == {"start", "stop"}

Key == (Act \X Slot) \cup ({"threshold", "alert"} \X {0}) \cup ({"keepalive"} \X Slot)
StopKey == <<"threshold", 0>>
AlertKey == <<"alert", 0>>

\* A worker's run: where it is, the slot it began in, its copy of the row's status
\* and traffic, whether that is old enough to poll, the two answers it waits for
\* (later: whether they failed), whether the traffic has still to be put in the
\* cache, the scheduled action it took, and the call it is about to make.
Run == [pc : {"idle", "start", "stop", "poll", "fall", "clear", "fuse", "alert",
              "notify", "keepalive", "call", "acked", "refused", "waits", "report"},
        at : Slot, status : Status, traffic : Level, due : BOOLEAN,
        changed : Act \cup {"no"},
        gotTraffic : Level \cup {"no", "failed"}, gotStatus : Status \cup {"no", "failed"},
        news : BOOLEAN, why : {"schedule", "threshold", "keepalive", "manual"}, act : Act]

Idle == [pc |-> "idle", at |-> 1, status |-> "Unknown", traffic |-> "low",
         due |-> FALSE, changed |-> "no", gotTraffic |-> "no", gotStatus |-> "no",
         news |-> FALSE, why |-> "manual", act |-> "start"]

TypeOK ==
  /\ conf \in Confs /\ now \in Slot
  /\ status \in Status /\ used \in Level /\ sampled \in 0..LastSlot
  /\ events \subseteq Key /\ notices \in Nat
  /\ run \in [Worker -> Run]
  /\ cache \in [Worker -> Level \cup {"none"}]
  /\ cloud \in Status \ {"Unknown"} /\ usage \in Level
  /\ faults \in 0..MaxFaults
  /\ months \in Nat /\ overtakes \in Nat /\ months + overtakes <= faults
  /\ standing \in [Key -> Nat] /\ lost \subseteq Key
  /\ owed \in BOOLEAN /\ reverted \in BOOLEAN /\ fused \in BOOLEAN

Init ==
  /\ conf \in Confs /\ now = 1
  /\ status = "Unknown" /\ used = "low" /\ sampled = 0
  /\ events = {} /\ notices = 0
  /\ run = [w \in Worker |-> Idle]
  /\ cache = [w \in Worker |-> "none"]
  /\ cloud \in Settled /\ usage = "low"
  /\ faults = 0 /\ months = 0 /\ overtakes = 0
  /\ standing = [k \in Key |-> 0] /\ lost = {}
  /\ owed = FALSE /\ reverted = FALSE /\ fused = FALSE

-----------------------------------------------------------------------------
(* Runs begin and end.                                                     *)

At(w, pc) == run[w].pc = pc
Goto(w, pc) == run' = [run EXCEPT ![w].pc = pc]
Finish(w) == run' = [run EXCEPT ![w] = Idle]
Transit(act) == IF act = "start" THEN "Starting" ELSE "Stopping"
Reached(act) == IF act = "start" THEN "Running" ELSE "Stopped"

\* Whether executeScheduledAction has something to do.
Wanted(r, act) ==
  /\ conf.schedule
  /\ r.at \in (IF act = "start" THEN StartDue ELSE StopDue)
  /\ r.status \notin InFlight \cup {Reached(act)}

\* Whether the run asks the provider.
Due(r) == r.due \/ r.changed # "no"
Failed(r) == r.gotTraffic = "failed"

\* Faulty: a failed query counts as no traffic.
VerdictOnError(r) ==
  LET over == r.traffic = "high"
      stop == conf.stopOnThreshold /\ r.status \notin InFlight \cup {"Stopped"}
  IN CASE Failed(r) \/ ~over   -> [r EXCEPT !.pc = "fall"]
       [] ~Failed(r) /\ over /\ ~Due(r) -> Idle
       [] OTHER -> [Idle EXCEPT !.pc = IF stop THEN "fuse" ELSE "alert", !.at = r.at]

\* Where a run that knows its traffic and status goes.  Below the threshold the
\* keys of alert and stop fall; above it, on fresh traffic only, the instance is
\* stopped if that is the policy, and an alert is due.
Verdict(r) ==
  LET over == r.traffic = "high"
      stop == conf.stopOnThreshold /\ r.status \notin InFlight \cup {"Stopped"}
  IN CASE Failed(r) \/ (over /\ ~Due(r)) -> Idle
       [] ~Failed(r) /\ ~over            -> [r EXCEPT !.pc = "fall"]
       [] OTHER -> [Idle EXCEPT !.pc = IF stop THEN "fuse" ELSE "alert", !.at = r.at]

\* The run at the next statement that concerns anybody else: the scheduled start,
\* the scheduled stop, the poll, or what follows from the threshold.
Resume(r, from) ==
  IF from = "start" /\ Wanted(r, "start") THEN [r EXCEPT !.pc = "start"]
  ELSE IF from # "poll" /\ Wanted(r, "stop") THEN [r EXCEPT !.pc = "stop"]
  ELSE IF Due(r) THEN [r EXCEPT !.pc = "poll"] ELSE Verdict(r)

\* Faulty: a mutex for each run rather than for each account.
FreeUnlocked(w) == TRUE

\* The worker has the account's mutex; the worker can get it.
Locked(w) == run[w].pc \notin {"idle", "waits"}
Free(w) == conf.oneProcess => \A v \in Worker : ~Locked(v)

\* processAccount reads the configuration, the account and the clock.
Begin(w, force) ==
  /\ At(w, "idle") /\ Free(w)
  /\ run' = [run EXCEPT ![w] = Resume([Idle EXCEPT !.at = now, !.status = status, !.traffic = used,
                                                   !.due = force \/ sampled # now], "start")]
  /\ UNCHANGED <<db, cache, world, book>>

\* control reads the account, and goes on if there is something to do.
BeginControl(w, act) ==
  /\ At(w, "idle") /\ Free(w)
  /\ status \notin InFlight
  /\ ~(conf.keepAlive /\ act = "stop")
  /\ status # Reached(act)
  /\ run' = [run EXCEPT ![w] = [Idle EXCEPT !.pc = "call", !.at = now, !.why = "manual", !.act = act]]
  /\ UNCHANGED <<db, cache, world, book>>

\* A daily report reads the accounts, and then goes for the mutex of one.
BeginReport(w) ==
  /\ At(w, "idle") /\ conf.report
  /\ run' = [run EXCEPT ![w] = [Idle EXCEPT !.pc = "waits", !.at = now, !.status = status]]
  /\ UNCHANGED <<db, cache, world, book>>

-----------------------------------------------------------------------------
(* Calls.  Every automatic one is made under a key that is recorded first. *)

KeyOf(r) ==
  CASE r.why = "schedule"  -> <<r.act, Cycle[r.at]>>
    [] r.why = "threshold" -> StopKey
    [] r.why = "keepalive" -> <<"keepalive", r.at>>

Holds(w, k) ==
  run[w].pc \in {"call", "acked", "refused"} /\ run[w].why # "manual" /\ KeyOf(run[w]) = k
Held(k) == \E w \in Worker : Holds(w, k)

\* Faulty: the run goes on whether its key is new or not.
RecordHeedless(w, why, act, otherwise) ==
  LET r == [(IF why = "schedule" THEN run[w] ELSE Idle)
              EXCEPT !.pc = "call", !.at = run[w].at, !.why = why, !.act = act] IN
  /\ run' = [run EXCEPT ![w] = r]
  /\ events' = events \cup {KeyOf(r)}
  /\ UNCHANGED <<status, used, sampled, notices, cache, world, book>>

\* RecordActionEvent for a call: who inserts the key makes the call, anybody
\* else's run becomes `otherwise'.
Record(w, why, act, otherwise) ==
  LET r == [(IF why = "schedule" THEN run[w] ELSE Idle)
              EXCEPT !.pc = "call", !.at = run[w].at, !.why = why, !.act = act] IN
  /\ run' = [run EXCEPT ![w] = IF KeyOf(r) \notin events THEN r ELSE otherwise]
  /\ events' = events \cup {KeyOf(r)}
  /\ UNCHANGED <<status, used, sampled, notices, cache, world, book>>

\* The cloud takes a command it can obey, and the answer may still get lost;
\* any other command, and any command now and then, fails without an effect.
Call(w) ==
  /\ At(w, "call")
  /\ LET r == run[w]
         from == IF r.act = "start" THEN "Stopped" ELSE "Running"
     IN  /\ standing' = IF r.why = "manual" THEN standing
                         ELSE [standing EXCEPT ![KeyOf(r)] = @ + 1]
         /\ \/ /\ cloud = from
               /\ cloud' = Transit(r.act)
               /\ \/ Goto(w, "acked") /\ owed' = TRUE /\ UNCHANGED faults
                  \/ /\ faults < MaxFaults
                     /\ faults' = faults + 1
                     /\ Goto(w, "refused")
                     /\ UNCHANGED owed
            \/ /\ cloud # from
               /\ Goto(w, "refused")
               /\ UNCHANGED <<cloud, owed, faults>>
            \/ /\ cloud = from
               /\ faults < MaxFaults
               /\ faults' = faults + 1
               /\ Goto(w, "refused")
               /\ UNCHANGED <<cloud, owed>>
  /\ UNCHANGED <<db, cache, conf, now, usage, lost, reverted, alarm>>

\* Faulty: an accepted call is not written to the account's row.
AcknowledgeSilently(w) ==
  /\ At(w, "acked")
  /\ IF run[w].why = "threshold" THEN Goto(w, "alert") ELSE Finish(w)
  /\ fused' = (fused \/ (run[w].why = "threshold" /\ cache[w] = "high"))
  /\ UNCHANGED <<db, cache, world, faults, standing, lost, pledge, months, overtakes>>

\* The call succeeded: the row and the run's copy show the transition.
Acknowledge(w) ==
  /\ At(w, "acked")
  /\ LET r == run[w] IN
       /\ status' = Transit(r.act)
       /\ CASE r.why = "schedule" ->
                 run' = [run EXCEPT ![w] =
                   Resume([r EXCEPT !.status = Transit(r.act), !.changed = r.act],
                          IF r.act = "start" THEN "stop" ELSE "poll")]
            [] r.why = "threshold" -> Goto(w, "alert")
            [] OTHER -> Finish(w)
       /\ fused' = (fused \/ (r.why = "threshold" /\ cache[w] = "high"))
  /\ UNCHANGED <<used, sampled, events, notices, cache, world, faults, standing, lost, pledge,
                 months, overtakes>>

\* Faulty: the key of a failed call stays.
TakeBackNothing(w) ==
  /\ At(w, "refused")
  /\ IF run[w].why = "manual" THEN UNCHANGED standing
     ELSE standing' = [standing EXCEPT ![KeyOf(run[w])] = IF @ > 0 THEN @ - 1 ELSE 0]
  /\ Finish(w)
  /\ UNCHANGED <<db, cache, world, faults, lost, pledge, alarm>>

\* The call failed: its key is deleted and the job fails, to be run again.
TakeBack(w) ==
  /\ At(w, "refused")
  /\ IF run[w].why = "manual" THEN UNCHANGED <<events, standing>>
     ELSE /\ events' = events \ {KeyOf(run[w])}
          /\ standing' = [standing EXCEPT ![KeyOf(run[w])] = IF @ > 0 THEN @ - 1 ELSE 0]
  /\ Finish(w)
  /\ UNCHANGED <<status, used, sampled, notices, cache, world, faults, lost, pledge, alarm>>

-----------------------------------------------------------------------------
(* processAccount, from its first to its last statement.                   *)

\* executeScheduledAction.
Schedule(w, act) ==
  /\ At(w, act)
  /\ Record(w, "schedule", act, Resume(run[w], IF act = "start" THEN "stop" ELSE "poll"))

\* The traffic is taken from the cache if that has a reading of the last 45 s, or
\* else asked for; an answer may be an error.  How long the readings are apart is
\* left open, so that an entry may always be too old.
\* The answers for traffic and status come in any order.
FetchTraffic(w) ==
  /\ run[w].pc \in {"poll", "report"} /\ run[w].gotTraffic = "no"
  /\ \/ /\ cache[w] # "none"
        /\ run' = [run EXCEPT ![w].gotTraffic = cache[w]]
        /\ UNCHANGED faults
     \/ /\ run' = [run EXCEPT ![w].gotTraffic = usage, ![w].news = TRUE]
        /\ UNCHANGED faults
     \/ /\ faults < MaxFaults /\ faults' = faults + 1
        /\ run' = [run EXCEPT ![w].gotTraffic = "failed"]
  /\ UNCHANGED <<db, cache, world, standing, lost, pledge, alarm>>

\* An answer replaces what the cache of the worker's process has, and may be the
\* older of the two: nothing orders the answers of a pool's accounts.
Keep(w, level) ==
  LET mates == IF conf.oneProcess THEN Worker ELSE {w}
      late == level = "low" /\ cache[w] = "high"
  IN /\ cache' = [v \in Worker |-> IF v \in mates THEN level ELSE cache[v]]
     /\ late => faults < MaxFaults
     /\ faults' = IF late THEN faults + 1 ELSE faults
     /\ overtakes' = IF late THEN overtakes + 1 ELSE overtakes
     /\ fused' = (fused /\ ~late)
     /\ UNCHANGED <<db, world, standing, lost, pledge, months>>

KeepTraffic(w) ==
  /\ run[w].news
  /\ Keep(w, run[w].gotTraffic)
  /\ run' = [run EXCEPT ![w].news = FALSE]

\* The answer to another account of the pool: the traffic of now, or of when it
\* was asked for, earlier in the month.
PeerKeeps(w, level) ==
  /\ conf.pool /\ level \in {"low", usage}
  /\ Keep(w, level)
  /\ UNCHANGED run

FetchStatus(w) ==
  /\ At(w, "poll") /\ run[w].gotStatus = "no"
  /\ \/ run' = [run EXCEPT ![w].gotStatus = cloud] /\ UNCHANGED faults
     \/ /\ faults < MaxFaults /\ faults' = faults + 1
        /\ run' = [run EXCEPT ![w].gotStatus = "failed"]
  /\ UNCHANGED <<db, cache, world, standing, lost, pledge, alarm>>

\* Faulty: an error is taken for an answer.
ShownUnchecked(r) == IF r.changed # "no" THEN Transit(r.changed) ELSE r.gotStatus

\* The status that is stored: what a scheduled action has just begun, or else the
\* answer, or else the old one.
Shown(r) ==
  IF r.changed # "no" THEN Transit(r.changed)
  ELSE IF r.gotStatus = "failed" THEN r.status ELSE r.gotStatus

\* The answers are stored, the traffic only if there is one.
StoreAnswers(w) ==
  LET r == run[w]
      known == r.gotTraffic # "failed"
  IN /\ At(w, "poll") /\ r.gotTraffic # "no" /\ r.gotStatus # "no"
     /\ ~r.news
     /\ status' = Shown(r)
     /\ reverted' = (reverted /\ Shown(r) \notin InFlight)
     /\ used' = IF known THEN r.gotTraffic ELSE used
     /\ sampled' = IF known THEN now ELSE sampled
     /\ run' = [run EXCEPT ![w] =
          Verdict([r EXCEPT !.status = Shown(r),
                            !.traffic = IF known THEN r.gotTraffic ELSE @,
                            !.gotTraffic = IF known THEN "no" ELSE @,
                            !.gotStatus = IF @ = "failed" THEN @ ELSE "no"])]
     /\ UNCHANGED <<events, notices, cache, world, faults, standing, lost, owed, alarm>>

\* Below the threshold: the alert's key is deleted, then the stop's.
Fall(w) ==
  /\ At(w, "fall")
  /\ events' = events \ {AlertKey}
  /\ Goto(w, "clear")
  /\ UNCHANGED <<status, used, sampled, notices, cache, world, book>>

\* Keep-alive, which only runs that found the traffic below the threshold reach.
\* (A run that does not poll has a sample of this slot, so of this month.)
Revive(r) ==
  /\ conf.keepAlive /\ r.changed = "no"
  /\ r.status = "Stopped" /\ r.gotStatus # "failed"
  /\ conf.schedule => r.at \in Running

Clear(w) ==
  /\ At(w, "clear")
  /\ events' = events \ {StopKey}
  /\ standing' = [standing EXCEPT ![StopKey] = 0]
  /\ lost' = lost \ {StopKey}
  /\ IF Revive(run[w]) THEN Goto(w, "keepalive") ELSE Finish(w)
  /\ UNCHANGED <<status, used, sampled, notices, cache, world, faults, pledge, alarm>>

KeepAlive(w) ==
  /\ At(w, "keepalive")
  /\ Record(w, "keepalive", "start", Idle)

\* Above the threshold: the stop, and then the alert.
Fuse(w) ==
  /\ At(w, "fuse")
  /\ Record(w, "threshold", "stop", [run[w] EXCEPT !.pc = "alert"])

\* Faulty: the notification does not depend on the key being new.
AlertAlways(w) ==
  /\ At(w, "alert")
  /\ Goto(w, "notify")
  /\ events' = events \cup {AlertKey}
  /\ UNCHANGED <<status, used, sampled, notices, cache, world, book>>

\* Who records the alert's key puts the notification in the outbox.
Alert(w) ==
  /\ At(w, "alert")
  /\ IF AlertKey \notin events THEN Goto(w, "notify") ELSE Finish(w)
  /\ events' = events \cup {AlertKey}
  /\ UNCHANGED <<status, used, sampled, notices, cache, world, book>>

Notify(w) ==
  /\ At(w, "notify")
  /\ notices' = notices + 1
  /\ Finish(w)
  /\ UNCHANGED <<status, used, sampled, events, cache, world, book>>

\* refreshTrafficForReport gets the mutex.  A sample that somebody stored meanwhile
\* will do, unless the report is of a schedule's stop that was not sampled.
EnterReport(w) ==
  /\ At(w, "waits") /\ Free(w)
  /\ (sampled = now /\ Finish(w)) \/ Goto(w, "report")
  /\ UNCHANGED <<db, cache, world, book>>

\* It stores the traffic, and with it the status of before it waited.
StoreReport(w) ==
  LET r == run[w]
      known == r.gotTraffic # "failed"
  IN /\ At(w, "report") /\ r.gotTraffic # "no" /\ ~r.news
     /\ status' = IF known THEN r.status ELSE status
     /\ used' = IF known THEN r.gotTraffic ELSE used
     /\ sampled' = IF known THEN now ELSE sampled
     /\ reverted' = IF known THEN owed /\ r.status \notin InFlight ELSE reverted
     /\ Finish(w)
     /\ UNCHANGED <<events, notices, cache, world, faults, standing, lost, owed, alarm>>

\* The run ends where it is: a crash of its process, or its deadline.
Cut(w) ==
  /\ ~At(w, "idle")
  /\ faults < MaxFaults /\ faults' = faults + 1
  /\ lost' = IF At(w, "call") /\ run[w].why # "manual" THEN lost \cup {KeyOf(run[w])} ELSE lost
  \* an acknowledgement that nobody saw binds nobody
  /\ owed' = (owed /\ ~At(w, "acked"))
  /\ Finish(w)
  /\ UNCHANGED <<db, cache, world, standing, reverted, alarm>>

-----------------------------------------------------------------------------
(* The cloud and the clock.                                                *)

\* A transition ends.
Settle ==
  /\ cloud \in InFlight
  /\ cloud' = IF cloud = "Starting" THEN "Running" ELSE "Stopped"
  /\ owed' = FALSE /\ reverted' = FALSE
  /\ UNCHANGED <<db, run, cache, conf, now, usage, faults, standing, lost, alarm>>

\* Somebody else starts or stops the instance, or it is reclaimed.
Outside ==
  /\ cloud \in Settled /\ faults < MaxFaults
  /\ faults' = faults + 1
  /\ cloud' = IF cloud = "Running" THEN "Stopped" ELSE "Running"
  /\ UNCHANGED <<db, run, cache, conf, now, usage, standing, lost, pledge, alarm>>

Consume ==
  /\ Busy /\ cloud = "Running" /\ usage = "low"
  /\ usage' = "high"
  /\ UNCHANGED <<db, run, cache, conf, now, cloud, book>>

\* Slots pass; a run is cut off before it sees a second one end.
Later ==
  /\ now < LastSlot
  /\ \A w \in Worker : ~At(w, "idle") => run[w].at = now
  /\ now' = now + 1

Tick ==
  /\ Later
  /\ UNCHANGED <<db, run, cache, conf, cloud, usage, book>>

\* A month begins with a slot, and the traffic starts from nothing; what was cached
\* or asked for before counts for the old month.
NewMonth ==
  /\ Later
  /\ usage = "high" /\ faults < MaxFaults
  /\ usage' = "low" /\ fused' = FALSE
  /\ cache' = [w \in Worker |-> "none"]
  /\ run' = [w \in Worker |-> [run[w] EXCEPT !.news = FALSE]]
  /\ faults' = faults + 1 /\ months' = months + 1
  /\ UNCHANGED <<db, conf, cloud, standing, lost, pledge, overtakes>>

Next ==
  \/ \E w \in Worker :
       \/ \E force \in BOOLEAN : Begin(w, force)
       \/ \E act \in Act : BeginControl(w, act) \/ Schedule(w, act)
       \/ Call(w) \/ Acknowledge(w) \/ TakeBack(w)
       \/ FetchTraffic(w) \/ KeepTraffic(w) \/ FetchStatus(w) \/ StoreAnswers(w)
       \/ Fall(w) \/ Clear(w) \/ KeepAlive(w) \/ Fuse(w) \/ Alert(w) \/ Notify(w) \/ Cut(w)
       \/ BeginReport(w) \/ EnterReport(w) \/ StoreReport(w)
       \/ \E level \in Level : PeerKeeps(w, level)
  \/ Settle \/ Outside \/ Consume \/ NewMonth \/ Tick

Spec == Init /\ [][Next]_vars

-----------------------------------------------------------------------------
(* What makes the automation correct.                                      *)

\* A scheduled action, and a keep-alive start, is called for at most once, by
\* whichever process, unless the call was answered with an error; so is a
\* threshold stop between two readings below the threshold, in one process.
OneCallPerKey ==
  \A k \in Key : (k # StopKey \/ conf.oneProcess) => standing[k] <= 1

\* A key is there if and only if its call was made and not taken back, except
\* where a run was cut off before its call.
KeysTellCalls ==
  \A k \in Key \ {AlertKey} :
    (~Held(k) /\ (k # StopKey \/ conf.oneProcess)) =>
      (k \in events <=> (standing[k] = 1 \/ k \in lost))

\* While the cloud carries out a call that was acknowledged, and its caller has
\* stored that, the account's row shows the transition: no reading taken
\* before the call is stored after it.  The one thing that hides the transition is
\* a report that had read the row before it waited for the mutex, and what a
\* poll then reads mends that.
TransitionVisible ==
  (conf.oneProcess /\ owed /\ ~reverted /\ \A w \in Worker : ~At(w, "acked")) =>
    status \in InFlight

\* Nobody is about to start or stop the instance while it carries out an earlier
\* acknowledged call, whoever asked: the schedule, the threshold, keep-alive
\* or the user; unless a report has hidden the call since it was acknowledged.
NoCrossing ==
  conf.oneProcess => \A w \in Worker : At(w, "call") => (~owed \/ reverted)

\* Keep-alive does not undo a stop that the month's traffic called for, however
\* old the readings of the cache are, except where an older low answer to an
\* account of the pool was put in the cache after the high one.
FuseHolds ==
  conf.oneProcess => \A w \in Worker : (At(w, "call") /\ run[w].why = "keepalive") => ~fused

\* One process sends one threshold notification a month, and one more for each time
\* that an older low answer replaced a high one in the cache.
OneAlertPerMonth ==
  conf.oneProcess => notices <= 1 + months + overtakes

\* "The schedule goes by the event that says the day's action was executed, and is
\* made up for after a restart": the event of an action that nobody works on any
\* more stands for a call.
ScheduleMadeUpFor ==
  \A k \in Key : (k[1] \in Act /\ k \in events /\ ~Held(k)) => standing[k] > 0

=============================================================================
