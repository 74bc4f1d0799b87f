------------------------- MODULE AccountMonitorProofs -------------------------
(***************************************************************************)
(* Proofs about AccountMonitor, for every set of workers, every setting    *)
(* and schedule, and any number of slots and faults: the inductive         *)
(* invariant IInv and the safety properties it implies.                    *)
(***************************************************************************)
EXTENDS AccountMonitor, TLAPS

\* In one process, one run at a time has the account.
LockInv ==
  conf.oneProcess =>
    \A v, w \in Worker : (Locked(v) /\ Locked(w)) => v = w

\* A run that has not polled has no answers, and what it has for the cache is one.
Unasked(r) ==
  /\ r.pc \in {"start", "stop", "call", "acked", "waits"} => r.gotTraffic = "no" /\ r.gotStatus = "no"
  /\ r.news => r.pc \in {"poll", "report"} /\ r.gotTraffic \in Level

BaseInv == TypeOK /\ LockInv /\ \A w \in Worker : Unasked(run[w])

\* The points of a call, from the recording of its key to what becomes of the answer.
Calling == {"call", "acked", "refused"}

-----------------------------------------------------------------------------
(* Keys.                                                                   *)

\* The key of the threshold stop is deleted by any run that finds the traffic low,
\* so that it rules the calls of one process only.  The alert's has no call.
Ruled(k) == k # AlertKey /\ (k # StopKey \/ conf.oneProcess)

\* A key belongs to the one run that is making its call, which counts from the call
\* on; without a run, it tells whether the call was made, or cut off.
KeyFits(k) ==
  /\ \A v, w \in Worker : (Holds(v, k) /\ Holds(w, k)) => v = w
  /\ \A w \in Worker : Holds(w, k) =>
       /\ k \in events /\ k \notin lost
       /\ standing[k] = IF At(w, "call") THEN 0 ELSE 1
  /\ ~Held(k) => standing[k] <= 1 /\ (k \in events <=> (standing[k] = 1 \/ k \in lost))

KeyInv == standing[AlertKey] = 0 /\ \A k \in Key : Ruled(k) => KeyFits(k)

-----------------------------------------------------------------------------
(* In one process, what a run knows while a call is owed, or the fuse has  *)
(* blown, and what it owes.                                                *)

\* While the cloud carries out an acknowledged call, every run knows of a transition,
\* and none is about to begin another; a report that waits may have an older copy.
Aware(r) ==
  /\ r.pc \in {"poll", "fall", "clear"} => r.status \in InFlight
  /\ r.pc = "poll" => r.gotStatus \in InFlight \cup {"no", "failed"}
  /\ r.pc \notin {"start", "stop", "fuse", "keepalive", "call"}

OwedInv ==
  /\ owed => cloud \in InFlight
  /\ (conf.oneProcess /\ reverted) => owed /\ \A w \in Worker : ~At(w, "acked")
  /\ (conf.oneProcess /\ owed /\ ~reverted) =>
       /\ (\A w \in Worker : ~At(w, "acked")) => status \in InFlight
       /\ \A w \in Worker : Aware(run[w])

\* In one process, the cache has one entry, and it is no higher than the month's
\* traffic; neither is what a run has for the cache.
ReadInv ==
  conf.oneProcess =>
    /\ \A v, w \in Worker : cache[v] = cache[w]
    /\ \A w \in Worker :
         (cache[w] = "high" \/ (run[w].news /\ run[w].gotTraffic = "high")) => usage = "high"

\* While the fuse has blown, no run believes the traffic low.
Warned(r) ==
  /\ r.pc \in {"start", "stop"} => r.traffic = "high"
  /\ r.pc \in {"poll", "report"} => r.gotTraffic # "low"
  /\ r.pc \notin {"fall", "clear", "keepalive"}
  /\ r.pc = "call" => r.why # "keepalive"

\* A run that found the traffic above the threshold has stored that.
Alarmed(r) == r.pc \in {"fuse", "alert"} \/ (r.pc \in {"call", "acked"} /\ r.why = "threshold")

\* The cache's last word is that the month's traffic is high.
Known == \A w \in Worker : cache[w] = "high"

FuseInv ==
  conf.oneProcess =>
    /\ fused => Known /\ used = "high" /\ \A w \in Worker : Warned(run[w])
    /\ \A w \in Worker : Alarmed(run[w]) => used = "high"

\* The notifications, with the one that is about to be put in the outbox; and those
\* that there may be.
Announced == notices + IF \E w \in Worker : At(w, "notify") THEN 1 ELSE 0
Allowed == months + overtakes

\* A run that will announce traffic that it was told is high, or that it stored; and
\* a run that will find, or store, that it is low.
Announcing(r) == Alarmed(r) \/ (r.pc = "poll" /\ r.gotTraffic = "high" /\ ~r.news)
Relieved(r) ==
  \/ r.pc \in {"start", "stop"} /\ r.traffic = "low"
  \/ r.pc \in {"poll", "report"} /\ r.gotTraffic = "low"
  \/ r.pc = "fall"

\* The month's notification is out only where the traffic is known to be high, and
\* stays so.
AlertInv ==
  conf.oneProcess =>
    /\ Announced <= 1 + Allowed
    /\ (AlertKey \notin events \/ ~Known \/ used = "low" \/ \E w \in Worker : Relieved(run[w])) =>
         Announced <= Allowed
    /\ (AlertKey \notin events /\ ~Known /\ \E w \in Worker : Announcing(run[w])) =>
         Announced < Allowed

IInv == BaseInv /\ KeyInv /\ OwedInv /\ ReadInv /\ FuseInv /\ AlertInv

-----------------------------------------------------------------------------
(* What the operators on runs return.                                      *)

LEMMA IdleType == 1 \in Slot => Idle \in Run
  BY DEF Idle, Run, Slot, Status, InFlight, Settled, Level, Act

\* A run that has dropped all but the slot.
LEMMA IdleAt ==
  ASSUME 1 \in Slot, NEW p \in {"fuse", "alert"}, NEW s \in Slot
  PROVE  [Idle EXCEPT !.pc = p, !.at = s] \in Run
<1> DEFINE e == [Idle EXCEPT !.pc = p]
<1>1. e \in Run
  BY IdleType DEF Run
<1>2. [e EXCEPT !.at = s] \in Run
  <2> HIDE DEF e
  <2> QED
    BY <1>1 DEF Run
<1> QED
  BY <1>2, Zenon

\* The verdict depends on the traffic alone, and drops all but the slot when it
\* is above the threshold.
LEMMA VerdictFacts ==
  ASSUME NEW r \in Run, 1 \in Slot
  PROVE  LET e == Verdict(r) IN
         /\ e \in Run
         /\ e.pc \in {"idle", "fall", "fuse", "alert"}
         /\ e.pc = "fall" => e.status = r.status /\ r.traffic = "low" /\ ~Failed(r)
         /\ e.pc \in {"fuse", "alert"} => r.traffic = "high" /\ ~Failed(r) /\ Due(r)
         /\ e.pc = "fuse" => r.status \notin InFlight
         /\ ~r.news => ~e.news
<1>1. CASE Failed(r) \/ (r.traffic = "high" /\ ~Due(r))
  BY <1>1 DEF Verdict, Idle, Run, Status, InFlight, Settled, Level, Act
<1>2. CASE ~Failed(r) /\ r.traffic # "high"
  BY <1>2 DEF Verdict, Run, Level
<1>3. CASE ~Failed(r) /\ r.traffic = "high" /\ Due(r)
  <2> DEFINE stop == conf.stopOnThreshold /\ r.status \notin InFlight \cup {"Stopped"}
             e == [Idle EXCEPT !.pc = IF stop THEN "fuse" ELSE "alert", !.at = r.at]
  <2>1. Verdict(r) = e
    BY <1>3 DEF Verdict
  <2>2. (IF stop THEN "fuse" ELSE "alert") \in {"fuse", "alert"} /\ r.at \in Slot
    BY DEF Run
  <2>3. e \in Run
    BY <2>2, IdleAt
  <2>4. e.pc = (IF stop THEN "fuse" ELSE "alert") /\ ~e.news
    BY DEF Idle
  <2> HIDE DEF e
  <2> QED
    BY <1>3, <2>1, <2>3, <2>4
<1> QED
  BY <1>1, <1>2, <1>3

\* A run goes on with the scheduled start or stop, the poll or the verdict; it
\* polls if it has just begun a transition.
LEMMA ResumeFacts ==
  ASSUME NEW r \in Run, 1 \in Slot, NEW from \in {"start", "stop", "poll"}
  PROVE  LET e == Resume(r, from) IN
         /\ e \in Run
         /\ e.pc \in {"start", "stop", "poll", "idle", "fall"}
         /\ e.pc \in {"start", "stop", "poll"} =>
              /\ e.status = r.status /\ e.traffic = r.traffic
              /\ e.gotTraffic = r.gotTraffic /\ e.gotStatus = r.gotStatus
         /\ e.pc \in {"start", "stop"} => r.status \notin InFlight
         /\ e.pc = "fall" => e.status = r.status /\ r.traffic = "low"
         /\ (r.status \in InFlight /\ Due(r)) => e.pc = "poll"
         /\ ~r.news => ~e.news
<1>1. CASE from = "start" /\ Wanted(r, "start")
  <2>1. Resume(r, from) = [r EXCEPT !.pc = "start"] /\ r.status \notin InFlight
    BY <1>1 DEF Resume, Wanted
  <2> QED
    BY <2>1 DEF Run
<1>2. CASE ~(from = "start" /\ Wanted(r, "start")) /\ from # "poll" /\ Wanted(r, "stop")
  <2>1. Resume(r, from) = [r EXCEPT !.pc = "stop"] /\ r.status \notin InFlight
    BY <1>2 DEF Resume, Wanted
  <2> QED
    BY <2>1 DEF Run
<1>3. CASE ~(from = "start" /\ Wanted(r, "start")) /\ ~(from # "poll" /\ Wanted(r, "stop")) /\ Due(r)
  <2>1. Resume(r, from) = [r EXCEPT !.pc = "poll"]
    BY <1>3 DEF Resume
  <2> QED
    BY <2>1 DEF Run
<1>4. CASE ~(from = "start" /\ Wanted(r, "start")) /\ ~(from # "poll" /\ Wanted(r, "stop")) /\ ~Due(r)
  <2>1. Resume(r, from) = Verdict(r)
    BY <1>4 DEF Resume
  <2> QED
    BY <1>4, <2>1, VerdictFacts
<1> QED
  BY <1>1, <1>2, <1>3, <1>4

\* An automatic call has a key, which is not the alert's.
LEMMA KeyFacts ==
  ASSUME NEW r \in Run, r.why # "manual"
  PROVE  KeyOf(r) \in Key \ {AlertKey}
<1>1. r.why \in {"schedule", "threshold", "keepalive"} /\ r.act \in Act /\ r.at \in Slot /\ Cycle[r.at] \in Slot
  BY MonitorAssumption DEF Run
<1>2. CASE r.why = "schedule"
  BY <1>1, <1>2 DEF KeyOf, Key, AlertKey, Act
<1>3. CASE r.why = "threshold"
  BY <1>3 DEF KeyOf, Key, AlertKey, StopKey
<1>4. CASE r.why = "keepalive"
  BY <1>1, <1>4 DEF KeyOf, Key, AlertKey
<1> QED
  BY <1>1, <1>2, <1>3, <1>4

LEMMA FirstSlot == TypeOK => 1 \in Slot
  BY MonitorAssumption DEF TypeOK, Slot

-----------------------------------------------------------------------------
(* What each action does to its worker's run.                              *)

OneStep(w) ==
  /\ run' \in [Worker -> Run]
  /\ \A v \in Worker \ {w} : run'[v] = run[v]

LEMMA Replaced ==
  ASSUME TypeOK, NEW w \in Worker, NEW e \in Run, run' = [run EXCEPT ![w] = e]
  PROVE  OneStep(w) /\ run'[w] = e
  BY DEF OneStep, TypeOK

LEMMA Moved ==
  ASSUME TypeOK, NEW w \in Worker,
         NEW p \in {"clear", "fuse", "alert", "notify", "keepalive", "acked", "refused", "report"},
         Goto(w, p)
  PROVE  OneStep(w) /\ run'[w] = [run[w] EXCEPT !.pc = p]
<1>1. [run[w] EXCEPT !.pc = p] \in Run
  BY DEF TypeOK, Run
<1> QED
  BY <1>1, Replaced DEF Goto

LEMMA Finished ==
  ASSUME TypeOK, NEW w \in Worker, Finish(w)
  PROVE  OneStep(w) /\ run'[w].pc = "idle" /\ ~run'[w].news
<1>1. Idle \in Run /\ Idle.pc = "idle" /\ ~Idle.news
  BY FirstSlot, IdleType DEF Idle
<1> QED
  BY <1>1, Replaced DEF Finish

LEMMA BeginEffect ==
  ASSUME TypeOK, NEW w \in Worker, NEW force \in BOOLEAN, Begin(w, force)
  PROVE  /\ OneStep(w) /\ At(w, "idle") /\ Free(w) /\ ~run'[w].news
         /\ run'[w].pc \in {"start", "stop", "poll", "idle", "fall"}
         /\ run'[w].pc \in {"start", "stop", "poll"} =>
              /\ run'[w].status = status /\ run'[w].traffic = used
              /\ run'[w].gotTraffic = "no" /\ run'[w].gotStatus = "no"
         /\ run'[w].pc \in {"start", "stop"} => status \notin InFlight
         /\ run'[w].pc = "fall" => run'[w].status = status /\ used = "low"
<1> DEFINE a == [Idle EXCEPT !.at = now]
           b == [a EXCEPT !.status = status]
           c == [b EXCEPT !.traffic = used]
           d == [c EXCEPT !.due = force \/ sampled # now]
<1>1. Idle \in Run /\ Idle.gotTraffic = "no" /\ Idle.gotStatus = "no" /\ ~Idle.news
  BY FirstSlot, IdleType DEF Idle
<1>2. a \in Run /\ a.gotTraffic = "no" /\ a.gotStatus = "no" /\ ~a.news
  BY <1>1 DEF TypeOK, Run
<1>3. b \in Run /\ b.gotTraffic = "no" /\ b.gotStatus = "no" /\ ~b.news /\ b.status = status
  <2> HIDE DEF a
  <2> QED BY <1>2 DEF TypeOK, Run
<1>4. c \in Run /\ c.gotTraffic = "no" /\ c.gotStatus = "no" /\ ~c.news /\ c.status = status /\ c.traffic = used
  <2> HIDE DEF b
  <2> QED BY <1>3 DEF TypeOK, Run
<1>5. d \in Run /\ d.gotTraffic = "no" /\ d.gotStatus = "no" /\ ~d.news /\ d.status = status /\ d.traffic = used
  <2> HIDE DEF c
  <2> QED BY <1>4 DEF TypeOK, Run
<1>6. run' = [run EXCEPT ![w] = Resume(d, "start")] /\ At(w, "idle") /\ Free(w)
  BY DEF Begin
<1> HIDE DEF d
<1>7. Resume(d, "start") \in Run
  BY <1>5, FirstSlot, ResumeFacts
<1>8. OneStep(w) /\ run'[w] = Resume(d, "start")
  BY <1>6, <1>7, Replaced
<1> QED
  BY <1>5, <1>6, <1>8, FirstSlot, ResumeFacts

LEMMA BeginControlEffect ==
  ASSUME TypeOK, NEW w \in Worker, NEW act \in Act, BeginControl(w, act)
  PROVE  /\ OneStep(w) /\ At(w, "idle") /\ Free(w) /\ ~run'[w].news
         /\ run'[w].pc = "call" /\ run'[w].why = "manual"
         /\ run'[w].gotTraffic = "no" /\ run'[w].gotStatus = "no"
<1> DEFINE a == [Idle EXCEPT !.pc = "call"]
           b == [a EXCEPT !.at = now]
           c == [b EXCEPT !.why = "manual"]
           d == [c EXCEPT !.act = act]
<1>1. Idle \in Run /\ Idle.gotTraffic = "no" /\ Idle.gotStatus = "no" /\ ~Idle.news
  BY FirstSlot, IdleType DEF Idle
<1>2. a \in Run /\ a.gotTraffic = "no" /\ a.gotStatus = "no" /\ ~a.news /\ a.pc = "call"
  BY <1>1 DEF TypeOK, Run
<1>3. b \in Run /\ b.gotTraffic = "no" /\ b.gotStatus = "no" /\ ~b.news /\ b.pc = "call"
  <2> HIDE DEF a
  <2> QED BY <1>2 DEF TypeOK, Run
<1>4. c \in Run /\ c.gotTraffic = "no" /\ c.gotStatus = "no" /\ ~c.news /\ c.pc = "call" /\ c.why = "manual"
  <2> HIDE DEF b
  <2> QED BY <1>3 DEF Run
<1>5. d \in Run /\ d.gotTraffic = "no" /\ d.gotStatus = "no" /\ ~d.news /\ d.pc = "call" /\ d.why = "manual"
  <2> HIDE DEF c
  <2> QED BY <1>4 DEF Run
<1>6. run' = [run EXCEPT ![w] = d] /\ At(w, "idle") /\ Free(w)
  BY DEF BeginControl
<1> HIDE DEF d
<1> QED
  BY <1>5, <1>6, Replaced

LEMMA BeginReportEffect ==
  ASSUME TypeOK, NEW w \in Worker, BeginReport(w)
  PROVE  /\ OneStep(w) /\ At(w, "idle") /\ run'[w].pc = "waits" /\ ~run'[w].news
         /\ run'[w].gotTraffic = "no" /\ run'[w].gotStatus = "no"
<1> DEFINE a == [Idle EXCEPT !.pc = "waits"]
           b == [a EXCEPT !.at = now]
           c == [b EXCEPT !.status = status]
<1>1. Idle \in Run /\ Idle.gotTraffic = "no" /\ Idle.gotStatus = "no" /\ ~Idle.news
  BY FirstSlot, IdleType DEF Idle
<1>2. a \in Run /\ a.gotTraffic = "no" /\ a.gotStatus = "no" /\ ~a.news /\ a.pc = "waits"
  BY <1>1 DEF Run
<1>3. b \in Run /\ b.gotTraffic = "no" /\ b.gotStatus = "no" /\ ~b.news /\ b.pc = "waits"
  <2> HIDE DEF a
  <2> QED BY <1>2 DEF TypeOK, Run
<1>4. c \in Run /\ c.gotTraffic = "no" /\ c.gotStatus = "no" /\ ~c.news /\ c.pc = "waits"
  <2> HIDE DEF b
  <2> QED BY <1>3 DEF TypeOK, Run
<1>5. run' = [run EXCEPT ![w] = c] /\ At(w, "idle")
  BY DEF BeginReport
<1> HIDE DEF c
<1> QED
  BY <1>4, <1>5, Replaced

\* A recording leads to the call, under the key that is new, or to what was said.
LEMMA RecordEffect ==
  ASSUME TypeOK, NEW w \in Worker, NEW act \in Act, NEW why \in {"schedule", "threshold", "keepalive"},
         NEW otherwise \in Run, Record(w, why, act, otherwise),
         ~run[w].news, ~otherwise.news
  PROVE  \E k \in Key \ {AlertKey} :
         /\ OneStep(w) /\ ~run'[w].news
         /\ events' = events \cup {k}
         /\ why = "threshold" => k = StopKey
         /\ k \in events => run'[w] = otherwise
         /\ k \notin events =>
              /\ run'[w].pc = "call" /\ run'[w].why = why /\ KeyOf(run'[w]) = k
              /\ why = "schedule" => /\ run'[w].gotTraffic = run[w].gotTraffic
                                     /\ run'[w].gotStatus = run[w].gotStatus
              /\ why # "schedule" => run'[w].gotTraffic = "no" /\ run'[w].gotStatus = "no"
<1> DEFINE o == IF why = "schedule" THEN run[w] ELSE Idle
           a == [o EXCEPT !.pc = "call"]
           b == [a EXCEPT !.at = run[w].at]
           c == [b EXCEPT !.why = why]
           d == [c EXCEPT !.act = act]
           Got(r) == r.gotTraffic = o.gotTraffic /\ r.gotStatus = o.gotStatus /\ ~r.news
<1>1. /\ o \in Run
      /\ why = "schedule" => o = run[w]
      /\ why # "schedule" => o.gotTraffic = "no" /\ o.gotStatus = "no"
      /\ ~o.news
  BY FirstSlot, IdleType DEF TypeOK, Idle
<1>2. a \in Run /\ Got(a) /\ a.pc = "call"
  <2> HIDE DEF o
  <2> QED BY <1>1 DEF Run
<1>3. b \in Run /\ Got(b) /\ b.pc = "call"
  <2> HIDE DEF a, o
  <2> QED BY <1>2 DEF TypeOK, Run
<1>4. c \in Run /\ Got(c) /\ c.pc = "call" /\ c.why = why
  <2> HIDE DEF b, o
  <2> QED BY <1>3 DEF Run
<1>5. d \in Run /\ Got(d) /\ d.pc = "call" /\ d.why = why
  <2> HIDE DEF c, o
  <2> QED BY <1>4 DEF Run
<1>6. /\ run' = [run EXCEPT ![w] = IF KeyOf(d) \notin events THEN d ELSE otherwise]
      /\ events' = events \cup {KeyOf(d)}
  BY DEF Record
<1> HIDE DEF d
<1>7. KeyOf(d) \in Key \ {AlertKey} /\ (why = "threshold" => KeyOf(d) = StopKey)
  BY <1>5, KeyFacts DEF KeyOf
<1>8. OneStep(w) /\ run'[w] = IF KeyOf(d) \notin events THEN d ELSE otherwise
  BY <1>5, <1>6, Replaced
<1> HIDE DEF o
<1>9. PICK k \in Key \ {AlertKey} : k = KeyOf(d) /\ (why = "threshold" => k = StopKey)
  BY <1>7
<1>10. /\ OneStep(w) /\ ~run'[w].news
       /\ events' = events \cup {k}
       /\ k \in events => run'[w] = otherwise
  BY <1>5, <1>6, <1>8, <1>9
<1>11. k \notin events =>
         /\ run'[w].pc = "call" /\ run'[w].why = why /\ KeyOf(run'[w]) = k
         /\ why = "schedule" => /\ run'[w].gotTraffic = run[w].gotTraffic
                                /\ run'[w].gotStatus = run[w].gotStatus
         /\ why # "schedule" => run'[w].gotTraffic = "no" /\ run'[w].gotStatus = "no"
  BY <1>1, <1>5, <1>8, <1>9
<1> QED
  BY <1>9, <1>10, <1>11

LEMMA ScheduleEffect ==
  ASSUME TypeOK, NEW w \in Worker, NEW act \in Act, Schedule(w, act),
         run[w].gotTraffic = "no", run[w].gotStatus = "no", ~run[w].news
  PROVE  \E k \in Key \ {AlertKey} :
         /\ OneStep(w) /\ At(w, act) /\ act \in {"start", "stop"} /\ ~run'[w].news
         /\ events' = events \cup {k}
         /\ run'[w].pc \in {"start", "stop", "poll", "call"} =>
              run'[w].gotTraffic = "no" /\ run'[w].gotStatus = "no"
         /\ k \notin events =>
              run'[w].pc = "call" /\ run'[w].why = "schedule" /\ KeyOf(run'[w]) = k
         /\ k \in events =>
              /\ run'[w].pc \in {"start", "stop", "poll", "idle", "fall"}
              /\ run'[w].pc \in {"start", "stop", "poll"} =>
                   run'[w].status = run[w].status /\ run'[w].traffic = run[w].traffic
              /\ run'[w].pc \in {"start", "stop"} => run[w].status \notin InFlight
              /\ run'[w].pc = "fall" => run'[w].status = run[w].status /\ run[w].traffic = "low"
<1> DEFINE from == IF act = "start" THEN "stop" ELSE "poll"
           o == Resume(run[w], from)
<1>1. run[w] \in Run /\ 1 \in Slot /\ from \in {"start", "stop", "poll"}
  BY FirstSlot DEF TypeOK
<1>2. /\ o \in Run
      /\ o.pc \in {"start", "stop", "poll", "idle", "fall"}
      /\ o.pc \in {"start", "stop", "poll"} => o.status = run[w].status /\ o.traffic = run[w].traffic
      /\ o.pc \in {"start", "stop"} => run[w].status \notin InFlight
      /\ o.pc = "fall" => o.status = run[w].status /\ run[w].traffic = "low"
  BY <1>1, ResumeFacts
<1>3. /\ o.pc \in {"start", "stop", "poll"} => o.gotTraffic = "no" /\ o.gotStatus = "no"
      /\ ~o.news
  BY <1>1, ResumeFacts
<1>4. Record(w, "schedule", act, o) /\ At(w, act)
  BY DEF Schedule
<1> HIDE DEF o
<1>5. PICK k \in Key \ {AlertKey} :
         /\ OneStep(w) /\ ~run'[w].news
         /\ events' = events \cup {k}
         /\ k \in events => run'[w] = o
         /\ k \notin events =>
              /\ run'[w].pc = "call" /\ run'[w].why = "schedule" /\ KeyOf(run'[w]) = k
              /\ run'[w].gotTraffic = run[w].gotTraffic
              /\ run'[w].gotStatus = run[w].gotStatus
  BY <1>2, <1>3, <1>4, RecordEffect
<1> QED
  BY <1>2, <1>3, <1>4, <1>5 DEF Act

LEMMA KeepAliveEffect ==
  ASSUME TypeOK, NEW w \in Worker, KeepAlive(w), ~run[w].news
  PROVE  \E k \in Key \ {AlertKey} :
         /\ OneStep(w) /\ At(w, "keepalive") /\ ~run'[w].news
         /\ events' = events \cup {k}
         /\ k \notin events =>
              /\ run'[w].pc = "call" /\ run'[w].why = "keepalive" /\ KeyOf(run'[w]) = k
              /\ run'[w].gotTraffic = "no" /\ run'[w].gotStatus = "no"
         /\ k \in events => run'[w].pc = "idle"
<1>1. Idle \in Run /\ Idle.pc = "idle" /\ ~Idle.news
  BY FirstSlot, IdleType DEF Idle
<1>2. Record(w, "keepalive", "start", Idle) /\ At(w, "keepalive") /\ "start" \in Act
  BY DEF KeepAlive, Act
<1> QED
  BY <1>1, <1>2, RecordEffect

LEMMA FuseEffect ==
  ASSUME TypeOK, NEW w \in Worker, Fuse(w), ~run[w].news
  PROVE  /\ OneStep(w) /\ At(w, "fuse") /\ ~run'[w].news
         /\ events' = events \cup {StopKey}
         /\ StopKey \notin events =>
              /\ run'[w].pc = "call" /\ run'[w].why = "threshold" /\ KeyOf(run'[w]) = StopKey
              /\ run'[w].gotTraffic = "no" /\ run'[w].gotStatus = "no"
         /\ StopKey \in events => run'[w].pc = "alert"
<1> DEFINE o == [run[w] EXCEPT !.pc = "alert"]
<1>1. o \in Run /\ o.pc = "alert" /\ ~o.news
  BY DEF TypeOK, Run
<1>2. Record(w, "threshold", "stop", o) /\ At(w, "fuse") /\ "stop" \in Act
  BY DEF Fuse, Act
<1> HIDE DEF o
<1> QED
  BY <1>1, <1>2, RecordEffect

LEMMA CallEffect ==
  ASSUME TypeOK, NEW w \in Worker, Call(w), ~run[w].news
  PROVE  /\ OneStep(w) /\ At(w, "call") /\ ~run'[w].news /\ run'[w].pc \in {"acked", "refused"}
         /\ run'[w].why = run[w].why /\ KeyOf(run'[w]) = KeyOf(run[w])
         /\ run'[w].gotTraffic = run[w].gotTraffic /\ run'[w].gotStatus = run[w].gotStatus
         /\ cloud' # cloud => cloud \in Settled /\ cloud' \in InFlight
         /\ cloud' \in Status \ {"Unknown"}
         /\ owed' # owed => owed' = TRUE /\ cloud' \in InFlight /\ run'[w].pc = "acked"
         /\ run'[w].pc = "acked" => cloud \in Settled /\ cloud' \in InFlight /\ owed' = TRUE
         /\ owed' \in BOOLEAN
         /\ faults' \in 0..MaxFaults /\ faults' >= faults
<1> DEFINE from == IF run[w].act = "start" THEN "Stopped" ELSE "Running"
<1>1. /\ At(w, "call") /\ from \in Settled
      /\ Transit(run[w].act) \in InFlight
      /\ cloud \in Status \ {"Unknown"} /\ faults \in 0..MaxFaults /\ MaxFaults \in Nat /\ owed \in BOOLEAN
  BY MonitorAssumption DEF Call, TypeOK, Transit, Settled, InFlight
<1>2. \/ /\ cloud = from /\ cloud' = Transit(run[w].act)
         /\ \/ Goto(w, "acked") /\ owed' = TRUE /\ faults' = faults
            \/ Goto(w, "refused") /\ owed' = owed /\ faults < MaxFaults /\ faults' = faults + 1
      \/ /\ Goto(w, "refused") /\ owed' = owed /\ cloud' = cloud
         /\ faults' = faults \/ (faults < MaxFaults /\ faults' = faults + 1)
  BY DEF Call
<1>3. PICK p \in {"acked", "refused"} : Goto(w, p)
  BY <1>2
<1>4. OneStep(w) /\ run'[w] = [run[w] EXCEPT !.pc = p]
  BY <1>3, Moved
<1>5. /\ run'[w].pc = p
      /\ run'[w].why = run[w].why /\ run'[w].act = run[w].act /\ run'[w].at = run[w].at
      /\ run'[w].gotTraffic = run[w].gotTraffic /\ run'[w].gotStatus = run[w].gotStatus
      /\ ~run'[w].news
  BY <1>4 DEF TypeOK, Run
<1>6. KeyOf(run'[w]) = KeyOf(run[w])
  BY <1>5 DEF KeyOf
<1>7. \/ /\ cloud = from /\ cloud' = Transit(run[w].act)
         /\ \/ run'[w].pc = "acked" /\ owed' = TRUE
            \/ run'[w].pc = "refused" /\ owed' = owed
      \/ run'[w].pc = "refused" /\ owed' = owed /\ cloud' = cloud
  <2>1. \A q \in {"acked", "refused"} : Goto(w, q) => run'[w].pc = q
    <3>1. SUFFICES ASSUME NEW q \in {"acked", "refused"}, Goto(w, q) PROVE run'[w].pc = q
      OBVIOUS
    <3>2. run'[w] = [run[w] EXCEPT !.pc = q]
      BY <3>1, Moved
    <3> QED
      BY <3>2 DEF TypeOK, Run
  <2> QED
    BY <1>2, <2>1
<1>8. faults' \in 0..MaxFaults /\ faults' >= faults
  BY <1>1, <1>2
<1> HIDE DEF from
<1>9. cloud' \in Status \ {"Unknown"}
  BY <1>1, <1>7 DEF Status, InFlight
<1>10. /\ cloud' # cloud => cloud \in Settled /\ cloud' \in InFlight
       /\ owed' \in BOOLEAN
       /\ owed' # owed => owed' = TRUE /\ cloud' \in InFlight /\ run'[w].pc = "acked"
       /\ run'[w].pc = "acked" => cloud \in Settled /\ cloud' \in InFlight /\ owed' = TRUE
  BY <1>1, <1>7
<1> QED
  BY <1>1, <1>3, <1>4, <1>5, <1>6, <1>8, <1>9, <1>10

\* A scheduled action goes on to the poll, a threshold stop to the alert.
LEMMA AcknowledgeEffect ==
  ASSUME TypeOK, NEW w \in Worker, Acknowledge(w),
         run[w].gotTraffic = "no", run[w].gotStatus = "no", ~run[w].news
  PROVE  /\ OneStep(w) /\ At(w, "acked") /\ ~run'[w].news
         /\ status' \in InFlight
         /\ run'[w].pc \in {"poll", "alert", "idle"}
         /\ run'[w].pc = "poll" =>
              run'[w].status = status' /\ run'[w].gotTraffic = "no" /\ run'[w].gotStatus = "no"
         /\ run'[w].pc = "alert" => run[w].why = "threshold"
<1>1. /\ At(w, "acked") /\ run[w] \in Run /\ 1 \in Slot
      /\ status' = Transit(run[w].act) /\ Transit(run[w].act) \in InFlight
  BY FirstSlot DEF Acknowledge, TypeOK, Transit, InFlight
<1>2. CASE run[w].why = "schedule"
  <2> DEFINE a == [run[w] EXCEPT !.status = Transit(run[w].act)]
             b == [a EXCEPT !.changed = run[w].act]
             from == IF run[w].act = "start" THEN "stop" ELSE "poll"
  <2>1. a \in Run /\ a.status = status' /\ a.gotTraffic = "no" /\ a.gotStatus = "no" /\ ~a.news /\ a.act = run[w].act
    BY <1>1 DEF Run, Status
  <2>2. /\ b \in Run /\ b.status = status' /\ b.gotTraffic = "no" /\ b.gotStatus = "no"
        /\ b.changed # "no" /\ ~b.news
    <3> HIDE DEF a
    <3> QED
      BY <1>1, <2>1 DEF Run, Act
  <2>3. run' = [run EXCEPT ![w] = Resume(b, from)]
    BY <1>2 DEF Acknowledge
  <2>4. from \in {"start", "stop", "poll"}
    OBVIOUS
  <2> HIDE DEF b, from
  <2>5. b.status \in InFlight /\ Due(b)
    BY <1>1, <2>2 DEF Due
  <2>6. /\ Resume(b, from) \in Run /\ Resume(b, from).pc = "poll"
        /\ Resume(b, from).status = b.status
        /\ Resume(b, from).gotTraffic = b.gotTraffic /\ Resume(b, from).gotStatus = b.gotStatus
        /\ ~Resume(b, from).news
    BY <1>1, <2>2, <2>4, <2>5, ResumeFacts
  <2>7. OneStep(w) /\ run'[w] = Resume(b, from)
    BY <2>3, <2>6, Replaced
  <2> QED
    BY <1>1, <2>2, <2>6, <2>7
<1>3. CASE run[w].why = "threshold"
  <2>1. Goto(w, "alert")
    BY <1>3 DEF Acknowledge
  <2>2. OneStep(w) /\ run'[w] = [run[w] EXCEPT !.pc = "alert"]
    BY <2>1, Moved
  <2>3. run'[w].pc = "alert" /\ ~run'[w].news
    BY <1>1, <2>2 DEF Run
  <2> QED
    BY <1>1, <1>3, <2>2, <2>3
<1>4. CASE run[w].why \notin {"schedule", "threshold"}
  <2>1. Finish(w)
    BY <1>4 DEF Acknowledge
  <2> QED
    BY <1>1, <2>1, Finished
<1> QED
  BY <1>2, <1>3, <1>4

\* A reading comes from the cache, or it is news.
LEMMA FetchTrafficEffect ==
  ASSUME TypeOK, NEW w \in Worker, FetchTraffic(w), ~run[w].news
  PROVE  /\ OneStep(w) /\ Locked(w) /\ run[w].pc \in {"poll", "report"} /\ run'[w].pc = run[w].pc
         /\ run'[w].status = run[w].status /\ run'[w].gotStatus = run[w].gotStatus
         /\ \/ run'[w].gotTraffic = cache[w] /\ cache[w] \in Level /\ ~run'[w].news
            \/ run'[w].gotTraffic = usage /\ run'[w].news
            \/ run'[w].gotTraffic = "failed" /\ ~run'[w].news
         /\ faults' \in 0..MaxFaults /\ faults' >= faults
<1> DEFINE r == run[w]
<1>1. r \in Run /\ r.pc \in {"poll", "report"} /\ Locked(w)
  BY DEF FetchTraffic, TypeOK, Locked
<1>2. faults' \in 0..MaxFaults /\ faults' >= faults
  BY MonitorAssumption DEF FetchTraffic, TypeOK
<1>3. \/ cache[w] \in Level /\ run' = [run EXCEPT ![w].gotTraffic = cache[w]]
      \/ run' = [run EXCEPT ![w].gotTraffic = usage, ![w].news = TRUE]
      \/ run' = [run EXCEPT ![w].gotTraffic = "failed"]
  BY DEF FetchTraffic, TypeOK
<1>4. ASSUME NEW x \in Level \cup {"failed"}, run' = [run EXCEPT ![w].gotTraffic = x]
      PROVE  /\ OneStep(w) /\ run'[w].pc = r.pc /\ run'[w].status = r.status
             /\ run'[w].gotStatus = r.gotStatus /\ run'[w].gotTraffic = x /\ ~run'[w].news
  <2>1. [r EXCEPT !.gotTraffic = x] \in Run
    BY <1>1 DEF Run
  <2>2. OneStep(w) /\ run'[w] = [r EXCEPT !.gotTraffic = x]
    BY <1>4, <2>1, Replaced
  <2> QED
    BY <1>1, <2>2 DEF Run
<1>5. ASSUME run' = [run EXCEPT ![w].gotTraffic = usage, ![w].news = TRUE]
      PROVE  /\ OneStep(w) /\ run'[w].pc = r.pc /\ run'[w].status = r.status
             /\ run'[w].gotStatus = r.gotStatus /\ run'[w].gotTraffic = usage /\ run'[w].news
  <2> DEFINE a == [r EXCEPT !.gotTraffic = usage]
             b == [a EXCEPT !.news = TRUE]
  <2>1. /\ a \in Run /\ a.pc = r.pc /\ a.status = r.status
        /\ a.gotStatus = r.gotStatus /\ a.gotTraffic = usage
    BY <1>1 DEF TypeOK, Run
  <2>2. /\ b \in Run /\ b.pc = r.pc /\ b.status = r.status
        /\ b.gotStatus = r.gotStatus /\ b.gotTraffic = usage /\ b.news
    <3> HIDE DEF a
    <3> QED
      BY <2>1 DEF Run
  <2>3. run' = [run EXCEPT ![w] = b]
    BY <1>5 DEF TypeOK
  <2> HIDE DEF b
  <2> QED
    BY <2>2, <2>3, Replaced
<1>6. usage \in Level
  BY DEF TypeOK
<1> QED
  BY <1>1, <1>2, <1>3, <1>4, <1>5

\* What a run has for the cache is put there.
LEMMA KeepTrafficEffect ==
  ASSUME TypeOK, NEW w \in Worker, KeepTraffic(w)
  PROVE  /\ OneStep(w) /\ Keep(w, run[w].gotTraffic) /\ run[w].news /\ ~run'[w].news
         /\ run'[w].pc = run[w].pc /\ run'[w].status = run[w].status
         /\ run'[w].gotTraffic = run[w].gotTraffic /\ run'[w].gotStatus = run[w].gotStatus
<1> DEFINE e == [run[w] EXCEPT !.news = FALSE]
<1>1. /\ e \in Run /\ ~e.news /\ e.pc = run[w].pc /\ e.status = run[w].status
      /\ e.gotTraffic = run[w].gotTraffic /\ e.gotStatus = run[w].gotStatus
  <2>1. PICK r \in Run : r = run[w]
    BY DEF TypeOK
  <2>2. e = [r EXCEPT !.news = FALSE]
    BY <2>1
  <2> HIDE DEF e
  <2> QED
    BY <2>1, <2>2 DEF Run
<1>2. run' = [run EXCEPT ![w] = e] /\ Keep(w, run[w].gotTraffic) /\ run[w].news
  BY DEF KeepTraffic, TypeOK
<1> HIDE DEF e
<1> QED
  BY <1>1, <1>2, Replaced

\* An entry of the cache, and what it costs to replace a high one by a low one.
LEMMA KeepFacts ==
  ASSUME TypeOK, NEW w \in Worker, NEW level \in Level, Keep(w, level)
  PROVE  /\ cache' \in [Worker -> Level \cup {"none"}]
         /\ cache'[w] = level
         /\ conf.oneProcess => \A v \in Worker : cache'[v] = level
         /\ fused' \in BOOLEAN
         /\ \/ /\ level = "low" /\ cache[w] = "high" /\ ~fused'
               /\ overtakes' = overtakes + 1 /\ faults' = faults + 1 /\ faults < MaxFaults
            \/ /\ level = "high" \/ cache[w] # "high"
               /\ fused' = fused /\ overtakes' = overtakes /\ faults' = faults
         /\ UNCHANGED <<db, world, standing, lost, pledge, months>>
<1> DEFINE mates == IF conf.oneProcess THEN Worker ELSE {w}
           late == level = "low" /\ cache[w] = "high"
<1>1. /\ cache' = [v \in Worker |-> IF v \in mates THEN level ELSE cache[v]]
      /\ late => faults < MaxFaults
      /\ faults' = IF late THEN faults + 1 ELSE faults
      /\ overtakes' = IF late THEN overtakes + 1 ELSE overtakes
      /\ fused' = (fused /\ ~late)
      /\ UNCHANGED <<db, world, standing, lost, pledge, months>>
  BY DEF Keep
<1>2. w \in mates /\ (conf.oneProcess => \A v \in Worker : v \in mates)
  OBVIOUS
<1>3. cache' \in [Worker -> Level \cup {"none"}]
  BY <1>1 DEF TypeOK
<1>4. \A v \in Worker : v \in mates => cache'[v] = level
  BY <1>1
<1>5. fused' = (fused /\ ~late) /\ fused \in BOOLEAN
  BY <1>1 DEF TypeOK
<1>6. CASE late
  BY <1>1, <1>2, <1>3, <1>4, <1>5, <1>6
<1>7. CASE ~late
  <2>1. fused' = fused
    BY <1>5, <1>7, Zenon
  <2> QED
    BY <1>1, <1>2, <1>3, <1>4, <1>5, <1>7, <2>1 DEF Level
<1> QED
  BY <1>6, <1>7

LEMMA FetchStatusEffect ==
  ASSUME TypeOK, NEW w \in Worker, FetchStatus(w)
  PROVE  /\ OneStep(w) /\ At(w, "poll") /\ run'[w].pc = "poll"
         /\ run'[w].status = run[w].status /\ run'[w].gotTraffic = run[w].gotTraffic
         /\ run'[w].gotStatus \in {cloud, "failed"} /\ run'[w].news = run[w].news
         /\ faults' \in 0..MaxFaults /\ faults' >= faults
<1>1. PICK x \in {cloud, "failed"} : run' = [run EXCEPT ![w].gotStatus = x]
  BY DEF FetchStatus
<1>2. [run[w] EXCEPT !.gotStatus = x] \in Run
  BY DEF TypeOK, Run
<1>3. OneStep(w) /\ run'[w] = [run[w] EXCEPT !.gotStatus = x]
  BY <1>1, <1>2, Replaced
<1>4. faults' \in 0..MaxFaults /\ faults' >= faults
  BY MonitorAssumption DEF FetchStatus, TypeOK
<1> QED
  BY <1>3, <1>4 DEF FetchStatus, At, TypeOK, Run

\* What is stored is a transition whenever the run knows of one, and traffic that
\* was answered; the verdict goes by that.
LEMMA StoreAnswersEffect ==
  ASSUME TypeOK, NEW w \in Worker, StoreAnswers(w)
  PROVE  /\ OneStep(w) /\ At(w, "poll") /\ ~run[w].news /\ ~run'[w].news
         /\ run[w].gotTraffic # "no" /\ run[w].gotStatus # "no"
         /\ status' \in Status
         /\ (run[w].status \in InFlight /\ run[w].gotStatus \in InFlight \cup {"failed"}) =>
              status' \in InFlight
         /\ reverted' = (reverted /\ status' \notin InFlight)
         /\ used' \in Level
         /\ used' = IF run[w].gotTraffic # "failed" THEN run[w].gotTraffic ELSE used
         /\ sampled' \in 0..LastSlot
         /\ run'[w].pc \in {"idle", "fall", "fuse", "alert"}
         /\ run'[w].pc = "fall" => run'[w].status = status' /\ run[w].gotTraffic = "low"
         /\ run'[w].pc \in {"fuse", "alert"} => run[w].gotTraffic = "high"
         /\ run'[w].pc = "fuse" => status' \notin InFlight
<1> DEFINE r == run[w]
           known == r.gotTraffic # "failed"
           a == [r EXCEPT !.status = Shown(r)]
           b == [a EXCEPT !.traffic = IF known THEN r.gotTraffic ELSE @]
           c == [b EXCEPT !.gotTraffic = IF known THEN "no" ELSE @]
           d == [c EXCEPT !.gotStatus = IF @ = "failed" THEN @ ELSE "no"]
<1>1. /\ At(w, "poll") /\ r.gotTraffic # "no" /\ r.gotStatus # "no" /\ ~r.news
      /\ status' = Shown(r) /\ reverted' = (reverted /\ Shown(r) \notin InFlight)
      /\ used' = IF known THEN r.gotTraffic ELSE used
      /\ sampled' = IF known THEN now ELSE sampled
      /\ run' = [run EXCEPT ![w] = Verdict(d)]
  BY DEF StoreAnswers
<1>2. r \in Run /\ 1 \in Slot
  BY FirstSlot DEF TypeOK
<1>3. /\ Shown(r) \in Status
      /\ (r.status \in InFlight /\ r.gotStatus \in InFlight \cup {"failed"}) => Shown(r) \in InFlight
  BY <1>1, <1>2 DEF Shown, Transit, Run, Status, InFlight, Act
<1>4. used' \in Level /\ sampled' \in 0..LastSlot
  BY <1>1, <1>2, MonitorAssumption DEF TypeOK, Run, Slot
<1>5. a \in Run /\ ~a.news /\ a.status = Shown(r) /\ a.gotTraffic = r.gotTraffic /\ a.traffic = r.traffic
  BY <1>1, <1>2, <1>3 DEF Run
<1>6. /\ b \in Run /\ ~b.news /\ b.status = Shown(r) /\ b.gotTraffic = r.gotTraffic
      /\ known => b.traffic = r.gotTraffic
  <2> HIDE DEF a
  <2> QED
    BY <1>1, <1>2, <1>5 DEF Run
<1>7. /\ c \in Run /\ ~c.news /\ c.status = Shown(r)
      /\ known => c.traffic = r.gotTraffic /\ c.gotTraffic = "no"
      /\ ~known => c.gotTraffic = "failed"
  <2> HIDE DEF b
  <2> QED
    BY <1>1, <1>2, <1>6 DEF Run
<1>8. /\ d \in Run /\ ~d.news /\ d.status = Shown(r)
      /\ known => d.traffic = r.gotTraffic /\ d.gotTraffic = "no"
      /\ ~known => d.gotTraffic = "failed"
  <2> HIDE DEF c
  <2> QED
    BY <1>2, <1>7 DEF Run
<1> HIDE DEF d
<1>9. /\ Verdict(d) \in Run
      /\ Verdict(d).pc \in {"idle", "fall", "fuse", "alert"}
      /\ Verdict(d).pc = "fall" => Verdict(d).status = Shown(r) /\ d.traffic = "low" /\ ~Failed(d)
      /\ Verdict(d).pc \in {"fuse", "alert"} => d.traffic = "high" /\ ~Failed(d)
      /\ Verdict(d).pc = "fuse" => Shown(r) \notin InFlight
      /\ ~Verdict(d).news
  BY <1>2, <1>8, VerdictFacts
<1>10. OneStep(w) /\ run'[w] = Verdict(d)
  BY <1>1, <1>9, Replaced
<1>11. ~Failed(d) => known
  BY <1>8 DEF Failed
<1> QED
  BY <1>1, <1>3, <1>4, <1>8, <1>9, <1>10, <1>11

LEMMA FallEffect ==
  ASSUME TypeOK, NEW w \in Worker, Fall(w), ~run[w].news
  PROVE  /\ OneStep(w) /\ At(w, "fall") /\ ~run'[w].news /\ run'[w].pc = "clear"
         /\ run'[w].status = run[w].status
<1>1. Goto(w, "clear") /\ At(w, "fall")
  BY DEF Fall
<1>2. OneStep(w) /\ run'[w] = [run[w] EXCEPT !.pc = "clear"]
  BY <1>1, Moved
<1> QED
  BY <1>1, <1>2 DEF TypeOK, Run

LEMMA ClearEffect ==
  ASSUME TypeOK, NEW w \in Worker, Clear(w), ~run[w].news
  PROVE  /\ OneStep(w) /\ At(w, "clear") /\ ~run'[w].news /\ run'[w].pc \in {"keepalive", "idle"}
         /\ run'[w].pc = "keepalive" => run[w].status = "Stopped"
<1>1. CASE Revive(run[w])
  <2>1. Goto(w, "keepalive") /\ At(w, "clear") /\ run[w].status = "Stopped"
    BY <1>1 DEF Clear, Revive
  <2>2. OneStep(w) /\ run'[w] = [run[w] EXCEPT !.pc = "keepalive"]
    BY <2>1, Moved
  <2> QED
    BY <2>1, <2>2 DEF TypeOK, Run
<1>2. CASE ~Revive(run[w])
  BY <1>2, Finished DEF Clear
<1> QED
  BY <1>1, <1>2

LEMMA AlertEffect ==
  ASSUME TypeOK, NEW w \in Worker, Alert(w), ~run[w].news
  PROVE  /\ OneStep(w) /\ At(w, "alert") /\ ~run'[w].news
         /\ run'[w].pc = IF AlertKey \notin events THEN "notify" ELSE "idle"
<1>1. CASE AlertKey \notin events
  <2>1. Goto(w, "notify") /\ At(w, "alert")
    BY <1>1 DEF Alert
  <2>2. OneStep(w) /\ run'[w] = [run[w] EXCEPT !.pc = "notify"]
    BY <2>1, Moved
  <2> QED
    BY <1>1, <2>1, <2>2 DEF TypeOK, Run
<1>2. CASE AlertKey \in events
  BY <1>2, Finished DEF Alert
<1> QED
  BY <1>1, <1>2

LEMMA EnterReportEffect ==
  ASSUME TypeOK, NEW w \in Worker, EnterReport(w), ~run[w].news, run[w].gotTraffic = "no"
  PROVE  /\ OneStep(w) /\ At(w, "waits") /\ Free(w) /\ ~run'[w].news
         /\ run'[w].pc \in {"idle", "report"}
         /\ run'[w].pc = "report" => run'[w].gotTraffic = "no"
<1>1. At(w, "waits") /\ Free(w)
  BY DEF EnterReport
<1>2. CASE Finish(w)
  BY <1>1, <1>2, Finished
<1>3. CASE Goto(w, "report")
  <2>1. OneStep(w) /\ run'[w] = [run[w] EXCEPT !.pc = "report"]
    BY <1>3, Moved
  <2> QED
    BY <1>1, <2>1 DEF TypeOK, Run
<1> QED
  BY <1>2, <1>3 DEF EnterReport

\* A report stores traffic that was answered, and with it its copy of the status.
LEMMA StoreReportEffect ==
  ASSUME TypeOK, NEW w \in Worker, StoreReport(w)
  PROVE  /\ OneStep(w) /\ At(w, "report") /\ run'[w].pc = "idle" /\ ~run'[w].news
         /\ status' \in Status /\ used' \in Level /\ sampled' \in 0..LastSlot
         /\ \/ status' = status /\ used' = used /\ reverted' = reverted
            \/ /\ used' = run[w].gotTraffic
               /\ reverted' = (owed /\ status' \notin InFlight)
<1> DEFINE r == run[w]
<1>1. OneStep(w) /\ run'[w].pc = "idle" /\ ~run'[w].news /\ At(w, "report")
  BY Finished DEF StoreReport
<1>2. r \in Run /\ r.gotTraffic # "no" /\ now \in 0..LastSlot
  BY MonitorAssumption DEF StoreReport, TypeOK, Slot
<1>3. CASE r.gotTraffic # "failed"
  <2>1. /\ status' = r.status /\ used' = r.gotTraffic /\ sampled' = now
        /\ reverted' = (owed /\ r.status \notin InFlight)
    BY <1>3 DEF StoreReport
  <2> QED
    BY <1>1, <1>2, <1>3, <2>1 DEF Run, Level
<1>4. CASE r.gotTraffic = "failed"
  <2>1. status' = status /\ used' = used /\ sampled' = sampled /\ reverted' = reverted
    BY <1>4 DEF StoreReport
  <2> QED
    BY <1>1, <2>1 DEF TypeOK
<1> QED
  BY <1>3, <1>4

\* A month that begins leaves the runs as they are, but for what was for the cache.
SameRun(v) ==
  /\ run'[v].pc = run[v].pc /\ run'[v].at = run[v].at
  /\ run'[v].status = run[v].status /\ run'[v].traffic = run[v].traffic
  /\ run'[v].gotTraffic = run[v].gotTraffic /\ run'[v].gotStatus = run[v].gotStatus
  /\ run'[v].why = run[v].why /\ run'[v].act = run[v].act
  /\ ~run'[v].news

LEMMA NewMonthEffect ==
  ASSUME TypeOK, NewMonth
  PROVE  run' \in [Worker -> Run] /\ \A v \in Worker : SameRun(v)
<1>1. run' = [w \in Worker |-> [run[w] EXCEPT !.news = FALSE]]
  BY DEF NewMonth
<1>2. ASSUME NEW v \in Worker
      PROVE  [run[v] EXCEPT !.news = FALSE] \in Run /\ SameRun(v)
  <2>1. run'[v] = [run[v] EXCEPT !.news = FALSE] /\ run[v] \in Run
    BY <1>1 DEF TypeOK
  <2> QED
    BY <2>1 DEF Run, SameRun
<1> QED
  BY <1>1, <1>2

-----------------------------------------------------------------------------
(* Types, and the account's mutex.                                         *)

\* The types of all but the runs.
RestOK ==
  /\ conf \in Confs /\ now \in Slot
  /\ status \in Status /\ used \in Level /\ sampled \in 0..LastSlot
  /\ events \subseteq Key /\ notices \in Nat
  /\ cache \in [Worker -> Level \cup {"none"}]
  /\ cloud \in Status \ {"Unknown"} /\ usage \in Level
  /\ faults \in 0..MaxFaults
  /\ months \in Nat /\ overtakes \in Nat /\ months + overtakes <= faults
  /\ standing \in [Key -> Nat] /\ lost \subseteq Key
  /\ owed \in BOOLEAN /\ reverted \in BOOLEAN /\ fused \in BOOLEAN

LEMMA BaseStep ==
  ASSUME BaseInv, RestOK', conf' = conf,
         NEW w \in Worker, OneStep(w), Locked(w) \/ Free(w) \/ ~(Locked(w)'), Unasked(run'[w])
  PROVE  BaseInv'
<1>1. TypeOK'
  BY DEF OneStep, TypeOK, RestOK
<1>2. LockInv'
  BY DEF BaseInv, OneStep, LockInv, Free, Locked
<1>3. \A v \in Worker : Unasked(run'[v])
  BY DEF BaseInv, OneStep
<1> QED
  BY <1>1, <1>2, <1>3 DEF BaseInv

LEMMA BaseRest ==
  ASSUME BaseInv, RestOK', conf' = conf, run' = run
  PROVE  BaseInv'
BY DEF BaseInv, TypeOK, RestOK, LockInv, Locked

LEMMA InitBase == Init => BaseInv
<1> SUFFICES ASSUME Init PROVE BaseInv
  OBVIOUS
<1>1. /\ conf \in Confs /\ now = 1 /\ sampled = 0 /\ notices = 0
      /\ faults = 0 /\ months = 0 /\ overtakes = 0
      /\ status = "Unknown" /\ used = "low" /\ cloud \in Settled /\ usage = "low"
      /\ events = {} /\ lost = {} /\ owed = FALSE /\ reverted = FALSE /\ fused = FALSE
      /\ cache = [w \in Worker |-> "none"]
      /\ run = [w \in Worker |-> Idle] /\ standing = [k \in Key |-> 0]
  BY DEF Init
<1>2. 1 \in Slot
  BY MonitorAssumption DEF Slot
<1>3. /\ run \in [Worker -> Run] /\ standing \in [Key -> Nat]
      /\ \A w \in Worker : run[w].pc = "idle" /\ ~run[w].news
  BY <1>1, <1>2, IdleType DEF Idle
<1>4. /\ sampled \in 0..LastSlot /\ faults \in 0..MaxFaults
      /\ months \in Nat /\ overtakes \in Nat /\ months + overtakes <= faults /\ notices \in Nat
  BY <1>1, MonitorAssumption
<1>5. status \in Status /\ cloud \in Status \ {"Unknown"} /\ used \in Level /\ usage \in Level
  BY <1>1 DEF Status, Settled, Level
<1>6. TypeOK
  BY <1>1, <1>2, <1>3, <1>4, <1>5 DEF TypeOK
<1> QED
  BY <1>3, <1>6 DEF BaseInv, LockInv, Unasked, Locked

LEMMA NextBase == BaseInv /\ [Next]_vars => BaseInv'
<1> SUFFICES ASSUME BaseInv, [Next]_vars PROVE BaseInv'
  OBVIOUS
<1>1. TypeOK /\ RestOK
  BY DEF BaseInv, TypeOK, RestOK
<1>2. /\ \A w \in Worker : Unasked(run[w]) /\ run[w] \in Run
      /\ \A w \in Worker : run[w].pc \notin {"poll", "report"} => ~run[w].news
  BY DEF BaseInv, TypeOK, Unasked
<1>3. /\ MaxFaults \in Nat /\ faults \in 0..MaxFaults
      /\ months \in Nat /\ overtakes \in Nat /\ months + overtakes <= faults
  BY MonitorAssumption, <1>1 DEF RestOK
<1>4. ASSUME NEW w \in Worker, NEW force \in BOOLEAN, Begin(w, force) PROVE BaseInv'
  <2>1. RestOK' /\ conf' = conf
    BY <1>1, <1>4 DEF Begin, db, world, book, pledge, alarm, RestOK
  <2>2. OneStep(w) /\ Free(w) /\ Unasked(run'[w])
    BY <1>1, <1>4, BeginEffect DEF Unasked
  <2> QED
    BY <2>1, <2>2, BaseStep
<1>5. ASSUME NEW w \in Worker, NEW act \in Act, BeginControl(w, act) PROVE BaseInv'
  <2>1. RestOK' /\ conf' = conf
    BY <1>1, <1>5 DEF BeginControl, db, world, book, pledge, alarm, RestOK
  <2>2. OneStep(w) /\ Free(w) /\ Unasked(run'[w])
    BY <1>1, <1>5, BeginControlEffect DEF Unasked
  <2> QED
    BY <2>1, <2>2, BaseStep
<1>6. ASSUME NEW w \in Worker, NEW act \in Act, Schedule(w, act) PROVE BaseInv'
  <2>1. At(w, act) /\ act \in {"start", "stop"}
    BY <1>6 DEF Schedule, Act
  <2>2. run[w].gotTraffic = "no" /\ run[w].gotStatus = "no" /\ ~run[w].news
    BY <1>2, <2>1 DEF Unasked, At
  <2>3. PICK k \in Key : events' = events \cup {k} /\ OneStep(w) /\ Unasked(run'[w])
    BY <1>1, <1>6, <2>2, ScheduleEffect DEF Unasked
  <2>4. RestOK' /\ conf' = conf
    BY <1>1, <1>6, <2>3 DEF Schedule, Record, world, book, pledge, alarm, RestOK
  <2>5. Locked(w)
    BY <2>1 DEF At, Locked
  <2> QED
    BY <2>3, <2>4, <2>5, BaseStep
<1>7. ASSUME NEW w \in Worker, Call(w) PROVE BaseInv'
  <2>1. /\ OneStep(w) /\ At(w, "call") /\ Unasked(run'[w])
        /\ cloud' \in Status \ {"Unknown"} /\ owed' \in BOOLEAN
        /\ faults' \in 0..MaxFaults /\ faults' >= faults
    <3>1. run[w].gotTraffic = "no" /\ run[w].gotStatus = "no" /\ ~run[w].news
      BY <1>2, <1>7 DEF Call, Unasked, At
    <3> QED
      BY <1>1, <1>7, <3>1, CallEffect DEF Unasked
  <2>2. standing' \in [Key -> Nat]
    <3>1. CASE run[w].why = "manual"
      BY <1>1, <1>7, <3>1 DEF Call, RestOK
    <3>2. CASE run[w].why # "manual"
      <4>1. KeyOf(run[w]) \in Key
        BY <1>2, <3>2, KeyFacts
      <4>2. standing' = [standing EXCEPT ![KeyOf(run[w])] = @ + 1]
        BY <1>7, <3>2 DEF Call
      <4> QED
        BY <1>1, <4>1, <4>2 DEF RestOK
    <3> QED
      BY <3>1, <3>2
  <2>3. UNCHANGED <<db, cache, conf, now, usage, lost, reverted, alarm>>
    BY <1>7 DEF Call
  <2>4. months' + overtakes' <= faults'
    BY <1>3, <2>1, <2>3 DEF alarm
  <2>5. RestOK' /\ conf' = conf
    BY <1>1, <2>1, <2>2, <2>3, <2>4 DEF db, alarm, RestOK
  <2>6. Locked(w)
    BY <2>1 DEF At, Locked
  <2> QED
    BY <2>1, <2>5, <2>6, BaseStep
<1>8. ASSUME NEW w \in Worker, Acknowledge(w) PROVE BaseInv'
  <2>1. /\ OneStep(w) /\ At(w, "acked") /\ Unasked(run'[w])
        /\ status' \in Status
    <3>1. run[w].gotTraffic = "no" /\ run[w].gotStatus = "no" /\ ~run[w].news
      BY <1>2, <1>8 DEF Acknowledge, Unasked, At
    <3> QED
      BY <1>1, <1>8, <3>1, AcknowledgeEffect DEF Unasked, Status
  <2>2. /\ UNCHANGED <<used, sampled, events, notices, cache, world, faults, standing, lost, pledge,
                        months, overtakes>>
        /\ fused' \in BOOLEAN
    BY <1>8 DEF Acknowledge
  <2>3. RestOK' /\ conf' = conf
    BY <1>1, <2>1, <2>2 DEF world, pledge, RestOK
  <2>4. Locked(w)
    BY <2>1 DEF At, Locked
  <2> QED
    BY <2>1, <2>3, <2>4, BaseStep
<1>9. ASSUME NEW w \in Worker, TakeBack(w) PROVE BaseInv'
  <2>1. OneStep(w) /\ run'[w].pc = "idle" /\ ~run'[w].news
    BY <1>1, <1>9, Finished DEF TakeBack
  <2>2. events' \subseteq Key /\ standing' \in [Key -> Nat]
    BY <1>1, <1>9 DEF TakeBack, RestOK
  <2>3. RestOK' /\ conf' = conf
    BY <1>1, <1>9, <2>2 DEF TakeBack, world, pledge, alarm, RestOK
  <2> QED
    BY <2>1, <2>3, BaseStep DEF At, Locked, Unasked
<1>10. ASSUME NEW w \in Worker, FetchTraffic(w) PROVE BaseInv'
  <2>1. ~run[w].news
    BY <1>2, <1>10 DEF FetchTraffic, Unasked, Level
  <2>2. /\ OneStep(w) /\ Locked(w) /\ Unasked(run'[w])
        /\ faults' \in 0..MaxFaults /\ faults' >= faults
    BY <1>1, <1>10, <2>1, FetchTrafficEffect DEF Unasked, TypeOK
  <2>3. UNCHANGED <<db, cache, world, standing, lost, pledge, alarm>>
    BY <1>10 DEF FetchTraffic
  <2>4. months' + overtakes' <= faults'
    BY <1>3, <2>2, <2>3 DEF alarm
  <2>5. RestOK' /\ conf' = conf
    BY <1>1, <2>2, <2>3, <2>4 DEF db, world, pledge, alarm, RestOK
  <2> QED
    BY <2>2, <2>5, BaseStep
<1>11. ASSUME NEW w \in Worker, FetchStatus(w) PROVE BaseInv'
  <2>1. /\ OneStep(w) /\ At(w, "poll") /\ Unasked(run'[w])
        /\ faults' \in 0..MaxFaults /\ faults' >= faults
    BY <1>1, <1>2, <1>11, FetchStatusEffect DEF Unasked
  <2>2. UNCHANGED <<db, cache, world, standing, lost, pledge, alarm>>
    BY <1>11 DEF FetchStatus
  <2>3. months' + overtakes' <= faults'
    BY <1>3, <2>1, <2>2 DEF alarm
  <2>4. RestOK' /\ conf' = conf
    BY <1>1, <2>1, <2>2, <2>3 DEF db, world, pledge, alarm, RestOK
  <2> QED
    BY <2>1, <2>4, BaseStep DEF At, Locked
<1>12. ASSUME NEW w \in Worker, StoreAnswers(w) PROVE BaseInv'
  <2>1. /\ OneStep(w) /\ At(w, "poll") /\ Unasked(run'[w])
        /\ status' \in Status /\ used' \in Level /\ sampled' \in 0..LastSlot
    BY <1>1, <1>12, StoreAnswersEffect DEF Unasked
  <2>2. UNCHANGED <<events, notices, cache, world, faults, standing, lost, owed, alarm>>
    BY <1>12 DEF StoreAnswers
  <2>3. reverted' \in BOOLEAN
    BY <1>12 DEF StoreAnswers
  <2>4. RestOK' /\ conf' = conf
    BY <1>1, <2>1, <2>2, <2>3 DEF world, alarm, RestOK
  <2> QED
    BY <2>1, <2>4, BaseStep DEF At, Locked
<1>13. ASSUME NEW w \in Worker, Fall(w) PROVE BaseInv'
  <2>0. ~run[w].news
    BY <1>2, <1>13 DEF Fall, At
  <2>1. OneStep(w) /\ At(w, "fall") /\ Unasked(run'[w])
    BY <1>1, <1>13, <2>0, FallEffect DEF Unasked
  <2>2. RestOK' /\ conf' = conf
    BY <1>1, <1>13 DEF Fall, world, book, pledge, alarm, RestOK
  <2> QED
    BY <2>1, <2>2, BaseStep DEF At, Locked, Unasked
<1>14. ASSUME NEW w \in Worker, Clear(w) PROVE BaseInv'
  <2>0. ~run[w].news
    BY <1>2, <1>14 DEF Clear, At
  <2>1. OneStep(w) /\ At(w, "clear") /\ Unasked(run'[w])
    BY <1>1, <1>14, <2>0, ClearEffect DEF Unasked
  <2>2. events' \subseteq Key /\ standing' \in [Key -> Nat] /\ lost' \subseteq Key
    BY <1>1, <1>14 DEF Clear, RestOK
  <2>3. RestOK' /\ conf' = conf
    BY <1>1, <1>14, <2>2 DEF Clear, world, pledge, alarm, RestOK
  <2> QED
    BY <2>1, <2>3, BaseStep DEF At, Locked, Unasked
<1>15. ASSUME NEW w \in Worker, KeepAlive(w) PROVE BaseInv'
  <2>0. ~run[w].news
    BY <1>2, <1>15 DEF KeepAlive, At
  <2>1. PICK k \in Key : OneStep(w) /\ At(w, "keepalive") /\ events' = events \cup {k} /\ Unasked(run'[w])
    BY <1>1, <1>15, <2>0, KeepAliveEffect DEF Unasked
  <2>2. RestOK' /\ conf' = conf
    BY <1>1, <1>15, <2>1 DEF KeepAlive, Record, world, book, pledge, alarm, RestOK
  <2> QED
    BY <2>1, <2>2, BaseStep DEF At, Locked
<1>16. ASSUME NEW w \in Worker, Fuse(w) PROVE BaseInv'
  <2>0. ~run[w].news
    BY <1>2, <1>16 DEF Fuse, At
  <2>1. OneStep(w) /\ At(w, "fuse") /\ events' = events \cup {StopKey} /\ Unasked(run'[w])
    BY <1>1, <1>16, <2>0, FuseEffect DEF Unasked
  <2>2. StopKey \in Key
    BY DEF StopKey, Key
  <2>3. RestOK' /\ conf' = conf
    BY <1>1, <1>16, <2>1, <2>2 DEF Fuse, Record, world, book, pledge, alarm, RestOK
  <2> QED
    BY <2>1, <2>3, BaseStep DEF At, Locked
<1>17. ASSUME NEW w \in Worker, Alert(w) PROVE BaseInv'
  <2>0. ~run[w].news
    BY <1>2, <1>17 DEF Alert, At
  <2>1. OneStep(w) /\ At(w, "alert") /\ Unasked(run'[w])
    BY <1>1, <1>17, <2>0, AlertEffect DEF Unasked
  <2>2. AlertKey \in Key
    BY DEF AlertKey, Key
  <2>3. RestOK' /\ conf' = conf
    BY <1>1, <1>17, <2>2 DEF Alert, world, book, pledge, alarm, RestOK
  <2> QED
    BY <2>1, <2>3, BaseStep DEF At, Locked
<1>18. ASSUME NEW w \in Worker, Notify(w) PROVE BaseInv'
  <2>1. OneStep(w) /\ run'[w].pc = "idle" /\ ~run'[w].news
    BY <1>1, <1>18, Finished DEF Notify
  <2>2. RestOK' /\ conf' = conf
    BY <1>1, <1>18 DEF Notify, world, book, pledge, alarm, RestOK
  <2> QED
    BY <2>1, <2>2, BaseStep DEF At, Locked, Unasked
<1>19. ASSUME NEW w \in Worker, Cut(w) PROVE BaseInv'
  <2>1. OneStep(w) /\ run'[w].pc = "idle" /\ ~run'[w].news
    BY <1>1, <1>19, Finished DEF Cut
  <2>2. lost' \subseteq Key
    <3>1. run[w].why # "manual" => KeyOf(run[w]) \in Key
      BY <1>2, KeyFacts
    <3> QED
      BY <1>1, <1>19, <3>1 DEF Cut, RestOK
  <2>3. faults' \in 0..MaxFaults /\ months' + overtakes' <= faults' /\ owed' \in BOOLEAN
    BY <1>1, <1>3, <1>19 DEF Cut, alarm
  <2>4. RestOK' /\ conf' = conf
    BY <1>1, <1>19, <2>2, <2>3 DEF Cut, db, world, alarm, RestOK
  <2> QED
    BY <2>1, <2>3, <2>4, BaseStep DEF At, Locked, Unasked
<1>20. CASE Settle
  BY <1>1, <1>20, BaseRest DEF Settle, db, alarm, RestOK, Status, InFlight, Settled
<1>21. CASE Outside
  <2>1. faults' \in 0..MaxFaults /\ months' + overtakes' <= faults'
    BY <1>1, <1>3, <1>21 DEF Outside, alarm
  <2>2. cloud' \in Status \ {"Unknown"}
    BY <1>21 DEF Outside, Status, Settled
  <2> QED
    BY <1>1, <1>21, <2>1, <2>2, BaseRest DEF Outside, db, pledge, alarm, RestOK
<1>22. CASE Consume
  BY <1>1, <1>22, BaseRest DEF Consume, db, book, pledge, alarm, RestOK, Level
<1>23. Later => now' \in Slot
  BY <1>1, MonitorAssumption DEF Later, Slot, RestOK
<1>24. CASE Tick
  <2>1. now' \in Slot
    BY <1>23, <1>24 DEF Tick
  <2> QED
    BY <1>1, <1>24, <2>1, BaseRest DEF Tick, db, book, pledge, alarm, RestOK
<1>25. CASE NewMonth
  <2>1. now' \in Slot
    BY <1>23, <1>25 DEF NewMonth
  <2>2. /\ faults' \in 0..MaxFaults /\ months' \in Nat /\ overtakes' = overtakes
        /\ months' + overtakes' <= faults'
    BY <1>1, <1>3, <1>25 DEF NewMonth
  <2>3. usage' \in Level /\ fused' \in BOOLEAN /\ cache' \in [Worker -> Level \cup {"none"}]
    BY <1>25 DEF NewMonth, Level
  <2>4. RestOK' /\ conf' = conf
    BY <1>1, <1>25, <2>1, <2>2, <2>3 DEF NewMonth, db, pledge, RestOK
  <2>5. run' \in [Worker -> Run] /\ \A v \in Worker : SameRun(v)
    BY <1>1, <1>25, NewMonthEffect
  <2>6. TypeOK'
    BY <2>4, <2>5 DEF TypeOK, RestOK
  <2>7. LockInv'
    BY <2>4, <2>5 DEF BaseInv, LockInv, Locked, SameRun
  <2>8. \A v \in Worker : Unasked(run'[v])
    BY <1>2, <2>5 DEF Unasked, SameRun
  <2> QED
    BY <2>6, <2>7, <2>8 DEF BaseInv
<1>26. ASSUME NEW w \in Worker, BeginReport(w) PROVE BaseInv'
  <2>1. OneStep(w) /\ ~(Locked(w)') /\ Unasked(run'[w])
    BY <1>1, <1>26, BeginReportEffect DEF Unasked, Locked
  <2>2. RestOK' /\ conf' = conf
    BY <1>1, <1>26 DEF BeginReport, db, world, book, pledge, alarm, RestOK
  <2> QED
    BY <2>1, <2>2, BaseStep
<1>27. ASSUME NEW w \in Worker, EnterReport(w) PROVE BaseInv'
  <2>1. run[w].gotTraffic = "no" /\ ~run[w].news
    BY <1>2, <1>27 DEF EnterReport, At, Unasked
  <2>2. OneStep(w) /\ Free(w) /\ Unasked(run'[w])
    BY <1>1, <1>27, <2>1, EnterReportEffect DEF Unasked
  <2>3. RestOK' /\ conf' = conf
    BY <1>1, <1>27 DEF EnterReport, db, world, book, pledge, alarm, RestOK
  <2> QED
    BY <2>2, <2>3, BaseStep
<1>28. ASSUME NEW w \in Worker, StoreReport(w) PROVE BaseInv'
  <2>1. /\ OneStep(w) /\ ~(Locked(w)') /\ Unasked(run'[w])
        /\ status' \in Status /\ used' \in Level /\ sampled' \in 0..LastSlot
    BY <1>1, <1>28, StoreReportEffect DEF Unasked, Locked
  <2>2. UNCHANGED <<events, notices, cache, world, faults, standing, lost, owed, alarm>>
    BY <1>28 DEF StoreReport
  <2>3. reverted' \in BOOLEAN
    BY <1>1, <1>28 DEF StoreReport, RestOK
  <2>4. RestOK' /\ conf' = conf
    BY <1>1, <2>1, <2>2, <2>3 DEF world, alarm, RestOK
  <2> QED
    BY <2>1, <2>4, BaseStep
<1>29. ASSUME NEW w \in Worker, NEW level \in Level, Keep(w, level)
       PROVE  RestOK' /\ conf' = conf
  <2>1. /\ cache' \in [Worker -> Level \cup {"none"}] /\ fused' \in BOOLEAN
        /\ UNCHANGED <<db, world, standing, lost, pledge, months>>
        /\ \/ overtakes' = overtakes + 1 /\ faults' = faults + 1 /\ faults < MaxFaults
           \/ overtakes' = overtakes /\ faults' = faults
    BY <1>1, <1>29, KeepFacts
  <2>2. /\ faults' \in 0..MaxFaults /\ overtakes' \in Nat
        /\ months' + overtakes' <= faults'
    BY <1>3, <2>1
  <2> QED
    BY <1>1, <2>1, <2>2 DEF db, world, pledge, RestOK
<1>30. ASSUME NEW w \in Worker, KeepTraffic(w) PROVE BaseInv'
  <2>1. /\ OneStep(w) /\ Keep(w, run[w].gotTraffic) /\ run[w].news /\ ~run'[w].news
        /\ run'[w].pc = run[w].pc
    BY <1>1, <1>30, KeepTrafficEffect
  <2>2. run[w].gotTraffic \in Level /\ run[w].pc \in {"poll", "report"}
    BY <1>2, <2>1 DEF Unasked
  <2>3. Locked(w) /\ Unasked(run'[w])
    BY <2>1, <2>2 DEF Locked, Unasked
  <2> QED
    BY <1>29, <2>1, <2>2, <2>3, BaseStep
<1>31. ASSUME NEW w \in Worker, NEW level \in Level, PeerKeeps(w, level) PROVE BaseInv'
  BY <1>29, <1>31, BaseRest DEF PeerKeeps
<1>32. CASE UNCHANGED vars
  BY <1>1, <1>32, BaseRest DEF vars, db, world, book, pledge, alarm, RestOK
<1> QED
  BY <1>4, <1>5, <1>6, <1>7, <1>8, <1>9, <1>10, <1>11, <1>12, <1>13, <1>14, <1>15, <1>16,
     <1>17, <1>18, <1>19, <1>20, <1>21, <1>22, <1>24, <1>25, <1>26, <1>27, <1>28, <1>30,
     <1>31, <1>32 DEF Next

-----------------------------------------------------------------------------
(* Keys and calls.                                                         *)

\* A key that the step has nothing to do with.
LEMMA KeyOther ==
  ASSUME NEW k, NEW w \in Worker, OneStep(w), KeyFits(k), ~Holds(w, k), ~(Holds(w, k)'),
         standing'[k] = standing[k], k \in events' <=> k \in events, k \in lost' <=> k \in lost
  PROVE  KeyFits(k)'
<1>1. \A v \in Worker : (Holds(v, k)' <=> Holds(v, k)) /\ (v # w => (At(v, "call")' <=> At(v, "call")))
  BY DEF OneStep, Holds, At
<1> QED
  BY <1>1 DEF KeyFits, Held

\* A key whose call the worker's run is making.
LEMMA KeyTaken ==
  ASSUME NEW k, NEW w \in Worker, OneStep(w), \A v \in Worker \ {w} : ~Holds(v, k), Holds(w, k)',
         k \in events', k \notin lost', standing'[k] = IF At(w, "call")' THEN 0 ELSE 1
  PROVE  KeyFits(k)'
<1>1. \A v \in Worker \ {w} : ~(Holds(v, k)')
  BY DEF OneStep, Holds
<1> QED
  BY <1>1 DEF KeyFits, Held

\* A key that nobody's run is making a call under any more.
LEMMA KeyLeft ==
  ASSUME NEW k, NEW w \in Worker, OneStep(w), \A v \in Worker \ {w} : ~Holds(v, k), ~(Holds(w, k)'),
         standing'[k] <= 1, k \in events' <=> (standing'[k] = 1 \/ k \in lost')
  PROVE  KeyFits(k)'
<1>1. \A v \in Worker : ~(Holds(v, k)')
  BY DEF OneStep, Holds
<1> QED
  BY <1>1 DEF KeyFits, Held

\* A step of a run that makes no call, and leaves the calls' keys alone.
LEMMA KeyQuiet ==
  ASSUME KeyInv, NEW w \in Worker, OneStep(w), conf' = conf, standing' = standing, lost' = lost,
         \A k \in Key \ {AlertKey} : k \in events' <=> k \in events,
         \A k \in Key \ {AlertKey} : ~Holds(w, k) /\ ~(Holds(w, k)')
  PROVE  KeyInv'
<1>1. ASSUME NEW k \in Key, Ruled(k)' PROVE KeyFits(k)'
  <2>1. k # AlertKey /\ Ruled(k)
    BY <1>1 DEF Ruled
  <2> QED
    BY <2>1, KeyOther DEF KeyInv
<1> QED
  BY <1>1 DEF KeyInv

\* A step that concerns one key.
LEMMA KeyStep ==
  ASSUME KeyInv, NEW w \in Worker, OneStep(w), conf' = conf, NEW K \in Key \ {AlertKey},
         Ruled(K) => KeyFits(K)',
         \A k \in Key \ {K} :
           /\ standing'[k] = standing[k]
           /\ k \in events' <=> k \in events
           /\ k \in lost' <=> k \in lost
           /\ ~Holds(w, k) /\ ~(Holds(w, k)')
  PROVE  KeyInv'
<1>1. ASSUME NEW k \in Key, Ruled(k)' PROVE KeyFits(k)'
  <2>1. Ruled(k)
    BY <1>1 DEF Ruled
  <2>2. CASE k = K
    BY <2>1, <2>2
  <2>3. CASE k # K
    BY <2>1, <2>3, KeyOther DEF KeyInv
  <2> QED
    BY <2>2, <2>3
<1>2. AlertKey \in Key \ {K}
  BY DEF AlertKey, Key
<1> QED
  BY <1>1, <1>2 DEF KeyInv

\* The recording of a call's key: who finds it there makes no call.
LEMMA KeyRecorded ==
  ASSUME BaseInv, KeyInv, NEW w \in Worker, OneStep(w), conf' = conf, standing' = standing, lost' = lost,
         NEW K \in Key \ {AlertKey}, events' = events \cup {K}, run[w].pc \notin Calling,
         K \notin events => run'[w].pc = "call" /\ run'[w].why # "manual" /\ KeyOf(run'[w]) = K,
         K \in events => run'[w].pc \notin Calling
  PROVE  KeyInv'
<1>1. \A k \in Key : ~Holds(w, k)
  BY DEF Holds, Calling
<1>2. CASE K \in events
  <2>1. \A k \in Key : ~(Holds(w, k)')
    BY <1>2 DEF Holds, Calling
  <2> QED
    BY <1>1, <1>2, <2>1, KeyQuiet
<1>3. CASE K \notin events
  <2>1. \A k \in Key : Holds(w, k)' <=> k = K
    BY <1>3 DEF Holds
  <2>2. ASSUME Ruled(K) PROVE KeyFits(K)'
    <3>1. KeyFits(K)
      BY <2>2 DEF KeyInv
    <3>2. \A v \in Worker : ~Holds(v, K)
      BY <1>3, <3>1 DEF KeyFits
    <3>3. standing[K] <= 1 /\ standing[K] # 1 /\ K \notin lost
      BY <1>3, <3>1, <3>2 DEF KeyFits, Held
    <3>4. standing'[K] = 0
      BY <3>3 DEF BaseInv, TypeOK
    <3>5. At(w, "call")'
      BY <1>3 DEF At
    <3> QED
      BY <2>1, <3>2, <3>3, <3>4, <3>5, KeyTaken
  <2> QED
    BY <1>1, <2>1, <2>2, KeyStep
<1> QED
  BY <1>2, <1>3

\* A call's key, from the call until the run is done with it.
LEMMA HeldKey ==
  ASSUME BaseInv, KeyInv, NEW w \in Worker, run[w].pc \in Calling, run[w].why # "manual"
  PROVE  /\ KeyOf(run[w]) \in Key \ {AlertKey}
         /\ \A k \in Key : Holds(w, k) <=> k = KeyOf(run[w])
         /\ Ruled(KeyOf(run[w])) =>
              /\ \A v \in Worker \ {w} : ~Holds(v, KeyOf(run[w]))
              /\ KeyOf(run[w]) \in events /\ KeyOf(run[w]) \notin lost
              /\ standing[KeyOf(run[w])] = IF At(w, "call") THEN 0 ELSE 1
<1>1. KeyOf(run[w]) \in Key \ {AlertKey}
  BY KeyFacts DEF BaseInv, TypeOK
<1>2. \A k \in Key : Holds(w, k) <=> k = KeyOf(run[w])
  BY DEF Holds, Calling
<1>3. Ruled(KeyOf(run[w])) => KeyFits(KeyOf(run[w]))
  BY <1>1 DEF KeyInv
<1> QED
  BY <1>1, <1>2, <1>3 DEF KeyFits

LEMMA InitKey == Init => KeyInv
<1> SUFFICES ASSUME Init PROVE KeyInv
  OBVIOUS
<1>1. AlertKey \in Key
  BY DEF AlertKey, Key
<1>2. \A w \in Worker, k \in Key : ~Holds(w, k)
  BY DEF Init, Holds, Idle
<1>3. events = {} /\ lost = {} /\ standing = [k \in Key |-> 0]
  BY DEF Init
<1> QED
  BY <1>1, <1>2, <1>3 DEF KeyInv, KeyFits, Held

LEMMA NextKey == BaseInv /\ KeyInv /\ [Next]_vars => KeyInv'
<1> SUFFICES ASSUME BaseInv, KeyInv, [Next]_vars PROVE KeyInv'
  OBVIOUS
<1>1. /\ TypeOK /\ \A w \in Worker : Unasked(run[w]) /\ run[w] \in Run
      /\ \A w \in Worker : run[w].pc \notin {"poll", "report"} => ~run[w].news
  BY DEF BaseInv, TypeOK, Unasked
<1>2. \A w \in Worker : run[w].why = "manual" => \A k \in Key : ~Holds(w, k)
  BY DEF Holds
<1>3. \A w \in Worker : run[w].pc \notin Calling => \A k \in Key : ~Holds(w, k)
  BY DEF Holds, Calling
<1>4. \A w \in Worker :
        (run'[w].pc \notin Calling \/ run'[w].why = "manual") => \A k \in Key : ~(Holds(w, k)')
  BY DEF Holds, Calling
<1>5. ASSUME NEW w \in Worker, NEW force \in BOOLEAN, Begin(w, force) PROVE KeyInv'
  <2>1. OneStep(w) /\ run[w].pc \notin Calling /\ run'[w].pc \notin Calling
    BY <1>1, <1>5, BeginEffect DEF At, Calling
  <2>2. conf' = conf /\ standing' = standing /\ lost' = lost /\ events' = events
    BY <1>5 DEF Begin, db, world, book, pledge, alarm
  <2> QED
    BY <1>3, <1>4, <2>1, <2>2, KeyQuiet
<1>6. ASSUME NEW w \in Worker, NEW act \in Act, BeginControl(w, act) PROVE KeyInv'
  <2>1. OneStep(w) /\ run[w].pc \notin Calling /\ run'[w].why = "manual"
    BY <1>1, <1>6, BeginControlEffect DEF At, Calling
  <2>2. conf' = conf /\ standing' = standing /\ lost' = lost /\ events' = events
    BY <1>6 DEF BeginControl, db, world, book, pledge, alarm
  <2> QED
    BY <1>3, <1>4, <2>1, <2>2, KeyQuiet
<1>7. ASSUME NEW w \in Worker, NEW act \in Act, Schedule(w, act) PROVE KeyInv'
  <2>1. At(w, act) /\ act \in {"start", "stop"}
    BY <1>7 DEF Schedule, Act
  <2>2. /\ run[w].gotTraffic = "no" /\ run[w].gotStatus = "no" /\ ~run[w].news
        /\ run[w].pc \notin Calling
    BY <1>1, <2>1 DEF Unasked, At, Calling
  <2>3. PICK k \in Key \ {AlertKey} :
          /\ OneStep(w) /\ events' = events \cup {k}
          /\ k \notin events => run'[w].pc = "call" /\ run'[w].why # "manual" /\ KeyOf(run'[w]) = k
          /\ k \in events => run'[w].pc \notin Calling
    BY <1>1, <1>7, <2>2, ScheduleEffect DEF Calling
  <2>4. conf' = conf /\ standing' = standing /\ lost' = lost
    BY <1>7 DEF Schedule, Record, world, book, pledge, alarm
  <2> QED
    BY <2>2, <2>3, <2>4, KeyRecorded
<1>8. ASSUME NEW w \in Worker, KeepAlive(w) PROVE KeyInv'
  <2>0. ~run[w].news
    BY <1>1, <1>8 DEF KeepAlive, At
  <2>1. PICK k \in Key \ {AlertKey} :
          /\ OneStep(w) /\ At(w, "keepalive") /\ events' = events \cup {k}
          /\ k \notin events => run'[w].pc = "call" /\ run'[w].why # "manual" /\ KeyOf(run'[w]) = k
          /\ k \in events => run'[w].pc \notin Calling
    BY <1>1, <1>8, <2>0, KeepAliveEffect DEF Calling
  <2>2. conf' = conf /\ standing' = standing /\ lost' = lost
    BY <1>8 DEF KeepAlive, Record, world, book, pledge, alarm
  <2>3. run[w].pc \notin Calling
    BY <2>1 DEF At, Calling
  <2> QED
    BY <2>1, <2>2, <2>3, KeyRecorded
<1>9. ASSUME NEW w \in Worker, Fuse(w) PROVE KeyInv'
  <2>0. ~run[w].news
    BY <1>1, <1>9 DEF Fuse, At
  <2>1. /\ OneStep(w) /\ At(w, "fuse") /\ events' = events \cup {StopKey}
        /\ StopKey \notin events => run'[w].pc = "call" /\ run'[w].why # "manual" /\ KeyOf(run'[w]) = StopKey
        /\ StopKey \in events => run'[w].pc \notin Calling
    BY <1>1, <1>9, <2>0, FuseEffect DEF Calling
  <2>2. conf' = conf /\ standing' = standing /\ lost' = lost
    BY <1>9 DEF Fuse, Record, world, book, pledge, alarm
  <2>3. run[w].pc \notin Calling /\ StopKey \in Key \ {AlertKey}
    BY <2>1 DEF At, Calling, StopKey, AlertKey, Key
  <2> QED
    BY <2>1, <2>2, <2>3, KeyRecorded
<1>10. ASSUME NEW w \in Worker, Call(w) PROVE KeyInv'
  <2>1. /\ OneStep(w) /\ run[w].pc = "call" /\ run'[w].pc \in {"acked", "refused"}
        /\ run'[w].why = run[w].why /\ KeyOf(run'[w]) = KeyOf(run[w])
    <3>1. run[w].pc = "call" /\ ~run[w].news
      BY <1>1, <1>10 DEF Call, At
    <3> QED
      BY <1>1, <1>10, <3>1, CallEffect
  <2>2. conf' = conf /\ lost' = lost /\ events' = events
    BY <1>10 DEF Call, db
  <2>3. CASE run[w].why = "manual"
    <3>1. standing' = standing
      BY <1>10, <2>3 DEF Call
    <3> QED
      BY <1>2, <1>4, <2>1, <2>2, <2>3, <3>1, KeyQuiet
  <2>4. CASE run[w].why # "manual"
    <3>1. PICK K \in Key \ {AlertKey} :
          /\ K = KeyOf(run[w])
          /\ \A k \in Key : Holds(w, k) <=> k = K
          /\ Ruled(K) => /\ \A v \in Worker \ {w} : ~Holds(v, K)
                         /\ K \in events /\ K \notin lost /\ standing[K] = 0
      BY <2>1, <2>4, HeldKey DEF Calling, At
    <3>2. standing' = [standing EXCEPT ![K] = standing[K] + 1]
      BY <1>10, <2>4, <3>1 DEF Call
    <3>3. \A k \in Key : Holds(w, k)' <=> k = K
      BY <2>1, <2>4, <3>1 DEF Holds
    <3>4. standing'[K] = standing[K] + 1 /\ \A k \in Key \ {K} : standing'[k] = standing[k]
      BY <1>1, <3>1, <3>2 DEF TypeOK
    <3>5. ASSUME Ruled(K) PROVE KeyFits(K)'
      <4>1. ~(At(w, "call")') /\ standing'[K] = 1
        BY <2>1, <3>1, <3>4, <3>5 DEF At
      <4> QED
        BY <2>1, <2>2, <3>1, <3>3, <3>5, <4>1, KeyTaken
    <3> QED
      BY <2>1, <2>2, <3>1, <3>3, <3>4, <3>5, KeyStep
  <2> QED
    BY <2>3, <2>4
<1>11. ASSUME NEW w \in Worker, Acknowledge(w) PROVE KeyInv'
  <2>1. OneStep(w) /\ run[w].pc = "acked" /\ run'[w].pc \notin Calling
    <3>1. run[w].gotTraffic = "no" /\ run[w].gotStatus = "no" /\ run[w].pc = "acked" /\ ~run[w].news
      BY <1>1, <1>11 DEF Acknowledge, Unasked, At
    <3> QED
      BY <1>1, <1>11, <3>1, AcknowledgeEffect DEF Calling
  <2>2. conf' = conf /\ standing' = standing /\ lost' = lost /\ events' = events
    BY <1>11 DEF Acknowledge, world
  <2>3. CASE run[w].why = "manual"
    BY <1>2, <1>4, <2>1, <2>2, <2>3, KeyQuiet
  <2>4. CASE run[w].why # "manual"
    <3>1. PICK K \in Key \ {AlertKey} :
          /\ K = KeyOf(run[w])
          /\ \A k \in Key : Holds(w, k) <=> k = K
          /\ Ruled(K) => /\ \A v \in Worker \ {w} : ~Holds(v, K)
                         /\ K \in events /\ K \notin lost /\ standing[K] = 1
      BY <2>1, <2>4, HeldKey DEF Calling, At
    <3>2. \A k \in Key : ~(Holds(w, k)')
      BY <1>4, <2>1
    <3>3. ASSUME Ruled(K) PROVE KeyFits(K)'
      BY <2>1, <2>2, <3>1, <3>2, <3>3, KeyLeft
    <3> QED
      BY <2>1, <2>2, <3>1, <3>2, <3>3, KeyStep
  <2> QED
    BY <2>3, <2>4
<1>12. ASSUME NEW w \in Worker, TakeBack(w) PROVE KeyInv'
  <2>1. OneStep(w) /\ run[w].pc = "refused" /\ run'[w].pc \notin Calling
    BY <1>1, <1>12, Finished DEF TakeBack, At, Calling
  <2>2. conf' = conf /\ lost' = lost
    BY <1>12 DEF TakeBack, world
  <2>3. CASE run[w].why = "manual"
    <3>1. standing' = standing /\ events' = events
      BY <1>12, <2>3 DEF TakeBack
    <3> QED
      BY <1>2, <1>4, <2>1, <2>2, <2>3, <3>1, KeyQuiet
  <2>4. CASE run[w].why # "manual"
    <3>1. PICK K \in Key \ {AlertKey} :
          /\ K = KeyOf(run[w])
          /\ \A k \in Key : Holds(w, k) <=> k = K
          /\ Ruled(K) => /\ \A v \in Worker \ {w} : ~Holds(v, K)
                         /\ K \in events /\ K \notin lost /\ standing[K] = 1
      BY <2>1, <2>4, HeldKey DEF Calling, At
    <3>2. \A k \in Key : ~(Holds(w, k)')
      BY <1>4, <2>1
    <3>3. /\ events' = events \ {K}
          /\ standing' = [standing EXCEPT ![K] = IF standing[K] > 0 THEN standing[K] - 1 ELSE 0]
      BY <1>12, <2>4, <3>1 DEF TakeBack
    <3>4. /\ standing'[K] = IF standing[K] > 0 THEN standing[K] - 1 ELSE 0
          /\ \A k \in Key \ {K} : standing'[k] = standing[k]
      BY <1>1, <3>1, <3>3 DEF TypeOK
    <3>5. ASSUME Ruled(K) PROVE KeyFits(K)'
      <4>1. standing'[K] = 0 /\ K \notin lost' /\ K \notin events'
        BY <2>2, <3>1, <3>3, <3>4, <3>5
      <4> QED
        BY <2>1, <3>1, <3>2, <3>5, <4>1, KeyLeft
    <3> QED
      BY <2>1, <2>2, <3>1, <3>2, <3>3, <3>4, <3>5, KeyStep
  <2> QED
    BY <2>3, <2>4
<1>13. ASSUME NEW w \in Worker, Cut(w) PROVE KeyInv'
  <2>1. OneStep(w) /\ run'[w].pc \notin Calling
    BY <1>1, <1>13, Finished DEF Cut, Calling
  <2>2. /\ conf' = conf /\ standing' = standing /\ events' = events
        /\ lost' = IF At(w, "call") /\ run[w].why # "manual" THEN lost \cup {KeyOf(run[w])} ELSE lost
    BY <1>13 DEF Cut, db, world, pledge, alarm
  <2>3. CASE run[w].why = "manual" \/ run[w].pc \notin Calling
    <3>1. lost' = lost
      BY <2>2, <2>3 DEF At, Calling
    <3> QED
      BY <1>2, <1>3, <1>4, <2>1, <2>2, <2>3, <3>1, KeyQuiet
  <2>4. CASE run[w].why # "manual" /\ run[w].pc \in Calling
    <3>1. PICK K \in Key \ {AlertKey} :
          /\ K = KeyOf(run[w])
          /\ \A k \in Key : Holds(w, k) <=> k = K
          /\ Ruled(K) => /\ \A v \in Worker \ {w} : ~Holds(v, K)
                         /\ K \in events /\ K \notin lost
                         /\ standing[K] = IF At(w, "call") THEN 0 ELSE 1
      BY <2>4, HeldKey
    <3>2. \A k \in Key : ~(Holds(w, k)')
      BY <1>4, <2>1
    <3>3. lost' = IF At(w, "call") THEN lost \cup {K} ELSE lost
      BY <2>2, <2>4, <3>1
    <3>4. ASSUME Ruled(K) PROVE KeyFits(K)'
      <4>1. standing'[K] <= 1 /\ (K \in events' <=> (standing'[K] = 1 \/ K \in lost'))
        BY <2>2, <3>1, <3>3, <3>4
      <4> QED
        BY <2>1, <3>1, <3>2, <3>4, <4>1, KeyLeft
    <3> QED
      BY <2>1, <2>2, <3>1, <3>2, <3>3, <3>4, KeyStep
  <2> QED
    BY <2>3, <2>4
<1>14. ASSUME NEW w \in Worker, FetchTraffic(w) PROVE KeyInv'
  <2>0. ~run[w].news
    BY <1>1, <1>14 DEF FetchTraffic, Unasked, Level
  <2>1. OneStep(w) /\ run[w].pc \notin Calling /\ run'[w].pc \notin Calling
    BY <1>1, <1>14, <2>0, FetchTrafficEffect DEF Calling
  <2>2. conf' = conf /\ standing' = standing /\ lost' = lost /\ events' = events
    BY <1>14 DEF FetchTraffic, db, world, pledge, alarm
  <2> QED
    BY <1>3, <1>4, <2>1, <2>2, KeyQuiet
<1>15. ASSUME NEW w \in Worker, FetchStatus(w) PROVE KeyInv'
  <2>1. OneStep(w) /\ run[w].pc \notin Calling /\ run'[w].pc \notin Calling
    BY <1>1, <1>15, FetchStatusEffect DEF At, Calling
  <2>2. conf' = conf /\ standing' = standing /\ lost' = lost /\ events' = events
    BY <1>15 DEF FetchStatus, db, world, pledge, alarm
  <2> QED
    BY <1>3, <1>4, <2>1, <2>2, KeyQuiet
<1>16. ASSUME NEW w \in Worker, StoreAnswers(w) PROVE KeyInv'
  <2>1. OneStep(w) /\ run[w].pc \notin Calling /\ run'[w].pc \notin Calling
    BY <1>1, <1>16, StoreAnswersEffect DEF At, Calling
  <2>2. conf' = conf /\ standing' = standing /\ lost' = lost /\ events' = events
    BY <1>16 DEF StoreAnswers, world, pledge, alarm
  <2> QED
    BY <1>3, <1>4, <2>1, <2>2, KeyQuiet
<1>17. ASSUME NEW w \in Worker, Fall(w) PROVE KeyInv'
  <2>0. ~run[w].news
    BY <1>1, <1>17 DEF Fall, At
  <2>1. OneStep(w) /\ run[w].pc \notin Calling /\ run'[w].pc \notin Calling
    BY <1>1, <1>17, <2>0, FallEffect DEF At, Calling
  <2>2. conf' = conf /\ standing' = standing /\ lost' = lost /\ events' = events \ {AlertKey}
    BY <1>17 DEF Fall, world, book, pledge, alarm
  <2> QED
    BY <1>3, <1>4, <2>1, <2>2, KeyQuiet
<1>18. ASSUME NEW w \in Worker, Alert(w) PROVE KeyInv'
  <2>0. ~run[w].news
    BY <1>1, <1>18 DEF Alert, At
  <2>1. OneStep(w) /\ run[w].pc \notin Calling /\ run'[w].pc \notin Calling
    BY <1>1, <1>18, <2>0, AlertEffect DEF At, Calling
  <2>2. conf' = conf /\ standing' = standing /\ lost' = lost /\ events' = events \cup {AlertKey}
    BY <1>18 DEF Alert, world, book, pledge, alarm
  <2> QED
    BY <1>3, <1>4, <2>1, <2>2, KeyQuiet
<1>19. ASSUME NEW w \in Worker, Notify(w) PROVE KeyInv'
  <2>1. OneStep(w) /\ run[w].pc \notin Calling /\ run'[w].pc \notin Calling
    BY <1>1, <1>19, Finished DEF Notify, At, Calling
  <2>2. conf' = conf /\ standing' = standing /\ lost' = lost /\ events' = events
    BY <1>19 DEF Notify, world, book, pledge, alarm
  <2> QED
    BY <1>3, <1>4, <2>1, <2>2, KeyQuiet
\* In one process, the run that found the traffic low is the only one.
<1>20. ASSUME NEW w \in Worker, Clear(w) PROVE KeyInv'
  <2>0. ~run[w].news
    BY <1>1, <1>20 DEF Clear, At
  <2>1. OneStep(w) /\ At(w, "clear") /\ run'[w].pc \notin Calling
    BY <1>1, <1>20, <2>0, ClearEffect DEF Calling
  <2>2. /\ conf' = conf /\ events' = events \ {StopKey} /\ lost' = lost \ {StopKey}
        /\ standing' = [standing EXCEPT ![StopKey] = 0]
    BY <1>20 DEF Clear, world
  <2>3. StopKey \in Key \ {AlertKey}
    BY DEF StopKey, AlertKey, Key
  <2>4. standing'[StopKey] = 0 /\ \A k \in Key \ {StopKey} : standing'[k] = standing[k]
    BY <1>1, <2>2, <2>3 DEF TypeOK
  <2>5. \A k \in Key : ~Holds(w, k) /\ ~(Holds(w, k)')
    BY <1>3, <1>4, <2>1 DEF At, Calling
  <2>6. ASSUME Ruled(StopKey) PROVE KeyFits(StopKey)'
    <3>1. \A v \in Worker \ {w} : ~Locked(v)
      BY <2>1, <2>6 DEF Ruled, BaseInv, LockInv, Locked, At
    <3>2. \A v \in Worker \ {w} : ~Holds(v, StopKey)
      BY <3>1 DEF Locked, Holds
    <3> QED
      BY <2>1, <2>2, <2>3, <2>4, <2>5, <3>2, KeyLeft
  <2> QED
    BY <2>1, <2>2, <2>3, <2>4, <2>5, <2>6, KeyStep
<1>21. ASSUME NEW w \in Worker, BeginReport(w) PROVE KeyInv'
  <2>1. OneStep(w) /\ run[w].pc \notin Calling /\ run'[w].pc \notin Calling
    BY <1>1, <1>21, BeginReportEffect DEF At, Calling
  <2>2. conf' = conf /\ standing' = standing /\ lost' = lost /\ events' = events
    BY <1>21 DEF BeginReport, db, world, book
  <2> QED
    BY <1>3, <1>4, <2>1, <2>2, KeyQuiet
<1>22. ASSUME NEW w \in Worker, EnterReport(w) PROVE KeyInv'
  <2>0. run[w].gotTraffic = "no" /\ ~run[w].news
    BY <1>1, <1>22 DEF EnterReport, Unasked, At
  <2>1. OneStep(w) /\ run[w].pc \notin Calling /\ run'[w].pc \notin Calling
    BY <1>1, <1>22, <2>0, EnterReportEffect DEF At, Calling
  <2>2. conf' = conf /\ standing' = standing /\ lost' = lost /\ events' = events
    BY <1>22 DEF EnterReport, db, world, book
  <2> QED
    BY <1>3, <1>4, <2>1, <2>2, KeyQuiet
<1>23. ASSUME NEW w \in Worker, StoreReport(w) PROVE KeyInv'
  <2>1. OneStep(w) /\ run[w].pc \notin Calling /\ run'[w].pc \notin Calling
    BY <1>1, <1>23, StoreReportEffect DEF At, Calling
  <2>2. conf' = conf /\ standing' = standing /\ lost' = lost /\ events' = events
    BY <1>23 DEF StoreReport, world
  <2> QED
    BY <1>3, <1>4, <2>1, <2>2, KeyQuiet
<1>24. ASSUME NEW w \in Worker, KeepTraffic(w) PROVE KeyInv'
  <2>1. OneStep(w) /\ run[w].pc \notin Calling /\ run'[w].pc \notin Calling
    BY <1>1, <1>24, KeepTrafficEffect DEF Calling
  <2>2. conf' = conf /\ standing' = standing /\ lost' = lost /\ events' = events
    BY <1>24 DEF KeepTraffic, Keep, db, world
  <2> QED
    BY <1>3, <1>4, <2>1, <2>2, KeyQuiet
<1>25. CASE NewMonth
  <2>1. \A v \in Worker : SameRun(v)
    BY <1>1, <1>25, NewMonthEffect
  <2>2. \A v \in Worker : KeyOf(run'[v]) = KeyOf(run[v])
    BY <2>1 DEF SameRun, KeyOf
  <2>3. \A v \in Worker : At(v, "call")' <=> At(v, "call")
    BY <2>1 DEF SameRun, At
  <2>4. \A v \in Worker, k \in Key : Holds(v, k)' <=> Holds(v, k)
    BY <2>1, <2>2 DEF SameRun, Holds
  <2>5. conf' = conf /\ standing' = standing /\ lost' = lost /\ events' = events
    BY <1>25 DEF NewMonth, db
  <2>6. \A k \in Key : KeyFits(k) => KeyFits(k)'
    BY <2>3, <2>4, <2>5 DEF KeyFits, Held
  <2> QED
    BY <2>5, <2>6 DEF KeyInv, Ruled
<1>26. ASSUME UNCHANGED <<conf, run, events, standing, lost>> PROVE KeyInv'
  BY <1>26 DEF KeyInv, Ruled, KeyFits, Held, Holds, At
<1>27. (\/ Settle \/ Outside \/ Consume \/ Tick \/ UNCHANGED vars
        \/ \E w \in Worker, level \in Level : PeerKeeps(w, level))
         => UNCHANGED <<conf, run, events, standing, lost>>
  BY DEF Settle, Outside, Consume, Tick, PeerKeeps, Keep, vars, db, world, book
<1> QED
  BY <1>5, <1>6, <1>7, <1>8, <1>9, <1>10, <1>11, <1>12, <1>13, <1>14, <1>15, <1>16, <1>17,
     <1>18, <1>19, <1>20, <1>21, <1>22, <1>23, <1>24, <1>25, <1>26, <1>27 DEF Next

-----------------------------------------------------------------------------
(* The calls that the cloud is carrying out.                               *)

\* Beside a run that has the mutex, or gets it, there are only idle workers and
\* reports that wait.
LEMMA Sole ==
  ASSUME BaseInv, conf.oneProcess, NEW w \in Worker, Locked(w) \/ Free(w)
  PROVE  \A v \in Worker \ {w} : run[v].pc \in {"idle", "waits"}
  BY DEF BaseInv, LockInv, Free, Locked

\* A step of a worker without the mutex, which stays without it.
Aside(w) ==
  /\ OneStep(w) /\ conf' = conf
  /\ run[w].pc \in {"idle", "waits"} /\ run'[w].pc \in {"idle", "waits"}

LEMMA OwedStep ==
  ASSUME BaseInv, NEW w \in Worker, OneStep(w), conf' = conf, Locked(w) \/ Free(w),
         owed' => cloud' \in InFlight,
         (conf.oneProcess /\ reverted') => owed' /\ run'[w].pc # "acked",
         (conf.oneProcess /\ owed' /\ ~reverted') =>
           (run'[w].pc # "acked" => status' \in InFlight) /\ Aware(run'[w])
  PROVE  OwedInv'
<1>1. ASSUME conf.oneProcess
      PROVE  \A v \in Worker \ {w} : run'[v].pc \in {"idle", "waits"}
  BY <1>1, Sole DEF OneStep
<1>2. ASSUME conf.oneProcess, owed', ~reverted'
      PROVE  /\ (\A v \in Worker : ~(At(v, "acked")')) => status' \in InFlight
             /\ \A v \in Worker : Aware(run'[v])
  <2>1. \A v \in Worker \ {w} : Aware(run'[v])
    BY <1>1, <1>2 DEF Aware
  <2> QED
    BY <1>2, <2>1 DEF At
<1>3. ASSUME conf.oneProcess, reverted'
      PROVE  owed' /\ \A v \in Worker : ~(At(v, "acked")')
  BY <1>1, <1>3 DEF At
<1> QED
  BY <1>2, <1>3 DEF OwedInv

LEMMA InitOwed == Init => OwedInv
  BY DEF Init, OwedInv

\* A step that is not the cloud's or the clock's and leaves them, what is owed and
\* the stored status alone.
LEMMA OwedQuiet ==
  ASSUME BaseInv, OwedInv, NEW w \in Worker, OneStep(w), Locked(w) \/ Free(w),
         ~At(w, "acked"), run'[w].pc # "acked",
         conf' = conf, owed' = owed, reverted' = reverted, cloud' = cloud, status' = status,
         (conf.oneProcess /\ owed /\ ~reverted) => Aware(run'[w])
  PROVE  OwedInv'
<1>1. ASSUME conf.oneProcess, owed, ~reverted PROVE status \in InFlight
  BY <1>1, Sole DEF OwedInv, At
<1> QED
  BY <1>1, OwedStep DEF OwedInv

LEMMA OwedAside ==
  ASSUME OwedInv, NEW w \in Worker, Aside(w),
         owed' = owed, reverted' = reverted, cloud' = cloud, status' = status
  PROVE  OwedInv'
<1>1. \A v \in Worker : At(v, "acked")' <=> At(v, "acked")
  BY DEF Aside, OneStep, At
<1>2. \A v \in Worker : Aware(run[v]) => Aware(run'[v])
  BY DEF Aside, OneStep, Aware
<1> QED
  BY <1>1, <1>2 DEF OwedInv, Aside

LEMMA NextOwed == BaseInv /\ OwedInv /\ [Next]_vars => OwedInv'
<1> SUFFICES ASSUME BaseInv, OwedInv, [Next]_vars PROVE OwedInv'
  OBVIOUS
<1>1. /\ TypeOK /\ \A w \in Worker : Unasked(run[w]) /\ run[w] \in Run
      /\ \A w \in Worker : run[w].pc \notin {"poll", "report"} => ~run[w].news
  BY DEF BaseInv, TypeOK, Unasked
<1>2. \A w \in Worker : (conf.oneProcess /\ owed /\ ~reverted) => Aware(run[w])
  BY DEF OwedInv
<1>3. \A w \in Worker : run'[w].pc \in {"idle", "alert", "notify"} => Aware(run'[w])
  BY DEF Aware
<1>4. ASSUME NEW w \in Worker, Free(w), conf.oneProcess, owed, ~reverted PROVE status \in InFlight
  BY <1>4 DEF OwedInv, Free, Locked, At
<1>5. ASSUME NEW w \in Worker, NEW force \in BOOLEAN, Begin(w, force) PROVE OwedInv'
  <2>1. /\ OneStep(w) /\ Free(w) /\ At(w, "idle")
        /\ run'[w].pc \in {"start", "stop", "poll", "idle", "fall"}
        /\ run'[w].pc \in {"start", "stop", "poll"} => run'[w].status = status /\ run'[w].gotStatus = "no"
        /\ run'[w].pc \in {"start", "stop"} => status \notin InFlight
        /\ run'[w].pc = "fall" => run'[w].status = status
    BY <1>1, <1>5, BeginEffect
  <2>2. conf' = conf /\ owed' = owed /\ reverted' = reverted /\ cloud' = cloud /\ status' = status
    BY <1>5 DEF Begin, db, world, book, pledge, alarm
  <2>3. (conf.oneProcess /\ owed /\ ~reverted) => Aware(run'[w])
    BY <1>4, <2>1 DEF Aware
  <2> QED
    BY <2>1, <2>2, <2>3, OwedQuiet DEF At
<1>6. ASSUME NEW w \in Worker, NEW act \in Act, BeginControl(w, act) PROVE OwedInv'
  <2>1. OneStep(w) /\ Free(w) /\ At(w, "idle") /\ run'[w].pc # "acked"
    BY <1>1, <1>6, BeginControlEffect
  <2>2. /\ conf' = conf /\ owed' = owed /\ reverted' = reverted /\ cloud' = cloud /\ status' = status
        /\ status \notin InFlight
    BY <1>6 DEF BeginControl, db, world, book, pledge, alarm
  <2>3. (conf.oneProcess /\ owed /\ ~reverted) => Aware(run'[w])
    BY <1>4, <2>1, <2>2
  <2> QED
    BY <2>1, <2>2, <2>3, OwedQuiet DEF At
<1>7. ASSUME NEW w \in Worker, NEW act \in Act, Schedule(w, act) PROVE OwedInv'
  <2>1. At(w, act) /\ act \in {"start", "stop"}
    BY <1>7 DEF Schedule, Act
  <2>2. OneStep(w) /\ run'[w].pc # "acked"
    <3>1. run[w].gotTraffic = "no" /\ run[w].gotStatus = "no" /\ ~run[w].news
      BY <1>1, <2>1 DEF Unasked, At
    <3>2. PICK K \in Key \ {AlertKey} :
            /\ OneStep(w)
            /\ K \notin events => run'[w].pc = "call"
            /\ K \in events => run'[w].pc \in {"start", "stop", "poll", "idle", "fall"}
      BY <1>1, <1>7, <3>1, ScheduleEffect
    <3> QED
      BY <3>2
  <2>3. conf' = conf /\ owed' = owed /\ reverted' = reverted /\ cloud' = cloud /\ status' = status
    BY <1>7 DEF Schedule, Record, world, book, pledge, alarm
  <2>4. ~(conf.oneProcess /\ owed /\ ~reverted)
    BY <1>2, <2>1 DEF Aware, At
  <2> QED
    BY <2>1, <2>2, <2>3, <2>4, OwedQuiet DEF At, Locked
<1>8. ASSUME NEW w \in Worker, KeepAlive(w) PROVE OwedInv'
  <2>0. ~run[w].news
    BY <1>1, <1>8 DEF KeepAlive, At
  <2>1. OneStep(w) /\ At(w, "keepalive") /\ run'[w].pc # "acked"
    BY <1>1, <1>8, <2>0, KeepAliveEffect
  <2>2. conf' = conf /\ owed' = owed /\ reverted' = reverted /\ cloud' = cloud /\ status' = status
    BY <1>8 DEF KeepAlive, Record, world, book, pledge, alarm
  <2>3. ~(conf.oneProcess /\ owed /\ ~reverted)
    BY <1>2, <2>1 DEF Aware, At
  <2> QED
    BY <2>1, <2>2, <2>3, OwedQuiet DEF At, Locked
<1>9. ASSUME NEW w \in Worker, Fuse(w) PROVE OwedInv'
  <2>0. ~run[w].news
    BY <1>1, <1>9 DEF Fuse, At
  <2>1. OneStep(w) /\ At(w, "fuse") /\ run'[w].pc # "acked"
    BY <1>1, <1>9, <2>0, FuseEffect
  <2>2. conf' = conf /\ owed' = owed /\ reverted' = reverted /\ cloud' = cloud /\ status' = status
    BY <1>9 DEF Fuse, Record, world, book, pledge, alarm
  <2>3. ~(conf.oneProcess /\ owed /\ ~reverted)
    BY <1>2, <2>1 DEF Aware, At
  <2> QED
    BY <2>1, <2>2, <2>3, OwedQuiet DEF At, Locked
<1>10. ASSUME NEW w \in Worker, Call(w) PROVE OwedInv'
  <2>1. /\ OneStep(w) /\ At(w, "call")
        /\ cloud' # cloud => cloud \in Settled /\ cloud' \in InFlight
        /\ owed' # owed => owed' = TRUE /\ cloud' \in InFlight /\ run'[w].pc = "acked"
        /\ run'[w].pc = "acked" => cloud \in Settled
    <3>1. run[w].pc = "call" /\ ~run[w].news
      BY <1>1, <1>10 DEF Call, At
    <3> QED
      BY <1>1, <1>10, <3>1, CallEffect
  <2>2. conf' = conf /\ reverted' = reverted
    BY <1>10 DEF Call
  <2>3. ~(conf.oneProcess /\ owed /\ ~reverted)
    BY <1>2, <2>1 DEF Aware, At
  <2>4. owed' => cloud' \in InFlight
    BY <2>1 DEF OwedInv
  <2>5. (conf.oneProcess /\ reverted') => owed' /\ run'[w].pc # "acked"
    <3>1. SUFFICES ASSUME conf.oneProcess, reverted PROVE owed' /\ run'[w].pc # "acked"
      BY <2>2
    <3>2. owed /\ cloud \in InFlight
      BY <3>1 DEF OwedInv
    <3> QED
      BY <2>1, <3>2 DEF InFlight, Settled
  <2>6. (conf.oneProcess /\ owed' /\ ~reverted') => run'[w].pc = "acked" /\ Aware(run'[w])
    BY <2>1, <2>2, <2>3 DEF Aware
  <2> QED
    BY <2>1, <2>2, <2>4, <2>5, <2>6, OwedStep DEF At, Locked
<1>11. ASSUME NEW w \in Worker, Acknowledge(w) PROVE OwedInv'
  <2>1. /\ OneStep(w) /\ At(w, "acked") /\ status' \in InFlight
        /\ run'[w].pc \in {"poll", "alert", "idle"}
        /\ run'[w].pc = "poll" => run'[w].status = status' /\ run'[w].gotStatus = "no"
    <3>1. run[w].gotTraffic = "no" /\ run[w].gotStatus = "no" /\ ~run[w].news
      BY <1>1, <1>11 DEF Acknowledge, Unasked, At
    <3> QED
      BY <1>1, <1>11, <3>1, AcknowledgeEffect
  <2>2. conf' = conf /\ owed' = owed /\ reverted' = reverted /\ cloud' = cloud
    BY <1>11 DEF Acknowledge, world, pledge
  <2>3. Aware(run'[w])
    BY <2>1 DEF Aware
  <2>4. conf.oneProcess => ~reverted
    BY <2>1 DEF OwedInv
  <2> QED
    BY <2>1, <2>2, <2>3, <2>4, OwedStep DEF OwedInv, At, Locked
<1>12. ASSUME NEW w \in Worker, TakeBack(w) PROVE OwedInv'
  <2>1. OneStep(w) /\ At(w, "refused") /\ run'[w].pc # "acked" /\ Aware(run'[w])
    BY <1>1, <1>3, <1>12, Finished DEF TakeBack
  <2>2. conf' = conf /\ owed' = owed /\ reverted' = reverted /\ cloud' = cloud /\ status' = status
    BY <1>12 DEF TakeBack, world, pledge
  <2> QED
    BY <2>1, <2>2, OwedQuiet DEF At, Locked
<1>13. ASSUME NEW w \in Worker, FetchTraffic(w) PROVE OwedInv'
  <2>0. ~run[w].news
    BY <1>1, <1>13 DEF FetchTraffic, Unasked, Level
  <2>1. /\ OneStep(w) /\ run[w].pc \in {"poll", "report"} /\ run'[w].pc = run[w].pc
        /\ run'[w].status = run[w].status /\ run'[w].gotStatus = run[w].gotStatus
    BY <1>1, <1>13, <2>0, FetchTrafficEffect
  <2>2. conf' = conf /\ owed' = owed /\ reverted' = reverted /\ cloud' = cloud /\ status' = status
    BY <1>13 DEF FetchTraffic, db, world, pledge
  <2>3. (conf.oneProcess /\ owed /\ ~reverted) => Aware(run'[w])
    BY <1>2, <2>1 DEF Aware, At
  <2> QED
    BY <2>1, <2>2, <2>3, OwedQuiet DEF At, Locked
\* What is read while the cloud carries out a call is a transition.
<1>14. ASSUME NEW w \in Worker, FetchStatus(w) PROVE OwedInv'
  <2>1. /\ OneStep(w) /\ At(w, "poll") /\ run'[w].pc = "poll"
        /\ run'[w].status = run[w].status /\ run'[w].gotStatus \in {cloud, "failed"}
    BY <1>1, <1>14, FetchStatusEffect
  <2>2. conf' = conf /\ owed' = owed /\ reverted' = reverted /\ cloud' = cloud /\ status' = status
    BY <1>14 DEF FetchStatus, db, world, pledge
  <2>3. (conf.oneProcess /\ owed /\ ~reverted) => Aware(run'[w])
    BY <1>2, <2>1 DEF Aware, At, OwedInv
  <2> QED
    BY <2>1, <2>2, <2>3, OwedQuiet DEF At, Locked
\* A poll mends what a report has hidden.
<1>15. ASSUME NEW w \in Worker, StoreAnswers(w) PROVE OwedInv'
  <2>1. /\ OneStep(w) /\ At(w, "poll") /\ run[w].gotStatus # "no"
        /\ (run[w].status \in InFlight /\ run[w].gotStatus \in InFlight \cup {"failed"}) =>
             status' \in InFlight
        /\ reverted' = (reverted /\ status' \notin InFlight)
        /\ run'[w].pc \in {"idle", "fall", "fuse", "alert"}
        /\ run'[w].pc = "fall" => run'[w].status = status'
        /\ run'[w].pc = "fuse" => status' \notin InFlight
    BY <1>1, <1>15, StoreAnswersEffect
  <2>2. conf' = conf /\ owed' = owed /\ cloud' = cloud
    BY <1>15 DEF StoreAnswers, world
  <2>3. (conf.oneProcess /\ owed /\ ~reverted') => status' \in InFlight
    BY <1>2, <2>1 DEF Aware, At
  <2>4. (conf.oneProcess /\ owed /\ ~reverted') => Aware(run'[w])
    BY <2>1, <2>3 DEF Aware
  <2>5. (conf.oneProcess /\ reverted') => owed
    BY <2>1 DEF OwedInv
  <2>6. OneStep(w) /\ Locked(w) /\ run'[w].pc # "acked" /\ (owed' => cloud' \in InFlight)
    BY <2>1, <2>2 DEF At, Locked, OwedInv
  <2> QED
    BY <2>2, <2>3, <2>4, <2>5, <2>6, OwedStep
<1>16. ASSUME NEW w \in Worker, Fall(w) PROVE OwedInv'
  <2>0. ~run[w].news
    BY <1>1, <1>16 DEF Fall, At
  <2>1. OneStep(w) /\ At(w, "fall") /\ run'[w].pc = "clear" /\ run'[w].status = run[w].status
    BY <1>1, <1>16, <2>0, FallEffect
  <2>2. conf' = conf /\ owed' = owed /\ reverted' = reverted /\ cloud' = cloud /\ status' = status
    BY <1>16 DEF Fall, world, book, pledge, alarm
  <2>3. (conf.oneProcess /\ owed /\ ~reverted) => Aware(run'[w])
    BY <1>2, <2>1 DEF Aware, At
  <2> QED
    BY <2>1, <2>2, <2>3, OwedQuiet DEF At, Locked
<1>17. ASSUME NEW w \in Worker, Clear(w) PROVE OwedInv'
  <2>0. ~run[w].news
    BY <1>1, <1>17 DEF Clear, At
  <2>1. /\ OneStep(w) /\ At(w, "clear") /\ run'[w].pc \in {"keepalive", "idle"}
        /\ run'[w].pc = "keepalive" => run[w].status \notin InFlight
    BY <1>1, <1>17, <2>0, ClearEffect DEF InFlight
  <2>2. conf' = conf /\ owed' = owed /\ reverted' = reverted /\ cloud' = cloud /\ status' = status
    BY <1>17 DEF Clear, world, pledge
  <2>3. (conf.oneProcess /\ owed /\ ~reverted) => Aware(run'[w])
    BY <1>2, <2>1 DEF Aware, At
  <2> QED
    BY <2>1, <2>2, <2>3, OwedQuiet DEF At, Locked
<1>18. ASSUME NEW w \in Worker, Alert(w) PROVE OwedInv'
  <2>0. ~run[w].news
    BY <1>1, <1>18 DEF Alert, At
  <2>1. OneStep(w) /\ At(w, "alert") /\ run'[w].pc # "acked" /\ Aware(run'[w])
    BY <1>1, <1>3, <1>18, <2>0, AlertEffect
  <2>2. conf' = conf /\ owed' = owed /\ reverted' = reverted /\ cloud' = cloud /\ status' = status
    BY <1>18 DEF Alert, world, book, pledge, alarm
  <2> QED
    BY <2>1, <2>2, OwedQuiet DEF At, Locked
<1>19. ASSUME NEW w \in Worker, Notify(w) PROVE OwedInv'
  <2>1. OneStep(w) /\ At(w, "notify") /\ run'[w].pc # "acked" /\ Aware(run'[w])
    BY <1>1, <1>3, <1>19, Finished DEF Notify
  <2>2. conf' = conf /\ owed' = owed /\ reverted' = reverted /\ cloud' = cloud /\ status' = status
    BY <1>19 DEF Notify, world, book, pledge, alarm
  <2> QED
    BY <2>1, <2>2, OwedQuiet DEF At, Locked
<1>20. ASSUME NEW w \in Worker, Cut(w) PROVE OwedInv'
  <2>1. OneStep(w) /\ ~At(w, "idle") /\ run'[w].pc = "idle" /\ Aware(run'[w])
    BY <1>1, <1>3, <1>20, Finished DEF Cut
  <2>2. /\ conf' = conf /\ cloud' = cloud /\ status' = status /\ reverted' = reverted
        /\ owed' = (owed /\ ~At(w, "acked"))
    BY <1>20 DEF Cut, db, world
  <2>3. CASE At(w, "acked")
    <3>1. Locked(w) /\ ~owed' /\ (conf.oneProcess => ~reverted')
      BY <2>2, <2>3 DEF At, Locked, OwedInv
    <3> QED
      BY <2>1, <2>2, <3>1, OwedStep
  <2>4. CASE ~At(w, "acked")
    <3>1. owed' = owed
      BY <1>1, <2>2, <2>4 DEF TypeOK
    <3>2. CASE Locked(w)
      BY <2>1, <2>2, <2>4, <3>1, <3>2, OwedQuiet
    <3>3. CASE ~Locked(w)
      BY <2>1, <2>2, <3>1, <3>3, OwedAside DEF Aside, Locked
    <3> QED
      BY <3>2, <3>3
  <2> QED
    BY <2>3, <2>4
<1>21. CASE Settle
  BY <1>21 DEF Settle, OwedInv
<1>22. CASE Outside
  <2>1. ~owed
    BY <1>22 DEF Outside, OwedInv, Settled, InFlight
  <2>2. conf' = conf /\ run' = run /\ owed' = owed /\ reverted' = reverted
    BY <1>22 DEF Outside, pledge
  <2> QED
    BY <2>1, <2>2 DEF OwedInv, At
<1>23. ASSUME NEW w \in Worker, BeginReport(w) PROVE OwedInv'
  <2>1. OneStep(w) /\ At(w, "idle") /\ run'[w].pc = "waits"
    BY <1>1, <1>23, BeginReportEffect
  <2>2. conf' = conf /\ owed' = owed /\ reverted' = reverted /\ cloud' = cloud /\ status' = status
    BY <1>23 DEF BeginReport, db, world, book, pledge
  <2> QED
    BY <2>1, <2>2, OwedAside DEF Aside, At
<1>24. ASSUME NEW w \in Worker, EnterReport(w) PROVE OwedInv'
  <2>0. run[w].gotTraffic = "no" /\ ~run[w].news
    BY <1>1, <1>24 DEF EnterReport, Unasked, At
  <2>1. OneStep(w) /\ At(w, "waits") /\ Free(w) /\ run'[w].pc \in {"idle", "report"}
    BY <1>1, <1>24, <2>0, EnterReportEffect
  <2>2. conf' = conf /\ owed' = owed /\ reverted' = reverted /\ cloud' = cloud /\ status' = status
    BY <1>24 DEF EnterReport, db, world, book, pledge
  <2>3. Aware(run'[w])
    BY <2>1 DEF Aware
  <2> QED
    BY <2>1, <2>2, <2>3, OwedQuiet DEF At
\* A report may hide the transition.
<1>25. ASSUME NEW w \in Worker, StoreReport(w) PROVE OwedInv'
  <2>1. /\ OneStep(w) /\ At(w, "report") /\ run'[w].pc = "idle" /\ Aware(run'[w])
        /\ \/ status' = status /\ reverted' = reverted
           \/ reverted' = (owed /\ status' \notin InFlight)
    BY <1>1, <1>3, <1>25, StoreReportEffect
  <2>2. conf' = conf /\ owed' = owed /\ cloud' = cloud
    BY <1>25 DEF StoreReport, world
  <2>3. Locked(w) /\ (owed' => cloud' \in InFlight)
    BY <2>1, <2>2 DEF At, Locked, OwedInv
  <2>4. CASE status' = status /\ reverted' = reverted
    BY <2>1, <2>2, <2>3, <2>4, OwedQuiet DEF At
  <2>5. CASE reverted' = (owed /\ status' \notin InFlight)
    BY <2>1, <2>2, <2>3, <2>5, OwedStep
  <2> QED
    BY <2>1, <2>4, <2>5
<1>26. ASSUME NEW w \in Worker, KeepTraffic(w) PROVE OwedInv'
  <2>1. /\ OneStep(w) /\ run[w].pc \in {"poll", "report"} /\ run'[w].pc = run[w].pc
        /\ run'[w].status = run[w].status /\ run'[w].gotStatus = run[w].gotStatus
    BY <1>1, <1>26, KeepTrafficEffect
  <2>2. conf' = conf /\ owed' = owed /\ reverted' = reverted /\ cloud' = cloud /\ status' = status
    BY <1>26 DEF KeepTraffic, Keep, db, world, pledge
  <2>3. (conf.oneProcess /\ owed /\ ~reverted) => Aware(run'[w])
    BY <1>2, <2>1 DEF Aware
  <2> QED
    BY <2>1, <2>2, <2>3, OwedQuiet DEF At, Locked
<1>27. CASE NewMonth
  <2>1. \A v \in Worker : SameRun(v)
    BY <1>1, <1>27, NewMonthEffect
  <2>2. conf' = conf /\ owed' = owed /\ reverted' = reverted /\ cloud' = cloud /\ status' = status
    BY <1>27 DEF NewMonth, db, pledge
  <2>3. \A v \in Worker : (At(v, "acked")' <=> At(v, "acked")) /\ (Aware(run[v]) => Aware(run'[v]))
    BY <2>1 DEF SameRun, At, Aware
  <2> QED
    BY <2>2, <2>3 DEF OwedInv
<1>28. ASSUME UNCHANGED <<conf, run, status, cloud, owed, reverted>> PROVE OwedInv'
  BY <1>28 DEF OwedInv, At
<1>29. (\/ Consume \/ Tick \/ UNCHANGED vars
        \/ \E w \in Worker, level \in Level : PeerKeeps(w, level))
         => UNCHANGED <<conf, run, status, cloud, owed, reverted>>
  BY DEF Consume, Tick, PeerKeeps, Keep, vars, db, world, book, pledge
<1> QED
  BY <1>5, <1>6, <1>7, <1>8, <1>9, <1>10, <1>11, <1>12, <1>13, <1>14, <1>15, <1>16, <1>17, <1>18,
     <1>19, <1>20, <1>21, <1>22, <1>23, <1>24, <1>25, <1>26, <1>27, <1>28, <1>29 DEF Next

-----------------------------------------------------------------------------
(* What the cache has.                                                     *)

LEMMA InitRead == Init => ReadInv
  BY DEF Init, ReadInv, Idle

\* A step after which the run has nothing high for the cache but what the traffic is.
LEMMA ReadQuiet ==
  ASSUME ReadInv, NEW w \in Worker, OneStep(w), conf' = conf, cache' = cache, usage' = usage,
         (conf.oneProcess /\ run'[w].news /\ run'[w].gotTraffic = "high") => usage = "high"
  PROVE  ReadInv'
  BY DEF ReadInv, OneStep

\* An answer is no higher than the traffic, whether it was asked for now or before.
LEMMA ReadKept ==
  ASSUME BaseInv, ReadInv, NEW w \in Worker, NEW level \in Level, Keep(w, level),
         (conf.oneProcess /\ level = "high") => usage = "high",
         \A v \in Worker : run'[v].news => (run[v].news /\ run'[v].gotTraffic = run[v].gotTraffic)
  PROVE  ReadInv'
<1>1. /\ conf' = conf /\ usage' = usage
      /\ conf.oneProcess => \A v \in Worker : cache'[v] = level
  BY KeepFacts DEF BaseInv, world
<1> QED
  BY <1>1 DEF ReadInv

LEMMA NextRead == BaseInv /\ ReadInv /\ [Next]_vars => ReadInv'
<1> SUFFICES ASSUME BaseInv, ReadInv, [Next]_vars PROVE ReadInv'
  OBVIOUS
<1>1. /\ TypeOK /\ \A w \in Worker : Unasked(run[w]) /\ run[w] \in Run
      /\ \A w \in Worker : run[w].pc \notin {"poll", "report"} => ~run[w].news
  BY DEF BaseInv, TypeOK, Unasked
<1>2. ASSUME NEW w \in Worker, NEW force \in BOOLEAN, Begin(w, force) PROVE ReadInv'
  BY <1>1, <1>2, BeginEffect, ReadQuiet DEF Begin, world
<1>3. ASSUME NEW w \in Worker, NEW act \in Act, BeginControl(w, act) PROVE ReadInv'
  BY <1>1, <1>3, BeginControlEffect, ReadQuiet DEF BeginControl, world
<1>4. ASSUME NEW w \in Worker, BeginReport(w) PROVE ReadInv'
  BY <1>1, <1>4, BeginReportEffect, ReadQuiet DEF BeginReport, world
<1>5. ASSUME NEW w \in Worker, NEW act \in Act, Schedule(w, act) PROVE ReadInv'
  <2>1. run[w].gotTraffic = "no" /\ run[w].gotStatus = "no" /\ ~run[w].news
    BY <1>1, <1>5 DEF Schedule, Act, Unasked, At
  <2>2. OneStep(w) /\ ~run'[w].news
    <3>1. PICK K \in Key \ {AlertKey} : OneStep(w) /\ ~run'[w].news
      BY <1>1, <1>5, <2>1, ScheduleEffect
    <3> QED
      BY <3>1
  <2> QED
    BY <1>5, <2>2, ReadQuiet DEF Schedule, Record, world
<1>6. ASSUME NEW w \in Worker, KeepAlive(w) PROVE ReadInv'
  <2>1. ~run[w].news
    BY <1>1, <1>6 DEF KeepAlive, At
  <2> QED
    BY <1>1, <1>6, <2>1, KeepAliveEffect, ReadQuiet DEF KeepAlive, Record, world
<1>7. ASSUME NEW w \in Worker, Fuse(w) PROVE ReadInv'
  <2>1. ~run[w].news
    BY <1>1, <1>7 DEF Fuse, At
  <2> QED
    BY <1>1, <1>7, <2>1, FuseEffect, ReadQuiet DEF Fuse, Record, world
<1>8. ASSUME NEW w \in Worker, Call(w) PROVE ReadInv'
  <2>1. ~run[w].news
    BY <1>1, <1>8 DEF Call, At
  <2> QED
    BY <1>1, <1>8, <2>1, CallEffect, ReadQuiet DEF Call
<1>9. ASSUME NEW w \in Worker, Acknowledge(w) PROVE ReadInv'
  <2>1. run[w].gotTraffic = "no" /\ run[w].gotStatus = "no" /\ ~run[w].news
    BY <1>1, <1>9 DEF Acknowledge, Unasked, At
  <2> QED
    BY <1>1, <1>9, <2>1, AcknowledgeEffect, ReadQuiet DEF Acknowledge, world
<1>10. ASSUME NEW w \in Worker, TakeBack(w) PROVE ReadInv'
  BY <1>1, <1>10, Finished, ReadQuiet DEF TakeBack, world
<1>11. ASSUME NEW w \in Worker, FetchTraffic(w) PROVE ReadInv'
  <2>1. ~run[w].news
    BY <1>1, <1>11 DEF FetchTraffic, Unasked, Level
  <2>2. OneStep(w) /\ (run'[w].news => run'[w].gotTraffic = usage)
    BY <1>1, <1>11, <2>1, FetchTrafficEffect
  <2> QED
    BY <1>11, <2>2, ReadQuiet DEF FetchTraffic, world
<1>12. ASSUME NEW w \in Worker, FetchStatus(w) PROVE ReadInv'
  <2>1. OneStep(w) /\ run'[w].news = run[w].news /\ run'[w].gotTraffic = run[w].gotTraffic
    BY <1>1, <1>12, FetchStatusEffect
  <2>2. (conf.oneProcess /\ run'[w].news /\ run'[w].gotTraffic = "high") => usage = "high"
    BY <2>1 DEF ReadInv
  <2> QED
    BY <1>12, <2>1, <2>2, ReadQuiet DEF FetchStatus, world
<1>13. ASSUME NEW w \in Worker, StoreAnswers(w) PROVE ReadInv'
  BY <1>1, <1>13, StoreAnswersEffect, ReadQuiet DEF StoreAnswers, world
<1>14. ASSUME NEW w \in Worker, Fall(w) PROVE ReadInv'
  <2>1. ~run[w].news
    BY <1>1, <1>14 DEF Fall, At
  <2> QED
    BY <1>1, <1>14, <2>1, FallEffect, ReadQuiet DEF Fall, world
<1>15. ASSUME NEW w \in Worker, Clear(w) PROVE ReadInv'
  <2>1. ~run[w].news
    BY <1>1, <1>15 DEF Clear, At
  <2> QED
    BY <1>1, <1>15, <2>1, ClearEffect, ReadQuiet DEF Clear, world
<1>16. ASSUME NEW w \in Worker, Alert(w) PROVE ReadInv'
  <2>1. ~run[w].news
    BY <1>1, <1>16 DEF Alert, At
  <2> QED
    BY <1>1, <1>16, <2>1, AlertEffect, ReadQuiet DEF Alert, world
<1>17. ASSUME NEW w \in Worker, Notify(w) PROVE ReadInv'
  BY <1>1, <1>17, Finished, ReadQuiet DEF Notify, world
<1>18. ASSUME NEW w \in Worker, EnterReport(w) PROVE ReadInv'
  <2>1. run[w].gotTraffic = "no" /\ ~run[w].news
    BY <1>1, <1>18 DEF EnterReport, Unasked, At
  <2> QED
    BY <1>1, <1>18, <2>1, EnterReportEffect, ReadQuiet DEF EnterReport, world
<1>19. ASSUME NEW w \in Worker, StoreReport(w) PROVE ReadInv'
  BY <1>1, <1>19, StoreReportEffect, ReadQuiet DEF StoreReport, world
<1>20. ASSUME NEW w \in Worker, Cut(w) PROVE ReadInv'
  BY <1>1, <1>20, Finished, ReadQuiet DEF Cut, world
<1>21. ASSUME NEW w \in Worker, KeepTraffic(w) PROVE ReadInv'
  <2>1. OneStep(w) /\ Keep(w, run[w].gotTraffic) /\ run[w].news /\ ~run'[w].news
    BY <1>1, <1>21, KeepTrafficEffect
  <2>2. /\ run[w].gotTraffic \in Level
        /\ (conf.oneProcess /\ run[w].gotTraffic = "high") => usage = "high"
    BY <1>1, <2>1 DEF Unasked, ReadInv
  <2>3. \A v \in Worker : run'[v].news => (run[v].news /\ run'[v].gotTraffic = run[v].gotTraffic)
    BY <2>1 DEF OneStep
  <2> QED
    BY <2>1, <2>2, <2>3, ReadKept
<1>22. ASSUME NEW w \in Worker, NEW level \in Level, PeerKeeps(w, level) PROVE ReadInv'
  <2>1. Keep(w, level) /\ run' = run /\ (level = "high" => usage = "high")
    BY <1>22 DEF PeerKeeps
  <2> QED
    BY <2>1, ReadKept
<1>23. CASE Consume
  BY <1>23 DEF Consume, book, ReadInv
<1>24. CASE NewMonth
  <2>1. \A v \in Worker : cache'[v] = "none" /\ ~run'[v].news
    BY <1>1, <1>24, NewMonthEffect DEF NewMonth, SameRun
  <2> QED
    BY <2>1 DEF ReadInv
<1>25. ASSUME UNCHANGED <<conf, run, cache, usage>> PROVE ReadInv'
  BY <1>25 DEF ReadInv
<1>26. (Settle \/ Outside \/ Tick \/ UNCHANGED vars) => UNCHANGED <<conf, run, cache, usage>>
  BY DEF Settle, Outside, Tick, vars, world
<1> QED
  BY <1>2, <1>3, <1>4, <1>5, <1>6, <1>7, <1>8, <1>9, <1>10, <1>11, <1>12, <1>13, <1>14, <1>15, <1>16,
     <1>17, <1>18, <1>19, <1>20, <1>21, <1>22, <1>23, <1>24, <1>25, <1>26 DEF Next

-----------------------------------------------------------------------------
(* The month's traffic.                                                    *)

LEMMA FuseStep ==
  ASSUME BaseInv, FuseInv, NEW w \in Worker, OneStep(w), conf' = conf, Locked(w) \/ Free(w),
         conf.oneProcess =>
           /\ fused' => Known' /\ used' = "high" /\ Warned(run'[w])
           /\ Alarmed(run'[w]) => used' = "high"
  PROVE  FuseInv'
<1>1. ASSUME conf.oneProcess, NEW v \in Worker \ {w} PROVE Warned(run'[v]) /\ ~Alarmed(run'[v])
  <2>1. run'[v].pc \in {"idle", "waits"}
    BY <1>1, Sole DEF OneStep
  <2> QED
    BY <2>1 DEF Warned, Alarmed
<1> QED
  BY <1>1 DEF FuseInv

\* A step that leaves the readings and the fuse alone.
LEMMA FuseQuiet ==
  ASSUME BaseInv, FuseInv, NEW w \in Worker, OneStep(w), Locked(w) \/ Free(w),
         conf' = conf, cache' = cache, used' = used, fused' = fused,
         conf.oneProcess =>
           /\ fused => Warned(run'[w])
           /\ Alarmed(run'[w]) => used = "high"
  PROVE  FuseInv'
<1>1. Known' <=> Known
  BY DEF Known
<1> QED
  BY <1>1, FuseStep DEF FuseInv

LEMMA FuseAside ==
  ASSUME FuseInv, NEW w \in Worker, Aside(w), cache' = cache, used' = used, fused' = fused
  PROVE  FuseInv'
<1>1. \A v \in Worker : (Warned(run[v]) => Warned(run'[v])) /\ (Alarmed(run'[v]) => Alarmed(run[v]))
  BY DEF Aside, OneStep, Warned, Alarmed
<1> QED
  BY <1>1 DEF FuseInv, Aside, Known

LEMMA InitFuse == Init => FuseInv
  BY DEF Init, FuseInv, Alarmed, Idle

\* While the fuse has blown, a low answer that is put in the cache is late.
LEMMA FuseKept ==
  ASSUME BaseInv, FuseInv, NEW w \in Worker, NEW level \in Level, Keep(w, level), conf.oneProcess, fused'
  PROVE  fused /\ Known'
<1>1. /\ \A v \in Worker : cache'[v] = level
      /\ fused /\ (level = "high" \/ cache[w] # "high")
  BY KeepFacts DEF BaseInv, TypeOK
<1>2. cache[w] = "high"
  BY <1>1 DEF FuseInv, Known
<1> QED
  BY <1>1, <1>2 DEF Known

LEMMA NextFuse == BaseInv /\ ReadInv /\ FuseInv /\ [Next]_vars => FuseInv'
<1> SUFFICES ASSUME BaseInv, ReadInv, FuseInv, [Next]_vars PROVE FuseInv'
  OBVIOUS
<1>1. /\ TypeOK /\ \A w \in Worker : Unasked(run[w]) /\ run[w] \in Run
      /\ \A w \in Worker : run[w].pc \notin {"poll", "report"} => ~run[w].news
  BY DEF BaseInv, TypeOK, Unasked
<1>2. ASSUME NEW w \in Worker, conf.oneProcess
      PROVE  /\ fused => Known /\ Warned(run[w]) /\ used = "high"
             /\ Alarmed(run[w]) => used = "high"
  BY <1>2 DEF FuseInv
<1>3. \A w \in Worker : run'[w].pc \in {"idle", "notify"} => Warned(run'[w]) /\ ~Alarmed(run'[w])
  BY DEF Warned, Alarmed
<1>4. ASSUME NEW w \in Worker, NEW force \in BOOLEAN, Begin(w, force) PROVE FuseInv'
  <2>1. /\ OneStep(w) /\ Free(w)
        /\ run'[w].pc \in {"start", "stop", "poll", "idle", "fall"}
        /\ run'[w].pc \in {"start", "stop", "poll"} =>
             run'[w].traffic = used /\ run'[w].gotTraffic = "no"
        /\ run'[w].pc = "fall" => used = "low"
    BY <1>1, <1>4, BeginEffect
  <2>2. conf' = conf /\ cache' = cache /\ used' = used /\ fused' = fused
    BY <1>4 DEF Begin, db, world, book, alarm
  <2>3. conf.oneProcess => (fused => Warned(run'[w])) /\ ~Alarmed(run'[w])
    BY <1>2, <2>1 DEF Warned, Alarmed
  <2> QED
    BY <2>1, <2>2, <2>3, FuseQuiet
<1>5. ASSUME NEW w \in Worker, NEW act \in Act, BeginControl(w, act) PROVE FuseInv'
  <2>1. OneStep(w) /\ Free(w) /\ run'[w].pc = "call" /\ run'[w].why = "manual"
    BY <1>1, <1>5, BeginControlEffect
  <2>2. conf' = conf /\ cache' = cache /\ used' = used /\ fused' = fused
    BY <1>5 DEF BeginControl, db, world, book, alarm
  <2>3. Warned(run'[w]) /\ ~Alarmed(run'[w])
    BY <2>1 DEF Warned, Alarmed
  <2> QED
    BY <2>1, <2>2, <2>3, FuseQuiet
<1>6. ASSUME NEW w \in Worker, NEW act \in Act, Schedule(w, act) PROVE FuseInv'
  <2>1. At(w, act) /\ act \in {"start", "stop"}
    BY <1>6 DEF Schedule, Act
  <2>2. run[w].gotTraffic = "no" /\ run[w].gotStatus = "no" /\ ~run[w].news
    BY <1>1, <2>1 DEF Unasked, At
  <2>3. /\ OneStep(w)
        /\ \/ run'[w].pc = "call" /\ run'[w].why = "schedule"
           \/ /\ run'[w].pc \in {"start", "stop", "poll", "idle", "fall"}
              /\ run'[w].pc \in {"start", "stop", "poll"} =>
                   run'[w].traffic = run[w].traffic /\ run'[w].gotTraffic = "no"
              /\ run'[w].pc = "fall" => run[w].traffic = "low"
    BY <1>1, <1>6, <2>2, ScheduleEffect
  <2>4. conf' = conf /\ cache' = cache /\ used' = used /\ fused' = fused
    BY <1>6 DEF Schedule, Record, world, book, alarm
  <2>5. conf.oneProcess => (fused => run[w].traffic = "high")
    BY <1>2, <2>1 DEF Warned, At
  <2>6. conf.oneProcess => (fused => Warned(run'[w])) /\ ~Alarmed(run'[w])
    BY <2>3, <2>5 DEF Warned, Alarmed
  <2> QED
    BY <2>1, <2>3, <2>4, <2>6, FuseQuiet DEF At, Locked
\* Keep-alive is only reached by a run that found the traffic low.
<1>7. ASSUME NEW w \in Worker, KeepAlive(w) PROVE FuseInv'
  <2>0. ~run[w].news
    BY <1>1, <1>7 DEF KeepAlive, At
  <2>1. /\ OneStep(w) /\ At(w, "keepalive")
        /\ run'[w].pc = "idle" \/ (run'[w].pc = "call" /\ run'[w].why = "keepalive")
    BY <1>1, <1>7, <2>0, KeepAliveEffect
  <2>2. conf' = conf /\ cache' = cache /\ used' = used /\ fused' = fused
    BY <1>7 DEF KeepAlive, Record, world, book, alarm
  <2>3. conf.oneProcess => ~fused
    BY <1>2, <2>1 DEF Warned, At
  <2>4. ~Alarmed(run'[w])
    BY <2>1 DEF Alarmed
  <2> QED
    BY <2>1, <2>2, <2>3, <2>4, FuseQuiet DEF At, Locked
<1>8. ASSUME NEW w \in Worker, Fuse(w) PROVE FuseInv'
  <2>0. ~run[w].news
    BY <1>1, <1>8 DEF Fuse, At
  <2>1. /\ OneStep(w) /\ At(w, "fuse")
        /\ run'[w].pc = "alert" \/ (run'[w].pc = "call" /\ run'[w].why = "threshold")
    BY <1>1, <1>8, <2>0, FuseEffect
  <2>2. conf' = conf /\ cache' = cache /\ used' = used /\ fused' = fused
    BY <1>8 DEF Fuse, Record, world, book, alarm
  <2>3. Warned(run'[w]) /\ Alarmed(run[w])
    BY <2>1 DEF Warned, Alarmed, At
  <2> QED
    BY <1>2, <2>1, <2>2, <2>3, FuseQuiet DEF At, Locked
<1>9. ASSUME NEW w \in Worker, Call(w) PROVE FuseInv'
  <2>1. /\ OneStep(w) /\ At(w, "call")
        /\ run'[w].pc \in {"acked", "refused"} /\ run'[w].why = run[w].why
    <3>1. run[w].pc = "call" /\ ~run[w].news
      BY <1>1, <1>9 DEF Call, At
    <3> QED
      BY <1>1, <1>9, <3>1, CallEffect
  <2>2. conf' = conf /\ cache' = cache /\ used' = used /\ fused' = fused
    BY <1>9 DEF Call, db, alarm
  <2>3. Warned(run'[w]) /\ (Alarmed(run'[w]) => Alarmed(run[w]))
    BY <2>1 DEF Warned, Alarmed, At
  <2> QED
    BY <1>2, <2>1, <2>2, <2>3, FuseQuiet DEF At, Locked
\* The fuse blows: the run has stored that the traffic is high.
<1>10. ASSUME NEW w \in Worker, Acknowledge(w) PROVE FuseInv'
  <2>1. /\ OneStep(w) /\ At(w, "acked")
        /\ run'[w].pc \in {"poll", "alert", "idle"}
        /\ run'[w].pc = "poll" => run'[w].gotTraffic = "no"
        /\ run'[w].pc = "alert" => run[w].why = "threshold"
    <3>1. run[w].gotTraffic = "no" /\ run[w].gotStatus = "no" /\ ~run[w].news
      BY <1>1, <1>10 DEF Acknowledge, Unasked, At
    <3> QED
      BY <1>1, <1>10, <3>1, AcknowledgeEffect
  <2>2. /\ conf' = conf /\ cache' = cache /\ used' = used
        /\ fused' = (fused \/ (run[w].why = "threshold" /\ cache[w] = "high"))
    BY <1>10 DEF Acknowledge, world
  <2>3. Warned(run'[w]) /\ (run[w].why = "threshold" => Alarmed(run[w]))
    BY <2>1 DEF Warned, Alarmed, At
  <2>4. Alarmed(run'[w]) => run[w].why = "threshold"
    BY <2>1 DEF Alarmed
  <2>5. conf.oneProcess => (cache[w] = "high" => Known) /\ (Known' <=> Known)
    BY <2>2 DEF ReadInv, Known
  <2>6. conf.oneProcess =>
          /\ fused' => Known' /\ used' = "high" /\ Warned(run'[w])
          /\ Alarmed(run'[w]) => used' = "high"
    BY <1>2, <2>2, <2>3, <2>4, <2>5
  <2> QED
    BY <2>1, <2>2, <2>6, FuseStep DEF At, Locked
<1>11. ASSUME NEW w \in Worker, TakeBack(w) PROVE FuseInv'
  <2>1. OneStep(w) /\ At(w, "refused") /\ run'[w].pc = "idle"
    BY <1>1, <1>11, Finished DEF TakeBack
  <2>2. conf' = conf /\ cache' = cache /\ used' = used /\ fused' = fused
    BY <1>11 DEF TakeBack, world, alarm
  <2> QED
    BY <1>3, <2>1, <2>2, FuseQuiet DEF At, Locked
\* Whether it comes from the cache or not, the traffic is as high as it was.
<1>12. ASSUME NEW w \in Worker, FetchTraffic(w) PROVE FuseInv'
  <2>0. ~run[w].news
    BY <1>1, <1>12 DEF FetchTraffic, Unasked, Level
  <2>1. /\ OneStep(w) /\ Locked(w) /\ run[w].pc \in {"poll", "report"} /\ run'[w].pc = run[w].pc
        /\ run'[w].gotTraffic \in {cache[w], usage, "failed"}
    BY <1>1, <1>12, <2>0, FetchTrafficEffect
  <2>2. conf' = conf /\ cache' = cache /\ used' = used /\ fused' = fused
    BY <1>12 DEF FetchTraffic, db, world, alarm
  <2>3. (conf.oneProcess /\ fused) => cache[w] = "high" /\ usage = "high"
    BY <1>2 DEF Known, ReadInv
  <2>4. conf.oneProcess => (fused => Warned(run'[w])) /\ ~Alarmed(run'[w])
    BY <2>1, <2>3 DEF Warned, Alarmed
  <2> QED
    BY <2>1, <2>2, <2>4, FuseQuiet
<1>13. ASSUME NEW w \in Worker, FetchStatus(w) PROVE FuseInv'
  <2>1. /\ OneStep(w) /\ At(w, "poll") /\ run'[w].pc = "poll"
        /\ run'[w].gotTraffic = run[w].gotTraffic
    BY <1>1, <1>13, FetchStatusEffect
  <2>2. conf' = conf /\ cache' = cache /\ used' = used /\ fused' = fused
    BY <1>13 DEF FetchStatus, db, world, alarm
  <2>3. conf.oneProcess => (fused => Warned(run'[w])) /\ ~Alarmed(run'[w])
    BY <1>2, <2>1 DEF Warned, Alarmed, At
  <2> QED
    BY <2>1, <2>2, <2>3, FuseQuiet DEF At, Locked
<1>14. ASSUME NEW w \in Worker, StoreAnswers(w) PROVE FuseInv'
  <2>1. /\ OneStep(w) /\ At(w, "poll") /\ run[w].gotTraffic # "no"
        /\ used' = IF run[w].gotTraffic # "failed" THEN run[w].gotTraffic ELSE used
        /\ run'[w].pc \in {"idle", "fall", "fuse", "alert"}
        /\ run'[w].pc = "fall" => run[w].gotTraffic = "low"
        /\ run'[w].pc \in {"fuse", "alert"} => run[w].gotTraffic = "high"
    BY <1>1, <1>14, StoreAnswersEffect
  <2>2. conf' = conf /\ fused' = fused /\ (Known' <=> Known)
    BY <1>14 DEF StoreAnswers, world, alarm, Known
  <2>3. (conf.oneProcess /\ fused) => run[w].gotTraffic # "low"
    BY <1>2, <2>1 DEF Warned, At
  <2>4. run[w].gotTraffic \in {"low", "high", "failed"}
    BY <1>1, <2>1 DEF Run, Level
  <2>5. (conf.oneProcess /\ fused') => Known' /\ used' = "high" /\ Warned(run'[w])
    BY <1>2, <2>1, <2>2, <2>3, <2>4 DEF Warned
  <2>6. Alarmed(run'[w]) => used' = "high"
    BY <2>1 DEF Alarmed
  <2> QED
    BY <2>1, <2>2, <2>5, <2>6, FuseStep DEF At, Locked
<1>15. ASSUME NEW w \in Worker, Fall(w) PROVE FuseInv'
  <2>0. ~run[w].news
    BY <1>1, <1>15 DEF Fall, At
  <2>1. OneStep(w) /\ At(w, "fall") /\ run'[w].pc = "clear"
    BY <1>1, <1>15, <2>0, FallEffect
  <2>2. conf' = conf /\ cache' = cache /\ used' = used /\ fused' = fused
    BY <1>15 DEF Fall, world, book, alarm
  <2>3. conf.oneProcess => ~fused /\ ~Alarmed(run'[w])
    BY <1>2, <2>1 DEF Warned, Alarmed, At
  <2> QED
    BY <2>1, <2>2, <2>3, FuseQuiet DEF At, Locked
<1>16. ASSUME NEW w \in Worker, Clear(w) PROVE FuseInv'
  <2>0. ~run[w].news
    BY <1>1, <1>16 DEF Clear, At
  <2>1. OneStep(w) /\ At(w, "clear") /\ run'[w].pc \in {"keepalive", "idle"}
    BY <1>1, <1>16, <2>0, ClearEffect
  <2>2. conf' = conf /\ cache' = cache /\ used' = used /\ fused' = fused
    BY <1>16 DEF Clear, world, alarm
  <2>3. conf.oneProcess => ~fused /\ ~Alarmed(run'[w])
    BY <1>2, <2>1 DEF Warned, Alarmed, At
  <2> QED
    BY <2>1, <2>2, <2>3, FuseQuiet DEF At, Locked
<1>17. ASSUME NEW w \in Worker, Alert(w) PROVE FuseInv'
  <2>0. ~run[w].news
    BY <1>1, <1>17 DEF Alert, At
  <2>1. OneStep(w) /\ At(w, "alert") /\ run'[w].pc \in {"idle", "notify"}
    BY <1>1, <1>17, <2>0, AlertEffect
  <2>2. conf' = conf /\ cache' = cache /\ used' = used /\ fused' = fused
    BY <1>17 DEF Alert, world, book, alarm
  <2> QED
    BY <1>3, <2>1, <2>2, FuseQuiet DEF At, Locked
<1>18. ASSUME NEW w \in Worker, Notify(w) PROVE FuseInv'
  <2>1. OneStep(w) /\ At(w, "notify") /\ run'[w].pc = "idle"
    BY <1>1, <1>18, Finished DEF Notify
  <2>2. conf' = conf /\ cache' = cache /\ used' = used /\ fused' = fused
    BY <1>18 DEF Notify, world, book, alarm
  <2> QED
    BY <1>3, <2>1, <2>2, FuseQuiet DEF At, Locked
<1>19. ASSUME NEW w \in Worker, Cut(w) PROVE FuseInv'
  <2>1. OneStep(w) /\ ~At(w, "idle") /\ run'[w].pc = "idle"
    BY <1>1, <1>19, Finished DEF Cut
  <2>2. conf' = conf /\ cache' = cache /\ used' = used /\ fused' = fused
    BY <1>19 DEF Cut, db, world, alarm
  <2>3. CASE Locked(w)
    BY <1>3, <2>1, <2>2, <2>3, FuseQuiet
  <2>4. CASE ~Locked(w)
    BY <2>1, <2>2, <2>4, FuseAside DEF Aside, Locked
  <2> QED
    BY <2>3, <2>4
<1>20. ASSUME NEW w \in Worker, BeginReport(w) PROVE FuseInv'
  <2>1. OneStep(w) /\ At(w, "idle") /\ run'[w].pc = "waits"
    BY <1>1, <1>20, BeginReportEffect
  <2>2. conf' = conf /\ cache' = cache /\ used' = used /\ fused' = fused
    BY <1>20 DEF BeginReport, db, world, book, alarm
  <2> QED
    BY <2>1, <2>2, FuseAside DEF Aside, At
<1>21. ASSUME NEW w \in Worker, EnterReport(w) PROVE FuseInv'
  <2>0. run[w].gotTraffic = "no" /\ ~run[w].news
    BY <1>1, <1>21 DEF EnterReport, Unasked, At
  <2>1. /\ OneStep(w) /\ Free(w) /\ run'[w].pc \in {"idle", "report"}
        /\ run'[w].pc = "report" => run'[w].gotTraffic = "no"
    BY <1>1, <1>21, <2>0, EnterReportEffect
  <2>2. conf' = conf /\ cache' = cache /\ used' = used /\ fused' = fused
    BY <1>21 DEF EnterReport, db, world, book, alarm
  <2>3. Warned(run'[w]) /\ ~Alarmed(run'[w])
    BY <2>1 DEF Warned, Alarmed
  <2> QED
    BY <2>1, <2>2, <2>3, FuseQuiet
<1>22. ASSUME NEW w \in Worker, StoreReport(w) PROVE FuseInv'
  <2>1. /\ OneStep(w) /\ At(w, "report") /\ run'[w].pc = "idle"
        /\ used' \in Level /\ (used' = used \/ used' = run[w].gotTraffic)
    BY <1>1, <1>22, StoreReportEffect
  <2>2. conf' = conf /\ fused' = fused /\ (Known' <=> Known)
    BY <1>22 DEF StoreReport, world, alarm, Known
  <2>3. (conf.oneProcess /\ fused) => run[w].gotTraffic # "low"
    BY <1>2, <2>1 DEF Warned, At
  <2>4. (conf.oneProcess /\ fused') => Known' /\ used' = "high"
    BY <1>2, <2>1, <2>2, <2>3 DEF Level
  <2> QED
    BY <1>3, <2>1, <2>2, <2>4, FuseStep DEF At, Locked
<1>23. ASSUME NEW w \in Worker, KeepTraffic(w) PROVE FuseInv'
  <2>1. /\ OneStep(w) /\ Keep(w, run[w].gotTraffic) /\ run[w].news
        /\ run'[w].pc = run[w].pc /\ run'[w].gotTraffic = run[w].gotTraffic
    BY <1>1, <1>23, KeepTrafficEffect
  <2>2. run[w].gotTraffic \in Level /\ run[w].pc \in {"poll", "report"}
    BY <1>1, <2>1 DEF Unasked
  <2>3. conf' = conf /\ used' = used
    BY <2>1 DEF Keep, db, world
  <2>4. ASSUME conf.oneProcess, fused' PROVE Known' /\ used' = "high" /\ Warned(run'[w])
    <3>1. fused /\ Known'
      BY <2>1, <2>2, <2>4, FuseKept
    <3> QED
      BY <1>2, <2>1, <2>2, <2>3, <2>4, <3>1 DEF Warned
  <2>5. ~Alarmed(run'[w])
    BY <2>1, <2>2 DEF Alarmed
  <2> QED
    BY <2>1, <2>2, <2>3, <2>4, <2>5, FuseStep DEF Locked
<1>24. ASSUME NEW w \in Worker, NEW level \in Level, PeerKeeps(w, level) PROVE FuseInv'
  <2>1. Keep(w, level) /\ run' = run
    BY <1>24 DEF PeerKeeps
  <2>2. conf' = conf /\ used' = used
    BY <2>1 DEF Keep, db, world
  <2>3. (conf.oneProcess /\ fused') => fused /\ Known'
    BY <2>1, FuseKept
  <2> QED
    BY <2>1, <2>2, <2>3 DEF FuseInv
<1>25. CASE NewMonth
  <2>1. \A v \in Worker : Alarmed(run'[v]) => Alarmed(run[v])
    BY <1>1, <1>25, NewMonthEffect DEF SameRun, Alarmed
  <2>2. conf' = conf /\ used' = used /\ ~fused'
    BY <1>25 DEF NewMonth, db
  <2> QED
    BY <2>1, <2>2 DEF FuseInv
<1>26. ASSUME UNCHANGED <<conf, run, used, cache, fused>> PROVE FuseInv'
  BY <1>26 DEF FuseInv, Known
<1>27. (Settle \/ Outside \/ Consume \/ Tick \/ UNCHANGED vars) => UNCHANGED <<conf, run, used, cache, fused>>
  BY DEF Settle, Outside, Consume, Tick, vars, db, world, book, alarm
<1> QED
  BY <1>4, <1>5, <1>6, <1>7, <1>8, <1>9, <1>10, <1>11, <1>12, <1>13, <1>14, <1>15, <1>16, <1>17,
     <1>18, <1>19, <1>20, <1>21, <1>22, <1>23, <1>24, <1>25, <1>26, <1>27 DEF Next

-----------------------------------------------------------------------------
(* The month's notification.                                               *)

\* The conjuncts of AlertInv for the one run r that has the mutex: n notifications,
\* of which there may be m, or one more.
Said(r, n) == n + IF r.pc = "notify" THEN 1 ELSE 0

Limits(r, n, m, keyed, used_, known) ==
  /\ n <= 1 + m
  /\ (~keyed \/ ~known \/ used_ = "low" \/ Relieved(r)) => n <= m
  /\ (~keyed /\ ~known /\ Announcing(r)) => n < m

LEMMA AlertNow ==
  ASSUME BaseInv, AlertInv, conf.oneProcess, NEW w \in Worker, Locked(w) \/ Free(w)
  PROVE  Limits(run[w], Said(run[w], notices), Allowed, AlertKey \in events, used, Known)
<1>1. \A v \in Worker \ {w} : run[v].pc \in {"idle", "waits"}
  BY Sole
<1>2. Announced = Said(run[w], notices)
  BY <1>1 DEF Announced, Said, At
<1> QED
  BY <1>2 DEF AlertInv, Limits

LEMMA AlertStep ==
  ASSUME BaseInv, NEW w \in Worker, OneStep(w), conf' = conf, Locked(w) \/ Free(w),
         conf.oneProcess =>
           Limits(run'[w], Said(run'[w], notices'), Allowed', AlertKey \in events', used', Known')
  PROVE  AlertInv'
<1> SUFFICES ASSUME conf.oneProcess
             PROVE  /\ Announced' <= 1 + Allowed'
                    /\ (AlertKey \notin events' \/ ~Known' \/ used' = "low" \/ \E v \in Worker : Relieved(run'[v])) =>
                         Announced' <= Allowed'
                    /\ (AlertKey \notin events' /\ ~Known' /\ \E v \in Worker : Announcing(run'[v])) =>
                         Announced' < Allowed'
  BY DEF AlertInv
<1>1. \A v \in Worker \ {w} : run'[v].pc \in {"idle", "waits"}
  BY Sole DEF OneStep
<1>2. Announced' = Said(run'[w], notices')
  BY <1>1 DEF Announced, Said, At
<1>3. \A v \in Worker \ {w} : ~Relieved(run'[v]) /\ ~Announcing(run'[v])
  BY <1>1 DEF Relieved, Announcing, Alarmed
<1>4. /\ (\E v \in Worker : Relieved(run'[v])) <=> Relieved(run'[w])
      /\ (\E v \in Worker : Announcing(run'[v])) <=> Announcing(run'[w])
  BY <1>3
<1> QED
  BY <1>2, <1>4 DEF Limits

\* A step that announces nothing, and leaves the key and the readings alone.
LEMMA AlertQuiet ==
  ASSUME BaseInv, AlertInv, NEW w \in Worker, OneStep(w), conf' = conf, Locked(w) \/ Free(w),
         notices' = notices, Allowed' = Allowed, used' = used, cache' = cache,
         AlertKey \in events' <=> AlertKey \in events,
         ~At(w, "notify"), run'[w].pc # "notify",
         conf.oneProcess =>
           /\ Relieved(run'[w]) => (Relieved(run[w]) \/ ~Known \/ used = "low")
           /\ Announcing(run'[w]) => (Announcing(run[w]) \/ Known)
  PROVE  AlertInv'
<1>1. Said(run'[w], notices') = Said(run[w], notices) /\ (Known' <=> Known)
  BY DEF Said, At, Known
<1> QED
  BY <1>1, AlertNow, AlertStep DEF Limits

\* A step that leaves every run where it is, as far as notifications go.
LEMMA AlertSame ==
  ASSUME AlertInv, conf' = conf, notices' = notices, Allowed' = Allowed, used' = used,
         Known' <=> Known, events' = events,
         \A v \in Worker :
           /\ At(v, "notify")' <=> At(v, "notify")
           /\ Relieved(run'[v]) => Relieved(run[v])
           /\ Announcing(run'[v]) => (Announcing(run[v]) \/ Known)
  PROVE  AlertInv'
<1>1. Announced' = Announced
  BY DEF Announced
<1> QED
  BY <1>1 DEF AlertInv

LEMMA AlertAside ==
  ASSUME AlertInv, NEW w \in Worker, Aside(w), notices' = notices, Allowed' = Allowed,
         used' = used, cache' = cache, events' = events
  PROVE  AlertInv'
<1>1. \A v \in Worker :
        /\ At(v, "notify")' <=> At(v, "notify")
        /\ Relieved(run'[v]) => Relieved(run[v])
        /\ Announcing(run'[v]) => Announcing(run[v])
  BY DEF Aside, OneStep, At, Relieved, Announcing, Alarmed
<1>2. conf' = conf /\ (Known' <=> Known)
  BY DEF Aside, Known
<1> QED
  BY <1>1, <1>2, AlertSame

\* An event that allows one more notification, and leaves the runs where they are.
LEMMA AlertMore ==
  ASSUME TypeOK, AlertInv, conf' = conf, notices' = notices, Allowed' = Allowed + 1, events' = events,
         \A v \in Worker : At(v, "notify")' <=> At(v, "notify")
  PROVE  AlertInv'
<1>1. Announced' = Announced /\ Announced \in Nat /\ Allowed \in Nat
  BY DEF Announced, Allowed, TypeOK
<1> QED
  BY <1>1 DEF AlertInv

\* An answer that is put in the cache allows one more, or agrees with it, or makes
\* the traffic known to be high.
LEMMA AlertKept ==
  ASSUME BaseInv, ReadInv, AlertInv, NEW w \in Worker, NEW level \in Level, Keep(w, level),
         \A v \in Worker :
           /\ At(v, "notify")' <=> At(v, "notify")
           /\ Relieved(run'[v]) => Relieved(run[v])
           /\ Announcing(run'[v]) => (Announcing(run[v]) \/ level = "high")
  PROVE  AlertInv'
<1>1. /\ TypeOK /\ conf' = conf /\ notices' = notices /\ used' = used /\ events' = events
      /\ months' = months /\ months \in Nat /\ overtakes \in Nat
  BY KeepFacts DEF BaseInv, TypeOK, db, world
<1>2. SUFFICES ASSUME conf.oneProcess PROVE AlertInv'
  BY <1>1 DEF AlertInv
<1>3. /\ \A v \in Worker : cache'[v] = level
      /\ \/ level = "low" /\ cache[w] = "high" /\ overtakes' = overtakes + 1
         \/ (level = "high" \/ cache[w] # "high") /\ overtakes' = overtakes
  BY <1>1, <1>2, KeepFacts
<1>4. CASE level = "low" /\ cache[w] = "high"
  <2>1. Allowed' = Allowed + 1
    BY <1>1, <1>3, <1>4 DEF Allowed
  <2> QED
    BY <1>1, <2>1, AlertMore
<1>5. CASE level = "low" /\ cache[w] # "high"
  <2>1. Allowed' = Allowed /\ ~Known /\ ~Known'
    BY <1>1, <1>3, <1>5 DEF Allowed, Known
  <2> QED
    BY <1>1, <1>5, <2>1, AlertSame
<1>6. CASE level = "high"
  <2>1. Allowed' = Allowed /\ Known'
    BY <1>1, <1>3, <1>6 DEF Allowed, Known
  <2>2. Announced' = Announced
    BY <1>1 DEF Announced
  <2> QED
    BY <1>1, <2>1, <2>2 DEF AlertInv
<1> QED
  BY <1>4, <1>5, <1>6 DEF Level

LEMMA InitAlert == Init => AlertInv
<1> SUFFICES ASSUME Init PROVE AlertInv
  OBVIOUS
<1>1. \A w \in Worker : run[w].pc = "idle"
  BY DEF Init, Idle
<1>2. notices = 0 /\ Allowed = 0
  BY DEF Init, Allowed
<1>3. Announced = 0
  BY <1>1, <1>2 DEF Announced, At
<1> QED
  BY <1>1, <1>2, <1>3 DEF AlertInv, Announcing, Alarmed

LEMMA NextAlert == BaseInv /\ ReadInv /\ FuseInv /\ AlertInv /\ [Next]_vars => AlertInv'
<1> SUFFICES ASSUME BaseInv, ReadInv, FuseInv, AlertInv, [Next]_vars PROVE AlertInv'
  OBVIOUS
<1>1. /\ TypeOK /\ \A w \in Worker : Unasked(run[w]) /\ run[w] \in Run
      /\ \A w \in Worker : run[w].pc \notin {"poll", "report"} => ~run[w].news
  BY DEF BaseInv, TypeOK, Unasked
<1>2. months \in Nat /\ notices \in Nat /\ Allowed \in Nat
  BY <1>1 DEF TypeOK, Allowed
<1>3. \A w \in Worker : run'[w].pc = "idle" => ~Relieved(run'[w]) /\ ~Announcing(run'[w])
  BY DEF Relieved, Announcing, Alarmed
<1>4. ASSUME NEW w \in Worker, NEW force \in BOOLEAN, Begin(w, force) PROVE AlertInv'
  <2>1. /\ OneStep(w) /\ Free(w) /\ At(w, "idle")
        /\ run'[w].pc \in {"start", "stop", "poll", "idle", "fall"}
        /\ run'[w].pc \in {"start", "stop", "poll"} =>
             run'[w].traffic = used /\ run'[w].gotTraffic = "no"
        /\ run'[w].pc = "fall" => used = "low"
    BY <1>1, <1>4, BeginEffect
  <2>2. /\ conf' = conf /\ notices' = notices /\ Allowed' = Allowed
        /\ used' = used /\ cache' = cache /\ events' = events
    BY <1>4 DEF Begin, db, world, book, alarm, Allowed
  <2>3. (Relieved(run'[w]) => used = "low") /\ ~Announcing(run'[w])
    BY <2>1 DEF Relieved, Announcing, Alarmed
  <2> QED
    BY <2>1, <2>2, <2>3, AlertQuiet DEF At, Locked
<1>5. ASSUME NEW w \in Worker, NEW act \in Act, BeginControl(w, act) PROVE AlertInv'
  <2>1. OneStep(w) /\ Free(w) /\ At(w, "idle") /\ run'[w].pc = "call" /\ run'[w].why = "manual"
    BY <1>1, <1>5, BeginControlEffect
  <2>2. /\ conf' = conf /\ notices' = notices /\ Allowed' = Allowed
        /\ used' = used /\ cache' = cache /\ events' = events
    BY <1>5 DEF BeginControl, db, world, book, alarm, Allowed
  <2>3. ~Relieved(run'[w]) /\ ~Announcing(run'[w])
    BY <2>1 DEF Relieved, Announcing, Alarmed
  <2> QED
    BY <2>1, <2>2, <2>3, AlertQuiet DEF At, Locked
<1>6. ASSUME NEW w \in Worker, NEW act \in Act, Schedule(w, act) PROVE AlertInv'
  <2>1. At(w, act) /\ act \in {"start", "stop"}
    BY <1>6 DEF Schedule, Act
  <2>2. run[w].gotTraffic = "no" /\ run[w].gotStatus = "no" /\ ~run[w].news
    BY <1>1, <2>1 DEF Unasked, At
  <2>3. PICK k \in Key \ {AlertKey} :
        /\ OneStep(w) /\ events' = events \cup {k}
        /\ \/ run'[w].pc = "call" /\ run'[w].why = "schedule"
           \/ /\ run'[w].pc \in {"start", "stop", "poll", "idle", "fall"}
              /\ run'[w].pc \in {"start", "stop", "poll"} =>
                   run'[w].traffic = run[w].traffic /\ run'[w].gotTraffic = "no"
              /\ run'[w].pc = "fall" => run[w].traffic = "low"
    BY <1>1, <1>6, <2>2, ScheduleEffect
  <2>4. /\ conf' = conf /\ notices' = notices /\ Allowed' = Allowed
        /\ used' = used /\ cache' = cache
    BY <1>6 DEF Schedule, Record, world, book, alarm, Allowed
  <2>5. (Relieved(run'[w]) => Relieved(run[w])) /\ ~Announcing(run'[w])
    BY <2>1, <2>3 DEF Relieved, Announcing, Alarmed, At
  <2>6. Locked(w) /\ ~At(w, "notify") /\ run'[w].pc # "notify"
    BY <2>1, <2>3 DEF At, Locked
  <2> QED
    BY <2>3, <2>4, <2>5, <2>6, AlertQuiet
<1>7. ASSUME NEW w \in Worker, KeepAlive(w) PROVE AlertInv'
  <2>0. ~run[w].news
    BY <1>1, <1>7 DEF KeepAlive, At
  <2>1. PICK k \in Key \ {AlertKey} :
        /\ OneStep(w) /\ At(w, "keepalive") /\ events' = events \cup {k}
        /\ run'[w].pc = "idle" \/ (run'[w].pc = "call" /\ run'[w].why = "keepalive")
    BY <1>1, <1>7, <2>0, KeepAliveEffect
  <2>2. /\ conf' = conf /\ notices' = notices /\ Allowed' = Allowed
        /\ used' = used /\ cache' = cache
    BY <1>7 DEF KeepAlive, Record, world, book, alarm, Allowed
  <2>3. ~Relieved(run'[w]) /\ ~Announcing(run'[w])
    BY <2>1 DEF Relieved, Announcing, Alarmed
  <2> QED
    BY <2>1, <2>2, <2>3, AlertQuiet DEF At, Locked
<1>8. ASSUME NEW w \in Worker, Fuse(w) PROVE AlertInv'
  <2>0. ~run[w].news
    BY <1>1, <1>8 DEF Fuse, At
  <2>1. /\ OneStep(w) /\ At(w, "fuse") /\ events' = events \cup {StopKey}
        /\ run'[w].pc = "alert" \/ (run'[w].pc = "call" /\ run'[w].why = "threshold")
    BY <1>1, <1>8, <2>0, FuseEffect
  <2>2. /\ conf' = conf /\ notices' = notices /\ Allowed' = Allowed
        /\ used' = used /\ cache' = cache
    BY <1>8 DEF Fuse, Record, world, book, alarm, Allowed
  <2>3. ~Relieved(run'[w]) /\ Announcing(run[w]) /\ AlertKey # StopKey
    BY <2>1 DEF Relieved, Announcing, Alarmed, At, AlertKey, StopKey
  <2> QED
    BY <2>1, <2>2, <2>3, AlertQuiet DEF At, Locked
<1>9. ASSUME NEW w \in Worker, Call(w) PROVE AlertInv'
  <2>1. /\ OneStep(w) /\ At(w, "call")
        /\ run'[w].pc \in {"acked", "refused"} /\ run'[w].why = run[w].why
    <3>1. run[w].pc = "call" /\ ~run[w].news
      BY <1>1, <1>9 DEF Call, At
    <3> QED
      BY <1>1, <1>9, <3>1, CallEffect
  <2>2. /\ conf' = conf /\ notices' = notices /\ Allowed' = Allowed
        /\ used' = used /\ cache' = cache /\ events' = events
    BY <1>9 DEF Call, db, alarm, Allowed
  <2>3. ~Relieved(run'[w]) /\ (Announcing(run'[w]) => Announcing(run[w]))
    BY <2>1 DEF Relieved, Announcing, Alarmed, At
  <2> QED
    BY <2>1, <2>2, <2>3, AlertQuiet DEF At, Locked
<1>10. ASSUME NEW w \in Worker, Acknowledge(w) PROVE AlertInv'
  <2>1. /\ OneStep(w) /\ At(w, "acked")
        /\ run'[w].pc \in {"poll", "alert", "idle"}
        /\ run'[w].pc = "poll" => run'[w].gotTraffic = "no"
        /\ run'[w].pc = "alert" => run[w].why = "threshold"
    <3>1. run[w].gotTraffic = "no" /\ run[w].gotStatus = "no" /\ ~run[w].news
      BY <1>1, <1>10 DEF Acknowledge, Unasked, At
    <3> QED
      BY <1>1, <1>10, <3>1, AcknowledgeEffect
  <2>2. /\ conf' = conf /\ notices' = notices /\ Allowed' = Allowed
        /\ used' = used /\ cache' = cache /\ events' = events
    BY <1>10 DEF Acknowledge, world, Allowed
  <2>3. ~Relieved(run'[w]) /\ (Announcing(run'[w]) => Announcing(run[w]))
    BY <2>1 DEF Relieved, Announcing, Alarmed, At
  <2> QED
    BY <2>1, <2>2, <2>3, AlertQuiet DEF At, Locked
<1>11. ASSUME NEW w \in Worker, TakeBack(w) PROVE AlertInv'
  <2>1. OneStep(w) /\ At(w, "refused") /\ run'[w].pc = "idle"
    BY <1>1, <1>11, Finished DEF TakeBack
  <2>2. /\ conf' = conf /\ notices' = notices /\ Allowed' = Allowed
        /\ used' = used /\ cache' = cache
    BY <1>11 DEF TakeBack, world, alarm, Allowed
  <2>3. AlertKey \in events' <=> AlertKey \in events
    BY <1>1, <1>11, KeyFacts DEF TakeBack
  <2> QED
    BY <1>3, <2>1, <2>2, <2>3, AlertQuiet DEF At, Locked
\* A low reading tells that the cache's last word is not that it is high.
<1>12. ASSUME NEW w \in Worker, FetchTraffic(w) PROVE AlertInv'
  <2>0. ~run[w].news
    BY <1>1, <1>12 DEF FetchTraffic, Unasked, Level
  <2>1. /\ OneStep(w) /\ Locked(w) /\ run[w].pc \in {"poll", "report"} /\ run'[w].pc = run[w].pc
        /\ \/ run'[w].gotTraffic = cache[w] /\ ~run'[w].news
           \/ run'[w].gotTraffic = usage /\ run'[w].news
           \/ run'[w].gotTraffic = "failed"
    BY <1>1, <1>12, <2>0, FetchTrafficEffect
  <2>2. /\ conf' = conf /\ notices' = notices /\ Allowed' = Allowed
        /\ used' = used /\ cache' = cache /\ events' = events
    BY <1>12 DEF FetchTraffic, db, world, alarm, Allowed
  <2>3. conf.oneProcess =>
          /\ Known <=> cache[w] = "high"
          /\ usage = "low" => cache[w] # "high"
    BY DEF Known, ReadInv
  <2>4. conf.oneProcess =>
          /\ Relieved(run'[w]) => ~Known
          /\ Announcing(run'[w]) => Known
    BY <2>1, <2>3 DEF Relieved, Announcing, Alarmed
  <2> QED
    BY <2>1, <2>2, <2>4, AlertQuiet DEF At
<1>13. ASSUME NEW w \in Worker, FetchStatus(w) PROVE AlertInv'
  <2>1. /\ OneStep(w) /\ At(w, "poll") /\ run'[w].pc = "poll"
        /\ run'[w].gotTraffic = run[w].gotTraffic /\ run'[w].news = run[w].news
    BY <1>1, <1>13, FetchStatusEffect
  <2>2. /\ conf' = conf /\ notices' = notices /\ Allowed' = Allowed
        /\ used' = used /\ cache' = cache /\ events' = events
    BY <1>13 DEF FetchStatus, db, world, alarm, Allowed
  <2>3. (Relieved(run'[w]) => Relieved(run[w])) /\ (Announcing(run'[w]) => Announcing(run[w]))
    BY <2>1 DEF Relieved, Announcing, Alarmed, At
  <2> QED
    BY <2>1, <2>2, <2>3, AlertQuiet DEF At, Locked
<1>14. ASSUME NEW w \in Worker, StoreAnswers(w) PROVE AlertInv'
  <2>1. /\ OneStep(w) /\ At(w, "poll") /\ ~run[w].news
        /\ used' = IF run[w].gotTraffic # "failed" THEN run[w].gotTraffic ELSE used
        /\ run'[w].pc \in {"idle", "fall", "fuse", "alert"}
        /\ run'[w].pc = "fall" => run[w].gotTraffic = "low"
        /\ run'[w].pc \in {"fuse", "alert"} => run[w].gotTraffic = "high"
    BY <1>1, <1>14, StoreAnswersEffect
  <2>2. /\ conf' = conf /\ notices' = notices /\ Allowed' = Allowed
        /\ (Known' <=> Known) /\ events' = events
    BY <1>14 DEF StoreAnswers, world, alarm, Allowed, Known
  <2>3. /\ Relieved(run'[w]) => Relieved(run[w])
        /\ Announcing(run'[w]) => Announcing(run[w])
        /\ used' = "low" => used = "low" \/ Relieved(run[w])
    BY <2>1 DEF Relieved, Announcing, Alarmed, At
  <2>4. Said(run'[w], notices') = Said(run[w], notices)
    BY <2>1, <2>2 DEF Said, At
  <2>5. Locked(w)
    BY <2>1 DEF At, Locked
  <2>6. conf.oneProcess =>
          Limits(run'[w], Said(run'[w], notices'), Allowed', AlertKey \in events', used', Known')
    BY <2>2, <2>3, <2>4, <2>5, AlertNow DEF Limits
  <2> QED
    BY <2>1, <2>2, <2>5, <2>6, AlertStep
\* The key falls with the traffic.
<1>15. ASSUME NEW w \in Worker, Fall(w) PROVE AlertInv'
  <2>0. ~run[w].news
    BY <1>1, <1>15 DEF Fall, At
  <2>1. OneStep(w) /\ At(w, "fall") /\ run'[w].pc = "clear"
    BY <1>1, <1>15, <2>0, FallEffect
  <2>2. conf' = conf /\ notices' = notices /\ Allowed' = Allowed
    BY <1>15 DEF Fall, world, book, alarm, Allowed
  <2>3. Relieved(run[w]) /\ ~Announcing(run'[w]) /\ Locked(w)
    BY <2>1 DEF Relieved, Announcing, Alarmed, At, Locked
  <2>4. Said(run'[w], notices') = Said(run[w], notices)
    BY <2>1, <2>2 DEF Said, At
  <2>5. conf.oneProcess =>
          Limits(run'[w], Said(run'[w], notices'), Allowed', AlertKey \in events', used', Known')
    BY <2>2, <2>3, <2>4, AlertNow DEF Limits
  <2> QED
    BY <2>1, <2>2, <2>3, <2>5, AlertStep
<1>16. ASSUME NEW w \in Worker, Clear(w) PROVE AlertInv'
  <2>0. ~run[w].news
    BY <1>1, <1>16 DEF Clear, At
  <2>1. OneStep(w) /\ At(w, "clear") /\ run'[w].pc \in {"keepalive", "idle"}
    BY <1>1, <1>16, <2>0, ClearEffect
  <2>2. /\ conf' = conf /\ notices' = notices /\ Allowed' = Allowed
        /\ used' = used /\ cache' = cache
    BY <1>16 DEF Clear, world, alarm, Allowed
  <2>3. AlertKey \in events' <=> AlertKey \in events
    BY <1>16 DEF Clear, AlertKey, StopKey
  <2>4. ~Relieved(run'[w]) /\ ~Announcing(run'[w])
    BY <2>1 DEF Relieved, Announcing, Alarmed
  <2> QED
    BY <2>1, <2>2, <2>3, <2>4, AlertQuiet DEF At, Locked
\* The run that records the key will announce, and the traffic is high, or was so
\* in an earlier month that nobody was told of.
<1>17. ASSUME NEW w \in Worker, Alert(w) PROVE AlertInv'
  <2>0. ~run[w].news
    BY <1>1, <1>17 DEF Alert, At
  <2>1. OneStep(w) /\ At(w, "alert") /\ run'[w].pc = IF AlertKey \notin events THEN "notify" ELSE "idle"
    BY <1>1, <1>17, <2>0, AlertEffect
  <2>2. /\ conf' = conf /\ notices' = notices /\ Allowed' = Allowed
        /\ used' = used /\ cache' = cache /\ events' = events \cup {AlertKey}
    BY <1>17 DEF Alert, world, book, alarm, Allowed
  <2>3. /\ Announcing(run[w]) /\ Alarmed(run[w]) /\ Locked(w) /\ ~Relieved(run'[w])
        /\ Known' <=> Known
    BY <2>1, <2>2 DEF Relieved, Announcing, Alarmed, At, Locked, Known
  <2>4. /\ Said(run[w], notices) = notices
        /\ Said(run'[w], notices') = IF AlertKey \notin events THEN notices + 1 ELSE notices
    BY <1>2, <2>1, <2>2 DEF Said, At
  <2>5. ASSUME conf.oneProcess
        PROVE  Limits(run'[w], Said(run'[w], notices'), Allowed', AlertKey \in events', used', Known')
    <3>1. used' # "low"
      BY <2>2, <2>3, <2>5 DEF FuseInv
    <3>2. Limits(run[w], notices, Allowed, AlertKey \in events, used, Known)
      BY <2>3, <2>4, <2>5, AlertNow
    <3> QED
      BY <1>2, <2>2, <2>3, <2>4, <3>1, <3>2 DEF Limits
  <2> QED
    BY <2>1, <2>2, <2>3, <2>5, AlertStep
<1>18. ASSUME NEW w \in Worker, Notify(w) PROVE AlertInv'
  <2>1. OneStep(w) /\ At(w, "notify") /\ run'[w].pc = "idle"
    BY <1>1, <1>18, Finished DEF Notify
  <2>2. /\ conf' = conf /\ notices' = notices + 1 /\ Allowed' = Allowed
        /\ used' = used /\ cache' = cache /\ events' = events
    BY <1>18 DEF Notify, world, book, alarm, Allowed
  <2>3. Said(run'[w], notices') = Said(run[w], notices) /\ Locked(w) /\ (Known' <=> Known)
    BY <1>2, <2>1, <2>2 DEF Said, At, Locked, Known
  <2>4. conf.oneProcess =>
          Limits(run'[w], Said(run'[w], notices'), Allowed', AlertKey \in events', used', Known')
    BY <1>3, <2>1, <2>2, <2>3, AlertNow DEF Limits
  <2> QED
    BY <2>1, <2>2, <2>3, <2>4, AlertStep
<1>19. ASSUME NEW w \in Worker, Cut(w) PROVE AlertInv'
  <2>1. OneStep(w) /\ ~At(w, "idle") /\ run'[w].pc = "idle"
    BY <1>1, <1>19, Finished DEF Cut
  <2>2. /\ conf' = conf /\ notices' = notices /\ Allowed' = Allowed
        /\ used' = used /\ cache' = cache /\ events' = events
    BY <1>19 DEF Cut, db, world, alarm, Allowed
  <2>3. CASE ~Locked(w)
    BY <2>1, <2>2, <2>3, AlertAside DEF Aside, Locked
  <2>4. CASE Locked(w)
    <3>1. /\ Said(run'[w], notices') = notices
          /\ Said(run[w], notices) \in {notices, notices + 1}
      BY <1>2, <2>1, <2>2 DEF Said
    <3>2. ASSUME conf.oneProcess
          PROVE  Limits(run'[w], Said(run'[w], notices'), Allowed', AlertKey \in events', used', Known')
      <4>1. Limits(run[w], Said(run[w], notices), Allowed, AlertKey \in events, used, Known)
        BY <2>4, <3>2, AlertNow
      <4>2. Known' <=> Known
        BY <2>2 DEF Known
      <4> QED
        BY <1>2, <1>3, <2>1, <2>2, <3>1, <4>1, <4>2 DEF Limits
    <3> QED
      BY <2>1, <2>2, <2>4, <3>2, AlertStep
  <2> QED
    BY <2>3, <2>4
<1>20. ASSUME NEW w \in Worker, BeginReport(w) PROVE AlertInv'
  <2>1. OneStep(w) /\ At(w, "idle") /\ run'[w].pc = "waits"
    BY <1>1, <1>20, BeginReportEffect
  <2>2. /\ conf' = conf /\ notices' = notices /\ Allowed' = Allowed
        /\ used' = used /\ cache' = cache /\ events' = events
    BY <1>20 DEF BeginReport, db, world, book, alarm, Allowed
  <2> QED
    BY <2>1, <2>2, AlertAside DEF Aside, At
<1>21. ASSUME NEW w \in Worker, EnterReport(w) PROVE AlertInv'
  <2>0. run[w].gotTraffic = "no" /\ ~run[w].news
    BY <1>1, <1>21 DEF EnterReport, Unasked, At
  <2>1. /\ OneStep(w) /\ At(w, "waits") /\ Free(w) /\ run'[w].pc \in {"idle", "report"}
        /\ run'[w].pc = "report" => run'[w].gotTraffic = "no"
    BY <1>1, <1>21, <2>0, EnterReportEffect
  <2>2. /\ conf' = conf /\ notices' = notices /\ Allowed' = Allowed
        /\ used' = used /\ cache' = cache /\ events' = events
    BY <1>21 DEF EnterReport, db, world, book, alarm, Allowed
  <2>3. ~Relieved(run'[w]) /\ ~Announcing(run'[w])
    BY <2>1 DEF Relieved, Announcing, Alarmed
  <2> QED
    BY <2>1, <2>2, <2>3, AlertQuiet DEF At
<1>22. ASSUME NEW w \in Worker, StoreReport(w) PROVE AlertInv'
  <2>1. /\ OneStep(w) /\ At(w, "report") /\ run'[w].pc = "idle"
        /\ used' = used \/ used' = run[w].gotTraffic
    BY <1>1, <1>22, StoreReportEffect
  <2>2. /\ conf' = conf /\ notices' = notices /\ Allowed' = Allowed
        /\ (Known' <=> Known) /\ events' = events
    BY <1>22 DEF StoreReport, world, alarm, Allowed, Known
  <2>3. /\ used' = "low" => used = "low" \/ Relieved(run[w])
        /\ Locked(w) /\ Said(run'[w], notices') = Said(run[w], notices)
    BY <2>1, <2>2 DEF Relieved, Said, At, Locked
  <2>4. conf.oneProcess =>
          Limits(run'[w], Said(run'[w], notices'), Allowed', AlertKey \in events', used', Known')
    BY <1>3, <2>1, <2>2, <2>3, AlertNow DEF Limits
  <2> QED
    BY <2>1, <2>2, <2>3, <2>4, AlertStep
<1>23. ASSUME NEW w \in Worker, KeepTraffic(w) PROVE AlertInv'
  <2>1. /\ OneStep(w) /\ Keep(w, run[w].gotTraffic) /\ run[w].news
        /\ run'[w].pc = run[w].pc /\ run'[w].gotTraffic = run[w].gotTraffic
    BY <1>1, <1>23, KeepTrafficEffect
  <2>2. run[w].gotTraffic \in Level /\ run[w].pc \in {"poll", "report"}
    BY <1>1, <2>1 DEF Unasked
  <2>3. /\ At(w, "notify")' <=> At(w, "notify")
        /\ Relieved(run'[w]) => Relieved(run[w])
        /\ Announcing(run'[w]) => run[w].gotTraffic = "high"
    BY <2>1, <2>2 DEF At, Relieved, Announcing, Alarmed
  <2>4. \A v \in Worker :
          /\ At(v, "notify")' <=> At(v, "notify")
          /\ Relieved(run'[v]) => Relieved(run[v])
          /\ Announcing(run'[v]) => (Announcing(run[v]) \/ run[w].gotTraffic = "high")
    BY <2>1, <2>3 DEF OneStep, At
  <2> QED
    BY <2>1, <2>2, <2>4, AlertKept
<1>24. ASSUME NEW w \in Worker, NEW level \in Level, PeerKeeps(w, level) PROVE AlertInv'
  <2>1. Keep(w, level) /\ run' = run
    BY <1>24 DEF PeerKeeps
  <2>2. \A v \in Worker : At(v, "notify")' <=> At(v, "notify")
    BY <2>1 DEF At
  <2> QED
    BY <2>1, <2>2, AlertKept
<1>25. CASE NewMonth
  <2>1. \A v \in Worker : At(v, "notify")' <=> At(v, "notify")
    BY <1>1, <1>25, NewMonthEffect DEF SameRun, At
  <2>2. /\ conf' = conf /\ events' = events /\ notices' = notices
        /\ Allowed' = Allowed + 1
    BY <1>1, <1>25 DEF NewMonth, db, Allowed, TypeOK
  <2> QED
    BY <1>1, <2>1, <2>2, AlertMore
<1>26. ASSUME UNCHANGED <<conf, run, used, cache, events, notices, months, overtakes>> PROVE AlertInv'
  BY <1>26 DEF AlertInv, Announced, Allowed, Known, At
<1>27. (Settle \/ Outside \/ Consume \/ Tick \/ UNCHANGED vars) =>
         UNCHANGED <<conf, run, used, cache, events, notices, months, overtakes>>
  BY DEF Settle, Outside, Consume, Tick, vars, db, world, book, alarm
<1> QED
  BY <1>4, <1>5, <1>6, <1>7, <1>8, <1>9, <1>10, <1>11, <1>12, <1>13, <1>14, <1>15, <1>16, <1>17,
     <1>18, <1>19, <1>20, <1>21, <1>22, <1>23, <1>24, <1>25, <1>26, <1>27 DEF Next

-----------------------------------------------------------------------------
(* The theorems.                                                           *)

LEMMA Invariance == Spec => []IInv
<1>1. Init => IInv
  BY InitBase, InitKey, InitOwed, InitRead, InitFuse, InitAlert DEF IInv
<1>2. IInv /\ [Next]_vars => IInv'
  BY NextBase, NextKey, NextOwed, NextRead, NextFuse, NextAlert DEF IInv
<1> QED
  BY <1>1, <1>2, PTL DEF Spec

\* The states of engine.go's runs, and of the rows and events they share, are those
\* that the model says.
THEOREM TypeCorrect == Spec => []TypeOK
<1>1. IInv => TypeOK
  BY DEF IInv, BaseInv
<1> QED
  BY <1>1, Invariance, PTL

\* However many processes, workers, crashes and deadlines there are, a scheduled
\* action and a keep-alive start is called for at most once by its event's key
\* (executeScheduledAction, executeControlAction), and a threshold stop at most once
\* between two low readings of one process (handleThreshold).
THEOREM NoRepeatedCalls == Spec => []OneCallPerKey
<1>1. IInv => OneCallPerKey
  <2> SUFFICES ASSUME IInv, NEW k \in Key, k # StopKey \/ conf.oneProcess PROVE standing[k] <= 1
    BY DEF OneCallPerKey
  <2>1. CASE k = AlertKey
    BY <2>1 DEF IInv, KeyInv
  <2>2. CASE k # AlertKey
    <3>1. KeyFits(k)
      BY <2>2 DEF IInv, KeyInv, Ruled
    <3>2. CASE Held(k)
      BY <3>1, <3>2 DEF KeyFits, Held
    <3> QED
      BY <3>1, <3>2 DEF KeyFits
  <2> QED
    BY <2>1, <2>2
<1> QED
  BY <1>1, Invariance, PTL

\* The table action_events tells which calls were made: a key that no run is using
\* stands for a call that was made and not taken back, or for a run that was cut
\* off between RecordActionEvent and its call, and for nothing else.
THEOREM EventsTellCalls == Spec => []KeysTellCalls
<1>1. IInv => KeysTellCalls
  <2> SUFFICES ASSUME IInv, NEW k \in Key \ {AlertKey}, ~Held(k), k # StopKey \/ conf.oneProcess
               PROVE  k \in events <=> (standing[k] = 1 \/ k \in lost)
    BY DEF KeysTellCalls
  <2> QED
    BY DEF IInv, KeyInv, Ruled, KeyFits
<1> QED
  BY <1>1, Invariance, PTL

\* In one process, accounts.instance_status shows the transition from the statement
\* after an accepted call until the cloud has ended it, whatever status was read
\* before the call: only refreshTrafficForReport can hide it, with the copy of the
\* row that it made before it waited for the account's mutex.
THEOREM StatusShowsTransition == Spec => []TransitionVisible
<1>1. IInv => TransitionVisible
  BY DEF IInv, OwedInv, TransitionVisible
<1> QED
  BY <1>1, Invariance, PTL

\* In one process, no run of the schedule, the threshold, keep-alive or the user is
\* about to call while the cloud carries out an earlier acknowledged call, unless a
\* report has hidden that call since it was acknowledged.
THEOREM NoCallCrossesAnother == Spec => []NoCrossing
<1>1. IInv => NoCrossing
  BY DEF IInv, OwedInv, NoCrossing, Aware, At
<1> QED
  BY <1>1, Invariance, PTL

\* In one process, keep-alive never starts an instance that the month's traffic
\* made the engine stop, however old the readings are that GetTraffic takes from the
\* pool's cache, unless an older low answer has replaced a high one there since.
THEOREM KeepAliveSparesFuse == Spec => []FuseHolds
<1>1. IInv => FuseHolds
  BY DEF IInv, FuseInv, FuseHolds, Warned, At
<1> QED
  BY <1>1, Invariance, PTL

\* In one process, at most one threshold notification a month is put in the outbox,
\* and one more for each time an older low answer replaced a high one in the cache.
THEOREM OneNotificationPerMonth == Spec => []OneAlertPerMonth
<1>1. IInv => OneAlertPerMonth
  <2> SUFFICES ASSUME IInv, conf.oneProcess PROVE notices <= 1 + months + overtakes
    BY DEF OneAlertPerMonth
  <2>1. notices \in Nat /\ months \in Nat /\ overtakes \in Nat
    BY DEF IInv, BaseInv, TypeOK
  <2>2. Announced <= 1 + Allowed /\ Announced \in {notices, notices + 1}
    BY <2>1 DEF IInv, AlertInv, Announced
  <2> QED
    BY <2>1, <2>2 DEF Allowed
<1> QED
  BY <1>1, Invariance, PTL

===============================================================================
