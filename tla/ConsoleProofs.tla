----------------------------- MODULE ConsoleProofs -----------------------------
(***************************************************************************)
(* Proofs about Console, for every set of accounts, every history of their *)
(* instances and every number of loads and of runs: the inductive          *)
(* invariant IInv, and the action properties that follow from it.          *)
(***************************************************************************)
EXTENDS Console, TLAPS

\* A page that is about to ask whether the system is set up may still load a dashboard.
MountInv == (phase = "loading" /\ reads[LoadRead].st = "none") => mount < MaxMounts

\* A dialog was opened for an instance that the action fits.
DialogInv ==
  dialog.open =>
    /\ dialog.kind = "start" => dialog.status = "Stopped"
    /\ dialog.kind = "stop" => dialog.status = "Running"

\* Sessions are numbered by the loads, so that one that is over never comes back.
SessionInv ==
  /\ cookie <= mount /\ \A s \in live : s <= mount
  /\ \A x \in Reader :
       /\ reads[x].session <= mount
       /\ reads[x].st = "refused" => reads[x].session \notin live

\* An answer has a version, whether it is the server's or the cache's.
BodyInv ==
  /\ \A x \in Reader : reads[x].st = "answered" => reads[x].body # 0
  /\ (cache.match \/ cache.young) => cache.body # 0

IInv == TypeOK /\ MountInv /\ DialogInv /\ SessionInv /\ BodyInv

-----------------------------------------------------------------------------
(* The constants, and the records that the actions are built from.         *)

ReadRecord ==
  [st : {"none", "sent", "answered", "failed"} \union Refusal,
   session : 0..MaxMounts, body : Version \union {0}]
RunRecord ==
  [st : {"idle", "posting", "waiting", "reading"}, kind : {"start", "stop", "refresh"}]
Look == [status : {"Running", "Stopped"}, keep : BOOLEAN]

LEMMA VersionFacts ==
  /\ 1 \in Version
  /\ \A v \in Version : v \in Nat \ {0} /\ Content[v] \in [Account -> Look]
<1>1. Content \in Seq([Account -> Look]) /\ Content # <<>>
  BY ConsoleAssumption DEF Look
<1>2. DOMAIN Content = 1..Len(Content) /\ Len(Content) \in Nat /\ Len(Content) # 0
  BY <1>1
<1> QED
  BY <1>1, <1>2 DEF Version

LEMMA ReaderFacts ==
  /\ LoadRead \in Reader /\ PollRead \in Reader /\ LoadRead # PollRead
  /\ LoadRead \notin Run /\ PollRead \notin Run
  /\ \A r \in Run : r \in Reader /\ r # LoadRead /\ r # PollRead
  /\ \A r \in Run : ~Stores(r)
  BY ConsoleAssumption DEF Reader, Stores

LEMMA InitialRecords == NoRead \in ReadRecord /\ NoRun \in RunRecord
  BY ConsoleAssumption DEF NoRead, NoRun, ReadRecord, RunRecord

\* What a request starts as.
LEMMA SentFacts ==
  ASSUME IInv, NEW x \in Reader
  PROVE  /\ Sent(x) \in ReadRecord
         /\ Sent(x).st \in {"sent", "answered"}
         /\ Sent(x).st = "answered" => Stores(x) /\ Sent(x).body # 0
         /\ Sent(x).session <= mount
<1> USE ConsoleAssumption DEF IInv, TypeOK
<1>1. CASE Stores(x) /\ cache.young
  <2>1. Sent(x) = [st |-> "answered", session |-> 0, body |-> cache.body]
    BY <1>1 DEF Sent, NoRead
  <2>2. cache.body \in Version /\ 0 \in 0..MaxMounts /\ mount \in Nat
    BY <1>1 DEF BodyInv
  <2> QED
    BY <1>1, <2>1, <2>2, VersionFacts DEF ReadRecord
<1>2. CASE ~(Stores(x) /\ cache.young)
  BY <1>2 DEF Sent, ReadRecord, NoRead, SessionInv
<1> QED
  BY <1>1, <1>2

\* An answer is a version, and belongs to no session any more.
LEMMA AnswerFacts ==
  ASSUME IInv, NEW x \in Reader, AnswerRead(x)
  PROVE  /\ reads' = [reads EXCEPT ![x] = reads'[x]]
         /\ reads'[x] \in ReadRecord
         /\ reads'[x].st \in {"answered"} \union Refusal
         /\ reads'[x].st = "answered" => reads'[x].body # 0
         /\ reads'[x].st = "refused" => reads'[x].session \notin live
         /\ reads'[x].session <= mount
         /\ ~Stores(x) => (reads'[x].st = "answered" => reads'[x].body = ver) /\ UNCHANGED cache
         /\ cache' \in [body : Version \union {0}, match : BOOLEAN, young : BOOLEAN]
         /\ (cache'.match \/ cache'.young) => cache'.body # 0
<1>1. /\ reads \in [Reader -> ReadRecord] /\ ver \in Version /\ mount \in Nat /\ reads[x].session <= mount
      /\ cache \in [body : Version \union {0}, match : BOOLEAN, young : BOOLEAN]
  BY ConsoleAssumption DEF IInv, TypeOK, SessionInv, ReadRecord
<1>2. ASSUME NEW refusal \in Refusal, Refuse(x, refusal), refusal = "refused" => reads[x].session \notin live
      PROVE  /\ reads' = [reads EXCEPT ![x] = reads'[x]]
             /\ reads'[x] \in ReadRecord /\ reads'[x].st = refusal /\ refusal # "answered"
             /\ reads'[x].session = reads[x].session /\ UNCHANGED cache
  <2> DEFINE answer == [reads[x] EXCEPT !.st = refusal]
  <2>1. reads' = [reads EXCEPT ![x] = answer] /\ UNCHANGED cache
    BY <1>2 DEF Refuse
  <2>2. /\ answer \in ReadRecord /\ answer.st = refusal
        /\ answer.session = reads[x].session
    BY <1>1 DEF ReadRecord
  <2>3. refusal # "answered"
    BY DEF Refusal
  <2> HIDE DEF answer
  <2>4. reads'[x] = answer
    BY <1>1, <2>1
  <2> QED
    BY <1>1, <2>1, <2>2, <2>3, <2>4
<1>6. CASE reads[x].session \notin live
  BY <1>1, <1>2, <1>6 DEF AnswerRead, Refusal, IInv, BodyInv
<1>7. CASE Refuse(x, "unchecked")
  BY <1>1, <1>2, <1>7 DEF Refusal, IInv, BodyInv
<1>3. ASSUME NEW v \in Version, Answer(x, v)
      PROVE  /\ reads' = [reads EXCEPT ![x] = reads'[x]]
             /\ reads'[x] \in ReadRecord /\ reads'[x].st = "answered"
             /\ reads'[x].body = v /\ v # 0
             /\ reads'[x].session <= mount
  <2> DEFINE answer == [NoRead EXCEPT !.st = "answered", !.body = v]
  <2>1. reads' = [reads EXCEPT ![x] = answer]
    BY <1>3 DEF Answer
  <2>2. v \in Version \union {0} /\ v # 0 /\ 0 \in 0..MaxMounts
    BY ConsoleAssumption, VersionFacts
  <2>3. answer.st = "answered" /\ answer.session = 0 /\ answer.body = v
    BY DEF NoRead
  <2>4. answer \in ReadRecord
    BY <2>2 DEF ReadRecord, NoRead
  <2> HIDE DEF answer
  <2> QED
    BY <1>1, <2>1, <2>2, <2>3, <2>4
<1>4. CASE reads[x].session \in live /\ ~Stores(x) /\ ~Refuse(x, "unchecked")
  BY <1>1, <1>3, <1>4 DEF AnswerRead, IInv, BodyInv
<1>5. CASE reads[x].session \in live /\ Stores(x) /\ ~Refuse(x, "unchecked")
  <2>1. AnswerStored(x)
    BY <1>5 DEF AnswerRead
  <2>2. CASE reads[x].body # 0
    <3>1. reads[x].body \in Version /\ Answer(x, reads[x].body) /\ UNCHANGED cache
      BY <1>1, <2>1, <2>2 DEF AnswerStored, ReadRecord
    <3> QED
      BY <1>1, <1>3, <1>5, <3>1 DEF IInv, BodyInv
  <2>3. CASE reads[x].body = 0 /\ cache.match
    <3>1. Answer(x, cache.body) /\ cache' = [cache EXCEPT !.young = TRUE]
      BY <2>1, <2>3 DEF AnswerStored
    <3>2. cache.body \in Version
      BY <1>1, <2>3 DEF IInv, BodyInv
    <3>3. cache' \in [body : Version \union {0}, match : BOOLEAN, young : BOOLEAN] /\ cache'.body # 0
      BY <1>1, <3>1, <3>2, VersionFacts
    <3> QED
      BY <1>3, <1>5, <3>1, <3>2, <3>3
  <2>4. CASE reads[x].body = 0 /\ ~cache.match
    <3>1. Answer(x, ver) /\ cache' = [body |-> ver, match |-> TRUE, young |-> TRUE]
      BY <2>1, <2>4 DEF AnswerStored
    <3> QED
      BY <1>1, <1>3, <1>5, <3>1, VersionFacts
  <2> QED
    BY <2>2, <2>3, <2>4
<1> QED
  BY <1>4, <1>5, <1>6, <1>7

LEMMA InitIInv == Init => IInv
  BY ConsoleAssumption, VersionFacts, ReaderFacts
  DEF Init, IInv, TypeOK, MountInv, DialogInv, SessionInv, BodyInv, NoRead, NoRun, NoDialog, NoEntry

-----------------------------------------------------------------------------
(* Every action preserves the invariant.                                   *)

\* One read changes, and sessions begin, under new numbers, or end.
LEMMA ReadChanges ==
  ASSUME IInv, NEW x \in Reader, NEW e \in ReadRecord,
         reads' = [reads EXCEPT ![x] = e],
         mount' \in Nat, mount <= mount', cookie' <= mount', e.session <= mount',
         \A s \in live' : s <= mount' /\ (s <= mount => s \in live),
         e.st = "answered" => e.body # 0,
         e.st = "refused" => e.session \notin live'
  PROVE  /\ reads' \in [Reader -> ReadRecord]
         /\ reads'[x] = e /\ \A y \in Reader \ {x} : reads'[y] = reads[y]
         /\ SessionInv'
         /\ \A y \in Reader : reads'[y].st = "answered" => reads'[y].body # 0
<1>1. /\ reads \in [Reader -> ReadRecord] /\ mount \in Nat
      /\ \A y \in Reader : reads[y].session \in Nat
  BY ConsoleAssumption DEF IInv, TypeOK, ReadRecord
<1>2. reads'[x] = e /\ \A y \in Reader \ {x} : reads'[y] = reads[y]
  BY <1>1
<1>3. SessionInv'
  BY <1>1, <1>2 DEF IInv, SessionInv
<1>4. \A y \in Reader : reads'[y].st = "answered" => reads'[y].body # 0
  BY <1>2 DEF IInv, BodyInv
<1> QED
  BY <1>1, <1>2, <1>3, <1>4

\* The same under the same sessions.
LEMMA ReadMoves ==
  ASSUME IInv, NEW x \in Reader, NEW e \in ReadRecord,
         reads' = [reads EXCEPT ![x] = e], UNCHANGED <<mount, cookie, live>>, e.session <= mount,
         e.st = "answered" => e.body # 0,
         e.st = "refused" => e.session \notin live
  PROVE  /\ reads' \in [Reader -> ReadRecord]
         /\ reads'[x] = e /\ \A y \in Reader \ {x} : reads'[y] = reads[y]
         /\ SessionInv'
         /\ \A y \in Reader : reads'[y].st = "answered" => reads'[y].body # 0
<1>1. mount' \in Nat /\ mount <= mount' /\ cookie' <= mount' /\ \A s \in live' : s <= mount' /\ s \in live
  BY ConsoleAssumption DEF IInv, TypeOK, SessionInv
<1> QED
  BY <1>1, ReadChanges

\* A load asks for the status under the session it is given.
LEMMA SentLoadFacts ==
  ASSUME IInv, NEW s \in 0..MaxMounts
  PROVE  SentLoad(s) \in ReadRecord /\ SentLoad(s).st = "sent" /\ SentLoad(s).session = s
  BY SentFacts, ReaderFacts DEF SentLoad, ReadRecord

LEMMA ScreenFacts ==
  ASSUME IInv, NEW s \in {"loading", "fatal", "setup", "login"}, Screen(s)
  PROVE  /\ phase' = s /\ shown' = 0 /\ mount' = mount /\ ~dialog'.open
         /\ dialog' \in [open : BOOLEAN, account : Account \union {All}, kind : {"start", "stop", "refresh"},
                          status : {"Running", "Stopped"}]
  BY DEF Screen, NoDialog

LEMMA StartIInv == IInv /\ Start => IInv'
<1> SUFFICES ASSUME IInv, Start  PROVE IInv'
  OBVIOUS
<1> USE ConsoleAssumption, ReaderFacts DEF IInv, TypeOK
<1>1. CASE initialized /\ mount' = mount + 1 /\ reads' = [reads EXCEPT ![LoadRead] = SentLoad(cookie)]
           /\ UNCHANGED <<phase, shown, dialog>>
  <2>1. mount' \in 0..MaxMounts /\ mount' > mount /\ phase = "loading"
    BY <1>1 DEF Start, MountInv
  <2>2. SentLoad(cookie) \in ReadRecord /\ SentLoad(cookie).st = "sent" /\ SentLoad(cookie).session = cookie
    BY SentLoadFacts
  <2>3. UNCHANGED <<runs, initialized, live, cookie, ver, cache>>
    BY DEF Start, server
  <2>4. /\ reads' \in [Reader -> ReadRecord]
        /\ reads'[LoadRead].st = "sent" /\ \A y \in Reader \ {LoadRead} : reads'[y] = reads[y]
        /\ SessionInv'
        /\ \A y \in Reader : reads'[y].st = "answered" => reads'[y].body # 0
    <3>1. mount' \in Nat /\ mount <= mount' /\ cookie' <= mount' /\ SentLoad(cookie).session <= mount'
      BY <2>1, <2>2, <2>3 DEF SessionInv
    <3>2. \A s \in live' : s <= mount' /\ (s <= mount => s \in live)
      BY <2>1, <2>3 DEF SessionInv
    <3> HIDE DEF IInv, TypeOK
    <3> QED
      BY <1>1, <2>2, <3>1, <3>2, ReadChanges
  <2>5. TypeOK'
    BY <1>1, <2>1, <2>3, <2>4 DEF ReadRecord
  <2> QED
    BY <1>1, <2>3, <2>4, <2>5 DEF MountInv, DialogInv, BodyInv
<1>2. CASE (Screen("setup") \/ Screen("fatal")) /\ UNCHANGED reads
  <2>1. UNCHANGED <<runs, initialized, live, cookie, ver, cache>>
    BY DEF Start, server
  <2> QED
    BY <1>2, <2>1, ScreenFacts DEF MountInv, DialogInv, SessionInv, BodyInv
<1> QED
  BY <1>1, <1>2 DEF Start

LEMMA LoadedIInv == IInv /\ Loaded => IInv'
<1> SUFFICES ASSUME IInv, Loaded  PROVE IInv'
  OBVIOUS
<1> USE ConsoleAssumption, ReaderFacts, InitialRecords DEF IInv
<1>1. UNCHANGED <<runs, initialized, live, cookie, ver, cache>> /\ mount' = mount
  BY DEF Loaded, server, page, Screen
<1>2. /\ reads' \in [Reader -> ReadRecord]
      /\ reads'[LoadRead] = NoRead /\ \A y \in Reader \ {LoadRead} : reads'[y] = reads[y]
      /\ SessionInv'
      /\ \A y \in Reader : reads'[y].st = "answered" => reads'[y].body # 0
  <2>1. NoRead.st = "none" /\ NoRead.session <= mount
    BY DEF NoRead, TypeOK
  <2>2. reads' = [reads EXCEPT ![LoadRead] = NoRead]
    BY DEF Loaded
  <2> HIDE DEF IInv
  <2> QED
    BY <1>1, <2>1, <2>2, ReadMoves
<1>3. BodyInv'
  BY <1>1, <1>2 DEF BodyInv
<1>4. /\ \A r \in Run : reads'[r] = reads[r]
      /\ reads[LoadRead].body \in Version \union {0}
  BY <1>2 DEF TypeOK
<1>5. CASE /\ reads[LoadRead].st = "answered"
           /\ phase' = "dashboard" /\ shown' = reads[LoadRead].body
           /\ UNCHANGED <<mount, dialog>>
  BY <1>1, <1>2, <1>3, <1>4, <1>5 DEF TypeOK, ReadRecord, MountInv, DialogInv, BodyInv
<1>6. CASE (Screen("login") \/ Screen("fatal"))
  BY <1>1, <1>2, <1>3, <1>4, <1>6, ScreenFacts DEF TypeOK, ReadRecord, MountInv, DialogInv
<1>7. CASE reads[LoadRead].st # "answered" /\ phase # "loading" /\ UNCHANGED page
  BY <1>1, <1>2, <1>3, <1>4, <1>7 DEF TypeOK, ReadRecord, MountInv, DialogInv, page
<1> QED
  BY <1>5, <1>6, <1>7 DEF Loaded

LEMMA EnterIInv ==
  ASSUME IInv, Enter, phase \in {"setup", "login"}, initialized' \in BOOLEAN
  PROVE  IInv'
<1>1. /\ mount' = mount + 1 /\ mount' \in 1..MaxMounts /\ mount \in Nat
      /\ cookie' = mount' /\ live' = live \union {mount'}
      /\ UNCHANGED <<phase, shown, dialog, runs, ver, cache>>
  BY ConsoleAssumption DEF Enter, IInv, TypeOK
<1>2. SentLoad(cookie') \in ReadRecord /\ SentLoad(cookie').st = "sent" /\ SentLoad(cookie').session = mount'
  BY <1>1, SentLoadFacts
<1>3. \A s \in live' : s <= mount' /\ (s <= mount => s \in live)
  BY <1>1 DEF IInv, TypeOK, SessionInv
<1>4. /\ reads' \in [Reader -> ReadRecord]
      /\ reads'[LoadRead].st = "sent" /\ \A y \in Reader \ {LoadRead} : reads'[y] = reads[y]
      /\ SessionInv'
      /\ \A y \in Reader : reads'[y].st = "answered" => reads'[y].body # 0
  <2>1. mount' \in Nat /\ mount <= mount' /\ cookie' <= mount' /\ SentLoad(cookie').session <= mount'
    BY <1>1, <1>2
  <2>2. reads' = [reads EXCEPT ![LoadRead] = SentLoad(cookie')]
    BY DEF Enter
  <2> QED
    BY <1>2, <1>3, <2>1, <2>2, ReaderFacts, ReadChanges
<1>5. TypeOK'
  BY <1>1, <1>4, ReaderFacts DEF IInv, TypeOK, ReadRecord
<1> QED
  BY <1>1, <1>4, <1>5 DEF IInv, MountInv, DialogInv, BodyInv

LEMMA LogoutIInv == IInv /\ Logout => IInv'
  BY ScreenFacts, ReaderFacts
  DEF Logout, Clicks, IInv, TypeOK, MountInv, DialogInv, SessionInv, BodyInv

LEMMA SessionEndsIInv == IInv /\ SessionEnds => IInv'
  BY DEF SessionEnds, page, IInv, TypeOK, MountInv, DialogInv, SessionInv, BodyInv

LEMMA ReloadIInv == IInv /\ Reload => IInv'
<1> SUFFICES ASSUME IInv, Reload  PROVE IInv'
  OBVIOUS
<1>1. /\ phase' = "loading" /\ shown' = 0 /\ mount' = mount /\ mount < MaxMounts /\ ~dialog'.open
      /\ dialog' \in [open : BOOLEAN, account : Account \union {All}, kind : {"start", "stop", "refresh"},
                       status : {"Running", "Stopped"}]
      /\ UNCHANGED <<initialized, live, cookie, ver, cache>>
  BY ScreenFacts DEF Reload, server
<1>2. /\ \A x \in Reader : reads'[x].st = "none" /\ reads'[x].session = 0
      /\ \A r \in Run : runs'[r].st = "idle"
      /\ reads' \in [Reader -> ReadRecord] /\ runs' \in [Run -> RunRecord]
  BY InitialRecords DEF Reload, NoRead, NoRun
<1>3. TypeOK'
  BY <1>1, <1>2, ReaderFacts DEF IInv, TypeOK, ReadRecord, RunRecord
<1>4. SessionInv'
  BY <1>1, <1>2, ConsoleAssumption DEF IInv, TypeOK, SessionInv
<1> QED
  BY <1>1, <1>2, <1>3, <1>4 DEF IInv, MountInv, DialogInv, BodyInv

-----------------------------------------------------------------------------
(* The status.                                                             *)

LEMMA CacheMoves ==
  ASSUME IInv, Age \/ MonitorRun \/ InstancesChange
  PROVE  IInv'
<1>1. CASE Age
  BY <1>1 DEF Age, Kept, NoEntry, page, server, IInv, TypeOK, MountInv, DialogInv, SessionInv, BodyInv
<1>2. CASE MonitorRun
  BY <1>2 DEF MonitorRun, Kept, NoEntry, page, server, IInv, TypeOK, MountInv, DialogInv, SessionInv, BodyInv
<1>3. CASE InstancesChange
  BY <1>3 DEF InstancesChange, page, IInv, TypeOK, MountInv, DialogInv, SessionInv, BodyInv
<1> QED
  BY <1>1, <1>2, <1>3

\* What a change of one read, that leaves the page alone, has to observe.
LEMMA ReadStepIInv ==
  ASSUME IInv, NEW x \in Reader, NEW e \in ReadRecord,
         reads' = [reads EXCEPT ![x] = e], UNCHANGED <<page, server>>, e.session <= mount,
         e.st = "answered" => e.body # 0,
         e.st = "refused" => e.session \notin live,
         x = LoadRead => e.st # "none",
         runs' \in [Run -> RunRecord],
         \A r \in Run \ {x} : runs'[r].st = "reading" <=> runs[r].st = "reading",
         x \in Run => (runs'[x].st = "reading" <=> e.st # "none"),
         cache' \in [body : Version \union {0}, match : BOOLEAN, young : BOOLEAN],
         (cache'.match \/ cache'.young) => cache'.body # 0
  PROVE  IInv'
<1>1. UNCHANGED <<phase, mount, shown, dialog, initialized, live, cookie, ver>>
  BY DEF page, server
<1>2. /\ reads' \in [Reader -> ReadRecord]
      /\ reads'[x] = e /\ \A y \in Reader \ {x} : reads'[y] = reads[y]
      /\ SessionInv'
      /\ \A y \in Reader : reads'[y].st = "answered" => reads'[y].body # 0
  BY <1>1, ReadMoves
<1>3. \A r \in Run : reads'[r].st # "none" <=> runs'[r].st = "reading"
  <2> SUFFICES ASSUME NEW r \in Run  PROVE reads'[r].st # "none" <=> runs'[r].st = "reading"
    OBVIOUS
  <2>1. r \in Reader /\ (reads[r].st # "none" <=> runs[r].st = "reading")
    BY ReaderFacts DEF IInv, TypeOK
  <2> QED
    BY <1>2, <2>1
<1>4. TypeOK'
  BY <1>1, <1>2, <1>3 DEF IInv, TypeOK, ReadRecord, RunRecord
<1> QED
  BY <1>1, <1>2, <1>4, ReaderFacts DEF IInv, MountInv, DialogInv, BodyInv

LEMMA PollIInv == IInv /\ Poll => IInv'
<1> SUFFICES ASSUME IInv, Poll  PROVE IInv'
  OBVIOUS
<1>1. Sent(PollRead) \in ReadRecord /\ Sent(PollRead).session <= mount
      /\ (Sent(PollRead).st = "answered" => Sent(PollRead).body # 0) /\ Sent(PollRead).st # "refused"
  BY SentFacts, ReaderFacts
<1>2. reads' = [reads EXCEPT ![PollRead] = Sent(PollRead)] /\ UNCHANGED <<page, server, runs, cache>>
  BY DEF Poll
<1>3. /\ runs' \in [Run -> RunRecord] /\ cache' \in [body : Version \union {0}, match : BOOLEAN, young : BOOLEAN]
      /\ (cache'.match \/ cache'.young) => cache'.body # 0
  BY <1>2 DEF IInv, TypeOK, RunRecord, BodyInv
<1> QED
  BY <1>1, <1>2, <1>3, ReaderFacts, ReadStepIInv

LEMMA AnswerReadIInv ==
  ASSUME IInv, NEW x \in Reader, AnswerRead(x)
  PROVE  IInv'
<1>1. UNCHANGED <<page, runs, server>> /\ reads[x].st = "sent"
  BY DEF AnswerRead
<1>2. runs' \in [Run -> RunRecord] /\ (x \in Run => runs'[x].st = "reading")
  BY <1>1 DEF IInv, TypeOK, RunRecord
<1> QED
  BY <1>1, <1>2, AnswerFacts, ReadStepIInv DEF Refusal

LEMMA ReadFailsIInv ==
  ASSUME IInv, NEW x \in Reader, ReadFails(x)
  PROVE  IInv'
<1> DEFINE failed == [NoRead EXCEPT !.st = "failed"]
<1>1. failed \in ReadRecord /\ failed.st = "failed" /\ failed.session = 0
  BY InitialRecords DEF NoRead, ReadRecord
<1>2. reads' = [reads EXCEPT ![x] = failed] /\ UNCHANGED <<page, runs, server, cache>> /\ reads[x].st = "sent"
  BY DEF ReadFails
<1>3. /\ runs' \in [Run -> RunRecord] /\ cache' \in [body : Version \union {0}, match : BOOLEAN, young : BOOLEAN]
      /\ (cache'.match \/ cache'.young) => cache'.body # 0
      /\ x \in Run => runs'[x].st = "reading"
      /\ 0 <= mount
  BY <1>2, ConsoleAssumption DEF IInv, TypeOK, RunRecord, BodyInv
<1> HIDE DEF failed
<1> QED
  BY <1>1, <1>2, <1>3, ReadStepIInv

\* The handling of an answer by refreshStatus, but for what it means to a run.
LEMMA HandledFacts ==
  ASSUME IInv, NEW x \in Reader \ {LoadRead}, Handled(x)
  PROVE  /\ reads' \in [Reader -> ReadRecord]
         /\ reads'[x] = NoRead /\ \A y \in Reader \ {x} : reads'[y] = reads[y]
         /\ SessionInv' /\ BodyInv' /\ MountInv' /\ DialogInv'
         /\ phase' \in {"loading", "fatal", "setup", "login", "dashboard"}
         /\ mount' \in 0..MaxMounts /\ shown' \in Version \union {0} /\ (shown' # 0 <=> phase' = "dashboard")
         /\ dialog' \in [open : BOOLEAN, account : Account \union {All}, kind : {"start", "stop", "refresh"},
                          status : {"Running", "Stopped"}]
         /\ dialog'.open => phase' = "dashboard" /\ dialog'.account \in Account
         /\ UNCHANGED <<initialized, live, cookie, ver, cache>>
<1>1. UNCHANGED <<initialized, live, cookie, ver, cache>> /\ mount' = mount /\ mount \in Nat
      /\ reads' = [reads EXCEPT ![x] = NoRead]
  BY ConsoleAssumption DEF Handled, server, page, Screen, IInv, TypeOK
<1>2. /\ reads' \in [Reader -> ReadRecord]
      /\ reads'[x] = NoRead /\ \A y \in Reader \ {x} : reads'[y] = reads[y]
      /\ SessionInv'
      /\ \A y \in Reader : reads'[y].st = "answered" => reads'[y].body # 0
  <2>1. NoRead.st = "none" /\ NoRead.session <= mount
    BY <1>1 DEF NoRead
  <2> QED
    BY <1>1, <2>1, InitialRecords, ReadMoves
<1>3. BodyInv'
  BY <1>1, <1>2 DEF IInv, BodyInv
<1>4. reads[x].body \in Version \union {0}
  BY DEF IInv, TypeOK
<1>5. CASE /\ reads[x].st = "answered"
           /\ shown' = IF phase = "dashboard" THEN reads[x].body ELSE shown
           /\ UNCHANGED <<phase, mount, dialog>>
  BY <1>1, <1>2, <1>3, <1>4, <1>5, ReaderFacts DEF IInv, TypeOK, MountInv, DialogInv, BodyInv
<1>6. CASE Screen("login")
  BY <1>1, <1>2, <1>3, <1>6, ScreenFacts, ReaderFacts DEF IInv, TypeOK, MountInv, DialogInv
<1>7. CASE UNCHANGED page
  BY <1>1, <1>2, <1>3, <1>7, ReaderFacts DEF IInv, TypeOK, MountInv, DialogInv, page
<1> QED
  BY <1>5, <1>6, <1>7 DEF Handled

LEMMA PollHandledIInv == IInv /\ PollHandled => IInv'
<1> SUFFICES ASSUME IInv, PollHandled  PROVE IInv'
  OBVIOUS
<1>1. Handled(PollRead) /\ runs' = runs
  BY DEF PollHandled
<1>2. \A r \in Run : reads'[r] = reads[r]
  BY <1>1, ReaderFacts, HandledFacts
<1> QED
  BY <1>1, <1>2, ReaderFacts, HandledFacts DEF IInv, TypeOK, ReadRecord

LEMMA RunHandledIInv ==
  ASSUME IInv, NEW r \in Run, RunHandled(r)
  PROVE  IInv'
<1>1. Handled(r) /\ runs' = [runs EXCEPT ![r] = NoRun]
  BY DEF RunHandled
<1>2. reads'[r].st = "none" /\ \A s \in Run \ {r} : reads'[s] = reads[s]
  BY <1>1, ReaderFacts, HandledFacts DEF NoRead
<1>3. runs' \in [Run -> RunRecord] /\ runs'[r].st = "idle" /\ \A s \in Run \ {r} : runs'[s] = runs[s]
  BY <1>1, InitialRecords DEF IInv, TypeOK, RunRecord, NoRun
<1>4. \A s \in Run : reads'[s].st # "none" <=> runs'[s].st = "reading"
  BY <1>2, <1>3 DEF IInv, TypeOK
<1> QED
  BY <1>1, <1>3, <1>4, ReaderFacts, HandledFacts DEF IInv, TypeOK, ReadRecord, RunRecord

-----------------------------------------------------------------------------
(* The actions.                                                            *)

\* A run that goes on, or ends, without a read.
LEMMA RunMoves ==
  ASSUME IInv, NEW r \in Run \union {<<t, mount>> : t \in Account \union {All}}, NEW e \in RunRecord,
         r \in Run => runs[r].st # "reading" /\ e.st # "reading",
         runs' = [runs EXCEPT ![r] = e], UNCHANGED <<phase, mount, shown, reads, server, cache>>,
         dialog' \in {dialog, NoDialog}
  PROVE  IInv'
<1>1. UNCHANGED <<initialized, live, cookie, ver>>
  BY DEF server
<1>2. runs' \in [Run -> RunRecord] /\ \A s \in Run : runs'[s].st = "reading" <=> runs[s].st = "reading"
  BY DEF IInv, TypeOK, RunRecord
<1>3. /\ dialog' \in [open : BOOLEAN, account : Account \union {All}, kind : {"start", "stop", "refresh"},
                       status : {"Running", "Stopped"}]
      /\ dialog'.open => dialog' = dialog
  <2>1. /\ NoDialog \in [open : BOOLEAN, account : Account \union {All}, kind : {"start", "stop", "refresh"},
                         status : {"Running", "Stopped"}]
        /\ ~NoDialog.open
    BY DEF NoDialog
  <2> QED
    BY <2>1 DEF IInv, TypeOK
<1>4. TypeOK'
  BY <1>1, <1>2, <1>3 DEF IInv, TypeOK, RunRecord
<1> QED
  BY <1>1, <1>3, <1>4 DEF IInv, MountInv, DialogInv, SessionInv, BodyInv

LEMMA BeginIInv ==
  ASSUME IInv, NEW t \in Account \union {All}, NEW kind \in {"start", "stop", "refresh"},
         Begin(t, kind), ~Busy(t),
         UNCHANGED <<phase, mount, shown, reads, server, cache>>, dialog' \in {dialog, NoDialog}
  PROVE  IInv'
<1> DEFINE begun == [NoRun EXCEPT !.st = "posting", !.kind = kind]
<1>1. begun \in RunRecord /\ begun.st = "posting"
  BY DEF RunRecord, NoRun
<1>2. runs' = [runs EXCEPT ![<<t, mount>>] = begun] /\ runs[<<t, mount>>].st = "idle"
  BY DEF Begin, Busy
<1> HIDE DEF begun
<1> QED
  BY <1>1, <1>2, RunMoves

\* The card of an instance shows what the version in view says.
LEMMA ShowsType ==
  ASSUME IInv, NEW a \in Account, phase = "dashboard"
  PROVE  Shows(a) \in Look
  BY VersionFacts DEF IInv, TypeOK, Shows

LEMMA RequestActionIInv ==
  ASSUME IInv, NEW a \in Account, NEW kind \in {"start", "stop", "refresh"}, RequestAction(a, kind)
  PROVE  IInv'
<1>1. /\ Clicks /\ Offered(a, kind) /\ UNCHANGED <<phase, mount, shown, reads, server, cache>>
  BY DEF RequestAction
<1>2. CASE Begin(a, kind) /\ UNCHANGED dialog
  BY <1>1, <1>2, BeginIInv DEF Offered
<1>3. CASE /\ dialog' = [open |-> TRUE, account |-> a, kind |-> kind, status |-> Shows(a).status]
           /\ UNCHANGED runs
  <2>1. phase = "dashboard" /\ UNCHANGED <<initialized, live, cookie, ver>>
    BY <1>1 DEF Clicks, server
  <2>2. Shows(a).status \in {"Running", "Stopped"}
    BY <2>1, ShowsType DEF Look
  <2>3. TypeOK'
    BY <1>1, <1>3, <2>1, <2>2 DEF IInv, TypeOK
  <2>4. DialogInv'
    BY <1>1, <1>3 DEF Offered, DialogInv
  <2> QED
    BY <1>1, <1>3, <2>1, <2>3, <2>4 DEF IInv, MountInv, SessionInv, BodyInv
<1> QED
  BY <1>2, <1>3 DEF RequestAction

LEMMA CancelActionIInv == IInv /\ CancelAction => IInv'
  BY DEF CancelAction, server, NoDialog, IInv, TypeOK, MountInv, DialogInv, SessionInv, BodyInv

LEMMA ConfirmActionIInv == IInv /\ ConfirmAction => IInv'
<1> SUFFICES ASSUME IInv, ConfirmAction  PROVE IInv'
  OBVIOUS
<1>1. /\ dialog' = NoDialog /\ UNCHANGED <<phase, mount, shown, reads, server, cache>>
      /\ dialog.account \in Account /\ dialog.kind \in {"start", "stop", "refresh"}
  BY DEF ConfirmAction, IInv, TypeOK
<1>2. CASE Begin(dialog.account, dialog.kind) /\ ~Busy(dialog.account)
  BY <1>1, <1>2, BeginIInv
<1>3. CASE UNCHANGED runs
  <2>1. UNCHANGED <<initialized, live, cookie, ver>>
    BY <1>1 DEF server
  <2> QED
    BY <1>1, <1>3, <2>1 DEF NoDialog, IInv, TypeOK, MountInv, DialogInv, SessionInv, BodyInv
<1> QED
  BY <1>2, <1>3 DEF ConfirmAction

LEMMA RefreshAllIInv == IInv /\ RefreshAll => IInv'
  BY BeginIInv DEF RefreshAll, page

LEMMA ReadAfterIInv ==
  ASSUME IInv, NEW r \in Run, ReadAfter(r), runs[r].st # "reading", UNCHANGED <<page, server, cache>>
  PROVE  IInv'
<1> DEFINE begun == [NoRun EXCEPT !.st = "reading"]
<1>1. begun \in RunRecord /\ begun.st = "reading"
  BY DEF RunRecord, NoRun
<1>2. runs' = [runs EXCEPT ![r] = begun] /\ reads' = [reads EXCEPT ![r] = Sent(r)]
  BY DEF ReadAfter
<1> HIDE DEF begun
<1>3. /\ runs' \in [Run -> RunRecord] /\ runs'[r].st = "reading" /\ \A s \in Run \ {r} : runs'[s] = runs[s]
      /\ cache' \in [body : Version \union {0}, match : BOOLEAN, young : BOOLEAN]
      /\ (cache'.match \/ cache'.young) => cache'.body # 0
  BY <1>1, <1>2 DEF IInv, TypeOK, RunRecord, BodyInv
<1>4. Sent(r) \in ReadRecord /\ Sent(r).st = "sent" /\ Sent(r).session <= mount
  BY SentFacts, ReaderFacts
<1> QED
  BY <1>2, <1>3, <1>4, ReaderFacts, ReadStepIInv

LEMMA PostedIInv ==
  ASSUME IInv, NEW r \in Run, Posted(r)
  PROVE  IInv'
<1> DEFINE asked == [NoRun EXCEPT !.st = "waiting"]
<1>1. asked \in RunRecord /\ asked.st = "waiting" /\ NoRun \in RunRecord /\ NoRun.st = "idle"
  BY DEF RunRecord, NoRun
<1>2. runs[r].st = "posting" /\ UNCHANGED <<page, server, cache>>
      /\ UNCHANGED <<phase, mount, shown, dialog>>
  BY DEF Posted, page
<1>3. CASE runs' = [runs EXCEPT ![r] = asked] /\ UNCHANGED reads
  <2> HIDE DEF asked
  <2> QED
    BY <1>1, <1>2, <1>3, RunMoves
<1>4. CASE ReadAfter(r)
  BY <1>2, <1>4, ReadAfterIInv
<1>5. CASE runs' = [runs EXCEPT ![r] = NoRun] /\ UNCHANGED reads
  BY <1>1, <1>2, <1>5, RunMoves
<1> QED
  BY <1>3, <1>4, <1>5 DEF Posted

LEMMA JobCompletedIInv ==
  ASSUME IInv, NEW r \in Run, JobCompleted(r)
  PROVE  IInv'
  BY ReadAfterIInv DEF JobCompleted

LEMMA GiveUpIInv ==
  ASSUME IInv, NEW r \in Run, GiveUp(r)
  PROVE  IInv'
<1>1. NoRun \in RunRecord /\ NoRun.st = "idle"
  BY DEF RunRecord, NoRun
<1>2. runs[r].st = "waiting" /\ UNCHANGED <<page, server, cache>>
      /\ UNCHANGED <<phase, mount, shown, dialog>>
  BY DEF GiveUp, page
<1>3. CASE ReadAfter(r)
  BY <1>2, <1>3, ReadAfterIInv
<1>4. CASE runs' = [runs EXCEPT ![r] = NoRun] /\ UNCHANGED reads
  BY <1>1, <1>2, <1>4, RunMoves
<1> QED
  BY <1>3, <1>4 DEF GiveUp

-----------------------------------------------------------------------------
(* The theorems.                                                           *)

LEMMA NextIInv == IInv /\ [Next]_vars => IInv'
<1> SUFFICES ASSUME IInv, [Next]_vars  PROVE IInv'
  OBVIOUS
<1>1. CASE Start \/ Loaded \/ Logout \/ SessionEnds \/ Reload
  BY <1>1, StartIInv, LoadedIInv, LogoutIInv, SessionEndsIInv, ReloadIInv
<1>2. CASE SetUp \/ Login
  BY <1>2, EnterIInv DEF SetUp, Login, IInv, TypeOK
<1>3. CASE Poll \/ PollHandled \/ Age \/ MonitorRun \/ InstancesChange
  BY <1>3, PollIInv, PollHandledIInv, CacheMoves
<1>4. CASE \E x \in Reader : AnswerRead(x) \/ ReadFails(x)
  BY <1>4, AnswerReadIInv, ReadFailsIInv
<1>5. CASE \E a \in Account, kind \in {"start", "stop", "refresh"} : RequestAction(a, kind)
  BY <1>5, RequestActionIInv
<1>6. CASE CancelAction \/ ConfirmAction \/ RefreshAll
  BY <1>6, CancelActionIInv, ConfirmActionIInv, RefreshAllIInv
<1>7. CASE \E r \in Run : Posted(r) \/ JobCompleted(r) \/ GiveUp(r) \/ RunHandled(r)
  BY <1>7, PostedIInv, JobCompletedIInv, GiveUpIInv, RunHandledIInv
<1>8. CASE UNCHANGED vars
  BY <1>8 DEF vars, IInv, TypeOK, MountInv, DialogInv, SessionInv, BodyInv
<1> QED
  BY <1>1, <1>2, <1>3, <1>4, <1>5, <1>6, <1>7, <1>8 DEF Next

LEMMA Invariance == Spec => []IInv
  BY InitIInv, NextIInv, PTL DEF Spec

\* The variables of the page, the browser and the server keep their types.
THEOREM TypeCorrect == Spec => []TypeOK
  BY Invariance, PTL DEF IInv

\* Only an answer of the server makes the read of a run answered.
LEMMA StepRefreshes ==
  ASSUME IInv, [Next]_vars, NEW r \in Run, reads[r].st # "answered", reads'[r].st = "answered"
  PROVE  reads'[r].body = ver
<1> USE ReaderFacts
<1>0. reads \in [Reader -> ReadRecord] /\ r \in Reader
  BY DEF IInv, TypeOK, ReadRecord
<1>1. CASE \E x \in Reader : AnswerRead(x)
  BY <1>0, <1>1, AnswerFacts
<1>2. ASSUME NEW x \in Reader, NEW e, reads' = [reads EXCEPT ![x] = e],
             x = r => e.st # "answered"
      PROVE  FALSE
  BY <1>0, <1>2
<1>3. ASSUME NEW s \in Run, ReadAfter(s)
      PROVE  FALSE
  BY <1>2, <1>3, SentFacts DEF ReadAfter
<1>4. CASE UNCHANGED reads
  BY <1>4
<1>5. CASE Start \/ Loaded \/ SetUp \/ Login \/ Poll
  BY <1>2, <1>4, <1>5 DEF Start, Loaded, SetUp, Login, Enter, Poll
<1>6. CASE PollHandled \/ \E s \in Run : RunHandled(s)
  BY <1>2, <1>6 DEF PollHandled, RunHandled, Handled, NoRead
<1>7. CASE \E x \in Reader : ReadFails(x)
  BY <1>2, <1>7 DEF ReadFails, NoRead
<1>8. CASE \E s \in Run : Posted(s) \/ JobCompleted(s) \/ GiveUp(s)
  BY <1>3, <1>4, <1>8 DEF Posted, JobCompleted, GiveUp
<1>9. CASE Reload
  BY <1>9 DEF Reload, NoRead
<1>10. CASE Logout \/ SessionEnds \/ Age \/ MonitorRun \/ InstancesChange
            \/ CancelAction \/ ConfirmAction \/ RefreshAll
  BY <1>4, <1>10 DEF Logout, SessionEnds, Age, MonitorRun, InstancesChange, CancelAction, ConfirmAction, RefreshAll
<1>11. CASE \E a \in Account, kind \in {"start", "stop", "refresh"} : RequestAction(a, kind)
  BY <1>4, <1>11 DEF RequestAction
<1> QED
  BY <1>1, <1>4, <1>5, <1>6, <1>7, <1>8, <1>9, <1>10, <1>11 DEF Next, vars

(***************************************************************************)
(* Whatever the cache holds and whatever the page asks for meanwhile, the  *)
(* status a run ends with is the server's at the moment it answers         *)
(* (refreshStatus with no-store).                                          *)
(***************************************************************************)
THEOREM RefreshIsCurrent == Spec => RefreshShows
<1>1. IInv /\ [Next]_vars =>
        [\A r \in Run : (reads[r].st # "answered" /\ reads'[r].st = "answered") => reads'[r].body = ver]_vars
  BY StepRefreshes
<1> QED
  BY <1>1, Invariance, PTL DEF Spec, RefreshShows

\* Only Begin makes an idle run send its request.
LEMMA StepBegins ==
  ASSUME IInv, [Next]_vars, NEW a \in Account, NEW n \in 1..MaxMounts,
         runs[<<a, n>>].st = "idle", runs'[<<a, n>>].st = "posting"
  PROVE  /\ n = mount
         /\ \/ \E kind \in {"start", "stop", "refresh"} :
                  RequestAction(a, kind) /\ runs'[<<a, n>>].kind = kind
            \/ ConfirmAction /\ Unchanged /\ dialog.open /\ a = dialog.account
               /\ ~(dialog.kind = "stop" /\ Shows(a).keep) /\ runs'[<<a, n>>].kind = dialog.kind
<1>1. runs \in [Run -> RunRecord] /\ <<a, n>> \in Run
  BY DEF IInv, TypeOK, RunRecord, Run
<1>2. ASSUME NEW t, NEW kind, Begin(t, kind)
      PROVE  t = a /\ n = mount /\ runs'[<<a, n>>].kind = kind
  <2> DEFINE begun == [NoRun EXCEPT !.st = "posting", !.kind = kind]
  <2>1. runs' = [runs EXCEPT ![<<t, mount>>] = begun]
    BY <1>2 DEF Begin
  <2>2. begun.kind = kind
    BY DEF NoRun
  <2> HIDE DEF begun
  <2>3. <<t, mount>> = <<a, n>>
    BY <1>1, <2>1
  <2>4. t = a /\ n = mount
    BY <2>3
  <2> QED
    BY <1>1, <2>1, <2>2, <2>4
<1>3. ASSUME NEW r \in Run, NEW e, runs' = [runs EXCEPT ![r] = e], e.st # "posting"
      PROVE  FALSE
  BY <1>1, <1>3
<1>4. CASE UNCHANGED runs
  BY <1>4
<1>5. CASE \E b \in Account, kind \in {"start", "stop", "refresh"} : RequestAction(b, kind)
  BY <1>2, <1>4, <1>5 DEF RequestAction
<1>6. CASE ConfirmAction
  BY <1>2, <1>4, <1>6 DEF ConfirmAction
<1>7. CASE RefreshAll
  BY <1>2, <1>7, ConsoleAssumption DEF RefreshAll
<1>8. CASE \E r \in Run : Posted(r) \/ JobCompleted(r) \/ GiveUp(r) \/ RunHandled(r)
  BY <1>3, <1>4, <1>8 DEF Posted, JobCompleted, GiveUp, RunHandled, ReadAfter, NoRun
<1>9. CASE Reload
  BY <1>1, <1>9 DEF Reload, NoRun
<1>10. CASE Start \/ Loaded \/ SetUp \/ Login \/ Logout \/ SessionEnds
  BY <1>4, <1>10 DEF Start, Loaded, SetUp, Login, Enter, Logout, SessionEnds
<1>11. CASE Poll \/ PollHandled \/ Age \/ MonitorRun \/ InstancesChange \/ CancelAction
  BY <1>4, <1>11 DEF Poll, PollHandled, Age, MonitorRun, InstancesChange, CancelAction
<1>12. CASE \E x \in Reader : AnswerRead(x) \/ ReadFails(x)
  BY <1>4, <1>12 DEF AnswerRead, ReadFails
<1> QED
  BY <1>4, <1>5, <1>6, <1>7, <1>8, <1>9, <1>10, <1>11, <1>12 DEF Next, vars

(***************************************************************************)
(* No action is sent for an instance which it does not fit, as far as the  *)
(* dashboard shows, however long the confirmation was open and whatever    *)
(* came in meanwhile (confirmAction, runAction).                           *)
(***************************************************************************)
THEOREM ActionsFit == Spec => ActionFits
<1>1. ASSUME IInv, [Next]_vars, NEW a \in Account, NEW n \in 1..MaxMounts,
             runs[<<a, n>>].st = "idle", runs'[<<a, n>>].st = "posting"
      PROVE  /\ n = mount
             /\ runs'[<<a, n>>].kind = "start" => Shows(a).status = "Stopped"
             /\ runs'[<<a, n>>].kind = "stop" => Shows(a).status = "Running" /\ ~Shows(a).keep
  <2>1. CASE \E kind \in {"start", "stop", "refresh"} :
                RequestAction(a, kind) /\ runs'[<<a, n>>].kind = kind
    BY <1>1, <2>1, StepBegins DEF RequestAction, Offered
  <2>2. CASE /\ Unchanged /\ dialog.open /\ a = dialog.account
             /\ ~(dialog.kind = "stop" /\ Shows(a).keep) /\ runs'[<<a, n>>].kind = dialog.kind
    BY <1>1, <2>2, StepBegins DEF Unchanged, IInv, DialogInv
  <2> QED
    BY <1>1, <2>1, <2>2, StepBegins
<1>2. IInv /\ [Next]_vars =>
        [\A a \in Account, n \in 1..MaxMounts :
           LET run == runs'[<<a, n>>] IN
           (runs[<<a, n>>].st = "idle" /\ run.st = "posting") =>
              /\ n = mount
              /\ run.kind = "start" => Shows(a).status = "Stopped"
              /\ run.kind = "stop" => Shows(a).status = "Running" /\ ~Shows(a).keep]_vars
  BY <1>1
<1> QED
  BY <1>2, Invariance, PTL DEF Spec, ActionFits

(***************************************************************************)
(* A user is not thrown out of the dashboard but by a logout, the end of   *)
(* the session, a late answer to a request of an earlier one, or a 401     *)
(* that the server gave because it failed to look the session up           *)
(* (refreshStatus, loadDashboard, authenticate).                           *)
(***************************************************************************)
THEOREM LogoutsHaveCauses == Spec => NoSurpriseLogout
<1>1. ASSUME IInv, [Next]_vars, phase = "dashboard", phase' = "login"
      PROVE  \/ cookie \notin live'
             \/ reads' = reads
             \/ \E x \in Reader :
                  /\ reads' = [reads EXCEPT ![x] = NoRead]
                  /\ \/ reads[x].st = "refused" /\ reads[x].session # cookie
                     \/ reads[x].st = "unchecked"
  <2>1. ASSUME NEW x \in Reader, reads[x].st \in Refusal, live' = live
        PROVE  \/ cookie \notin live'
               \/ reads[x].st = "refused" /\ reads[x].session # cookie
               \/ reads[x].st = "unchecked"
    BY <1>1, <2>1 DEF IInv, SessionInv, Refusal
  <2>2. ASSUME NEW x \in Reader, Handled(x)
        PROVE  reads[x].st \in Refusal /\ live' = live /\ reads' = [reads EXCEPT ![x] = NoRead]
    BY <1>1, <2>2 DEF Handled, page, server
  <2>3. CASE PollHandled \/ \E r \in Run : RunHandled(r)
    BY <2>1, <2>2, <2>3, ReaderFacts DEF PollHandled, RunHandled
  <2>4. CASE Logout
    BY <2>4 DEF Logout
  <2>5. CASE Start \/ Loaded \/ SetUp \/ Login \/ Reload
    BY <1>1, <2>5 DEF Start, Loaded, SetUp, Login, Enter, Reload, Screen, page
  <2>6. CASE UNCHANGED phase
    BY <1>1, <2>6
  <2>7. CASE SessionEnds \/ Poll \/ Age \/ MonitorRun \/ InstancesChange \/ CancelAction \/ ConfirmAction \/ RefreshAll
    BY <2>6, <2>7
    DEF SessionEnds, Poll, Age, MonitorRun, InstancesChange, CancelAction, ConfirmAction, RefreshAll, page
  <2>8. CASE \E x \in Reader : AnswerRead(x) \/ ReadFails(x)
    BY <2>6, <2>8 DEF AnswerRead, ReadFails, page
  <2>9. CASE \E a \in Account, kind \in {"start", "stop", "refresh"} : RequestAction(a, kind)
    BY <2>6, <2>9 DEF RequestAction
  <2>10. CASE \E r \in Run : Posted(r) \/ JobCompleted(r) \/ GiveUp(r)
    BY <2>6, <2>10 DEF Posted, JobCompleted, GiveUp, page
  <2> QED
    BY <1>1, <2>3, <2>4, <2>5, <2>6, <2>7, <2>8, <2>9, <2>10 DEF Next, vars
<1>2. IInv /\ [Next]_vars =>
        [(phase = "dashboard" /\ phase' = "login") =>
           \/ cookie \notin live'
           \/ reads' = reads
           \/ \E x \in Reader :
                /\ reads' = [reads EXCEPT ![x] = NoRead]
                /\ \/ reads[x].st = "refused" /\ reads[x].session # cookie
                   \/ reads[x].st = "unchecked"]_vars
  BY <1>1
<1> QED
  BY <1>2, Invariance, PTL DEF Spec, NoSurpriseLogout
===============================================================================
