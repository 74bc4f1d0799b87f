-------------------------------- MODULE Console --------------------------------
(***************************************************************************)
(* The console's page (App.tsx, api.ts): which screen it shows, the status *)
(* of the instances on its dashboard, the actions it carries out for them, *)
(* and the browser's HTTP cache between it and GET /api/v1/status          *)
(* (httpapi/server.go).                                                    *)
(*                                                                         *)
(* The status has no sequence number: whatever answer comes last is shown. *)
(* A page that has left the dashboard, and entered it again with another   *)
(* session, still handles the answers to what it sent before.              *)
(*                                                                         *)
(* What the status says is a version, a natural number: the states the     *)
(* instances go through, in the order they do (Content).  A request that   *)
(* fails is one without a network or one the server answers with an error  *)
(* other than 401; a database error that keeps the server from looking up  *)
(* the session is answered 401, though.                                    *)
(***************************************************************************)
EXTENDS Integers, FiniteSets, Sequences

CONSTANTS
  Account,       \* the accounts
  All,           \* the task of refreshAll, which is for all of them
  LoadRead,      \* the read of the status by loadDashboard
  PollRead,      \* and by the poll
  Content,       \* Content[v][a]: the status and the keep-alive of a's instance in version v
  MaxRuns,       \* bounds the runs that are under way at once
  MaxMounts      \* bounds the loads of the dashboard, and with them its sessions

Version == DOMAIN Content

\* What the dashboard of the n-th load does for an account, or for all.
Run == (Account \union {All}) \X (1..MaxMounts)
Reader == {LoadRead, PollRead} \union Run

ASSUME ConsoleAssumption ==
  /\ All \notin Account
  /\ LoadRead # PollRead /\ LoadRead \notin Run /\ PollRead \notin Run
  /\ Content \in Seq([Account -> [status : {"Running", "Stopped"}, keep : BOOLEAN]])
  /\ Content # <<>>
  /\ MaxRuns \in Nat \ {0} /\ MaxMounts \in Nat \ {0}

VARIABLES
  phase,         \* the screen
  mount,         \* the number of loads so far; the last one's dashboard is the one in view
  shown,         \* the version that the dashboard shows; 0 on another screen
  dialog,        \* the confirmation of an action: open, the account, the action, what was shown
  reads,         \* the requests for the status: the load's, the poll's, and those of the runs
  runs,          \* what the dashboard of each load does for an account, or for all
  initialized,   \* whether the server is set up
  live,          \* its sessions that are alive
  cookie,        \* the session of the browser; session 0 is from before the page was opened
  ver,           \* the version that the server would answer
  cache          \* the cached status: its version, whether its ETag still matches, whether it is fresh

page == <<phase, mount, shown, dialog>>
server == <<initialized, live, cookie, ver>>
vars == <<phase, mount, shown, dialog, reads, runs, initialized, live, cookie, ver, cache>>

NoRead == [st |-> "none", session |-> 0, body |-> 0]
NoRun == [st |-> "idle", kind |-> "refresh"]
NoDialog == [open |-> FALSE, account |-> All, kind |-> "refresh", status |-> "Stopped"]
NoEntry == [body |-> 0, match |-> FALSE, young |-> FALSE]

Init ==
  /\ phase = "loading" /\ mount = 0 /\ shown = 0 /\ dialog = NoDialog
  /\ reads = [x \in Reader |-> NoRead] /\ runs = [r \in Run |-> NoRun]
  /\ initialized \in BOOLEAN /\ cookie = 0 /\ live = IF initialized THEN {0} ELSE {}
  /\ ver = 1 /\ cache = NoEntry

-----------------------------------------------------------------------------
(* Reading the status: fetch, the browser's cache, and GET /api/v1/status. *)

\* Faulty: the reads after a run are like any other.
StoresAlways(x) == x \in Reader

(***************************************************************************)
(* A fresh answer in the cache is used without a request.  The reads after *)
(* a run say no-store, which neither uses the cache nor fills it.          *)
(***************************************************************************)
Stores(x) == x \in {LoadRead, PollRead}

Sent(x) ==
  IF Stores(x) /\ cache.young
  THEN [NoRead EXCEPT !.st = "answered", !.body = cache.body]
  ELSE [st |-> "sent", session |-> cookie, body |-> 0]

\* The load asks for the configuration as well, which is never cached.
SentLoad(session) == [Sent(LoadRead) EXCEPT !.st = "sent", !.session = session]

\* An answer that is neither fresh nor the server's current one is never used again.
Kept(body, match, young) ==
  IF match \/ young THEN [body |-> body, match |-> match, young |-> young] ELSE NoEntry

Answer(x, body) == reads' = [reads EXCEPT ![x] = [NoRead EXCEPT !.st = "answered", !.body = body]]

(***************************************************************************)
(* A stale answer in the cache is offered by its ETag; the 304 that agrees *)
(* makes it fresh again.                                                   *)
(***************************************************************************)
AnswerStored(x) ==
  IF reads[x].body # 0 THEN Answer(x, reads[x].body) /\ UNCHANGED cache
  ELSE IF cache.match THEN Answer(x, cache.body) /\ cache' = [cache EXCEPT !.young = TRUE]
  ELSE Answer(x, ver) /\ cache' = [body |-> ver, match |-> TRUE, young |-> TRUE]

(***************************************************************************)
(* A 401.  The page cannot tell the two apart: the session is over, or the *)
(* server could not look it up (require, authenticate).                    *)
(***************************************************************************)
Refusal == {"refused", "unchecked"}

Refuse(x, refusal) == reads' = [reads EXCEPT ![x].st = refusal] /\ UNCHANGED cache

AnswerRead(x) ==
  /\ reads[x].st = "sent"
  /\ IF reads[x].session \notin live
     THEN Refuse(x, "refused")
     ELSE \/ IF Stores(x) THEN AnswerStored(x) ELSE Answer(x, ver) /\ UNCHANGED cache
          \/ Refuse(x, "unchecked")
  /\ UNCHANGED <<page, runs, server>>

ReadFails(x) ==
  /\ reads[x].st = "sent"
  /\ reads' = [reads EXCEPT ![x] = [NoRead EXCEPT !.st = "failed"]]
  /\ UNCHANGED <<page, runs, server, cache>>

\* max-age
Age ==
  /\ cache.young
  /\ cache' = Kept(cache.body, cache.match, FALSE)
  /\ UNCHANGED <<page, reads, runs, server>>

\* A job of the monitor, of this page or of anyone changes the instances.
InstancesChange ==
  /\ ver + 1 \in Version /\ ver' = ver + 1
  /\ UNCHANGED <<page, reads, runs, initialized, live, cookie, cache>>

\* Faulty: an ETag of the number of accounts alone.
MonitorRunSameTag == FALSE /\ UNCHANGED vars

\* The ETag is the time of the last run of the monitor and the number of accounts.
MonitorRun ==
  /\ cache.match
  /\ cache' = Kept(cache.body, FALSE, cache.young)
  /\ UNCHANGED <<page, reads, runs, server>>

-----------------------------------------------------------------------------
(* The screens.                                                            *)

\* The dialog covers the dashboard.
Clicks == phase = "dashboard" /\ ~dialog.open

Screen(screen) == phase' = screen /\ shown' = 0 /\ dialog' = NoDialog /\ UNCHANGED mount

\* The page starts: is the system set up?
Start ==
  /\ phase = "loading" /\ reads[LoadRead].st = "none"
  /\ \/ /\ initialized
        /\ mount' = mount + 1
        /\ reads' = [reads EXCEPT ![LoadRead] = SentLoad(cookie)]
        /\ UNCHANGED <<phase, shown, dialog>>
     \/ ~initialized /\ Screen("setup") /\ UNCHANGED reads
     \/ Screen("fatal") /\ UNCHANGED reads  \* no answer
  /\ UNCHANGED <<runs, server, cache>>

\* loadDashboard; a setup or a login whose load fails stays on its screen, with a message.
Loaded ==
  /\ reads[LoadRead].st \in {"answered", "failed"} \union Refusal
  /\ reads' = [reads EXCEPT ![LoadRead] = NoRead]
  /\ \/ /\ reads[LoadRead].st = "answered"
        /\ phase' = "dashboard" /\ shown' = reads[LoadRead].body
        /\ UNCHANGED <<mount, dialog>>
     \/ reads[LoadRead].st \in Refusal /\ phase = "loading" /\ Screen("login")
     \/ reads[LoadRead].st = "failed" /\ phase = "loading" /\ Screen("fatal")
     \/ reads[LoadRead].st # "answered" /\ phase # "loading" /\ UNCHANGED page
  /\ UNCHANGED <<runs, server, cache>>

\* A new session, whose dashboard is then loaded; a submission that fails changes nothing here.
Enter ==
  /\ reads[LoadRead].st = "none" /\ mount < MaxMounts
  /\ mount' = mount + 1
  /\ cookie' = mount' /\ live' = live \union {mount'}
  /\ reads' = [reads EXCEPT ![LoadRead] = SentLoad(cookie')]
  /\ UNCHANGED <<phase, shown, dialog, runs, ver, cache>>

\* The server is set up once.  After a setup whose load fails only a reload helps.
SetUp == phase = "setup" /\ ~initialized /\ initialized' = TRUE /\ Enter
Login == phase = "login" /\ Enter /\ UNCHANGED initialized

(***************************************************************************)
(* The request revokes the session, or fails; the login is shown in either *)
(* case.  Request and answer are one step.                                 *)
(***************************************************************************)
Logout ==
  /\ Clicks
  /\ live' \in {live, live \ {cookie}}
  /\ Screen("login")
  /\ UNCHANGED <<reads, runs, initialized, cookie, ver, cache>>

\* A session expires, or the password is changed elsewhere.
SessionEnds ==
  /\ \E s \in live : live' = live \ {s}
  /\ UNCHANGED <<page, reads, runs, initialized, cookie, ver, cache>>

\* A page that is stuck is loaded again.
Reload ==
  /\ mount < MaxMounts /\ phase \in {"fatal", "setup"}
  /\ Screen("loading")
  /\ reads' = [x \in Reader |-> NoRead] /\ runs' = [r \in Run |-> NoRun]
  /\ UNCHANGED <<server, cache>>

-----------------------------------------------------------------------------
(* refreshStatus: the poll of every 30 seconds and the reads after a run.  *)

Poll ==
  /\ phase = "dashboard" /\ reads[PollRead].st = "none"
  /\ reads' = [reads EXCEPT ![PollRead] = Sent(PollRead)]
  /\ UNCHANGED <<page, runs, server, cache>>

\* Faulty: any error shows the login.
HandledAnyError(x) ==
  /\ reads[x].st \in {"answered", "failed"} \union Refusal
  /\ reads' = [reads EXCEPT ![x] = NoRead]
  /\ IF reads[x].st = "answered"
     THEN /\ shown' = IF phase = "dashboard" THEN reads[x].body ELSE shown
          /\ UNCHANGED <<phase, mount, dialog>>
     ELSE Screen("login")
  /\ UNCHANGED <<server, cache>>

\* Faulty: a poll ignores every error.
HandledQuietly(x) ==
  /\ reads[x].st \in {"answered", "failed"} \union Refusal
  /\ reads' = [reads EXCEPT ![x] = NoRead]
  /\ IF reads[x].st = "answered"
     THEN /\ shown' = IF phase = "dashboard" THEN reads[x].body ELSE shown
          /\ UNCHANGED <<phase, mount, dialog>>
     ELSE IF reads[x].st \in Refusal /\ x # PollRead THEN Screen("login")
     ELSE UNCHANGED page
  /\ UNCHANGED <<server, cache>>

Handled(x) ==
  /\ reads[x].st \in {"answered", "failed"} \union Refusal
  /\ reads' = [reads EXCEPT ![x] = NoRead]
  /\ \/ /\ reads[x].st = "answered"
        /\ shown' = IF phase = "dashboard" THEN reads[x].body ELSE shown
        /\ UNCHANGED <<phase, mount, dialog>>
     \/ reads[x].st \in Refusal /\ Screen("login")
     \/ reads[x].st = "failed" /\ UNCHANGED page
  /\ UNCHANGED <<server, cache>>

PollHandled == Handled(PollRead) /\ UNCHANGED runs

\* Faulty: the buttons stay disabled.
RunHandledStaysBusy(r) == Handled(r) /\ UNCHANGED runs

RunHandled(r) == Handled(r) /\ runs' = [runs EXCEPT ![r] = NoRun]

-----------------------------------------------------------------------------
(* Actions.  Only the dashboard in view takes clicks, and it disables the  *)
(* buttons of what it is doing; one of an earlier load goes on unseen.     *)

Busy(t) == runs[<<t, mount>>].st # "idle"
Shows(a) == Content[shown][a]

Begin(t, kind) ==
  /\ Cardinality({r \in Run : runs[r].st # "idle"}) < MaxRuns
  /\ runs' = [runs EXCEPT ![<<t, mount>>] = [NoRun EXCEPT !.st = "posting", !.kind = kind]]

\* The buttons of an account's card.
Offered(a, kind) ==
  /\ ~Busy(All) /\ ~Busy(a)
  /\ kind = "start" => Shows(a).status = "Stopped"
  /\ kind = "stop" => Shows(a).status = "Running" /\ ~Shows(a).keep

\* A start or a stop is confirmed first, if the configuration says so.
RequestAction(a, kind) ==
  /\ Clicks /\ Offered(a, kind)
  /\ \/ Begin(a, kind) /\ UNCHANGED dialog
     \/ /\ kind # "refresh"
        /\ dialog' = [open |-> TRUE, account |-> a, kind |-> kind, status |-> Shows(a).status]
        /\ UNCHANGED runs
  /\ UNCHANGED <<phase, mount, shown, reads, server, cache>>

CancelAction ==
  /\ dialog.open
  /\ dialog' = NoDialog
  /\ UNCHANGED <<phase, mount, shown, reads, runs, server, cache>>

\* Faulty: no comparison.
UnchangedNotCompared == TRUE

\* What the card says now is what it said when the dialog was opened.
Unchanged == Shows(dialog.account).status = dialog.status

\* confirmAction and runAction; a status or a keep-alive that has changed in between stops them.
ConfirmAction ==
  /\ dialog.open
  /\ dialog' = NoDialog
  /\ LET a == dialog.account
     IN IF Unchanged /\ ~(dialog.kind = "stop" /\ Shows(a).keep) /\ ~Busy(a)
        THEN Begin(a, dialog.kind)
        ELSE UNCHANGED runs
  /\ UNCHANGED <<phase, mount, shown, reads, server, cache>>

RefreshAll ==
  /\ Clicks /\ ~Busy(All)
  /\ Begin(All, "refresh")
  /\ UNCHANGED <<page, reads, server, cache>>

\* The request is answered with a job, or with an error; refreshAll may find nothing to refresh.
ReadAfter(r) ==
  /\ reads' = [reads EXCEPT ![r] = Sent(r)]
  /\ runs' = [runs EXCEPT ![r] = [NoRun EXCEPT !.st = "reading"]]

Posted(r) ==
  /\ runs[r].st = "posting"
  /\ \/ cookie \in live /\ runs' = [runs EXCEPT ![r] = [NoRun EXCEPT !.st = "waiting"]] /\ UNCHANGED reads
     \/ cookie \in live /\ r[1] = All /\ ReadAfter(r)
     \/ runs' = [runs EXCEPT ![r] = NoRun] /\ UNCHANGED reads
  /\ UNCHANGED <<page, server, cache>>

(***************************************************************************)
(* waitForJob: a read of the job finds it completed, or it finds it        *)
(* failed, gets an error, or finds it unfinished when the 70 seconds are   *)
(* over.  The run of one account then gives up; refreshAll, which waits    *)
(* for its jobs to be settled, reads the status in any case.               *)
(***************************************************************************)
JobCompleted(r) ==
  /\ runs[r].st = "waiting" /\ cookie \in live
  /\ ReadAfter(r)
  /\ UNCHANGED <<page, server, cache>>

\* Faulty: waits for ever for a job that does not end.
GiveUpOnErrors(r) ==
  /\ runs[r].st = "waiting" /\ cookie \notin live
  /\ runs' = [runs EXCEPT ![r] = NoRun]
  /\ UNCHANGED <<page, reads, server, cache>>

GiveUp(r) ==
  /\ runs[r].st = "waiting"
  /\ IF r[1] = All THEN ReadAfter(r)
     ELSE runs' = [runs EXCEPT ![r] = NoRun] /\ UNCHANGED reads
  /\ UNCHANGED <<page, server, cache>>

RunStep(r) == Posted(r) \/ GiveUp(r) \/ AnswerRead(r) \/ ReadFails(r) \/ RunHandled(r)

-----------------------------------------------------------------------------
Next ==
  \/ Start \/ Loaded \/ SetUp \/ Login \/ Logout
  \/ SessionEnds \/ Reload
  \/ Poll \/ PollHandled \/ Age \/ MonitorRun \/ InstancesChange
  \/ \E x \in Reader : AnswerRead(x) \/ ReadFails(x)
  \/ \E a \in Account, kind \in {"start", "stop", "refresh"} : RequestAction(a, kind)
  \/ CancelAction \/ ConfirmAction \/ RefreshAll
  \/ \E r \in Run : Posted(r) \/ JobCompleted(r) \/ GiveUp(r) \/ RunHandled(r)

(***************************************************************************)
(* A request is answered or fails, and its answer is handled; the page's   *)
(* timers and the monitor's fire again and again; time passes; not every   *)
(* poll fails.  No user has to do anything, and no job has to end.         *)
(***************************************************************************)
Fairness ==
  /\ WF_vars(Start \/ AnswerRead(LoadRead) \/ ReadFails(LoadRead) \/ Loaded)
  /\ WF_vars(Poll \/ AnswerRead(PollRead) \/ ReadFails(PollRead) \/ PollHandled)
  /\ SF_vars(AnswerRead(PollRead))
  /\ WF_vars(Age) /\ WF_vars(MonitorRun)
  /\ \A t \in Account \union {All} :
       WF_vars(\E n \in 1..MaxMounts : RunStep(<<t, n>>))

Spec == Init /\ [][Next]_vars /\ Fairness

-----------------------------------------------------------------------------
(* What the page has to get right.                                         *)

TypeOK ==
  /\ phase \in {"loading", "fatal", "setup", "login", "dashboard"}
  /\ mount \in 0..MaxMounts /\ shown \in Version \union {0} /\ (shown # 0 <=> phase = "dashboard")
  /\ dialog \in [open : BOOLEAN, account : Account \union {All}, kind : {"start", "stop", "refresh"},
                 status : {"Running", "Stopped"}]
  /\ dialog.open => phase = "dashboard" /\ dialog.account \in Account
  /\ reads \in [Reader -> [st : {"none", "sent", "answered", "failed"} \union Refusal,
                           session : 0..MaxMounts, body : Version \union {0}]]
  /\ runs \in [Run -> [st : {"idle", "posting", "waiting", "reading"},
                       kind : {"start", "stop", "refresh"}]]
  /\ \A r \in Run : reads[r].st # "none" <=> runs[r].st = "reading"
  /\ initialized \in BOOLEAN /\ live \subseteq 0..MaxMounts /\ cookie \in 0..MaxMounts /\ ver \in Version
  /\ cache \in [body : Version \union {0}, match : BOOLEAN, young : BOOLEAN]

(***************************************************************************)
(* The status that a run ends with, which it asks for when its job has     *)
(* ended, is what the server has when it answers, whatever the browser has *)
(* cached before or meanwhile (refreshStatus with no-store).  What a poll  *)
(* makes of it is another matter: the ETag of the monitor's last run may   *)
(* bring back the status of before.                                        *)
(***************************************************************************)
RefreshShows ==
  [][\A r \in Run :
       (reads[r].st # "answered" /\ reads'[r].st = "answered") => reads'[r].body = ver]_vars

(***************************************************************************)
(* A start is only sent for an instance that the dashboard shows stopped,  *)
(* and a stop only for one that it shows running and not kept alive, at    *)
(* the moment of sending: also when the status has changed while the       *)
(* dialog was open (confirmAction, runAction).                             *)
(***************************************************************************)
ActionFits ==
  [][\A a \in Account, n \in 1..MaxMounts :
       LET run == runs'[<<a, n>>] IN
       (runs[<<a, n>>].st = "idle" /\ run.st = "posting") =>
          /\ n = mount
          /\ run.kind = "start" => Shows(a).status = "Stopped"
          /\ run.kind = "stop" => Shows(a).status = "Running" /\ ~Shows(a).keep]_vars

(***************************************************************************)
(* The dashboard gives way to the login only for a logout, a session that  *)
(* is no longer alive, or a 401 that is handled in the step and that was   *)
(* meant for an earlier session, or for one that the server failed to look *)
(* up (refreshStatus, authenticate).  No other error throws a user out,    *)
(* and none that another request than the handled one was answered with.   *)
(***************************************************************************)
NoSurpriseLogout ==
  [][(phase = "dashboard" /\ phase' = "login") =>
       \/ cookie \notin live'
       \/ reads' = reads  \* a logout
       \/ \E x \in Reader :
            /\ reads' = [reads EXCEPT ![x] = NoRead]
            /\ \/ reads[x].st = "refused" /\ reads[x].session # cookie
               \/ reads[x].st = "unchecked"]_vars

(***************************************************************************)
(* A dashboard that stays is in the end in step with the server, though    *)
(* its polls are answered from the cache, or with a 304 that knows nothing *)
(* of the jobs of single accounts: the run of the monitor every minute     *)
(* changes the ETag (Server.status).                                       *)
(***************************************************************************)
CatchesUp == <>[](phase = "dashboard") => <>[](shown = ver)

(***************************************************************************)
(* A dashboard whose session is over does not stay: a poll that is not     *)
(* answered by the cache finds out.                                        *)
(***************************************************************************)
LeavesDeadSession == (phase = "dashboard" /\ cookie \notin live) ~> phase # "dashboard"

\* What a run disables, it enables again, even if its job never ends (waitForJob's deadline).
BusyEnds ==
  \A t \in Account \union {All} :
    (phase = "dashboard" /\ Busy(t)) ~> ~(phase = "dashboard" /\ Busy(t))
=============================================================================
