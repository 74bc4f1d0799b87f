# CDT-Monitor in TLA+

CDT-Monitor watches cloud instances that are billed by traffic. One Go process holds an HTTP
API, a scheduler, a pool of workers and a worker for notifications; all of them share a SQLite
file (`MaxOpenConns(1)`, WAL). Its user interface is a single-page console in the browser
(`web/src`). A second process may have the same file open: the `run-once` command starts workers
of its own beside the server, and a second copy of the container can be started by mistake. The
design is a persistent queue of jobs, with the cloud provider's API and the notification
channels at the far end, so what is hard is what happens between two statements: crashes,
deadlines, lost answers, retries, and other workers. In the console, which keeps copies of what
the server stores and of what it was answered, what is hard is what happens between a request
and its answer: another request, another screen, another session, an edit.

This directory holds a model of the program in TLA+, the TLC configurations
that check it on small instances, and proofs of its most important invariants
for every instance.

## Inventory

| Component | State | Operations | Talks to |
|---|---|---|---|
| Job queue (`internal/store/runtime.go`, `internal/engine/engine.go`) | table `jobs`; what each worker runs | EnqueueJob, ClaimJob, CompleteJob, FailJob, recoverInterruptedWork, Prune | HTTP handlers and scheduler enqueue; workers call the handlers of the jobs |
| Account monitor (`engine.go`: processAccount, control, refreshTrafficForReport) | the account's row, table `action_events`, the mutex of the account, the traffic cache of its pool | scheduled start and stop, threshold stop and alert, keep-alive, manual control, refresh before a report | provider (status, traffic, control), outbox |
| Outbox (`runtime.go`, `engine.go`, `internal/notify`) | table `notification_outbox` | AddOutbox, ClaimOutbox, CompleteOutbox, FailOutbox, flushOutbox | notification channels |
| Daily report (`engine.go`) | `daily_traffic_snapshots`, action events | checkDailyReport, report jobs, refreshTrafficForReport | job queue, provider, outbox |
| Scheduler (`engine.go`, `runtime.go`) | table `scheduler_leases` | RunOnce every 15 s, AcquireLease, Prune | job queue, daily report |
| Accounts and configuration (`internal/store/config.go`) | tables `accounts`, `settings` | Setup, saveConfig, saveAccountsTx, UpdateAccountSettings | HTTP, job queue (removed accounts) |
| Schedule clock, traffic pools (`engine.go`, `internal/domain`) | none | dueWithin, scheduleCycleDate, inTimeRange, LatestTrafficSamples, ... | pure |
| Authentication (`internal/store/auth.go`, `internal/httpapi/server.go`) | sessions, API keys, passkeys, login attempts, ceremonies in memory | setup, login, logout, keys, passkeys, password change | HTTP |
| Provider client (`internal/aliyun`) | caches of traffic and balance | call with retries, ControlInstance, GetTraffic, ... | cloud |
| Console: page (`web/src/App.tsx`, `api.ts`) | the screen, the status shown, a dialog, the busy accounts; the browser's cookie and its HTTP cache | setup, login, logout, poll, refreshStatus, requestAction, confirmAction, runAction, refreshAll, waitForJob | GET /api/v1/status, actions, jobs |
| Console: settings (`App.tsx`, `traffic.ts`) | a copy of the configuration, the draft of the panel, the form of an instance | edit, copy, remove and import entries; save; save one instance | PUT /api/v1/config, PATCH of an account's settings |
| Console: import (`InstanceImportWizard.tsx`) | query, rows, selection, cursors | load, toggle, finish | discovery; the draft |
| Console: popups (`TimePicker.tsx`, ElegantSelect) | open, draft, highlight, focus | keys and clicks | the forms that hold them |
| Console: history and overview (`HistoryChart.tsx`, `traffic.ts`) | none | buildTimeline, trafficOverviews, totalPoolTraffic | the status and the history |
| Console: lists (keys, passkeys, logs, version) | what was loaded last | load, add, revoke, clear | HTTP |
| Secrets, migrations, Android widget | key file; schema; the last status | | |

What makes each correct, in a sentence:

- **Job queue.** A job has one runner; the statement that ends a job, which names
  the row by its id only, finds the row as its worker left it; a unique key keeps
  out every second job while the first is to be run, and for a monitor job ever
  after; nothing is run more often than its budget plus its interruptions; keys
  are given back.
- **Account monitor.** No automatic action is called for twice under a key; the
  row shows every transition under way; nobody commands an instance that is
  carrying out a command; keep-alive does not undo a threshold stop; one alert a
  month; each with the exceptions listed under the runs.
- **Outbox.** The channels of an event are added together; what counts as sent was
  sent; a row has one sender; duplicates come from interruptions only; every row
  is settled in the end.
- **Daily report.** One report per account and cycle, also after a crash; the report
  job does not overwrite what the monitor stores.
- **Scheduler.** At most one process at a time believes in its lease for as long as
  the clock is fair to it; a monitor cycle is not enqueued twice.
- **Accounts.** An answer fetched for an old target is not stored for the new one;
  every entry of a saved configuration is in a row of its own, with the secret of its
  key; the accounts of a pool have one quota; no update is lost.
- **Console, page.** A run ends with the status of now, whatever was cached; an action
  is sent only for an instance it fits; nothing but a session that is over, or whose check
  failed, shows the login; the
  dashboard catches up with the server, leaves a dead session, and frees its buttons.
- **Console, settings.** What the console believes to be stored is stored; an action
  reaches the instance its dialog named.
- **Console, the rest.** The import shows the query it names; a popup holds what it shows and
  keeps the focus while its controls are used; the chart puts every sample in its slot, in
  time zones of all kinds; the overview counts every pool once.
- **Schedule clock.** Every scheduled time is due in some polling slot and belongs to
  one cycle; the cycle of start and stop agree.
- **Authentication.** One administrator; limits hold; a revoked credential opens nothing;
  a ceremony is used once.

The hazards of each, line by line, are in `PROJECT.json`.

## Modules

| Module | What it is |
|---|---|
| `JobQueue` | the queue: rows, workers, processes, time |
| `JobLedger` | what the queue promises, without rows, keys, clocks or processes |
| `JobQueueProofs` | the inductive invariant of `JobQueue` and the theorems |
| `MCJobQueue` | instance for TLC: two processes, a worker each, two rows |
| `Outbox` | the notification outbox, its senders and the channels |
| `NotificationPromise` | what the outbox promises, without clocks, processes or retries |
| `OutboxProofs` | the inductive invariant of `Outbox` and the theorems |
| `MCOutbox` | instance for TLC: two processes, an event on two channels |
| `AccountMonitor` | the runs of processAccount, control and a report's refresh for one account, the cache of its pool, and the cloud |
| `AccountMonitorProofs` | the inductive invariant of `AccountMonitor` and the theorems |
| `MonitorClaims` | `AccountMonitor` with a history of what the cloud carried out |
| `MCAccountMonitor`, `MCMonitorClaims` | instances for TLC: two workers, one schedule cycle |
| `Console` | the page: screens, sessions, the status with the browser's cache, actions |
| `ConsoleProofs` | the inductive invariant of `Console` and the theorems |
| `MCConsole` | instance for TLC: one account, two sessions, three states of its instance |
| `Ordered` | operators: a set of numbers in its order, a sequence at some of its positions |
| `OrderedProofs` | facts about them, about least and greatest elements, and induction as a fact about a set |
| `TrafficPools` | operators: pools, their quotas, merging of rows, the summaries of the status |
| `TrafficPoolsProofs` | what merging lists, and sums over sets |
| `ConsoleSettings` | the drafts and saves of accounts, and the table they are saved to |
| `ConsoleSettingsProofs` | what edits and saves keep, the inductive invariant of `ConsoleSettings` and the theorems |
| `MCConsoleSettings` | instance for TLC: two stored accounts, two edits, two saves |
| `ImportWizard` | the wizard that imports instances into a draft |
| `Popups` | the list to select from and the time picker, with keyboard, mouse and focus |
| `HistoryTimeline` | the slots of the history chart, in the time zones of browsers |
| `PoolReadings` | readings of pools from the cloud, through a cache, to the totals of the overview |
| `ConsoleViewsProofs` | the inductive invariants of the last four modules and a theorem about each |
| `MCConsoleViews` | these four in one instance for TLC; a behaviour uses one of them |

### JobQueue and the code

A row is spread over the functions `status`, `asked`/`keyed` (`unique_key`, and
whether the row still holds it), `attempts`, `wait` (`available_at` less now),
`age` (now less `locked_at`) and `created`. A worker's goroutine is `work`, `copy`
(the `Attempts` of its copy of the row) and `held` (how long it has run).
`pending` are the callers of EnqueueJob between the check of the account and the
INSERT, which are two statements. `Mail` are the tests of the e-mail channel, which
are asked for with no key: `sendEmail` reads from the server without a deadline, so
a run of one may outlast its context (`Bounded`, `Timely`).

| Action | Code |
|---|---|
| `CheckAccount`, `Enqueue`, `DropCall` | `EnqueueJob`: account check, INSERT or lookup of the holder of the key, a caller that disappears |
| `Claim`, `Reject` | `ClaimJob`: the oldest due row, taken or, if its account is gone, given up |
| `Complete`, `FailRetry`, `FailFinal` | `CompleteJob`, `FailJob` with and without attempts left |
| `EndLost` | `processJobs` ignores the error of either |
| `Open`, `Stop` | `store.Open` with `recoverInterruptedWork`; the process is killed or told to stop |
| `Tick` | time passes, at most to the deadline of each run that heeds its context |
| `MinuteOver`, `Prune`, `RemoveAccount` | the minute in a monitor key passes; retention; an account is removed |

`JobLedger` says that a job is posted once, taken by one worker, settled by nobody
else, requeued only when its worker lost it, and never revived.
`ImplementsLedger` is the refinement (`stage <- Stage`, `task <- Task`, which are
`status` and `work` without the test e-mails): recovery by age and statements by id
do keep those promises. For test e-mails they do not, since a run that hangs past the
age of recovery is overtaken.

### Outbox and the code

A row is an event and a channel, and has the columns of a job's row; a sender (the
notificationWorker of a process) is `item`, `copy`, `held` and `answer`, which says how
far the call of the channel has come. `arrived`, `lost` and `interrupted` are history.

| Action | Code |
|---|---|
| `AddOutbox` | `AddOutbox`: one transaction, INSERT OR IGNORE for each channel |
| `Claim` | `ClaimOutbox` |
| `Reach`, `Succeed`, `Err` | `notify.Send`: the receiver gets the message; nil; an error before or after that |
| `Complete`, `FailRetry`, `FailFinal` | `CompleteOutbox`, `FailOutbox` with and without attempts left |
| `EndLost` | `flushOutbox` ignores the error of either |
| `Open`, `Stop`, `Tick`, `Prune` | as in the queue; `Stop` is also the end of `run-once`, which does not wait for its sender |

`NotificationPromise` says that a message arrives only while it is owed, is recorded
as sent only if it arrived, and that what was settled stays so. Mails are left out of
the refinement, for the reason above, but not of `SentArrived`.

### AccountMonitor and the code

`run[w]` is the goroutine of a worker: where it stands (`pc`), and its copies of
what it read. The order of the statements in `processAccount` is the order of
`pc`: `start`, `stop` (executeScheduledAction), `poll` (the two queries, in either
order, then the store), `fall` and `clear` (the two deletes below the threshold),
`fuse` and `alert`, `notify` (above it), `keepalive`. A call of the provider is
`call`, then `acked` or `refused`. A run may be `Cut` at each of them. A daily report
that refreshes the account is at `waits` between its reading of the accounts and the mutex
(`BeginReport`, `EnterReport`), and at `report` until it has stored the traffic together
with the status it read at first (`StoreReport`, `engine.go:1250`).

`cache[w]` is the month's entry of the account's pool in the `Client` of `w`'s process.
`FetchTraffic` takes it, of whatever age below 45 s, or asks the provider; the answer is
put in the cache by a step of its own (`news`, `KeepTraffic`), and `PeerKeeps` is the answer
to another account of the pool, which may have been counted long before it arrives. A low
answer that replaces a high one is counted in `overtakes`.

The cloud is external: a command that fits the instance's state begins a
transition and is acknowledged, or begins it and the answer is lost; any other
command is refused. Whether a slot is due for start or stop, in the running
range, and of which cycle, are constants here; they are what the clock functions
of the engine compute.

### Console and the code

`phase` is App's `phase`; `mount` counts the calls of `loadDashboard` and so tells apart the
dashboards, each with `activeActions` of its own, that one page may show one after the
other. `reads[x]` is a request for the status: the load's, the poll's, or that of a run;
`runs[<<t, n>>]` is `runAction` for the account `t`, or `refreshAll`, of the dashboard of
the load `n`. What the status says is a version, a number that the server counts up. The
server's sessions are `live`, and `cookie` is the browser's.

| Action | Code |
|---|---|
| `Start`, `Loaded`, `SetUp`, `Login`, `Logout` | the effect of `App`, `loadDashboard`, `SetupScreen`, `LoginScreen`, `logout` |
| `Poll`, `PollHandled` | the timer of 30 s and `refreshStatus` |
| `AnswerRead`, `ReadFails`, `Age`, `MonitorRun` | `Server.status` with `Cache-Control: max-age` and the ETag, and the browser's cache in front of it |
| `RequestAction`, `CancelAction`, `ConfirmAction` | `requestAction`, the dialog, `confirmAction` with its comparison of what is shown now |
| `RefreshAll`, `Posted`, `JobCompleted`, `GiveUp`, `RunHandled` | `runAction`, `refreshAll`, `waitForJob` with its 70 s, and the `finally` |
| `SessionEnds`, `Reload`, `InstancesChange` | the environment |

Every answer is handled by a step of its own, so that answers overtake each other, outlive
the dashboard that asked, and arrive after another login.

### ConsoleSettings and the code

`config` is the console's configuration, `panel.draft` the panel's, `puts` and `patch` the
saves in flight, `rows` the table `accounts` (row `n` has the id `n`; soft deletion clears
`live`). `Updated` is `updateTrafficAccount`, `Imported` the accounts the wizard makes,
`Saved` the loop of `saveAccountsTx` and `SecretOf` its search for a secret. `at` and `astray`
are history: the row an entry is known to be in, and whether saves have overlapped.
The answer of a save is handled in the scope of the render that sent it, so `patch.base` is
the configuration of the click (`App.tsx:438`) and a late answer of the panel closes the panel
that is open by then.

### The smaller views and the code

`ImportWizard` has the `useRef`s of the wizard as variables (`seen`, `current`): a ticket per
request decides whether an answer still counts. `Popups` has one action per key or click of the
two popups, and those of the presses that hit none of their controls (`MissList`, `MissPicker`,
`PressButton`); what is on the page is `list`, `picker` and `focus`, and `missed` remembers such
a press until the focus is back. `HistoryTimeline` is pure: `BuildTimeline` translates
`buildTimeline` with its arithmetic of days by way of noon UTC, in half hours, and is compared
with what the server stores under the beginnings that `time.Date` gives its days (`Midnight`),
for every chart that can be opened. `PoolReadings` follows a number from the cloud through
`GetTraffic`'s cache, the store's check of the identity, `Summary`, and `trafficOverviews`.

## Runs

| Run | Question | Result |
|---|---|---|
| `jobqueue_safety` | `TypeOK`, `OneRunner`, `EndsOwnClaim`, `OneJobPerKey`, `RetryBudget`, `ImplementsLedger` | hold, 1,023,908 states |
| `jobqueue_live` | `KeyFreed` | holds, 94,230 states |
| `jobqueue_stuck` | does opening the database recover what a stopped process left? | no |
| `outbox` | `TypeOK`, `OneSender`, `SentArrived`, `RepeatsExplained`, `BudgetUsed`, `KeepsPromise`, `Settled` | hold, 526,910 states |
| `outbox_stall` | does every call of a channel end? | no |
| `monitor_one` | `TypeOK`, `OneCallPerKey`, `KeysTellCalls`, `TransitionVisible`, `NoCrossing`, `FuseHolds`, `OneAlertPerMonth` for one process | hold, 1,768,339 states |
| `monitor_two` | `OneCallPerKey`, `KeysTellCalls` for two processes | hold, 2,831,322 states |
| `monitor_restart` | is the schedule made up for after a restart? | no |
| `monitor_once` | is a scheduled action executed at most once? | no |
| `console` | `TypeOK`, `RefreshShows`, `ActionFits`, `NoSurpriseLogout`, `CatchesUp`, `LeavesDeadSession`, `BusyEnds` | hold, 278,168 states |
| `console_settings` | `TypeOK`, `QuotasShared`, `ConfigAgrees`, `ActsOnShown`, `StoresEveryEntry`, `SecretsFit` | hold, 676,588 states |
| `console_views` | `WizardShowsQuery`, `PopupsHold`, `TimelineShows`, `OverviewTrue` | hold, 380,705 states |

The four that fail are disagreements between the code and what the repository
says of it:

- **`jobqueue_stuck`.** `recoverInterruptedWork` requeues rows locked more than 120 s
  ago, and only when the database is opened. A process that is killed in the middle
  of a job and restarted at once leaves the row running until some later restart;
  a later request for the same control or scheduled report is answered with the dead
  job, which holds the key. The test `TestInterruptedWorkRecoversOnOpen` covers an old row only.
- **`outbox_stall`.** The context that is passed to `sendEmail` ends the dialling and
  the TLS handshake, but not the SMTP conversation. A server that falls silent holds
  the only sender of the process, where the design has every external call heed a
  timeout.
- **`monitor_restart`.** The event that stands for a scheduled action is recorded before
  the call. A crash in between loses the action for the day, where the design says
  that it can be made up for after a restart.
- **`monitor_once`.** An answer that got lost counts as a failure and the event is
  deleted, so the retry acts again, where the design says at most once.

The properties of the monitor and of the console hold with exceptions that are written into
them, and that are the behaviours a reader of this code should know:

- *A report that waited.* `refreshTrafficForReport` waits for the account's mutex with a copy
  of the account that it has read before, and stores the status of that copy with the new
  traffic. If the holder of the mutex started or stopped the instance meanwhile, the row loses
  the transition, and until a poll has read the provider's status a manual action, the schedule
  or the threshold may command an instance that is still carrying out a command (`reverted`, in
  `TransitionVisible` and `NoCrossing`).
- *An older answer in the cache.* The accounts of a pool share the entry of `GetTraffic`'s
  cache, and nothing orders their answers. One that was counted below the threshold and arrives
  after one above it makes the next 45 s read low: the keys of the stop and the alert are
  deleted, keep-alive starts what the threshold stopped, and the next high reading is
  announced again in the same month (`overtakes`, in `FuseHolds` and `OneAlertPerMonth`).
  Without these two exceptions TLC refutes the four properties in `monitor_one`.

- *Overlapping saves.* A form's answer is merged into the configuration of the render that
  sent it, so one that arrives after the panel's save brings old accounts back into the
  console, and the next save of the panel stores them (`astray`, in `QuotasShared`,
  `ConfigAgrees`, `ActsOnShown`). A late answer of the panel also closes a panel opened
  since.
- *Entries without an id.* After a save the console goes on with its draft, where a new entry
  still has the id 0. What its form saves is not merged into it, and the next save of the
  panel undoes it (`ConfigAgrees`). Changing its key, region or instance makes a new row and
  soft-deletes the old one. A copy that is given the key, region and instance of a later entry
  takes over its row, and one of the two is lost (`TakesOver`, in `StoresEveryEntry`).
- *A blank secret under a changed key.* The row keeps the secret of the old key, even when
  another row has the right one (`BlankKeyChange`, in `SecretsFit`).
- *The ETag.* It is the time of the monitor's last run and the number of accounts. After a
  manual action a poll may get a 304 and show the status of before, until the next run of
  the monitor (`RefreshShows` is about the read that the run itself makes, `CatchesUp` about the
  end).
- *Refusals.* A 401 that belongs to an earlier session shows the login to the present one,
  and so does the 401 that a live session is answered when the database fails to say whether
  it is one (last disjunct of `NoSurpriseLogout`). A new login makes new `activeActions`, so an
  account that an earlier dashboard still acts on takes a second action.
- *Setup.* When the load after a setup fails, the setup screen stays and only a reload helps.
- *Time zones.* From UTC+12 on, noon UTC is on the next day and the daily chart loses its
  oldest day (`Ahead`). A zone that is less than 12 hours ahead on some of the charted days and
  more on others, as Norfolk Island is around its change of clocks, misses the day of the change
  or has it twice (neither `Ahead` nor `Behind`). Where clocks change between midnight and
  midnight UTC (Sydney, Auckland, in spring), the console's day begins an hour before the
  server's; where the midnight itself is skipped west of UTC (Santiago, Havana, in spring), the
  server's begins at 23:00 of the day before, and its sample is charted on that day (`Regular`).
- *Presses beside the controls.* A press of the picker's heading, or of the icon of the list's
  search, leaves the popup open without the focus: the list hears no Escape and no Enter, Tab
  leaves the picker, and a key may open the other popup behind it, until the focus is back in
  its place (`missed`, in `PopupsHold`).

### Bounds

- *Queue.* Two rows, two processes with a worker each, three keys (of a monitor
  minute, of a control job, and a test e-mail, which has none), two attempts, one
  interruption per job (`MaxInterrupts`), and a clock in which a run takes at most one
  tick and recovery starts after one. Two rows are what a conflict over a key needs,
  two workers what a conflict over a row needs; the second attempt lets a job be
  retried and be given up; the interruption lets recovery go past the budget.
  `JobTimeout = RecoverAfter` is the tightest case that `TimeoutAssumption` allows
  (the code has 55 s and 120 s), so the safety of recovery is checked, and proved,
  where it is closest to failing. Every waiting time (`Backoff`) is one tick. The two
  processes, with their workers, are exchanged by symmetry.
- *Liveness of the queue.* One key of a scheduled report, which needs no account, a
  test of a channel and a test e-mail; no symmetry.
- *Outbox.* One event on a channel that heeds its context and by mail, two processes,
  two attempts, one interruption and one lost answer per row (`MaxFaults`), and the clock of
  the queue. The event may be added again with other channels, so that its rows may be
  created together or one after the other.
- *Monitor.* Two workers, two slots in one schedule cycle, with start due in both and stop
  in the second, so that both are due in one, and two faults (one when there are two
  processes): failed queries, lost answers, cut runs, outside starts and stops, new months,
  and older answers that replace newer ones in the cache each count. Every property here
  fails, if the code is broken in one place, with at most two faults. The configurations of
  one process are: kept alive and reported, kept alive in a pool, scheduled and kept alive,
  and scheduled; with two processes it is scheduled or kept alive. The proofs cover the rest.

- *Console.* One account, two loads of the dashboard (an old session and a new one), one run at
  a time, three versions of the status: running, then kept alive, then stopped, so that a dialog
  can find either change. Runs of different accounts share nothing but the status.
- *Settings.* Two stored accounts of one key, in one pool or in two, two edits and two saves,
  three entries, two keys, a region of each class and two instances: two edits move an entry
  and change its pool or its twin, two saves overlap. The discovery lists an instance that is
  stored and one twice.
- *Views.* A query of three pages that overlap, where two are loaded, and one of two; five
  requests. Three hours and four minutes, where pages go two: at the edges and across them. Half
  hours, and four slots instead of 25 and 31, over two days around the Sunday of a clock change,
  with thirteen zones from UTC-10 to UTC+14; in two of them midnight is skipped. Two accounts of
  a pool, one move, four times with a change of month; `MaxRun` and `CacheFor` are one unit, and
  with the window of `OverviewTrue` one unit tighter it fails.

### Fairness

`jobqueue_live` assumes weak fairness of three things: time passes, a worker
polls the queue (a ticker of 800 ms in every worker goroutine), and a run that heeds
its context ends (at 55 s; a panic is turned into an error). `outbox` and
`outbox_stall` assume the same of the senders (a ticker of 1 s, a context of 20 s), and
that a call which is over has its outcome written. No process is obliged to start,
nobody to enqueue, and no mail server to answer, and the properties are asked only of
behaviours in which some process stays up. Exempt are a job or message whose run was
cut off (`Orphan`: see `jobqueue_stuck`) and times at which mails that hang hold every
worker, or every sender, there is (`Jammed`: see `outbox_stall`).

`console` assumes that requests are answered or fail and that their answers are handled, that
the poll's timer and the monitor (once a minute) run again and again, that a cached answer
ages, and, as strong fairness, that not every poll fails. No job has to end: `waitForJob`
gives up after 70 s. Nobody has to click.

## Proofs

`ConsoleProofs` proves, for all sets of accounts, all histories of their instances and any
number of loads and of runs, what the table says of it, and `AccountMonitorProofs` for all sets
of workers, settings and schedules and any number of slots and of faults.
`ConsoleSettingsProofs` does so for all tables and discoveries of any length, all quotas and any
number of edits and saves, and `ConsoleViewsProofs` for lists, times, listings, pools and zones
of any number. `JobQueueProofs` and `OutboxProofs` prove, for all finite or infinite sets of
jobs, workers, processes and keys, or events, channels and processes, all budgets and all times
with `JobTimeout <= RecoverAfter`, or `SendTimeout <= RecoverAfter`:

| Module | Theorem | Statement |
|---|---|---|
| `JobQueueProofs` | `TypeCorrect` | `Spec => []TypeOK` |
| | `NoSecondRunner` | `Spec => []OneRunner` |
| | `EndsAreOwn` | `Spec => []EndsOwnClaim` |
| | `KeysAreExclusive` | `Spec => []OneJobPerKey` |
| | `BudgetIsKept` | `Spec => []RetryBudget` |
| | `QueueImplementsLedger` | `Spec => ImplementsLedger` |
| `OutboxProofs` | `TypeCorrect` | `Spec => []TypeOK` |
| | `NoSecondSender` | `Spec => []OneSender` |
| | `SentIsTrue` | `Spec => []SentArrived` |
| | `RepeatsHaveCauses` | `Spec => []RepeatsExplained` |
| | `BudgetIsUsed` | `Spec => []BudgetUsed` |
| | `OutboxKeepsPromise` | `Spec => KeepsPromise` |
| `ConsoleProofs` | `TypeCorrect` | `Spec => []TypeOK` |
| | `RefreshIsCurrent` | `Spec => RefreshShows` |
| | `ActionsFit` | `Spec => ActionFits` |
| | `LogoutsHaveCauses` | `Spec => NoSurpriseLogout` |
| `AccountMonitorProofs` | `TypeCorrect` | `Spec => []TypeOK` |
| | `NoRepeatedCalls` | `Spec => []OneCallPerKey` |
| | `EventsTellCalls` | `Spec => []KeysTellCalls` |
| | `StatusShowsTransition` | `Spec => []TransitionVisible` |
| | `NoCallCrossesAnother` | `Spec => []NoCrossing` |
| | `KeepAliveSparesFuse` | `Spec => []FuseHolds` |
| | `OneNotificationPerMonth` | `Spec => []OneAlertPerMonth` |
| `ConsoleSettingsProofs` | `SettingsTypeCorrect` | `Spec => []TypeOK` |
| | `SettingsQuotasShared` | `Spec => []QuotasShared` |
| | `SettingsStoresEveryEntry` | `Spec => StoresEveryEntry` |
| | `SettingsSecretsFit` | `Spec => SecretsFit` |
| | `SettingsConfigAgrees` | `Spec => []ConfigAgrees` |
| | `SettingsActsOnShown` | `Spec => []ActsOnShown` |
| `ConsoleViewsProofs` | `PopupsKeepFocus` | `PopupSpec => []PopupsHold` |
| | `WizardShowsWhatItAsked` | `WizardSpec => []WizardShowsQuery` |
| | `OverviewIsTrue` | `ReadingSpec => []OverviewTrue` |
| | `ChartShowsTheSamples` | `TimelineSpec => []TimelineShows` |

The argument for the queue. None of these is inductive alone. `Recoverable` looks at
nothing but the age of a row, so that recovery spares a running job has to come from a
relation between the row and the worker: `HeldInv` says that the job of a busy
worker, if it heeds its context, is running, with the worker's attempts, and that its
age is the time the worker has held it, which `Tick` keeps below the deadline. With
`JobTimeout <= RecoverAfter` such a job is never recoverable; so `Open` never touches
one (`RunnerInv`), which makes `Claim` take only jobs without a worker, and the
unguarded `CompleteJob` and `FailJob` safe. `KeyInv` relates the column `unique_key` to
what it stands for: who occupies a key holds it, nobody holds a key twice, and a
completed monitor job holds its key until it is pruned. It rests on `HeldInv`, which
keeps a late `FailJob` from reviving a job that has given its key back; test e-mails,
which `HeldInv` exempts, have no key. `BudgetInv` bounds the
attempts of a row by what it may still become. `IInv` is their conjunction with
`TypeOK`; one lemma per action shows that it is preserved, and the refinement follows
step by step from it: the steps on a test e-mail stutter in the ledger.

The argument for the outbox is the same, with two parts more. `SenderInv` also says
that whoever knows its message arrived is right, from which `SentArrived` follows for
mails too, since `arrived` never falls. `RepeatInv` says that an arrival which no sender
knows of, and which is not recorded, has a lost answer or an interruption for it.

The argument for the console. `ActionFits` and `NoSurpriseLogout` are about one step, and each
needs what earlier steps left behind: a dialog that is open was opened for an instance which the
action fitted (`DialogInv`), so that comparing the status is enough; and a request that was
refused belongs to a session that is over for good (`SessionInv`), since sessions are numbered
by the loads and none comes back, so that the session of the browser is over too or the request
is an earlier one's; but for a refusal because the check failed (`unchecked`), which says
nothing of its session and is the property's exception. `BodyInv` says that whatever can be
answered, from the cache or by the server, has a version, without which the dashboard's type
fails; `MountInv` that a page which starts may still load a dashboard. `RefreshShows` rests on
no-store alone.

The argument for the account monitor has five layers above the types and the mutex (`BaseInv`:
in one process, at most one run has got past the mutex). `KeyInv` says of each key who is making
its call: at most one run, and then the key is in the table, not lost, and counts from the call
on; without a run, the key is there exactly if the call counts or was cut off. It needs the mutex
for the key of the threshold stop alone, which `Clear` deletes whoever holds it. `OwedInv` says
what a run must know while the cloud carries out an acknowledged call that no report has hidden:
whatever status it holds, or was answered, or will store, is a transition, and it is not on its
way to a call. Only a report that waits may have an older status, and `StoreReport` says so by
`reverted`. `ReadInv` says that the cache of the process has one entry for the pool, and that
neither it nor what a run is about to put there is above the month's traffic. `FuseInv` rests on
it: once the fuse has blown, the entry is high (`Known`), the row's traffic is, and no run
believes it low or has been told so, which only an overtaking answer changes. `AlertInv` counts
the notifications with the one about to be put in the outbox (`Announced`), and bounds them by
the months and overtakings so far (`Allowed`), and one more; the one more is used up only when
the alert's key is there and the row, the cache and every run show high traffic. Each layer
is preserved given those before it, with one lemma for what each action does to its run and one
step per action in each layer.

The argument for the settings goes from one edit and one save to the whole. Each edit of a
draft is an `EditOf` it: if the pools of the old draft had one quota each, those of the new one
have, no id is made up, and none is there twice (`DraftEditFact`, one lemma per edit). A save is
a loop over the entries, and `SaveResult` says what it leaves, by induction over their number:
every entry is given a live row, and two entries the same one only if it already has the id
of the later; a live row has the data of an entry that was given it, with a secret that is
typed, kept or found; every other row is closed and otherwise as before. `StoresEveryEntry` and
`SecretsFit` follow from it for every table a save can meet. What holds in every state is
`AlwaysInv`: the types; distinct ids, without which a form's answer could be merged into two
entries; that the rows of a pool share a quota; and that an answered save is forgotten. The
other three properties need `SettingsInv`: as long as no saves have overlapped, either the
configuration or the one answer under way agrees with the table (`Track`), entry by entry as
far as its row is known; drafts that are open or sent share the quotas of their pools
(`Shared`); and no confirmed action was about another instance than the one shown.

The popups' invariant is `PopupsHold` with the types of what the focus may be on: a highlighted
option is in the list that is found, of whatever length (`FindsFact`), and every step but a miss
leaves the focus in its place if it was there. The wizard's has four parts besides types: the
requests in flight have tickets of their own, and the one that counts asks for the page that
comes next (`RequestsFit`), the rows are those of the pages loaded (`RowsFit`), the selection is
of rows outside the draft and within its capacity (`PicksFit`), and the draft has the import
after what it had (`DraftFits`). `RowsFit` needs that merging the pages as they come is merging
them all at once, which is proved for listings of any length with any repetitions.

`OverviewTrue` relates sums over the cards to sums over pools, and a number on the page to one
the cloud counted a while ago. `ReadingInv` bounds the age of each copy on the way: of the
cache's value (`EntryTrue`), of the value that a run has (`RunTrue`), and of the one in a row
(`RowTrue`), which also is of the pool that the row names now, since the store refuses one for an
identity that changed. The sums are those of the community modules, which fold over a set in an
order nobody knows; `TrafficPoolsProofs` shows that they add up over a partition and do not
depend on the names of what is summed.

`TimelineShows` is about one drawing of the chart. The slots `k` before the current one begin
ever earlier, since a clock never changes by a day; the sample of `k` lies in that slot or,
where the server's day begins on the day before (`MidnightFact`), in the one before it
(`SlotOfSample`), so the last slot is the current one's, and on regular days each
slot has its own sample and no other (`TrafficFact`); a shift by days of the beginning of
the current day is the beginning of the day meant, or, ahead, of the next
(`ShiftFact`, `PlacesFact`). It was by proof that the third kind of zones above was found: of
the configured zones none was less than 12 hours ahead on one charted day and more on another,
and the exception for `Ahead` was stated too widely.

Two limits of the provers shape these modules. The induction theorems of the library
take an operator, so induction is stated as a fact about a set of numbers that has 0 and with
every number the next (`OrderedProofs`). Folds, `FlattenSeq` and sums can be unfolded by
their definitions, but `SortSeq`, `SelectSeq` and `SetToSortSeq` cannot, so what they return is
defined in `Ordered` by its order.

The assumptions are `QueueAssumption`, `OutboxAssumption`, `ConsoleAssumption`,
`MonitorAssumption`, `SettingsAssumption`, `WizardAssumption`, `PopupAssumption` and
`ReadingsAssumption` (the constants are what they are said to be); `StoredAssumption`, that the
accounts of a pool share a quota in the table at first, as every save leaves them;
`TimelineAssumption`, that clocks are at most 12 hours behind UTC and less than a day
ahead, that none is changed by a day (as Samoa's was in 2011), and that the chart is
drawn after 2 January 1970; and `TimeoutAssumption` and `SendAssumption`. The last two rest on
the code: a run's context ends after 55 s and a send's after 20 s, a row is requeued
after 120 s, and the mutex of an account, which a worker waits for without looking at
its context, is released by a holder that started earlier and so has the earlier
deadline.

Only model-checked: `KeyFreed`, `Settled`, `CatchesUp`, `LeavesDeadSession` and `BusyEnds`
(liveness is out of the prover's reach). That a zone excepted from `TimelineShows` exists, that
the window of `OverviewTrue` is the tightest one, and the other remarks about bounds above are
what TLC found on the instances of the runs.

## Not modelled

Billing, instance metadata, logs and the traffic history are best effort and read
by no decision. Signing, encryption, parsing and rendering are conversions of data.
Corrupt rows, which ClaimJob and GetJob reject field by field, cannot be written by
the program. The widget keeps no state the server relies on.

Some things are coarser than the code. The client's attempts at one call (`client.go:577`) are one
step of `AccountMonitor`, with the outcomes of any of them. A message arrives while its sender
holds the row; one that arrives after the client gave up is not in `Outbox`. The page has one
poll at a time, where `setInterval` may start another beside a slow one, and its 304 answers
may be reused, though the server forbids it. In `PoolReadings` the cache has one entry for a pool,
where the code has one for each month of it, so there a late answer of the month before displaces
one of the new month, which is then asked for again.

In the console: the lists of API keys, passkeys and logs and the About panel, which load,
change and load again and are read by nothing else (when the tab of the logs is switched while
a request is under way, the older answer may come last and be shown); the global settings,
the channels with their templates and masked secrets, and the refreshes that follow
when billing is switched on; the failures of the history's requests; labels, ticks, positions,
scrolling, and the focus of browsers that do not focus a clicked button. Request and answer of a
logout are one step, so a logout that is answered after another login is left out.

## Plan

1. *Done:* `JobQueue`, `JobLedger`, `JobQueueProofs`, `AccountMonitor`, `AccountMonitorProofs`,
   `MonitorClaims`, `Outbox`, `NotificationPromise`, `OutboxProofs`, `Console`, `ConsoleProofs`,
   `TrafficPools`, `ConsoleSettings`, `ImportWizard`, `Popups`, `HistoryTimeline`,
   `PoolReadings`, with `ConsoleSettingsProofs` and `ConsoleViewsProofs`: every safety property
   of a run is proved.
2. The threshold alert end to end: `AccountMonitor` composed with the outbox, where the
   event and the row are written by two transactions.
3. `DailyReport`: the stop's report, checkDailyReport, crashes in between, report jobs
   that are run twice; and the comment at `engine.go:1040` as a claim.
4. `Scheduler`: the lease by wall clock, stalls, two processes; composed with the keys
   of monitor jobs.
5. The rest of the accounts: the two statements of a settings request against saves of the
   configuration and other clients, and runs and control jobs that began before an edit.
6. `Clock`: the pure functions against a reference over all minutes of coarse days,
   and their use by `AccountMonitor`.
7. `Auth`: setup, sessions, keys, passkeys and their limits.
8. The provider client's retries and its cache of balances; the lists of the console.
9. Theorems: exclusion of the lease; each new component's safety properties.
