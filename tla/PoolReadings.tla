----------------------------- MODULE PoolReadings -----------------------------
(***************************************************************************)
(* From the cloud's count of a pool's traffic to the totals on the         *)
(* dashboard: GetTraffic with its cache (aliyun/client.go), the part of    *)
(* processAccount that stores a reading (engine.go, store/config.go), the  *)
(* move of an account to another pool (saveAccountsTx), the status that    *)
(* the server answers (Summary) and what the console makes of it           *)
(* (totalPoolTraffic, trafficOverviews).                                   *)
(*                                                                         *)
(* Every account of a pool is read by a run of its own.  Runs of one       *)
(* account wait for each other; those of different accounts interleave.    *)
(***************************************************************************)
EXTENDS TrafficPools

CONSTANTS
  PoolKeys, PoolRegions,   \* the keys and regions of the accounts
  PoolAccounts,            \* the accounts at first: a set of sequences of records key, region, quota
  Usage,                   \* Usage[p][t]: what the cloud counts for the pool p at time t
  Months,                  \* Months[t]: the month
  FreshFor,                \* how long a reading counts as current
  CacheFor,                \* how long GetTraffic answers from its cache
  MaxRun,                  \* the deadline of a run
  MaxMoves                 \* bounds the moves of a behaviour

Times == DOMAIN Months

ASSUME ReadingsAssumption ==
  /\ Months \in Seq(Nat) /\ Months # <<>>
  /\ \A key \in PoolKeys, class \in {"china", "international"} : Usage[<<key, class>>] \in [Times -> Nat]
  /\ PoolAccounts \subseteq Seq([key : PoolKeys, region : PoolRegions, quota : Nat])
  /\ {ChinaQuota, AbroadQuota} \subseteq Nat
  /\ FreshFor \in Nat /\ CacheFor \in Nat \ {0} /\ MaxRun \in Nat \ {0} /\ MaxMoves \in Nat

VARIABLES
  stored,    \* the rows of the accounts: key, region, quota, used, at
  reading,   \* the run of each account: where it stands, its copy of the row, since when, what it read
  cached,    \* the cache of GetTraffic: the value, since when, of which month
  now,       \* the time
  moves      \* the number of moves so far

readingVars == <<stored, reading, cached, now, moves>>

Pool == PoolKeys \X {"china", "international"}
NoReading == [st |-> "none", key |-> NoKey, region |-> NoKey, since |-> 0, month |-> 0, value |-> 0]
NoCached == [value |-> 0, at |-> 0, month |-> 0]

ReadingInit ==
  /\ \E accounts \in PoolAccounts :
       stored = [j \in DOMAIN accounts |->
                   [key |-> accounts[j].key, region |-> accounts[j].region, quota |-> accounts[j].quota,
                    used |-> 0, at |-> 0]]
  /\ reading = [j \in DOMAIN stored |-> NoReading]
  /\ cached = [p \in Pool |-> NoCached]
  /\ now = 1 /\ moves = 0

\* A pool whose accounts disagree about the quota is not monitored.
BeginReading(j) ==
  /\ reading[j].st = "none"
  /\ ~QuotaConflict(stored, PoolKey(stored[j]))
  /\ reading' = [reading EXCEPT ![j] = [NoReading EXCEPT !.st = "begun", !.since = now,
                                          !.key = stored[j].key, !.region = stored[j].region]]
  /\ UNCHANGED <<stored, cached, now, moves>>

Got(j, value) == reading' = [reading EXCEPT ![j].st = "got", ![j].value = value]

CacheHit(p) == cached[p].at # 0 /\ cached[p].month = Months[now] /\ now - cached[p].at < CacheFor

FromCache(j) ==
  /\ reading[j].st = "begun" /\ CacheHit(PoolKey(reading[j]))
  /\ Got(j, cached[PoolKey(reading[j])].value)
  /\ UNCHANGED <<stored, cached, now, moves>>

\* The entry will be for the month of the call.  The cloud counts; its answer may take a while.
FromCloud(j) ==
  /\ reading[j].st = "begun" /\ ~CacheHit(PoolKey(reading[j]))
  /\ reading' = [reading EXCEPT ![j].st = "counted", ![j].month = Months[now],
                                ![j].value = Usage[PoolKey(reading[j])][now]]
  /\ UNCHANGED <<stored, cached, now, moves>>

CloudAnswers(j) ==
  /\ reading[j].st = "counted"
  /\ Got(j, reading[j].value)
  /\ cached' = [cached EXCEPT ![PoolKey(reading[j])] =
                  [value |-> reading[j].value, at |-> now, month |-> reading[j].month]]
  /\ UNCHANGED <<stored, now, moves>>

\* Faulty: any row takes the reading.
TargetUnchecked(j) == TRUE

\* UpdateRuntimeForAccount: the row is still that of the account the run read.
Target(j) == stored[j].key = reading[j].key /\ stored[j].region = reading[j].region

StoreReading(j) ==
  /\ reading[j].st = "got"
  /\ reading' = [reading EXCEPT ![j] = NoReading]
  /\ stored' = IF Target(j) THEN [stored EXCEPT ![j].used = reading[j].value, ![j].at = now] ELSE stored
  /\ UNCHANGED <<cached, now, moves>>

\* A query that fails, a run that is cut off.
EndReading(j) ==
  /\ reading[j].st # "none"
  /\ reading' = [reading EXCEPT ![j] = NoReading]
  /\ UNCHANGED <<stored, cached, now, moves>>

\* A saved configuration; an account that leaves its pool forgets what it read.
Move(j, key, region) ==
  LET next == [stored[j] EXCEPT !.key = key, !.region = region]
  IN /\ moves < MaxMoves /\ next # stored[j]
     /\ moves' = moves + 1
     /\ stored' = IF PoolKey(next) = PoolKey(stored[j]) THEN [stored EXCEPT ![j] = next]
                  ELSE Updated(stored, j, [next EXCEPT !.used = 0, !.at = 0])
     /\ UNCHANGED <<reading, cached, now>>

Passes ==
  /\ now + 1 \in Times
  /\ \A j \in DOMAIN reading : reading[j].st # "none" => now - reading[j].since < MaxRun
  /\ now' = now + 1
  /\ UNCHANGED <<stored, reading, cached, moves>>

ReadingNext ==
  \/ \E j \in DOMAIN stored :
       \/ BeginReading(j) \/ FromCache(j) \/ FromCloud(j) \/ CloudAnswers(j) \/ StoreReading(j) \/ EndReading(j)
       \/ \E key \in PoolKeys, region \in PoolRegions : Move(j, key, region)
  \/ Passes

ReadingSpec == ReadingInit /\ [][ReadingNext]_readingVars

-----------------------------------------------------------------------------
TooOld == {t \in 0..now : t = 0 \/ Months[t] # Months[now] \/ now - t > FreshFor}

(***************************************************************************)
(* What the dashboard shows of a class of regions, if it does not say that *)
(* the numbers are out of date or in conflict: for each pool, once, what   *)
(* the cloud has counted for it not longer ago than a reading counts as    *)
(* current, and two runs and the cache may delay it; never the count of    *)
(* another pool, whichever accounts have moved while they were being read  *)
(* (trafficOverviews, Summary, UpdateRuntimeForAccount, GetTraffic).  The  *)
(* strip's total is the sum, and a mixed quota never goes unnoticed.       *)
(***************************************************************************)
Recent == Max({1, now - (FreshFor + 2 * MaxRun + CacheFor - 1)})..now

OverviewTrue ==
  LET summaries == Summary(stored, TooOld)
      Shown(kind) == TrafficOverview(summaries, kind)
      Pools(kind) == {PoolKey(stored[j]) : j \in {k \in DOMAIN stored : TrafficClass(stored[k].region) = kind}}
  IN /\ \A kind \in {"china", "international"} :
          /\ Shown(kind).conflict <=> \E p \in Pools(kind) : QuotaConflict(stored, p)
          /\ (~Shown(kind).stale /\ ~Shown(kind).conflict) =>
               /\ \E f \in [Pools(kind) -> Recent] :
                    Shown(kind).used = MapThenSumSet(LAMBDA p : Usage[p][f[p]], Pools(kind))
               /\ \A quota \in [Pools(kind) -> {stored[j].quota : j \in DOMAIN stored}] :
                    (\A j \in DOMAIN stored : PoolKey(stored[j]) \in Pools(kind) =>
                        quota[PoolKey(stored[j])] = stored[j].quota) =>
                       Shown(kind).total = MapThenSumSet(LAMBDA p : quota[p], Pools(kind))
     /\ TotalPoolTraffic(summaries) = Shown("china").used + Shown("international").used
=============================================================================
