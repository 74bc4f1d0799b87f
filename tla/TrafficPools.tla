----------------------------- MODULE TrafficPools -----------------------------
(***************************************************************************)
(* The traffic pools as the console edits and shows them (traffic.ts) and  *)
(* as the server stores and summarises them (domain/traffic.go, Summary).  *)
(* Aliyun counts the traffic of all the instances of one AccessKey and one *)
(* class of regions together, so the instances of a pool share one quota   *)
(* and one reading.                                                        *)
(*                                                                         *)
(* An account of a draft is a record with at least the fields key, region, *)
(* inst and quota.  The module has operators only; it declares no state.   *)
(***************************************************************************)
EXTENDS Ordered, FiniteSetsExt, SequencesExt

CONSTANTS
  Mainland,      \* the regions of the mainland: cn-*, without cn-hongkong
  NoKey,         \* an AccessKey ID that has not been filled in
  ChinaQuota,    \* the default quota of a mainland pool, 20 GB
  AbroadQuota    \* the default quota of any other pool, 200 GB

TrafficClass(region) == IF region \in Mainland THEN "china" ELSE "international"

DefaultQuota(region) == IF TrafficClass(region) = "china" THEN ChinaQuota ELSE AbroadQuota

PoolKey(a) == <<a.key, TrafficClass(a.region)>>

\* An account without a key shares its pool with nobody.
SamePool(a, b) == b.key # NoKey /\ PoolKey(a) = PoolKey(b)

-----------------------------------------------------------------------------
(* Editing a draft.                                                        *)

(***************************************************************************)
(* Entry i of the draft becomes next.  An entry that moves to a pool takes *)
(* the quota of the first other entry of it, or the default of a new pool; *)
(* an entry that stays gives its quota to the pool.                        *)
(***************************************************************************)
Peers(accounts, i, next) == {j \in DOMAIN accounts \ {i} : SamePool(accounts[j], next)}

PoolQuota(accounts, i, next) ==
  IF PoolKey(accounts[i]) = PoolKey(next) THEN next.quota
  ELSE IF Peers(accounts, i, next) = {} THEN DefaultQuota(next.region)
  ELSE accounts[Min(Peers(accounts, i, next))].quota

\* Faulty: the rest of the pool keeps its quota.
UpdatedAlone(accounts, i, next) ==
  [accounts EXCEPT ![i] = [next EXCEPT !.quota = PoolQuota(accounts, i, next)]]

Updated(accounts, i, next) ==
  LET quota == PoolQuota(accounts, i, next)
  IN [j \in DOMAIN accounts |->
        IF j = i THEN [next EXCEPT !.quota = quota]
        ELSE IF j \in Peers(accounts, i, next) THEN [accounts[j] EXCEPT !.quota = quota]
        ELSE accounts[j]]

\* What identifies an instance in the cloud.
Identity(a) == <<a.region, a.inst>>

\* The quota an imported instance starts with: its pool's, or the default.
ImportQuota(accounts, key, region) ==
  LET peers == {j \in DOMAIN accounts :
                  accounts[j].key = key /\ TrafficClass(accounts[j].region) = TrafficClass(region)}
  IN IF peers = {} THEN DefaultQuota(region) ELSE accounts[Min(peers)].quota

(***************************************************************************)
(* One row for every instance, where it was first listed and as it was     *)
(* last listed.                                                            *)
(***************************************************************************)
MergeDiscovered(previous, incoming) ==
  LET all == previous \o incoming
      Listed(k) == {j \in DOMAIN all : Identity(all[j]) = Identity(all[k])}
      firsts == {k \in DOMAIN all : k = Min(Listed(k))}
      order == InOrder(firsts)
  IN [p \in DOMAIN order |-> all[Max(Listed(order[p]))]]

\* The discovered rows that the draft does not have yet, each once.
NewRows(accounts, rows) ==
  LET known == {Identity(accounts[j]) : j \in DOMAIN accounts}
      merged == MergeDiscovered(<<>>, rows)
  IN Chosen(merged, {p \in DOMAIN merged : Identity(merged[p]) \notin known})

-----------------------------------------------------------------------------
(* The pools of the dashboard.  A stored account also has the fields at,   *)
(* the time of its last reading or 0 for none, and used, what it read.     *)
(* A reading of a time in tooOld is stale.                                 *)

\* The row that speaks for a pool: the latest reading, then the smallest index.
LatestSample(accounts, pool) ==
  LET members == {j \in DOMAIN accounts : PoolKey(accounts[j]) = pool}
      latest == Max({accounts[j].at : j \in members})
  IN accounts[Min({j \in members : accounts[j].at = latest})]

QuotaConflict(accounts, pool) ==
  \E i, j \in DOMAIN accounts :
    /\ PoolKey(accounts[i]) = pool /\ PoolKey(accounts[j]) = pool
    /\ accounts[i].quota # accounts[j].quota

\* What the server answers for every account: its pool's reading, on its own quota.
Summary(accounts, tooOld) ==
  [j \in DOMAIN accounts |->
     LET pool == PoolKey(accounts[j])
         sample == LatestSample(accounts, pool)
     IN [id |-> j, pool |-> pool, class |-> TrafficClass(accounts[j].region),
         total |-> accounts[j].quota, used |-> sample.used, at |-> sample.at,
         stale |-> sample.at \in tooOld, conflict |-> QuotaConflict(accounts, pool)]]

\* The total of the metric strip: every pool counted once, by its first row.
TotalPoolTraffic(summaries) ==
  LET firsts == {j \in DOMAIN summaries :
                   \A k \in 1..(j - 1) : summaries[k].pool # summaries[j].pool}
  IN MapThenSumSet(LAMBDA j : summaries[j].used, firsts)

\* The row of a pool that the overview keeps: a later row only if its date is later.
PoolRow(summaries, pool) ==
  LET members == {j \in DOMAIN summaries : summaries[j].pool = pool}
      latest == Max({summaries[j].at : j \in members})
  IN summaries[Min({j \in members : summaries[j].at = latest})]

\* Faulty: every account counts.
TrafficOverviewByAccount(summaries, kind) ==
  LET mine == {j \in DOMAIN summaries : summaries[j].class = kind}
  IN [pools |-> Cardinality(mine),
      total |-> MapThenSumSet(LAMBDA j : summaries[j].total, mine),
      used |-> MapThenSumSet(LAMBDA j : summaries[j].used, mine),
      stale |-> \E j \in mine : summaries[j].stale,
      conflict |-> \E j \in mine : summaries[j].conflict]

TrafficOverview(summaries, kind) ==
  LET mine == {j \in DOMAIN summaries : summaries[j].class = kind}
      pools == {summaries[j].pool : j \in mine}
      Row(pool) == PoolRow(summaries, pool)
  IN [pools |-> Cardinality(pools),
      total |-> MapThenSumSet(LAMBDA p : Row(p).total, pools),
      used |-> MapThenSumSet(LAMBDA p : Row(p).used, pools),
      remaining |-> MapThenSumSet(LAMBDA p : Max({Row(p).total - Row(p).used, 0}), pools),
      stale |-> \E j \in mine : summaries[j].stale,
      conflict |-> \E i, j \in mine :
                     \/ summaries[j].conflict
                     \/ /\ summaries[i].pool = summaries[j].pool
                        /\ summaries[i].total # summaries[j].total]
=============================================================================
