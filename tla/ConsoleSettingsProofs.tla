------------------------- MODULE ConsoleSettingsProofs -------------------------
(***************************************************************************)
(* Proofs about the accounts as they are edited and saved: the draft keeps *)
(* one quota for each pool, a save leaves every entry in a row of its own  *)
(* with the secret of its key, and the console's configuration is what the *)
(* server holds.                                                           *)
(*                                                                         *)
(* The facts come in layers: what an edit does to a draft; what the loop   *)
(* over the entries of a draft leaves in the table; the types; the         *)
(* identifiers and the rows, which hold in every state; and what holds as  *)
(* long as no saves overlap.                                               *)
(***************************************************************************)
EXTENDS ConsoleSettings, TrafficPoolsProofs

DistinctIds(accounts) ==
  \A i, j \in DOMAIN accounts : accounts[i].id = accounts[j].id /\ accounts[i].id # 0 => i = j

(***************************************************************************)
(* What every edit of a draft keeps: its entries are entries, its pools    *)
(* have one quota, no two entries have one id, and no id is made up.       *)
(***************************************************************************)
EditOf(draft, old) ==
  /\ draft \in Seq(Entry)
  /\ SharedQuota(old) => SharedQuota(draft)
  /\ DistinctIds(old) => DistinctIds(draft)
  /\ \A j \in DOMAIN draft : draft[j].id # 0 => \E i \in DOMAIN old : draft[j].id = old[i].id

-----------------------------------------------------------------------------
(* The edits of a draft.                                                   *)

\* The default quotas are quotas.
LEMMA DefaultQuotaType == \A region : DefaultQuota(region) \in Quota
BY DEF DefaultQuota, Quota

\* The quota that an updated entry gets is a quota.
LEMMA PoolQuotaType ==
  ASSUME NEW accounts \in Seq(Entry), NEW i \in DOMAIN accounts, NEW next \in Entry
  PROVE  PoolQuota(accounts, i, next) \in Quota
<1>1. Peers(accounts, i, next) \subseteq DOMAIN accounts /\ DOMAIN accounts \subseteq Nat
  BY DomainOfSeq DEF Peers
<1>2. CASE Peers(accounts, i, next) # {}
  <2>1. Min(Peers(accounts, i, next)) \in DOMAIN accounts
    BY <1>1, <1>2, MinFact
  <2>2. accounts[Min(Peers(accounts, i, next))].quota \in Quota
    <3>1. accounts[Min(Peers(accounts, i, next))] \in Entry
      BY <2>1, DomainOfSeq
    <3>2. QED BY <3>1 DEF Entry
  <2>3. next.quota \in Quota
    BY DEF Entry
  <2>4. QED BY <2>2, <2>3, DefaultQuotaType DEF PoolQuota
<1>3. CASE Peers(accounts, i, next) = {}
  <2>1. next.quota \in Quota
    BY DEF Entry
  <2>2. QED BY <1>3, <2>1, DefaultQuotaType DEF PoolQuota
<1>4. QED BY <1>2, <1>3

(***************************************************************************)
(* An update keeps one quota for each pool, whatever becomes of the entry: *)
(* the entry and its peers get the same quota, and nobody else has their   *)
(* pool.                                                                   *)
(***************************************************************************)
LEMMA UpdatedShares ==
  ASSUME NEW accounts \in Seq(Entry), NEW i \in DOMAIN accounts, NEW next \in Entry,
         SharedQuota(accounts)
  PROVE  SharedQuota(Updated(accounts, i, next))
<1> DEFINE q == PoolQuota(accounts, i, next)
           new == Updated(accounts, i, next)
           peers == Peers(accounts, i, next)
<1>1. /\ DOMAIN new = DOMAIN accounts
      /\ new[i].key = next.key /\ new[i].region = next.region /\ new[i].quota = q
  BY DEF Updated, Entry
<1>2. \A j \in DOMAIN accounts \ {i} :
        /\ new[j].key = accounts[j].key /\ new[j].region = accounts[j].region
        /\ new[j].quota = IF j \in peers THEN q ELSE accounts[j].quota
  <2>1. SUFFICES ASSUME NEW j \in DOMAIN accounts \ {i}
                 PROVE  /\ new[j].key = accounts[j].key /\ new[j].region = accounts[j].region
                        /\ new[j].quota = IF j \in peers THEN q ELSE accounts[j].quota
    OBVIOUS
  <2>2. accounts[j] \in Entry
    BY DomainOfSeq
  <2>3. CASE j \in peers
    BY <2>2, <2>3 DEF Updated, Entry
  <2>4. CASE j \notin peers
    BY <2>2, <2>4 DEF Updated, Entry
  <2>5. QED BY <2>3, <2>4
<1>3. \A j \in DOMAIN accounts \ {i} :
        j \in peers <=> next.key # NoKey /\ PoolKey(accounts[j]) = PoolKey(next)
  BY DEF Peers, SamePool
<1> HIDE DEF new, peers, q
<1>4. SUFFICES ASSUME NEW a \in DOMAIN accounts, NEW b \in DOMAIN accounts, SamePool(new[a], new[b])
               PROVE  new[a].quota = new[b].quota
  BY <1>1 DEF SharedQuota, new
<1>5. /\ PoolKey(new[i]) = PoolKey(next)
      /\ \A j \in DOMAIN accounts \ {i} : PoolKey(new[j]) = PoolKey(accounts[j])
  BY <1>1, <1>2 DEF PoolKey
<1>6. CASE a = i
  BY <1>1, <1>2, <1>3, <1>4, <1>5, <1>6 DEF SamePool, PoolKey
<1>7. CASE a # i /\ b = i
  BY <1>1, <1>2, <1>3, <1>4, <1>5, <1>7 DEF SamePool, PoolKey
<1>8. CASE a # i /\ b # i
  <2>1. PoolKey(accounts[a]) = PoolKey(accounts[b]) /\ accounts[b].key # NoKey
    BY <1>2, <1>4, <1>5, <1>8 DEF SamePool
  <2>2. accounts[a].quota = accounts[b].quota
    BY <2>1 DEF SharedQuota, SamePool
  <2>3. a \in peers <=> b \in peers
    BY <1>3, <1>8, <2>1
  <2>4. QED BY <1>2, <1>8, <2>2, <2>3
<1>9. QED BY <1>6, <1>7, <1>8

\* An update that leaves the id alone is an edit.
LEMMA UpdatedEdit ==
  ASSUME NEW accounts \in Seq(Entry), NEW i \in DOMAIN accounts, NEW next \in Entry,
         next.id = accounts[i].id
  PROVE  EditOf(Updated(accounts, i, next), accounts)
<1> DEFINE q == PoolQuota(accounts, i, next)
           new == Updated(accounts, i, next)
<1>1. q \in Quota
  BY PoolQuotaType
<1>2. DOMAIN accounts = 1..Len(accounts) /\ Len(accounts) \in Nat /\ \A j \in DOMAIN accounts : accounts[j] \in Entry
  BY DomainOfSeq
<1>3. [next EXCEPT !.quota = q] \in Entry /\ [next EXCEPT !.quota = q].id = next.id
  BY <1>1 DEF Entry
<1>4. \A a \in Entry : [a EXCEPT !.quota = q] \in Entry /\ [a EXCEPT !.quota = q].id = a.id
  BY <1>1 DEF Entry
<1>5. \A j \in DOMAIN accounts : new[j] \in Entry /\ new[j].id = accounts[j].id
  BY <1>2, <1>3, <1>4 DEF Updated
<1>6. DOMAIN new = DOMAIN accounts /\ new \in Seq(Entry)
  <2>1. new \in [1..Len(accounts) -> Entry]
    BY <1>2, <1>5 DEF Updated
  <2>2. QED BY <1>2, <2>1
<1> HIDE DEF new, q
<1>7. SharedQuota(accounts) => SharedQuota(new)
  BY UpdatedShares DEF new
<1>8. DistinctIds(accounts) => DistinctIds(new)
  BY <1>5, <1>6 DEF DistinctIds
<1>9. EditOf(new, accounts)
  BY <1>5, <1>6, <1>7, <1>8 DEF EditOf
<1>10. QED BY <1>9 DEF new

(***************************************************************************)
(* A draft whose entries are entries of the old one, each at most once, or *)
(* new ones that share their pool with nobody or have its quota, is an     *)
(* edit: origin[j] is where entry j comes from, or 0.                      *)
(***************************************************************************)
LEMMA RearrangedEdit ==
  ASSUME NEW old \in Seq(Entry), NEW draft \in Seq(Entry), NEW origin \in [DOMAIN draft -> Nat],
         \A j \in DOMAIN draft :
           IF origin[j] = 0
           THEN draft[j].id = 0
           ELSE origin[j] \in DOMAIN old /\ draft[j].id = old[origin[j]].id,
         \A i, j \in DOMAIN draft : origin[i] = origin[j] /\ origin[i] # 0 => i = j,
         SharedQuota(old) => SharedQuota(draft)
  PROVE  EditOf(draft, old)
<1>1. ASSUME DistinctIds(old) PROVE DistinctIds(draft)
  <2>1. SUFFICES ASSUME NEW i \in DOMAIN draft, NEW j \in DOMAIN draft,
                        draft[i].id = draft[j].id, draft[i].id # 0
                 PROVE  i = j
    BY DEF DistinctIds
  <2>2. origin[i] # 0 /\ origin[j] # 0
    BY <2>1
  <2>3. origin[i] = origin[j]
    BY <1>1, <2>1, <2>2 DEF DistinctIds
  <2>4. QED BY <2>2, <2>3
<1>2. \A j \in DOMAIN draft : draft[j].id # 0 => \E i \in DOMAIN old : draft[j].id = old[i].id
  OBVIOUS
<1>3. QED BY <1>1, <1>2 DEF EditOf

\* Entries that agree with entries of a shared draft in key, region and quota share too.
LEMMA CopiesShare ==
  ASSUME NEW old, NEW draft, SharedQuota(old),
         \A j \in DOMAIN draft :
           \/ draft[j].key = NoKey
           \/ \E i \in DOMAIN old : /\ draft[j].key = old[i].key /\ draft[j].region = old[i].region
                                    /\ draft[j].quota = old[i].quota
  PROVE  SharedQuota(draft)
<1>1. SUFFICES ASSUME NEW a \in DOMAIN draft, NEW b \in DOMAIN draft, SamePool(draft[a], draft[b])
               PROVE  draft[a].quota = draft[b].quota
  BY DEF SharedQuota
<1>2. draft[b].key # NoKey /\ draft[a].key = draft[b].key
  BY <1>1 DEF SamePool, PoolKey
<1>3. PICK i \in DOMAIN old : /\ draft[a].key = old[i].key /\ draft[a].region = old[i].region
                              /\ draft[a].quota = old[i].quota
  BY <1>2
<1>4. PICK j \in DOMAIN old : /\ draft[b].key = old[j].key /\ draft[b].region = old[j].region
                              /\ draft[b].quota = old[j].quota
  BY <1>2
<1>5. SamePool(old[i], old[j])
  BY <1>1, <1>3, <1>4 DEF SamePool, PoolKey
<1>6. QED BY <1>3, <1>4, <1>5 DEF SharedQuota

\* The types of new and of copied entries.
LEMMA EmptyAccountType ==
  /\ EmptyAccount \in Entry /\ EmptyAccount.id = 0 /\ EmptyAccount.key = NoKey
BY SettingsAssumption DEF EmptyAccount, Entry, Quota

LEMMA CopiedFact ==
  ASSUME NEW a \in Entry
  PROVE  /\ Copied(a) \in Entry /\ Copied(a).id = 0
         /\ Copied(a).key = a.key /\ Copied(a).region = a.region /\ Copied(a).quota = a.quota
BY DEF Copied, Entry

\* The empty account at the end of the draft.
LEMMA AppendEdit ==
  ASSUME NEW old \in Seq(Entry)
  PROVE  EditOf(Append(old, EmptyAccount), old)
<1> DEFINE draft == Append(old, EmptyAccount)
           origin == [j \in DOMAIN draft |-> IF j = Len(old) + 1 THEN 0 ELSE j]
<1>1. /\ draft \in Seq(Entry) /\ Len(draft) = Len(old) + 1
      /\ \A j \in 1..Len(old) : draft[j] = old[j]
      /\ draft[Len(old) + 1] = EmptyAccount
  BY EmptyAccountType, AppendProperties
<1>2. Len(old) \in Nat /\ DOMAIN old = 1..Len(old) /\ DOMAIN draft = 1..(Len(old) + 1)
  BY <1>1, DomainOfSeq
<1> HIDE DEF draft
<1>3. origin \in [DOMAIN draft -> Nat]
  BY <1>2
<1>4. \A j \in DOMAIN draft : IF origin[j] = 0 THEN draft[j].id = 0
                              ELSE origin[j] \in DOMAIN old /\ draft[j].id = old[origin[j]].id
  BY <1>1, <1>2, EmptyAccountType
<1>5. \A i, j \in DOMAIN draft : origin[i] = origin[j] /\ origin[i] # 0 => i = j
  BY <1>2
<1>6. SharedQuota(old) => SharedQuota(draft)
  <2>1. ASSUME NEW j \in DOMAIN draft
        PROVE  draft[j].key = NoKey \/ (j \in DOMAIN old /\ draft[j] = old[j])
    <3>1. CASE j = Len(old) + 1
      BY <1>1, <3>1, EmptyAccountType
    <3>2. CASE j # Len(old) + 1
      BY <1>1, <1>2, <3>2
    <3>3. QED BY <3>1, <3>2
  <2>2. QED BY <2>1, CopiesShare
<1> HIDE DEF origin
<1>7. EditOf(draft, old)
  BY <1>1, <1>3, <1>4, <1>5, <1>6, RearrangedEdit
<1>8. QED BY <1>7 DEF draft

\* The draft without one of its entries.
LEMMA RemoveEdit ==
  ASSUME NEW old \in Seq(Entry), NEW i \in DOMAIN old
  PROVE  EditOf(RemoveAt(old, i), old)
<1> DEFINE draft == RemoveAt(old, i)
           origin == [j \in DOMAIN draft |-> IF j < i THEN j ELSE j + 1]
<1>1. Len(old) \in Nat /\ DOMAIN old = 1..Len(old) /\ i \in 1..Len(old)
  BY DomainOfSeq
<1>2. /\ draft \in Seq(Entry) /\ Len(draft) = Len(old) - 1
      /\ \A j \in 1..(Len(old) - 1) : draft[j] = IF j < i THEN old[j] ELSE old[j + 1]
  BY <1>1, RemoveAtFact
<1>3. DOMAIN draft = 1..(Len(old) - 1)
  BY <1>2, DomainOfSeq
<1> HIDE DEF draft
<1>4. origin \in [DOMAIN draft -> Nat]
  BY <1>1, <1>3
<1>5. \A j \in DOMAIN draft : origin[j] # 0 /\ origin[j] \in DOMAIN old /\ draft[j] = old[origin[j]]
  BY <1>1, <1>2, <1>3
<1>6. \A j, k \in DOMAIN draft : origin[j] = origin[k] => j = k
  BY <1>1, <1>3
<1> HIDE DEF origin
<1>7. SharedQuota(old) => SharedQuota(draft)
  BY <1>5, CopiesShare
<1>8. EditOf(draft, old)
  BY <1>2, <1>4, <1>5, <1>6, <1>7, RearrangedEdit
<1>9. QED BY <1>8 DEF draft

\* A draft with one entry more.
LEMMA EntryInserted ==
  ASSUME NEW old \in Seq(Entry), NEW p \in 1..(Len(old) + 1), NEW e \in Entry
  PROVE  /\ InsertAt(old, p, e) \in Seq(Entry)
         /\ Len(InsertAt(old, p, e)) = Len(old) + 1
         /\ \A j \in 1..(Len(old) + 1) :
              InsertAt(old, p, e)[j] = IF j < p THEN old[j] ELSE IF j = p THEN e ELSE old[j - 1]
BY InsertAtFact

\* The draft with a copy of one of its entries behind it.
LEMMA CloneEdit ==
  ASSUME NEW old \in Seq(Entry), NEW i \in DOMAIN old
  PROVE  EditOf(InsertAt(old, i + 1, Copied(old[i])), old)
<1> DEFINE draft == InsertAt(old, i + 1, Copied(old[i]))
           origin == [j \in DOMAIN draft |-> IF j < i + 1 THEN j ELSE IF j = i + 1 THEN 0 ELSE j - 1]
<1>1. Len(old) \in Nat /\ DOMAIN old = 1..Len(old) /\ i \in 1..Len(old) /\ old[i] \in Entry
  BY DomainOfSeq
<1>2. Copied(old[i]) \in Entry /\ i + 1 \in 1..(Len(old) + 1)
  BY <1>1, CopiedFact
<1>3. /\ draft \in Seq(Entry) /\ Len(draft) = Len(old) + 1
      /\ \A j \in 1..(Len(old) + 1) :
           draft[j] = IF j < i + 1 THEN old[j] ELSE IF j = i + 1 THEN Copied(old[i]) ELSE old[j - 1]
  <2>1. PICK e \in Entry : e = Copied(old[i])
    BY <1>2
  <2>2. PICK p \in 1..(Len(old) + 1) : p = i + 1
    BY <1>2
  <2>3. /\ InsertAt(old, p, e) \in Seq(Entry)
        /\ Len(InsertAt(old, p, e)) = Len(old) + 1
        /\ \A j \in 1..(Len(old) + 1) :
             InsertAt(old, p, e)[j] = IF j < p THEN old[j] ELSE IF j = p THEN e ELSE old[j - 1]
    BY EntryInserted
  <2>4. QED BY <2>1, <2>2, <2>3
<1>4. DOMAIN draft = 1..(Len(old) + 1)
  BY <1>3, DomainOfSeq
<1> HIDE DEF draft
<1>5. origin \in [DOMAIN draft -> Nat]
  BY <1>1, <1>4
<1>6. \A j \in DOMAIN draft :
        IF origin[j] = 0 THEN draft[j] = Copied(old[i])
        ELSE origin[j] \in DOMAIN old /\ draft[j] = old[origin[j]]
  BY <1>1, <1>3, <1>4
<1>7. \A j, k \in DOMAIN draft : origin[j] = origin[k] /\ origin[j] # 0 => j = k
  BY <1>1, <1>4
<1> HIDE DEF origin
<1>8. SharedQuota(old) => SharedQuota(draft)
  <2>1. \A j \in DOMAIN draft :
          \E k \in DOMAIN old : /\ draft[j].key = old[k].key /\ draft[j].region = old[k].region
                                /\ draft[j].quota = old[k].quota
    BY <1>1, <1>6, CopiedFact
  <2>2. QED BY <2>1, CopiesShare
<1>9. \A j \in DOMAIN draft :
        IF origin[j] = 0 THEN draft[j].id = 0
        ELSE origin[j] \in DOMAIN old /\ draft[j].id = old[origin[j]].id
  BY <1>1, <1>6, CopiedFact
<1>10. EditOf(draft, old)
  BY <1>3, <1>5, <1>7, <1>8, <1>9, RearrangedEdit
<1>11. QED BY <1>10 DEF draft

\* The quota of an imported instance is a quota; it is the one that its pool has in the draft.
LEMMA ImportQuotaFact ==
  ASSUME NEW old \in Seq(Entry), NEW key, NEW region
  PROVE  /\ ImportQuota(old, key, region) \in Quota
         /\ \A j \in DOMAIN old :
              SharedQuota(old) /\ old[j].key = key /\ key # NoKey /\ TrafficClass(old[j].region) = TrafficClass(region)
                => ImportQuota(old, key, region) = old[j].quota
<1> DEFINE peers == {j \in DOMAIN old : old[j].key = key /\ TrafficClass(old[j].region) = TrafficClass(region)}
<1>1. ImportQuota(old, key, region) = IF peers = {} THEN DefaultQuota(region) ELSE old[Min(peers)].quota
  BY DEF ImportQuota
<1>2. peers \subseteq Nat
  BY DomainOfSeq
<1>3. \A j \in peers : old[j].key = key /\ TrafficClass(old[j].region) = TrafficClass(region) /\ j \in DOMAIN old
  OBVIOUS
<1>4. \A j \in DOMAIN old : old[j].key = key /\ TrafficClass(old[j].region) = TrafficClass(region) => j \in peers
  OBVIOUS
<1> HIDE DEF peers
<1>5. CASE peers = {}
  BY <1>1, <1>4, <1>5, DefaultQuotaType
<1>6. CASE peers # {}
  <2>1. Min(peers) \in peers
    BY <1>2, <1>6, MinFact
  <2>2. old[Min(peers)] \in Entry
    BY <1>3, <2>1, DomainOfSeq
  <2>3. old[Min(peers)].quota \in Quota
    BY <2>2 DEF Entry
  <2>4. ASSUME NEW j \in DOMAIN old, SharedQuota(old), old[j].key = key, key # NoKey,
               TrafficClass(old[j].region) = TrafficClass(region)
        PROVE  old[Min(peers)].quota = old[j].quota
    <3>1. SamePool(old[Min(peers)], old[j])
      BY <1>3, <2>1, <2>4 DEF SamePool, PoolKey
    <3>2. QED BY <1>3, <2>1, <2>4, <3>1 DEF SharedQuota
  <2>5. QED BY <1>1, <1>6, <2>3, <2>4
<1>7. QED BY <1>5, <1>6

\* The entries of an import, under one credential.
LEMMA ImportedFact ==
  ASSUME NEW old \in Seq(Entry), NEW found \in Discovered, NEW cred \in Credential
  PROVE  LET new == Imported(old, found, cred)
         IN /\ new \in Seq(Entry) /\ cred.key # NoKey
            /\ \A j \in DOMAIN new : /\ new[j].id = 0 /\ new[j].key = cred.key
                                    /\ new[j].quota = ImportQuota(old, cred.key, new[j].region)
<1> DEFINE fresh == NewRows(old, found)
           new == Imported(old, found, cred)
<1>1. fresh \in Seq([region : Region, inst : Inst])
  BY StoredAssumption, NewRowsFact
<1>2. new = [j \in DOMAIN fresh |->
               [EmptyAccount EXCEPT !.key = cred.key, !.secret = cred.secret, !.region = fresh[j].region,
                                    !.inst = fresh[j].inst,
                                    !.quota = ImportQuota(old, cred.key, fresh[j].region)]]
  BY DEF Imported
<1> HIDE DEF fresh, new
<1>3. /\ DOMAIN fresh = 1..Len(fresh) /\ Len(fresh) \in Nat
      /\ \A j \in DOMAIN fresh : fresh[j].region \in Region /\ fresh[j].inst \in Inst
  <2>1. /\ DOMAIN fresh = 1..Len(fresh) /\ Len(fresh) \in Nat
        /\ \A j \in DOMAIN fresh : fresh[j] \in [region : Region, inst : Inst]
    BY <1>1, DomainOfSeq
  <2>2. QED BY <2>1
<1>4. cred.key \in Key /\ cred.secret \in Key \union {NoSecret} /\ cred.key # NoKey
  BY SettingsAssumption DEF Credential
<1>5. ASSUME NEW j \in DOMAIN fresh
      PROVE  /\ new[j] \in Entry /\ new[j].id = 0 /\ new[j].key = cred.key
             /\ new[j].quota = ImportQuota(old, cred.key, new[j].region)
  <2>1. PICK r \in Region, v \in Inst : r = fresh[j].region /\ v = fresh[j].inst
    BY <1>3
  <2>2. PICK q \in Quota : q = ImportQuota(old, cred.key, r)
    BY ImportQuotaFact
  <2>3. new[j] = [id |-> 0, key |-> cred.key, region |-> r, inst |-> v, quota |-> q,
                  secret |-> cred.secret, schedule |-> FALSE, at |-> 0]
    BY <1>2, <2>1, <2>2 DEF EmptyAccount
  <2>4. QED BY <1>4, <2>2, <2>3 DEF Entry
<1>6. new \in [1..Len(fresh) -> Entry]
  BY <1>2, <1>3, <1>5
<1>7. new \in Seq(Entry) /\ DOMAIN new = DOMAIN fresh
  BY <1>3, <1>6
<1>8. QED BY <1>4, <1>5, <1>7 DEF new

\* The draft with the entries of an import behind it.
LEMMA ImportEdit ==
  ASSUME NEW old \in Seq(Entry), NEW found \in Discovered, NEW cred \in Credential
  PROVE  EditOf(old \o Imported(old, found, cred), old)
<1> DEFINE new == Imported(old, found, cred)
           draft == old \o new
           origin == [j \in DOMAIN draft |-> IF j <= Len(old) THEN j ELSE 0]
<1>1. /\ new \in Seq(Entry) /\ cred.key # NoKey
      /\ \A j \in DOMAIN new : /\ new[j].id = 0 /\ new[j].key = cred.key
                              /\ new[j].quota = ImportQuota(old, cred.key, new[j].region)
  BY ImportedFact
<1> HIDE DEF new
<1>2. /\ draft \in Seq(Entry) /\ Len(draft) = Len(old) + Len(new)
      /\ \A j \in 1..(Len(old) + Len(new)) : draft[j] = IF j <= Len(old) THEN old[j] ELSE new[j - Len(old)]
  BY <1>1, ConcatProperties
<1>3. /\ Len(old) \in Nat /\ DOMAIN old = 1..Len(old) /\ Len(new) \in Nat /\ DOMAIN new = 1..Len(new)
      /\ DOMAIN draft = 1..(Len(old) + Len(new))
  BY <1>1, <1>2, DomainOfSeq
<1> HIDE DEF draft
<1>4. origin \in [DOMAIN draft -> Nat]
  BY <1>3
<1>5. ASSUME NEW j \in DOMAIN draft
      PROVE  IF origin[j] = 0
             THEN /\ draft[j].id = 0 /\ draft[j].key = cred.key
                  /\ draft[j].quota = ImportQuota(old, cred.key, draft[j].region)
             ELSE origin[j] \in DOMAIN old /\ draft[j] = old[origin[j]]
  <2>1. CASE j <= Len(old)
    BY <1>2, <1>3, <2>1
  <2>2. CASE ~(j <= Len(old))
    <3>1. j - Len(old) \in DOMAIN new /\ draft[j] = new[j - Len(old)]
      BY <1>2, <1>3, <2>2
    <3>2. QED BY <1>1, <2>2, <3>1
  <2>3. QED BY <2>1, <2>2
<1>6. \A i, j \in DOMAIN draft : origin[i] = origin[j] /\ origin[i] # 0 => i = j
  BY <1>3
<1> HIDE DEF origin
<1>7. ASSUME SharedQuota(old) PROVE SharedQuota(draft)
  <2>1. SUFFICES ASSUME NEW a \in DOMAIN draft, NEW b \in DOMAIN draft, SamePool(draft[a], draft[b])
                 PROVE  draft[a].quota = draft[b].quota
    BY DEF SharedQuota
  <2>2. /\ draft[b].key # NoKey /\ draft[a].key = draft[b].key
        /\ TrafficClass(draft[a].region) = TrafficClass(draft[b].region)
    BY <2>1 DEF SamePool, PoolKey
  <2>3. CASE origin[a] = 0 /\ origin[b] = 0
    <3>1. draft[a].quota = ImportQuota(old, cred.key, draft[a].region)
          /\ draft[b].quota = ImportQuota(old, cred.key, draft[b].region)
      BY <1>5, <2>3
    <3>2. QED BY <2>2, <3>1 DEF ImportQuota, DefaultQuota
  <2>4. CASE origin[a] = 0 /\ origin[b] # 0
    <3>1. /\ draft[a].key = cred.key /\ draft[a].quota = ImportQuota(old, cred.key, draft[a].region)
          /\ origin[b] \in DOMAIN old /\ draft[b] = old[origin[b]]
      BY <1>5, <2>4
    <3>2. /\ old[origin[b]].key = cred.key /\ cred.key # NoKey
          /\ TrafficClass(old[origin[b]].region) = TrafficClass(draft[a].region)
      BY <1>1, <2>2, <3>1
    <3>3. ImportQuota(old, cred.key, draft[a].region) = old[origin[b]].quota
      BY <1>7, <3>1, <3>2, ImportQuotaFact
    <3>4. QED BY <3>1, <3>3
  <2>5. CASE origin[a] # 0 /\ origin[b] = 0
    <3>1. /\ draft[b].key = cred.key /\ draft[b].quota = ImportQuota(old, cred.key, draft[b].region)
          /\ origin[a] \in DOMAIN old /\ draft[a] = old[origin[a]]
      BY <1>5, <2>5
    <3>2. /\ old[origin[a]].key = cred.key /\ cred.key # NoKey
          /\ TrafficClass(old[origin[a]].region) = TrafficClass(draft[b].region)
      BY <1>1, <2>2, <3>1
    <3>3. ImportQuota(old, cred.key, draft[b].region) = old[origin[a]].quota
      BY <1>7, <3>1, <3>2, ImportQuotaFact
    <3>4. QED BY <3>1, <3>3
  <2>6. CASE origin[a] # 0 /\ origin[b] # 0
    <3>1. /\ origin[a] \in DOMAIN old /\ draft[a] = old[origin[a]]
          /\ origin[b] \in DOMAIN old /\ draft[b] = old[origin[b]]
      BY <1>5, <2>6
    <3>2. QED BY <1>7, <2>1, <3>1 DEF SharedQuota
  <2>7. QED BY <2>3, <2>4, <2>5, <2>6
<1>8. EditOf(draft, old)
  <2>1. \A j \in DOMAIN draft : IF origin[j] = 0 THEN draft[j].id = 0
                                ELSE origin[j] \in DOMAIN old /\ draft[j].id = old[origin[j]].id
    BY <1>5
  <2>2. QED BY <1>2, <1>4, <1>6, <1>7, <2>1, RearrangedEdit
<1>9. QED BY <1>8 DEF draft, new

(***************************************************************************)
(* Every step that edits the draft makes an edit of it and changes nothing *)
(* but the draft and the number of edits.                                  *)
(***************************************************************************)
LEMMA DraftEditFact ==
  ASSUME DraftEdit, panel.draft \in Seq(Entry)
  PROVE  \E draft : EditOf(draft, panel.draft) /\ Edit(draft)
<1>1. ASSUME NEW i \in Entries, NEW next \in Entry, next.id = panel.draft[i].id, Change(i, next)
      PROVE  \E draft : EditOf(draft, panel.draft) /\ Edit(draft)
  BY <1>1, UpdatedEdit DEF Change, Entries
<1>2. \A i \in Entries : panel.draft[i] \in Entry
  BY DomainOfSeq DEF Entries
<1>3. CASE Add
  BY <1>3, AppendEdit DEF Add
<1>4. ASSUME NEW i \in Entries, RemoveEntry(i)
      PROVE  \E draft : EditOf(draft, panel.draft) /\ Edit(draft)
  BY <1>4, RemoveEdit DEF RemoveEntry, Entries
<1>5. ASSUME NEW i \in Entries, Clone(i)
      PROVE  \E draft : EditOf(draft, panel.draft) /\ Edit(draft)
  BY <1>5, CloneEdit DEF Clone, Entries
<1>6. ASSUME NEW i \in Entries, EditSecret(i)
      PROVE  \E draft : EditOf(draft, panel.draft) /\ Edit(draft)
  <2> DEFINE next == [panel.draft[i] EXCEPT !.secret = panel.draft[i].key]
  <2>1. next \in Entry /\ next.id = panel.draft[i].id
    BY <1>2, <1>6 DEF EditSecret, Entry
  <2>2. Change(i, next)
    BY <1>6 DEF EditSecret
  <2> HIDE DEF next
  <2>3. QED BY <1>1, <2>1, <2>2
<1>7. ASSUME NEW i \in Entries, NEW k \in Key \union {NoKey}, EditKey(i, k)
      PROVE  \E draft : EditOf(draft, panel.draft) /\ Edit(draft)
  <2> DEFINE next == [panel.draft[i] EXCEPT !.key = k]
  <2>1. next \in Entry /\ next.id = panel.draft[i].id
    BY <1>2 DEF Entry
  <2>2. Change(i, next)
    BY <1>7 DEF EditKey
  <2> HIDE DEF next
  <2>3. QED BY <1>1, <2>1, <2>2
<1>8. ASSUME NEW i \in Entries, NEW v \in Inst, EditInst(i, v)
      PROVE  \E draft : EditOf(draft, panel.draft) /\ Edit(draft)
  <2> DEFINE next == [panel.draft[i] EXCEPT !.inst = v]
  <2>1. next \in Entry /\ next.id = panel.draft[i].id
    BY <1>2 DEF Entry
  <2>2. Change(i, next)
    BY <1>8 DEF EditInst
  <2> HIDE DEF next
  <2>3. QED BY <1>1, <2>1, <2>2
<1>9. ASSUME NEW i \in Entries, NEW r \in Region, EditRegion(i, r)
      PROVE  \E draft : EditOf(draft, panel.draft) /\ Edit(draft)
  <2> DEFINE quota == IF TrafficClass(r) = TrafficClass(panel.draft[i].region)
                      THEN panel.draft[i].quota ELSE DefaultQuota(r)
             next == [panel.draft[i] EXCEPT !.region = r, !.quota = quota]
  <2>1. Change(i, next)
    BY <1>9 DEF EditRegion
  <2>2. quota \in Quota
    BY <1>2, DefaultQuotaType DEF Entry
  <2> HIDE DEF quota
  <2>3. next \in Entry /\ next.id = panel.draft[i].id
    BY <1>2, <2>2 DEF Entry
  <2> HIDE DEF next
  <2>4. QED BY <1>1, <2>1, <2>3
<1>10. ASSUME NEW i \in Entries, NEW q \in Typed, EditQuota(i, q)
       PROVE  \E draft : EditOf(draft, panel.draft) /\ Edit(draft)
  <2> DEFINE next == [panel.draft[i] EXCEPT !.quota = q]
  <2>1. next \in Entry /\ next.id = panel.draft[i].id
    BY <1>2 DEF Entry, Quota
  <2>2. Change(i, next)
    BY <1>10 DEF EditQuota
  <2> HIDE DEF next
  <2>3. QED BY <1>1, <2>1, <2>2
<1>11. ASSUME NEW found \in Discovered, NEW cred \in Credential, Import(found, cred)
       PROVE  \E draft : EditOf(draft, panel.draft) /\ Edit(draft)
  BY <1>11, ImportEdit DEF Import
<1>12. QED BY <1>3, <1>4, <1>5, <1>6, <1>7, <1>8, <1>9, <1>10, <1>11 DEF DraftEdit

-----------------------------------------------------------------------------
(* What a save leaves in the table.                                        *)

(***************************************************************************)
(* The entries of a draft are saved one after the other: done[n] is the    *)
(* table, the rows kept and the row of each entry after n of them.         *)
(***************************************************************************)
SaveSteps(draft, done) ==
  /\ done[0] = [rows |-> rows, kept |-> {}, at |-> <<>>]
  /\ \A n \in 1..Len(draft) : done[n] = SaveOne(draft, done[n - 1], draft[n])

\* The fold of the definition of Saved, as an equation on subsets of the entries.
SaveFold(draft, fold, entries) ==
  fold = [s \in SUBSET entries |->
            IF s = {} THEN [rows |-> rows, kept |-> {}, at |-> <<>>]
            ELSE SaveOne(draft, fold[s \ {Max(s)}], draft[Max(s)])]

\* The largest of the numbers up to n.
LEMMA MaxOfUpTo ==
  ASSUME NEW m \in Nat, NEW s, s \subseteq 1..m, s # {}
  PROVE  /\ Max(s) \in s /\ (m \in s => Max(s) = m)
<1>1. s \subseteq 0..m
  OBVIOUS
<1>2. Max(s) \in s /\ \A k \in s : k <= Max(s)
  BY <1>1, MaxFact
<1>3. Max(s) \in 1..m
  BY <1>2
<1>4. ASSUME m \in s PROVE Max(s) = m
  <2>1. m <= Max(s)
    BY <1>2, <1>4
  <2>2. QED BY <1>3, <2>1
<1>5. QED BY <1>2, <1>4

\* The equation has a solution for every number of entries, by induction.
LEMMA SaveFoldExists ==
  ASSUME NEW draft
  PROVE  \A m \in Nat : \E fold : SaveFold(draft, fold, 1..m)
<1> DEFINE S == {m \in Nat : \E fold : SaveFold(draft, fold, 1..m)}
           start == [rows |-> rows, kept |-> {}, at |-> <<>>]
<1>1. 0 \in S
  <2> DEFINE fold == [s \in SUBSET (1..0) |-> start]
  <2>1. \A s \in SUBSET (1..0) : s = {}
    OBVIOUS
  <2>2. SaveFold(draft, fold, 1..0)
    BY <2>1 DEF SaveFold
  <2> HIDE DEF fold
  <2>3. QED BY <2>2
<1>2. ASSUME NEW m \in Nat, m \in S PROVE m + 1 \in S
  <2>1. PICK f : SaveFold(draft, f, 1..m)
    BY <1>2
  <2> DEFINE fold == [s \in SUBSET (1..(m + 1)) |->
                        IF m + 1 \in s THEN SaveOne(draft, f[s \ {m + 1}], draft[m + 1]) ELSE f[s]]
  <2>2. \A s \in SUBSET (1..(m + 1)) : m + 1 \notin s => s \in SUBSET (1..m)
    OBVIOUS
  <2>3. \A s \in SUBSET (1..m) : s \in SUBSET (1..(m + 1)) /\ m + 1 \notin s /\ fold[s] = f[s]
    OBVIOUS
  <2>4. ASSUME NEW s \in SUBSET (1..(m + 1))
        PROVE  fold[s] = IF s = {} THEN start ELSE SaveOne(draft, fold[s \ {Max(s)}], draft[Max(s)])
    <3>1. CASE s = {}
      <4>1. s \in SUBSET (1..m) /\ fold[s] = f[s]
        BY <2>3, <3>1
      <4>2. f[s] = start
        BY <2>1, <3>1, <4>1 DEF SaveFold
      <4>3. QED BY <3>1, <4>1, <4>2
    <3>2. CASE m + 1 \in s
      <4>1. Max(s) = m + 1
        <5>1. m + 1 \in Nat /\ s \subseteq 1..(m + 1) /\ s # {}
          BY <3>2
        <5> HIDE DEF fold
        <5>2. QED BY <3>2, <5>1, MaxOfUpTo
      <4>2. s \ {m + 1} \in SUBSET (1..m)
        OBVIOUS
      <4>3. fold[s \ {m + 1}] = f[s \ {m + 1}]
        BY <2>3, <4>2
      <4>4. fold[s] = SaveOne(draft, f[s \ {m + 1}], draft[m + 1])
        BY <3>2
      <4> HIDE DEF fold
      <4>5. QED BY <3>2, <4>1, <4>3, <4>4
    <3>3. CASE s # {} /\ m + 1 \notin s
      <4>1. s \in SUBSET (1..m) /\ s \ {Max(s)} \in SUBSET (1..m)
        BY <2>2, <3>3
      <4>2. fold[s] = f[s] /\ fold[s \ {Max(s)}] = f[s \ {Max(s)}]
        BY <2>3, <4>1
      <4>3. f[s] = SaveOne(draft, f[s \ {Max(s)}], draft[Max(s)])
        BY <2>1, <3>3, <4>1 DEF SaveFold
      <4> HIDE DEF fold
      <4>4. QED BY <3>3, <4>2, <4>3
    <3>4. QED BY <3>1, <3>2, <3>3
  <2>5. SaveFold(draft, fold, 1..(m + 1))
    BY <2>4 DEF SaveFold
  <2> HIDE DEF fold
  <2>6. QED BY <2>5
<1> HIDE DEF S
<1>3. \A m \in Nat : m \in S
  BY <1>1, <1>2, InductiveSet
<1>4. QED BY <1>3 DEF S

\* The table after the save is the last of the steps, with the rows that were not kept deleted.
SavedFrom(draft, done, last) ==
  /\ SaveSteps(draft, done) /\ last = done[Len(draft)]
  /\ Saved(draft).at = last.at
  /\ Saved(draft).rows = [n \in DOMAIN last.rows |-> Saved(draft).rows[n]]
  /\ \A n \in DOMAIN last.rows :
       Saved(draft).rows[n] = [last.rows[n] EXCEPT !.live = last.rows[n].live /\ n \in last.kept]

\* Saved takes the entries one after the other.
LEMMA SavedFact ==
  ASSUME NEW draft \in Seq(Entry)
  PROVE  \E done, last : SavedFrom(draft, done, last)
<1> DEFINE fold == CHOOSE f : SaveFold(draft, f, DOMAIN draft)
           done == [n \in 0..Len(draft) |-> fold[1..n]]
           last == fold[DOMAIN draft]
<1>1. Len(draft) \in Nat /\ DOMAIN draft = 1..Len(draft)
  BY DomainOfSeq
<1>2. SaveFold(draft, fold, 1..Len(draft))
  BY <1>1, SaveFoldExists
<1>3. /\ Saved(draft).at = last.at
      /\ Saved(draft).rows = [n \in DOMAIN last.rows |->
           [last.rows[n] EXCEPT !.live = last.rows[n].live /\ n \in last.kept]]
  BY DEF Saved, FoldLeft, MapThenFoldSet, SaveFold
<1> HIDE DEF fold
<1>4. done[0] = [rows |-> rows, kept |-> {}, at |-> <<>>]
  <2>1. done[0] = fold[1..0] /\ 1..0 = {} /\ 1..0 \in SUBSET (1..Len(draft))
    BY <1>1
  <2>2. QED BY <1>2, <2>1 DEF SaveFold
<1>5. ASSUME NEW n \in 1..Len(draft)
      PROVE  done[n] = SaveOne(draft, done[n - 1], draft[n])
  <2>1. 1..n \in SUBSET (1..Len(draft)) /\ 1..n # {} /\ n \in Nat
    <3>1. n \in Nat /\ n <= Len(draft) /\ n \in 1..n
      BY <1>1
    <3>2. \A k \in 1..n : k \in 1..Len(draft)
      BY <1>1, <3>1
    <3>3. QED BY <3>1, <3>2
  <2>2. Max(1..n) = n
    BY <2>1, MaxOfUpTo
  <2>3. (1..n) \ {n} = 1..(n - 1)
    BY <2>1
  <2>4. fold[1..n] = SaveOne(draft, fold[(1..n) \ {Max(1..n)}], draft[Max(1..n)])
    BY <1>2, <2>1 DEF SaveFold
  <2>5. done[n] = fold[1..n] /\ done[n - 1] = fold[1..(n - 1)]
    BY <1>1
  <2> HIDE DEF done
  <2>6. QED BY <2>2, <2>3, <2>4, <2>5
<1>6. done[Len(draft)] = last
  BY <1>1
<1> HIDE DEF done, last
<1>7. SaveSteps(draft, done)
  BY <1>4, <1>5 DEF SaveSteps
<1>8. /\ Saved(draft).rows = [n \in DOMAIN last.rows |-> Saved(draft).rows[n]]
      /\ \A n \in DOMAIN last.rows :
           Saved(draft).rows[n] = [last.rows[n] EXCEPT !.live = last.rows[n].live /\ n \in last.kept]
  BY <1>3
<1>9. SavedFrom(draft, done, last)
  BY <1>3, <1>6, <1>7, <1>8 DEF SavedFrom
<1>10. QED BY <1>9


(***************************************************************************)
(* A row whose secret may still be missing, and the row that an entry is   *)
(* saved as.                                                               *)
(***************************************************************************)
AnyRow == [live : BOOLEAN, key : Key \union {NoKey}, region : Region, inst : Inst \union {NoInst},
           quota : Quota, secret : Key \union {NoSecret}, schedule : BOOLEAN]

RowFor(draft, a, found) ==
  [live |-> TRUE, key |-> a.key, region |-> a.region, inst |-> a.inst,
   quota |-> a.quota, secret |-> SecretOf(draft, a, found), schedule |-> a.schedule]

\* The live row m that an entry overwrites, or 0 for a new one.
Before(m) == IF m \in Live THEN m ELSE 0

\* The row that an entry is saved in: its own, its only twin's, or a new one.
Placed(a, m) ==
  \/ m \in Live /\ m = a.id
  \/ m \in Live /\ a.id = 0 /\ Twins(a) # {} /\ m = Max(Twins(a))
  \/ m \in Nat /\ m > Len(rows) /\ a.id \notin Live

LEMMA LiveFact ==
  ASSUME rows \in Seq(Row)
  PROVE  /\ Live \subseteq 1..Len(rows) /\ Live \subseteq Nat /\ 0 \notin Live /\ IsFiniteSet(Live)
         /\ Len(rows) \in Nat /\ DOMAIN rows = 1..Len(rows)
         /\ \A m \in DOMAIN rows : rows[m] \in Row
<1>1. Len(rows) \in Nat /\ DOMAIN rows = 1..Len(rows) /\ \A m \in DOMAIN rows : rows[m] \in Row
  BY DomainOfSeq
<1>2. Live \subseteq 1..Len(rows)
  BY <1>1 DEF Live
<1>3. IsFiniteSet(1..Len(rows))
  BY <1>1, FS_Interval
<1>4. Live \in SUBSET (1..Len(rows)) /\ Live \subseteq Nat /\ 0 \notin Live
  BY <1>1, <1>2
<1>5. IsFiniteSet(Live)
  BY <1>3, <1>4, FS_Subset
<1>6. QED BY <1>1, <1>4, <1>5

\* The largest twin is a live row with the key and the instance of the entry.
LEMMA TwinsFact ==
  ASSUME rows \in Seq(Row), NEW a, Twins(a) # {}
  PROVE  Max(Twins(a)) \in Live /\ Max(Twins(a)) \in Twins(a)
<1>1. Twins(a) \subseteq Live /\ Twins(a) \subseteq 0..Len(rows) /\ Len(rows) \in Nat
  BY LiveFact DEF Twins
<1>2. Max(Twins(a)) \in Twins(a)
  BY <1>1, MaxFact
<1>3. QED BY <1>1, <1>2

\* Where RowOf puts an entry.
LEMMA RowOfFact ==
  ASSUME rows \in Seq(Row), NEW a, NEW kept
  PROVE  \/ RowOf(a, kept) \in Live /\ RowOf(a, kept) = a.id
         \/ /\ RowOf(a, kept) \in Live /\ a.id = 0 /\ Twins(a) # {}
            /\ RowOf(a, kept) = Max(Twins(a)) /\ RowOf(a, kept) \notin kept
         \/ RowOf(a, kept) = 0 /\ a.id \notin Live
<1>1. Twins(a) # {} => Max(Twins(a)) \in Live
  BY TwinsFact
<1>2. QED BY <1>1 DEF RowOf

\* A typed secret of a key is one that was typed for it.
LEMMA TypedSecretFact ==
  ASSUME NEW draft \in Seq(Entry), NEW key, TypedSecret(draft, key) # NoSecret
  PROVE  \E j \in DOMAIN draft : /\ draft[j].key = key /\ draft[j].secret # NoSecret
                                 /\ TypedSecret(draft, key) = draft[j].secret
<1> DEFINE typed == {j \in DOMAIN draft : draft[j].key = key /\ draft[j].secret # NoSecret}
<1>1. TypedSecret(draft, key) = IF typed = {} THEN NoSecret ELSE draft[Min(typed)].secret
  BY DEF TypedSecret
<1>2. typed \subseteq Nat
  BY DomainOfSeq
<1>3. \A j \in typed : j \in DOMAIN draft /\ draft[j].key = key /\ draft[j].secret # NoSecret
  OBVIOUS
<1> HIDE DEF typed
<1>4. typed # {} /\ TypedSecret(draft, key) = draft[Min(typed)].secret
  BY <1>1
<1>5. Min(typed) \in typed
  BY <1>2, <1>4, MinFact
<1>6. QED BY <1>3, <1>4, <1>5

(***************************************************************************)
(* The secret that an entry is saved with: its own, one typed for its key, *)
(* the one of the row it overwrites, or the one of a row with its key.     *)
(***************************************************************************)
LEMMA SecretOfFact ==
  ASSUME rows \in Seq(Row), NEW draft \in Seq(Entry), NEW a \in Entry, NEW found, found = 0 \/ found \in Live
  PROVE  /\ SecretOf(draft, a, found) \in Key \union {NoSecret}
         /\ SecretOf(draft, a, found) # NoSecret =>
              \/ a.secret # NoSecret /\ SecretOf(draft, a, found) = a.secret
              \/ \E j \in DOMAIN draft : /\ draft[j].key = a.key /\ draft[j].secret # NoSecret
                                         /\ SecretOf(draft, a, found) = draft[j].secret
              \/ found # 0 /\ a.secret = NoSecret /\ SecretOf(draft, a, found) = rows[found].secret
              \/ \E n \in Live : rows[n].key = a.key /\ SecretOf(draft, a, found) = rows[n].secret
<1> DEFINE same == {n \in Live : rows[n].key = a.key}
           s == SecretOf(draft, a, found)
<1>1. s = IF a.secret # NoSecret THEN a.secret
          ELSE IF TypedSecret(draft, a.key) # NoSecret THEN TypedSecret(draft, a.key)
          ELSE IF found # 0 THEN rows[found].secret
          ELSE IF same # {} THEN rows[Min(same)].secret
          ELSE NoSecret
  BY DEF SecretOf
<1>2. same \subseteq Nat /\ \A n \in same : n \in Live /\ rows[n].key = a.key
  BY LiveFact
<1> HIDE DEF same, s
<1>3. a.secret \in Key \union {NoSecret} /\ \A j \in DOMAIN draft : draft[j].secret \in Key \union {NoSecret}
  <2>1. \A j \in DOMAIN draft : draft[j] \in Entry
    BY DomainOfSeq
  <2>2. QED BY <2>1 DEF Entry
<1>4. \A n \in Live : rows[n].secret \in Key
  <2>1. \A n \in Live : rows[n] \in Row
    BY LiveFact
  <2>2. QED BY <2>1 DEF Row
<1>5. CASE a.secret # NoSecret
  BY <1>1, <1>3, <1>5 DEF s
<1>6. CASE a.secret = NoSecret /\ TypedSecret(draft, a.key) # NoSecret
  <2>1. PICK j \in DOMAIN draft : /\ draft[j].key = a.key /\ draft[j].secret # NoSecret
                                  /\ TypedSecret(draft, a.key) = draft[j].secret
    BY <1>6, TypedSecretFact
  <2>2. QED BY <1>1, <1>3, <1>6, <2>1 DEF s
<1>7. CASE a.secret = NoSecret /\ TypedSecret(draft, a.key) = NoSecret /\ found # 0
  BY <1>1, <1>4, <1>7 DEF s
<1>8. CASE a.secret = NoSecret /\ TypedSecret(draft, a.key) = NoSecret /\ found = 0 /\ same # {}
  <2>1. Min(same) \in same
    BY <1>2, <1>8, MinFact
  <2>2. QED BY <1>1, <1>2, <1>4, <1>8, <2>1 DEF s
<1>9. CASE a.secret = NoSecret /\ TypedSecret(draft, a.key) = NoSecret /\ found = 0 /\ same = {}
  BY <1>1, <1>9 DEF s
<1>10. QED BY <1>5, <1>6, <1>7, <1>8, <1>9

LEMMA RowForType ==
  ASSUME rows \in Seq(Row), NEW draft \in Seq(Entry), NEW a \in Entry, NEW found, found = 0 \/ found \in Live
  PROVE  RowFor(draft, a, found) \in AnyRow
<1>1. SecretOf(draft, a, found) \in Key \union {NoSecret}
  BY SecretOfFact
<1>2. QED BY <1>1 DEF RowFor, AnyRow, Entry

(***************************************************************************)
(* The table d after n entries of the draft: the rows that are kept are    *)
(* those of the entries, each as the last entry in it was saved; the       *)
(* others are as before; and two entries share a row only if the later one *)
(* has the row's id.                                                       *)
(***************************************************************************)
SaveLoop(draft, d, n) ==
  /\ d.rows \in Seq(AnyRow) /\ d.at \in Seq(Nat)
  /\ Len(d.at) = n /\ Len(d.rows) >= Len(rows)
  /\ \A j \in 1..n : d.at[j] \in d.kept /\ Placed(draft[j], d.at[j])
  /\ \A m \in d.kept : /\ m \in 1..Len(d.rows)
                       /\ \E j \in 1..n : d.at[j] = m /\ d.rows[m] = RowFor(draft, draft[j], Before(m))
  /\ \A m \in 1..Len(d.rows) : m \notin d.kept => m \in 1..Len(rows) /\ d.rows[m] = rows[m]
  /\ \A i, j \in 1..n : i < j /\ d.at[i] = d.at[j] => d.at[j] \in Live /\ d.at[j] = draft[j].id

LEMMA SaveLoopStart ==
  ASSUME rows \in Seq(Row), NEW draft
  PROVE  SaveLoop(draft, [rows |-> rows, kept |-> {}, at |-> <<>>], 0)
<1>1. Row \subseteq AnyRow
  BY DEF Row, AnyRow
<1>2. rows \in Seq(AnyRow)
  BY <1>1, SeqMonotonic
<1>3. Len(rows) \in Nat /\ 1..0 = {}
  BY LiveFact
<1>4. <<>> \in Seq(Nat) /\ Len(<<>>) = 0
  OBVIOUS
<1>5. QED BY <1>2, <1>3, <1>4 DEF SaveLoop

\* What one entry changes: row m is written and kept, and is the row of the entry.
Writes(draft, d, a, after, m) ==
  /\ m \in Nat \ {0} /\ Placed(a, m)
  /\ m \in d.kept => m \in Live /\ m = a.id
  /\ after.kept = d.kept \union {m}
  /\ after.at = Append(d.at, m)
  /\ after.rows \in Seq(AnyRow)
  /\ Len(after.rows) >= Len(d.rows) /\ m \in 1..Len(after.rows)
  /\ \A k \in 1..Len(after.rows) :
       IF k = m THEN after.rows[k] = RowFor(draft, a, Before(m))
       ELSE k \in 1..Len(d.rows) /\ after.rows[k] = d.rows[k]

LEMMA SaveOneFact ==
  ASSUME rows \in Seq(Row), NEW draft \in Seq(Entry), NEW d, NEW n \in Nat, SaveLoop(draft, d, n),
         NEW a \in Entry
  PROVE  \E m \in Nat \ {0} : Writes(draft, d, a, SaveOne(draft, d, a), m)
<1> DEFINE found == RowOf(a, d.kept)
           row == RowFor(draft, a, found)
           m == IF found # 0 THEN found ELSE Len(d.rows) + 1
           next == IF found # 0 THEN [d.rows EXCEPT ![found] = row] ELSE Append(d.rows, row)
<1>1. SaveOne(draft, d, a) = [rows |-> next, kept |-> d.kept \union {m}, at |-> Append(d.at, m)]
  BY DEF SaveOne, RowFor
<1>2. \/ found \in Live /\ found = a.id
      \/ found \in Live /\ a.id = 0 /\ Twins(a) # {} /\ found = Max(Twins(a)) /\ found \notin d.kept
      \/ found = 0 /\ a.id \notin Live
  BY RowOfFact
<1>3. row \in AnyRow
  BY <1>2, RowForType
<1>4. /\ Live \subseteq 1..Len(rows) /\ Len(rows) \in Nat /\ 0 \notin Live
  BY LiveFact
<1>5. /\ d.rows \in Seq(AnyRow) /\ Len(d.rows) >= Len(rows) /\ Len(d.rows) \in Nat
      /\ \A k \in d.kept : k \in 1..Len(d.rows)
      /\ DOMAIN d.rows = 1..Len(d.rows)
  BY DomainOfSeq DEF SaveLoop
<1> HIDE DEF found, row
<1>6. CASE found \in Live
  <2>1. found # 0 /\ found \in 1..Len(d.rows) /\ m = found /\ m \in Nat \ {0}
    BY <1>4, <1>5, <1>6
  <2>2. /\ next \in Seq(AnyRow) /\ Len(next) = Len(d.rows)
        /\ \A k \in 1..Len(d.rows) : next[k] = IF k = m THEN row ELSE d.rows[k]
    BY <1>3, <1>5, <2>1, ExceptSeq
  <2>3. row = RowFor(draft, a, Before(m))
    BY <1>6, <2>1 DEF row, Before
  <2>4. Placed(a, m) /\ (m \in d.kept => m \in Live /\ m = a.id)
    BY <1>2, <1>4, <1>6, <2>1 DEF Placed
  <2> HIDE DEF m, next
  <2>5. Len(next) >= Len(d.rows) /\ m \in 1..Len(next)
    BY <1>5, <2>1, <2>2
  <2>6. \A k \in 1..Len(next) : IF k = m THEN next[k] = RowFor(draft, a, Before(m))
                                ELSE k \in 1..Len(d.rows) /\ next[k] = d.rows[k]
    BY <2>2, <2>3
  <2>7. Writes(draft, d, a, SaveOne(draft, d, a), m)
    BY <1>1, <2>1, <2>2, <2>4, <2>5, <2>6 DEF Writes
  <2>8. QED BY <2>1, <2>7
<1>7. CASE found = 0
  <2>1. m = Len(d.rows) + 1 /\ m \in Nat \ {0} /\ m > Len(rows) /\ m \notin Live
    BY <1>4, <1>5, <1>7
  <2>2. /\ next \in Seq(AnyRow) /\ Len(next) = Len(d.rows) + 1
        /\ \A k \in 1..Len(d.rows) : next[k] = d.rows[k]
        /\ next[Len(d.rows) + 1] = row
    BY <1>3, <1>5, <1>7, AppendProperties
  <2>3. row = RowFor(draft, a, Before(m))
    BY <1>7, <2>1 DEF row, Before
  <2>4. Placed(a, m) /\ m \notin d.kept
    BY <1>2, <1>4, <1>5, <1>7, <2>1 DEF Placed
  <2> HIDE DEF m, next
  <2>5. Len(next) >= Len(d.rows) /\ m \in 1..Len(next)
    BY <1>5, <2>1, <2>2
  <2>6. ASSUME NEW k \in 1..Len(next)
        PROVE  IF k = m THEN next[k] = RowFor(draft, a, Before(m))
               ELSE k \in 1..Len(d.rows) /\ next[k] = d.rows[k]
    <3>1. k = m \/ k \in 1..Len(d.rows)
      BY <1>5, <2>1, <2>2
    <3>2. k \in 1..Len(d.rows) => k # m
      BY <1>5, <2>1
    <3>3. next[m] = RowFor(draft, a, Before(m))
      BY <2>1, <2>2, <2>3
    <3>4. QED BY <2>2, <3>1, <3>2, <3>3
  <2>7. Writes(draft, d, a, SaveOne(draft, d, a), m)
    <3>1. PICK after : after = SaveOne(draft, d, a)
      OBVIOUS
    <3>2. after.rows = next /\ after.kept = d.kept \union {m} /\ after.at = Append(d.at, m)
      BY <1>1, <3>1
    <3>3. Writes(draft, d, a, after, m)
      BY <2>1, <2>2, <2>4, <2>5, <2>6, <3>2 DEF Writes
    <3>4. QED BY <3>1, <3>3
  <2>8. QED BY <2>1, <2>7
<1>8. QED BY <1>2, <1>6, <1>7

LEMMA SaveLoopStep ==
  ASSUME rows \in Seq(Row), NEW draft \in Seq(Entry), NEW d, NEW n \in Nat, n + 1 \in 1..Len(draft),
         SaveLoop(draft, d, n)
  PROVE  SaveLoop(draft, SaveOne(draft, d, draft[n + 1]), n + 1)
<1>1. draft[n + 1] \in Entry
  BY DomainOfSeq
<1>2. PICK a \in Entry : a = draft[n + 1]
  BY <1>1
<1>3. PICK e : e = SaveOne(draft, d, a)
  OBVIOUS
<1>4. PICK m \in Nat \ {0} : Writes(draft, d, a, e, m)
  BY <1>3, SaveOneFact
<1>5. /\ d.at \in Seq(Nat) /\ Len(d.at) = n /\ Len(d.rows) >= Len(rows) /\ d.rows \in Seq(AnyRow)
      /\ Len(d.rows) \in Nat /\ Len(rows) \in Nat
  BY DomainOfSeq DEF SaveLoop
<1>6. /\ e.rows \in Seq(AnyRow) /\ Len(e.rows) >= Len(d.rows) /\ Len(e.rows) \in Nat
      /\ e.kept = d.kept \union {m} /\ m \in 1..Len(e.rows)
  BY <1>4, DomainOfSeq DEF Writes
<1>7. /\ e.at \in Seq(Nat) /\ Len(e.at) = n + 1
      /\ \A j \in 1..n : e.at[j] = d.at[j]
      /\ e.at[n + 1] = m
  BY <1>4, <1>5, AppendProperties DEF Writes
<1>8. \A k \in 1..Len(e.rows) :
        IF k = m THEN e.rows[k] = RowFor(draft, a, Before(m))
        ELSE k \in 1..Len(d.rows) /\ e.rows[k] = d.rows[k]
  BY <1>4 DEF Writes
<1>9. ASSUME NEW j \in 1..(n + 1)
      PROVE  e.at[j] \in e.kept /\ Placed(draft[j], e.at[j])
  <2>1. CASE j = n + 1
    BY <1>2, <1>4, <1>6, <1>7, <2>1 DEF Writes
  <2>2. CASE j \in 1..n
    BY <1>6, <1>7, <2>2 DEF SaveLoop
  <2>3. QED BY <2>1, <2>2
<1>10. ASSUME NEW k \in e.kept
       PROVE  /\ k \in 1..Len(e.rows)
              /\ \E j \in 1..(n + 1) : e.at[j] = k /\ e.rows[k] = RowFor(draft, draft[j], Before(k))
  <2>1. CASE k = m
    <3>1. n + 1 \in 1..(n + 1) /\ e.at[n + 1] = k /\ e.rows[k] = RowFor(draft, draft[n + 1], Before(k))
      BY <1>2, <1>6, <1>7, <1>8, <2>1
    <3>2. QED BY <1>6, <2>1, <3>1
  <2>2. CASE k # m
    <3>1. k \in d.kept
      BY <1>6, <2>2
    <3>2. k \in 1..Len(d.rows)
      BY <3>1 DEF SaveLoop
    <3>3. PICK j \in 1..n : d.at[j] = k /\ d.rows[k] = RowFor(draft, draft[j], Before(k))
      BY <3>1 DEF SaveLoop
    <3>4. k \in 1..Len(e.rows) /\ e.rows[k] = d.rows[k]
      <4>1. k \in 1..Len(e.rows)
        BY <1>5, <1>6, <3>2
      <4>2. QED BY <1>8, <2>2, <4>1
    <3>5. j \in 1..(n + 1)
      OBVIOUS
    <3>6. e.at[j] = k /\ e.rows[k] = RowFor(draft, draft[j], Before(k))
      BY <1>7, <3>3, <3>4
    <3>7. QED BY <3>4, <3>5, <3>6
  <2>3. QED BY <2>1, <2>2
<1>11. ASSUME NEW k \in 1..Len(e.rows), k \notin e.kept
       PROVE  k \in 1..Len(rows) /\ e.rows[k] = rows[k]
  <2>1. k # m /\ k \notin d.kept
    BY <1>6, <1>11
  <2>2. k \in 1..Len(d.rows) /\ e.rows[k] = d.rows[k]
    BY <1>8, <2>1
  <2>3. k \in 1..Len(rows) /\ d.rows[k] = rows[k]
    BY <2>1, <2>2 DEF SaveLoop
  <2>4. QED BY <2>2, <2>3
<1>12. ASSUME NEW i \in 1..(n + 1), NEW j \in 1..(n + 1), i < j, e.at[i] = e.at[j]
       PROVE  e.at[j] \in Live /\ e.at[j] = draft[j].id
  <2>1. i \in 1..n
    BY <1>12
  <2>2. CASE j = n + 1
    <3>1. d.at[i] \in d.kept /\ d.at[i] = m
      BY <1>7, <1>12, <2>1, <2>2 DEF SaveLoop
    <3>2. QED BY <1>2, <1>4, <1>7, <2>2, <3>1 DEF Writes
  <2>3. CASE j \in 1..n
    <3>1. d.at[i] = d.at[j] /\ e.at[j] = d.at[j]
      BY <1>7, <1>12, <2>1, <2>3
    <3>2. d.at[j] \in Live /\ d.at[j] = draft[j].id
      BY <1>12, <2>1, <2>3, <3>1 DEF SaveLoop
    <3>3. QED BY <3>1, <3>2
  <2>4. j \in 1..n \/ j = n + 1
    OBVIOUS
  <2>5. QED BY <2>2, <2>3, <2>4
<1>13. SaveLoop(draft, e, n + 1)
  <2>1. /\ e.rows \in Seq(AnyRow) /\ e.at \in Seq(Nat)
        /\ Len(e.at) = n + 1 /\ Len(e.rows) >= Len(rows)
    BY <1>5, <1>6, <1>7
  <2>2. \A k \in 1..Len(e.rows) : k \notin e.kept => k \in 1..Len(rows) /\ e.rows[k] = rows[k]
    BY <1>11
  <2>3. QED BY <1>9, <1>10, <1>12, <2>1, <2>2 DEF SaveLoop
<1>14. QED BY <1>2, <1>3, <1>13

\* The loop over all the entries, by induction.
LEMMA SaveLoopFact ==
  ASSUME rows \in Seq(Row), NEW draft \in Seq(Entry), NEW done, SaveSteps(draft, done)
  PROVE  SaveLoop(draft, done[Len(draft)], Len(draft))
<1> DEFINE S == {n \in Nat : n <= Len(draft) => SaveLoop(draft, done[n], n)}
<1>1. Len(draft) \in Nat
  OBVIOUS
<1>2. 0 \in S
  BY SaveLoopStart DEF SaveSteps
<1>3. ASSUME NEW n \in Nat, n \in S PROVE n + 1 \in S
  <2>1. CASE n + 1 <= Len(draft)
    <3>1. n + 1 \in 1..Len(draft) /\ SaveLoop(draft, done[n], n)
      BY <1>1, <1>3, <2>1
    <3>2. done[n + 1] = SaveOne(draft, done[n], draft[n + 1])
      <4>1. PICK k \in 1..Len(draft) : k = n + 1
        BY <3>1
      <4>2. done[k] = SaveOne(draft, done[k - 1], draft[k])
        BY DEF SaveSteps
      <4>3. k - 1 = n
        BY <4>1
      <4>4. QED BY <4>1, <4>2, <4>3
    <3>3. SaveLoop(draft, done[n + 1], n + 1)
      BY <3>1, <3>2, SaveLoopStep
    <3>4. QED BY <3>3
  <2>2. CASE ~(n + 1 <= Len(draft))
    BY <2>2
  <2>3. QED BY <2>1, <2>2
<1>4. Len(draft) \in S
  <2> HIDE DEF S
  <2>1. QED BY <1>1, <1>2, <1>3, InductiveSet
<1>5. QED BY <1>1, <1>4

(***************************************************************************)
(* What a save leaves: the live rows are those of the entries, each holds  *)
(* an entry that was saved in it, and every other row is one of before,    *)
(* deleted.                                                                *)
(***************************************************************************)
LiveOf(table) == {n \in DOMAIN table : table[n].live}

SaveResult(draft, after) ==
  /\ after.rows \in Seq(AnyRow) /\ after.at \in Seq(Nat) /\ Len(after.at) = Len(draft)
  /\ \A j \in DOMAIN draft : after.at[j] \in LiveOf(after.rows) /\ Placed(draft[j], after.at[j])
  /\ \A m \in LiveOf(after.rows) :
       \E j \in DOMAIN draft : after.at[j] = m /\ after.rows[m] = RowFor(draft, draft[j], Before(m))
  /\ \A m \in DOMAIN after.rows :
       m \notin LiveOf(after.rows) => m \in DOMAIN rows /\ after.rows[m] = [rows[m] EXCEPT !.live = FALSE]
  /\ \A i, j \in DOMAIN draft :
       i < j /\ after.at[i] = after.at[j] => after.at[j] \in Live /\ after.at[j] = draft[j].id

LEMMA SaveFact ==
  ASSUME rows \in Seq(Row), NEW draft \in Seq(Entry)
  PROVE  SaveResult(draft, Saved(draft))
<1>1. PICK done, last : SavedFrom(draft, done, last)
  BY SavedFact
<1>2. SaveLoop(draft, last, Len(draft))
  BY <1>1, SaveLoopFact DEF SavedFrom
<1>3. PICK after : after = Saved(draft)
  OBVIOUS
<1>4. /\ after.at = last.at
      /\ after.rows = [n \in DOMAIN last.rows |-> after.rows[n]]
      /\ \A n \in DOMAIN last.rows :
           after.rows[n] = [last.rows[n] EXCEPT !.live = last.rows[n].live /\ n \in last.kept]
  BY <1>1, <1>3 DEF SavedFrom
<1>5. /\ last.rows \in Seq(AnyRow) /\ Len(last.rows) \in Nat /\ DOMAIN last.rows = 1..Len(last.rows)
      /\ \A m \in DOMAIN last.rows : last.rows[m] \in AnyRow
      /\ Len(draft) \in Nat /\ DOMAIN draft = 1..Len(draft)
  BY <1>2, DomainOfSeq DEF SaveLoop
<1>6. DOMAIN after.rows = 1..Len(last.rows)
  BY <1>4, <1>5
<1>7. ASSUME NEW m \in DOMAIN after.rows
      PROVE  /\ after.rows[m] \in AnyRow
             /\ after.rows[m].live <=> last.rows[m].live /\ m \in last.kept
             /\ after.rows[m] = [last.rows[m] EXCEPT !.live = last.rows[m].live /\ m \in last.kept]
  <2>1. /\ last.rows[m] \in AnyRow
        /\ after.rows[m] = [last.rows[m] EXCEPT !.live = last.rows[m].live /\ m \in last.kept]
    BY <1>4, <1>5, <1>6
  <2>2. (last.rows[m].live /\ m \in last.kept) \in BOOLEAN
    OBVIOUS
  <2>3. QED BY <2>1, <2>2 DEF AnyRow
<1>8. after.rows \in Seq(AnyRow)
  <2>1. after.rows = [n \in 1..Len(last.rows) |-> after.rows[n]]
    BY <1>4, <1>5
  <2>2. \A n \in 1..Len(last.rows) : after.rows[n] \in AnyRow
    BY <1>6, <1>7
  <2>3. after.rows \in [1..Len(last.rows) -> AnyRow]
    BY <2>1, <2>2
  <2>4. PICK n \in Nat : n = Len(last.rows)
    BY <1>5
  <2>5. after.rows \in [1..n -> AnyRow]
    BY <2>3, <2>4
  <2>6. QED BY <2>5
<1>9. \A m \in last.kept :
        /\ m \in DOMAIN after.rows
        /\ \E j \in DOMAIN draft : last.at[j] = m /\ last.rows[m] = RowFor(draft, draft[j], Before(m))
  BY <1>2, <1>5, <1>6 DEF SaveLoop
<1>10. \A m \in last.kept : after.rows[m].live /\ after.rows[m] = last.rows[m]
  <2>1. SUFFICES ASSUME NEW m \in last.kept PROVE after.rows[m].live /\ after.rows[m] = last.rows[m]
    OBVIOUS
  <2>2. m \in DOMAIN after.rows
    BY <1>9
  <2>3. PICK j \in DOMAIN draft : last.rows[m] = RowFor(draft, draft[j], Before(m))
    BY <1>9
  <2>4. last.rows[m].live = TRUE
    BY <2>3 DEF RowFor
  <2>5. last.rows[m] \in AnyRow
    BY <1>5, <1>6, <2>2
  <2>6. after.rows[m] = [last.rows[m] EXCEPT !.live = TRUE]
    BY <1>7, <2>2, <2>4
  <2>7. PICK row \in AnyRow : row = last.rows[m]
    BY <2>5
  <2>8. [row EXCEPT !.live = TRUE] = row
    BY <2>4, <2>7 DEF AnyRow
  <2>9. QED BY <2>4, <2>6, <2>7, <2>8
<1>11. LiveOf(after.rows) = last.kept
  BY <1>7, <1>9, <1>10 DEF LiveOf
<1>12. ASSUME NEW m \in DOMAIN after.rows, m \notin last.kept
       PROVE  m \in DOMAIN rows /\ after.rows[m] = [rows[m] EXCEPT !.live = FALSE]
  <2>1. m \in 1..Len(rows) /\ last.rows[m] = rows[m]
    BY <1>2, <1>6, <1>12 DEF SaveLoop
  <2>2. after.rows[m] = [rows[m] EXCEPT !.live = FALSE]
    BY <1>7, <1>12, <2>1
  <2>3. QED BY <2>1, <2>2, LiveFact
<1>13. \A j \in DOMAIN draft : last.at[j] \in last.kept /\ Placed(draft[j], last.at[j])
  BY <1>2, <1>5 DEF SaveLoop
<1>14. \A i, j \in DOMAIN draft :
         i < j /\ last.at[i] = last.at[j] => last.at[j] \in Live /\ last.at[j] = draft[j].id
  BY <1>2, <1>5 DEF SaveLoop
<1>15. last.at \in Seq(Nat) /\ Len(last.at) = Len(draft)
  BY <1>2 DEF SaveLoop
<1>16. SaveResult(draft, after)
  <2>1. \A j \in DOMAIN draft : after.at[j] \in LiveOf(after.rows) /\ Placed(draft[j], after.at[j])
    BY <1>4, <1>11, <1>13
  <2>2. \A m \in LiveOf(after.rows) :
          \E j \in DOMAIN draft : after.at[j] = m /\ after.rows[m] = RowFor(draft, draft[j], Before(m))
    <3>1. SUFFICES ASSUME NEW m \in last.kept
                   PROVE  \E j \in DOMAIN draft : last.at[j] = m /\ after.rows[m] = RowFor(draft, draft[j], Before(m))
      BY <1>4, <1>11
    <3>2. after.rows[m] = last.rows[m]
      BY <1>10
    <3>3. QED BY <1>9, <3>2
  <2>3. \A m \in DOMAIN after.rows :
          m \notin LiveOf(after.rows) => m \in DOMAIN rows /\ after.rows[m] = [rows[m] EXCEPT !.live = FALSE]
    BY <1>11, <1>12
  <2>4. \A i, j \in DOMAIN draft :
          i < j /\ after.at[i] = after.at[j] => after.at[j] \in Live /\ after.at[j] = draft[j].id
    BY <1>4, <1>14
  <2>5. after.at \in Seq(Nat) /\ Len(after.at) = Len(draft)
    BY <1>4, <1>15
  <2>6. QED BY <1>8, <2>1, <2>2, <2>3, <2>4, <2>5 DEF SaveResult
<1>17. QED BY <1>3, <1>16

-----------------------------------------------------------------------------
(* The types.                                                              *)

\* What an accepted save leaves are complete rows.
LEMMA AcceptedRows ==
  ASSUME rows \in Seq(Row), NEW draft \in Seq(Entry), Accepted(draft)
  PROVE  Saved(draft).rows \in Seq(Row)
<1>1. PICK after : after = Saved(draft)
  OBVIOUS
<1>2. SaveResult(draft, after)
  BY <1>1, SaveFact
<1>3. /\ \A j \in DOMAIN draft : draft[j].key # NoKey
      /\ \A j \in DOMAIN after.at : after.rows[after.at[j]].secret # NoSecret
  BY <1>1 DEF Accepted
<1>4. /\ after.rows \in Seq(AnyRow) /\ DOMAIN after.rows = 1..Len(after.rows) /\ Len(after.rows) \in Nat
      /\ \A m \in DOMAIN after.rows : after.rows[m] \in AnyRow
      /\ DOMAIN after.at = DOMAIN draft
  BY <1>2, DomainOfSeq DEF SaveResult
<1>5. ASSUME NEW m \in DOMAIN after.rows PROVE after.rows[m] \in Row
  <2>1. CASE m \in LiveOf(after.rows)
    <3>1. PICK j \in DOMAIN draft : after.at[j] = m /\ after.rows[m] = RowFor(draft, draft[j], Before(m))
      BY <1>2, <2>1 DEF SaveResult
    <3>2. after.rows[m].key # NoKey /\ after.rows[m].secret # NoSecret
      BY <1>3, <1>4, <3>1 DEF RowFor
    <3>3. QED BY <1>4, <3>2 DEF AnyRow, Row
  <2>2. CASE m \notin LiveOf(after.rows)
    <3>1. m \in DOMAIN rows /\ after.rows[m] = [rows[m] EXCEPT !.live = FALSE]
      BY <1>2, <2>2 DEF SaveResult
    <3>2. rows[m] \in Row
      BY <3>1, LiveFact
    <3>3. QED BY <3>1, <3>2 DEF Row
  <2>3. QED BY <2>1, <2>2
<1>6. PICK n \in Nat : n = Len(after.rows)
  BY <1>4
<1>7. after.rows = [m \in 1..n |-> after.rows[m]] /\ \A m \in 1..n : after.rows[m] \in Row
  <2>1. DOMAIN after.rows = 1..n
    BY <1>4, <1>6
  <2>2. after.rows = [m \in 1..n |-> after.rows[m]]
    <3>1. PICK table \in Seq(AnyRow) : table = after.rows
      BY <1>4
    <3>2. table \in [1..n -> AnyRow]
      BY <1>6, <3>1
    <3>3. table = [m \in 1..n |-> table[m]]
      BY <3>2
    <3>4. QED BY <3>1, <3>3
  <2>3. QED BY <1>5, <2>1, <2>2
<1>8. after.rows \in [1..n -> Row]
  BY <1>7
<1>9. QED BY <1>1, <1>8

(***************************************************************************)
(* What a page reads: an entry for every live row, under the id of the row *)
(* and as the row holds it.                                                *)
(***************************************************************************)
LEMMA LoadedFact ==
  ASSUME rows \in Seq(Row)
  PROVE  /\ Loaded \in Seq(Entry) /\ Len(Loaded) = Cardinality(Live)
         /\ \A j \in DOMAIN Loaded :
              /\ Loaded[j].id \in Live /\ Loaded[j].at = Loaded[j].id
              /\ Holds(rows[Loaded[j].id], Loaded[j])
         /\ DistinctIds(Loaded)
<1> DEFINE ids == InOrder(Live)
           N == Cardinality(Live)
<1>1. /\ N \in Nat /\ ids \in [1..N -> Live]
      /\ \A p, q \in 1..N : p < q => ids[p] < ids[q]
  BY LiveFact, InOrderFact
<1>2. Loaded = [j \in 1..N |->
                  [id |-> ids[j], key |-> rows[ids[j]].key, region |-> rows[ids[j]].region,
                   inst |-> rows[ids[j]].inst, quota |-> rows[ids[j]].quota, secret |-> NoSecret,
                   schedule |-> rows[ids[j]].schedule, at |-> ids[j]]]
  BY <1>1 DEF Loaded
<1> HIDE DEF ids, N
<1>3. ASSUME NEW j \in 1..N
      PROVE  /\ Loaded[j] \in Entry /\ Loaded[j].id = ids[j] /\ Loaded[j].id \in Live
             /\ Loaded[j].at = Loaded[j].id /\ Holds(rows[Loaded[j].id], Loaded[j])
  <2>1. PICK m \in Live : m = ids[j]
    BY <1>1
  <2>2. rows[m] \in Row /\ rows[m].live /\ m \in Nat
    BY LiveFact DEF Live
  <2>3. Loaded[j] = [id |-> m, key |-> rows[m].key, region |-> rows[m].region, inst |-> rows[m].inst,
                     quota |-> rows[m].quota, secret |-> NoSecret, schedule |-> rows[m].schedule, at |-> m]
    BY <1>2, <2>1
  <2>4. Loaded[j] \in Entry
    BY <2>2, <2>3 DEF Row, Entry
  <2>5. Holds(rows[m], Loaded[j])
    BY <2>2, <2>3 DEF Holds, Identity
  <2>6. QED BY <2>1, <2>3, <2>4, <2>5
<1>4. Loaded \in [1..N -> Entry]
  BY <1>2, <1>3
<1>5. Loaded \in Seq(Entry) /\ Len(Loaded) = N /\ DOMAIN Loaded = 1..N
  BY <1>1, <1>4, <1>2
<1>6. DistinctIds(Loaded)
  <2>1. SUFFICES ASSUME NEW i \in 1..N, NEW j \in 1..N, ids[i] = ids[j] PROVE i = j
    BY <1>3, <1>5 DEF DistinctIds
  <2>2. ids[i] \in Nat
    BY <1>1, LiveFact
  <2>3. ~(i < j) /\ ~(j < i)
    BY <1>1, <2>1, <2>2
  <2>4. QED BY <1>1, <2>3
<1>7. QED BY <1>3, <1>5, <1>6 DEF N

\* The answer of a form changes the entries of one id, and no id.
LEMMA PatchedFact ==
  ASSUME NEW accounts \in Seq(Entry), NEW row \in Row, NEW id \in Nat
  PROVE  /\ Merged(accounts, row, id) \in Seq(Entry)
         /\ Len(Merged(accounts, row, id)) = Len(accounts)
         /\ DOMAIN Merged(accounts, row, id) = DOMAIN accounts
         /\ \A j \in DOMAIN accounts : Merged(accounts, row, id)[j].id = accounts[j].id
<1> DEFINE new == Merged(accounts, row, id)
<1>1. Len(accounts) \in Nat /\ DOMAIN accounts = 1..Len(accounts) /\ \A j \in DOMAIN accounts : accounts[j] \in Entry
  BY DomainOfSeq
<1>2. ASSUME NEW j \in DOMAIN accounts PROVE new[j] \in Entry /\ new[j].id = accounts[j].id
  <2>1. accounts[j] \in Entry
    BY <1>1
  <2>2. CASE accounts[j].id # id
    BY <2>1, <2>2 DEF Merged
  <2>3. CASE accounts[j].id = id
    BY <2>1, <2>3 DEF Merged, Entry, Row
  <2>4. QED BY <2>2, <2>3
<1>3. new = [j \in 1..Len(accounts) |-> new[j]]
  BY <1>1 DEF Merged
<1> HIDE DEF new
<1>4. PICK n \in Nat : n = Len(accounts)
  BY <1>1
<1>5. new \in [1..n -> Entry]
  BY <1>1, <1>2, <1>3, <1>4
<1>6. new \in Seq(Entry) /\ Len(new) = n /\ DOMAIN new = 1..n
  BY <1>5
<1>7. QED BY <1>1, <1>2, <1>4, <1>6 DEF new

Put == [st : {"sent", "saved", "refused", "answered"}, draft : Seq(Entry)]
Patch == [st : {"none", "sent", "saved", "refused"}, id : Nat, schedule : BOOLEAN, base : Seq(Entry)]

\* The draft with the rows of its entries, as the console goes on with it.
SavedDraft(draft, at) == [j \in DOMAIN at |-> [draft[j] EXCEPT !.at = at[j]]]

LEMMA SavedDraftFact ==
  ASSUME NEW draft \in Seq(Entry), NEW at \in Seq(Nat), Len(at) = Len(draft)
  PROVE  /\ SavedDraft(draft, at) \in Seq(Entry)
         /\ Len(SavedDraft(draft, at)) = Len(draft) /\ DOMAIN SavedDraft(draft, at) = DOMAIN draft
         /\ \A j \in DOMAIN draft : SavedDraft(draft, at)[j] = [draft[j] EXCEPT !.at = at[j]]
<1>1. /\ Len(draft) \in Nat /\ DOMAIN draft = 1..Len(draft) /\ DOMAIN at = 1..Len(draft)
      /\ \A j \in DOMAIN draft : draft[j] \in Entry /\ at[j] \in Nat
  BY DomainOfSeq
<1> DEFINE new == SavedDraft(draft, at)
<1>2. \A j \in DOMAIN draft : new[j] = [draft[j] EXCEPT !.at = at[j]]
  BY <1>1 DEF SavedDraft
<1>3. new = [j \in 1..Len(draft) |-> new[j]]
  BY <1>1 DEF SavedDraft
<1> HIDE DEF new
<1>4. ASSUME NEW j \in DOMAIN draft PROVE new[j] \in Entry
  <2>1. PICK a \in Entry, m \in Nat : a = draft[j] /\ m = at[j]
    BY <1>1
  <2>2. new[j] = [a EXCEPT !.at = m]
    BY <1>2, <2>1
  <2>3. QED BY <2>2 DEF Entry
<1>5. PICK n \in Nat : n = Len(draft)
  BY <1>1
<1>6. new \in [1..n -> Entry]
  BY <1>1, <1>3, <1>4, <1>5
<1>7. new \in Seq(Entry) /\ Len(new) = n /\ DOMAIN new = 1..n
  BY <1>6
<1>8. QED BY <1>1, <1>2, <1>5, <1>7 DEF new

(***************************************************************************)
(* The server's answer to a save: refused, with the table as it was, or    *)
(* saved, with the table of the draft.                                     *)
(***************************************************************************)
Saves(n, draft, after) ==
  /\ draft = puts[n].draft /\ Accepted(draft) /\ after = Saved(draft) /\ SaveResult(draft, after)
  /\ rows' = after.rows
  /\ puts' = [puts EXCEPT ![n] = [st |-> "saved", draft |-> SavedDraft(draft, after.at)]]
  /\ astray' = (astray \/ TakesOver(draft))

LEMMA ServerSaveFact ==
  ASSUME rows \in Seq(Row), puts \in Seq(Put), NEW n \in DOMAIN puts, ServerSave(n)
  PROVE  /\ puts[n].st = "sent" /\ UNCHANGED <<config, panel, form, patch, dialog, edits, saves, misled>>
         /\ \/ \E draft, after : Saves(n, draft, after)
            \/ puts' = [puts EXCEPT ![n].st = "refused"] /\ UNCHANGED <<rows, astray>>
<1>1. puts[n].draft \in Seq(Entry)
  <2>1. puts[n] \in Put
    BY DomainOfSeq
  <2>2. QED BY <2>1 DEF Put
<1>2. PICK draft : draft = puts[n].draft
  OBVIOUS
<1>3. CASE Accepted(draft)
  <2>1. PICK after : after = Saved(draft)
    OBVIOUS
  <2>2. SaveResult(draft, after)
    BY <1>1, <1>2, <2>1, SaveFact
  <2>3. /\ rows' = after.rows
        /\ puts' = [puts EXCEPT ![n] = [st |-> "saved", draft |-> SavedDraft(draft, after.at)]]
        /\ astray' = (astray \/ TakesOver(draft))
    BY <1>2, <1>3, <2>1 DEF ServerSave, SavedDraft
  <2>4. Saves(n, draft, after)
    BY <1>2, <1>3, <2>1, <2>2, <2>3 DEF Saves
  <2>5. QED BY <2>4 DEF ServerSave
<1>4. CASE ~Accepted(draft)
  BY <1>2, <1>4 DEF ServerSave
<1>5. QED BY <1>3, <1>4

\* One entry of puts more, or another one in its place.
LEMMA PutsReplaced ==
  ASSUME puts \in Seq(Put), NEW n \in DOMAIN puts, NEW put \in Put, puts' = [puts EXCEPT ![n] = put]
  PROVE  /\ puts' \in Seq(Put) /\ Len(puts') = Len(puts) /\ DOMAIN puts' = DOMAIN puts
         /\ puts'[n] = put /\ \A m \in DOMAIN puts \ {n} : puts'[m] = puts[m]
<1>1. DOMAIN puts = 1..Len(puts)
  OBVIOUS
<1>2. puts' \in Seq(Put) /\ Len(puts') = Len(puts)
      /\ \A m \in 1..Len(puts) : puts'[m] = IF m = n THEN put ELSE puts[m]
  BY <1>1, ExceptSeq
<1>3. DOMAIN puts' = DOMAIN puts
  BY <1>1, <1>2
<1>4. QED BY <1>1, <1>2, <1>3

LEMMA PutsAppended ==
  ASSUME puts \in Seq(Put), NEW put \in Put, puts' = Append(puts, put)
  PROVE  /\ puts' \in Seq(Put) /\ Len(puts') = Len(puts) + 1 /\ DOMAIN puts' = DOMAIN puts \union {Len(puts) + 1}
         /\ Len(puts) + 1 \notin DOMAIN puts /\ Len(puts) \in Nat
         /\ puts'[Len(puts) + 1] = put /\ \A m \in DOMAIN puts : puts'[m] = puts[m]
<1>1. /\ puts' \in Seq(Put) /\ Len(puts') = Len(puts) + 1
      /\ \A m \in 1..Len(puts) : puts'[m] = puts[m]
      /\ puts'[Len(puts) + 1] = put
  BY AppendProperties
<1>2. DOMAIN puts = 1..Len(puts) /\ DOMAIN puts' = 1..(Len(puts) + 1) /\ Len(puts) \in Nat
  BY <1>1, DomainOfSeq
<1>3. QED BY <1>1, <1>2

\* The types in the parts that the steps change.
LEMMA TypeParts ==
  ASSUME TypeOK
  PROVE  /\ rows \in Seq(Row) /\ config \in Seq(Entry) /\ puts \in Seq(Put) /\ patch \in Patch
         /\ panel.draft \in Seq(Entry) /\ panel.open \in BOOLEAN /\ panel.save \in 0..Len(puts)
         /\ panel = [open |-> panel.open, draft |-> panel.draft, save |-> panel.save]
         /\ patch.base \in Seq(Entry) /\ patch.id \in Nat
         /\ \A n \in DOMAIN puts : puts[n] \in Put /\ puts[n].draft \in Seq(Entry)
<1>1. rows \in Seq(Row) /\ config \in Seq(Entry) /\ puts \in Seq(Put) /\ patch \in Patch
      /\ panel \in [open : BOOLEAN, draft : Seq(Entry), save : 0..Len(puts)]
  BY DEF TypeOK, Put, Patch
<1>2. \A n \in DOMAIN puts : puts[n] \in Put
  BY <1>1, DomainOfSeq
<1>3. QED BY <1>1, <1>2 DEF Put, Patch

\* The empty panel, form, patch and dialog.
LEMMA ClosedTypes ==
  /\ <<>> \in Seq(Entry)
  /\ \A n \in Nat : ClosedPanel \in [open : BOOLEAN, draft : Seq(Entry), save : 0..n]
  /\ ClosedForm \in [open : BOOLEAN, id : Nat]
  /\ NoPatch \in Patch
  /\ NoDialog \in [open : BOOLEAN, id : Nat, inst : Inst \union {NoInst}]
<1>1. <<>> \in Seq(Entry)
  OBVIOUS
<1>2. QED BY <1>1 DEF ClosedPanel, ClosedForm, NoPatch, Patch, NoDialog

\* What the dialog shows is an instance, or nothing.
LEMMA InstanceShownType ==
  ASSUME config \in Seq(Entry), NEW id
  PROVE  InstanceShown(id) \in Inst \union {NoInst}
<1>1. CASE ConfigOf(id) = {}
  BY <1>1 DEF InstanceShown
<1>2. CASE ConfigOf(id) # {}
  <2>1. ConfigOf(id) \subseteq DOMAIN config /\ DOMAIN config \subseteq Nat
    BY DomainOfSeq DEF ConfigOf
  <2>2. Min(ConfigOf(id)) \in DOMAIN config
    BY <1>2, <2>1, MinFact
  <2>3. config[Min(ConfigOf(id))] \in Entry
    BY <2>2, DomainOfSeq
  <2>4. QED BY <1>2, <2>3 DEF InstanceShown, Entry
<1>3. QED BY <1>1, <1>2

LEMMA TypeInit == Init => TypeOK
<1>1. SUFFICES ASSUME Init PROVE TypeOK
  OBVIOUS
<1>2. rows \in Seq(Row)
  BY <1>1, StoredAssumption DEF Init
<1>3. config \in Seq(Entry)
  BY <1>1, <1>2, LoadedFact DEF Init
<1>4. puts = <<>> /\ puts \in Seq(Put) /\ Len(puts) \in Nat
  BY <1>1 DEF Init
<1>5. saves \in 0..MaxSaves /\ edits \in 0..MaxEdits /\ astray \in BOOLEAN /\ misled \in BOOLEAN
  <2>1. MaxSaves \in Nat /\ MaxEdits \in Nat
    BY SettingsAssumption
  <2>2. saves = 0 /\ edits = 0 /\ astray = FALSE /\ misled = FALSE
    BY <1>1 DEF Init
  <2>3. saves \in 0..MaxSaves /\ edits \in 0..MaxEdits
    BY <2>1, <2>2
  <2>4. QED BY <2>2, <2>3
<1>6. /\ panel \in [open : BOOLEAN, draft : Seq(Entry), save : 0..Len(puts)]
      /\ form \in [open : BOOLEAN, id : Nat] /\ patch \in Patch
      /\ dialog \in [open : BOOLEAN, id : Nat, inst : Inst \union {NoInst}]
  BY <1>1, <1>4, ClosedTypes DEF Init
<1>7. QED BY <1>2, <1>3, <1>4, <1>5, <1>6 DEF TypeOK, Put, Patch

LEMMA TypeStep == TypeOK /\ [Next]_vars => TypeOK'
<1> SUFFICES ASSUME TypeOK, [Next]_vars PROVE TypeOK'
  OBVIOUS
<1> USE DEF Put, Patch
<1>1. CASE Reload
  <2>1. Loaded \in Seq(Entry)
    BY LoadedFact DEF TypeOK
  <2>2. Len(puts) \in Nat
    BY DEF TypeOK
  <2>3. QED BY <1>1, <2>1, <2>2, ClosedTypes DEF Reload, TypeOK
<1>2. CASE OpenPanel
  <2>1. Len(puts) \in Nat
    BY DEF TypeOK
  <2>2. panel' \in [open : BOOLEAN, draft : Seq(Entry), save : 0..Len(puts')]
    BY <1>2, <2>1 DEF OpenPanel, TypeOK
  <2>3. QED BY <1>2, <2>2 DEF OpenPanel, TypeOK
<1>3. CASE ClosePanel
  <2>1. Len(puts) \in Nat
    BY DEF TypeOK
  <2>2. QED BY <1>3, <2>1, ClosedTypes DEF ClosePanel, TypeOK
<1>4. CASE DraftEdit
  <2>1. PICK draft : EditOf(draft, panel.draft) /\ Edit(draft)
    BY <1>4, TypeParts, DraftEditFact
  <2>2. draft \in Seq(Entry)
    BY <2>1 DEF EditOf
  <2>3. panel' \in [open : BOOLEAN, draft : Seq(Entry), save : 0..Len(puts')]
    BY <2>1, <2>2 DEF Edit, TypeOK
  <2>4. edits' \in 0..MaxEdits
    <3>1. edits \in 0..MaxEdits /\ MaxEdits \in Nat
      BY SettingsAssumption DEF TypeOK
    <3>2. edits < MaxEdits /\ edits' = edits + 1
      BY <2>1 DEF Edit
    <3>3. QED BY <3>1, <3>2
  <2>5. QED BY <2>1, <2>3, <2>4 DEF Edit, TypeOK
<1>5. CASE SavePanel
  <2>1. PICK put \in Put : put = [st |-> "sent", draft |-> panel.draft]
    BY TypeParts
  <2>2. puts' \in Seq(Put) /\ Len(puts') = Len(puts) + 1 /\ Len(puts) \in Nat
    <3>1. puts' = Append(puts, put) /\ puts \in Seq(Put)
      BY <1>5, <2>1, TypeParts DEF SavePanel
    <3>2. QED BY <3>1, PutsAppended
  <2>3. panel' \in [open : BOOLEAN, draft : Seq(Entry), save : 0..Len(puts')]
    <3>1. panel' = [panel EXCEPT !.save = Len(puts) + 1] /\ Len(puts') = Len(puts) + 1
      BY <1>5, <2>2 DEF SavePanel
    <3>2. Len(puts) + 1 \in 0..Len(puts')
      BY <2>2, <3>1
    <3>3. panel' = [open |-> panel.open, draft |-> panel.draft, save |-> Len(puts) + 1]
      BY <3>1, TypeParts
    <3>4. QED BY <3>2, <3>3, TypeParts
  <2>4. saves' \in 0..MaxSaves
    <3>1. saves \in 0..MaxSaves /\ saves < MaxSaves /\ saves' = saves + 1
      BY <1>5 DEF SavePanel, TypeOK
    <3>2. MaxSaves \in Nat
      BY SettingsAssumption
    <3>3. QED BY <3>1, <3>2
  <2>5. QED BY <1>5, <2>2, <2>3, <2>4 DEF SavePanel, TypeOK
<1>6. ASSUME NEW n \in DOMAIN puts, ServerSave(n) PROVE TypeOK'
  <2>1. CASE puts' = [puts EXCEPT ![n].st = "refused"] /\ UNCHANGED <<rows, astray>>
    <3>1. PICK put \in Put : put = [st |-> "refused", draft |-> puts[n].draft]
      BY TypeParts
    <3>2. puts' = [puts EXCEPT ![n] = put]
      <4>1. puts[n] = [st |-> puts[n].st, draft |-> puts[n].draft]
        BY TypeParts
      <4>2. [puts[n] EXCEPT !.st = "refused"] = put
        BY <3>1, <4>1
      <4>3. QED BY <2>1, <4>2
    <3>3. puts' \in Seq(Put) /\ Len(puts') = Len(puts)
      BY <3>2, TypeParts, PutsReplaced
    <3>4. QED BY <1>6, <2>1, <3>3 DEF ServerSave, TypeOK
  <2>2. CASE \E draft, after : Saves(n, draft, after)
    <3>1. PICK draft, after : Saves(n, draft, after)
      BY <2>2
    <3>2. draft \in Seq(Entry) /\ after.at \in Seq(Nat) /\ Len(after.at) = Len(draft)
      BY <3>1, TypeParts DEF Saves, SaveResult
    <3>3. PICK put \in Put : put = [st |-> "saved", draft |-> SavedDraft(draft, after.at)]
      BY <3>2, SavedDraftFact
    <3>4. puts' = [puts EXCEPT ![n] = put]
      BY <3>1, <3>3 DEF Saves
    <3>5. puts' \in Seq(Put) /\ Len(puts') = Len(puts)
      BY <3>4, TypeParts, PutsReplaced
    <3>6. rows' \in Seq(Row)
      BY <3>1, <3>2, TypeParts, AcceptedRows DEF Saves
    <3>7. astray' \in BOOLEAN
      BY <3>1 DEF Saves, TakesOver, TypeOK
    <3>8. QED BY <1>6, <3>5, <3>6, <3>7 DEF ServerSave, TypeOK
  <2>3. QED BY <1>6, <2>1, <2>2, TypeParts, ServerSaveFact
<1>7. ASSUME NEW n \in DOMAIN puts, SaveAnswered(n) PROVE TypeOK'
  <2>1. PICK put \in Put : put = [st |-> "answered", draft |-> <<>>]
    BY ClosedTypes
  <2>2. puts' \in Seq(Put) /\ Len(puts') = Len(puts) /\ Len(puts) \in Nat
    BY <1>7, <2>1, TypeParts, PutsReplaced DEF SaveAnswered
  <2>3. CASE puts[n].st = "saved"
    <3>1. config' = puts[n].draft /\ panel' = ClosedPanel
      BY <1>7, <2>3 DEF SaveAnswered
    <3>2. config' \in Seq(Entry)
      BY <1>7, <3>1, TypeParts
    <3>3. panel' \in [open : BOOLEAN, draft : Seq(Entry), save : 0..Len(puts')]
      BY <2>2, <3>1, ClosedTypes
    <3>4. QED BY <1>7, <2>2, <3>2, <3>3 DEF SaveAnswered, TypeOK
  <2>4. CASE puts[n].st # "saved"
    BY <1>7, <2>2, <2>4 DEF SaveAnswered, TypeOK
  <2>5. QED BY <2>3, <2>4
<1>8. ASSUME NEW id \in Live, OpenForm(id) PROVE TypeOK'
  <2>1. id \in Nat
    BY LiveFact, TypeParts
  <2>2. QED BY <1>8, <2>1 DEF OpenForm, TypeOK
<1>9. ASSUME NEW id \in Live, RequestAction(id) PROVE TypeOK'
  <2>1. id \in Nat /\ InstanceShown(id) \in Inst \union {NoInst}
    BY LiveFact, TypeParts, InstanceShownType
  <2>2. QED BY <1>9, <2>1 DEF RequestAction, TypeOK
<1>10. ASSUME NEW value \in BOOLEAN, SaveForm(value) PROVE TypeOK'
  <2>1. patch' \in Patch
    BY <1>10 DEF SaveForm, TypeOK
  <2>2. saves' \in 0..MaxSaves
    BY <1>10, SettingsAssumption DEF SaveForm, TypeOK
  <2>3. QED BY <1>10, <2>1, <2>2 DEF SaveForm, TypeOK
<1>11. CASE CloseForm
  BY <1>11, ClosedTypes DEF CloseForm, TypeOK
<1>12. CASE ServerPatch
  <2>1. CASE patch.id \in Live
    <3>1. PICK id \in Live : id = patch.id
      BY <2>1
    <3>2. PICK row \in Row : row = [rows[id] EXCEPT !.schedule = patch.schedule]
      <4>1. rows[id] \in Row
        BY LiveFact, TypeParts
      <4>2. patch.schedule \in BOOLEAN
        BY TypeParts
      <4>3. QED BY <4>1, <4>2 DEF Row
    <3>3. rows' = [rows EXCEPT ![id] = row]
      BY <1>12, <2>1, <3>1, <3>2 DEF ServerPatch
    <3>4. id \in 1..Len(rows) /\ id \in Nat
      BY LiveFact, TypeParts
    <3>5. rows' \in Seq(Row) /\ rows'[id] = row
      BY <3>3, <3>4, TypeParts, ExceptSeq
    <3>6. PICK base \in Seq(Entry) : base = Merged(patch.base, row, id)
      BY <3>4, TypeParts, PatchedFact
    <3>7. patch' = [patch EXCEPT !.st = "saved", !.base = base]
      BY <1>12, <2>1, <3>1, <3>5, <3>6 DEF ServerPatch
    <3>8. patch' \in Patch
      BY <3>7, TypeParts
    <3>9. QED BY <1>12, <3>5, <3>8 DEF ServerPatch, TypeOK
  <2>2. CASE patch.id \notin Live
    <3>1. patch' = [patch EXCEPT !.st = "refused"] /\ UNCHANGED rows
      BY <1>12, <2>2 DEF ServerPatch
    <3>2. patch' \in Patch
      BY <3>1, TypeParts
    <3>3. QED BY <1>12, <3>1, <3>2 DEF ServerPatch, TypeOK
  <2>3. QED BY <2>1, <2>2
<1>13. CASE PatchAnswered
  <2>1. CASE patch.st = "saved"
    BY <1>13, <2>1, TypeParts, ClosedTypes DEF PatchAnswered, TypeOK
  <2>2. CASE patch.st # "saved"
    BY <1>13, <2>2, ClosedTypes DEF PatchAnswered, TypeOK
  <2>3. QED BY <2>1, <2>2
<1>14. CASE CancelAction
  BY <1>14, ClosedTypes DEF CancelAction, TypeOK
<1>15. CASE ConfirmAction
  <2>1. misled' \in BOOLEAN
    BY <1>15 DEF ConfirmAction, TypeOK
  <2>2. QED BY <1>15, <2>1, ClosedTypes DEF ConfirmAction, TypeOK
<1>16. CASE UNCHANGED vars
  BY <1>16 DEF vars, TypeOK
<1>17. QED
  BY <1>1, <1>2, <1>3, <1>4, <1>5, <1>6, <1>7, <1>8, <1>9, <1>10, <1>11, <1>12, <1>13, <1>14, <1>15, <1>16
  DEF Next

(***************************************************************************)
(* The state has its types: in particular, every row that a save leaves is *)
(* a complete row with a key and a secret (saveAccountsTx).                *)
(***************************************************************************)
THEOREM SettingsTypeCorrect == Spec => []TypeOK
<1>1. Init => TypeOK
  BY TypeInit
<1>2. TypeOK /\ [Next]_vars => TypeOK'
  BY TypeStep
<1>3. QED BY <1>1, <1>2, PTL DEF Spec

-----------------------------------------------------------------------------
(* What holds in every state.                                              *)

(***************************************************************************)
(* No two entries of a list have one id; a save or a form that has been    *)
(* answered has left nothing behind.                                       *)
(***************************************************************************)
IdsDistinct ==
  /\ DistinctIds(config) /\ DistinctIds(panel.draft) /\ DistinctIds(patch.base)
  /\ \A n \in DOMAIN puts : DistinctIds(puts[n].draft)

Settled ==
  /\ patch.st = "none" => patch.base = <<>>
  /\ \A n \in DOMAIN puts : puts[n].st = "answered" => puts[n].draft = <<>>

RowsShared == \A m, n \in Live : SamePool(rows[m], rows[n]) => rows[m].quota = rows[n].quota

AlwaysInv == TypeOK /\ IdsDistinct /\ Settled /\ RowsShared

LEMMA NoIds == DistinctIds(<<>>) /\ SharedQuota(<<>>)
BY DEF DistinctIds, SharedQuota

\* A draft with the same ids has distinct ids.
LEMMA SameIds ==
  ASSUME NEW old, NEW new, DOMAIN new = DOMAIN old, \A j \in DOMAIN old : new[j].id = old[j].id,
         DistinctIds(old)
  PROVE  DistinctIds(new)
BY DEF DistinctIds

\* How the entries that a save has answered differ from the ones that were sent.
LEMMA SavedDraftKeeps ==
  ASSUME NEW draft \in Seq(Entry), NEW at \in Seq(Nat), Len(at) = Len(draft)
  PROVE  LET new == SavedDraft(draft, at)
         IN /\ DistinctIds(draft) => DistinctIds(new)
            /\ SharedQuota(draft) => SharedQuota(new)
            /\ \A j \in DOMAIN draft :
                 /\ new[j].id = draft[j].id /\ new[j].at = at[j] /\ new[j].key = draft[j].key
                 /\ new[j].region = draft[j].region /\ new[j].inst = draft[j].inst
                 /\ new[j].quota = draft[j].quota /\ new[j].schedule = draft[j].schedule
<1> DEFINE new == SavedDraft(draft, at)
<1>1. DOMAIN new = DOMAIN draft /\ \A j \in DOMAIN draft : new[j] = [draft[j] EXCEPT !.at = at[j]]
  BY SavedDraftFact
<1>2. \A j \in DOMAIN draft : draft[j] \in Entry
  BY DomainOfSeq
<1> HIDE DEF new
<1>3. ASSUME NEW j \in DOMAIN draft
      PROVE  /\ new[j].id = draft[j].id /\ new[j].at = at[j] /\ new[j].key = draft[j].key
             /\ new[j].region = draft[j].region /\ new[j].inst = draft[j].inst
             /\ new[j].quota = draft[j].quota /\ new[j].schedule = draft[j].schedule
  BY <1>1, <1>2 DEF Entry
<1>4. DistinctIds(draft) => DistinctIds(new)
  BY <1>1, <1>3, SameIds
<1>5. SharedQuota(draft) => SharedQuota(new)
  BY <1>1, <1>3 DEF SharedQuota, SamePool, PoolKey
<1>6. QED BY <1>3, <1>4, <1>5 DEF new

\* A save that was accepted has changed its own entry of puts.
LEMMA SavesPuts ==
  ASSUME TypeOK, NEW n \in DOMAIN puts, NEW draft, NEW after, Saves(n, draft, after)
  PROVE  /\ draft \in Seq(Entry) /\ after.at \in Seq(Nat) /\ Len(after.at) = Len(draft)
         /\ puts' \in Seq(Put) /\ DOMAIN puts' = DOMAIN puts
         /\ puts'[n].st = "saved" /\ puts'[n].draft = SavedDraft(draft, after.at)
         /\ \A m \in DOMAIN puts \ {n} : puts'[m] = puts[m]
<1>1. draft \in Seq(Entry) /\ after.at \in Seq(Nat) /\ Len(after.at) = Len(draft)
  BY TypeParts DEF Saves, SaveResult
<1>2. PICK put \in Put : put = [st |-> "saved", draft |-> SavedDraft(draft, after.at)]
  BY <1>1, SavedDraftFact DEF Put
<1>3. puts' = [puts EXCEPT ![n] = put]
  BY <1>2 DEF Saves
<1>4. QED BY <1>1, <1>2, <1>3, TypeParts, PutsReplaced

\* So has one that was refused, and one whose answer has come.
LEMMA RefusedPuts ==
  ASSUME TypeOK, NEW n \in DOMAIN puts, puts' = [puts EXCEPT ![n].st = "refused"]
  PROVE  /\ DOMAIN puts' = DOMAIN puts /\ puts'[n].st = "refused" /\ puts'[n].draft = puts[n].draft
         /\ \A m \in DOMAIN puts \ {n} : puts'[m] = puts[m]
<1>1. PICK put \in Put : put = [st |-> "refused", draft |-> puts[n].draft]
  BY TypeParts DEF Put
<1>2. puts[n] = [st |-> puts[n].st, draft |-> puts[n].draft]
  BY TypeParts DEF Put
<1>3. [puts[n] EXCEPT !.st = "refused"] = put
  BY <1>1, <1>2
<1>4. puts' = [puts EXCEPT ![n] = put]
  BY <1>3
<1>5. DOMAIN puts' = DOMAIN puts /\ puts'[n] = put /\ \A m \in DOMAIN puts \ {n} : puts'[m] = puts[m]
  BY <1>4, TypeParts, PutsReplaced
<1>6. QED BY <1>1, <1>5

LEMMA AnsweredPuts ==
  ASSUME TypeOK, NEW n \in DOMAIN puts, SaveAnswered(n)
  PROVE  /\ DOMAIN puts' = DOMAIN puts /\ puts'[n].st = "answered" /\ puts'[n].draft = <<>>
         /\ \A m \in DOMAIN puts \ {n} : puts'[m] = puts[m]
<1>1. PICK put \in Put : put = [st |-> "answered", draft |-> <<>>]
  BY ClosedTypes DEF Put
<1>2. puts' = [puts EXCEPT ![n] = put]
  BY <1>1 DEF SaveAnswered
<1>3. QED BY <1>1, <1>2, TypeParts, PutsReplaced

LEMMA SentPuts ==
  ASSUME TypeOK, SavePanel
  PROVE  /\ DOMAIN puts' = DOMAIN puts \union {Len(puts) + 1} /\ Len(puts) + 1 \notin DOMAIN puts
         /\ puts'[Len(puts) + 1].st = "sent" /\ puts'[Len(puts) + 1].draft = panel.draft
         /\ \A m \in DOMAIN puts : puts'[m] = puts[m]
         /\ panel'.draft = panel.draft
<1>1. PICK put \in Put : put = [st |-> "sent", draft |-> panel.draft]
  BY TypeParts DEF Put
<1>2. puts' = Append(puts, put) /\ panel' = [panel EXCEPT !.save = Len(puts) + 1]
  BY <1>1 DEF SavePanel
<1>3. panel'.draft = panel.draft
  BY <1>2, TypeParts
<1>4. QED BY <1>1, <1>2, <1>3, TypeParts, PutsAppended

\* What the answer of the server to a form does to the table and to the list that was sent.
Patched(id, row) ==
  /\ id = patch.id /\ id \in Live /\ row = [rows[id] EXCEPT !.schedule = patch.schedule]
  /\ rows' \in Seq(Row) /\ row \in Row /\ DOMAIN rows' = DOMAIN rows /\ Live' = Live
  /\ rows'[id] = row /\ \A m \in DOMAIN rows \ {id} : rows'[m] = rows[m]
  /\ patch'.st = "saved" /\ patch'.base = Merged(patch.base, row, id)

LEMMA ServerPatchFact ==
  ASSUME TypeOK, ServerPatch
  PROVE  /\ patch.st = "sent" /\ UNCHANGED <<config, panel, puts, form, dialog, edits, astray, saves, misled>>
         /\ \/ \E id, row : Patched(id, row)
            \/ patch'.st = "refused" /\ patch'.base = patch.base /\ UNCHANGED rows
<1>1. CASE patch.id \in Live
  <2>1. PICK id \in Live : id = patch.id
    BY <1>1
  <2>2. rows[id] \in Row /\ patch.schedule \in BOOLEAN /\ id \in DOMAIN rows /\ DOMAIN rows = 1..Len(rows)
        /\ rows[id].live
    BY LiveFact, TypeParts DEF Patch, Live
  <2>3. PICK row \in Row : row = [rows[id] EXCEPT !.schedule = patch.schedule]
    BY <2>2 DEF Row
  <2>4. rows' = [rows EXCEPT ![id] = row]
    BY <1>1, <2>1, <2>3 DEF ServerPatch
  <2>5. /\ rows' \in Seq(Row) /\ Len(rows') = Len(rows)
        /\ \A m \in 1..Len(rows) : rows'[m] = IF m = id THEN row ELSE rows[m]
    BY <2>2, <2>4, TypeParts, ExceptSeq
  <2>6. DOMAIN rows' = DOMAIN rows /\ rows'[id] = row /\ \A m \in DOMAIN rows \ {id} : rows'[m] = rows[m]
    BY <2>2, <2>5
  <2>7. row.live
    BY <2>2, <2>3 DEF Row
  <2>8. Live' = Live
    BY <2>2, <2>6, <2>7 DEF Live
  <2>9. patch'.st = "saved" /\ patch'.base = Merged(patch.base, row, id)
    <3>1. patch' = [patch EXCEPT !.st = "saved", !.base = Merged(patch.base, row, id)]
      BY <1>1, <2>1, <2>6 DEF ServerPatch
    <3>2. patch \in Patch
      BY TypeParts
    <3>3. QED BY <3>1, <3>2 DEF Patch
  <2>10. Patched(id, row)
    BY <2>1, <2>3, <2>5, <2>6, <2>8, <2>9 DEF Patched
  <2>11. QED BY <2>10 DEF ServerPatch
<1>2. CASE patch.id \notin Live
  <2>1. patch' = [patch EXCEPT !.st = "refused"] /\ UNCHANGED rows
    BY <1>2 DEF ServerPatch
  <2>2. patch'.st = "refused" /\ patch'.base = patch.base
    BY <2>1, TypeParts DEF Patch
  <2>3. QED BY <2>1, <2>2 DEF ServerPatch
<1>3. QED BY <1>1, <1>2

LEMMA AlwaysInit == Init => AlwaysInv
<1>1. SUFFICES ASSUME Init PROVE AlwaysInv
  OBVIOUS
<1>2. TypeOK
  BY <1>1, TypeInit
<1>3. DistinctIds(config)
  BY <1>1, <1>2, LoadedFact DEF Init, TypeOK
<1>4. panel.draft = <<>> /\ patch.base = <<>> /\ DOMAIN puts = {}
  BY <1>1 DEF Init, ClosedPanel, NoPatch
<1>5. IdsDistinct /\ Settled
  BY <1>3, <1>4, NoIds DEF IdsDistinct, Settled
<1>6. rows \in Stored
  BY <1>1 DEF Init
<1>7. RowsShared
  BY <1>6, StoredAssumption DEF RowsShared, Live
<1>8. QED BY <1>2, <1>5, <1>7 DEF AlwaysInv

\* What happens to the saves: a new one is sent, or one is answered by the server or has come back.
LEMMA IdsStep == TypeOK /\ IdsDistinct /\ Settled /\ [Next]_vars => IdsDistinct' /\ Settled'
<1> SUFFICES ASSUME TypeOK, IdsDistinct, Settled, [Next]_vars PROVE IdsDistinct' /\ Settled'
  OBVIOUS
<1> USE DEF IdsDistinct, Settled
<1>1. CASE Reload
  <2>1. DistinctIds(Loaded)
    BY LoadedFact, TypeParts
  <2>2. QED BY <1>1, <2>1, NoIds DEF Reload, ClosedPanel
<1>2. CASE OpenPanel
  BY <1>2 DEF OpenPanel
<1>3. CASE ClosePanel
  BY <1>3, NoIds DEF ClosePanel, ClosedPanel
<1>4. CASE DraftEdit
  <2>1. PICK draft : EditOf(draft, panel.draft) /\ Edit(draft)
    BY <1>4, TypeParts, DraftEditFact
  <2>2. DistinctIds(draft)
    BY <2>1 DEF EditOf
  <2>3. panel'.draft = draft
    BY <2>1, TypeParts DEF Edit
  <2>4. QED BY <2>1, <2>2, <2>3 DEF Edit
<1>5. CASE SavePanel
  <2>1. UNCHANGED <<config, patch>>
    BY <1>5 DEF SavePanel
  <2>2. QED BY <1>5, <2>1, SentPuts
<1>6. ASSUME NEW n \in DOMAIN puts, ServerSave(n) PROVE IdsDistinct' /\ Settled'
  <2>1. UNCHANGED <<config, panel, patch>>
    BY <1>6 DEF ServerSave
  <2>2. CASE puts' = [puts EXCEPT ![n].st = "refused"]
    BY <2>1, <2>2, RefusedPuts
  <2>3. CASE \E draft, after : Saves(n, draft, after)
    <3>1. PICK draft, after : Saves(n, draft, after)
      BY <2>3
    <3>2. DistinctIds(puts'[n].draft) /\ puts'[n].st = "saved"
      <4>1. DistinctIds(draft)
        BY <3>1 DEF Saves
      <4>2. QED BY <3>1, <4>1, SavesPuts, SavedDraftKeeps
    <3>3. DOMAIN puts' = DOMAIN puts /\ \A m \in DOMAIN puts \ {n} : puts'[m] = puts[m]
      BY <3>1, SavesPuts
    <3>4. QED BY <2>1, <3>2, <3>3
  <2>4. QED BY <1>6, <2>2, <2>3, TypeParts, ServerSaveFact
<1>7. ASSUME NEW n \in DOMAIN puts, SaveAnswered(n) PROVE IdsDistinct' /\ Settled'
  <2>1. DistinctIds(config') /\ DistinctIds(panel'.draft) /\ UNCHANGED patch
    BY <1>7, NoIds DEF SaveAnswered, ClosedPanel
  <2>2. QED BY <1>7, <2>1, NoIds, AnsweredPuts
<1>8. ASSUME NEW id \in Live, OpenForm(id) PROVE IdsDistinct' /\ Settled'
  BY <1>8 DEF OpenForm
<1>9. ASSUME NEW id \in Live, RequestAction(id) PROVE IdsDistinct' /\ Settled'
  BY <1>9 DEF RequestAction
<1>10. ASSUME NEW value \in BOOLEAN, SaveForm(value) PROVE IdsDistinct' /\ Settled'
  BY <1>10 DEF SaveForm
<1>11. CASE CloseForm
  BY <1>11 DEF CloseForm
<1>12. CASE ServerPatch
  <2>1. UNCHANGED <<config, panel, puts>>
    BY <1>12 DEF ServerPatch
  <2>2. DistinctIds(patch'.base) /\ patch'.st # "none"
    <3>1. CASE patch'.st = "refused" /\ patch'.base = patch.base
      BY <3>1
    <3>2. CASE \E id, row : Patched(id, row)
      <4>1. PICK id, row : Patched(id, row)
        BY <3>2
      <4>2. id \in Nat /\ row \in Row /\ patch.base \in Seq(Entry)
        BY <4>1, TypeParts DEF Patched
      <4>3. DistinctIds(Merged(patch.base, row, id))
        BY <4>2, PatchedFact, SameIds
      <4>4. QED BY <4>1, <4>3 DEF Patched
    <3>3. QED BY <1>12, <3>1, <3>2, ServerPatchFact
  <2>3. QED BY <2>1, <2>2
<1>13. CASE PatchAnswered
  <2>1. patch'.base = <<>> /\ UNCHANGED <<panel, puts>>
    BY <1>13 DEF PatchAnswered, NoPatch
  <2>2. DistinctIds(config')
    BY <1>13 DEF PatchAnswered
  <2>3. QED BY <2>1, <2>2, NoIds
<1>14. CASE CancelAction
  BY <1>14 DEF CancelAction
<1>15. CASE ConfirmAction
  BY <1>15 DEF ConfirmAction
<1>16. CASE UNCHANGED vars
  BY <1>16 DEF vars
<1>17. QED
  BY <1>1, <1>2, <1>3, <1>4, <1>5, <1>6, <1>7, <1>8, <1>9, <1>10, <1>11, <1>12, <1>13, <1>14, <1>15, <1>16
  DEF Next

\* An accepted save leaves one quota in each pool: the live rows are entries of the draft.
LEMMA SavesShared ==
  ASSUME TypeOK, NEW n \in DOMAIN puts, NEW draft, NEW after, Saves(n, draft, after)
  PROVE  RowsShared'
<1>1. SharedQuota(draft) /\ SaveResult(draft, after) /\ rows' = after.rows
  BY DEF Saves, Accepted
<1>2. Live' = LiveOf(after.rows)
  BY <1>1 DEF Live, LiveOf
<1>3. ASSUME NEW m \in Live'
      PROVE  \E j \in DOMAIN draft : /\ rows'[m].key = draft[j].key /\ rows'[m].region = draft[j].region
                                     /\ rows'[m].quota = draft[j].quota
  <2>1. PICK j \in DOMAIN draft : after.rows[m] = RowFor(draft, draft[j], Before(m))
    BY <1>1, <1>2 DEF SaveResult
  <2>2. QED BY <1>1, <2>1 DEF RowFor
<1>4. SUFFICES ASSUME NEW l \in Live', NEW m \in Live', SamePool(rows'[l], rows'[m])
               PROVE  rows'[l].quota = rows'[m].quota
  BY DEF RowsShared
<1>5. PICK i \in DOMAIN draft : /\ rows'[l].key = draft[i].key /\ rows'[l].region = draft[i].region
                                /\ rows'[l].quota = draft[i].quota
  BY <1>3
<1>6. PICK j \in DOMAIN draft : /\ rows'[m].key = draft[j].key /\ rows'[m].region = draft[j].region
                                /\ rows'[m].quota = draft[j].quota
  BY <1>3
<1>7. SamePool(draft[i], draft[j])
  BY <1>4, <1>5, <1>6 DEF SamePool, PoolKey
<1>8. QED BY <1>1, <1>5, <1>6, <1>7 DEF SharedQuota

\* The form of an instance leaves key, region and quota of its row alone.
LEMMA PatchedShared ==
  ASSUME TypeOK, RowsShared, NEW id, NEW row, Patched(id, row)
  PROVE  RowsShared'
<1>1. \A m \in Live : rows[m] \in Row /\ m \in DOMAIN rows
  BY LiveFact, TypeParts
<1>2. \A m \in Live : rows'[m].key = rows[m].key /\ rows'[m].region = rows[m].region /\ rows'[m].quota = rows[m].quota
  <2>1. id \in Live /\ row = [rows[id] EXCEPT !.schedule = patch.schedule]
        /\ rows'[id] = row /\ \A m \in DOMAIN rows \ {id} : rows'[m] = rows[m]
    BY DEF Patched
  <2>2. rows'[id].key = rows[id].key /\ rows'[id].region = rows[id].region /\ rows'[id].quota = rows[id].quota
    BY <1>1, <2>1 DEF Row
  <2>3. QED BY <1>1, <2>1, <2>2
<1>3. Live' = Live
  BY DEF Patched
<1>4. QED BY <1>2, <1>3 DEF RowsShared, SamePool, PoolKey

LEMMA RowsStep == TypeOK /\ RowsShared /\ [Next]_vars => RowsShared'
<1>1. SUFFICES ASSUME TypeOK, RowsShared, [Next]_vars PROVE RowsShared'
  OBVIOUS
<1>2. CASE UNCHANGED rows
  BY <1>1, <1>2 DEF RowsShared, Live
<1>3. ASSUME NEW n \in DOMAIN puts, ServerSave(n) PROVE RowsShared'
  <2>1. UNCHANGED rows \/ \E draft, after : Saves(n, draft, after)
    BY <1>1, <1>3, TypeParts, ServerSaveFact
  <2>2. QED BY <1>1, <1>2, <2>1, SavesShared
<1>4. CASE ServerPatch
  <2>1. UNCHANGED rows \/ \E id, row : Patched(id, row)
    BY <1>1, <1>4, ServerPatchFact
  <2>2. QED BY <1>1, <1>2, <2>1, PatchedShared
<1>5. CASE DraftEdit
  <2>1. PICK draft : Edit(draft)
    BY <1>1, <1>5, TypeParts, DraftEditFact
  <2>2. QED BY <1>2, <2>1 DEF Edit
<1>6. UNCHANGED rows \/ ServerPatch \/ DraftEdit \/ \E n \in DOMAIN puts : ServerSave(n)
  BY <1>1 DEF Next, vars, Reload, OpenPanel, ClosePanel, SavePanel, SaveAnswered, OpenForm, RequestAction,
              SaveForm, CloseForm, PatchAnswered, CancelAction, ConfirmAction
<1>7. QED BY <1>2, <1>3, <1>4, <1>5, <1>6

LEMMA AlwaysStep == AlwaysInv /\ [Next]_vars => AlwaysInv'
BY TypeStep, IdsStep, RowsStep DEF AlwaysInv

LEMMA AlwaysHolds == Spec => []AlwaysInv
<1>1. Init => AlwaysInv
  BY AlwaysInit
<1>2. AlwaysInv /\ [Next]_vars => AlwaysInv'
  BY AlwaysStep
<1>3. QED BY <1>1, <1>2, PTL DEF Spec

-----------------------------------------------------------------------------
(* What one save does.                                                     *)

\* The server's answer is what turns a sent save into a saved one.
LEMMA OnlyServerSaves ==
  ASSUME TypeOK, [Next]_vars, NEW n \in DOMAIN puts, puts[n].st = "sent", puts'[n].st = "saved"
  PROVE  \E draft, after : Saves(n, draft, after)
<1>1. CASE UNCHANGED puts
  BY <1>1
<1>2. CASE SavePanel
  BY <1>2, SentPuts
<1>3. ASSUME NEW m \in DOMAIN puts, SaveAnswered(m)
      PROVE  \E draft, after : Saves(n, draft, after)
  <2>1. m # n
    BY <1>3 DEF SaveAnswered
  <2>2. QED BY <1>3, <2>1, AnsweredPuts
<1>4. ASSUME NEW m \in DOMAIN puts, ServerSave(m)
      PROVE  \E draft, after : Saves(n, draft, after)
  <2>1. CASE puts' = [puts EXCEPT ![m].st = "refused"]
    BY <2>1, RefusedPuts
  <2>2. ASSUME NEW draft, NEW after, Saves(m, draft, after) PROVE m = n
    BY <2>2, SavesPuts
  <2>3. QED BY <1>4, <2>1, <2>2, TypeParts, ServerSaveFact
<1>5. CASE DraftEdit
  <2>1. PICK draft : Edit(draft)
    BY <1>5, TypeParts, DraftEditFact
  <2>2. QED BY <1>1, <2>1 DEF Edit
<1>6. UNCHANGED puts \/ SavePanel \/ DraftEdit \/ \E m \in DOMAIN puts : ServerSave(m) \/ SaveAnswered(m)
  BY DEF Next, vars, Reload, OpenPanel, ClosePanel, OpenForm, RequestAction, SaveForm, CloseForm,
         ServerPatch, PatchAnswered, CancelAction, ConfirmAction
<1>7. QED BY <1>1, <1>2, <1>3, <1>4, <1>5, <1>6

(***************************************************************************)
(* Every entry gets a row of its own.  Two entries could only share a row  *)
(* if the later one has the id of the row; the earlier one would have the  *)
(* same id, or would have taken the row over.                              *)
(***************************************************************************)
LEMMA SavesApart ==
  ASSUME rows \in Seq(Row), NEW draft \in Seq(Entry), NEW after, SaveResult(draft, after),
         DistinctIds(draft), ~TakesOver(draft),
         NEW i \in DOMAIN draft, NEW j \in DOMAIN draft, after.at[i] = after.at[j]
  PROVE  i = j
<1>1. ASSUME NEW k \in DOMAIN draft, NEW l \in DOMAIN draft, k < l, after.at[k] = after.at[l]
      PROVE  FALSE
  <2>1. PICK m : m = after.at[l]
    OBVIOUS
  <2>2. m \in Live /\ m = draft[l].id
    BY <1>1, <2>1 DEF SaveResult
  <2>3. Placed(draft[k], m)
    BY <1>1, <2>1 DEF SaveResult
  <2>4. m # 0 /\ ~(m > Len(rows))
    BY <2>2, LiveFact
  <2>5. draft[k].id # m
    BY <1>1, <2>2, <2>4, DomainOfSeq DEF DistinctIds
  <2>6. draft[k].id = 0 /\ Twins(draft[k]) # {} /\ m = Max(Twins(draft[k]))
    BY <2>3, <2>4, <2>5 DEF Placed
  <2>7. m \in Twins(draft[k])
    BY <2>6, TwinsFact
  <2>8. TakesOver(draft)
    BY <1>1, <2>2, <2>6, <2>7 DEF TakesOver
  <2>9. QED BY <2>8
<1>2. i \in Nat /\ j \in Nat
  BY DomainOfSeq
<1>3. QED BY <1>1, <1>2

LEMMA SavesStores ==
  ASSUME TypeOK, NEW n \in DOMAIN puts, NEW draft, NEW after, Saves(n, draft, after),
         DistinctIds(draft), ~TakesOver(draft)
  PROVE  /\ \A j \in DOMAIN draft :
              /\ after.at[j] \in Live' /\ Holds(rows'[after.at[j]], draft[j])
              /\ draft[j].id \in Live => after.at[j] = draft[j].id
         /\ Live' = {after.at[j] : j \in DOMAIN draft}
         /\ Cardinality(Live') = Len(draft)
<1>1. /\ draft \in Seq(Entry) /\ rows \in Seq(Row) /\ SaveResult(draft, after) /\ rows' = after.rows
      /\ after.at \in Seq(Nat) /\ Len(after.at) = Len(draft)
  BY TypeParts, SavesPuts DEF Saves
<1>2. Live' = LiveOf(after.rows)
  BY <1>1 DEF Live, LiveOf
<1>3. DOMAIN draft = 1..Len(draft) /\ DOMAIN after.at = 1..Len(draft) /\ Len(draft) \in Nat
  BY <1>1, DomainOfSeq
<1>4. \A i, j \in DOMAIN draft : after.at[i] = after.at[j] => i = j
  BY <1>1, SavesApart
<1>5. ASSUME NEW j \in DOMAIN draft
      PROVE  /\ after.at[j] \in Live' /\ Holds(rows'[after.at[j]], draft[j])
             /\ draft[j].id \in Live => after.at[j] = draft[j].id
  <2>1. after.at[j] \in LiveOf(after.rows) /\ Placed(draft[j], after.at[j])
    BY <1>1 DEF SaveResult
  <2>2. PICK k \in DOMAIN draft :
          after.at[k] = after.at[j] /\ after.rows[after.at[j]] = RowFor(draft, draft[k], Before(after.at[j]))
    BY <1>1, <2>1 DEF SaveResult
  <2>3. k = j
    BY <1>4, <2>2
  <2>4. Holds(rows'[after.at[j]], draft[j])
    BY <1>1, <2>2, <2>3 DEF RowFor, Holds, Identity
  <2>5. draft[j].id \in Live => after.at[j] = draft[j].id
    BY <1>1, <2>1, LiveFact DEF Placed
  <2>6. QED BY <1>2, <2>1, <2>4, <2>5
<1>6. \A m \in Live' : \E j \in DOMAIN draft : after.at[j] = m
  BY <1>1, <1>2 DEF SaveResult
<1>7. Live' = {after.at[j] : j \in DOMAIN draft}
  BY <1>5, <1>6
<1>8. Cardinality(Live') = Len(draft)
  <2>1. PICK size, live : size \in Nat /\ size = Len(draft) /\ live = Live'
    BY <1>3
  <2> DEFINE row == [j \in 1..size |-> after.at[j]]
  <2>2. row \in [1..size -> live]
    BY <1>3, <1>5, <2>1
  <2>3. /\ \A i, j \in 1..size : row[i] = row[j] => i = j
        /\ \A m \in live : \E j \in 1..size : row[j] = m
    BY <1>3, <1>4, <1>6, <2>1
  <2> HIDE DEF row
  <2>4. row \in Bijection(1..size, live)
    BY <2>2, <2>3 DEF Bijection, Injection, Surjection, IsInjective
  <2>5. ExistsBijection(1..size, live)
    BY <2>4 DEF ExistsBijection
  <2>6. IsFiniteSet(1..size) /\ Cardinality(1..size) = size
    <3>1. size \in Nat /\ size \in Int /\ 1 \in Int
      BY <2>1
    <3>2. /\ IsFiniteSet(1..size)
          /\ Cardinality(1..size) = IF 1 > size THEN 0 ELSE size - 1 + 1
      BY <3>1, FS_Interval
    <3>3. QED BY <3>1, <3>2
  <2>7. QED BY <2>1, <2>5, <2>6, FS_Bijection
<1>9. QED BY <1>5, <1>7, <1>8

\* A save puts every entry in a row of its own.
LEMMA StoresStep ==
  ASSUME AlwaysInv, [Next]_vars, NEW n \in DOMAIN puts,
         puts[n].st = "sent", puts'[n].st = "saved", ~TakesOver(puts[n].draft)
  PROVE  LET draft == puts'[n].draft
         IN /\ \A j \in DOMAIN draft : /\ Holds(rows'[draft[j].at], draft[j])
                                       /\ draft[j].id \in Live => draft[j].at = draft[j].id
            /\ Live' = {draft[j].at : j \in DOMAIN draft}
            /\ Cardinality(Live') = Len(draft)
<1>1. TypeOK /\ DistinctIds(puts[n].draft)
  BY DEF AlwaysInv, IdsDistinct
<1>2. PICK draft, after : Saves(n, draft, after)
  BY <1>1, OnlyServerSaves
<1>3. draft = puts[n].draft /\ DistinctIds(draft) /\ ~TakesOver(draft)
  BY <1>1, <1>2 DEF Saves
<1>4. PICK new : new = SavedDraft(draft, after.at)
  OBVIOUS
<1>5. /\ draft \in Seq(Entry) /\ after.at \in Seq(Nat) /\ Len(after.at) = Len(draft)
      /\ puts'[n].draft = new
  BY <1>1, <1>2, <1>4, SavesPuts
<1>6. /\ DOMAIN new = DOMAIN draft /\ Len(new) = Len(draft)
      /\ \A j \in DOMAIN draft :
           /\ new[j].id = draft[j].id /\ new[j].at = after.at[j] /\ new[j].key = draft[j].key
           /\ new[j].region = draft[j].region /\ new[j].inst = draft[j].inst
           /\ new[j].quota = draft[j].quota /\ new[j].schedule = draft[j].schedule
  BY <1>4, <1>5, SavedDraftFact, SavedDraftKeeps
<1>7. /\ \A j \in DOMAIN draft :
           /\ after.at[j] \in Live' /\ Holds(rows'[after.at[j]], draft[j])
           /\ draft[j].id \in Live => after.at[j] = draft[j].id
      /\ Live' = {after.at[j] : j \in DOMAIN draft}
      /\ Cardinality(Live') = Len(draft)
  BY <1>1, <1>2, <1>3, SavesStores
<1>8. \A j \in DOMAIN new : Holds(rows'[new[j].at], new[j]) /\ (new[j].id \in Live => new[j].at = new[j].id)
  BY <1>6, <1>7 DEF Holds, Identity
<1>9. Live' = {new[j].at : j \in DOMAIN new} /\ Cardinality(Live') = Len(new)
  BY <1>6, <1>7
<1>10. QED BY <1>5, <1>8, <1>9

\* A save pairs keys with their own secrets.
LEMMA SecretsStep ==
  ASSUME AlwaysInv, [Next]_vars, NEW n \in DOMAIN puts, puts[n].st = "sent", puts'[n].st = "saved",
         \A j \in DOMAIN puts[n].draft : puts[n].draft[j].secret \in {NoSecret, puts[n].draft[j].key},
         \A m \in Live : rows[m].secret = rows[m].key,
         ~BlankKeyChange(puts[n].draft)
  PROVE  \A m \in Live' : rows'[m].secret = rows'[m].key
<1>1. TypeOK
  BY DEF AlwaysInv
<1>2. PICK draft, after : Saves(n, draft, after)
  BY <1>1, OnlyServerSaves
<1>3. /\ draft = puts[n].draft /\ draft \in Seq(Entry) /\ rows \in Seq(Row)
      /\ SaveResult(draft, after) /\ rows' = after.rows /\ after.rows \in Seq(Row)
  BY <1>1, <1>2, TypeParts, SavesPuts, AcceptedRows DEF Saves
<1>4. SUFFICES ASSUME NEW m \in LiveOf(after.rows) PROVE after.rows[m].secret = after.rows[m].key
  BY <1>3 DEF Live, LiveOf
<1>5. PICK j \in DOMAIN draft : after.at[j] = m /\ after.rows[m] = RowFor(draft, draft[j], Before(m))
  BY <1>3 DEF SaveResult
<1>6. PICK a \in Entry : a = draft[j]
  BY <1>3, DomainOfSeq
<1>7. Placed(a, m) /\ after.rows[m] = RowFor(draft, a, Before(m))
  BY <1>3, <1>5, <1>6 DEF SaveResult
<1>8. PICK found : found = Before(m)
  OBVIOUS
<1>9. found = 0 \/ (found \in Live /\ found = m)
  BY <1>8 DEF Before
<1>10. SecretOf(draft, a, found) # NoSecret
  <2>1. m \in DOMAIN after.rows
    BY DEF LiveOf
  <2>2. after.rows[m] \in Row
    BY <1>3, <2>1, DomainOfSeq
  <2>3. after.rows[m].secret # NoSecret
    BY <2>2, SettingsAssumption DEF Row
  <2>4. QED BY <1>7, <1>8, <2>3 DEF RowFor
<1>11. \/ a.secret # NoSecret /\ SecretOf(draft, a, found) = a.secret
       \/ \E k \in DOMAIN draft : /\ draft[k].key = a.key /\ draft[k].secret # NoSecret
                                  /\ SecretOf(draft, a, found) = draft[k].secret
       \/ found # 0 /\ a.secret = NoSecret /\ SecretOf(draft, a, found) = rows[found].secret
       \/ \E l \in Live : rows[l].key = a.key /\ SecretOf(draft, a, found) = rows[l].secret
  BY <1>3, <1>9, <1>10, SecretOfFact
<1>12. SecretOf(draft, a, found) = a.key
  <2>1. CASE a.secret # NoSecret /\ SecretOf(draft, a, found) = a.secret
    BY <1>3, <1>6, <2>1
  <2>2. CASE \E k \in DOMAIN draft : /\ draft[k].key = a.key /\ draft[k].secret # NoSecret
                                     /\ SecretOf(draft, a, found) = draft[k].secret
    BY <1>3, <2>2
  <2>3. CASE found # 0 /\ a.secret = NoSecret /\ SecretOf(draft, a, found) = rows[found].secret
    <3>1. m \in Live /\ found = m /\ SecretOf(draft, a, found) = rows[m].key
      BY <1>9, <2>3
    <3>2. m = a.id \/ m \in Twins(a)
      BY <1>3, <1>7, <3>1, LiveFact, TwinsFact DEF Placed
    <3>3. CASE m = a.id
      BY <1>3, <1>6, <2>3, <3>1, <3>3 DEF BlankKeyChange
    <3>4. CASE m \in Twins(a)
      BY <3>1, <3>4 DEF Twins
    <3>5. QED BY <3>2, <3>3, <3>4
  <2>4. CASE \E l \in Live : rows[l].key = a.key /\ SecretOf(draft, a, found) = rows[l].secret
    BY <2>4
  <2>5. QED BY <1>11, <2>1, <2>2, <2>3, <2>4
<1>13. QED BY <1>7, <1>8, <1>12 DEF RowFor

(***************************************************************************)
(* Every save that the server accepts leaves each entry of the draft in a  *)
(* row of its own and no other row live, whatever was edited, copied and   *)
(* imported (saveAccountsTx), unless an entry takes the row of another.    *)
(***************************************************************************)
THEOREM SettingsStoresEveryEntry == Spec => StoresEveryEntry
<1>1. AlwaysInv /\ [Next]_vars =>
        [\A n \in DOMAIN puts :
           (puts[n].st = "sent" /\ puts'[n].st = "saved" /\ ~TakesOver(puts[n].draft)) =>
              LET draft == puts'[n].draft
              IN /\ \A j \in DOMAIN draft : /\ Holds(rows'[draft[j].at], draft[j])
                                           /\ draft[j].id \in Live => draft[j].at = draft[j].id
                 /\ Live' = {draft[j].at : j \in DOMAIN draft}
                 /\ Cardinality(Live') = Len(draft)]_vars
  BY StoresStep
<1>2. QED BY <1>1, AlwaysHolds, PTL DEF Spec, StoresEveryEntry

\* A save never pairs a key with the secret of another one (saveAccountsTx).
THEOREM SettingsSecretsFit == Spec => SecretsFit
<1>1. AlwaysInv /\ [Next]_vars =>
        [\A n \in DOMAIN puts :
           (/\ puts[n].st = "sent" /\ puts'[n].st = "saved"
            /\ \A j \in DOMAIN puts[n].draft : puts[n].draft[j].secret \in {NoSecret, puts[n].draft[j].key}
            /\ \A m \in Live : rows[m].secret = rows[m].key
            /\ ~BlankKeyChange(puts[n].draft)) =>
              \A m \in Live' : rows'[m].secret = rows'[m].key]_vars
  BY SecretsStep
<1>2. QED BY <1>1, AlwaysHolds, PTL DEF Spec, SecretsFit

-----------------------------------------------------------------------------
(* What holds as long as no saves have overlapped.                         *)

(***************************************************************************)
(* A row holds what an entry says; the schedule of an entry without an id  *)
(* may be older, because the answer of a form does not find the entry.     *)
(***************************************************************************)
Names(row, a) ==
  \/ Holds(row, a)
  \/ a.id = 0 /\ Holds([row EXCEPT !.schedule = a.schedule], a)

\* A list of accounts is what the server holds, with its ids at their own rows.
Agrees(accounts) ==
  /\ \A j \in DOMAIN accounts :
       /\ accounts[j].at \in Live
       /\ Names(rows[accounts[j].at], accounts[j])
       /\ accounts[j].id # 0 => accounts[j].at = accounts[j].id
  /\ Len(accounts) = Cardinality(Live)

KnownIds(accounts) == \A j \in DOMAIN accounts : accounts[j].id # 0 => accounts[j].id \in Live

OneAtATime ==
  /\ patch.st # "none" => \A n \in DOMAIN puts : ~PutInFlight(n)
  /\ \A m, n \in DOMAIN puts : PutInFlight(m) /\ PutInFlight(n) => m = n

PutSaved == \E n \in DOMAIN puts : puts[n].st = "saved"

(***************************************************************************)
(* One save is in flight at a time.  Until the server has answered it, the *)
(* configuration agrees with the table; once it has, the answer does.  The *)
(* draft names no row that is gone, unless an answer is about to close it. *)
(***************************************************************************)
Track ==
  /\ OneAtATime
  /\ ~PutSaved => KnownIds(panel.draft)
  /\ ~PutSaved /\ patch.st # "saved" => Agrees(config)
  /\ patch.st \in {"sent", "saved"} => Agrees(patch.base)
  /\ \A n \in DOMAIN puts : /\ puts[n].st = "sent" => KnownIds(puts[n].draft)
                            /\ puts[n].st = "saved" => Agrees(puts[n].draft)

Shared ==
  /\ SharedQuota(panel.draft) /\ SharedQuota(config) /\ SharedQuota(patch.base)
  /\ \A n \in DOMAIN puts : SharedQuota(puts[n].draft)

SettingsInv == AlwaysInv /\ (~astray => Track /\ Shared) /\ ~misled

\* The names of a list that agrees with the table are names of its rows.
LEMMA AgreesKnown ==
  ASSUME NEW accounts, Agrees(accounts)
  PROVE  KnownIds(accounts)
BY DEF Agrees, KnownIds

\* Entries that rows with shared quotas hold have shared quotas.
LEMMA NamesShared ==
  ASSUME NEW table \in Seq(Row), NEW live, live \subseteq DOMAIN table,
         \A m, n \in live : SamePool(table[m], table[n]) => table[m].quota = table[n].quota,
         NEW accounts,
         \A j \in DOMAIN accounts : accounts[j].at \in live /\ Names(table[accounts[j].at], accounts[j])
  PROVE  SharedQuota(accounts)
<1>1. ASSUME NEW j \in DOMAIN accounts
      PROVE  LET row == table[accounts[j].at]
             IN accounts[j].at \in live /\ row.key = accounts[j].key /\ row.region = accounts[j].region
                /\ row.quota = accounts[j].quota
  <2>1. PICK m \in live : m = accounts[j].at
    OBVIOUS
  <2>2. table[m] \in Row /\ Names(table[m], accounts[j])
    BY <2>1, DomainOfSeq
  <2>3. QED BY <2>1, <2>2 DEF Names, Holds, Identity, Row
<1>2. SUFFICES ASSUME NEW i \in DOMAIN accounts, NEW j \in DOMAIN accounts, SamePool(accounts[i], accounts[j])
               PROVE  accounts[i].quota = accounts[j].quota
  BY DEF SharedQuota
<1>3. PICK l \in live, m \in live : l = accounts[i].at /\ m = accounts[j].at
  BY <1>1
<1>4. SamePool(table[l], table[m])
  BY <1>1, <1>2, <1>3 DEF SamePool, PoolKey
<1>5. QED BY <1>1, <1>3, <1>4

\* A list that agrees with the table keeps the quotas as the table does.
LEMMA AgreesShared ==
  ASSUME rows \in Seq(Row), RowsShared, NEW accounts, Agrees(accounts)
  PROVE  SharedQuota(accounts)
<1>1. Live \subseteq DOMAIN rows
  BY DEF Live
<1>2. QED BY <1>1, NamesShared DEF RowsShared, Agrees

LEMMA LoadedAgrees ==
  ASSUME rows \in Seq(Row)
  PROVE  Agrees(Loaded)
BY LoadedFact DEF Agrees, Names

\* The answer of a form, merged into a list that agreed, agrees with the table of the answer.
LEMMA PatchedAgrees ==
  ASSUME TypeOK, Agrees(patch.base), NEW id, NEW row, Patched(id, row)
  PROVE  Agrees(patch.base)'
<1>1. PICK base \in Seq(Entry) : base = patch.base
  BY TypeParts
<1>2. PICK new : new = Merged(base, row, id)
  OBVIOUS
<1>3. /\ id \in Live /\ id \in Nat /\ id # 0 /\ rows \in Seq(Row) /\ rows[id] \in Row /\ row \in Row
      /\ row = [rows[id] EXCEPT !.schedule = patch.schedule] /\ rows[id].live /\ patch.schedule \in BOOLEAN
  BY TypeParts, LiveFact DEF Patched, Patch, Live
<1>4. /\ Live' = Live /\ rows'[id] = row
      /\ \A m \in Live : m # id => rows'[m] = rows[m]
  BY <1>3, LiveFact DEF Patched
<1>5. DOMAIN new = DOMAIN base /\ Len(new) = Len(base)
  BY <1>2, <1>3, PatchedFact
<1>6. ASSUME NEW j \in DOMAIN new
      PROVE  /\ new[j].at \in Live /\ Names(rows'[new[j].at], new[j])
             /\ new[j].id # 0 => new[j].at = new[j].id
  <2>1. PICK a : a = base[j]
    OBVIOUS
  <2>2. a.at \in Live /\ Names(rows[a.at], a) /\ (a.id # 0 => a.at = a.id)
    BY <1>1, <1>5, <2>1 DEF Agrees
  <2>3. CASE a.id = id
    <3>1. new[j] = [id |-> id, key |-> row.key, region |-> row.region, inst |-> row.inst, quota |-> row.quota,
                    secret |-> a.secret, schedule |-> row.schedule, at |-> id]
      BY <1>2, <1>5, <2>1, <2>3 DEF Merged
    <3>2. row.live
      BY <1>3 DEF Row
    <3>3. Holds(row, new[j])
      BY <3>1, <3>2 DEF Holds, Identity
    <3>4. QED BY <1>3, <1>4, <3>1, <3>3 DEF Names
  <2>4. CASE a.id # id
    <3>1. new[j] = a
      BY <1>2, <1>5, <2>1, <2>4 DEF Merged
    <3>2. CASE a.at # id
      BY <1>4, <2>2, <3>1, <3>2
    <3>3. CASE a.at = id
      <4>1. a.id = 0 /\ Names(rows[id], a)
        BY <1>3, <2>2, <2>4, <3>3
      <4>2. Holds([rows[id] EXCEPT !.schedule = a.schedule], a)
        BY <1>3, <4>1 DEF Names, Holds, Identity, Row
      <4>3. [row EXCEPT !.schedule = a.schedule] = [rows[id] EXCEPT !.schedule = a.schedule]
        BY <1>3 DEF Row
      <4>4. Names(rows'[id], new[j])
        BY <1>4, <3>1, <4>1, <4>2, <4>3 DEF Names
      <4>5. QED BY <2>2, <3>1, <3>3, <4>1, <4>4
    <3>4. QED BY <3>2, <3>3
  <2>5. QED BY <2>3, <2>4
<1>7. Len(new) = Cardinality(Live)
  BY <1>1, <1>5 DEF Agrees
<1>8. patch'.base = new
  BY <1>1, <1>2 DEF Patched
<1>9. QED BY <1>4, <1>6, <1>7, <1>8 DEF Agrees

\* What is known when nothing is in flight.
LEMMA Quiet ==
  ASSUME AlwaysInv, Track, ~InFlight
  PROVE  /\ patch.st = "none" /\ patch.base = <<>> /\ ~PutSaved
         /\ \A n \in DOMAIN puts : puts[n].st = "answered" /\ puts[n].draft = <<>>
         /\ Agrees(config) /\ KnownIds(config) /\ KnownIds(panel.draft)
<1>1. patch.st = "none" /\ \A n \in DOMAIN puts : puts[n].st = "answered"
  BY DEF InFlight, PutInFlight
<1>2. ~PutSaved
  BY <1>1 DEF PutSaved
<1>3. Agrees(config) /\ KnownIds(panel.draft)
  BY <1>1, <1>2 DEF Track
<1>4. QED BY <1>1, <1>2, <1>3, AgreesKnown DEF AlwaysInv, Settled

LEMMA TrackInit == Init => SettingsInv
<1>1. SUFFICES ASSUME Init PROVE SettingsInv
  OBVIOUS
<1>2. AlwaysInv /\ rows \in Seq(Row) /\ RowsShared
  BY <1>1, AlwaysInit, TypeParts DEF AlwaysInv
<1>3. Agrees(config) /\ SharedQuota(config)
  BY <1>1, <1>2, LoadedAgrees, AgreesShared DEF Init
<1>4. panel.draft = <<>> /\ patch.base = <<>> /\ patch.st = "none" /\ DOMAIN puts = {} /\ ~misled
  BY <1>1 DEF Init, ClosedPanel, NoPatch
<1>5. KnownIds(<<>>)
  BY DEF KnownIds
<1>6. Track
  BY <1>3, <1>4, <1>5 DEF Track, OneAtATime
<1>7. Shared
  BY <1>3, <1>4, NoIds DEF Shared
<1>8. QED BY <1>2, <1>4, <1>6, <1>7 DEF SettingsInv

\* A step that leaves the table and the lists alone.
LEMMA TrackFrame ==
  ASSUME UNCHANGED <<rows, config, panel, puts, patch>>, Track, Shared
  PROVE  Track' /\ Shared'
BY DEF Track, Shared, OneAtATime, PutSaved, PutInFlight, Agrees, KnownIds, Live

LEMMA TrackReload ==
  ASSUME AlwaysInv, Reload
  PROVE  Track' /\ Shared'
<1>1. /\ patch.st = "none" /\ \A n \in DOMAIN puts : puts[n].st = "answered"
      /\ UNCHANGED <<rows, puts, patch>> /\ panel'.draft = <<>>
  BY DEF Reload, InFlight, PutInFlight, ClosedPanel
<1>2. patch.base = <<>> /\ \A n \in DOMAIN puts : puts[n].draft = <<>>
  BY <1>1 DEF AlwaysInv, Settled
<1>3. PICK list : list = Loaded
  OBVIOUS
<1>4. Agrees(list) /\ SharedQuota(list) /\ config' = list
  BY <1>3, LoadedAgrees, AgreesShared, TypeParts DEF AlwaysInv, Reload
<1>5. Agrees(config)'
  BY <1>1, <1>4 DEF Agrees, Live
<1>6. KnownIds(panel.draft)'
  BY <1>1 DEF KnownIds
<1>7. Track'
  BY <1>1, <1>5, <1>6 DEF Track, OneAtATime, PutInFlight
<1>8. Shared'
  BY <1>1, <1>2, <1>4, NoIds DEF Shared
<1>9. QED BY <1>7, <1>8

\* The panel opens with a configuration that agrees with the table.
LEMMA TrackOpen ==
  ASSUME AlwaysInv, Track, Shared, OpenPanel, ~astray'
  PROVE  Track' /\ Shared'
<1>1. /\ ~InFlight /\ UNCHANGED <<rows, config, puts, patch>> /\ panel'.draft = config
  BY DEF OpenPanel
<1>2. KnownIds(config)
  BY <1>1, Quiet
<1>3. KnownIds(panel.draft)'
  BY <1>1, <1>2 DEF KnownIds, Live
<1>4. Track'
  BY <1>1, <1>3 DEF Track, OneAtATime, PutInFlight, PutSaved, Agrees, KnownIds, Live
<1>5. Shared'
  BY <1>1 DEF Shared
<1>6. QED BY <1>4, <1>5

\* A step that only changes the draft of the panel, to one of known ids.
LEMMA TrackDraft ==
  ASSUME Track, Shared, UNCHANGED <<rows, config, puts, patch>>,
         KnownIds(panel.draft) => KnownIds(panel.draft)', SharedQuota(panel'.draft)
  PROVE  Track' /\ Shared'
<1>1. ~PutSaved' => KnownIds(panel.draft)'
  BY DEF Track, PutSaved
<1>2. Track'
  <2>1. OneAtATime'
    BY DEF Track, OneAtATime, PutInFlight
  <2>2. ~PutSaved' /\ patch'.st # "saved" => Agrees(config)'
    BY DEF Track, PutSaved, Agrees, Live
  <2>3. patch'.st \in {"sent", "saved"} => Agrees(patch.base)'
    BY DEF Track, Agrees, Live
  <2>4. ASSUME NEW n \in DOMAIN puts'
        PROVE  /\ puts'[n].st = "sent" => KnownIds(puts[n].draft)'
               /\ puts'[n].st = "saved" => Agrees(puts[n].draft)'
    BY DEF Track, Agrees, KnownIds, Live
  <2>5. QED BY <1>1, <2>1, <2>2, <2>3, <2>4 DEF Track
<1>3. Shared'
  BY DEF Shared
<1>4. QED BY <1>2, <1>3

LEMMA TrackEdit ==
  ASSUME AlwaysInv, Track, Shared, DraftEdit
  PROVE  Track' /\ Shared'
<1>1. PICK draft : EditOf(draft, panel.draft) /\ Edit(draft)
  BY TypeParts, DraftEditFact DEF AlwaysInv
<1>2. UNCHANGED <<rows, config, puts, patch>> /\ panel'.draft = draft
  BY <1>1, TypeParts DEF Edit, AlwaysInv
<1>3. SharedQuota(panel'.draft)
  BY <1>1, <1>2 DEF EditOf, Shared
<1>4. KnownIds(panel.draft) => KnownIds(panel.draft)'
  BY <1>1, <1>2 DEF EditOf, KnownIds, Live
<1>5. QED BY <1>2, <1>3, <1>4, TrackDraft

\* A save is sent while nothing is in flight.
LEMMA TrackSend ==
  ASSUME AlwaysInv, Track, Shared, SavePanel, ~astray'
  PROVE  Track' /\ Shared'
<1>1. /\ ~InFlight /\ UNCHANGED <<rows, config, patch>>
  BY DEF SavePanel
<1>2. /\ patch.st = "none" /\ \A n \in DOMAIN puts : puts[n].st = "answered"
      /\ Agrees(config) /\ KnownIds(panel.draft)
  BY <1>1, Quiet
<1>3. PICK new : new = Len(puts) + 1
  OBVIOUS
<1>4. /\ DOMAIN puts' = DOMAIN puts \union {new} /\ new \notin DOMAIN puts
      /\ puts'[new].st = "sent" /\ puts'[new].draft = panel.draft
      /\ \A m \in DOMAIN puts : puts'[m] = puts[m]
      /\ panel'.draft = panel.draft
  BY <1>3, SentPuts DEF AlwaysInv
<1>5. OneAtATime'
  BY <1>1, <1>2, <1>4 DEF OneAtATime, PutInFlight
<1>6. KnownIds(panel.draft)' /\ Agrees(config)'
  BY <1>1, <1>2, <1>4 DEF KnownIds, Agrees, Live
<1>7. \A n \in DOMAIN puts' : /\ puts'[n].st = "sent" => puts'[n].draft = panel'.draft
                              /\ puts'[n].st # "saved"
  BY <1>2, <1>4
<1>8. \A n \in DOMAIN puts' : puts'[n].st = "sent" => KnownIds(puts[n].draft)'
  BY <1>6, <1>7 DEF KnownIds
<1>9. Track'
  BY <1>1, <1>2, <1>5, <1>6, <1>7, <1>8 DEF Track
<1>10. Shared'
  BY <1>1, <1>4 DEF Shared
<1>11. QED BY <1>9, <1>10

\* A save that is sent is the only one that is in flight.
LEMMA Alone ==
  ASSUME Track, NEW n \in DOMAIN puts, PutInFlight(n)
  PROVE  /\ patch.st = "none"
         /\ \A m \in DOMAIN puts \ {n} : puts[m].st = "answered"
BY DEF Track, OneAtATime, PutInFlight

LEMMA TrackRefused ==
  ASSUME AlwaysInv, Track, Shared, NEW n \in DOMAIN puts, puts[n].st = "sent",
         puts' = [puts EXCEPT ![n].st = "refused"], UNCHANGED <<rows, config, panel, patch>>
  PROVE  Track' /\ Shared'
<1>1. /\ DOMAIN puts' = DOMAIN puts /\ puts'[n].st = "refused" /\ puts'[n].draft = puts[n].draft
      /\ \A m \in DOMAIN puts \ {n} : puts'[m] = puts[m]
  BY RefusedPuts DEF AlwaysInv
<1>2. patch.st = "none" /\ \A m \in DOMAIN puts \ {n} : puts[m].st = "answered"
  BY Alone DEF PutInFlight
<1>3. ~PutSaved
  BY <1>2 DEF PutSaved
<1>4. OneAtATime'
  BY <1>1, <1>2 DEF OneAtATime, PutInFlight
<1>5. KnownIds(panel.draft)' /\ Agrees(config)'
  BY <1>2, <1>3 DEF Track, KnownIds, Agrees, Live
<1>6. Track'
  BY <1>1, <1>2, <1>4, <1>5 DEF Track
<1>7. Shared'
  BY <1>1 DEF Shared
<1>8. QED BY <1>6, <1>7

\* After an accepted save, the answer is what the server holds.
LEMMA TrackSaved ==
  ASSUME AlwaysInv, Track, Shared, NEW n \in DOMAIN puts, puts[n].st = "sent",
         NEW draft, NEW after, Saves(n, draft, after), UNCHANGED <<config, panel, patch>>, ~astray'
  PROVE  Track' /\ Shared'
<1>1. /\ draft \in Seq(Entry) /\ after.at \in Seq(Nat) /\ Len(after.at) = Len(draft)
      /\ DOMAIN puts' = DOMAIN puts
      /\ puts'[n].st = "saved" /\ puts'[n].draft = SavedDraft(draft, after.at)
      /\ \A m \in DOMAIN puts \ {n} : puts'[m] = puts[m]
  BY SavesPuts DEF AlwaysInv
<1>2. patch.st = "none" /\ \A m \in DOMAIN puts \ {n} : puts[m].st = "answered"
  BY Alone DEF PutInFlight
<1>3. draft = puts[n].draft /\ DistinctIds(draft) /\ ~TakesOver(draft) /\ KnownIds(draft) /\ SharedQuota(draft)
  BY DEF Saves, AlwaysInv, IdsDistinct, Track, Shared
<1>4. /\ \A j \in DOMAIN draft :
           /\ after.at[j] \in Live' /\ Holds(rows'[after.at[j]], draft[j])
           /\ draft[j].id \in Live => after.at[j] = draft[j].id
      /\ Cardinality(Live') = Len(draft)
  BY <1>3, SavesStores DEF AlwaysInv
<1>5. PICK new : new = SavedDraft(draft, after.at)
  OBVIOUS
<1>6. /\ DOMAIN new = DOMAIN draft /\ Len(new) = Len(draft) /\ SharedQuota(new)
      /\ \A j \in DOMAIN draft :
           /\ new[j].id = draft[j].id /\ new[j].at = after.at[j] /\ new[j].key = draft[j].key
           /\ new[j].region = draft[j].region /\ new[j].inst = draft[j].inst
           /\ new[j].quota = draft[j].quota /\ new[j].schedule = draft[j].schedule
  BY <1>1, <1>3, <1>5, SavedDraftFact, SavedDraftKeeps
<1>7. \A j \in DOMAIN new :
        /\ new[j].at \in Live' /\ Names(rows'[new[j].at], new[j])
        /\ new[j].id # 0 => new[j].at = new[j].id
  <2>1. \A j \in DOMAIN new : new[j].id # 0 => new[j].id \in Live
    BY <1>3, <1>6 DEF KnownIds
  <2>2. \A j \in DOMAIN new : Holds(rows'[new[j].at], new[j])
    BY <1>4, <1>6 DEF Holds, Identity
  <2>3. QED BY <1>4, <1>6, <2>1, <2>2 DEF Names
<1>8. Agrees(puts[n].draft)'
  BY <1>1, <1>4, <1>5, <1>6, <1>7 DEF Agrees
<1>9. OneAtATime' /\ PutSaved'
  BY <1>1, <1>2 DEF OneAtATime, PutInFlight, PutSaved
<1>10. \A m \in DOMAIN puts' : /\ puts'[m].st # "sent"
                               /\ puts'[m].st = "saved" => m = n
  BY <1>1, <1>2
<1>11. Track'
  BY <1>2, <1>8, <1>9, <1>10 DEF Track
<1>12. Shared'
  BY <1>1, <1>5, <1>6 DEF Shared
<1>13. QED BY <1>11, <1>12

\* The answer of a save becomes the configuration.
LEMMA TrackAnswered ==
  ASSUME AlwaysInv, Track, Shared, NEW n \in DOMAIN puts, SaveAnswered(n)
  PROVE  Track' /\ Shared'
<1>1. /\ DOMAIN puts' = DOMAIN puts /\ puts'[n].st = "answered" /\ puts'[n].draft = <<>>
      /\ \A m \in DOMAIN puts \ {n} : puts'[m] = puts[m]
      /\ UNCHANGED <<rows, patch>>
  BY AnsweredPuts DEF AlwaysInv, SaveAnswered
<1>2. patch.st = "none" /\ \A m \in DOMAIN puts \ {n} : puts[m].st = "answered"
  BY Alone DEF PutInFlight, SaveAnswered
<1>3. \A m \in DOMAIN puts' : puts'[m].st = "answered"
  BY <1>1, <1>2
<1>4. OneAtATime' /\ ~PutSaved'
  BY <1>3 DEF OneAtATime, PutInFlight, PutSaved
<1>5. KnownIds(panel.draft)' /\ Agrees(config)' /\ SharedQuota(panel'.draft) /\ SharedQuota(config')
  <2>1. CASE puts[n].st = "saved"
    <3>1. config' = puts[n].draft /\ panel'.draft = <<>>
      BY <2>1 DEF SaveAnswered, ClosedPanel
    <3>2. Agrees(puts[n].draft) /\ SharedQuota(puts[n].draft)
      BY <2>1 DEF Track, Shared
    <3>3. KnownIds(panel.draft)'
      BY <3>1 DEF KnownIds
    <3>4. QED BY <1>1, <3>1, <3>2, <3>3, NoIds DEF Agrees, Live
  <2>2. CASE puts[n].st # "saved"
    <3>1. UNCHANGED <<config, panel>>
      BY <2>2 DEF SaveAnswered
    <3>2. ~PutSaved
      BY <1>2, <2>2 DEF PutSaved
    <3>3. KnownIds(panel.draft) /\ Agrees(config)
      BY <1>2, <3>2 DEF Track
    <3>4. QED BY <1>1, <3>1, <3>3 DEF Agrees, KnownIds, Live, Shared
  <2>3. QED BY <2>1, <2>2
<1>6. Track'
  BY <1>1, <1>2, <1>3, <1>4, <1>5 DEF Track
<1>7. Shared'
  BY <1>1, <1>5, NoIds DEF Shared
<1>8. QED BY <1>6, <1>7

\* A form is sent with the configuration of a moment at which nothing is in flight.
LEMMA TrackForm ==
  ASSUME AlwaysInv, Track, Shared, NEW value, SaveForm(value), ~astray'
  PROVE  Track' /\ Shared'
<1>1. /\ ~InFlight /\ UNCHANGED <<rows, config, panel, puts>>
      /\ patch'.st = "sent" /\ patch'.base = config
  BY DEF SaveForm
<1>2. (\A n \in DOMAIN puts : puts[n].st = "answered") /\ Agrees(config) /\ KnownIds(panel.draft)
  BY <1>1, Quiet
<1>3. Agrees(config)' /\ Agrees(patch.base)' /\ KnownIds(panel.draft)'
  BY <1>1, <1>2 DEF Agrees, KnownIds, Live
<1>4. OneAtATime'
  BY <1>1, <1>2 DEF OneAtATime, PutInFlight
<1>5. Track'
  BY <1>1, <1>2, <1>3, <1>4 DEF Track
<1>6. Shared'
  BY <1>1 DEF Shared
<1>7. QED BY <1>5, <1>6

LEMMA TrackPatch ==
  ASSUME AlwaysInv, Track, Shared, RowsShared', rows' \in Seq(Row), ServerPatch
  PROVE  Track' /\ Shared'
<1>1. TypeOK
  BY DEF AlwaysInv
<1>2. patch.st = "sent" /\ UNCHANGED <<config, panel, puts>>
  BY <1>1, ServerPatchFact
<1>3. \A n \in DOMAIN puts : puts[n].st = "answered"
  BY <1>2 DEF Track, OneAtATime, PutInFlight
<1>4. ~PutSaved
  BY <1>3 DEF PutSaved
<1>5. Agrees(config) /\ KnownIds(panel.draft) /\ Agrees(patch.base)
  BY <1>2, <1>4 DEF Track
<1>6. OneAtATime'
  BY <1>2, <1>3 DEF OneAtATime, PutInFlight
<1>7. CASE patch'.st = "refused" /\ patch'.base = patch.base /\ UNCHANGED rows
  <2>1. Agrees(config)' /\ KnownIds(panel.draft)'
    BY <1>2, <1>5, <1>7 DEF Agrees, KnownIds, Live
  <2>2. Track'
    BY <1>2, <1>3, <1>6, <1>7, <2>1 DEF Track
  <2>3. QED BY <1>2, <1>7, <2>2 DEF Shared
<1>8. CASE \E id, row : Patched(id, row)
  <2>1. PICK id, row : Patched(id, row)
    BY <1>8
  <2>2. patch'.st = "saved" /\ Live' = Live
    BY <2>1 DEF Patched
  <2>3. Agrees(patch.base)'
    BY <1>1, <1>5, <2>1, PatchedAgrees
  <2>4. KnownIds(panel.draft)'
    BY <1>2, <1>5, <2>2 DEF KnownIds
  <2>5. Track'
    BY <1>2, <1>3, <1>6, <2>2, <2>3, <2>4 DEF Track
  <2>6. SharedQuota(patch'.base)
    <3>1. PICK table, live, base :
           table \in Seq(Row) /\ table = rows' /\ live = Live' /\ base = patch'.base
      OBVIOUS
    <3>2. live \subseteq DOMAIN table
      BY <3>1 DEF Live
    <3>3. \A m, n \in live : SamePool(table[m], table[n]) => table[m].quota = table[n].quota
      BY <3>1 DEF RowsShared
    <3>4. \A j \in DOMAIN base : base[j].at \in live /\ Names(table[base[j].at], base[j])
      BY <2>3, <3>1 DEF Agrees
    <3>5. SharedQuota(base)
      BY <3>1, <3>2, <3>3, <3>4, NamesShared
    <3>6. QED BY <3>1, <3>5
  <2>7. QED BY <1>2, <2>5, <2>6 DEF Shared
<1>9. QED BY <1>1, <1>7, <1>8, ServerPatchFact

LEMMA TrackPatchAnswered ==
  ASSUME AlwaysInv, Track, Shared, PatchAnswered
  PROVE  Track' /\ Shared'
<1>1. /\ patch.st \in {"saved", "refused"} /\ UNCHANGED <<rows, panel, puts>>
      /\ patch'.st = "none" /\ patch'.base = <<>>
  BY DEF PatchAnswered, NoPatch
<1>2. \A n \in DOMAIN puts : puts[n].st = "answered"
  BY <1>1 DEF Track, OneAtATime, PutInFlight
<1>3. ~PutSaved
  BY <1>2 DEF PutSaved
<1>4. Agrees(config)' /\ SharedQuota(config')
  <2>1. CASE patch.st = "saved"
    <3>1. config' = patch.base /\ Agrees(patch.base) /\ SharedQuota(patch.base)
      BY <2>1 DEF PatchAnswered, Track, Shared
    <3>2. QED BY <1>1, <3>1 DEF Agrees, Live
  <2>2. CASE patch.st = "refused"
    <3>1. config' = config /\ Agrees(config) /\ SharedQuota(config)
      BY <1>3, <2>2 DEF PatchAnswered, Track, Shared
    <3>2. QED BY <1>1, <3>1 DEF Agrees, Live
  <2>3. QED BY <1>1, <2>1, <2>2
<1>5. KnownIds(panel.draft)'
  BY <1>1, <1>3 DEF Track, KnownIds, Live
<1>6. Track'
  BY <1>1, <1>2, <1>4, <1>5 DEF Track, OneAtATime, PutInFlight
<1>7. Shared'
  BY <1>1, <1>4, NoIds DEF Shared
<1>8. QED BY <1>6, <1>7

\* Only a new page forgets that saves have overlapped.
LEMMA AstrayStays ==
  ASSUME AlwaysInv, [Next]_vars, ~astray'
  PROVE  ~astray \/ Reload
<1>1. CASE UNCHANGED astray
  BY <1>1
<1>2. ASSUME NEW n \in DOMAIN puts, ServerSave(n) PROVE ~astray
  <2>1. UNCHANGED astray \/ \E draft, after : Saves(n, draft, after)
    BY <1>2, TypeParts, ServerSaveFact DEF AlwaysInv
  <2>2. QED BY <2>1 DEF Saves
<1>3. CASE DraftEdit
  <2>1. PICK draft : Edit(draft)
    BY <1>3, TypeParts, DraftEditFact DEF AlwaysInv
  <2>2. QED BY <1>1, <2>1 DEF Edit
<1>4. \/ UNCHANGED astray \/ ~astray \/ Reload \/ DraftEdit
      \/ \E n \in DOMAIN puts : ServerSave(n)
  BY DEF Next, vars, OpenPanel, ClosePanel, SavePanel, SaveAnswered, OpenForm, RequestAction,
         SaveForm, CloseForm, ServerPatch, PatchAnswered, CancelAction, ConfirmAction
<1>5. QED BY <1>1, <1>2, <1>3, <1>4

LEMMA TrackStep ==
  ASSUME AlwaysInv, ~astray => Track /\ Shared, [Next]_vars, ~astray'
  PROVE  Track' /\ Shared'
<1>1. CASE Reload
  BY <1>1, TrackReload
<1>2. SUFFICES ASSUME ~Reload PROVE Track' /\ Shared'
  BY <1>1
<1>3. Track /\ Shared
  BY <1>2, AstrayStays
<1>4. CASE OpenPanel
  BY <1>3, <1>4, TrackOpen
<1>5. CASE ClosePanel
  <2>1. UNCHANGED <<rows, config, puts, patch>> /\ panel'.draft = <<>>
    BY <1>5 DEF ClosePanel, ClosedPanel
  <2>2. KnownIds(panel.draft)' /\ SharedQuota(panel'.draft)
    BY <2>1, NoIds DEF KnownIds
  <2>3. QED BY <1>3, <2>1, <2>2, TrackDraft
<1>6. CASE DraftEdit
  BY <1>3, <1>6, TrackEdit
<1>7. CASE SavePanel
  BY <1>3, <1>7, TrackSend
<1>8. ASSUME NEW n \in DOMAIN puts, ServerSave(n) PROVE Track' /\ Shared'
  <2>1. /\ puts[n].st = "sent" /\ UNCHANGED <<config, panel, patch>>
        /\ \/ \E draft, after : Saves(n, draft, after)
           \/ puts' = [puts EXCEPT ![n].st = "refused"] /\ UNCHANGED rows
    BY <1>8, TypeParts, ServerSaveFact DEF AlwaysInv
  <2>2. QED BY <1>3, <2>1, TrackSaved, TrackRefused
<1>9. ASSUME NEW n \in DOMAIN puts, SaveAnswered(n) PROVE Track' /\ Shared'
  BY <1>3, <1>9, TrackAnswered
<1>10. ASSUME NEW value \in BOOLEAN, SaveForm(value) PROVE Track' /\ Shared'
  BY <1>3, <1>10, TrackForm
<1>11. CASE ServerPatch
  <2>1. RowsShared' /\ rows' \in Seq(Row)
    BY AlwaysStep DEF AlwaysInv, TypeOK
  <2>2. QED BY <1>3, <1>11, <2>1, TrackPatch
<1>12. CASE PatchAnswered
  BY <1>3, <1>12, TrackPatchAnswered
<1>13. CASE UNCHANGED <<rows, config, panel, puts, patch>>
  BY <1>3, <1>13, TrackFrame
<1>14. ASSUME NEW id \in Live, OpenForm(id) \/ RequestAction(id) PROVE Track' /\ Shared'
  BY <1>13, <1>14 DEF OpenForm, RequestAction
<1>15. CASE CloseForm \/ CancelAction \/ ConfirmAction \/ UNCHANGED vars
  BY <1>13, <1>15 DEF CloseForm, CancelAction, ConfirmAction, vars
<1>16. QED
  BY <1>2, <1>4, <1>5, <1>6, <1>7, <1>8, <1>9, <1>10, <1>11, <1>12, <1>14, <1>15 DEF Next

(***************************************************************************)
(* A confirmed action reaches the instance that was shown: the entry that  *)
(* the dialog looks up has the id of a live row, and agrees with it.       *)
(***************************************************************************)
LEMMA ConfirmStep ==
  ASSUME AlwaysInv, ~astray => Track /\ Shared, ~misled, ConfirmAction
  PROVE  ~misled'
<1>1. SUFFICES ASSUME Unchanged, dialog.id \in Live, dialog.inst # NoInst, ~astray, ~InFlight
               PROVE  rows[dialog.id].inst = dialog.inst
  BY DEF ConfirmAction
<1>2. Agrees(config) /\ rows \in Seq(Row) /\ config \in Seq(Entry)
  BY <1>1, Quiet, TypeParts DEF AlwaysInv
<1>3. PICK id : id = dialog.id
  OBVIOUS
<1>4. ConfigOf(id) # {} /\ config[Min(ConfigOf(id))].inst = dialog.inst
  BY <1>1, <1>3 DEF Unchanged, InstanceShown
<1>5. ConfigOf(id) \subseteq Nat
  BY <1>2, DomainOfSeq DEF ConfigOf
<1>6. PICK j \in ConfigOf(id) : config[j].inst = dialog.inst
  BY <1>4, <1>5, MinFact
<1>7. j \in DOMAIN config /\ config[j].id = id /\ id # 0
  BY <1>1, <1>2, <1>3, LiveFact DEF ConfigOf
<1>8. Names(rows[id], config[j])
  BY <1>2, <1>7 DEF Agrees
<1>9. rows[id].inst = config[j].inst
  BY <1>7, <1>8 DEF Names, Holds, Identity
<1>10. QED BY <1>3, <1>6, <1>9

LEMMA MisledStep ==
  ASSUME AlwaysInv, ~astray => Track /\ Shared, ~misled, [Next]_vars
  PROVE  ~misled'
<1>1. CASE UNCHANGED misled
  BY <1>1
<1>2. CASE ConfirmAction
  BY <1>2, ConfirmStep
<1>3. CASE DraftEdit
  <2>1. PICK draft : Edit(draft)
    BY <1>3, TypeParts, DraftEditFact DEF AlwaysInv
  <2>2. QED BY <1>1, <2>1 DEF Edit
<1>4. UNCHANGED misled \/ ConfirmAction \/ DraftEdit
  BY DEF Next, vars, Reload, OpenPanel, ClosePanel, SavePanel, ServerSave, SaveAnswered, OpenForm, RequestAction,
         SaveForm, CloseForm, ServerPatch, PatchAnswered, CancelAction
<1>5. QED BY <1>1, <1>2, <1>3, <1>4

LEMMA SettingsHold == Spec => []SettingsInv
<1>1. Init => SettingsInv
  BY TrackInit
<1>2. SettingsInv /\ [Next]_vars => SettingsInv'
  BY AlwaysStep, TrackStep, MisledStep DEF SettingsInv
<1>3. QED BY <1>1, <1>2, PTL DEF Spec

(***************************************************************************)
(* The accounts of a pool keep one quota: in the table always, and in the  *)
(* draft, the configuration and the saves as long as no saves overlap      *)
(* (updateTrafficAccount, saveAccountsTx).                                 *)
(***************************************************************************)
THEOREM SettingsQuotasShared == Spec => []QuotasShared
<1>1. SettingsInv => QuotasShared
  BY DEF SettingsInv, AlwaysInv, RowsShared, Shared, QuotasShared
<1>2. QED BY <1>1, SettingsHold, PTL

(***************************************************************************)
(* When nothing is in flight and no saves have overlapped, the console's   *)
(* configuration is what the server holds (onSaved of the panel and of the *)
(* form).                                                                  *)
(***************************************************************************)
THEOREM SettingsConfigAgrees == Spec => []ConfigAgrees
<1>1. SettingsInv => ConfigAgrees
  <2>1. SUFFICES ASSUME SettingsInv, ~astray, ~InFlight PROVE ConfigAgrees
    BY DEF ConfigAgrees
  <2>2. Agrees(config)
    BY <2>1, Quiet DEF SettingsInv
  <2>3. QED BY <2>2 DEF Agrees, Names, ConfigAgrees
<1>2. QED BY <1>1, SettingsHold, PTL

\* A confirmed start or stop reaches the instance that the dialog named (confirmAction).
THEOREM SettingsActsOnShown == Spec => []ActsOnShown
<1>1. SettingsInv => ActsOnShown
  BY DEF SettingsInv, ActsOnShown
<1>2. QED BY <1>1, SettingsHold, PTL
=============================================================================
