---------------------------- MODULE ConsoleSettings ----------------------------
(***************************************************************************)
(* The accounts as an administrator edits them: the console's copy of the  *)
(* configuration, the draft of the settings panel, the form of one         *)
(* instance, the dialog that confirms a start or stop, the requests that   *)
(* save, and the accounts table they save to (App.tsx, traffic.ts and      *)
(* store/config.go).                                                       *)
(*                                                                         *)
(* A panel or a form that is waiting for its answer can be closed, and the *)
(* answer is still handled when it comes.  Answers of requests that are in *)
(* flight together come in any order.                                      *)
(***************************************************************************)
EXTENDS TrafficPools

CONSTANTS
  Key, Region, Inst,    \* the AccessKey IDs, regions and instance IDs one can enter
  HongKong,             \* the region of a new entry
  Typed,                \* the quotas an administrator types
  NoInst, NoSecret,     \* a blank instance ID; a blank secret
  Stored,               \* the accounts stored at first: sequences of rows
  Discovered,           \* what a discovery lists: sequences of regions with instances
  MaxAccounts,          \* MAX_ACCOUNTS
  MaxEdits,             \* bounds the edits of a behaviour
  MaxSaves              \* bounds the saves of a behaviour, of the panel and of a form

ASSUME SettingsAssumption ==
  /\ Mainland \subseteq Region /\ HongKong \in Region \ Mainland
  /\ NoKey \notin Key /\ NoInst \notin Inst /\ NoSecret \notin Key
  /\ ChinaQuota \in Nat \ {0} /\ AbroadQuota \in Nat \ {0} /\ Typed \subseteq Nat \ {0}
  /\ MaxAccounts \in Nat \ {0} /\ MaxEdits \in Nat /\ MaxSaves \in Nat

VARIABLES
  rows,      \* the accounts table: row n is the account with the id n
  config,    \* the accounts of the console's configuration
  panel,     \* the settings panel: open, its draft, and its own save (0: none)
  puts,      \* the saves of the panel, in the order they were started
  form,      \* the form of one instance: open, the account's id
  patch,     \* its request
  dialog,    \* the dialog that confirms an action: open, the account's id, the instance shown
  edits,     \* the number of edits so far
  saves,     \* the number of saves so far
  astray,    \* whether saves have overlapped, or one entry was saved over another
  misled     \* whether a confirmed action reached another instance than was shown

vars == <<rows, config, panel, puts, form, patch, dialog, edits, saves, astray, misled>>

Quota == {ChinaQuota, AbroadQuota} \union Typed

(***************************************************************************)
(* An entry of a configuration or a draft.  A secret is named by the key   *)
(* it belongs to; schedule stands for the settings that the panel and the  *)
(* form of an instance both edit.  at is not in the program: the row that  *)
(* holds the entry since it was last read or saved, or 0.                  *)
(***************************************************************************)
Entry == [id : Nat, key : Key \union {NoKey}, region : Region, inst : Inst \union {NoInst},
          quota : Quota, secret : Key \union {NoSecret}, schedule : BOOLEAN, at : Nat]

Row == [live : BOOLEAN, key : Key, region : Region, inst : Inst \union {NoInst},
        quota : Quota, secret : Key, schedule : BOOLEAN]

\* What the server stores and the cloud lists: the accounts of a pool have one quota.
ASSUME StoredAssumption ==
  /\ \A table \in Stored :
       /\ table \in Seq(Row)
       /\ \A m, n \in DOMAIN table :
            SamePool(table[m], table[n]) /\ table[m].live /\ table[n].live => table[m].quota = table[n].quota
  /\ \A found \in Discovered : found \in Seq([region : Region, inst : Inst])

Live == {n \in DOMAIN rows : rows[n].live}

\* GET /config: the live rows, with their secrets left out.
Loaded == LET ids == InOrder(Live)
          IN [j \in DOMAIN ids |->
                LET row == rows[ids[j]]
                IN [id |-> ids[j], key |-> row.key, region |-> row.region, inst |-> row.inst,
                    quota |-> row.quota, secret |-> NoSecret, schedule |-> row.schedule, at |-> ids[j]]]

EmptyAccount ==
  [id |-> 0, key |-> NoKey, region |-> HongKong, inst |-> NoInst, quota |-> AbroadQuota,
   secret |-> NoSecret, schedule |-> FALSE, at |-> 0]

ClosedPanel == [open |-> FALSE, draft |-> <<>>, save |-> 0]
ClosedForm == [open |-> FALSE, id |-> 0]
NoPatch == [st |-> "none", id |-> 0, schedule |-> FALSE, base |-> <<>>]
NoDialog == [open |-> FALSE, id |-> 0, inst |-> NoInst]

PutInFlight(n) == puts[n].st # "answered"
InFlight == patch.st # "none" \/ \E n \in DOMAIN puts : PutInFlight(n)

Init ==
  /\ rows \in Stored
  /\ config = Loaded
  /\ panel = ClosedPanel /\ puts = <<>>
  /\ form = ClosedForm /\ patch = NoPatch
  /\ dialog = NoDialog
  /\ edits = 0 /\ saves = 0 /\ astray = FALSE /\ misled = FALSE

\* A page that is loaded again reads the configuration and forgets the rest.
Reload ==
  /\ ~InFlight
  /\ config' = Loaded
  /\ panel' = ClosedPanel /\ form' = ClosedForm /\ dialog' = NoDialog
  /\ astray' = FALSE
  /\ UNCHANGED <<rows, puts, patch, edits, saves, misled>>

\* The panel, the form and the dialog cover the dashboard they are opened from.
DashboardFree == ~panel.open /\ ~form.open /\ ~dialog.open

-----------------------------------------------------------------------------
(* The draft of the settings panel.                                        *)

OpenPanel ==
  /\ DashboardFree
  /\ panel' = [open |-> TRUE, draft |-> config, save |-> 0]
  /\ astray' = (astray \/ InFlight)
  /\ UNCHANGED <<rows, config, puts, form, patch, dialog, edits, saves, misled>>

ClosePanel ==
  /\ panel.open
  /\ panel' = ClosedPanel
  /\ UNCHANGED <<rows, config, puts, form, patch, dialog, edits, astray, saves, misled>>

Edit(draft) ==
  /\ panel.open /\ edits < MaxEdits
  /\ draft # panel.draft
  /\ panel' = [panel EXCEPT !.draft = draft]
  /\ edits' = edits + 1
  /\ UNCHANGED <<rows, config, puts, form, patch, dialog, astray, saves, misled>>

Entries == DOMAIN panel.draft

Change(i, next) == Edit(Updated(panel.draft, i, next))

EditKey(i, k) == Change(i, [panel.draft[i] EXCEPT !.key = k])
EditSecret(i) ==  \* the secret of the key that the entry shows
  /\ panel.draft[i].key # NoKey
  /\ Change(i, [panel.draft[i] EXCEPT !.secret = panel.draft[i].key])
EditInst(i, v) == Change(i, [panel.draft[i] EXCEPT !.inst = v])
EditQuota(i, q) == Change(i, [panel.draft[i] EXCEPT !.quota = q])
EditRegion(i, r) ==
  LET a == panel.draft[i]
      quota == IF TrafficClass(r) = TrafficClass(a.region) THEN a.quota ELSE DefaultQuota(r)
  IN Change(i, [a EXCEPT !.region = r, !.quota = quota])

Add == Len(panel.draft) < MaxAccounts /\ Edit(Append(panel.draft, EmptyAccount))
RemoveEntry(i) == Edit(RemoveAt(panel.draft, i))

\* A copy keeps the key, the quota and a typed secret, and names no instance yet.
Copied(a) == [a EXCEPT !.id = 0, !.inst = NoInst, !.at = 0]
Clone(i) ==
  /\ Len(panel.draft) < MaxAccounts
  /\ Edit(InsertAt(panel.draft, i + 1, Copied(panel.draft[i])))

(***************************************************************************)
(* The entries of an import: the chosen rows that the draft does not have, *)
(* under the credential of a new key with its secret, or of an entry that  *)
(* is stored.                                                              *)
(***************************************************************************)
Credential ==
  [key : Key, secret : {NoSecret}] \union {[key |-> k, secret |-> k] : k \in Key}

UsableCredential(cred) ==
  \/ cred.secret # NoSecret
  \/ \E j \in Entries : panel.draft[j].id > 0 /\ panel.draft[j].key = cred.key

Imported(draft, found, cred) ==
  [j \in DOMAIN NewRows(draft, found) |->
     LET row == NewRows(draft, found)[j]
     IN [EmptyAccount EXCEPT !.key = cred.key, !.secret = cred.secret, !.region = row.region,
                             !.inst = row.inst, !.quota = ImportQuota(draft, cred.key, row.region)]]

Import(found, cred) ==
  /\ UsableCredential(cred)
  /\ NewRows(panel.draft, found) # <<>>
  /\ Len(panel.draft) + Len(NewRows(panel.draft, found)) <= MaxAccounts
  /\ Edit(panel.draft \o Imported(panel.draft, found, cred))

-----------------------------------------------------------------------------
(* Saving the draft: the whole configuration is sent, and answered with    *)
(* success or an error, without the ids of new accounts.                   *)

SavePanel ==
  /\ panel.open /\ saves < MaxSaves
  /\ saves' = saves + 1
  /\ panel.save # 0 => ~PutInFlight(panel.save)
  /\ puts' = Append(puts, [st |-> "sent", draft |-> panel.draft])
  /\ panel' = [panel EXCEPT !.save = Len(puts) + 1]
  /\ astray' = (astray \/ InFlight)
  /\ UNCHANGED <<rows, config, form, patch, dialog, edits, misled>>

\* Faulty: of any key.
TypedSecretOfAnyKey(draft, key) ==
  LET typed == {j \in DOMAIN draft : draft[j].secret # NoSecret}
  IN IF typed = {} THEN NoSecret ELSE draft[Min(typed)].secret

\* The first typed secret of a key in the draft is the secret of all its blank entries.
TypedSecret(draft, key) ==
  LET typed == {j \in DOMAIN draft : draft[j].key = key /\ draft[j].secret # NoSecret}
  IN IF typed = {} THEN NoSecret ELSE draft[Min(typed)].secret

(***************************************************************************)
(* The row an entry is saved to: the live row with its id; for an entry    *)
(* without an id, the row with its key, region and instance, unless an     *)
(* earlier entry kept that row; 0 for a new row.                           *)
(***************************************************************************)
Twins(a) == {n \in Live : rows[n].key = a.key /\ Identity(rows[n]) = Identity(a)}

\* Faulty: a row can be kept twice.
RowOfKeptTwice(a, kept) ==
  IF a.id \in Live THEN a.id ELSE IF a.id = 0 /\ Twins(a) # {} THEN Max(Twins(a)) ELSE 0

RowOf(a, kept) ==
  IF a.id \in Live THEN a.id
  ELSE IF a.id = 0 /\ Twins(a) # {} /\ Max(Twins(a)) \notin kept THEN Max(Twins(a))
  ELSE 0

SecretOf(draft, a, found) ==
  LET sameKey == {n \in Live : rows[n].key = a.key}
  IN IF a.secret # NoSecret THEN a.secret
     ELSE IF TypedSecret(draft, a.key) # NoSecret THEN TypedSecret(draft, a.key)
     ELSE IF found # 0 THEN rows[found].secret
     ELSE IF sameKey # {} THEN rows[Min(sameKey)].secret
     ELSE NoSecret

SaveOne(draft, done, a) ==
  LET found == RowOf(a, done.kept)
      row == [live |-> TRUE, key |-> a.key, region |-> a.region, inst |-> a.inst,
              quota |-> a.quota, secret |-> SecretOf(draft, a, found), schedule |-> a.schedule]
      id == IF found # 0 THEN found ELSE Len(done.rows) + 1
  IN [rows |-> IF found # 0 THEN [done.rows EXCEPT ![found] = row] ELSE Append(done.rows, row),
      kept |-> done.kept \union {id}, at |-> Append(done.at, id)]

\* The table after the save, and the row of every entry.
Saved(draft) ==
  LET done == FoldLeft(LAMBDA d, a : SaveOne(draft, d, a), [rows |-> rows, kept |-> {}, at |-> <<>>], draft)
  IN [rows |-> [n \in DOMAIN done.rows |->
                  [done.rows[n] EXCEPT !.live = done.rows[n].live /\ n \in done.kept]],
      at |-> done.at]

\* The accounts of one pool have one quota.
SharedQuota(accounts) ==
  \A i, j \in DOMAIN accounts : SamePool(accounts[i], accounts[j]) => accounts[i].quota = accounts[j].quota

\* Faulty: a row can be stored without a secret.
AcceptedWithoutSecret(draft) ==
  (\A j \in DOMAIN draft : draft[j].key # NoKey) /\ SharedQuota(draft)

Accepted(draft) ==
  /\ \A j \in DOMAIN draft : draft[j].key # NoKey
  /\ SharedQuota(draft)
  /\ \A j \in DOMAIN Saved(draft).at : Saved(draft).rows[Saved(draft).at[j]].secret # NoSecret

\* An entry without an id takes over the row of a later entry.
TakesOver(draft) ==
  \E i, j \in DOMAIN draft :
    /\ i < j /\ draft[i].id = 0
    /\ draft[j].id \in Twins(draft[i]) /\ draft[j].id = Max(Twins(draft[i]))

ServerSave(n) ==
  /\ puts[n].st = "sent"
  /\ IF Accepted(puts[n].draft)
     THEN LET saved == Saved(puts[n].draft)
          IN /\ rows' = saved.rows
             /\ puts' = [puts EXCEPT ![n] =
                  [st |-> "saved", draft |-> [j \in DOMAIN saved.at |-> [puts[n].draft[j] EXCEPT !.at = saved.at[j]]]]]
             /\ astray' = (astray \/ TakesOver(puts[n].draft))
     ELSE puts' = [puts EXCEPT ![n].st = "refused"] /\ UNCHANGED <<rows, astray>>
  /\ UNCHANGED <<config, panel, form, patch, dialog, edits, saves, misled>>

\* Faulty: the console keeps its configuration.
SaveAnsweredConfigKept(n) ==
  /\ puts[n].st \in {"saved", "refused"}
  /\ puts' = [puts EXCEPT ![n] = [st |-> "answered", draft |-> <<>>]]
  /\ panel' = IF puts[n].st = "saved" THEN ClosedPanel ELSE panel
  /\ UNCHANGED <<rows, config, form, patch, dialog, edits, astray, saves, misled>>

\* onSaved: the console goes on with the draft it sent, and whatever panel is open closes.
SaveAnswered(n) ==
  /\ puts[n].st \in {"saved", "refused"}
  /\ puts' = [puts EXCEPT ![n] = [st |-> "answered", draft |-> <<>>]]
  /\ IF puts[n].st = "saved"
     THEN config' = puts[n].draft /\ panel' = ClosedPanel
     ELSE UNCHANGED <<config, panel>>
  /\ UNCHANGED <<rows, form, patch, dialog, edits, astray, saves, misled>>

-----------------------------------------------------------------------------
(* The form of one instance.  The dashboard lists the accounts of the      *)
(* server; one that the console's configuration does not know by its id is *)
(* opened from the status alone.                                           *)

ConfigOf(id) == {j \in DOMAIN config : config[j].id = id}

OpenForm(id) ==
  /\ DashboardFree
  /\ form' = [open |-> TRUE, id |-> id]
  /\ astray' = (astray \/ InFlight)
  /\ UNCHANGED <<rows, config, panel, puts, patch, dialog, edits, saves, misled>>

CloseForm ==
  /\ form.open
  /\ form' = ClosedForm
  /\ UNCHANGED <<rows, config, panel, puts, patch, dialog, edits, astray, saves, misled>>

\* The form sends all its settings; the answer is merged into the configuration of this moment.
SaveForm(value) ==
  /\ form.open /\ patch.st = "none" /\ saves < MaxSaves
  /\ saves' = saves + 1
  /\ patch' = [st |-> "sent", id |-> form.id, schedule |-> value, base |-> config]
  /\ astray' = (astray \/ InFlight)
  /\ UNCHANGED <<rows, config, panel, puts, form, dialog, edits, misled>>

\* The answer is the whole account without its secret; a typed secret stays in the entry.
Merged(accounts, row, id) ==
  [j \in DOMAIN accounts |->
     IF accounts[j].id # id THEN accounts[j]
     ELSE [id |-> id, key |-> row.key, region |-> row.region, inst |-> row.inst, quota |-> row.quota,
           secret |-> accounts[j].secret, schedule |-> row.schedule, at |-> id]]

ServerPatch ==
  /\ patch.st = "sent"
  /\ IF patch.id \in Live
     THEN /\ rows' = [rows EXCEPT ![patch.id].schedule = patch.schedule]
          /\ patch' = [patch EXCEPT !.st = "saved", !.base = Merged(patch.base, rows'[patch.id], patch.id)]
     ELSE patch' = [patch EXCEPT !.st = "refused"] /\ UNCHANGED rows
  /\ UNCHANGED <<config, panel, puts, form, dialog, edits, astray, saves, misled>>

PatchAnswered ==
  /\ patch.st \in {"saved", "refused"}
  /\ patch' = NoPatch
  /\ IF patch.st = "saved"
     THEN config' = patch.base /\ form' = ClosedForm
     ELSE UNCHANGED <<config, form>>
  /\ UNCHANGED <<rows, panel, puts, dialog, edits, astray, saves, misled>>

-----------------------------------------------------------------------------
(* Confirming a start or stop.                                             *)

InstanceShown(id) ==
  IF ConfigOf(id) = {} THEN NoInst ELSE config[Min(ConfigOf(id))].inst

RequestAction(id) ==
  /\ DashboardFree
  /\ dialog' = [open |-> TRUE, id |-> id, inst |-> InstanceShown(id)]
  /\ UNCHANGED <<rows, config, panel, puts, form, patch, edits, saves, astray, misled>>

CancelAction ==
  /\ dialog.open
  /\ dialog' = NoDialog
  /\ UNCHANGED <<rows, config, panel, puts, form, patch, edits, astray, saves, misled>>

\* Faulty: no comparison.
UnchangedNotCompared == TRUE

(***************************************************************************)
(* The instance is compared with the configuration of the moment of the    *)
(* click; the server acts on the instance its row names.  The comparison   *)
(* of the region and the status belongs to the status (Console).           *)
(***************************************************************************)
Unchanged == InstanceShown(dialog.id) = dialog.inst

ConfirmAction ==
  /\ dialog.open
  /\ dialog' = NoDialog
  /\ misled' = \/ misled
               \/ /\ Unchanged /\ dialog.id \in Live /\ dialog.inst # NoInst
                  /\ rows[dialog.id].inst # dialog.inst
                  /\ ~astray /\ ~InFlight
  /\ UNCHANGED <<rows, config, panel, puts, form, patch, edits, saves, astray>>

-----------------------------------------------------------------------------
DraftEdit ==
  \/ Add
  \/ \E i \in Entries : RemoveEntry(i) \/ Clone(i) \/ EditSecret(i)
  \/ \E i \in Entries, k \in Key \union {NoKey} : EditKey(i, k)
  \/ \E i \in Entries, v \in Inst : EditInst(i, v)
  \/ \E i \in Entries, r \in Region : EditRegion(i, r)
  \/ \E i \in Entries, q \in Typed : EditQuota(i, q)
  \/ \E found \in Discovered, cred \in Credential : Import(found, cred)

Next ==
  \/ Reload
  \/ OpenPanel \/ ClosePanel \/ DraftEdit \/ SavePanel
  \/ \E n \in DOMAIN puts : ServerSave(n) \/ SaveAnswered(n)
  \/ \E id \in Live : OpenForm(id) \/ RequestAction(id)
  \/ \E value \in BOOLEAN : SaveForm(value)
  \/ CloseForm \/ ServerPatch \/ PatchAnswered
  \/ CancelAction \/ ConfirmAction

Spec == Init /\ [][Next]_vars

-----------------------------------------------------------------------------
(* What a console of accounts has to get right.                            *)

TypeOK ==
  /\ rows \in Seq(Row) /\ config \in Seq(Entry)
  /\ panel \in [open : BOOLEAN, draft : Seq(Entry), save : 0..Len(puts)]
  /\ puts \in Seq([st : {"sent", "saved", "refused", "answered"}, draft : Seq(Entry)])
  /\ form \in [open : BOOLEAN, id : Nat]
  /\ patch \in [st : {"none", "sent", "saved", "refused"}, id : Nat, schedule : BOOLEAN, base : Seq(Entry)]
  /\ dialog \in [open : BOOLEAN, id : Nat, inst : Inst \union {NoInst}]
  /\ saves \in 0..MaxSaves /\ edits \in 0..MaxEdits /\ astray \in BOOLEAN /\ misled \in BOOLEAN

(***************************************************************************)
(* However the entries of a draft are edited, moved between pools, copied  *)
(* and imported, the accounts of a pool keep one quota: the server, which  *)
(* refuses a configuration that mixes quotas, never refuses for this, and  *)
(* never holds such accounts (updateTrafficAccount, saveAccountsTx).  Only *)
(* saves that overlap mix quotas in the console: the answer of a form is   *)
(* merged into a configuration that is older than the answer.              *)
(***************************************************************************)
QuotasShared ==
  /\ ~astray => /\ SharedQuota(panel.draft) /\ SharedQuota(config)
                /\ \A n \in DOMAIN puts : SharedQuota(puts[n].draft)
  /\ \A m, n \in Live : SamePool(rows[m], rows[n]) => rows[m].quota = rows[n].quota

Holds(row, a) ==
  row.live /\ row.key = a.key /\ Identity(row) = Identity(a) /\ row.quota = a.quota /\ row.schedule = a.schedule

(***************************************************************************)
(* A save that the server accepts leaves every entry of the draft in a row *)
(* of its own, an entry with an id in the row of that id, and no other row *)
(* live (saveAccountsTx).  The exception is the draft in which a new entry *)
(* names the key, region and instance of a row whose own entry comes       *)
(* later: one of the two entries is lost.                                  *)
(***************************************************************************)
StoresEveryEntry ==
  [][\A n \in DOMAIN puts :
       (puts[n].st = "sent" /\ puts'[n].st = "saved" /\ ~TakesOver(puts[n].draft)) =>
          LET draft == puts'[n].draft
          IN /\ \A j \in DOMAIN draft : /\ Holds(rows'[draft[j].at], draft[j])
                                       /\ draft[j].id \in Live => draft[j].at = draft[j].id
             /\ Live' = {draft[j].at : j \in DOMAIN draft}
             /\ Cardinality(Live') = Len(draft)]_vars

(***************************************************************************)
(* A save never pairs a key with the secret of another one, if the typed   *)
(* secrets of the draft are right, unless the key of a stored entry was    *)
(* changed and its secret left blank: then the old secret stays, even when *)
(* another row has the right one (saveAccountsTx).                         *)
(***************************************************************************)
BlankKeyChange(draft) ==
  \E j \in DOMAIN draft : /\ draft[j].id \in Live /\ rows[draft[j].id].key # draft[j].key
                         /\ draft[j].secret = NoSecret

SecretsFit ==
  [][\A n \in DOMAIN puts :
       (/\ puts[n].st = "sent" /\ puts'[n].st = "saved"
        /\ \A j \in DOMAIN puts[n].draft : puts[n].draft[j].secret \in {NoSecret, puts[n].draft[j].key}
        /\ \A m \in Live : rows[m].secret = rows[m].key
        /\ ~BlankKeyChange(puts[n].draft)) =>
          \A m \in Live' : rows'[m].secret = rows'[m].key]_vars

(***************************************************************************)
(* When nothing is in flight and no two saves have overlapped, the         *)
(* console's configuration is what the server holds, so the next save      *)
(* undoes nothing (onSaved of the panel and of the form).  An entry that   *)
(* was added since the page was loaded has no id: what its form saves is   *)
(* missing from it, and the next save of the panel undoes it.              *)
(***************************************************************************)
ConfigAgrees ==
  (~astray /\ ~InFlight) =>
    /\ \A j \in DOMAIN config :
         /\ config[j].at \in Live
         /\ LET row == rows[config[j].at]
            IN \/ Holds(row, config[j])
               \/ config[j].id = 0 /\ Holds([row EXCEPT !.schedule = config[j].schedule], config[j])
    /\ Len(config) = Cardinality(Live)

(***************************************************************************)
(* A confirmed start or stop reaches the instance that the dialog named,   *)
(* whatever was saved while it was open (confirmAction), unless a save is  *)
(* still in flight or saves have overlapped.                               *)
(***************************************************************************)
ActsOnShown == ~misled
=============================================================================
