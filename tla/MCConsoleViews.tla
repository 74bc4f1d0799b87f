---------------------------- MODULE MCConsoleViews ----------------------------
(***************************************************************************)
(* Four parts of the console that share no state, in one run: a behaviour  *)
(* uses the one that view names.                                           *)
(***************************************************************************)
EXTENDS ImportWizard, Popups, HistoryTimeline, PoolReadings

CONSTANTS A, hz, hk, q1, q2

VARIABLE view

allVars == <<wizardVars, popupVars, chart, readingVars, view>>

Init ==
  /\ view \in {"wizard", "popups", "history", "pools"}
  /\ WizardInit /\ PopupInit /\ TimelineInit /\ ReadingInit
  \* what is not in use starts in one way
  /\ view # "wizard" => asked = q1
  /\ view # "popups" => list.searchable /\ list.value = "a" /\ picker.value = NoTime
  /\ view # "pools" => \A i, j \in DOMAIN stored : stored[i].quota = stored[j].quota

Next ==
  /\ view' = view
  /\ \/ view = "wizard" /\ WizardNext /\ UNCHANGED <<popupVars, chart, readingVars>>
     \/ view = "popups" /\ PopupNext /\ UNCHANGED <<wizardVars, chart, readingVars>>
     \/ view = "history" /\ TimelineNext /\ UNCHANGED <<wizardVars, popupVars, readingVars>>
     \/ view = "pools" /\ ReadingNext /\ UNCHANGED <<wizardVars, popupVars, chart>>

Spec == Init /\ [][Next]_allVars

-----------------------------------------------------------------------------
(* Two queries: pages that overlap, with an instance that the draft has,   *)
(* and more pages than are loaded; and a short one.                        *)
Ecs(region, inst) == [region |-> region, inst |-> inst]
MCListing ==
  (q1 :> <<<<Ecs(hz, 1), Ecs(hz, 2)>>, <<Ecs(hz, 2), Ecs(hz, 3)>>, <<Ecs(hz, 4)>>>>)
  @@ (q2 :> <<<<Ecs(hk, 1)>>, <<Ecs(hk, 2)>>>>)
MCDrafted == <<Ecs(hz, 2)>>

\* Three options, two of which a search finds, or one, or none.
MCOptions == <<"a", "b", "c">>
MCMatches == [all |-> {"a", "b", "c"}, some |-> {"b", "c"}, one |-> {"c"}, none |-> {}]

(* The half hours of two days, and the offsets of Shanghai, Honolulu,      *)
(* Kolkata, Auckland's winter and Kiritimati; New York, Berlin, Beirut and *)
(* Santiago in spring, Havana in autumn, and Sydney in spring and autumn,  *)
(* on the Sunday in between; and Norfolk Island, 12 hours ahead since      *)
(* weeks ago.  The midnight of that Sunday does not exist in Beirut and    *)
(* Santiago.                                                               *)
Sunday == 7
Fixed(offset) == [before |-> offset, after |-> offset, change |-> 0]
Changing(before, after, change) == [before |-> before, after |-> after, change |-> Day * Sunday + change]
MCZone ==
  {Fixed(16), Fixed(-20), Fixed(11), Fixed(24), Fixed(28),
   Changing(-10, -8, 14), Changing(2, 4, 2), Changing(4, 6, -4), Changing(-8, -6, 8),
   Changing(-8, -10, 10), Changing(20, 22, -16), Changing(22, 20, -16),
   Changing(22, 24, -400)}
MCInstant == {Day * Sunday - 24 + 3 * n : n \in 0..31}
MCSampled == SUBSET (0..4)

\* Two accounts of a pool, and two whose quotas were mixed by an earlier version.
Counts(scale) == <<1 * scale, 2 * scale, 3 * scale, 1 * scale>>
MCUsage == (<<A, "china">> :> Counts(1)) @@ (<<A, "international">> :> Counts(10))
MCMonths == <<1, 1, 1, 2>>
Of(quota) == [key |-> A, region |-> hz, quota |-> quota]
MCPoolAccounts == {<<Of(2), Of(2)>>, <<Of(2), Of(3)>>}
=============================================================================
