----------------------------- MODULE ImportWizard -----------------------------
(***************************************************************************)
(* The wizard that imports instances into the draft of the settings panel  *)
(* (InstanceImportWizard.tsx).  A query, of a credential and a region, is  *)
(* answered page by page with cursors; instances are picked from what has  *)
(* been loaded, and added to the draft.                                    *)
(*                                                                         *)
(* A request that the wizard no longer waits for is aborted: its failure,  *)
(* or an answer that was already under way, is handled all the same.  The  *)
(* answers come from the cloud, which lists the same instances for as long *)
(* as the wizard is open, but may repeat a cursor.  Messages, which no     *)
(* later step reads, are left out.                                         *)
(***************************************************************************)
EXTENDS TrafficPools

CONSTANTS
  Query,         \* the queries: a complete credential, and a region
  Listing,       \* Listing[q]: the pages of a query, sequences of instances
  Drafted,       \* the accounts of the draft at first
  NoQuery,
  MaxAccounts,   \* MAX_ACCOUNTS
  MaxPages,      \* the pages that are loaded of one query, 20
  MaxLoads       \* bounds the requests of a behaviour

\* The instances of the cloud and of the draft.
Instance ==
  ToSet(Drafted) \union UNION {UNION {ToSet(page) : page \in ToSet(Listing[q])} : q \in Query}

ASSUME WizardAssumption ==
  /\ NoQuery \notin Query
  /\ Drafted \in Seq(Instance)
  /\ \A q \in Query : Listing[q] \in Seq(Seq(Instance)) /\ Listing[q] # <<>>
  /\ MaxAccounts \in Nat /\ MaxPages \in Nat \ {0} /\ MaxLoads \in Nat

VARIABLES
  draft,     \* the accounts of the draft
  open,      \* whether the wizard is
  asked,     \* the query that its fields hold
  w,         \* its state: step, shown query, rows, selected, next cursor, pages, busy
  seen,      \* the cursors of the query
  current,   \* the request of this generation, or 0
  flights,   \* the requests that are not settled
  loads      \* the number of requests so far

wizardVars == <<draft, open, asked, w, seen, current, flights, loads>>

\* A cursor is the number of the page it follows; 0 is the empty one.
Fresh == [step |-> 1, query |-> NoQuery, rows |-> <<>>, selected |-> {},
          cursor |-> 0, pages |-> 0, busy |-> FALSE]

WizardInit ==
  /\ draft = Drafted /\ open = FALSE /\ asked \in Query
  /\ w = Fresh /\ seen = {} /\ current = 0 /\ flights = {} /\ loads = 0

Known == {Identity(draft[j]) : j \in DOMAIN draft}
Capacity == Max({MaxAccounts - Len(draft), 0})
Unknown == Chosen(w.rows, {p \in DOMAIN w.rows : Identity(w.rows[p]) \notin Known})
Picked == Chosen(Unknown, {p \in DOMAIN Unknown : Identity(Unknown[p]) \in w.selected})

Reset == w' = Fresh /\ seen' = {} /\ current' = 0

OpenWizard(q) ==
  /\ ~open /\ Len(draft) < MaxAccounts
  /\ open' = TRUE /\ asked' = q
  /\ Reset
  /\ UNCHANGED <<draft, flights, loads>>

\* A component that is gone hears of no answer.
Unmounted == open' = FALSE /\ flights' = {} /\ Reset

CloseWizard == open /\ Unmounted /\ UNCHANGED <<draft, asked, loads>>

\* The fields of the first step; they are disabled while a request is awaited.
ChooseQuery(q) ==
  /\ open /\ w.step = 1 /\ ~w.busy /\ q # asked
  /\ asked' = q
  /\ Reset
  /\ UNCHANGED <<draft, open, flights, loads>>

Load(q, more, cursor) ==
  /\ open /\ ~w.busy /\ loads < MaxLoads
  /\ loads' = loads + 1 /\ current' = loads'
  /\ flights' = flights \union {[ticket |-> loads', query |-> q, more |-> more, cursor |-> cursor]}
  /\ w' = [w EXCEPT !.busy = TRUE]
  /\ UNCHANGED <<draft, open, asked, seen>>

LoadFirst == w.step = 1 /\ Load(asked, FALSE, 0)
LoadMore == w.step = 2 /\ w.cursor # 0 /\ w.pages < MaxPages /\ Load(w.query, TRUE, w.cursor)

\* The cloud's answer: a page, and the cursor of the next one.
PageOf(f) == Listing[f.query][f.cursor + 1]
Following(q, page) == IF page < Len(Listing[q]) THEN page ELSE 0

\* Faulty: the tickets are not compared.
AnsweredLate(f, cursor) ==
  /\ flights' = flights \ {f}
  /\ w' = [w EXCEPT !.busy = FALSE, !.rows = MergeDiscovered(IF f.more THEN w.rows ELSE <<>>, PageOf(f)),
             !.cursor = cursor, !.pages = IF f.more THEN w.pages + 1 ELSE 1, !.query = f.query, !.step = 2,
             !.selected = IF f.more THEN w.selected ELSE {}]
  /\ seen' = seen \union ({cursor} \ {0})
  /\ UNCHANGED <<draft, open, asked, current, loads>>

Answered(f, cursor) ==
  /\ flights' = flights \ {f}
  /\ IF f.ticket # current THEN UNCHANGED <<w, seen>>
     ELSE IF cursor \in seen THEN w' = [w EXCEPT !.busy = FALSE] /\ UNCHANGED seen
     ELSE /\ w' = [step |-> 2, query |-> f.query, busy |-> FALSE, cursor |-> cursor,
                   rows |-> MergeDiscovered(IF f.more THEN w.rows ELSE <<>>, PageOf(f)),
                   pages |-> IF f.more THEN w.pages + 1 ELSE 1,
                   selected |-> IF f.more THEN w.selected ELSE {}]
          /\ seen' = seen \union ({cursor} \ {0})
  /\ UNCHANGED <<draft, open, asked, current, loads>>

Answer(f) == \E cursor \in {Following(f.query, f.cursor + 1)} \union seen : Answered(f, cursor)

Fail(f) ==
  /\ flights' = flights \ {f}
  /\ w' = IF f.ticket = current THEN [w EXCEPT !.busy = FALSE] ELSE w
  /\ UNCHANGED <<draft, open, asked, seen, current, loads>>

-----------------------------------------------------------------------------
(* Picking, and the steps.                                                 *)

\* Only what the wizard shows changes.
Show(next) == open /\ w' = next /\ UNCHANGED <<draft, open, asked, seen, current, flights, loads>>

Toggle(row) ==
  LET id == Identity(row)
  IN /\ w.step = 2 /\ ~w.busy /\ id \notin Known
     /\ \/ id \in w.selected /\ Show([w EXCEPT !.selected = @ \ {id}])
        \/ /\ id \notin w.selected /\ Len(Picked) < Capacity
           /\ Show([w EXCEPT !.selected = @ \union {id}])

SelectAll ==
  /\ w.step = 2 /\ ~w.busy /\ Unknown # <<>>
  /\ Show([w EXCEPT !.selected = {Identity(Unknown[j]) : j \in 1..Min({Capacity, Len(Unknown)})}])

ToConfirm ==
  /\ w.step = 2 /\ ~w.busy /\ Picked # <<>> /\ Len(Picked) <= Capacity
  /\ Show([w EXCEPT !.step = 3])

\* Back to the query: an answer that is awaited no longer counts.
BackToQuery == open /\ w.step = 2 /\ Reset /\ UNCHANGED <<draft, open, asked, flights, loads>>
BackToRows == w.step = 3 /\ Show([w EXCEPT !.step = 2])

\* The picked instances join the draft, if they fit, and the wizard closes.
Finish ==
  /\ open /\ w.step = 3 /\ Picked # <<>> /\ Len(Picked) <= Capacity
  /\ draft' = draft \o NewRows(draft, Picked)
  /\ Unmounted
  /\ UNCHANGED <<asked, loads>>

WizardNext ==
  \/ \E q \in Query : OpenWizard(q) \/ ChooseQuery(q)
  \/ CloseWizard \/ LoadFirst \/ LoadMore
  \/ \E f \in flights : Answer(f) \/ Fail(f)
  \/ \E j \in DOMAIN w.rows : Toggle(w.rows[j])
  \/ SelectAll \/ ToConfirm \/ BackToQuery \/ BackToRows \/ Finish

WizardSpec == WizardInit /\ [][WizardNext]_wizardVars

-----------------------------------------------------------------------------
(***************************************************************************)
(* However requests are superseded, fail or are answered late, the rows    *)
(* are the pages that were loaded of the query that is shown, each         *)
(* instance once, with the cursor of the page after them; the wizard is    *)
(* busy exactly while it waits for a request; and what is picked is new to *)
(* the draft and fits into it, so that what joins the draft is never an    *)
(* instance that it lists already, nor one too many (load, reset, toggle,  *)
(* finish).                                                                *)
(***************************************************************************)
PagesOf(q, n) == MergeDiscovered(<<>>, FlattenSeq(SubSeq(Listing[q], 1, n)))

WizardShowsQuery ==
  /\ w.step > 1 <=> w.query # NoQuery
  /\ w.query # NoQuery =>
       /\ w.query = asked /\ w.pages \in 1..MaxPages
       /\ w.rows = PagesOf(w.query, w.pages)
       /\ w.cursor = Following(w.query, w.pages)
  /\ w.busy <=> \E f \in flights : f.ticket = current
  /\ Len(Picked) <= Capacity /\ (w.step = 3 => Picked # <<>>)
  /\ \A i, j \in DOMAIN draft :
       i < j /\ Identity(draft[i]) = Identity(draft[j]) => j <= Len(Drafted)
  /\ draft = Drafted \/ Len(draft) <= MaxAccounts
=============================================================================
