-------------------------- MODULE ConsoleViewsProofs --------------------------
(***************************************************************************)
(* Theorems about the smaller views of the console.  Whatever is typed,    *)
(* clicked or pressed in the popups of a form, the keyboard stays where it *)
(* belongs; however the import wizard is used, its rows are those of the   *)
(* query that it names, and what it adds to the draft is new and fits; the *)
(* cards of the overview say what the pools really used; and the history's *)
(* chart puts every sample into the slot that is its own.                  *)
(***************************************************************************)
EXTENDS Popups, ImportWizard, PoolReadings, HistoryTimeline, TrafficPoolsProofs

\* What the list shows when x is typed into its search field.
Finds(x) == Chosen(Options, {p \in DOMAIN Options : Options[p] \in Matches[x]})

\* The elements that the focus can be on.
Places == Panel \union {Nowhere, Elsewhere, ListBox, ListOption, Trigger}

\* What the popups hold, each of its type.
PopupTypes ==
  /\ list \in [searchable : BOOLEAN, open : BOOLEAN, search : Text, active : Int, value : ToSet(Options)]
  /\ picker \in [open : BOOLEAN, draft : Clock, value : Clock \union {NoTime}]
  /\ focus \in Places

\* What the list highlights is in view.
InView(l) == l.open /\ Finds(l.search) # <<>> => l.active \in DOMAIN Finds(l.search)

\* The popups' places, of any state.
Placed(l, p, f) == ~(l.open /\ p.open) /\ (l.open => f = ListBox) /\ (p.open => f \in Panel)

PopupInv == PopupTypes /\ InView(list) /\ (~missed => InPlace)

\* What a step has to observe that no press has missed.
PopupKeeps == PopupTypes' /\ InView(list') /\ (InPlace => InPlace')

-----------------------------------------------------------------------------
\* A search finds options, in a sequence of options; no search finds them all.
LEMMA FindsFact ==
  /\ \A x : Finds(x) \in Seq(ToSet(Options)) /\ Len(Finds(x)) \in Nat /\ DOMAIN Finds(x) = 1..Len(Finds(x))
  /\ Len(Finds(NoText)) = Len(Options)
<1>1. Options \in Seq(ToSet(Options)) /\ Matches[NoText] = ToSet(Options)
  BY PopupAssumption
<1>2. Len(Options) \in Nat /\ DOMAIN Options = 1..Len(Options)
      /\ \A j \in DOMAIN Options : Options[j] \in ToSet(Options)
  BY <1>1, DomainOfSeq
<1>3. ASSUME NEW P, P \subseteq 1..Len(Options)
      PROVE  /\ Chosen(Options, P) \in Seq(ToSet(Options))
             /\ Len(Chosen(Options, P)) \in Nat /\ Len(Chosen(Options, P)) = Cardinality(P)
             /\ DOMAIN Chosen(Options, P) = 1..Len(Chosen(Options, P))
  <2>1. Chosen(Options, P) \in Seq(ToSet(Options)) /\ Len(Chosen(Options, P)) = Cardinality(P)
    BY <1>1, <1>3, ChosenFact
  <2>2. QED BY <2>1, DomainOfSeq
<1>4. \A x : Finds(x) \in Seq(ToSet(Options)) /\ Len(Finds(x)) \in Nat /\ DOMAIN Finds(x) = 1..Len(Finds(x))
  BY <1>2, <1>3 DEF Finds
<1>5. Finds(NoText) = Chosen(Options, 1..Len(Options))
  BY <1>1, <1>2 DEF Finds
<1>6. Cardinality(1..Len(Options)) = Len(Options)
  <2>1. PICK n \in Nat : n = Len(Options)
    BY <1>2
  <2>2. Cardinality(1..n) = IF 1 > n THEN 0 ELSE n - 1 + 1
    BY FS_Interval
  <2>3. QED BY <2>1, <2>2
<1>7. QED BY <1>3, <1>4, <1>5, <1>6

\* The keys lead from an option to an option.
LEMMA ReachedFact ==
  ASSUME NEW n \in Nat \ {0}, NEW c \in 0..(n - 1)
  PROVE  Reached(c, n) \subseteq 0..(n - 1)
<1>1. PageStep \in Nat
  BY PopupAssumption
<1>2. (c + 1) % n \in 0..(n - 1) /\ (c - 1 + n) % n \in 0..(n - 1)
  OBVIOUS
<1>3. 0 \in 0..(n - 1) /\ n - 1 \in 0..(n - 1)
  OBVIOUS
<1>4. c + PageStep < n => c + PageStep \in 0..(n - 1)
  BY <1>1
<1>5. c > PageStep => c - PageStep \in 0..(n - 1)
  BY <1>1
<1>6. QED BY <1>2, <1>3, <1>4, <1>5 DEF Reached

\* The elements that are none of the panel's.
LEMMA ElementsFact ==
  /\ ListBox \notin Panel /\ Trigger \notin Panel /\ Elsewhere \notin Panel
  /\ Nowhere \notin Panel /\ ListOption \notin Panel
  /\ ListBox # Trigger /\ ListBox # Elsewhere /\ ListBox # Nowhere /\ ListBox # ListOption
<1> USE DEF ListBox, Trigger, Elsewhere, Nowhere, ListOption
<1>1. \A b \in Panel : b[1] \in {"close", "cancel", "confirm", "hour", "minute"}
  BY DEF Panel, CloseButton, CancelButton, ConfirmButton, HourButton, MinuteButton
<1>2. QED BY <1>1

\* The buttons that Tab stops at are the panel's.
LEMMA StopsFact ==
  ASSUME PopupTypes
  PROVE  ToSet(Stops) \subseteq Panel
<1>1. picker.draft.hour \in 0..(Hours - 1) /\ picker.draft.minute \in 0..(Minutes - 1)
  BY DEF PopupTypes, Clock
<1>2. DOMAIN Stops = 1..5
  BY DEF Stops
<1>3. \A j \in 1..5 : Stops[j] \in Panel
  <2>1. \A j \in 1..5 : j = 1 \/ j = 2 \/ j = 3 \/ j = 4 \/ j = 5
    OBVIOUS
  <2>2. QED BY <1>1, <2>1 DEF Stops, Panel
<1>4. QED BY <1>2, <1>3 DEF ToSet

\* The hours and the minutes are those of a clock.
LEMMA ClockFact ==
  /\ ZeroTime \in Clock
  /\ \A time \in Clock : time.hour \in 0..(Hours - 1) /\ time.minute \in 0..(Minutes - 1)
  /\ \A time \in Clock, h \in 0..(Hours - 1) : [time EXCEPT !.hour = h] \in Clock
  /\ \A time \in Clock, m \in 0..(Minutes - 1) : [time EXCEPT !.minute = m] \in Clock
<1>1. 0 \in 0..(Hours - 1) /\ 0 \in 0..(Minutes - 1)
  BY PopupAssumption
<1>2. QED BY <1>1 DEF Clock, ZeroTime

\* What is said of the state after a step, in terms of its variables.
LEMMA PlacesStay == Places' = Places
BY DEF Places, Panel, Nowhere, Elsewhere, ListBox, ListOption, Trigger,
       CloseButton, CancelButton, ConfirmButton, HourButton, MinuteButton

LEMMA ElsewhereFact ==
  /\ Panel \subseteq Places /\ Trigger \in Places /\ ListBox \in Places /\ Elsewhere \in Places
BY DEF Places

LEMMA InViewFact == InView(list)' <=> InView(list')
BY DEF InView, Finds

LEMMA PlacedFact ==
  /\ InPlace <=> Placed(list, picker, focus)
  /\ InPlace' <=> Placed(list', picker', focus')
BY DEF InPlace, Placed, Panel, ListBox, CloseButton, CancelButton, ConfirmButton, HourButton, MinuteButton

\* The popups are closed at first.
LEMMA PopupsStart == PopupInit => PopupInv
<1>1. SUFFICES ASSUME PopupInit PROVE PopupInv
  OBVIOUS
<1>2. PICK searchable \in BOOLEAN, o \in ToSet(Options) :
        list = [searchable |-> searchable, open |-> FALSE, search |-> NoText, active |-> 1, value |-> o]
  BY <1>1 DEF PopupInit
<1>3. PICK time \in {NoTime, ZeroTime} : picker = [open |-> FALSE, draft |-> ZeroTime, value |-> time]
  BY <1>1 DEF PopupInit
<1>4. NoText \in Text
  BY PopupAssumption
<1>5. PopupTypes
  BY <1>1, <1>2, <1>3, <1>4, ClockFact DEF PopupInit, PopupTypes, Places
<1>6. InView(list) /\ InPlace
  BY <1>2, <1>3 DEF InView, InPlace
<1>7. QED BY <1>5, <1>6 DEF PopupInv

\* The list as a press outside it leaves it.
LEMMA ClosedFact ==
  ASSUME PopupTypes
  PROVE  /\ ClosedList \in [searchable : BOOLEAN, open : BOOLEAN, search : Text, active : Int,
                            value : ToSet(Options)]
         /\ ~ClosedList.open /\ InView(ClosedList)
<1>1. /\ ClosedList \in [searchable : BOOLEAN, open : BOOLEAN, search : Text, active : Int,
                         value : ToSet(Options)]
      /\ ~ClosedList.open
  BY PopupAssumption DEF PopupTypes, ClosedList
<1>2. QED BY <1>1 DEF InView

-----------------------------------------------------------------------------
\* The list opens at its value, which no search hides.
LEMMA OpenListStep == PopupInv /\ OpenList => PopupKeeps
<1>1. SUFFICES ASSUME PopupInv, OpenList PROVE PopupKeeps
  OBVIOUS
<1> DEFINE at == CHOOSE j \in DOMAIN Options : Options[j] = list.value
<1>2. Options \in Seq(ToSet(Options)) /\ NoText \in Text
  BY PopupAssumption
<1>3. at \in 1..Len(Options)
  <2>1. list.value \in ToSet(Options)
    BY <1>1 DEF PopupInv, PopupTypes
  <2>2. \E j \in DOMAIN Options : Options[j] = list.value
    BY <2>1 DEF ToSet
  <2>3. QED BY <1>2, <2>2, DomainOfSeq
<1>4. /\ ~picker.open \/ focus = ListBox
      /\ picker' = picker /\ focus' = ListBox
      /\ list' = [list EXCEPT !.open = TRUE, !.search = NoText, !.active = at]
  BY <1>1 DEF OpenList
<1> HIDE DEF at
<1>5. at \in DOMAIN Finds(NoText)
  BY <1>3, FindsFact
<1>6. at \in Int
  BY <1>2, <1>3
<1>7. PopupTypes'
  BY <1>1, <1>2, <1>4, <1>6, PlacesStay, ElsewhereFact DEF PopupInv, PopupTypes
<1>8. list'.search = NoText /\ list'.active = at
  BY <1>1, <1>4 DEF PopupInv, PopupTypes
<1>9. InView(list')
  BY <1>5, <1>8 DEF InView
<1>10. InPlace => InPlace'
  BY <1>4, ElementsFact, PlacedFact DEF Placed
<1>11. QED BY <1>7, <1>9, <1>10 DEF PopupKeeps

\* The list closes while the picker is closed, or is left alone.
LEMMA ClosingStep ==
  ASSUME PopupInv, list' = ClosedList, picker' = picker, focus' \in Places,
         picker.open => focus \notin Panel
  PROVE  PopupKeeps
<1>1. PopupTypes /\ PopupTypes' /\ ~list'.open /\ InView(list')
  BY ClosedFact, PlacesStay DEF PopupInv, PopupTypes
<1>2. InPlace => InPlace'
  BY <1>1, PlacedFact DEF Placed
<1>3. QED BY <1>1, <1>2 DEF PopupKeeps

LEMMA CloseListStep == PopupInv /\ (CloseList \/ LeaveList) => PopupKeeps
BY ClosingStep, ElementsFact, ElsewhereFact DEF CloseList, LeaveList

LEMMA FocusSearchStep == PopupInv /\ FocusSearch => PopupKeeps
<1>1. SUFFICES ASSUME PopupInv, FocusSearch PROVE PopupKeeps
  OBVIOUS
<1>2. list' = list /\ picker' = picker /\ focus' = ListBox /\ ~picker.open
  BY <1>1 DEF FocusSearch
<1>3. PopupTypes' /\ InView(list')
  BY <1>1, <1>2, PlacesStay, ElsewhereFact DEF PopupInv, PopupTypes
<1>4. InPlace => InPlace'
  BY <1>2, PlacedFact DEF Placed
<1>5. QED BY <1>3, <1>4 DEF PopupKeeps

\* An option is chosen that the search finds.
LEMMA ChooseStep ==
  ASSUME PopupInv, NEW j, j \in DOMAIN Filtered, Choose(j), list.open
  PROVE  PopupKeeps
<1>1. PICK o : o = Filtered[j]
  OBVIOUS
<1>2. /\ j \in DOMAIN Finds(list.search) /\ o = Finds(list.search)[j]
      /\ list' = [ClosedList EXCEPT !.value = o] /\ picker' = picker /\ focus' = ListBox
  BY <1>1 DEF Choose, Filtered, Finds
<1>3. o \in ToSet(Options)
  BY <1>2, FindsFact
<1>4. PopupTypes' /\ ~list'.open
  BY <1>2, <1>3, ClosedFact, PlacesStay, ElsewhereFact DEF PopupInv, PopupTypes
<1>5. InView(list')
  BY <1>4 DEF InView
<1>6. InPlace => InPlace'
  BY <1>2, <1>4, PlacedFact DEF Placed
<1>7. QED BY <1>4, <1>5, <1>6 DEF PopupKeeps

LEMMA EnterOptionStep == PopupInv /\ EnterOption => PopupKeeps
BY ChooseStep DEF EnterOption

\* A search starts at the first option that it finds.
LEMMA TypeStep == ASSUME NEW x \in Text PROVE PopupInv /\ Type(x) => PopupKeeps
<1>1. SUFFICES ASSUME PopupInv, Type(x) PROVE PopupKeeps
  OBVIOUS
<1>2. /\ list.open /\ list' = [list EXCEPT !.search = x, !.active = 1]
      /\ picker' = picker /\ focus' = focus
  BY <1>1 DEF Type
<1>3. PopupTypes' /\ list'.open /\ list'.search = x /\ list'.active = 1
  <2>1. PICK first \in Int : first = 1
    OBVIOUS
  <2>2. list' = [list EXCEPT !.search = x, !.active = first]
    BY <1>2, <2>1
  <2>3. PopupTypes' /\ list'.open /\ list'.search = x /\ list'.active = first
    BY <1>1, <1>2, <2>2 DEF PopupInv, PopupTypes
  <2>4. QED BY <2>1, <2>3
<1>4. Finds(x) # <<>> => 1 \in DOMAIN Finds(x)
  BY FindsFact
<1>5. InView(list')
  BY <1>3, <1>4 DEF InView
<1>6. InPlace => InPlace'
  BY <1>2, <1>3, PlacedFact DEF Placed
<1>7. QED BY <1>3, <1>5, <1>6 DEF PopupKeeps

\* The highlight moves to an option that is in view.
LEMMA HighlightStep ==
  ASSUME NEW j \in Int, PopupInv, Highlight(j), j \in DOMAIN Finds(list.search)
  PROVE  PopupKeeps
<1>1. list.open /\ list' = [list EXCEPT !.active = j] /\ picker' = picker /\ focus' = focus
  BY DEF Highlight
<1>2. PopupTypes' /\ list'.open /\ list'.search = list.search /\ list'.active = j
  BY <1>1 DEF PopupInv, PopupTypes
<1>3. InView(list')
  BY <1>2 DEF InView
<1>4. InPlace => InPlace'
  BY <1>1, <1>2, PlacedFact DEF Placed
<1>5. QED BY <1>2, <1>3, <1>4 DEF PopupKeeps

LEMMA ArrowStep == ASSUME NEW d \in {-1, 1} PROVE PopupInv /\ ArrowInList(d) => PopupKeeps
<1>1. SUFFICES ASSUME PopupInv, ArrowInList(d) PROVE PopupKeeps
  OBVIOUS
<1>2. PICK n, j : /\ n = Len(Finds(list.search))
                  /\ j = ((list.active - 1 + d + Len(Filtered)) % Len(Filtered)) + 1
  OBVIOUS
<1>3. Finds(list.search) # <<>> /\ Highlight(j) /\ j = ((list.active - 1 + d + n) % n) + 1
  BY <1>1, <1>2 DEF ArrowInList, Filtered, Finds
<1>4. n \in Nat /\ n # 0 /\ DOMAIN Finds(list.search) = 1..n
  <2>1. n \in Nat /\ DOMAIN Finds(list.search) = 1..n /\ Finds(list.search) \in Seq(ToSet(Options))
    BY <1>2, FindsFact
  <2>2. QED BY <1>2, <1>3, <2>1
<1>5. list.active \in Int
  BY <1>1 DEF PopupInv, PopupTypes
<1>6. j \in 1..n /\ j \in Int
  <2>1. PICK k \in Int : k = list.active - 1 + d + n
    BY <1>4, <1>5
  <2>2. k % n \in 0..(n - 1)
    BY <1>4, <2>1
  <2>3. QED BY <1>3, <1>4, <2>1, <2>2
<1>7. QED BY <1>1, <1>3, <1>4, <1>6, HighlightStep

LEMMA PointStep ==
  ASSUME NEW j \in DOMAIN Filtered
  PROVE  PopupInv /\ (PointAt(j) \/ ChooseOption(j)) => PopupKeeps
<1>1. j \in DOMAIN Finds(list.search)
  BY DEF Filtered, Finds
<1>2. j \in Int
  BY <1>1, FindsFact
<1>3. PopupInv /\ PointAt(j) => PopupKeeps
  BY <1>1, <1>2, HighlightStep DEF PointAt
<1>4. PopupInv /\ ChooseOption(j) => PopupKeeps
  BY ChooseStep DEF ChooseOption
<1>5. QED BY <1>3, <1>4

-----------------------------------------------------------------------------
\* What a step of the picker has to observe: the list stays, or is closed.
LEMMA PickerMoves ==
  ASSUME PopupInv, list' = ClosedList \/ list' = list,
         picker' \in [open : BOOLEAN, draft : Clock, value : Clock \union {NoTime}], focus' \in Places,
         InPlace /\ picker'.open => ~list'.open /\ focus' \in Panel,
         InPlace /\ list'.open => focus' = ListBox
  PROVE  PopupKeeps
<1>1. PopupTypes' /\ InView(list')
  BY ClosedFact DEF PopupInv, PopupTypes
<1>2. InPlace => InPlace'
  BY PlacedFact DEF Placed
<1>3. QED BY <1>1, <1>2 DEF PopupKeeps

\* In an open picker in its place the list is closed, whatever a step of the picker does to it.
LEMMA PickerAlone ==
  ASSUME PopupInv, list' = ClosedList \/ list' = list, InPlace, picker.open
  PROVE  ~list'.open
BY ClosedFact DEF PopupInv, InPlace

\* The picker opens at its value.
LEMMA OpenPickerStep == PopupInv /\ OpenPicker => PopupKeeps
<1>1. SUFFICES ASSUME PopupInv, OpenPicker PROVE PopupKeeps
  OBVIOUS
<1>2. PICK clock : clock = IF picker.value = NoTime THEN ZeroTime ELSE picker.value
  OBVIOUS
<1>3. /\ picker' = [picker EXCEPT !.open = TRUE, !.draft = clock]
      /\ focus' = IF picker.open THEN Trigger ELSE HourButton(clock.hour)
      /\ (~picker.open /\ list' = ClosedList) \/ (focus = Trigger /\ list' = list)
  BY <1>1, <1>2 DEF OpenPicker, Pressed, Keyed
<1>4. clock \in Clock
  BY <1>1, <1>2, ClockFact DEF PopupInv, PopupTypes
<1>5. picker' \in [open : BOOLEAN, draft : Clock, value : Clock \union {NoTime}]
  BY <1>1, <1>3, <1>4 DEF PopupInv, PopupTypes
<1>6. HourButton(clock.hour) \in Panel
  BY <1>4, ClockFact DEF Panel
<1>7. InPlace => ~picker.open /\ ~list'.open
  BY <1>1, <1>3, ElementsFact, ClosedFact DEF InPlace, PopupInv
<1>8. focus' \in Places
  BY <1>3, <1>6, ElsewhereFact
<1>9. QED BY <1>1, <1>3, <1>5, <1>6, <1>7, <1>8, PickerMoves

\* A picker that closes has a time, its old one or its clock.
LEMMA ClosePickerStep == PopupInv /\ (Dismiss \/ SaveTime) => PopupKeeps
<1>1. SUFFICES ASSUME PopupInv, Dismiss \/ SaveTime PROVE PopupKeeps
  OBVIOUS
<1>2. picker.open /\ (list' = ClosedList \/ list' = list)
  BY <1>1 DEF Dismiss, SaveTime, Pressed, Keyed
<1>3. picker' \in [open : BOOLEAN, draft : Clock, value : Clock \union {NoTime}] /\ ~picker'.open
  <2>1. CASE Dismiss
    BY <1>1, <2>1 DEF Dismiss, PopupInv, PopupTypes
  <2>2. CASE SaveTime
    <3>1. PICK time \in Clock : time = picker.draft
      BY <1>1 DEF PopupInv, PopupTypes
    <3>2. picker' = [picker EXCEPT !.open = FALSE, !.value = time]
      BY <2>2, <3>1 DEF SaveTime
    <3>3. QED BY <1>1, <3>2 DEF PopupInv, PopupTypes
  <2>3. QED BY <1>1, <2>1, <2>2
<1>4. InPlace => ~list'.open
  BY <1>1, <1>2, PickerAlone
<1>5. focus' \in Places
  BY <1>1, ElsewhereFact DEF Dismiss, SaveTime
<1>6. QED BY <1>1, <1>2, <1>3, <1>4, <1>5, PickerMoves

\* A part of the clock changes, and the focus goes along.
LEMMA SelectStep ==
  ASSUME PopupInv, picker.open, list' = ClosedList \/ list' = list,
         \/ \E h \in 0..(Hours - 1) : SelectHour(h)
         \/ \E m \in 0..(Minutes - 1) : SelectMinute(m)
  PROVE  PopupKeeps
<1>1. picker.draft \in Clock
  BY DEF PopupInv, PopupTypes
<1>2. PICK clock \in Clock :
        /\ picker' = [picker EXCEPT !.draft = clock]
        /\ focus' = HourButton(clock.hour) \/ focus' = MinuteButton(clock.minute)
  <2>1. CASE \E h \in 0..(Hours - 1) : SelectHour(h)
    <3>1. PICK h \in 0..(Hours - 1) : SelectHour(h)
      BY <2>1
    <3>2. PICK clock : clock = [picker.draft EXCEPT !.hour = h]
      OBVIOUS
    <3>3. clock \in Clock /\ clock.hour = h
      BY <1>1, <3>2, ClockFact DEF Clock
    <3>4. picker' = [picker EXCEPT !.draft = clock] /\ focus' = HourButton(h)
      BY <3>1, <3>2 DEF SelectHour
    <3>5. QED BY <3>3, <3>4
  <2>2. CASE \E m \in 0..(Minutes - 1) : SelectMinute(m)
    <3>1. PICK m \in 0..(Minutes - 1) : SelectMinute(m)
      BY <2>2
    <3>2. PICK clock : clock = [picker.draft EXCEPT !.minute = m]
      OBVIOUS
    <3>3. clock \in Clock /\ clock.minute = m
      BY <1>1, <3>2, ClockFact DEF Clock
    <3>4. picker' = [picker EXCEPT !.draft = clock] /\ focus' = MinuteButton(m)
      BY <3>1, <3>2 DEF SelectMinute
    <3>5. QED BY <3>3, <3>4
  <2>3. QED BY <2>1, <2>2
<1>3. picker' \in [open : BOOLEAN, draft : Clock, value : Clock \union {NoTime}]
  BY <1>2 DEF PopupInv, PopupTypes
<1>4. focus' \in Panel
  BY <1>2, ClockFact DEF Panel
<1>5. InPlace => ~list'.open
  BY PickerAlone
<1>6. QED BY <1>3, <1>4, <1>5, ElsewhereFact, PickerMoves

LEMMA ClickStep ==
  PopupInv /\ (\/ \E h \in 0..(Hours - 1) : ClickHour(h)
               \/ \E m \in 0..(Minutes - 1) : ClickMinute(m)) => PopupKeeps
BY SelectStep DEF ClickHour, ClickMinute, Pressed, Keyed

\* A key of an option's button is pressed on an option of the clock.
LEMMA KeyFact ==
  ASSUME PopupInv
  PROVE  /\ Key("hour") => focus[2] \in 0..(Hours - 1)
         /\ Key("minute") => focus[2] \in 0..(Minutes - 1)
BY DEF Key, PopupInv, PopupTypes, Places, Panel, CloseButton, HourButton, MinuteButton, CancelButton, ConfirmButton,
       Nowhere, Elsewhere, ListBox, ListOption, Trigger

LEMMA StepPartStep == PopupInv /\ (StepHour \/ StepMinute) => PopupKeeps
<1>1. SUFFICES ASSUME PopupInv, StepHour \/ StepMinute PROVE PopupKeeps
  OBVIOUS
<1>2. picker.open /\ list' = list /\ Hours \in Nat \ {0} /\ Minutes \in Nat \ {0}
  BY <1>1, PopupAssumption DEF StepHour, StepMinute, Key
<1>3. CASE StepHour
  <2>1. PICK from \in 0..(Hours - 1) : from = focus[2]
    BY <1>1, <1>3, KeyFact DEF StepHour
  <2>2. PICK h \in Reached(from, Hours) : SelectHour(h)
    BY <1>3, <2>1 DEF StepHour
  <2>3. h \in 0..(Hours - 1)
    BY <1>2, <2>2, ReachedFact
  <2>4. QED BY <1>1, <1>2, <2>2, <2>3, SelectStep
<1>4. CASE StepMinute
  <2>1. PICK from \in 0..(Minutes - 1) : from = focus[2]
    BY <1>1, <1>4, KeyFact DEF StepMinute
  <2>2. PICK m \in Reached(from, Minutes) : SelectMinute(m)
    BY <1>4, <2>1 DEF StepMinute
  <2>3. m \in 0..(Minutes - 1)
    BY <1>2, <2>2, ReachedFact
  <2>4. QED BY <1>1, <1>2, <2>2, <2>3, SelectStep
<1>5. QED BY <1>1, <1>3, <1>4

\* Only the focus moves, and a press closes the list.
LEMMA FocusStep ==
  ASSUME PopupInv, list' = ClosedList \/ list' = list, picker' = picker, picker.open, focus' \in Panel
  PROVE  PopupKeeps
<1>1. picker' \in [open : BOOLEAN, draft : Clock, value : Clock \union {NoTime}]
  BY DEF PopupInv, PopupTypes
<1>2. InPlace => ~list'.open
  BY PickerAlone
<1>3. QED BY <1>1, <1>2, PickerMoves DEF Places

LEMMA CrossStep == PopupInv /\ (ToMinutes \/ ToHours) => PopupKeeps
<1>1. SUFFICES ASSUME PopupInv, ToMinutes \/ ToHours PROVE PopupKeeps
  OBVIOUS
<1>2. picker.draft \in Clock
  BY <1>1 DEF PopupInv, PopupTypes
<1>3. HourButton(picker.draft.hour) \in Panel /\ MinuteButton(picker.draft.minute) \in Panel
  BY <1>2, ClockFact DEF Panel
<1>4. QED BY <1>1, <1>3, FocusStep DEF ToMinutes, ToHours, Key

LEMMA TabStep == ASSUME NEW d \in {-1, 1} PROVE PopupInv /\ Tab(d) => PopupKeeps
<1>1. SUFFICES ASSUME PopupInv, Tab(d) PROVE PopupKeeps
  OBVIOUS
<1>2. focus' \in ToSet(Stops)
  BY <1>1 DEF Tab
<1>3. focus' \in Panel
  BY <1>1, <1>2, StopsFact DEF PopupInv
<1>4. QED BY <1>1, <1>3, FocusStep DEF Tab

LEMMA PressButtonStep ==
  ASSUME NEW button \in Panel PROVE PopupInv /\ PressButton(button) => PopupKeeps
BY FocusStep DEF PressButton, Pressed

-----------------------------------------------------------------------------
LEMMA FocusElsewhereStep == PopupInv /\ FocusElsewhere => PopupKeeps
<1>1. SUFFICES ASSUME PopupInv, FocusElsewhere PROVE PopupKeeps
  OBVIOUS
<1>2. list' = list /\ picker' = picker /\ focus' = Elsewhere /\ ~list.open /\ ~picker.open
  BY <1>1 DEF FocusElsewhere
<1>3. PopupTypes' /\ InView(list')
  BY <1>1, <1>2, PlacesStay, ElsewhereFact DEF PopupInv, PopupTypes
<1>4. InPlace => InPlace'
  BY <1>2, PlacedFact DEF Placed
<1>5. QED BY <1>3, <1>4 DEF PopupKeeps

\* From its place in an open popup the focus does not get out by a Tab.
LEMMA TabOnPageStep == PopupInv /\ TabOnPage => PopupKeeps
<1>1. SUFFICES ASSUME PopupInv, TabOnPage PROVE PopupKeeps
  OBVIOUS
<1>2. /\ list' = list /\ picker' = picker
      /\ focus \in {Nowhere, Elsewhere, ListOption, Trigger} \/ (focus = ListBox /\ ~list.open)
      /\ focus' \in {Elsewhere, ListBox, Trigger, ListOption} \union ToSet(Stops)
  BY <1>1 DEF TabOnPage
<1>3. focus' \in Places
  BY <1>1, <1>2, StopsFact DEF PopupInv, Places
<1>4. PopupTypes' /\ InView(list')
  BY <1>1, <1>2, <1>3, PlacesStay DEF PopupInv, PopupTypes
<1>5. InPlace => ~list.open /\ ~picker.open
  BY <1>2, ElementsFact DEF InPlace
<1>6. InPlace => InPlace'
  BY <1>2, <1>5, PlacedFact DEF Placed
<1>7. QED BY <1>4, <1>6 DEF PopupKeeps

\* A press that misses the controls leaves the popups as they are, or closes the list.
LEMMA MissStep == PopupInv /\ (MissList \/ MissPicker) => PopupTypes' /\ InView(list')
<1>1. SUFFICES ASSUME PopupInv, MissList \/ MissPicker PROVE PopupTypes' /\ InView(list')
  OBVIOUS
<1>2. picker' = picker /\ (list' = list \/ list' = ClosedList) /\ focus' \in {Nowhere, ListOption}
  BY <1>1 DEF MissList, MissPicker, Pressed
<1>3. focus' \in Places
  BY <1>2 DEF Places
<1>4. QED BY <1>1, <1>2, <1>3, ClosedFact, PlacesStay DEF PopupInv, PopupTypes

LEMMA ListStepStep == PopupInv /\ ListStep => PopupKeeps
<1>1. CASE OpenList \/ CloseList \/ LeaveList \/ FocusSearch \/ EnterOption
  BY <1>1, OpenListStep, CloseListStep, FocusSearchStep, EnterOptionStep
<1>2. CASE \E x \in Text : Type(x)
  BY <1>2, TypeStep
<1>3. CASE \E d \in {-1, 1} : ArrowInList(d)
  BY <1>3, ArrowStep
<1>4. CASE \E j \in DOMAIN Filtered : PointAt(j) \/ ChooseOption(j)
  BY <1>4, PointStep
<1>5. QED BY <1>1, <1>2, <1>3, <1>4 DEF ListStep

LEMMA PickerStepStep == PopupInv /\ PickerStep => PopupKeeps
<1>1. CASE OpenPicker \/ Dismiss \/ SaveTime
  BY <1>1, OpenPickerStep, ClosePickerStep
<1>2. CASE \/ \E h \in 0..(Hours - 1) : ClickHour(h)
           \/ \E m \in 0..(Minutes - 1) : ClickMinute(m)
  BY <1>2, ClickStep
<1>3. CASE StepHour \/ StepMinute \/ ToMinutes \/ ToHours
  BY <1>3, StepPartStep, CrossStep
<1>4. CASE \E d \in {-1, 1} : Tab(d)
  BY <1>4, TabStep
<1>5. CASE \E button \in Panel : PressButton(button)
  BY <1>5, PressButtonStep
<1>6. QED BY <1>1, <1>2, <1>3, <1>4, <1>5 DEF PickerStep

LEMMA PopupNextStep == PopupInv /\ [PopupNext]_popupVars => PopupInv'
<1>1. SUFFICES ASSUME PopupInv, [PopupNext]_popupVars PROVE PopupInv'
  OBVIOUS
<1>2. CASE UNCHANGED popupVars
  <2>1. list' = list /\ picker' = picker /\ focus' = focus /\ missed' = missed
    BY <1>2 DEF popupVars
  <2>2. PopupTypes' /\ InView(list')
    BY <1>1, <2>1, PlacesStay DEF PopupInv, PopupTypes
  <2>3. ~missed' => InPlace'
    BY <1>1, <2>1, PlacedFact DEF PopupInv
  <2>4. QED BY <2>2, <2>3, InViewFact DEF PopupInv
<1>3. CASE (ListStep \/ PickerStep \/ FocusElsewhere \/ TabOnPage) /\ missed' = (missed /\ ~InPlace')
  <2>1. PopupKeeps
    BY <1>1, <1>3, ListStepStep, PickerStepStep, FocusElsewhereStep, TabOnPageStep
  <2>2. ~missed' => InPlace'
    <3>1. ~missed => InPlace
      BY <1>1 DEF PopupInv
    <3>2. InPlace => InPlace'
      BY <2>1 DEF PopupKeeps
    <3>3. QED BY <1>3, <3>1, <3>2
  <2>3. QED BY <2>1, <2>2, InViewFact DEF PopupKeeps, PopupInv
<1>4. CASE (MissList \/ MissPicker) /\ missed' = TRUE
  <2>1. PopupTypes' /\ InView(list')
    BY <1>1, <1>4, MissStep
  <2>2. QED BY <1>4, <2>1, InViewFact DEF PopupInv
<1>5. QED BY <1>1, <1>2, <1>3, <1>4 DEF PopupNext

(***************************************************************************)
(* However the popups are used, whatever their options and what a search   *)
(* finds of them: one is open at a time and has the focus, and the         *)
(* keyboard neither gets stuck nor out, but after a press that missed the  *)
(* controls of a popup that stays open, until the focus is back; and Enter *)
(* chooses an option that is in view (handleKeyDown, handleOptionKeyDown,  *)
(* trapTab).                                                               *)
(***************************************************************************)
THEOREM PopupsKeepFocus == PopupSpec => []PopupsHold
<1>1. PopupInv => PopupsHold
  <2>1. SUFFICES ASSUME PopupInv PROVE PopupsHold
    OBVIOUS
  <2>2. list.open /\ Filtered # <<>> => list.active \in DOMAIN Filtered
    BY <2>1 DEF PopupInv, InView, Filtered, Finds
  <2>3. list.value \in ToSet(Options) /\ picker.draft \in Clock /\ picker.value \in Clock \union {NoTime}
    BY <2>1 DEF PopupInv, PopupTypes
  <2>4. QED BY <2>1, <2>2, <2>3 DEF PopupInv, PopupsHold
<1>2. QED BY <1>1, PopupsStart, PopupNextStep, PTL DEF PopupSpec

-----------------------------------------------------------------------------
(***************************************************************************)
(* The import wizard: the identities that instances can have, and the      *)
(* requests.                                                               *)
(***************************************************************************)
Identities == {Identity(a) : a \in Instance}
Request == [ticket : Nat \ {0}, query : Query, more : BOOLEAN, cursor : Nat]

\* What the wizard holds, each of its type.
WizardTypes ==
  /\ draft \in Seq(Instance) /\ open \in BOOLEAN /\ asked \in Query
  /\ w \in [step : 1..3, query : Query \union {NoQuery}, rows : Seq(Instance), selected : SUBSET Identities,
            cursor : Nat, pages : Nat, busy : BOOLEAN]
  /\ flights \subseteq Request /\ loads \in Nat /\ current \in Nat

\* The wizard waits for at most one request, for the next page of what it shows.
RequestsFit ==
  /\ \A f \in flights : f.ticket <= loads
  /\ \A f, g \in flights : f.ticket = g.ticket => f = g
  /\ w.busy <=> \E f \in flights : f.ticket = current
  /\ \A f \in flights : f.ticket = current =>
       \/ ~f.more /\ w.step = 1 /\ f.query = asked /\ f.cursor = 0
       \/ f.more /\ w.step = 2 /\ f.query = w.query /\ f.cursor = w.cursor /\ w.cursor # 0 /\ w.pages < MaxPages

\* The rows are the pages so far, each instance once.
RowsFit ==
  /\ 0 \notin seen
  /\ w.step = 1 => w.query = NoQuery /\ w.rows = <<>> /\ w.selected = {} /\ seen = {}
  /\ w.step > 1 =>
       /\ w.query = asked /\ w.pages \in 1..MaxPages /\ w.pages <= Len(Listing[asked])
       /\ w.rows = PagesOf(asked, w.pages) /\ w.cursor = Following(asked, w.pages)
  /\ \A p, q \in DOMAIN w.rows : Identity(w.rows[p]) = Identity(w.rows[q]) => p = q

\* What is picked is shown, new, and not too much.
PicksFit ==
  /\ \A id \in w.selected : id \notin Known /\ \E p \in DOMAIN w.rows : id = Identity(w.rows[p])
  /\ IsFiniteSet(w.selected) /\ Cardinality(w.selected) <= Capacity
  /\ w.step = 3 => w.selected # {}

DraftFits ==
  /\ Len(Drafted) <= Len(draft)
  /\ \A i, j \in DOMAIN draft :
       i < j /\ Identity(draft[i]) = Identity(draft[j]) => j <= Len(Drafted)
  /\ draft = Drafted \/ Len(draft) <= MaxAccounts

WizardInv == WizardTypes /\ RequestsFit /\ RowsFit /\ PicksFit /\ DraftFits

-----------------------------------------------------------------------------
\* The room that is left in the draft.
LEMMA CapacityFact ==
  ASSUME NEW n \in Nat
  PROVE  /\ Max({MaxAccounts - n, 0}) \in Nat
         /\ n <= MaxAccounts => Max({MaxAccounts - n, 0}) = MaxAccounts - n
         /\ n > MaxAccounts => Max({MaxAccounts - n, 0}) = 0
<1>1. MaxAccounts \in Nat
  BY WizardAssumption
<1>2. PICK k \in Int : k = MaxAccounts - n
  BY <1>1
<1>3. \E m \in {k, 0} : \A x \in {k, 0} : m >= x
  <2>1. CASE k >= 0
    BY <2>1
  <2>2. CASE k < 0
    BY <2>2
  <2>3. QED BY <2>1, <2>2
<1>4. Max({k, 0}) \in {k, 0} /\ \A x \in {k, 0} : Max({k, 0}) >= x
  BY <1>3 DEF Max
<1>5. QED BY <1>1, <1>2, <1>4

\* The rows whose instances are not, or are, in a set.
RowsOutside(rows, known) == {p \in DOMAIN rows : Identity(rows[p]) \notin known}
RowsInside(rows, selected) == {p \in DOMAIN rows : Identity(rows[p]) \in selected}

(***************************************************************************)
(* The rows that are picked: as many as the identities that are selected,  *)
(* if those are of rows that are not known.                                *)
(***************************************************************************)
LEMMA PickedFact ==
  ASSUME NEW rows \in Seq(Instance),
         \A p, q \in DOMAIN rows : Identity(rows[p]) = Identity(rows[q]) => p = q,
         NEW known, NEW unknown, unknown = Chosen(rows, RowsOutside(rows, known)),
         NEW selected, NEW picked, picked = Chosen(unknown, RowsInside(unknown, selected)),
         \A id \in selected : id \notin known /\ \E p \in DOMAIN rows : id = Identity(rows[p])
  PROVE  /\ picked \in Seq(Instance) /\ Len(picked) \in Nat
         /\ IsFiniteSet(selected) /\ Cardinality(selected) = Len(picked)
         /\ picked = <<>> <=> selected = {}
         /\ unknown \in Seq(Instance) /\ Len(unknown) \in Nat /\ DOMAIN unknown = 1..Len(unknown)
         /\ \A p \in DOMAIN unknown : /\ Identity(unknown[p]) \notin known
                                      /\ \E q \in DOMAIN rows : Identity(unknown[p]) = Identity(rows[q])
<1>1. PICK P : P = RowsOutside(rows, known)
  OBVIOUS
<1>2. P \subseteq DOMAIN rows /\ \A p \in DOMAIN rows : p \in P <=> Identity(rows[p]) \notin known
  BY <1>1 DEF RowsOutside
<1>3. PICK Q : Q = RowsInside(unknown, selected)
  OBVIOUS
<1>4. Q \subseteq DOMAIN unknown /\ \A p \in DOMAIN unknown : p \in Q <=> Identity(unknown[p]) \in selected
  BY <1>3 DEF RowsInside
<1>5. PICK ids : ids = IdentitiesAt(rows, P)
  OBVIOUS
<1>6. /\ unknown \in Seq(Instance) /\ DOMAIN unknown = 1..Len(unknown) /\ Len(unknown) \in Nat
      /\ \A p, q \in DOMAIN unknown : Identity(unknown[p]) = Identity(unknown[q]) => p = q
      /\ ids = IdentitiesAt(unknown, DOMAIN unknown)
  BY <1>1, <1>2, <1>5, ChosenRows
<1>7. \A id : id \in ids <=> id \notin known /\ \E q \in DOMAIN rows : id = Identity(rows[q])
  BY <1>1, <1>2, <1>5, IdentitiesFact
<1>8. selected = IdentitiesAt(unknown, Q)
  <2>1. ASSUME NEW id \in selected PROVE \E p \in Q : id = Identity(unknown[p])
    <3>1. id \in ids
      BY <1>7
    <3>2. PICK p \in DOMAIN unknown : id = Identity(unknown[p])
      BY <1>6, <3>1, IdentitiesFact
    <3>3. QED BY <1>4, <3>2
  <2>2. \A p \in Q : Identity(unknown[p]) \in selected
    BY <1>4
  <2>3. \A id : id \in selected <=> id \in IdentitiesAt(unknown, Q)
    BY <2>1, <2>2, IdentitiesFact
  <2>4. QED BY <2>3
<1>9. /\ picked \in Seq(Instance) /\ Len(picked) \in Nat
      /\ IsFiniteSet(selected) /\ Cardinality(selected) = Len(picked)
  BY <1>3, <1>4, <1>6, <1>8, ChosenRows
<1>10. picked = <<>> <=> Len(picked) = 0
  BY <1>9
<1>11. selected = {} <=> Cardinality(selected) = 0
  BY <1>9, FS_EmptySet
<1>12. \A p \in DOMAIN unknown : Identity(unknown[p]) \in ids
  BY <1>6, IdentitiesFact
<1>13. QED BY <1>6, <1>7, <1>9, <1>10, <1>11, <1>12

\* What the invariant says of the rows that are picked.
LEMMA WizardParts ==
  ASSUME WizardInv
  PROVE  /\ WizardTypes /\ RequestsFit /\ RowsFit /\ PicksFit /\ DraftFits
         /\ w.step \in 1..3 /\ w.busy \in BOOLEAN /\ w.rows \in Seq(Instance)
         /\ Len(draft) \in Nat /\ DOMAIN draft = 1..Len(draft) /\ Capacity \in Nat
         /\ Len(Drafted) \in Nat /\ DOMAIN Drafted = 1..Len(Drafted)
         /\ Picked \in Seq(Instance) /\ Len(Picked) \in Nat /\ Len(Picked) = Cardinality(w.selected)
         /\ Picked = <<>> <=> w.selected = {}
         /\ Unknown \in Seq(Instance) /\ Len(Unknown) \in Nat /\ DOMAIN Unknown = 1..Len(Unknown)
         /\ \A p \in DOMAIN Unknown : /\ Identity(Unknown[p]) \notin Known
                                      /\ \E q \in DOMAIN w.rows : Identity(Unknown[p]) = Identity(w.rows[q])
<1>1. WizardTypes /\ RequestsFit /\ RowsFit /\ PicksFit /\ DraftFits
  BY DEF WizardInv
<1>2. w.step \in 1..3 /\ w.busy \in BOOLEAN /\ w.rows \in Seq(Instance) /\ draft \in Seq(Instance)
  BY <1>1 DEF WizardTypes
<1>3. Len(draft) \in Nat /\ DOMAIN draft = 1..Len(draft)
  BY <1>2, DomainOfSeq
<1>4. Capacity \in Nat
  BY <1>3, CapacityFact DEF Capacity
<1>5. Len(Drafted) \in Nat /\ DOMAIN Drafted = 1..Len(Drafted)
  BY WizardAssumption, DomainOfSeq
<1>6. /\ \A p, q \in DOMAIN w.rows : Identity(w.rows[p]) = Identity(w.rows[q]) => p = q
      /\ \A id \in w.selected : id \notin Known /\ \E p \in DOMAIN w.rows : id = Identity(w.rows[p])
  BY <1>1 DEF RowsFit, PicksFit
<1>7. Unknown = Chosen(w.rows, RowsOutside(w.rows, Known)) /\ Picked = Chosen(Unknown, RowsInside(Unknown, w.selected))
  BY DEF Unknown, Picked, RowsOutside, RowsInside
<1>8. QED BY <1>1, <1>2, <1>3, <1>4, <1>5, <1>6, <1>7, PickedFact

\* What the wizard shows is right where the invariant holds.
LEMMA WizardShows == WizardInv => WizardShowsQuery
<1>1. SUFFICES ASSUME WizardInv PROVE WizardShowsQuery
  OBVIOUS
<1>2. /\ RequestsFit /\ RowsFit /\ PicksFit /\ DraftFits /\ w.step \in 1..3
      /\ asked \in Query /\ Len(Picked) = Cardinality(w.selected) /\ (Picked = <<>> <=> w.selected = {})
  BY <1>1, WizardParts DEF WizardTypes
<1>3. NoQuery \notin Query
  BY WizardAssumption
<1>4. w.step > 1 <=> w.query # NoQuery
  BY <1>2, <1>3 DEF RowsFit
<1>5. w.query # NoQuery => /\ w.query = asked /\ w.pages \in 1..MaxPages
                           /\ w.rows = PagesOf(w.query, w.pages)
                           /\ w.cursor = Following(w.query, w.pages)
  BY <1>2, <1>4 DEF RowsFit
<1>6. w.busy <=> \E f \in flights : f.ticket = current
  BY <1>2 DEF RequestsFit
<1>7. Len(Picked) <= Capacity /\ (w.step = 3 => Picked # <<>>)
  BY <1>2 DEF PicksFit
<1>8. QED BY <1>2, <1>4, <1>5, <1>6, <1>7 DEF WizardShowsQuery, DraftFits

LEMMA WizardStart == WizardInit => WizardInv
<1>1. SUFFICES ASSUME WizardInit PROVE WizardInv
  OBVIOUS
<1>2. /\ draft = Drafted /\ open = FALSE /\ asked \in Query /\ w = Fresh
      /\ seen = {} /\ current = 0 /\ flights = {} /\ loads = 0
  BY <1>1 DEF WizardInit
<1>3. Drafted \in Seq(Instance) /\ Len(Drafted) \in Nat /\ DOMAIN Drafted = 1..Len(Drafted)
  BY WizardAssumption, DomainOfSeq
<1>4. WizardTypes
  <2>1. w \in [step : 1..3, query : Query \union {NoQuery}, rows : Seq(Instance),
               selected : SUBSET Identities, cursor : Nat, pages : Nat, busy : BOOLEAN]
    BY <1>2 DEF Fresh
  <2>2. QED BY <1>2, <1>3, <2>1 DEF WizardTypes
<1>5. RequestsFit /\ RowsFit
  BY <1>2 DEF RequestsFit, RowsFit, Fresh
<1>6. Capacity \in Nat
  BY <1>2, <1>3, CapacityFact DEF Capacity
<1>7. PicksFit
  BY <1>2, <1>6, FS_EmptySet DEF PicksFit, Fresh
<1>8. DraftFits
  BY <1>2, <1>3 DEF DraftFits
<1>9. QED BY <1>4, <1>5, <1>7, <1>8 DEF WizardInv

\* A reset forgets the query and the request that was awaited.
LEMMA ResetStep ==
  ASSUME WizardInv, Reset, draft' \in Seq(Instance), DraftFits', open' \in BOOLEAN, asked' \in Query,
         flights' \subseteq flights, loads' = loads
  PROVE  WizardInv'
<1>1. WizardTypes /\ RequestsFit
  BY WizardParts
<1>2. w' = Fresh /\ seen' = {} /\ current' = 0
  BY DEF Reset
<1>3. WizardTypes'
  BY <1>1, <1>2 DEF WizardTypes, Fresh
<1>4. \A f \in flights' : f \in flights /\ f.ticket # 0
  BY <1>1 DEF WizardTypes, Request
<1>5. RequestsFit'
  BY <1>1, <1>2, <1>4 DEF RequestsFit, Fresh
<1>6. RowsFit'
  BY <1>2 DEF RowsFit, Fresh
<1>7. Capacity' \in Nat
  <2>1. PICK n \in Nat : n = Len(draft')
    BY DomainOfSeq
  <2>2. QED BY <2>1, CapacityFact DEF Capacity
<1>8. PicksFit'
  BY <1>2, <1>7, FS_EmptySet DEF PicksFit, Fresh
<1>9. QED BY <1>3, <1>5, <1>6, <1>8 DEF WizardInv

\* A step that leaves the draft alone leaves what is known of it alone.
LEMMA DraftKept ==
  ASSUME WizardInv, draft' = draft
  PROVE  DraftFits' /\ Capacity' = Capacity /\ Known' = Known
<1>1. DraftFits
  BY WizardParts
<1>2. QED BY <1>1 DEF DraftFits, Capacity, Known

LEMMA ResetActions ==
  ASSUME WizardInv, (\E q \in Query : OpenWizard(q) \/ ChooseQuery(q)) \/ CloseWizard \/ BackToQuery
  PROVE  WizardInv'
<1>1. WizardTypes
  BY WizardParts
<1>2. /\ Reset /\ draft' = draft /\ open' \in BOOLEAN /\ asked' \in Query
      /\ flights' \subseteq flights /\ loads' = loads
  <2>1. CASE \E q \in Query : OpenWizard(q) \/ ChooseQuery(q)
    BY <1>1, <2>1 DEF OpenWizard, ChooseQuery, WizardTypes
  <2>2. CASE CloseWizard \/ BackToQuery
    BY <1>1, <2>2 DEF CloseWizard, BackToQuery, Unmounted, WizardTypes
  <2>3. QED BY <2>1, <2>2
<1>3. draft' \in Seq(Instance)
  BY <1>1, <1>2 DEF WizardTypes
<1>4. QED BY <1>2, <1>3, DraftKept, ResetStep

\* A request that starts is the only one that is awaited.
LEMMA LoadStep == WizardInv /\ (LoadFirst \/ LoadMore) => WizardInv'
<1>1. SUFFICES ASSUME WizardInv, LoadFirst \/ LoadMore PROVE WizardInv'
  OBVIOUS
<1>2. WizardTypes /\ RequestsFit /\ RowsFit /\ PicksFit
  BY <1>1, WizardParts
<1>3. PICK n, q, more, cursor, f :
        /\ n = loads + 1 /\ f = [ticket |-> n, query |-> q, more |-> more, cursor |-> cursor]
        /\ ~w.busy /\ loads' = n /\ current' = n /\ flights' = flights \union {f}
        /\ w' = [w EXCEPT !.busy = TRUE]
        /\ draft' = draft /\ open' = open /\ asked' = asked /\ seen' = seen
        /\ \/ more = FALSE /\ w.step = 1 /\ q = asked /\ cursor = 0
           \/ more = TRUE /\ w.step = 2 /\ q = w.query /\ cursor = w.cursor /\ w.cursor # 0 /\ w.pages < MaxPages
  BY <1>1 DEF LoadFirst, LoadMore, Load
<1>4. loads \in Nat /\ n \in Nat \ {0} /\ n > loads
  BY <1>2, <1>3 DEF WizardTypes
<1>5. /\ w'.step = w.step /\ w'.query = w.query /\ w'.rows = w.rows /\ w'.selected = w.selected
      /\ w'.cursor = w.cursor /\ w'.pages = w.pages /\ w'.busy = TRUE
  BY <1>2, <1>3 DEF WizardTypes
<1>6. (q = asked \/ (q = w.query /\ w.step = 2)) /\ (cursor = 0 \/ cursor = w.cursor)
      /\ (more = TRUE \/ more = FALSE)
  BY <1>3
<1>7. q \in Query /\ cursor \in Nat /\ more \in BOOLEAN
  <2>1. w.step = 2 => w.query = asked
    BY <1>2 DEF RowsFit
  <2>2. asked \in Query /\ w.cursor \in Nat
    BY <1>2 DEF WizardTypes
  <2>3. q \in Query
    BY <1>6, <2>1, <2>2
  <2>4. cursor \in Nat
    BY <1>6, <2>2
  <2>5. QED BY <1>6, <2>3, <2>4
<1>8. f \in Request /\ f.ticket = n /\ f.query = q /\ f.more = more /\ f.cursor = cursor
  BY <1>3, <1>4, <1>7 DEF Request
<1>9. WizardTypes'
  BY <1>2, <1>3, <1>4, <1>8 DEF WizardTypes
<1>10. \A g \in flights : g.ticket \in Nat /\ g.ticket <= loads /\ g.ticket # n
  <2>1. \A g \in flights : g.ticket \in Nat /\ g.ticket <= loads
    BY <1>2 DEF WizardTypes, RequestsFit, Request
  <2>2. QED BY <1>4, <2>1
<1>11. RequestsFit'
  <2>1. \A g \in flights' : g.ticket <= loads'
    BY <1>3, <1>4, <1>8, <1>10
  <2>2. \A g, h \in flights' : g.ticket = h.ticket => g = h
    BY <1>2, <1>3, <1>8, <1>10 DEF RequestsFit
  <2>3. \A g \in flights' : g.ticket = current' => g = f
    BY <1>3, <1>8, <1>10
  <2>4. w'.busy <=> \E g \in flights' : g.ticket = current'
    BY <1>3, <1>5, <1>8
  <2>5. \/ ~f.more /\ w'.step = 1 /\ f.query = asked' /\ f.cursor = 0
        \/ /\ f.more /\ w'.step = 2 /\ f.query = w'.query /\ f.cursor = w'.cursor
           /\ w'.cursor # 0 /\ w'.pages < MaxPages
    BY <1>3, <1>5, <1>8
  <2>6. QED BY <2>1, <2>2, <2>3, <2>4, <2>5 DEF RequestsFit
<1>12. RowsFit'
  BY <1>2, <1>3, <1>5 DEF RowsFit
<1>13. PicksFit'
  BY <1>1, <1>2, <1>3, <1>5, DraftKept DEF PicksFit
<1>14. QED BY <1>1, <1>3, <1>9, <1>11, <1>12, <1>13, DraftKept DEF WizardInv

\* A failure is only of interest while it is awaited.
LEMMA FailStep == WizardInv /\ (\E f \in flights : Fail(f)) => WizardInv'
<1>1. SUFFICES ASSUME WizardInv, NEW f \in flights, Fail(f) PROVE WizardInv'
  OBVIOUS
<1>2. WizardTypes /\ RequestsFit /\ RowsFit /\ PicksFit
  BY <1>1, WizardParts
<1>3. /\ flights' = flights \ {f} /\ w' = IF f.ticket = current THEN [w EXCEPT !.busy = FALSE] ELSE w
      /\ draft' = draft /\ open' = open /\ asked' = asked /\ seen' = seen /\ current' = current /\ loads' = loads
  BY <1>1 DEF Fail
<1>4. /\ w'.step = w.step /\ w'.query = w.query /\ w'.rows = w.rows /\ w'.selected = w.selected
      /\ w'.cursor = w.cursor /\ w'.pages = w.pages
      /\ w'.busy = IF f.ticket = current THEN FALSE ELSE w.busy
  BY <1>2, <1>3 DEF WizardTypes
<1>5. WizardTypes'
  <2>1. w' \in [step : 1..3, query : Query \union {NoQuery}, rows : Seq(Instance),
                selected : SUBSET Identities, cursor : Nat, pages : Nat, busy : BOOLEAN]
    BY <1>2, <1>3 DEF WizardTypes
  <2>2. QED BY <1>2, <1>3, <2>1 DEF WizardTypes
<1>6. w'.busy <=> \E g \in flights' : g.ticket = current'
  <2>1. CASE f.ticket = current
    BY <1>2, <1>3, <1>4, <2>1 DEF RequestsFit
  <2>2. CASE f.ticket # current
    BY <1>2, <1>3, <1>4, <2>2 DEF RequestsFit
  <2>3. QED BY <2>1, <2>2
<1>7. RequestsFit'
  BY <1>2, <1>3, <1>4, <1>6 DEF RequestsFit
<1>8. RowsFit'
  BY <1>2, <1>3, <1>4 DEF RowsFit
<1>9. PicksFit'
  BY <1>1, <1>2, <1>3, <1>4, DraftKept DEF PicksFit
<1>10. QED BY <1>1, <1>3, <1>5, <1>7, <1>8, <1>9, DraftKept DEF WizardInv

-----------------------------------------------------------------------------
(***************************************************************************)
(* The pages of a query, merged: instances, each once; and the next page   *)
(* merged into them is the pages so far.                                   *)
(***************************************************************************)
LEMMA PagesFact ==
  ASSUME NEW q \in Query, NEW n \in 1..Len(Listing[q])
  PROVE  /\ PagesOf(q, n) \in Seq(Instance) /\ Listing[q][n] \in Seq(Instance)
         /\ \A i, j \in DOMAIN PagesOf(q, n) : Identity(PagesOf(q, n)[i]) = Identity(PagesOf(q, n)[j]) => i = j
         /\ n = 1 => MergeDiscovered(<<>>, Listing[q][n]) = PagesOf(q, n)
         /\ n + 1 <= Len(Listing[q]) => /\ MergeDiscovered(PagesOf(q, n), Listing[q][n + 1]) = PagesOf(q, n + 1)
                                        /\ Listing[q][n + 1] \in Seq(Instance)
<1>1. PICK s \in Seq(Seq(Instance)) : s = Listing[q]
  BY WizardAssumption
<1>2. PICK k : k = n + 1
  OBVIOUS
<1>3. PICK all : all = FlattenSeq(SubSeq(s, 1, n))
  OBVIOUS
<1>4. /\ all \in Seq(Instance) /\ (n = 1 => all = s[n])
      /\ k <= Len(s) => FlattenSeq(SubSeq(s, 1, k)) = all \o s[k]
  BY <1>1, <1>2, <1>3, FlattenGrows
<1>5. Len(s) \in Nat /\ DOMAIN s = 1..Len(s) /\ \A j \in DOMAIN s : s[j] \in Seq(Instance)
  BY <1>1, DomainOfSeq
<1>6. n \in DOMAIN s /\ (k <= Len(s) => k \in DOMAIN s)
  BY <1>1, <1>2, <1>5
<1>7. s[n] \in Seq(Instance) /\ (k <= Len(s) => s[k] \in Seq(Instance))
  BY <1>5, <1>6
<1>8. PagesOf(q, n) = MergeDiscovered(<<>>, all)
  BY <1>1, <1>3 DEF PagesOf
<1>9. /\ PagesOf(q, n) \in Seq(Instance)
      /\ \A i, j \in DOMAIN PagesOf(q, n) : Identity(PagesOf(q, n)[i]) = Identity(PagesOf(q, n)[j]) => i = j
  <2>1. <<>> \in Seq(Instance)
    OBVIOUS
  <2>2. /\ MergeDiscovered(<<>>, all) \in Seq(Instance)
        /\ \A i, j \in DOMAIN MergeDiscovered(<<>>, all) :
             Identity(MergeDiscovered(<<>>, all)[i]) = Identity(MergeDiscovered(<<>>, all)[j]) => i = j
    <3>1. all \in Seq(Instance)
      BY <1>4
    <3>2. QED BY <2>1, <3>1, MergedFact
  <2>3. QED BY <1>8, <2>2
<1>10. k <= Len(s) => MergeDiscovered(PagesOf(q, n), s[k]) = PagesOf(q, k)
  <2>1. SUFFICES ASSUME k <= Len(s) PROVE MergeDiscovered(PagesOf(q, n), s[k]) = PagesOf(q, k)
    OBVIOUS
  <2>2. PagesOf(q, k) = MergeDiscovered(<<>>, all \o s[k])
    BY <1>1, <1>4, <2>1 DEF PagesOf
  <2>3. QED BY <1>4, <1>7, <1>8, <2>1, <2>2, MergeAgain
<1>11. QED BY <1>1, <1>2, <1>4, <1>7, <1>8, <1>9, <1>10

(***************************************************************************)
(* The answer that is awaited, with a cursor that is new: it brings the    *)
(* page after those that are shown, or the first one.                      *)
(***************************************************************************)
LEMMA PageArrives ==
  ASSUME WizardInv, NEW f \in flights, NEW cursor, f.ticket = current, cursor \notin seen,
         cursor = Following(f.query, f.cursor + 1)
  PROVE  /\ f.query = asked /\ f.query \in Query /\ f.cursor \in Nat
         /\ \E n \in 1..Len(Listing[asked]) :
              /\ n = f.cursor + 1 /\ n <= MaxPages /\ cursor = Following(asked, n) /\ cursor \in Nat
              /\ n = IF f.more THEN w.pages + 1 ELSE 1
              /\ MergeDiscovered(IF f.more THEN w.rows ELSE <<>>, PageOf(f)) = PagesOf(asked, n)
              /\ f.more => /\ w.pages \in 1..Len(Listing[asked]) /\ w.rows = PagesOf(asked, w.pages)
                           /\ PageOf(f) \in Seq(Instance)
<1>1. WizardTypes /\ RequestsFit /\ RowsFit
  BY WizardParts
<1>2. /\ f.query \in Query /\ f.cursor \in Nat /\ f.more \in BOOLEAN /\ asked \in Query
      /\ w.pages \in Nat /\ w.cursor \in Nat
  BY <1>1 DEF WizardTypes, Request
<1>3. \/ ~f.more /\ w.step = 1 /\ f.query = asked /\ f.cursor = 0
      \/ f.more /\ w.step = 2 /\ f.query = w.query /\ f.cursor = w.cursor /\ w.cursor # 0 /\ w.pages < MaxPages
  BY <1>1 DEF RequestsFit
<1>4. PICK s \in Seq(Seq(Instance)) : s = Listing[asked] /\ s # <<>> /\ Len(s) \in Nat /\ Len(s) # 0
  <2>1. Listing[asked] \in Seq(Seq(Instance)) /\ Listing[asked] # <<>>
    BY <1>2, WizardAssumption
  <2>2. Len(Listing[asked]) \in Nat /\ Len(Listing[asked]) # 0
    BY <2>1
  <2>3. QED BY <2>1, <2>2
<1>5. MaxPages \in Nat \ {0}
  BY WizardAssumption
<1>6. CASE ~f.more
  <2>1. f.query = asked /\ f.cursor = 0
    BY <1>3, <1>6
  <2>2. 1 \in 1..Len(Listing[asked])
    BY <1>4
  <2>3. 0 + 1 = 1 /\ PageOf(f) = Listing[asked][1] /\ cursor = Following(asked, 1)
    BY <2>1 DEF PageOf
  <2>4. MergeDiscovered(<<>>, PageOf(f)) = PagesOf(asked, 1)
    BY <1>2, <2>2, <2>3, PagesFact
  <2>5. cursor \in Nat
    BY <2>3 DEF Following
  <2>6. QED BY <1>2, <1>5, <1>6, <2>1, <2>2, <2>3, <2>4, <2>5
<1>7. CASE f.more
  <2>1. w.step = 2 /\ f.query = asked /\ f.cursor = w.cursor /\ w.cursor # 0 /\ w.pages < MaxPages
    BY <1>1, <1>3, <1>7 DEF RowsFit
  <2>2. /\ w.pages \in 1..MaxPages /\ w.pages <= Len(s) /\ w.rows = PagesOf(asked, w.pages)
        /\ w.cursor = Following(asked, w.pages)
    BY <1>1, <1>4, <2>1 DEF RowsFit
  <2>3. w.pages < Len(s) /\ w.cursor = w.pages
    BY <1>4, <2>1, <2>2 DEF Following
  <2>4. PICK n \in Nat : n = w.pages + 1
    BY <1>2
  <2>5. n \in 1..Len(Listing[asked]) /\ n = f.cursor + 1 /\ n <= MaxPages /\ w.pages \in 1..Len(Listing[asked])
    BY <1>2, <1>4, <1>5, <2>1, <2>2, <2>3, <2>4
  <2>6. PageOf(f) = Listing[asked][n] /\ cursor = Following(asked, n)
    BY <2>1, <2>5 DEF PageOf
  <2>7. PageOf(f) \in Seq(Instance) /\ MergeDiscovered(w.rows, PageOf(f)) = PagesOf(asked, n)
    <3>1. PICK q, k : q = asked /\ k = w.pages /\ q \in Query /\ k \in 1..Len(Listing[q])
      BY <1>2, <2>5
    <3>2. n = k + 1 /\ k + 1 <= Len(Listing[q])
      BY <2>4, <2>5, <3>1
    <3>3. Listing[q][k + 1] \in Seq(Instance) /\ MergeDiscovered(PagesOf(q, k), Listing[q][k + 1]) = PagesOf(q, k + 1)
      BY <3>1, <3>2, PagesFact
    <3>4. QED BY <2>2, <2>6, <3>1, <3>2, <3>3
  <2>8. cursor \in Nat
    BY <2>4, <2>6 DEF Following
  <2>9. QED BY <1>2, <1>7, <2>1, <2>2, <2>4, <2>5, <2>6, <2>7, <2>8
<1>8. QED BY <1>2, <1>6, <1>7

LEMMA AnswerStep == WizardInv /\ (\E f \in flights : Answer(f)) => WizardInv'
<1>1. SUFFICES ASSUME WizardInv, NEW f \in flights, Answer(f) PROVE WizardInv'
  OBVIOUS
<1>2. PICK cursor \in {Following(f.query, f.cursor + 1)} \union seen : Answered(f, cursor)
  BY <1>1 DEF Answer
<1>3. CASE f.ticket # current \/ cursor \in seen
  BY <1>1, <1>2, <1>3, FailStep DEF Answered, Fail
<1>4. CASE f.ticket = current /\ cursor \notin seen
  <2>1. WizardTypes /\ RequestsFit /\ RowsFit /\ PicksFit
    BY <1>1, WizardParts
  <2>2. PICK n \in 1..Len(Listing[asked]) :
          /\ f.query = asked /\ asked \in Query /\ n <= MaxPages /\ cursor = Following(asked, n) /\ cursor \in Nat
          /\ n = IF f.more THEN w.pages + 1 ELSE 1
          /\ MergeDiscovered(IF f.more THEN w.rows ELSE <<>>, PageOf(f)) = PagesOf(asked, n)
          /\ f.more => /\ w.pages \in 1..Len(Listing[asked]) /\ w.rows = PagesOf(asked, w.pages)
                       /\ PageOf(f) \in Seq(Instance)
    BY <1>1, <1>2, <1>4, PageArrives
  <2>3. /\ flights' = flights \ {f}
        /\ w' = [step |-> 2, query |-> f.query, busy |-> FALSE, cursor |-> cursor,
                 rows |-> MergeDiscovered(IF f.more THEN w.rows ELSE <<>>, PageOf(f)),
                 pages |-> IF f.more THEN w.pages + 1 ELSE 1,
                 selected |-> IF f.more THEN w.selected ELSE {}]
        /\ seen' = seen \union ({cursor} \ {0})
        /\ draft' = draft /\ open' = open /\ asked' = asked /\ current' = current /\ loads' = loads
    BY <1>2, <1>4 DEF Answered
  <2>4. /\ w'.step = 2 /\ w'.query = asked /\ w'.busy = FALSE /\ w'.cursor = cursor
        /\ w'.rows = PagesOf(asked, n) /\ w'.pages = n /\ w'.selected = IF f.more THEN w.selected ELSE {}
    BY <2>2, <2>3
  <2>5. n \in Nat /\ n \in 1..MaxPages /\ n <= Len(Listing[asked])
    <3>1. Len(Listing[asked]) \in Nat /\ MaxPages \in Nat
      BY <2>2, WizardAssumption
    <3>2. QED BY <2>2, <3>1
  <2>6. /\ PagesOf(asked, n) \in Seq(Instance)
        /\ \A i, j \in DOMAIN PagesOf(asked, n) :
             Identity(PagesOf(asked, n)[i]) = Identity(PagesOf(asked, n)[j]) => i = j
    BY <2>2, PagesFact
  <2>7. WizardTypes'
    <3>1. PICK selected, rows : selected = w'.selected /\ rows = PagesOf(asked, n)
      OBVIOUS
    <3>2. selected \in SUBSET Identities /\ rows \in Seq(Instance)
      BY <2>1, <2>4, <2>6, <3>1 DEF WizardTypes
    <3>3. w' = [step |-> 2, query |-> asked, busy |-> FALSE, cursor |-> cursor, rows |-> rows,
                pages |-> n, selected |-> selected]
      BY <2>2, <2>3, <2>4, <3>1
    <3>4. w' \in [step : 1..3, query : Query \union {NoQuery}, rows : Seq(Instance),
                  selected : SUBSET Identities, cursor : Nat, pages : Nat, busy : BOOLEAN]
      BY <2>2, <2>5, <3>2, <3>3
    <3>5. QED BY <2>1, <2>3, <3>4 DEF WizardTypes
  <2>8. RequestsFit'
    BY <1>4, <2>1, <2>3, <2>4 DEF RequestsFit
  <2>9. RowsFit'
    BY <2>1, <2>2, <2>3, <2>4, <2>5, <2>6 DEF RowsFit
  <2>10. \A id \in w'.selected : id \notin Known' /\ \E p \in DOMAIN w'.rows : id = Identity(w'.rows[p])
    <3>1. SUFFICES ASSUME f.more, NEW id \in w.selected
                   PROVE  id \notin Known /\ \E p \in DOMAIN w'.rows : id = Identity(w'.rows[p])
      BY <1>1, <2>3, <2>4, DraftKept
    <3>2. PICK k \in DOMAIN w.rows : id \notin Known /\ id = Identity(w.rows[k])
      BY <2>1 DEF PicksFit
    <3>3. PICK rows \in Seq(Instance), page \in Seq(Instance) :
            rows = w.rows /\ page = PageOf(f) /\ w'.rows = MergeDiscovered(rows, page)
      BY <2>1, <2>2, <2>4, <3>1 DEF WizardTypes
    <3>4. \E p \in DOMAIN MergeDiscovered(rows, page) :
            Identity(MergeDiscovered(rows, page)[p]) = Identity(rows[k])
      BY <3>2, <3>3, MergedKeeps
    <3>5. QED BY <3>2, <3>3, <3>4
  <2>11. IsFiniteSet(w'.selected) /\ Cardinality(w'.selected) <= Capacity'
    BY <1>1, <2>1, <2>3, <2>4, FS_EmptySet, DraftKept, WizardParts DEF PicksFit
  <2>12. PicksFit'
    BY <2>4, <2>10, <2>11 DEF PicksFit
  <2>13. QED BY <1>1, <2>3, <2>7, <2>8, <2>9, <2>12, DraftKept DEF WizardInv
<1>5. QED BY <1>3, <1>4

-----------------------------------------------------------------------------
\* A step that changes what is picked, or which of the last two steps is shown.
LEMMA ShowStep ==
  ASSUME WizardInv, NEW step \in {2, 3}, NEW selected, ~w.busy, w.step > 1,
         Show([w EXCEPT !.step = step, !.selected = selected]),
         \A id \in selected : id \notin Known /\ \E p \in DOMAIN w.rows : id = Identity(w.rows[p]),
         IsFiniteSet(selected) /\ Cardinality(selected) <= Capacity,
         step = 3 => selected # {}
  PROVE  WizardInv'
<1>1. WizardTypes /\ RequestsFit /\ RowsFit /\ w.busy \in BOOLEAN
  BY WizardParts
<1>2. /\ w' = [w EXCEPT !.step = step, !.selected = selected]
      /\ draft' = draft /\ open' = open /\ asked' = asked /\ seen' = seen /\ current' = current
      /\ flights' = flights /\ loads' = loads
  BY DEF Show
<1>3. /\ w'.step = step /\ w'.query = w.query /\ w'.rows = w.rows /\ w'.selected = selected
      /\ w'.cursor = w.cursor /\ w'.pages = w.pages /\ w'.busy = w.busy
  BY <1>1, <1>2 DEF WizardTypes
<1>4. selected \in SUBSET Identities
  <2>1. ASSUME NEW id \in selected PROVE id \in Identities
    <3>1. PICK p \in DOMAIN w.rows : id = Identity(w.rows[p])
      OBVIOUS
    <3>2. w.rows[p] \in Instance
      BY <1>1 DEF WizardTypes
    <3>3. QED BY <3>1, <3>2 DEF Identities
  <2>2. QED BY <2>1
<1>5. WizardTypes'
  <2>1. w' \in [step : 1..3, query : Query \union {NoQuery}, rows : Seq(Instance),
                selected : SUBSET Identities, cursor : Nat, pages : Nat, busy : BOOLEAN]
    <3>1. w \in [step : 1..3, query : Query \union {NoQuery}, rows : Seq(Instance),
                 selected : SUBSET Identities, cursor : Nat, pages : Nat, busy : BOOLEAN]
      BY <1>1 DEF WizardTypes
    <3>2. step \in 1..3
      OBVIOUS
    <3>3. QED BY <1>2, <1>4, <3>1, <3>2
  <2>2. QED BY <1>1, <1>2, <2>1 DEF WizardTypes
<1>6. \A f \in flights : f.ticket # current
  BY <1>1 DEF RequestsFit
<1>7. RequestsFit'
  BY <1>1, <1>2, <1>3, <1>6 DEF RequestsFit
<1>8. RowsFit'
  BY <1>1, <1>2, <1>3 DEF RowsFit
<1>9. PicksFit'
  BY <1>2, <1>3, DraftKept DEF PicksFit
<1>10. QED BY <1>2, <1>5, <1>7, <1>8, <1>9, DraftKept DEF WizardInv

\* A row is picked, while there is room, or no longer picked.
LEMMA ToggleStep == WizardInv /\ (\E j \in DOMAIN w.rows : Toggle(w.rows[j])) => WizardInv'
<1>1. SUFFICES ASSUME WizardInv, NEW j \in DOMAIN w.rows, Toggle(w.rows[j]) PROVE WizardInv'
  OBVIOUS
<1>2. /\ WizardTypes /\ PicksFit /\ Len(Picked) \in Nat /\ Len(Picked) = Cardinality(w.selected) /\ Capacity \in Nat
  BY <1>1, WizardParts
<1>3. PICK id : id = Identity(w.rows[j])
  OBVIOUS
<1>4. /\ w.step = 2 /\ ~w.busy /\ id \notin Known
      /\ \/ id \in w.selected /\ Show([w EXCEPT !.selected = @ \ {id}])
         \/ /\ id \notin w.selected /\ Len(Picked) < Capacity
            /\ Show([w EXCEPT !.selected = @ \union {id}])
  BY <1>1, <1>3 DEF Toggle
<1>5. w \in [step : 1..3, query : Query \union {NoQuery}, rows : Seq(Instance),
             selected : SUBSET Identities, cursor : Nat, pages : Nat, busy : BOOLEAN]
  BY <1>2 DEF WizardTypes
<1>6. \A x : [w EXCEPT !.selected = x] = [w EXCEPT !.step = 2, !.selected = x]
  BY <1>4, <1>5
<1>7. CASE id \in w.selected /\ Show([w EXCEPT !.selected = @ \ {id}])
  <2>1. PICK selected : selected = w.selected \ {id}
    OBVIOUS
  <2>2. IsFiniteSet(selected) /\ Cardinality(selected) <= Cardinality(w.selected) /\ Cardinality(selected) \in Nat
    BY <1>2, <2>1, FS_Subset, FS_CardinalityType DEF PicksFit
  <2>3. IsFiniteSet(selected) /\ Cardinality(selected) <= Capacity
    BY <1>2, <2>2 DEF PicksFit
  <2>4. Show([w EXCEPT !.step = 2, !.selected = selected])
    BY <1>5, <1>6, <1>7, <2>1
  <2>5. \A x \in selected : x \notin Known /\ \E p \in DOMAIN w.rows : x = Identity(w.rows[p])
    BY <1>2, <2>1 DEF PicksFit
  <2>6. PICK step \in {2, 3} : step = 2
    OBVIOUS
  <2>7. /\ Show([w EXCEPT !.step = step, !.selected = selected]) /\ (step = 3 => selected # {})
        /\ ~w.busy /\ w.step > 1
    BY <1>4, <2>4, <2>6
  <2>8. QED BY <1>1, <2>3, <2>5, <2>7, ShowStep
<1>8. CASE id \notin w.selected /\ Len(Picked) < Capacity /\ Show([w EXCEPT !.selected = @ \union {id}])
  <2>1. PICK selected : selected = w.selected \union {id}
    OBVIOUS
  <2>2. IsFiniteSet(selected) /\ Cardinality(selected) = Cardinality(w.selected) + 1
    BY <1>2, <1>8, <2>1, FS_AddElement DEF PicksFit
  <2>3. IsFiniteSet(selected) /\ Cardinality(selected) <= Capacity
    BY <1>2, <1>8, <2>2
  <2>4. Show([w EXCEPT !.step = 2, !.selected = selected])
    BY <1>5, <1>6, <1>8, <2>1
  <2>5. \A x \in selected : x \notin Known /\ \E p \in DOMAIN w.rows : x = Identity(w.rows[p])
    BY <1>2, <1>3, <1>4, <2>1 DEF PicksFit
  <2>6. PICK step \in {2, 3} : step = 2
    OBVIOUS
  <2>7. /\ Show([w EXCEPT !.step = step, !.selected = selected]) /\ (step = 3 => selected # {})
        /\ ~w.busy /\ w.step > 1
    BY <1>4, <2>4, <2>6
  <2>8. QED BY <1>1, <2>3, <2>5, <2>7, ShowStep
<1>9. QED BY <1>4, <1>7, <1>8

\* All the rows that are new are picked, as many as there is room for.
LEMMA SelectAllStep == WizardInv /\ SelectAll => WizardInv'
<1>1. SUFFICES ASSUME WizardInv, SelectAll PROVE WizardInv'
  OBVIOUS
<1>2. /\ WizardTypes /\ Capacity \in Nat /\ Len(Unknown) \in Nat /\ DOMAIN Unknown = 1..Len(Unknown)
      /\ \A p \in DOMAIN Unknown : /\ Identity(Unknown[p]) \notin Known
                                   /\ \E q \in DOMAIN w.rows : Identity(Unknown[p]) = Identity(w.rows[q])
  BY <1>1, WizardParts
<1>3. PICK m : m = Min({Capacity, Len(Unknown)})
  OBVIOUS
<1>4. m \in Nat /\ m <= Capacity /\ m <= Len(Unknown)
  BY <1>2, <1>3, MinFact
<1>5. PICK selected : selected = {Identity(Unknown[j]) : j \in 1..m}
  OBVIOUS
<1>6. w.step = 2 /\ ~w.busy /\ Show([w EXCEPT !.selected = selected])
  BY <1>1, <1>3, <1>5 DEF SelectAll
<1>7. Show([w EXCEPT !.step = 2, !.selected = selected])
  <2>1. w \in [step : 1..3, query : Query \union {NoQuery}, rows : Seq(Instance),
               selected : SUBSET Identities, cursor : Nat, pages : Nat, busy : BOOLEAN]
    BY <1>2 DEF WizardTypes
  <2>2. [w EXCEPT !.selected = selected] = [w EXCEPT !.step = 2, !.selected = selected]
    BY <1>6, <2>1
  <2>3. QED BY <1>6, <2>2
<1>8. \A x \in selected : x \notin Known /\ \E p \in DOMAIN w.rows : x = Identity(w.rows[p])
  <2>1. \A j \in 1..m : j \in DOMAIN Unknown
    BY <1>2, <1>4
  <2>2. QED BY <1>2, <1>5, <2>1
<1>9. IsFiniteSet(selected) /\ Cardinality(selected) <= Capacity
  <2>1. IsFiniteSet(1..m) /\ Cardinality(1..m) = IF 1 > m THEN 0 ELSE m - 1 + 1
    BY <1>4, FS_Interval
  <2>2. Cardinality(1..m) = m
    BY <1>4, <2>1
  <2> DEFINE id == [j \in 1..m |-> Identity(Unknown[j])]
  <2>3. id \in Surjection(1..m, selected)
    <3>1. id \in [1..m -> selected] /\ \A x \in selected : \E j \in 1..m : id[j] = x
      BY <1>5
    <3> HIDE DEF id
    <3>2. QED BY <3>1 DEF Surjection
  <2> HIDE DEF id
  <2>4. IsFiniteSet(selected) /\ Cardinality(selected) <= Cardinality(1..m)
    BY <2>1, <2>3, FS_Surjection
  <2>5. Cardinality(selected) \in Nat
    BY <2>4, FS_CardinalityType
  <2>6. QED BY <1>2, <1>4, <2>2, <2>4, <2>5
<1>10. PICK step \in {2, 3} : step = 2
  OBVIOUS
<1>11. /\ Show([w EXCEPT !.step = step, !.selected = selected]) /\ (step = 3 => selected # {})
       /\ ~w.busy /\ w.step > 1
  BY <1>6, <1>7, <1>10
<1>12. QED BY <1>1, <1>8, <1>9, <1>11, ShowStep

LEMMA ConfirmStep == WizardInv /\ (ToConfirm \/ BackToRows) => WizardInv'
<1>1. SUFFICES ASSUME WizardInv, ToConfirm \/ BackToRows PROVE WizardInv'
  OBVIOUS
<1>2. WizardTypes /\ RequestsFit /\ PicksFit /\ (Picked = <<>> <=> w.selected = {}) /\ w.busy \in BOOLEAN
  BY <1>1, WizardParts
<1>3. w \in [step : 1..3, query : Query \union {NoQuery}, rows : Seq(Instance),
             selected : SUBSET Identities, cursor : Nat, pages : Nat, busy : BOOLEAN]
  BY <1>2 DEF WizardTypes
<1>4. w.step > 1 /\ ~w.busy /\ \E step \in {2, 3} : Show([w EXCEPT !.step = step]) /\ (step = 3 => Picked # <<>>)
  <2>1. CASE ToConfirm
    BY <2>1 DEF ToConfirm
  <2>2. CASE BackToRows
    BY <1>2, <2>2 DEF BackToRows, RequestsFit
  <2>3. QED BY <1>1, <2>1, <2>2
<1>5. PICK step \in {2, 3} : Show([w EXCEPT !.step = step]) /\ (step = 3 => w.selected # {})
  BY <1>2, <1>4
<1>6. [w EXCEPT !.step = step] = [w EXCEPT !.step = step, !.selected = w.selected]
  BY <1>3
<1>7. Show([w EXCEPT !.step = step, !.selected = w.selected])
  BY <1>5, <1>6
<1>8. PICK selected : selected = w.selected
  OBVIOUS
<1>9. /\ Show([w EXCEPT !.step = step, !.selected = selected]) /\ (step = 3 => selected # {})
      /\ \A id \in selected : id \notin Known /\ \E p \in DOMAIN w.rows : id = Identity(w.rows[p])
      /\ IsFiniteSet(selected) /\ Cardinality(selected) <= Capacity
  BY <1>2, <1>5, <1>7, <1>8 DEF PicksFit
<1>10. QED BY <1>1, <1>4, <1>9, ShowStep

(***************************************************************************)
(* What joins the draft is new to it, and no more than there is room for.  *)
(***************************************************************************)
LEMMA JoinFact ==
  ASSUME NEW before \in Seq(Instance), NEW n \in Nat, n <= Len(before),
         \A i, j \in DOMAIN before : i < j /\ Identity(before[i]) = Identity(before[j]) => j <= n,
         NEW picks \in Seq(Instance), NEW after, after = before \o NewRows(before, picks)
  PROVE  /\ after \in Seq(Instance) /\ n <= Len(after) /\ Len(after) <= Len(before) + Len(picks)
         /\ \A i, j \in DOMAIN after : i < j /\ Identity(after[i]) = Identity(after[j]) => j <= n
<1>1. PICK fresh : fresh = NewRows(before, picks)
  OBVIOUS
<1>2. /\ fresh \in Seq(Instance)
      /\ \A p, q \in DOMAIN fresh : Identity(fresh[p]) = Identity(fresh[q]) => p = q
      /\ \A p \in DOMAIN fresh, j \in DOMAIN before : Identity(fresh[p]) # Identity(before[j])
  BY <1>1, NewRowsFact
<1>3. Len(fresh) \in Nat /\ Len(fresh) <= Len(picks) /\ Len(picks) \in Nat
  BY <1>1, <1>2, NewRowsLength
<1>4. PICK l \in Nat, k \in Nat : l = Len(before) /\ k = Len(fresh) /\ DOMAIN before = 1..l /\ DOMAIN fresh = 1..k
  BY <1>2, DomainOfSeq
<1>5. after = before \o fresh
  BY <1>1
<1>6. /\ after \in Seq(Instance) /\ Len(after) = l + k /\ DOMAIN after = 1..(l + k)
      /\ \A i \in 1..(l + k) : i <= l => i \in DOMAIN before /\ after[i] = before[i]
      /\ \A i \in 1..(l + k) : i > l => i - l \in DOMAIN fresh /\ after[i] = fresh[i - l]
  BY <1>2, <1>4, <1>5
<1>7. ASSUME NEW i \in 1..(l + k), NEW j \in 1..(l + k), i < j, Identity(after[i]) = Identity(after[j])
      PROVE  j <= n
  <2>1. CASE j <= l
    <3>1. i <= l
      BY <1>4, <1>7, <2>1
    <3>2. QED BY <1>6, <1>7, <2>1, <3>1
  <2>2. CASE i <= l /\ j > l
    BY <1>2, <1>6, <1>7, <2>2
  <2>3. CASE i > l /\ j > l
    <3>1. PICK p \in DOMAIN fresh, q \in DOMAIN fresh : p = i - l /\ q = j - l
      BY <1>6, <2>3
    <3>2. Identity(fresh[p]) = Identity(fresh[q])
      BY <1>6, <1>7, <2>3, <3>1
    <3>3. p = q
      BY <1>2, <3>2
    <3>4. QED BY <1>4, <1>7, <3>1, <3>3
  <2>4. QED BY <1>4, <1>7, <2>1, <2>2, <2>3
<1>8. n <= Len(after) /\ Len(after) <= Len(before) + Len(picks)
  BY <1>3, <1>4, <1>6
<1>9. QED BY <1>6, <1>7, <1>8

LEMMA FinishStep == WizardInv /\ Finish => WizardInv'
<1>1. SUFFICES ASSUME WizardInv, Finish PROVE WizardInv'
  OBVIOUS
<1>2. /\ WizardTypes /\ DraftFits /\ Picked \in Seq(Instance) /\ Len(Picked) \in Nat
      /\ Len(draft) \in Nat /\ Len(Drafted) \in Nat
  BY <1>1, WizardParts
<1>3. /\ Picked # <<>> /\ Len(Picked) <= Capacity /\ draft' = draft \o NewRows(draft, Picked)
      /\ Unmounted /\ asked' = asked /\ loads' = loads
  BY <1>1 DEF Finish
<1>4. PICK before, n, picks, after : before = draft /\ n = Len(Drafted) /\ picks = Picked /\ after = draft'
  OBVIOUS
<1>5. /\ after \in Seq(Instance) /\ n <= Len(after) /\ Len(after) <= Len(before) + Len(picks)
      /\ \A i, j \in DOMAIN after : i < j /\ Identity(after[i]) = Identity(after[j]) => j <= n
  <2>1. before \in Seq(Instance) /\ n \in Nat /\ n <= Len(before) /\ picks \in Seq(Instance)
    BY <1>2, <1>4 DEF WizardTypes, DraftFits
  <2>2. \A i, j \in DOMAIN before : i < j /\ Identity(before[i]) = Identity(before[j]) => j <= n
    BY <1>2, <1>4 DEF DraftFits
  <2>3. after = before \o NewRows(before, picks)
    BY <1>3, <1>4
  <2>4. QED BY <2>1, <2>2, <2>3, JoinFact
<1>6. Len(draft') <= MaxAccounts
  <2>1. PICK l, k, c : l = Len(draft) /\ k = Len(Picked) /\ c = Capacity /\ l \in Nat /\ k \in Nat
    BY <1>2
  <2>2. k # 0 /\ k <= c
    BY <1>2, <1>3, <2>1
  <2>3. c \in Nat /\ (l <= MaxAccounts => c = MaxAccounts - l) /\ (l > MaxAccounts => c = 0)
    BY <2>1, CapacityFact DEF Capacity
  <2>4. Len(after) \in Nat /\ Len(after) <= l + k /\ MaxAccounts \in Nat
    BY <1>4, <1>5, <2>1, WizardAssumption
  <2>5. QED BY <1>4, <2>1, <2>2, <2>3, <2>4
<1>7. draft' \in Seq(Instance) /\ DraftFits'
  BY <1>4, <1>5, <1>6 DEF DraftFits
<1>8. Reset /\ open' \in BOOLEAN /\ asked' \in Query /\ flights' \subseteq flights
  BY <1>2, <1>3 DEF Unmounted, WizardTypes
<1>9. QED BY <1>1, <1>3, <1>7, <1>8, ResetStep

LEMMA WizardStutter == WizardInv /\ UNCHANGED wizardVars => WizardInv'
<1>1. SUFFICES ASSUME WizardInv, UNCHANGED wizardVars PROVE WizardInv'
  OBVIOUS
<1>2. /\ draft' = draft /\ open' = open /\ asked' = asked /\ w' = w /\ seen' = seen
      /\ current' = current /\ flights' = flights /\ loads' = loads
  BY <1>1 DEF wizardVars
<1>3. WizardTypes /\ RequestsFit /\ RowsFit /\ PicksFit
  BY <1>1, WizardParts
<1>4. WizardTypes' /\ RequestsFit' /\ RowsFit'
  BY <1>2, <1>3 DEF WizardTypes, RequestsFit, RowsFit
<1>5. PicksFit'
  BY <1>1, <1>2, <1>3, DraftKept DEF PicksFit
<1>6. QED BY <1>1, <1>2, <1>4, <1>5, DraftKept DEF WizardInv

LEMMA WizardNextStep == WizardInv /\ [WizardNext]_wizardVars => WizardInv'
<1>1. CASE UNCHANGED wizardVars
  BY <1>1, WizardStutter
<1>2. CASE WizardNext
  <2>1. CASE (\E q \in Query : OpenWizard(q) \/ ChooseQuery(q)) \/ CloseWizard \/ BackToQuery
    BY <2>1, ResetActions
  <2>2. CASE LoadFirst \/ LoadMore
    BY <2>2, LoadStep
  <2>3. CASE \E f \in flights : Answer(f) \/ Fail(f)
    BY <2>3, AnswerStep, FailStep
  <2>4. CASE \E j \in DOMAIN w.rows : Toggle(w.rows[j])
    BY <2>4, ToggleStep
  <2>5. CASE SelectAll \/ ToConfirm \/ BackToRows
    BY <2>5, SelectAllStep, ConfirmStep
  <2>6. CASE Finish
    BY <2>6, FinishStep
  <2>7. QED BY <1>2, <2>1, <2>2, <2>3, <2>4, <2>5, <2>6 DEF WizardNext
<1>3. QED BY <1>1, <1>2

(***************************************************************************)
(* Whatever the queries, their pages and the draft, and however requests   *)
(* are superseded, fail or are answered late: the wizard shows the pages   *)
(* that it loaded of the query that it names, and what it adds to the      *)
(* draft is new to it and fits (load, reset, toggle, finish).              *)
(***************************************************************************)
THEOREM WizardShowsWhatItAsked == WizardSpec => []WizardShowsQuery
<1>1. QED BY WizardStart, WizardNextStep, WizardShows, PTL DEF WizardSpec

-----------------------------------------------------------------------------
StoredRow == [key : PoolKeys, region : PoolRegions, quota : Nat, used : Nat, at : Nat]
Run == [st : {"none", "begun", "counted", "got"}, key : PoolKeys \union {NoKey},
        region : PoolRegions \union {NoKey}, since : Nat, month : Nat, value : Nat]
CacheEntry == [value : Nat, at : Nat, month : Nat]

ReadingTypes ==
  /\ stored \in Seq(StoredRow) /\ reading \in [DOMAIN stored -> Run]
  /\ cached \in [Pool -> CacheEntry] /\ now \in Times /\ moves \in Nat

\* The value is what the cloud counted for a pool at a time between the two.
Counted(p, value, from, to) == \E t \in Times : from <= t /\ t <= to /\ value = Usage[p][t]

(***************************************************************************)
(* What an entry of the cache, a run and a row of an account hold at a     *)
(* time: the answer to a query waits for a run at most; what a run got was *)
(* in the cache at most CacheFor before it began; and a run stores what it *)
(* got before its deadline.                                                *)
(***************************************************************************)
EntryTrue(p, entry, time) ==
  entry.at # 0 => entry.at <= time /\ Counted(p, entry.value, entry.at - MaxRun, entry.at)

RunTrue(run, time) ==
  /\ run.st # "none" => /\ run.key \in PoolKeys /\ run.region \in PoolRegions
                        /\ run.since <= time /\ time <= run.since + MaxRun
  /\ run.st = "counted" => Counted(PoolKey(run), run.value, run.since, time)
  /\ run.st = "got" => Counted(PoolKey(run), run.value, run.since - (MaxRun + CacheFor - 1), time)

RowTrue(row, time) ==
  /\ row.at <= time
  /\ row.at # 0 => Counted(PoolKey(row), row.used, row.at - (2 * MaxRun + CacheFor - 1), row.at)

ReadingInv ==
  /\ ReadingTypes
  /\ \A p \in Pool : EntryTrue(p, cached[p], now)
  /\ \A j \in DOMAIN stored : RunTrue(reading[j], now) /\ RowTrue(stored[j], now)

-----------------------------------------------------------------------------
LEMMA TimesFact ==
  /\ Times \subseteq Nat /\ 0 \notin Times /\ 1 \in Times
  /\ \A t \in Times : 1..t \subseteq Times
  /\ MaxRun \in Nat \ {0} /\ CacheFor \in Nat \ {0} /\ FreshFor \in Nat
  /\ \A t \in Times : Months[t] \in Nat
<1>1. Months \in Seq(Nat) /\ Months # <<>>
  BY ReadingsAssumption
<1>2. Len(Months) \in Nat /\ DOMAIN Months = 1..Len(Months) /\ Len(Months) # 0
  BY <1>1
<1>3. \A t \in Times : Months[t] \in Nat
  BY <1>1 DEF Times
<1>4. QED BY <1>2, <1>3, ReadingsAssumption DEF Times

\* A pool that an account belongs to; what the cloud counts for it.
LEMMA PoolFact ==
  /\ \A a : a.key \in PoolKeys => PoolKey(a) \in Pool
  /\ \A p \in Pool : \A t \in Times : Usage[p][t] \in Nat
<1>1. \A region : TrafficClass(region) \in {"china", "international"}
  BY DEF TrafficClass
<1>2. \A a : a.key \in PoolKeys => PoolKey(a) \in Pool
  BY <1>1 DEF PoolKey, Pool
<1>3. ASSUME NEW p \in Pool PROVE \A t \in Times : Usage[p][t] \in Nat
  <2>1. PICK key \in PoolKeys, class \in {"china", "international"} : p = <<key, class>>
    BY DEF Pool
  <2>2. Usage[<<key, class>>] \in [Times -> Nat]
    BY ReadingsAssumption
  <2>3. QED BY <2>1, <2>2
<1>4. QED BY <1>2, <1>3

LEMMA ReadingStart == ReadingInit => ReadingInv
<1>1. SUFFICES ASSUME ReadingInit PROVE ReadingInv
  OBVIOUS
<1>2. PICK accounts \in PoolAccounts :
        stored = [j \in DOMAIN accounts |->
                    [key |-> accounts[j].key, region |-> accounts[j].region, quota |-> accounts[j].quota,
                     used |-> 0, at |-> 0]]
  BY <1>1 DEF ReadingInit
<1>3. PICK n \in Nat : DOMAIN accounts = 1..n
        /\ \A j \in 1..n : accounts[j] \in [key : PoolKeys, region : PoolRegions, quota : Nat]
  <2>1. accounts \in Seq([key : PoolKeys, region : PoolRegions, quota : Nat])
    BY ReadingsAssumption
  <2>2. QED BY <2>1, DomainOfSeq
<1>4. /\ DOMAIN stored = 1..n
      /\ \A j \in 1..n : stored[j] \in StoredRow /\ stored[j].at = 0
  BY <1>2, <1>3 DEF StoredRow
<1>5. stored \in Seq(StoredRow)
  <2>1. stored = [j \in 1..n |-> stored[j]]
    BY <1>2, <1>3
  <2>2. [j \in 1..n |-> stored[j]] \in Seq(StoredRow)
    BY <1>4
  <2>3. QED BY <2>1, <2>2
<1>6. /\ reading = [j \in DOMAIN stored |-> NoReading]
      /\ cached = [p \in Pool |-> NoCached] /\ now = 1 /\ moves = 0
  BY <1>1 DEF ReadingInit
<1>7. NoReading \in Run /\ NoReading.st = "none" /\ NoCached \in CacheEntry /\ NoCached.at = 0
  BY DEF NoReading, NoCached, Run, CacheEntry
<1>8. ReadingTypes
  BY <1>5, <1>6, <1>7, TimesFact DEF ReadingTypes
<1>9. \A p \in Pool : EntryTrue(p, cached[p], now)
  BY <1>6, <1>7 DEF EntryTrue
<1>10. \A j \in DOMAIN stored : RunTrue(reading[j], now) /\ RowTrue(stored[j], now)
  BY <1>4, <1>6, <1>7 DEF RunTrue, RowTrue
<1>11. QED BY <1>8, <1>9, <1>10 DEF ReadingInv

\* A step of one run.
LEMMA RunStep ==
  ASSUME ReadingInv, NEW j \in DOMAIN stored, NEW run \in Run, RunTrue(run, now),
         reading' = [reading EXCEPT ![j] = run], stored' = stored, now' = now, moves' = moves,
         cached' \in [Pool -> CacheEntry], \A p \in Pool : EntryTrue(p, cached'[p], now)
  PROVE  ReadingInv'
<1>1. ReadingTypes /\ \A i \in DOMAIN stored : RunTrue(reading[i], now) /\ RowTrue(stored[i], now)
  BY DEF ReadingInv
<1>2. ReadingTypes'
  BY <1>1 DEF ReadingTypes
<1>3. \A i \in DOMAIN stored' : reading'[i] = IF i = j THEN run ELSE reading[i]
  BY <1>1 DEF ReadingTypes
<1>4. \A i \in DOMAIN stored' : RunTrue(reading'[i], now') /\ RowTrue(stored'[i], now')
  BY <1>1, <1>3
<1>5. QED BY <1>2, <1>4 DEF ReadingInv

LEMMA ReadingParts ==
  ASSUME ReadingInv, NEW j \in DOMAIN stored
  PROVE  /\ stored[j] \in StoredRow /\ reading[j] \in Run /\ RunTrue(reading[j], now) /\ RowTrue(stored[j], now)
         /\ now \in Nat /\ now \in Times
         /\ cached \in [Pool -> CacheEntry] /\ \A p \in Pool : EntryTrue(p, cached[p], now)
<1>1. ReadingTypes
  BY DEF ReadingInv
<1>2. stored[j] \in StoredRow
  BY <1>1 DEF ReadingTypes
<1>3. QED BY <1>1, <1>2, TimesFact DEF ReadingInv, ReadingTypes

LEMMA BeginStep ==
  ASSUME ReadingInv, NEW j \in DOMAIN stored, BeginReading(j) \/ EndReading(j)
  PROVE  ReadingInv'
<1>1. /\ stored[j] \in StoredRow /\ now \in Nat /\ cached \in [Pool -> CacheEntry]
      /\ \A p \in Pool : EntryTrue(p, cached[p], now)
  BY ReadingParts
<1>2. NoReading \in Run /\ RunTrue(NoReading, now)
  BY DEF NoReading, Run, RunTrue
<1>3. CASE BeginReading(j)
  <2>1. PICK run : run = [NoReading EXCEPT !.st = "begun", !.since = now,
                                           !.key = stored[j].key, !.region = stored[j].region]
    OBVIOUS
  <2>2. run = [st |-> "begun", key |-> stored[j].key, region |-> stored[j].region,
               since |-> now, month |-> 0, value |-> 0]
    BY <2>1 DEF NoReading
  <2>3. run \in Run
    BY <1>1, <2>2 DEF Run, StoredRow
  <2>4. MaxRun \in Nat /\ stored[j].key \in PoolKeys /\ stored[j].region \in PoolRegions
    BY <1>1, TimesFact DEF StoredRow
  <2>5. RunTrue(run, now)
    BY <1>1, <2>2, <2>4 DEF RunTrue
  <2>6. /\ reading' = [reading EXCEPT ![j] = run] /\ stored' = stored /\ cached' = cached
        /\ now' = now /\ moves' = moves
    BY <1>3, <2>1 DEF BeginReading
  <2>7. QED BY <1>1, <2>3, <2>5, <2>6, RunStep
<1>4. CASE EndReading(j)
  <2>1. /\ reading' = [reading EXCEPT ![j] = NoReading] /\ stored' = stored /\ cached' = cached
        /\ now' = now /\ moves' = moves
    BY <1>4 DEF EndReading
  <2>2. QED BY <1>1, <1>2, <2>1, RunStep
<1>5. QED BY <1>3, <1>4

\* A run gets a value: it is that of a run that began, with the value.
LEMMA GotRun ==
  ASSUME ReadingInv, NEW j \in DOMAIN stored, NEW value \in Nat, Got(j, value), reading[j].st # "none"
  PROVE  \E run \in Run :
           /\ reading' = [reading EXCEPT ![j] = run]
           /\ run.st = "got" /\ run.value = value /\ run.since = reading[j].since /\ PoolKey(run) = PoolKey(reading[j])
           /\ run.key \in PoolKeys /\ run.region \in PoolRegions
           /\ run.since <= now /\ now <= run.since + MaxRun
<1>1. reading[j] \in Run /\ RunTrue(reading[j], now) /\ reading \in [DOMAIN stored -> Run]
  BY ReadingParts DEF ReadingInv, ReadingTypes
<1>2. PICK old \in Run : old = reading[j]
  BY <1>1
<1>3. PICK run : run = [old EXCEPT !.st = "got", !.value = value]
  OBVIOUS
<1>4. /\ run \in Run /\ run.st = "got" /\ run.value = value /\ run.since = old.since
      /\ run.key = old.key /\ run.region = old.region
  BY <1>2, <1>3 DEF Run
<1>5. reading' = [reading EXCEPT ![j] = run]
  BY <1>1, <1>2, <1>3 DEF Got
<1>6. PoolKey(run) = PoolKey(old)
  BY <1>4 DEF PoolKey
<1>7. QED BY <1>1, <1>2, <1>4, <1>5, <1>6 DEF RunTrue

\* From the cache: the value is not much older than the run.
LEMMA FromCacheStep ==
  ASSUME ReadingInv, NEW j \in DOMAIN stored, FromCache(j)
  PROVE  ReadingInv'
<1>1. /\ reading[j] \in Run /\ RunTrue(reading[j], now) /\ now \in Nat /\ now \in Times
      /\ cached \in [Pool -> CacheEntry] /\ \A p \in Pool : EntryTrue(p, cached[p], now)
  BY ReadingParts
<1>2. PICK p : p = PoolKey(reading[j])
  OBVIOUS
<1>3. /\ reading[j].st = "begun" /\ CacheHit(p) /\ Got(j, cached[p].value)
      /\ stored' = stored /\ cached' = cached /\ now' = now /\ moves' = moves
  BY <1>2 DEF FromCache
<1>4. reading[j].key \in PoolKeys /\ p \in Pool
  BY <1>1, <1>2, <1>3, PoolFact DEF RunTrue
<1>5. PICK value \in Nat, at \in Nat : value = cached[p].value /\ at = cached[p].at
  BY <1>1, <1>4 DEF CacheEntry
<1>6. at # 0 /\ now - at < CacheFor /\ at <= now
  BY <1>1, <1>3, <1>4, <1>5 DEF CacheHit, EntryTrue
<1>7. PICK t \in Times : at - MaxRun <= t /\ t <= at /\ value = Usage[p][t]
  BY <1>1, <1>4, <1>5, <1>6 DEF EntryTrue, Counted
<1>8. PICK run \in Run :
        /\ reading' = [reading EXCEPT ![j] = run]
        /\ run.st = "got" /\ run.value = value /\ PoolKey(run) = p
        /\ run.key \in PoolKeys /\ run.region \in PoolRegions
        /\ run.since <= now /\ now <= run.since + MaxRun
  BY <1>2, <1>3, <1>5, GotRun
<1>9. run.since - (MaxRun + CacheFor - 1) <= t /\ t <= now
  <2>1. run.since \in Nat /\ t \in Nat /\ MaxRun \in Nat /\ CacheFor \in Nat
    BY TimesFact DEF Run
  <2>2. QED BY <1>1, <1>6, <1>7, <1>8, <2>1
<1>10. Counted(PoolKey(run), run.value, run.since - (MaxRun + CacheFor - 1), now)
  BY <1>7, <1>8, <1>9 DEF Counted
<1>11. RunTrue(run, now)
  BY <1>8, <1>10 DEF RunTrue
<1>12. QED BY <1>1, <1>3, <1>8, <1>11, RunStep

LEMMA FromCloudStep ==
  ASSUME ReadingInv, NEW j \in DOMAIN stored, FromCloud(j)
  PROVE  ReadingInv'
<1>1. /\ reading[j] \in Run /\ RunTrue(reading[j], now) /\ now \in Nat /\ now \in Times
      /\ cached \in [Pool -> CacheEntry] /\ \A p \in Pool : EntryTrue(p, cached[p], now)
      /\ reading \in [DOMAIN stored -> Run]
  BY ReadingParts DEF ReadingInv, ReadingTypes
<1>2. PICK old, p, value, month :
        old = reading[j] /\ old \in Run /\ p = PoolKey(old) /\ value = Usage[p][now] /\ month = Months[now]
  BY <1>1
<1>3. /\ old.st = "begun"
      /\ reading' = [reading EXCEPT ![j].st = "counted", ![j].month = month, ![j].value = value]
      /\ stored' = stored /\ cached' = cached /\ now' = now /\ moves' = moves
  BY <1>2 DEF FromCloud
<1>4. /\ old.key \in PoolKeys /\ old.region \in PoolRegions /\ old.since <= now /\ now <= old.since + MaxRun
  BY <1>1, <1>2, <1>3 DEF RunTrue
<1>5. value \in Nat /\ month \in Nat
  <2>1. p \in Pool
    BY <1>2, <1>4, PoolFact
  <2>2. QED BY <1>1, <1>2, <2>1, PoolFact, TimesFact
<1>6. PICK run : run = [old EXCEPT !.st = "counted", !.month = month, !.value = value]
  OBVIOUS
<1>7. /\ run \in Run /\ run.st = "counted" /\ run.value = value /\ run.since = old.since
      /\ run.key = old.key /\ run.region = old.region
  BY <1>2, <1>5, <1>6 DEF Run
<1>8. reading' = [reading EXCEPT ![j] = run]
  BY <1>1, <1>2, <1>3, <1>6
<1>9. PoolKey(run) = p
  BY <1>2, <1>7 DEF PoolKey
<1>10. Counted(PoolKey(run), run.value, run.since, now)
  BY <1>1, <1>2, <1>4, <1>7, <1>9 DEF Counted
<1>11. RunTrue(run, now)
  BY <1>4, <1>7, <1>10 DEF RunTrue
<1>12. QED BY <1>1, <1>3, <1>7, <1>8, <1>11, RunStep

\* The answer goes to the run and into the cache.
LEMMA CloudAnswersStep ==
  ASSUME ReadingInv, NEW j \in DOMAIN stored, CloudAnswers(j)
  PROVE  ReadingInv'
<1>1. /\ reading[j] \in Run /\ RunTrue(reading[j], now) /\ now \in Nat /\ now \in Times
      /\ cached \in [Pool -> CacheEntry] /\ \A p \in Pool : EntryTrue(p, cached[p], now)
  BY ReadingParts
<1>2. PICK p, value : p = PoolKey(reading[j]) /\ value = reading[j].value /\ value \in Nat
  BY <1>1 DEF Run
<1>3. PICK entry : entry = [value |-> value, at |-> now, month |-> reading[j].month]
  OBVIOUS
<1>4. /\ reading[j].st = "counted" /\ Got(j, value) /\ cached' = [cached EXCEPT ![p] = entry]
      /\ stored' = stored /\ now' = now /\ moves' = moves
  BY <1>2, <1>3 DEF CloudAnswers
<1>5. entry \in CacheEntry
  BY <1>1, <1>2, <1>3 DEF Run, CacheEntry
<1>6. PICK run \in Run :
        /\ reading' = [reading EXCEPT ![j] = run]
        /\ run.st = "got" /\ run.value = value /\ run.since = reading[j].since /\ PoolKey(run) = p
        /\ run.key \in PoolKeys /\ run.region \in PoolRegions
        /\ run.since <= now /\ now <= run.since + MaxRun
  BY <1>2, <1>4, GotRun
<1>7. PICK t \in Times : run.since <= t /\ t <= now /\ value = Usage[p][t]
  BY <1>1, <1>2, <1>4, <1>6 DEF RunTrue, Counted
<1>8. run.since \in Nat /\ t \in Nat /\ MaxRun \in Nat /\ CacheFor \in Nat \ {0}
  BY TimesFact DEF Run
<1>9. RunTrue(run, now)
  <2>1. run.since - (MaxRun + CacheFor - 1) <= t
    BY <1>7, <1>8
  <2>2. Counted(PoolKey(run), run.value, run.since - (MaxRun + CacheFor - 1), now)
    BY <1>6, <1>7, <2>1 DEF Counted
  <2>3. QED BY <1>6, <2>2 DEF RunTrue
<1>10. EntryTrue(p, entry, now)
  <2>1. now - MaxRun <= t
    BY <1>1, <1>6, <1>7, <1>8
  <2>2. Counted(p, entry.value, entry.at - MaxRun, entry.at)
    BY <1>3, <1>7, <2>1 DEF Counted
  <2>3. QED BY <1>1, <1>3, <2>2 DEF EntryTrue
<1>11. cached' \in [Pool -> CacheEntry] /\ \A q \in Pool : EntryTrue(q, cached'[q], now)
  BY <1>1, <1>4, <1>5, <1>10
<1>12. QED BY <1>4, <1>6, <1>9, <1>11, RunStep

\* A row takes what was read for the account that it still is.
LEMMA StoreStep ==
  ASSUME ReadingInv, NEW j \in DOMAIN stored, StoreReading(j)
  PROVE  ReadingInv'
<1>1. /\ reading[j] \in Run /\ RunTrue(reading[j], now) /\ now \in Nat /\ now \in Times
      /\ stored[j] \in StoredRow
  BY ReadingParts
<1>2. /\ ReadingTypes /\ \A p \in Pool : EntryTrue(p, cached[p], now)
      /\ \A i \in DOMAIN stored : RunTrue(reading[i], now) /\ RowTrue(stored[i], now)
  BY DEF ReadingInv
<1>3. /\ reading[j].st = "got" /\ reading' = [reading EXCEPT ![j] = NoReading]
      /\ cached' = cached /\ now' = now /\ moves' = moves
      /\ stored' = IF Target(j) THEN [stored EXCEPT ![j].used = reading[j].value, ![j].at = now] ELSE stored
  BY DEF StoreReading
<1>4. NoReading \in Run /\ RunTrue(NoReading, now)
  BY DEF NoReading, Run, RunTrue
<1>5. PICK row : row = IF Target(j) THEN [stored[j] EXCEPT !.used = reading[j].value, !.at = now] ELSE stored[j]
  OBVIOUS
<1>6. row \in StoredRow /\ RowTrue(row, now)
  <2>1. CASE Target(j)
    <3>1. row = [stored[j] EXCEPT !.used = reading[j].value, !.at = now]
      BY <1>5, <2>1
    <3>2. /\ row \in StoredRow /\ row.used = reading[j].value /\ row.at = now
          /\ row.key = stored[j].key /\ row.region = stored[j].region
      BY <1>1, <3>1 DEF StoredRow, Run
    <3>3. PoolKey(row) = PoolKey(reading[j])
      BY <2>1, <3>2 DEF Target, PoolKey
    <3>4. PICK t \in Times : /\ reading[j].since - (MaxRun + CacheFor - 1) <= t /\ t <= now
                             /\ row.used = Usage[PoolKey(row)][t]
      BY <1>1, <1>3, <3>2, <3>3 DEF RunTrue, Counted
    <3>5. /\ reading[j].since \in Nat /\ now <= reading[j].since + MaxRun
          /\ t \in Nat /\ MaxRun \in Nat /\ CacheFor \in Nat
      BY <1>1, <1>3, TimesFact DEF Run, RunTrue
    <3>6. now - (2 * MaxRun + CacheFor - 1) <= t
      BY <1>1, <3>4, <3>5
    <3>7. Counted(PoolKey(row), row.used, row.at - (2 * MaxRun + CacheFor - 1), row.at)
      BY <3>2, <3>4, <3>6 DEF Counted
    <3>8. QED BY <1>1, <3>2, <3>7 DEF RowTrue
  <2>2. CASE ~Target(j)
    BY <1>1, <1>2, <1>5, <2>2
  <2>3. QED BY <2>1, <2>2
<1>7. stored \in Seq(StoredRow) /\ stored' = [stored EXCEPT ![j] = row]
  <2>1. stored \in Seq(StoredRow)
    BY <1>2 DEF ReadingTypes
  <2>2. CASE Target(j)
    BY <1>3, <1>5, <2>1, <2>2
  <2>3. CASE ~Target(j)
    BY <1>3, <1>5, <2>1, <2>3
  <2>4. QED BY <2>1, <2>2, <2>3
<1>8. /\ stored' \in Seq(StoredRow) /\ DOMAIN stored' = DOMAIN stored
      /\ \A i \in DOMAIN stored : stored'[i] = IF i = j THEN row ELSE stored[i]
  BY <1>6, <1>7
<1>9. /\ reading' \in [DOMAIN stored -> Run]
      /\ \A i \in DOMAIN stored : reading'[i] = IF i = j THEN NoReading ELSE reading[i]
  BY <1>2, <1>3, <1>4 DEF ReadingTypes
<1>10. ReadingTypes'
  BY <1>2, <1>3, <1>8, <1>9 DEF ReadingTypes
<1>11. \A i \in DOMAIN stored' : RunTrue(reading'[i], now') /\ RowTrue(stored'[i], now')
  BY <1>2, <1>3, <1>4, <1>6, <1>8, <1>9
<1>12. QED BY <1>2, <1>3, <1>10, <1>11 DEF ReadingInv

(***************************************************************************)
(* An account that moves keeps its reading only within its pool; of the    *)
(* others, only the quota changes.                                         *)
(***************************************************************************)
LEMMA MoveStep ==
  ASSUME ReadingInv, NEW j \in DOMAIN stored, NEW key \in PoolKeys, NEW region \in PoolRegions, Move(j, key, region)
  PROVE  ReadingInv'
<1>1. stored[j] \in StoredRow /\ now \in Nat
  BY ReadingParts
<1>2. /\ ReadingTypes /\ \A p \in Pool : EntryTrue(p, cached[p], now)
      /\ \A i \in DOMAIN stored : RunTrue(reading[i], now) /\ RowTrue(stored[i], now)
  BY DEF ReadingInv
<1>3. PICK next : next = [stored[j] EXCEPT !.key = key, !.region = region]
  OBVIOUS
<1>4. /\ moves' = moves + 1 /\ reading' = reading /\ cached' = cached /\ now' = now
      /\ stored' = IF PoolKey(next) = PoolKey(stored[j]) THEN [stored EXCEPT ![j] = next]
                   ELSE Updated(stored, j, [next EXCEPT !.used = 0, !.at = 0])
  BY <1>3 DEF Move
<1>5. /\ next \in StoredRow /\ next.used = stored[j].used /\ next.at = stored[j].at
      /\ stored \in Seq(StoredRow) /\ DOMAIN stored = 1..Len(stored) /\ Len(stored) \in Nat
  <2>1. next \in StoredRow /\ next.used = stored[j].used /\ next.at = stored[j].at
    BY <1>1, <1>3 DEF StoredRow
  <2>2. stored \in Seq(StoredRow)
    BY <1>2 DEF ReadingTypes
  <2>3. QED BY <2>1, <2>2, DomainOfSeq
<1>6. /\ stored' \in Seq(StoredRow) /\ DOMAIN stored' = DOMAIN stored
      /\ \A i \in DOMAIN stored : RowTrue(stored'[i], now)
  <2>1. CASE PoolKey(next) = PoolKey(stored[j])
    <3>1. RowTrue(next, now)
      BY <1>2, <1>5, <2>1 DEF RowTrue
    <3>2. stored' = [stored EXCEPT ![j] = next]
      BY <1>4, <2>1
    <3>3. QED BY <1>2, <1>5, <3>1, <3>2
  <2>2. CASE PoolKey(next) # PoolKey(stored[j])
    <3>1. PICK moved, quota : moved = [next EXCEPT !.used = 0, !.at = 0] /\ quota = PoolQuota(stored, j, moved)
      OBVIOUS
    <3>2. moved \in StoredRow /\ moved.at = 0
      BY <1>5, <3>1 DEF StoredRow
    <3>3. quota \in Nat
      <4>1. moved.quota \in Nat /\ DefaultQuota(moved.region) \in Nat
        BY <3>2, ReadingsAssumption DEF StoredRow, DefaultQuota
      <4>2. Peers(stored, j, moved) \subseteq DOMAIN stored /\ Peers(stored, j, moved) \subseteq Nat
        BY <1>5 DEF Peers
      <4>3. Peers(stored, j, moved) # {} => stored[Min(Peers(stored, j, moved))] \in StoredRow
        BY <1>5, <4>2, MinFact
      <4>4. QED BY <3>1, <4>1, <4>3 DEF PoolQuota, StoredRow
    <3>4. stored' = [i \in DOMAIN stored |->
                       IF i = j THEN [moved EXCEPT !.quota = quota]
                       ELSE IF i \in Peers(stored, j, moved) THEN [stored[i] EXCEPT !.quota = quota]
                       ELSE stored[i]]
      BY <1>4, <2>2, <3>1 DEF Updated
    <3>5. ASSUME NEW i \in DOMAIN stored
          PROVE  stored'[i] \in StoredRow /\ RowTrue(stored'[i], now)
      <4>1. stored[i] \in StoredRow /\ RowTrue(stored[i], now)
        BY <1>2, <1>5
      <4>2. \A row \in StoredRow : LET changed == [row EXCEPT !.quota = quota]
                                   IN /\ changed \in StoredRow /\ changed.key = row.key /\ changed.region = row.region
                                      /\ changed.used = row.used /\ changed.at = row.at
        BY <3>3 DEF StoredRow
      <4>3. \A row \in StoredRow : RowTrue(row, now) => RowTrue([row EXCEPT !.quota = quota], now)
        BY <4>2 DEF RowTrue, PoolKey
      <4>4. RowTrue(moved, now)
        BY <1>1, <3>2 DEF RowTrue
      <4>5. \/ stored'[i] = [moved EXCEPT !.quota = quota]
            \/ stored'[i] = [stored[i] EXCEPT !.quota = quota]
            \/ stored'[i] = stored[i]
        BY <3>4
      <4>6. QED BY <3>2, <4>1, <4>2, <4>3, <4>4, <4>5
    <3>6. DOMAIN stored' = DOMAIN stored
      BY <3>4
    <3>7. stored' \in Seq(StoredRow)
      <4>1. PICK n \in Nat : n = Len(stored) /\ DOMAIN stored = 1..n
        BY <1>5
      <4>2. PICK rows : rows = stored'
        OBVIOUS
      <4>3. rows = [i \in 1..n |-> rows[i]] /\ \A i \in 1..n : rows[i] \in StoredRow
        BY <3>4, <3>5, <4>1, <4>2
      <4>4. [i \in 1..n |-> rows[i]] \in Seq(StoredRow)
        BY <4>1, <4>3
      <4>5. QED BY <4>2, <4>3, <4>4
    <3>8. QED BY <3>5, <3>6, <3>7
  <2>3. QED BY <2>1, <2>2
<1>7. ReadingTypes'
  BY <1>2, <1>4, <1>6 DEF ReadingTypes
<1>8. \A i \in DOMAIN stored' : RunTrue(reading'[i], now') /\ RowTrue(stored'[i], now')
  BY <1>2, <1>4, <1>6
<1>9. QED BY <1>2, <1>4, <1>7, <1>8 DEF ReadingInv

\* Time passes only while no run is at its deadline.
LEMMA PassesStep == ReadingInv /\ Passes => ReadingInv'
<1>1. SUFFICES ASSUME ReadingInv, Passes PROVE ReadingInv'
  OBVIOUS
<1>2. /\ ReadingTypes /\ \A p \in Pool : EntryTrue(p, cached[p], now)
      /\ \A i \in DOMAIN stored : RunTrue(reading[i], now) /\ RowTrue(stored[i], now)
  BY <1>1 DEF ReadingInv
<1>3. /\ now + 1 \in Times /\ now' = now + 1 /\ stored' = stored /\ reading' = reading /\ cached' = cached
      /\ moves' = moves /\ \A j \in DOMAIN reading : reading[j].st # "none" => now - reading[j].since < MaxRun
  BY <1>1 DEF Passes
<1>4. PICK later \in Nat : later = now + 1
  BY <1>2, TimesFact DEF ReadingTypes
<1>5. now \in Nat /\ later > now /\ now' = later
  BY <1>2, <1>3, <1>4, TimesFact DEF ReadingTypes
<1>6. ASSUME NEW p \in Pool PROVE EntryTrue(p, cached[p], later)
  <2>1. cached[p].at \in Nat
    BY <1>2 DEF ReadingTypes, CacheEntry
  <2>2. QED BY <1>2, <1>5, <2>1 DEF EntryTrue
<1>7. ASSUME NEW j \in DOMAIN stored PROVE RunTrue(reading[j], later) /\ RowTrue(stored[j], later)
  <2>1. reading[j] \in Run /\ stored[j] \in StoredRow /\ DOMAIN reading = DOMAIN stored
    BY <1>2 DEF ReadingTypes
  <2>2. RowTrue(stored[j], later)
    <3>1. stored[j].at \in Nat
      BY <2>1 DEF StoredRow
    <3>2. QED BY <1>2, <1>5, <3>1 DEF RowTrue
  <2>3. \A p, value, from : Counted(p, value, from, now) => Counted(p, value, from, later)
    <3>1. \A t \in Times : t <= now => t <= later
      BY <1>5, TimesFact
    <3>2. QED BY <3>1 DEF Counted
  <2>4. reading[j].st # "none" => reading[j].since <= later /\ later <= reading[j].since + MaxRun
    <3>1. reading[j].since \in Nat /\ MaxRun \in Nat
      BY <2>1, TimesFact DEF Run
    <3>2. reading[j].st # "none" => now - reading[j].since < MaxRun /\ reading[j].since <= now
      BY <1>2, <1>3, <2>1 DEF RunTrue
    <3>3. QED BY <1>4, <1>5, <3>1, <3>2
  <2>5. RunTrue(reading[j], later)
    BY <1>2, <2>3, <2>4 DEF RunTrue
  <2>6. QED BY <2>2, <2>5
<1>8. ReadingTypes'
  BY <1>2, <1>3 DEF ReadingTypes
<1>9. QED BY <1>3, <1>5, <1>6, <1>7, <1>8 DEF ReadingInv

LEMMA ReadingNextStep == ReadingInv /\ [ReadingNext]_readingVars => ReadingInv'
<1>1. SUFFICES ASSUME ReadingInv, [ReadingNext]_readingVars PROVE ReadingInv'
  OBVIOUS
<1>2. CASE UNCHANGED readingVars
  BY <1>1, <1>2 DEF readingVars, ReadingInv, ReadingTypes
<1>3. CASE \E j \in DOMAIN stored : BeginReading(j) \/ FromCache(j) \/ FromCloud(j)
  BY <1>1, <1>3, BeginStep, FromCacheStep, FromCloudStep
<1>4. CASE \E j \in DOMAIN stored : CloudAnswers(j) \/ StoreReading(j) \/ EndReading(j)
  BY <1>1, <1>4, BeginStep, CloudAnswersStep, StoreStep
<1>5. CASE \E j \in DOMAIN stored : \E key \in PoolKeys, region \in PoolRegions : Move(j, key, region)
  BY <1>1, <1>5, MoveStep
<1>6. CASE Passes
  BY <1>1, <1>6, PassesStep
<1>7. QED BY <1>1, <1>2, <1>3, <1>4, <1>5, <1>6 DEF ReadingNext

-----------------------------------------------------------------------------
\* The accounts of a class of regions, and their pools.
Mine(accounts, kind) == {j \in DOMAIN accounts : TrafficClass(accounts[j].region) = kind}
PoolsOf(accounts, kind) == {PoolKey(accounts[j]) : j \in Mine(accounts, kind)}

\* Rows of accounts that were read no later than at a time.
Rows(accounts, bound) == accounts \in Seq(StoredRow) /\ \A j \in DOMAIN accounts : accounts[j].at <= bound

\* The sample of a pool is the reading of one of its accounts.
LEMMA SampleFact ==
  ASSUME NEW bound \in Nat, NEW accounts, Rows(accounts, bound), NEW i \in DOMAIN accounts
  PROVE  \E m \in DOMAIN accounts : /\ PoolKey(accounts[m]) = PoolKey(accounts[i])
                                    /\ LatestSample(accounts, PoolKey(accounts[i])) = accounts[m]
<1>1. /\ DOMAIN accounts \subseteq Nat
      /\ \A j \in DOMAIN accounts : accounts[j] \in StoredRow /\ accounts[j].at \in 0..bound
  <2>1. accounts \in Seq(StoredRow)
    BY DEF Rows
  <2>2. DOMAIN accounts \subseteq Nat /\ \A j \in DOMAIN accounts : accounts[j] \in StoredRow
    BY <2>1, DomainOfSeq
  <2>3. QED BY <2>2 DEF Rows, StoredRow
<1>2. PICK pool : pool = PoolKey(accounts[i])
  OBVIOUS
<1>3. PICK members : members = {j \in DOMAIN accounts : PoolKey(accounts[j]) = pool}
  OBVIOUS
<1>4. PICK ats : ats = {accounts[j].at : j \in members}
  OBVIOUS
<1>5. ats \subseteq 0..bound /\ ats # {} /\ i \in members
  BY <1>1, <1>2, <1>3, <1>4
<1>6. PICK latest : latest = Max(ats)
  OBVIOUS
<1>7. latest \in ats
  BY <1>5, <1>6, MaxFact
<1>8. PICK best : best = {j \in members : accounts[j].at = latest}
  OBVIOUS
<1>9. best \subseteq Nat /\ best # {} /\ best \subseteq members
  BY <1>1, <1>3, <1>4, <1>7, <1>8
<1>10. Min(best) \in members
  BY <1>9, MinFact
<1>11. LatestSample(accounts, pool) = accounts[Min(best)]
  BY <1>3, <1>4, <1>6, <1>8 DEF LatestSample
<1>12. QED BY <1>2, <1>3, <1>10, <1>11

\* What the server answers for an account.
LEMMA SummaryFact ==
  ASSUME NEW bound \in Nat, NEW accounts, Rows(accounts, bound), NEW tooOld,
         NEW s, s = Summary(accounts, tooOld), NEW j \in DOMAIN s
  PROVE  /\ j \in DOMAIN accounts /\ accounts[j] \in StoredRow
         /\ s[j].pool = PoolKey(accounts[j]) /\ s[j].class = TrafficClass(accounts[j].region)
         /\ s[j].total = accounts[j].quota /\ s[j].total \in Nat
         /\ s[j].used = LatestSample(accounts, s[j].pool).used /\ s[j].used \in Nat
         /\ s[j].at = LatestSample(accounts, s[j].pool).at /\ s[j].at \in 0..bound
         /\ s[j].stale = (s[j].at \in tooOld)
         /\ s[j].conflict = QuotaConflict(accounts, s[j].pool)
         /\ \E m \in DOMAIN accounts : /\ PoolKey(accounts[m]) = s[j].pool
                                       /\ s[j].used = accounts[m].used /\ s[j].at = accounts[m].at
<1>1. j \in DOMAIN accounts
  BY DEF Summary
<1>2. accounts \in Seq(StoredRow) /\ \A i \in DOMAIN accounts : accounts[i] \in StoredRow
  BY DomainOfSeq DEF Rows
<1>3. PICK sample, pool : pool = PoolKey(accounts[j]) /\ sample = LatestSample(accounts, pool)
  OBVIOUS
<1>4. s[j] = [id |-> j, pool |-> pool, class |-> TrafficClass(accounts[j].region),
              total |-> accounts[j].quota, used |-> sample.used, at |-> sample.at,
              stale |-> sample.at \in tooOld, conflict |-> QuotaConflict(accounts, pool)]
  BY <1>1, <1>3 DEF Summary
<1>5. PICK m \in DOMAIN accounts : PoolKey(accounts[m]) = pool /\ sample = accounts[m]
  BY <1>1, <1>3, SampleFact
<1>6. sample.used \in Nat /\ sample.at \in 0..bound /\ accounts[j].quota \in Nat
  <2>1. accounts[j] \in StoredRow /\ sample \in StoredRow
    BY <1>1, <1>2, <1>5
  <2>2. accounts[j].quota \in Nat
    BY <2>1 DEF StoredRow
  <2>3. sample.used \in Nat
    BY <2>1 DEF StoredRow
  <2>4. sample.at \in 0..bound
    <3>1. sample.at \in Nat
      BY <2>1 DEF StoredRow
    <3>2. sample.at <= bound
      BY <1>5 DEF Rows
    <3>3. QED BY <3>1, <3>2
  <2>5. QED BY <2>2, <2>3, <2>4
<1>7. /\ s[j].pool = pool /\ s[j].class = TrafficClass(accounts[j].region) /\ s[j].total = accounts[j].quota
      /\ s[j].used = sample.used /\ s[j].at = sample.at
  BY <1>4
<1>8. s[j].stale = (sample.at \in tooOld)
  BY <1>4
<1>9. s[j].conflict = QuotaConflict(accounts, pool)
  BY <1>4
<1>10. QED BY <1>1, <1>2, <1>3, <1>5, <1>6, <1>7, <1>8, <1>9

\* The row that the overview keeps of a pool is one of its rows.
LEMMA PoolRowFact ==
  ASSUME NEW bound \in Nat, NEW accounts, Rows(accounts, bound), NEW tooOld,
         NEW s, s = Summary(accounts, tooOld), NEW i \in DOMAIN s
  PROVE  \E m \in DOMAIN s : s[m].pool = s[i].pool /\ PoolRow(s, s[i].pool) = s[m]
<1>1. DOMAIN s \subseteq Nat /\ \A j \in DOMAIN s : s[j].at \in 0..bound
  <2>1. DOMAIN accounts \subseteq Nat
    BY DomainOfSeq DEF Rows
  <2>2. QED BY <2>1, SummaryFact
<1>2. PICK pool : pool = s[i].pool
  OBVIOUS
<1>3. PICK members : members = {j \in DOMAIN s : s[j].pool = pool}
  OBVIOUS
<1>4. PICK ats : ats = {s[j].at : j \in members}
  OBVIOUS
<1>5. ats \subseteq 0..bound /\ ats # {} /\ i \in members
  BY <1>1, <1>2, <1>3, <1>4
<1>6. PICK latest : latest = Max(ats)
  OBVIOUS
<1>7. latest \in ats
  BY <1>5, <1>6, MaxFact
<1>8. PICK best : best = {j \in members : s[j].at = latest}
  OBVIOUS
<1>9. best \subseteq Nat /\ best # {} /\ best \subseteq members
  BY <1>1, <1>3, <1>4, <1>7, <1>8
<1>10. Min(best) \in members
  BY <1>9, MinFact
<1>11. PoolRow(s, pool) = s[Min(best)]
  BY <1>3, <1>4, <1>6, <1>8 DEF PoolRow
<1>12. QED BY <1>2, <1>3, <1>10, <1>11

-----------------------------------------------------------------------------
(***************************************************************************)
(* The sums of the overview, of its strip and of the cloud's counts.       *)
(***************************************************************************)
LEMMA OverviewUsed ==
  ASSUME NEW s, NEW kind, NEW P, P = PoolsIn(s, kind), IsFiniteSet(P),
         NEW f, \A p \in P : f[p] = PoolRow(s, p).used /\ f[p] \in Int
  PROVE  TrafficOverview(s, kind).used = SumOf(f, P)
<1> DEFINE Row(iter, t) == IF t = {} THEN 0
                           ELSE PoolRow(s, CHOOSE x \in t : TRUE).used + iter[t \ {CHOOSE x \in t : TRUE}]
           c == CHOOSE iter : iter = [t \in SUBSET P |-> Row(iter, t)]
<1>1. TrafficOverview(s, kind).used = c[P]
  BY DEF TrafficOverview, PoolsIn, InClass, MapThenSumSet, MapThenFoldSet
<1>2. \A iter : \A t \in SUBSET P : Row(iter, t) = SumRow(f, iter, t)
  BY AnyFact DEF SumRow, AnyOf
<1> HIDE DEF Row
<1>3. PICK g \in [SUBSET P -> Int] : SumTable(f, P, g)
  BY SumTableExists
<1>4. g = [t \in SUBSET P |-> Row(g, t)]
  BY <1>2, <1>3 DEF SumTable
<1>5. c = [t \in SUBSET P |-> Row(c, t)]
  BY <1>4
<1> HIDE DEF c
<1>6. SumTable(f, P, c)
  BY <1>2, <1>5 DEF SumTable
<1>7. QED BY <1>1, <1>6, SumFromTable

LEMMA OverviewTotal ==
  ASSUME NEW s, NEW kind, NEW P, P = PoolsIn(s, kind), IsFiniteSet(P),
         NEW f, \A p \in P : f[p] = PoolRow(s, p).total /\ f[p] \in Int
  PROVE  TrafficOverview(s, kind).total = SumOf(f, P)
<1> DEFINE Row(iter, t) == IF t = {} THEN 0
                           ELSE PoolRow(s, CHOOSE x \in t : TRUE).total + iter[t \ {CHOOSE x \in t : TRUE}]
           c == CHOOSE iter : iter = [t \in SUBSET P |-> Row(iter, t)]
<1>1. TrafficOverview(s, kind).total = c[P]
  BY DEF TrafficOverview, PoolsIn, InClass, MapThenSumSet, MapThenFoldSet
<1>2. \A iter : \A t \in SUBSET P : Row(iter, t) = SumRow(f, iter, t)
  BY AnyFact DEF SumRow, AnyOf
<1> HIDE DEF Row
<1>3. PICK g \in [SUBSET P -> Int] : SumTable(f, P, g)
  BY SumTableExists
<1>4. g = [t \in SUBSET P |-> Row(g, t)]
  BY <1>2, <1>3 DEF SumTable
<1>5. c = [t \in SUBSET P |-> Row(c, t)]
  BY <1>4
<1> HIDE DEF c
<1>6. SumTable(f, P, c)
  BY <1>2, <1>5 DEF SumTable
<1>7. QED BY <1>1, <1>6, SumFromTable

LEMMA CountsSum ==
  ASSUME NEW P, IsFiniteSet(P), NEW at,
         NEW f, \A p \in P : f[p] = Usage[p][at[p]] /\ f[p] \in Int
  PROVE  MapThenSumSet(LAMBDA p : Usage[p][at[p]], P) = SumOf(f, P)
<1> DEFINE Row(iter, t) == IF t = {} THEN 0
                           ELSE Usage[CHOOSE x \in t : TRUE][at[CHOOSE x \in t : TRUE]]
                                + iter[t \ {CHOOSE x \in t : TRUE}]
           c == CHOOSE iter : iter = [t \in SUBSET P |-> Row(iter, t)]
<1>1. MapThenSumSet(LAMBDA p : Usage[p][at[p]], P) = c[P]
  BY DEF MapThenSumSet, MapThenFoldSet
<1>2. \A iter : \A t \in SUBSET P : Row(iter, t) = SumRow(f, iter, t)
  BY AnyFact DEF SumRow, AnyOf
<1> HIDE DEF Row
<1>3. PICK g \in [SUBSET P -> Int] : SumTable(f, P, g)
  BY SumTableExists
<1>4. g = [t \in SUBSET P |-> Row(g, t)]
  BY <1>2, <1>3 DEF SumTable
<1>5. c = [t \in SUBSET P |-> Row(c, t)]
  BY <1>4
<1> HIDE DEF c
<1>6. SumTable(f, P, c)
  BY <1>2, <1>5 DEF SumTable
<1>7. QED BY <1>1, <1>6, SumFromTable

LEMMA QuotasSum ==
  ASSUME NEW P, IsFiniteSet(P), NEW f, \A p \in P : f[p] \in Int
  PROVE  MapThenSumSet(LAMBDA p : f[p], P) = SumOf(f, P)
<1> DEFINE Row(iter, t) == IF t = {} THEN 0
                           ELSE f[CHOOSE x \in t : TRUE] + iter[t \ {CHOOSE x \in t : TRUE}]
           c == CHOOSE iter : iter = [t \in SUBSET P |-> Row(iter, t)]
<1>1. MapThenSumSet(LAMBDA p : f[p], P) = c[P]
  BY DEF MapThenSumSet, MapThenFoldSet
<1>2. \A iter : \A t \in SUBSET P : Row(iter, t) = SumRow(f, iter, t)
  BY AnyFact DEF SumRow, AnyOf
<1> HIDE DEF Row
<1>3. PICK g \in [SUBSET P -> Int] : SumTable(f, P, g)
  BY SumTableExists
<1>4. g = [t \in SUBSET P |-> Row(g, t)]
  BY <1>2, <1>3 DEF SumTable
<1>5. c = [t \in SUBSET P |-> Row(c, t)]
  BY <1>4
<1> HIDE DEF c
<1>6. SumTable(f, P, c)
  BY <1>2, <1>5 DEF SumTable
<1>7. QED BY <1>1, <1>6, SumFromTable

-----------------------------------------------------------------------------
\* The pools of a class, as the server lists them and as the overview does.
LEMMA PoolsFact ==
  ASSUME NEW bound \in Nat, NEW accounts, Rows(accounts, bound), NEW tooOld,
         NEW s, s = Summary(accounts, tooOld), NEW kind
  PROVE  /\ DOMAIN s = DOMAIN accounts /\ IsFiniteSet(PoolsOf(accounts, kind))
         /\ Mine(accounts, kind) = InClass(s, kind)
         /\ PoolsOf(accounts, kind) = PoolsIn(s, kind)
         /\ \A j \in DOMAIN s : s[j].pool \in PoolsOf(accounts, kind) <=> s[j].class = kind
<1>1. DOMAIN s = DOMAIN accounts
  BY DEF Summary
<1>2. \A j \in DOMAIN s : s[j].pool = PoolKey(accounts[j]) /\ s[j].class = TrafficClass(accounts[j].region)
  BY SummaryFact
<1>3. Mine(accounts, kind) = InClass(s, kind)
  BY <1>1, <1>2 DEF Mine, InClass
<1>4. PoolsOf(accounts, kind) = {s[j].pool : j \in Mine(accounts, kind)}
  BY <1>1, <1>2 DEF PoolsOf, Mine
<1>5. \A j \in DOMAIN s : s[j].pool \in PoolsOf(accounts, kind) <=> s[j].class = kind
  BY <1>1, <1>2 DEF PoolsOf, Mine, PoolKey
<1>6. IsFiniteSet(PoolsOf(accounts, kind))
  <2>1. IsFiniteSet(Mine(accounts, kind))
    <3>1. IsFiniteSet(DOMAIN accounts)
      BY DomainOfSeq DEF Rows
    <3>2. QED BY <3>1, FS_Subset DEF Mine
  <2>2. PICK M, P : M = Mine(accounts, kind) /\ P = PoolsOf(accounts, kind) /\ P = {s[j].pool : j \in M}
    BY <1>4
  <2> DEFINE pool == [j \in M |-> s[j].pool]
  <2>3. pool \in [M -> P] /\ \A p \in P : \E j \in M : pool[j] = p
    BY <2>2
  <2> HIDE DEF pool
  <2>4. pool \in Surjection(M, P)
    BY <2>3 DEF Surjection
  <2>5. QED BY <2>1, <2>2, <2>4, FS_Surjection
<1>7. QED BY <1>1, <1>3, <1>4, <1>5, <1>6 DEF PoolsIn

\* The row of a pool has the reading of the pool, and the quota of an account of it.
LEMMA RowOfPool ==
  ASSUME NEW bound \in Nat, NEW accounts, Rows(accounts, bound), NEW tooOld,
         NEW s, s = Summary(accounts, tooOld), NEW kind, NEW p \in PoolsOf(accounts, kind)
  PROVE  \E m \in Mine(accounts, kind) :
           /\ s[m].pool = p /\ PoolRow(s, p).used = s[m].used /\ PoolRow(s, p).total = accounts[m].quota
           /\ s[m].used \in Nat /\ accounts[m].quota \in Nat
           /\ \A j \in DOMAIN s : s[j].pool = p => s[j].used = s[m].used
<1>1. /\ Mine(accounts, kind) = {j \in DOMAIN s : s[j].class = kind}
      /\ PoolsOf(accounts, kind) = {s[j].pool : j \in Mine(accounts, kind)}
      /\ \A j \in DOMAIN s : s[j].pool \in PoolsOf(accounts, kind) <=> s[j].class = kind
  BY PoolsFact DEF InClass, PoolsIn
<1>2. PICK i \in DOMAIN s : s[i].pool = p
  BY <1>1
<1>3. PICK m \in DOMAIN s : s[m].pool = p /\ PoolRow(s, p) = s[m]
  BY <1>2, PoolRowFact
<1>4. m \in Mine(accounts, kind)
  BY <1>1, <1>3
<1>5. s[m].total = accounts[m].quota /\ s[m].total \in Nat /\ s[m].used \in Nat
  BY SummaryFact
<1>6. \A j \in DOMAIN s : s[j].used = LatestSample(accounts, s[j].pool).used
  BY SummaryFact
<1>7. \A j \in DOMAIN s : s[j].pool = p => s[j].used = s[m].used
  BY <1>3, <1>6
<1>8. QED BY <1>3, <1>4, <1>5, <1>7

\* The overview says so exactly if the accounts of a pool of its class disagree.
LEMMA ConflictShown ==
  ASSUME NEW bound \in Nat, NEW accounts, Rows(accounts, bound), NEW tooOld,
         NEW s, s = Summary(accounts, tooOld), NEW kind
  PROVE  TrafficOverview(s, kind).conflict <=> \E p \in PoolsOf(accounts, kind) : QuotaConflict(accounts, p)
<1>1. /\ DOMAIN s = DOMAIN accounts
      /\ Mine(accounts, kind) = {j \in DOMAIN s : s[j].class = kind}
      /\ PoolsOf(accounts, kind) = {s[j].pool : j \in Mine(accounts, kind)}
  BY PoolsFact DEF InClass, PoolsIn
<1>2. \A j \in DOMAIN s : /\ s[j].pool = PoolKey(accounts[j]) /\ s[j].total = accounts[j].quota
                          /\ s[j].conflict = QuotaConflict(accounts, s[j].pool)
  BY SummaryFact
<1>3. TrafficOverview(s, kind).conflict <=>
        \E i, j \in {k \in DOMAIN s : s[k].class = kind} :
          s[j].conflict \/ (s[i].pool = s[j].pool /\ s[i].total # s[j].total)
  BY DEF TrafficOverview
<1>4. ASSUME NEW i \in Mine(accounts, kind), NEW j \in Mine(accounts, kind),
             s[j].conflict \/ (s[i].pool = s[j].pool /\ s[i].total # s[j].total)
      PROVE  QuotaConflict(accounts, s[j].pool)
  <2>1. i \in DOMAIN s /\ j \in DOMAIN s
    BY <1>1
  <2>2. CASE s[j].conflict
    BY <1>2, <2>1, <2>2
  <2>3. CASE s[i].pool = s[j].pool /\ s[i].total # s[j].total
    <3>1. /\ PoolKey(accounts[i]) = s[j].pool /\ PoolKey(accounts[j]) = s[j].pool
          /\ accounts[i].quota # accounts[j].quota
      BY <1>2, <2>1, <2>3
    <3>2. i \in DOMAIN accounts /\ j \in DOMAIN accounts
      BY <1>1, <2>1
    <3>3. QED BY <3>1, <3>2 DEF QuotaConflict
  <2>4. QED BY <1>4, <2>2, <2>3
<1>5. ASSUME NEW p \in PoolsOf(accounts, kind), QuotaConflict(accounts, p)
      PROVE  \E j \in Mine(accounts, kind) : s[j].conflict
  <2>1. PICK j \in Mine(accounts, kind) : p = s[j].pool
    BY <1>1
  <2>2. j \in DOMAIN s
    BY <1>1
  <2>3. s[j].conflict
    BY <1>2, <1>5, <2>1, <2>2
  <2>4. QED BY <2>3
<1>6. QED BY <1>1, <1>3, <1>4, <1>5

\* The strip's total is the sum of the two classes.
LEMMA StripTotal ==
  ASSUME NEW bound \in Nat, NEW accounts, Rows(accounts, bound), NEW tooOld,
         NEW s, s = Summary(accounts, tooOld)
  PROVE  TotalPoolTraffic(s) = TrafficOverview(s, "china").used + TrafficOverview(s, "international").used
<1>1. PICK n \in Nat : DOMAIN s = 1..n /\ IsFiniteSet(1..n)
  <2>1. DOMAIN s = DOMAIN accounts
    BY DEF Summary
  <2>2. QED BY <2>1, DomainOfSeq DEF Rows
<1>2. \A j \in DOMAIN s : s[j].used \in Nat /\ s[j].class \in {"china", "international"}
  BY SummaryFact DEF TrafficClass
<1>3. PICK firsts : firsts = FirstRows(s)
  OBVIOUS
<1>4. PICK f : f = [j \in firsts |-> s[j].used]
  OBVIOUS
<1>5. TotalPoolTraffic(s) = SumOf(f, firsts)
  <2>1. IsFiniteSet(DOMAIN s) /\ \A j \in DOMAIN s : s[j].used \in Int
    BY <1>1, <1>2
  <2>2. \A j \in firsts : f[j] = s[j].used
    BY <1>4
  <2>3. QED BY <1>3, <2>1, <2>2, TotalIsSum
<1>6. firsts \subseteq DOMAIN s /\ IsFiniteSet(firsts) /\ \A j \in firsts : f[j] = s[j].used /\ f[j] \in Int
  <2>1. firsts \subseteq DOMAIN s
    BY <1>3 DEF FirstRows
  <2>2. IsFiniteSet(firsts)
    BY <1>1, <2>1, FS_Subset
  <2>3. QED BY <1>2, <1>4, <2>1, <2>2
<1>7. ASSUME NEW kind
      PROVE  TrafficOverview(s, kind).used = SumOf(f, {j \in firsts : s[j].class = kind})
  <2>1. PICK A, P : A = {j \in firsts : s[j].class = kind} /\ P = PoolsOf(accounts, kind)
    OBVIOUS
  <2>2. P = PoolsIn(s, kind) /\ IsFiniteSet(P)
    BY <2>1, PoolsFact
  <2>3. /\ \A p \in P : \E j \in DOMAIN s : s[j].pool = p
        /\ \A j \in DOMAIN s : s[j].pool \in P <=> s[j].class = kind
    <3>1. \A j \in DOMAIN s : s[j].pool \in PoolsOf(accounts, kind) <=> s[j].class = kind
      BY PoolsFact
    <3>2. QED BY <2>1, <2>2, <3>1 DEF PoolsIn, InClass
  <2>4. PICK g : g = [p \in P |-> PoolRow(s, p).used]
    OBVIOUS
  <2>5. \A p \in P : g[p] \in Int /\ \A j \in DOMAIN s : s[j].pool = p => s[j].used = g[p]
    BY <2>1, <2>4, RowOfPool
  <2>6. TrafficOverview(s, kind).used = SumOf(g, P)
    <3>1. \A p \in P : g[p] = PoolRow(s, p).used /\ g[p] \in Int
      BY <2>4, <2>5
    <3>2. QED BY <2>2, <3>1, OverviewUsed
  <2>7. PICK b : b = [j \in A |-> s[j].pool]
    OBVIOUS
  <2>8. A \subseteq firsts /\ IsFiniteSet(A) /\ \A j \in A : f[j] \in Int
    BY <1>6, <2>1, FS_Subset
  <2>9. \A j \in A : b[j] \in P /\ f[j] = g[b[j]]
    BY <1>6, <2>1, <2>3, <2>5, <2>7
  <2>10. ASSUME NEW i \in A, NEW j \in A, b[i] = b[j] PROVE i = j
    <3>1. i \in 1..n /\ j \in 1..n /\ s[i].pool = s[j].pool
      BY <1>1, <1>6, <2>7, <2>8, <2>10
    <3>2. (\A k \in 1..(j - 1) : s[k].pool # s[j].pool) /\ (\A k \in 1..(i - 1) : s[k].pool # s[i].pool)
      BY <1>3, <2>8 DEF FirstRows
    <3>3. ~(i < j) /\ ~(j < i)
      BY <3>1, <3>2
    <3>4. QED BY <3>1, <3>3
  <2>11. ASSUME NEW p \in P PROVE \E j \in A : b[j] = p
    <3>1. PICK members : members = {j \in DOMAIN s : s[j].pool = p}
      OBVIOUS
    <3>2. members \subseteq Nat /\ members # {}
      BY <1>1, <2>3, <3>1
    <3>3. PICK m : m \in members /\ \A k \in members : m <= k
      BY <3>2, LeastNat
    <3>4. m \in 1..n /\ s[m].pool = p
      BY <1>1, <3>1, <3>3
    <3>5. \A k \in 1..(m - 1) : s[k].pool # s[m].pool
      <4>1. \A k \in 1..(m - 1) : k \in 1..n /\ ~(m <= k)
        BY <3>4
      <4>2. QED BY <1>1, <3>1, <3>3, <3>4, <4>1
    <3>6. m \in A
      BY <1>1, <1>3, <2>1, <2>3, <3>4, <3>5 DEF FirstRows
    <3>7. QED BY <2>7, <3>4, <3>6
  <2>12. SumOf(f, A) = SumOf(g, P)
    <3>1. OneToOne(b, A, P)
      BY <2>9, <2>10, <2>11 DEF OneToOne
    <3>2. (\A j \in A : f[j] = g[b[j]]) /\ \A p \in P : g[p] \in Int
      BY <2>5, <2>9
    <3>3. QED BY <2>2, <2>8, <3>1, <3>2, SumRenamed
  <2>13. QED BY <2>1, <2>6, <2>12
<1>8. PICK A, B : /\ A = {j \in firsts : s[j].class = "china"}
                  /\ B = {j \in firsts : s[j].class = "international"}
  OBVIOUS
<1>9. /\ A \in SUBSET firsts /\ B \in SUBSET firsts
      /\ A \union B = firsts /\ A \intersect B = {}
  BY <1>2, <1>6, <1>8
<1>10. SumOf(f, firsts) = SumOf(f, A) + SumOf(f, B)
  BY <1>6, <1>9, SumSplit
<1>11. QED BY <1>5, <1>7, <1>8, <1>10
-----------------------------------------------------------------------------
\* A row whose reading is not too old has a recent count of its pool.
LEMMA RecentFact ==
  ASSUME NEW time \in Times, NEW at \in Nat, at # 0, at <= time, time - at <= FreshFor,
         NEW t \in Times, at - (2 * MaxRun + CacheFor - 1) <= t, t <= at
  PROVE  t \in Max({1, time - (FreshFor + 2 * MaxRun + CacheFor - 1)})..time
<1>1. time \in Nat /\ t \in Nat /\ t >= 1 /\ MaxRun \in Nat /\ CacheFor \in Nat /\ FreshFor \in Nat
  BY TimesFact
<1>2. PICK first \in Int : first = time - (FreshFor + 2 * MaxRun + CacheFor - 1)
  BY <1>1
<1>3. t >= first
  BY <1>1, <1>2
<1>4. PICK top : top = Max({1, first}) /\ top = IF first <= 1 THEN 1 ELSE first
  BY DEF Max
<1>5. t \in top..time
  BY <1>1, <1>3, <1>4
<1>6. QED BY <1>2, <1>4, <1>5

LEMMA OverviewHolds == ReadingInv => OverviewTrue
<1>1. SUFFICES ASSUME ReadingInv PROVE OverviewTrue
  OBVIOUS
<1>2. PICK s, tooOld : tooOld = TooOld /\ s = Summary(stored, tooOld)
  OBVIOUS
<1>3. now \in Times /\ now \in Nat /\ stored \in Seq(StoredRow)
  BY <1>1, TimesFact DEF ReadingInv, ReadingTypes
<1>4. Rows(stored, now) /\ \A j \in DOMAIN stored : RowTrue(stored[j], now)
  <2>1. \A j \in DOMAIN stored : RowTrue(stored[j], now)
    BY <1>1 DEF ReadingInv
  <2>2. QED BY <1>3, <2>1, DomainOfSeq DEF Rows, RowTrue, StoredRow
<1>5. PICK K \in Int : K = 2 * MaxRun + CacheFor - 1
  BY TimesFact
<1>0. now \in Nat /\ Rows(stored, now) /\ s = Summary(stored, tooOld)
  BY <1>2, <1>3, <1>4
<1>6. ASSUME NEW kind \in {"china", "international"}
      PROVE  TrafficOverview(s, kind).conflict <=> \E p \in PoolsOf(stored, kind) : QuotaConflict(stored, p)
  BY <1>0, ConflictShown
<1>7. ASSUME NEW kind, ~TrafficOverview(s, kind).stale, NEW p \in PoolsOf(stored, kind)
      PROVE  \E t \in Recent : PoolRow(s, p).used = Usage[p][t] /\ Usage[p][t] \in Nat
  <2>1. PICK P : P = PoolsOf(stored, kind) /\ p \in P
    OBVIOUS
  <2>2. PICK m \in Mine(stored, kind) : s[m].pool = p /\ PoolRow(s, p).used = s[m].used
    BY <1>0, <2>1, RowOfPool
  <2>3. m \in DOMAIN s /\ s[m].class = kind /\ ~s[m].stale
    <3>1. m \in InClass(s, kind)
      BY <1>0, PoolsFact
    <3>2. m \in DOMAIN s /\ s[m].class = kind
      BY <3>1 DEF InClass
    <3>3. QED BY <1>7, <3>2 DEF TrafficOverview
  <2>4. PICK r \in DOMAIN stored : PoolKey(stored[r]) = p /\ s[m].used = stored[r].used /\ s[m].at = stored[r].at
    BY <1>0, <2>2, <2>3, SummaryFact
  <2>5. s[m].stale = (s[m].at \in tooOld)
    BY <1>0, <2>3, SummaryFact
  <2>6. stored[r] \in StoredRow /\ RowTrue(stored[r], now)
    BY <1>3, <1>4, DomainOfSeq
  <2>7. PICK at \in Nat : at = stored[r].at /\ at <= now /\ at \notin TooOld
    BY <1>2, <2>3, <2>4, <2>5, <2>6 DEF RowTrue, StoredRow
  <2>8. at # 0 /\ now - at <= FreshFor
    BY <1>3, <2>7, TimesFact DEF TooOld
  <2>9. PICK t \in Times : at - K <= t /\ t <= at /\ stored[r].used = Usage[p][t]
    BY <1>5, <2>4, <2>6, <2>7, <2>8 DEF RowTrue, Counted
  <2>10. t \in Recent
    BY <1>3, <1>5, <2>7, <2>8, <2>9, RecentFact DEF Recent
  <2>11. stored[r].key \in PoolKeys
    BY <2>6 DEF StoredRow
  <2>12. p \in Pool
    BY <2>4, <2>11, PoolFact
  <2>13. QED BY <2>2, <2>4, <2>9, <2>10, <2>12, PoolFact
<1>8. ASSUME NEW kind, ~TrafficOverview(s, kind).stale
      PROVE  \E f \in [PoolsOf(stored, kind) -> Recent] :
               TrafficOverview(s, kind).used = MapThenSumSet(LAMBDA p : Usage[p][f[p]], PoolsOf(stored, kind))
  <2>1. PICK P : P = PoolsOf(stored, kind)
    OBVIOUS
  <2>2. P = PoolsIn(s, kind) /\ IsFiniteSet(P)
    BY <1>0, <2>1, PoolsFact
  <2> DEFINE At(p) == CHOOSE t \in Recent : PoolRow(s, p).used = Usage[p][t] /\ Usage[p][t] \in Nat
  <2>3. \A p \in P : At(p) \in Recent /\ PoolRow(s, p).used = Usage[p][At(p)] /\ Usage[p][At(p)] \in Nat
    BY <1>7, <1>8, <2>1
  <2> HIDE DEF At
  <2>4. PICK f : f = [p \in P |-> At(p)]
    OBVIOUS
  <2>5. PICK g : g = [p \in P |-> Usage[p][f[p]]]
    OBVIOUS
  <2>6. f \in [P -> Recent] /\ \A p \in P : g[p] = Usage[p][f[p]] /\ g[p] = PoolRow(s, p).used /\ g[p] \in Int
    BY <2>3, <2>4, <2>5
  <2>7. TrafficOverview(s, kind).used = SumOf(g, P)
    BY <2>2, <2>6, OverviewUsed
  <2>8. MapThenSumSet(LAMBDA p : Usage[p][f[p]], P) = SumOf(g, P)
    <3>1. \A p \in P : g[p] = Usage[p][f[p]] /\ g[p] \in Int
      BY <2>6
    <3>2. QED BY <2>2, <3>1, CountsSum, Zenon
  <2>9. QED BY <2>1, <2>6, <2>7, <2>8
<1>9. TotalPoolTraffic(s) = TrafficOverview(s, "china").used + TrafficOverview(s, "international").used
  BY <1>0, StripTotal
<1>10. ASSUME NEW kind \in {"china", "international"}
       PROVE  /\ TrafficOverview(s, kind).conflict <=> \E p \in PoolsOf(stored, kind) : QuotaConflict(stored, p)
              /\ (~TrafficOverview(s, kind).stale /\ ~TrafficOverview(s, kind).conflict) =>
                   /\ \E f \in [PoolsOf(stored, kind) -> Recent] :
                        TrafficOverview(s, kind).used = MapThenSumSet(LAMBDA p : Usage[p][f[p]], PoolsOf(stored, kind))
                   /\ \A quota \in [PoolsOf(stored, kind) -> {stored[j].quota : j \in DOMAIN stored}] :
                        (\A j \in DOMAIN stored : PoolKey(stored[j]) \in PoolsOf(stored, kind) =>
                            quota[PoolKey(stored[j])] = stored[j].quota) =>
                           TrafficOverview(s, kind).total = MapThenSumSet(LAMBDA p : quota[p], PoolsOf(stored, kind))
  <2>1. CASE TrafficOverview(s, kind).stale
    BY <1>6, <2>1, Zenon
  <2>2. CASE ~TrafficOverview(s, kind).stale
    <3>1. \E f \in [PoolsOf(stored, kind) -> Recent] :
            TrafficOverview(s, kind).used = MapThenSumSet(LAMBDA p : Usage[p][f[p]], PoolsOf(stored, kind))
      BY <1>8, <2>2, Zenon
    <3>2. \A quota \in [PoolsOf(stored, kind) -> {stored[j].quota : j \in DOMAIN stored}] :
            (\A j \in DOMAIN stored : PoolKey(stored[j]) \in PoolsOf(stored, kind) =>
                quota[PoolKey(stored[j])] = stored[j].quota) =>
               TrafficOverview(s, kind).total = MapThenSumSet(LAMBDA p : quota[p], PoolsOf(stored, kind))
      <4>1. TAKE quota \in [PoolsOf(stored, kind) -> {stored[j].quota : j \in DOMAIN stored}]
      <4>2. HAVE \A j \in DOMAIN stored : PoolKey(stored[j]) \in PoolsOf(stored, kind) =>
                   quota[PoolKey(stored[j])] = stored[j].quota
      <4>3. PICK P : P = PoolsOf(stored, kind)
        OBVIOUS
      <4>4. P = PoolsIn(s, kind) /\ IsFiniteSet(P)
        BY <1>0, <4>3, PoolsFact
      <4>5. ASSUME NEW p \in P PROVE quota[p] = PoolRow(s, p).total /\ quota[p] \in Int
        <5>1. PICK m \in Mine(stored, kind) : /\ s[m].pool = p /\ PoolRow(s, p).total = stored[m].quota
                                              /\ stored[m].quota \in Nat
          BY <1>0, <4>3, RowOfPool
        <5>2. m \in DOMAIN stored
          BY DEF Mine
        <5>3. PoolKey(stored[m]) = p
          BY <1>0, <5>1, <5>2, SummaryFact DEF Summary
        <5>4. quota[p] = stored[m].quota
          BY <4>2, <4>3, <5>2, <5>3
        <5>5. QED BY <5>1, <5>4
      <4>6. TrafficOverview(s, kind).total = SumOf(quota, P)
        BY <4>4, <4>5, OverviewTotal
      <4>7. MapThenSumSet(LAMBDA p : quota[p], P) = SumOf(quota, P)
        BY <4>4, <4>5, QuotasSum
      <4>8. QED BY <4>3, <4>6, <4>7
    <3>3. QED BY <1>6, <3>1, <3>2, Zenon
  <2>3. QED BY <2>1, <2>2
<1>11. s = Summary(stored, TooOld)
  BY <1>2
<1>12. QED BY <1>9, <1>10, <1>11, Zenon DEF OverviewTrue, PoolsOf, Mine

THEOREM OverviewIsTrue == ReadingSpec => []OverviewTrue
<1>1. ReadingInv /\ [ReadingNext]_readingVars => ReadingInv'
  BY ReadingNextStep
<1>2. QED BY ReadingStart, OverviewHolds, <1>1, PTL DEF ReadingSpec

-----------------------------------------------------------------------------
\* What is charted, of its type, after the second day of 1970.
TimelineInv ==
  /\ chart \in [open : BOOLEAN, range : {"hourly", "daily"}, now : Nat, zone : Zone, sampled : SUBSET Nat]
  /\ chart.open => chart.now >= 2 * Day

(***************************************************************************)
(* The parts of BuildTimeline; and when the slot k before the current one  *)
(* begins, and when the server has the sample of it.                       *)
(***************************************************************************)
SlotCount(range) == IF range = "hourly" THEN HourSlots ELSE DaySlots
LatestAt(points) == Max({p.at : p \in points} \union {0})
EndSlot(points, range, zone, drawn) ==
  Max({SlotOf(range, zone, drawn), SlotOf(range, zone, LatestAt(points))})
SlotAt(end, range, zone, i) ==
  IF range = "hourly" THEN end - (SlotCount(range) - i) * Hour
  ELSE ShiftZonedDay(zone, end, i - SlotCount(range))
PointsIn(points, range, zone, at) == {p \in points : SlotOf(range, zone, p.at) = at}
TrafficIn(in) == IF in = {} THEN NoTraffic ELSE (CHOOSE p \in in : \A q \in in : q.at <= p.at).traffic

SlotBegins(range, zone, drawn, k) ==
  IF range = "hourly" THEN StartOfUtcHour(drawn) - Hour * k ELSE InstantOfDay(zone, DayOf(zone, drawn) - k)
SampleAt(range, zone, drawn, k) ==
  IF range = "hourly" THEN StartOfUtcHour(drawn) - Hour * k ELSE Midnight(zone, DayOf(zone, drawn) - k)

-----------------------------------------------------------------------------
\* The units.
LEMMA UnitsFact == Hour = 2 /\ Day = 48 /\ Noon = 24
<1>1. Hour = 2 /\ Day = 48
  BY DEF Hour, Day
<1>2. QED BY <1>1 DEF Noon

\* A set of integers with an upper bound has a largest element.
LEMMA IntMaxFact ==
  ASSUME NEW S, S \subseteq Int, S # {}, NEW bound \in Int, \A x \in S : x <= bound
  PROVE  Max(S) \in S
<1> DEFINE T == {bound - x : x \in S}
<1>1. T \subseteq Nat /\ T # {}
  <2>1. \A x \in S : bound - x \in Nat
    OBVIOUS
  <2>2. PICK x \in S : TRUE
    OBVIOUS
  <2>3. QED BY <2>1, <2>2
<1>2. PICK m \in T : \A k \in T : m <= k
  <2> HIDE DEF T
  <2>1. QED BY <1>1, LeastNat
<1>3. PICK x \in S : m = bound - x
  OBVIOUS
<1>4. \A y \in S : bound - y \in T
  OBVIOUS
<1>5. \A y \in S : x >= y
  <2>1. \A y \in S : m <= bound - y
    BY <1>2, <1>4
  <2> HIDE DEF T
  <2>2. QED BY <1>3, <2>1
<1>6. QED BY <1>5 DEF Max

-----------------------------------------------------------------------------
\* How far the clocks of a zone are ahead.
LEMMA OffsetFact ==
  ASSUME NEW zone \in Zone
  PROVE  /\ zone.before \in -24..47 /\ zone.after \in -24..47 /\ zone.change \in Int
         /\ zone.after - zone.before <= 47 /\ zone.before - zone.after <= 47
         /\ \A t \in Int : /\ Offset(zone, t) \in -24..47
                           /\ Offset(zone, t) = IF t < zone.change THEN zone.before ELSE zone.after
         /\ \A t, u \in Int : Offset(zone, t) - Offset(zone, u) <= 47
<1>1. zone \in [before : -24..47, after : -24..47, change : Int] /\ zone.after - zone.before \in -47..47
  BY TimelineAssumption, UnitsFact
<1>2. zone.before \in -24..47 /\ zone.after \in -24..47 /\ zone.change \in Int
  BY <1>1
<1>3. zone.after - zone.before <= 47 /\ zone.before - zone.after <= 47
  <2>1. PICK b \in -24..47, a \in -24..47 : b = zone.before /\ a = zone.after
    BY <1>2
  <2>2. a - b \in -47..47
    BY <1>1, <2>1
  <2>3. a - b <= 47 /\ b - a <= 47
    BY <2>2
  <2>4. QED BY <2>1, <2>3
<1>4. \A t \in Int : Offset(zone, t) = IF t < zone.change THEN zone.before ELSE zone.after
  BY DEF Offset
<1>5. QED BY <1>2, <1>3, <1>4

\* The day of a time.
LEMMA DayFact ==
  ASSUME NEW zone \in Zone, NEW t \in Int
  PROVE  /\ DayOf(zone, t) \in Int
         /\ 48 * DayOf(zone, t) <= t + Offset(zone, t) /\ t + Offset(zone, t) < 48 * DayOf(zone, t) + 48
         /\ \A d \in Int : 48 * d <= t + Offset(zone, t) /\ t + Offset(zone, t) < 48 * d + 48 => DayOf(zone, t) = d
<1>1. PICK u \in Int : u = t + Offset(zone, t)
  BY OffsetFact
<1>2. DayOf(zone, t) = u \div 48
  BY <1>1, UnitsFact DEF DayOf
<1>3. QED BY <1>1, <1>2

\* Days begin one after the other.
LEMMA InstantFact ==
  ASSUME NEW zone \in Zone
  PROVE  /\ \A d \in Int : InstantOfDay(zone, d) \in Int
         /\ \A d, e \in Int : d < e => InstantOfDay(zone, d) < InstantOfDay(zone, e)
<1>1. \A d \in Int : 48 * d \in Int /\ InstantOfDay(zone, d) = 48 * d - Offset(zone, 48 * d)
  BY UnitsFact DEF InstantOfDay
<1>2. ASSUME NEW d \in Int PROVE InstantOfDay(zone, d) \in Int
  <2>1. PICK u \in Int : u = 48 * d
    OBVIOUS
  <2>2. PICK o \in -24..47 : o = Offset(zone, u)
    BY <2>1, OffsetFact
  <2>3. InstantOfDay(zone, d) = u - o
    BY <1>1, <2>1, <2>2
  <2>4. QED BY <2>1, <2>2, <2>3
<1>3. ASSUME NEW d \in Int, NEW e \in Int, d < e PROVE InstantOfDay(zone, d) < InstantOfDay(zone, e)
  <2>1. PICK u \in Int, v \in Int : u = 48 * d /\ v = 48 * e
    OBVIOUS
  <2>2. u + 48 <= v
    BY <1>3, <2>1
  <2>3. PICK o \in -24..47, p \in -24..47 : o = Offset(zone, u) /\ p = Offset(zone, v)
    BY <2>1, OffsetFact
  <2>4. p - o <= 47
    BY <2>1, <2>3, OffsetFact
  <2>5. InstantOfDay(zone, d) = u - o /\ InstantOfDay(zone, e) = v - p
    BY <1>1, <2>1, <2>3
  <2>6. QED BY <2>1, <2>2, <2>3, <2>4, <2>5
<1>4. QED BY <1>2, <1>3

\* The server's day begins on the day, or on the day before; where the console's begins, on the day.
LEMMA MidnightFact ==
  ASSUME NEW zone \in Zone, NEW d \in Int
  PROVE  /\ Midnight(zone, d) \in Int /\ Midnight(zone, d) <= 48 * d + 48
         /\ DayOf(zone, Midnight(zone, d)) \in {d, d - 1}
         /\ InstantOfDay(zone, d) = Midnight(zone, d) => DayOf(zone, Midnight(zone, d)) = d
<1>1. PICK t \in Int, e \in Int : t = 48 * d /\ e = d - 1
  OBVIOUS
<1>2. PICK o \in -24..47 : o = Offset(zone, t)
  BY <1>1, OffsetFact
<1>3. PICK u \in Int : u = t - o
  BY <1>1, <1>2
<1>4. PICK p \in -24..47 : p = Offset(zone, u)
  BY <1>3, OffsetFact
<1>5. PICK m \in Int : m = t - p
  BY <1>1, <1>4
<1>6. PICK q \in -24..47 : q = Offset(zone, m)
  BY <1>5, OffsetFact
<1>7. Midnight(zone, d) = m /\ InstantOfDay(zone, d) = u
  BY <1>1, <1>2, <1>3, <1>4, <1>5, UnitsFact DEF Midnight, InstantOfDay
<1>8. q - p <= 47 /\ p - q <= 47
  BY <1>3, <1>4, <1>5, <1>6, OffsetFact
<1>9. p <= q => DayOf(zone, m) = d
  <2>1. p <= q => 48 * d <= m + q /\ m + q < 48 * d + 48
    BY <1>1, <1>5, <1>8
  <2>2. QED BY <1>5, <1>6, <2>1, DayFact
<1>10. q < p => DayOf(zone, m) = e
  <2>1. q < p => 48 * e <= m + q /\ m + q < 48 * e + 48
    BY <1>1, <1>5, <1>8
  <2>2. QED BY <1>1, <1>5, <1>6, <2>1, DayFact
<1>11. u = m => p = q
  BY <1>4, <1>6
<1>12. QED BY <1>1, <1>4, <1>5, <1>6, <1>7, <1>9, <1>10, <1>11

\* A day is shifted by way of noon UTC, which may be on the next day.
LEMMA ShiftFact ==
  ASSUME NEW zone \in Zone, NEW t \in Int, NEW k \in Int, NEW d \in Int, d = DayOf(zone, t) + k
  PROVE  /\ Offset(zone, 48 * d + 24) < 24 => ShiftZonedDay(zone, t, k) = InstantOfDay(zone, d)
         /\ Offset(zone, 48 * d + 24) >= 24 => ShiftZonedDay(zone, t, k) = InstantOfDay(zone, d + 1)
<1>1. PICK noon : noon = 48 * d + 24 /\ noon \in Int
  OBVIOUS
<1>2. ShiftZonedDay(zone, t, k) = InstantOfDay(zone, DayOf(zone, noon))
  BY <1>1, UnitsFact DEF ShiftZonedDay, StartOfZonedDay
<1>3. PICK o \in -24..47 : o = Offset(zone, noon)
  BY <1>1, OffsetFact
<1>4. o < 24 => DayOf(zone, noon) = d
  <2>1. o < 24 => 48 * d <= noon + o /\ noon + o < 48 * d + 48
    BY <1>1, <1>3
  <2>2. QED BY <1>1, <1>3, <2>1, DayFact
<1>5. o >= 24 => DayOf(zone, noon) = d + 1
  <2>1. PICK e : e = d + 1 /\ e \in Int
    OBVIOUS
  <2>2. o >= 24 => 48 * e <= noon + o /\ noon + o < 48 * e + 48
    BY <1>1, <1>3, <2>1
  <2>3. QED BY <1>1, <1>3, <2>1, <2>2, DayFact
<1>6. QED BY <1>1, <1>2, <1>3, <1>4, <1>5

-----------------------------------------------------------------------------
\* The slots before the current one begin earlier, one after the other, and the sample of each is in it.
LEMMA SlotsFact ==
  ASSUME NEW zone \in Zone, NEW drawn \in Nat, drawn >= 96, NEW range \in {"hourly", "daily"}
  PROVE  /\ \A k \in Int : SlotBegins(range, zone, drawn, k) \in Int
         /\ \A j, k \in Int : j < k => SlotBegins(range, zone, drawn, k) < SlotBegins(range, zone, drawn, j)
         /\ SlotOf(range, zone, drawn) = SlotBegins(range, zone, drawn, 0)
         /\ SlotOf(range, zone, 0) \in Int
         /\ SlotOf(range, zone, 0) <= SlotBegins(range, zone, drawn, 0)
<1>1. CASE range = "hourly"
  <2>1. PICK h \in Int : h = StartOfUtcHour(drawn) /\ h >= 0
    BY UnitsFact DEF StartOfUtcHour
  <2>2. StartOfUtcHour(0) = 0
    BY UnitsFact DEF StartOfUtcHour
  <2>3. \A k \in Int : SlotBegins(range, zone, drawn, k) = h - 2 * k
    BY <1>1, <2>1, UnitsFact DEF SlotBegins
  <2>4. SlotOf(range, zone, drawn) = h /\ SlotOf(range, zone, 0) = 0
    BY <1>1, <2>1, <2>2 DEF SlotOf
  <2>5. QED BY <2>1, <2>3, <2>4
<1>2. CASE range = "daily"
  <2>1. PICK d \in Int : d = DayOf(zone, drawn)
    BY DayFact
  <2>2. \A k \in Int : SlotBegins(range, zone, drawn, k) = InstantOfDay(zone, d - k) /\ d - k \in Int
    BY <1>2, <2>1 DEF SlotBegins
  <2>3. PICK o \in -24..47, p \in -24..47 : o = Offset(zone, drawn) /\ p = Offset(zone, 0)
    BY OffsetFact
  <2>4. PICK e \in Int : e = DayOf(zone, 0) /\ 48 * e <= p
    BY <2>3, DayFact
  <2>5. d >= 1 /\ e <= 0
    <3>1. drawn + o < 48 * d + 48
      BY <2>1, <2>3, DayFact
    <3>2. QED BY <2>1, <2>3, <2>4, <3>1
  <2>6. SlotOf(range, zone, drawn) = InstantOfDay(zone, d) /\ SlotOf(range, zone, 0) = InstantOfDay(zone, e)
    BY <1>2, <2>1, <2>4 DEF SlotOf, StartOfZonedDay
  <2>7. InstantOfDay(zone, e) \in Int /\ InstantOfDay(zone, d) \in Int /\ InstantOfDay(zone, e) < InstantOfDay(zone, d)
    BY <2>1, <2>4, <2>5, InstantFact
  <2>8. SlotBegins(range, zone, drawn, 0) = InstantOfDay(zone, d)
    BY <1>2, <2>1 DEF SlotBegins
  <2>9. ASSUME NEW j \in Int, NEW k \in Int, j < k
        PROVE  SlotBegins(range, zone, drawn, k) < SlotBegins(range, zone, drawn, j)
    <3>1. PICK u \in Int, v \in Int : u = d - k /\ v = d - j
      BY <2>1
    <3>2. u < v
      BY <2>1, <2>9, <3>1
    <3>3. InstantOfDay(zone, u) < InstantOfDay(zone, v)
      BY <3>1, <3>2, InstantFact
    <3>4. QED BY <2>2, <3>1, <3>3
  <2>10. \A k \in Int : SlotBegins(range, zone, drawn, k) \in Int
    BY <2>2, InstantFact
  <2>11. QED BY <2>6, <2>7, <2>8, <2>9, <2>10
<1>3. QED BY <1>1, <1>2

\* Where a sample is: in its slot or, when its day begins on the day before, in the slot before that.
LEMMA SlotOfSample ==
  ASSUME NEW zone \in Zone, NEW drawn \in Nat, NEW range \in {"hourly", "daily"}, NEW k \in Nat
  PROVE  /\ SampleAt(range, zone, drawn, k) \in Int
         /\ SampleAt(range, zone, drawn, k) <= drawn + 48 * DayOf(zone, drawn) + 48 + 48 * 48
         /\ SlotOf(range, zone, SampleAt(range, zone, drawn, k))
              \in {SlotBegins(range, zone, drawn, k), SlotBegins(range, zone, drawn, k + 1)}
         /\ SampleAt(range, zone, drawn, k) = SlotBegins(range, zone, drawn, k)
              => SlotOf(range, zone, SampleAt(range, zone, drawn, k)) = SlotBegins(range, zone, drawn, k)
<1>1. PICK d \in Int : d = DayOf(zone, drawn) /\ drawn - 24 < 48 * d + 48
  <2>1. PICK o \in -24..47 : o = Offset(zone, drawn)
    BY OffsetFact
  <2>2. DayOf(zone, drawn) \in Int /\ drawn + o < 48 * DayOf(zone, drawn) + 48
    BY <2>1, DayFact
  <2>3. QED BY <2>1, <2>2
<1>2. CASE range = "hourly"
  <2>1. PICK h \in Int : h = StartOfUtcHour(drawn) /\ h <= drawn /\ h = 2 * (drawn \div 2)
    BY UnitsFact DEF StartOfUtcHour
  <2>2. PICK t : t = h - 2 * k /\ t \in Int
    BY <2>1
  <2>3. SampleAt(range, zone, drawn, k) = t /\ SlotBegins(range, zone, drawn, k) = t
    BY <1>2, <2>1, <2>2, UnitsFact DEF SampleAt, SlotBegins
  <2>4. StartOfUtcHour(t) = t
    <3>1. PICK m \in Int : m = drawn \div 2
      OBVIOUS
    <3>2. t \div 2 = m - k
      BY <2>1, <2>2, <3>1
    <3>3. StartOfUtcHour(t) = 2 * (t \div 2)
      BY UnitsFact DEF StartOfUtcHour
    <3>4. QED BY <2>1, <2>2, <3>1, <3>2, <3>3
  <2>5. t <= drawn + 48 * d + 48 + 48 * 48
    BY <1>1, <2>1, <2>2
  <2>6. QED BY <1>1, <1>2, <2>2, <2>3, <2>4, <2>5 DEF SlotOf
<1>3. CASE range = "daily"
  <2>1. PICK e \in Int, f \in Int : e = d - k /\ f = e - 1 /\ f = d - (k + 1)
    BY <1>1
  <2>2. PICK t \in Int : /\ t = Midnight(zone, e) /\ t <= 48 * e + 48
                         /\ DayOf(zone, t) \in {e, f} /\ (InstantOfDay(zone, e) = t => DayOf(zone, t) = e)
    BY <2>1, MidnightFact
  <2>3. /\ SampleAt(range, zone, drawn, k) = t /\ SlotBegins(range, zone, drawn, k) = InstantOfDay(zone, e)
        /\ SlotBegins(range, zone, drawn, k + 1) = InstantOfDay(zone, f)
    BY <1>1, <1>3, <2>1, <2>2 DEF SampleAt, SlotBegins
  <2>4. SlotOf(range, zone, t) = InstantOfDay(zone, DayOf(zone, t))
    BY <1>3 DEF SlotOf, StartOfZonedDay
  <2>5. t <= drawn + 48 * d + 48 + 48 * 48
    BY <1>1, <2>1, <2>2
  <2>6. QED BY <1>1, <2>2, <2>3, <2>4, <2>5
<1>4. QED BY <1>2, <1>3

-----------------------------------------------------------------------------
\* BuildTimeline is made of its parts.
LEMMA LineFact ==
  ASSUME NEW points, NEW range, NEW zone, NEW drawn, NEW end, end = EndSlot(points, range, zone, drawn),
         SlotCount(range) \in Nat
  PROVE  /\ Len(BuildTimeline(points, range, zone, drawn)) = SlotCount(range)
         /\ \A i \in 1..SlotCount(range) :
              BuildTimeline(points, range, zone, drawn)[i]
                = [at |-> SlotAt(end, range, zone, i),
                   traffic |-> TrafficIn(PointsIn(points, range, zone, SlotAt(end, range, zone, i)))]
<1>1. BuildTimeline(points, range, zone, drawn)
        = [i \in 1..SlotCount(range) |->
             [at |-> SlotAt(end, range, zone, i),
              traffic |-> TrafficIn(PointsIn(points, range, zone, SlotAt(end, range, zone, i)))]]
  BY DEF BuildTimeline, EndSlot, SlotCount, LatestAt, SlotAt, PointsIn, TrafficIn
<1>2. QED BY <1>1

\* The points of the server are its samples.
LEMMA PointsFact ==
  ASSUME NEW range, NEW zone, NEW drawn, NEW sampled
  PROVE  /\ \A k \in sampled : [at |-> SampleAt(range, zone, drawn, k), traffic |-> k] \in Points(range, zone, drawn, sampled)
         /\ \A p \in Points(range, zone, drawn, sampled) :
              p.traffic \in sampled /\ p = [at |-> SampleAt(range, zone, drawn, p.traffic), traffic |-> p.traffic]
<1>1. Points(range, zone, drawn, sampled)
        = {[at |-> SampleAt(range, zone, drawn, k), traffic |-> k] : k \in sampled}
  BY DEF Points, SampleAt
<1>2. QED BY <1>1

\* No sample is in a slot after the current one, with which the slots end.
LEMMA EndFact ==
  ASSUME NEW zone \in Zone, NEW drawn \in Nat, drawn >= 96, NEW range \in {"hourly", "daily"}, NEW sampled \in SUBSET Nat
  PROVE  EndSlot(Points(range, zone, drawn, sampled), range, zone, drawn) = SlotBegins(range, zone, drawn, 0)
<1>1. PICK points : points = Points(range, zone, drawn, sampled)
  OBVIOUS
<1>2. PICK S : S = {p.at : p \in points} \union {0}
  OBVIOUS
<1>3. PICK bound \in Int : bound = drawn + 48 * DayOf(zone, drawn) + 48 + 48 * 48
  BY DayFact
<1>4. PICK bound2 \in Int : bound2 >= 0 /\ bound2 >= bound
  <2>1. CASE bound >= 0
    BY <1>3, <2>1
  <2>2. CASE ~(bound >= 0)
    BY <1>3, <2>2
  <2>3. QED BY <2>1, <2>2
<1>5. \A p \in points : p.traffic \in Nat /\ p.at = SampleAt(range, zone, drawn, p.traffic)
  <2>1. ASSUME NEW p \in points PROVE p.traffic \in Nat /\ p.at = SampleAt(range, zone, drawn, p.traffic)
    <3>1. p.traffic \in sampled /\ p = [at |-> SampleAt(range, zone, drawn, p.traffic), traffic |-> p.traffic]
      BY <1>1, <2>1, PointsFact
    <3>2. QED BY <3>1
  <2>2. QED BY <2>1
<1>6. \A p \in points : p.at \in Int /\ p.at <= bound
  <2>1. ASSUME NEW p \in points PROVE p.at \in Int /\ p.at <= bound
    <3>1. PICK k \in Nat : k = p.traffic /\ p.at = SampleAt(range, zone, drawn, k)
      BY <1>5, <2>1
    <3>2. QED BY <1>3, <3>1, SlotOfSample
  <2>2. QED BY <2>1
<1>7. S \subseteq Int /\ S # {} /\ \A x \in S : x <= bound2
  <2>1. \A x \in S : x \in Int /\ x <= bound2
    <3>1. ASSUME NEW x \in S PROVE x \in Int /\ x <= bound2
      <4>1. CASE x = 0
        BY <1>4, <4>1
      <4>2. CASE \E p \in points : x = p.at
        <5>1. PICK p \in points : x = p.at
          BY <4>2
        <5>2. x \in Int /\ x <= bound
          BY <1>6, <5>1
        <5>3. QED BY <1>3, <1>4, <5>2
      <4>3. QED BY <1>2, <3>1, <4>1, <4>2
    <3>2. QED BY <3>1
  <2>2. 0 \in S
    BY <1>2
  <2>3. QED BY <2>1, <2>2
<1>8. LatestAt(points) \in S
  <2>1. Max(S) \in S
    BY <1>4, <1>7, IntMaxFact
  <2>2. QED BY <1>2, <2>1 DEF LatestAt
<1>9. PICK a \in Int, b \in Int : /\ a = SlotBegins(range, zone, drawn, 0)
                                 /\ b = SlotOf(range, zone, LatestAt(points))
                                 /\ b <= a
  <2>1. SlotBegins(range, zone, drawn, 0) \in Int
    BY SlotsFact
  <2>2. CASE LatestAt(points) = 0
    BY <2>1, <2>2, SlotsFact
  <2>3. CASE LatestAt(points) # 0
    <3>1. PICK p \in points : LatestAt(points) = p.at
      BY <1>2, <1>8, <2>3
    <3>2. PICK k \in Nat : k = p.traffic /\ p.at = SampleAt(range, zone, drawn, k)
      BY <1>5, <3>1
    <3>3. PICK j \in Nat : SlotOf(range, zone, LatestAt(points)) = SlotBegins(range, zone, drawn, j)
      <4>1. k + 1 \in Nat
        OBVIOUS
      <4>2. QED BY <3>1, <3>2, <4>1, SlotOfSample
    <3>4. SlotBegins(range, zone, drawn, j) \in Int
      BY <3>3, SlotsFact
    <3>5. CASE j = 0
      BY <2>1, <3>3, <3>5
    <3>6. CASE j # 0
      <4>1. 0 < j
        BY <3>3, <3>6
      <4>2. SlotBegins(range, zone, drawn, j) < SlotBegins(range, zone, drawn, 0)
        BY <3>3, <4>1, SlotsFact
      <4>3. QED BY <2>1, <3>3, <3>4, <4>2
    <3>7. QED BY <3>5, <3>6
  <2>4. QED BY <2>2, <2>3
<1>10. SlotOf(range, zone, drawn) = a
  BY <1>9, SlotsFact
<1>11. Max({a, b}) = a
  BY <1>9 DEF Max
<1>12. QED BY <1>1, <1>9, <1>10, <1>11 DEF EndSlot

\* In the slot k before the current one is the sample of it, if the server has one, and no other,
\* when this sample and that of the slot after it begin with their slots.
LEMMA TrafficFact ==
  ASSUME NEW zone \in Zone, NEW drawn \in Nat, drawn >= 96, NEW range \in {"hourly", "daily"}, NEW sampled \in SUBSET Nat,
         NEW k \in Int, k \in Nat => SampleAt(range, zone, drawn, k) = SlotBegins(range, zone, drawn, k),
         NEW m \in Int, m = k - 1, m \in Nat => SampleAt(range, zone, drawn, m) = SlotBegins(range, zone, drawn, m)
  PROVE  TrafficIn(PointsIn(Points(range, zone, drawn, sampled), range, zone, SlotBegins(range, zone, drawn, k)))
           = IF k \in sampled THEN k ELSE NoTraffic
<1>1. PICK points, in : /\ points = Points(range, zone, drawn, sampled)
                        /\ in = PointsIn(points, range, zone, SlotBegins(range, zone, drawn, k))
  OBVIOUS
<1>2. \A p \in in : p \in points /\ p.traffic = k
  <2>1. ASSUME NEW p \in in PROVE p \in points /\ p.traffic = k
    <3>1. p \in points /\ SlotOf(range, zone, p.at) = SlotBegins(range, zone, drawn, k)
      BY <1>1, <2>1 DEF PointsIn
    <3>2. p.traffic \in sampled /\ p = [at |-> SampleAt(range, zone, drawn, p.traffic), traffic |-> p.traffic]
      BY <1>1, <3>1, PointsFact
    <3>3. PICK j \in Nat : j = p.traffic /\ p.at = SampleAt(range, zone, drawn, j)
      BY <3>2
    <3>4. PICK i \in Int : /\ i \in {j, j + 1} /\ SlotBegins(range, zone, drawn, i) = SlotBegins(range, zone, drawn, k)
                           /\ SampleAt(range, zone, drawn, j) = SlotBegins(range, zone, drawn, j) => i = j
      <4>1. j \in Int /\ j + 1 \in Int
        BY <3>3
      <4>2. CASE SampleAt(range, zone, drawn, j) = SlotBegins(range, zone, drawn, j)
        <5>1. SlotBegins(range, zone, drawn, j) = SlotBegins(range, zone, drawn, k)
          BY <3>1, <3>3, <4>2, SlotOfSample
        <5>2. QED BY <4>1, <5>1
      <4>3. CASE SampleAt(range, zone, drawn, j) # SlotBegins(range, zone, drawn, j)
        <5>1. \/ SlotBegins(range, zone, drawn, j) = SlotBegins(range, zone, drawn, k)
              \/ SlotBegins(range, zone, drawn, j + 1) = SlotBegins(range, zone, drawn, k)
          BY <3>1, <3>3, SlotOfSample
        <5>2. QED BY <4>1, <4>3, <5>1
      <4>4. QED BY <4>2, <4>3
    <3>5. SlotBegins(range, zone, drawn, i) \in Int
      BY SlotsFact
    <3>6. ~(i < k)
      <4>1. ~(SlotBegins(range, zone, drawn, k) < SlotBegins(range, zone, drawn, i))
        BY <3>4, <3>5
      <4>2. QED BY <4>1, SlotsFact
    <3>7. ~(k < i)
      <4>1. ~(SlotBegins(range, zone, drawn, i) < SlotBegins(range, zone, drawn, k))
        BY <3>4, <3>5
      <4>2. QED BY <4>1, SlotsFact
    <3>8. i = k
      BY <3>6, <3>7
    <3>9. CASE j = m
      <4>1. SampleAt(range, zone, drawn, j) = SlotBegins(range, zone, drawn, j)
        BY <3>3, <3>9
      <4>2. i = j
        BY <3>4, <4>1
      <4>3. QED BY <3>8, <3>9, <4>2
    <3>10. CASE j # m
      <4>1. j = k
        BY <3>3, <3>4, <3>8, <3>10
      <4>2. QED BY <3>1, <3>3, <4>1
    <3>11. QED BY <3>9, <3>10
  <2>2. QED BY <2>1
<1>3. CASE k \in sampled
  <2>1. PICK p : p = [at |-> SampleAt(range, zone, drawn, k), traffic |-> k]
    OBVIOUS
  <2>2. k \in Nat /\ p \in points /\ p.at = SampleAt(range, zone, drawn, k)
    BY <1>1, <1>3, <2>1, PointsFact
  <2>3. SlotOf(range, zone, p.at) = SlotBegins(range, zone, drawn, k)
    BY <2>2, SlotOfSample
  <2>4. p \in in
    BY <1>1, <2>2, <2>3 DEF PointsIn
  <2>5. \A q \in in : q = p
    <3>1. ASSUME NEW q \in in PROVE q = p
      <4>1. q \in points /\ q.traffic = k
        BY <1>2, <3>1
      <4>2. q = [at |-> SampleAt(range, zone, drawn, q.traffic), traffic |-> q.traffic]
        BY <1>1, <4>1, PointsFact
      <4>3. QED BY <2>1, <4>1, <4>2
    <3>2. QED BY <3>1
  <2>6. p.at \in Int
    BY <2>2, SlotOfSample
  <2>7. in # {} /\ (CHOOSE q \in in : \A r \in in : r.at <= q.at) = p
    <3>1. \A r \in in : r.at <= p.at
      BY <2>5, <2>6
    <3>2. PICK x : x = (CHOOSE q \in in : \A r \in in : r.at <= q.at)
      OBVIOUS
    <3>3. x \in in
      BY <2>4, <3>1, <3>2
    <3>4. QED BY <2>4, <2>5, <3>2, <3>3
  <2>8. TrafficIn(in) = p.traffic
    BY <2>7 DEF TrafficIn
  <2>9. QED BY <1>1, <1>3, <2>1, <2>8
<1>4. CASE k \notin sampled
  <2>1. in = {}
    <3>1. ASSUME NEW p \in in PROVE FALSE
      <4>1. p \in points /\ p.traffic = k
        BY <1>2, <3>1
      <4>2. p.traffic \in sampled
        BY <1>1, <4>1, PointsFact
      <4>3. QED BY <1>4, <4>1, <4>2
    <3>2. QED BY <3>1
  <2>2. QED BY <1>1, <1>4, <2>1 DEF TrafficIn
<1>5. QED BY <1>3, <1>4


\* The days that are charted.
LEMMA ChartedFact ==
  ASSUME NEW zone \in Zone, chart.now \in Nat
  PROVE  /\ DayOf(zone, chart.now) \in Charted(zone)
         /\ \A k \in -1..(DaySlots - 1) : DayOf(zone, chart.now) - k \in Charted(zone)
         /\ ~(Ahead(zone) /\ Behind(zone))
         /\ \A d \in Charted(zone) : d \in Int
<1>1. PICK d \in Int : d = DayOf(zone, chart.now)
  BY DayFact
<1>2. PICK n \in Nat : n = DaySlots /\ n >= 2
  BY TimelineAssumption
<1>3. Charted(zone) = (d - n)..(d + 1)
  BY <1>1, <1>2 DEF Charted
<1>4. d \in Charted(zone)
  BY <1>1, <1>2, <1>3
<1>5. ~(Ahead(zone) /\ Behind(zone))
  <2>1. PICK noon \in Int : noon = Day * d + Noon
    BY <1>1, UnitsFact
  <2>2. Offset(zone, noon) \in -24..47
    BY <2>1, OffsetFact
  <2>3. QED BY <1>4, <2>1, <2>2, UnitsFact DEF Ahead, Behind
<1>6. QED BY <1>1, <1>2, <1>3, <1>4, <1>5

\* Where the slots of the chart end: with the current day or, ahead, with the next.
LastSlot(range, zone) == IF range = "daily" /\ Ahead(zone) THEN SlotCount(range) - 1 ELSE SlotCount(range)

LEMMA PlacesFact ==
  ASSUME chart.now \in Nat, chart.now >= 96, chart.zone \in Zone, chart.range \in {"hourly", "daily"},
         chart.range = "hourly" \/ (Regular(chart.zone) /\ (Ahead(chart.zone) \/ Behind(chart.zone))),
         NEW i \in 1..SlotCount(chart.range)
  PROVE  SlotAt(SlotBegins(chart.range, chart.zone, chart.now, 0), chart.range, chart.zone, i)
           = SlotBegins(chart.range, chart.zone, chart.now, LastSlot(chart.range, chart.zone) - i)
<1>1. CASE chart.range = "hourly"
  <2>1. PICK h \in Int : h = StartOfUtcHour(chart.now)
    BY UnitsFact DEF StartOfUtcHour
  <2>2. PICK n \in Nat : n = HourSlots
    BY TimelineAssumption
  <2>3. QED BY <1>1, <2>1, <2>2, UnitsFact DEF SlotAt, SlotBegins, LastSlot, SlotCount
<1>2. CASE chart.range = "daily"
  <2>1. PICK d \in Int : d = DayOf(chart.zone, chart.now)
    BY DayFact
  <2>2. PICK n \in Nat : n = DaySlots /\ n >= 2 /\ n = SlotCount(chart.range)
    BY <1>2, TimelineAssumption DEF SlotCount
  <2>3. PICK t \in Int : t = InstantOfDay(chart.zone, d)
    BY <2>1, InstantFact
  <2>4. SlotBegins(chart.range, chart.zone, chart.now, 0) = t
    BY <1>2, <2>1, <2>3 DEF SlotBegins
  <2>5. DayOf(chart.zone, t) = d
    <3>1. t = Midnight(chart.zone, d)
      BY <1>2, <2>1, <2>3, ChartedFact DEF Regular
    <3>2. QED BY <2>1, <2>3, <3>1, MidnightFact
  <2>6. PICK e \in Int : e = d + (i - n) /\ e = d - (n - i)
    BY <2>1, <2>2
  <2>7. SlotAt(t, chart.range, chart.zone, i) = ShiftZonedDay(chart.zone, t, i - n) /\ i - n \in Int
    BY <1>2, <2>2 DEF SlotAt
  <2>8. /\ Offset(chart.zone, 48 * e + 24) < 24 => ShiftZonedDay(chart.zone, t, i - n) = InstantOfDay(chart.zone, e)
        /\ Offset(chart.zone, 48 * e + 24) >= 24 => ShiftZonedDay(chart.zone, t, i - n) = InstantOfDay(chart.zone, e + 1)
    BY <2>3, <2>5, <2>6, <2>7, ShiftFact
  <2>9. e \in Charted(chart.zone)
    <3>1. PICK k \in Int : k = n - i
      BY <2>2
    <3>2. k \in -1..(DaySlots - 1)
      BY <2>2, <3>1
    <3>3. DayOf(chart.zone, chart.now) - k \in Charted(chart.zone)
      BY <3>2, ChartedFact
    <3>4. QED BY <2>1, <2>6, <3>1, <3>3
  <2>10. CASE Ahead(chart.zone)
    <3>1. Offset(chart.zone, 48 * e + 24) >= 24
      BY <2>9, <2>10, UnitsFact DEF Ahead
    <3>2. LastSlot(chart.range, chart.zone) = n - 1
      BY <1>2, <2>2, <2>10 DEF LastSlot
    <3>3. SlotBegins(chart.range, chart.zone, chart.now, (n - 1) - i) = InstantOfDay(chart.zone, d - ((n - 1) - i))
      BY <1>2, <2>1 DEF SlotBegins
    <3>4. d - ((n - 1) - i) = e + 1
      BY <2>1, <2>2, <2>6
    <3>5. QED BY <2>4, <2>7, <2>8, <3>1, <3>2, <3>3, <3>4
  <2>11. CASE Behind(chart.zone)
    <3>1. Offset(chart.zone, 48 * e + 24) < 24
      BY <2>9, <2>11, UnitsFact DEF Behind
    <3>2. LastSlot(chart.range, chart.zone) = n
      BY <1>2, <2>2, <2>11, ChartedFact DEF LastSlot
    <3>3. SlotBegins(chart.range, chart.zone, chart.now, n - i) = InstantOfDay(chart.zone, d - (n - i))
      BY <1>2, <2>1 DEF SlotBegins
    <3>4. QED BY <2>4, <2>6, <2>7, <2>8, <3>1, <3>2, <3>3
  <2>12. QED BY <1>2, <2>10, <2>11
<1>3. QED BY <1>1, <1>2

\* The number of slots, and of the last one that has a sample.
LEMMA CountFact ==
  ASSUME chart.range \in {"hourly", "daily"}
  PROVE  /\ SlotCount(chart.range) \in Nat /\ SlotCount(chart.range) >= 1
         /\ LastSlot(chart.range, chart.zone) \in {SlotCount(chart.range), SlotCount(chart.range) - 1}
         /\ LastSlot(chart.range, chart.zone) \in Nat
BY TimelineAssumption DEF SlotCount, LastSlot

\* A sample that is charted begins with its slot.
LEMMA SampleBegins ==
  ASSUME chart.now \in Nat, chart.zone \in Zone, chart.range \in {"hourly", "daily"},
         chart.range = "hourly" \/ Regular(chart.zone),
         NEW k \in Nat, k < SlotCount(chart.range)
  PROVE  SampleAt(chart.range, chart.zone, chart.now, k) = SlotBegins(chart.range, chart.zone, chart.now, k)
<1>1. CASE chart.range = "hourly"
  BY <1>1 DEF SampleAt, SlotBegins
<1>2. CASE chart.range = "daily"
  <2>1. k \in -1..(DaySlots - 1)
    BY <1>2, TimelineAssumption DEF SlotCount
  <2>2. DayOf(chart.zone, chart.now) - k \in Charted(chart.zone)
    BY <2>1, ChartedFact
  <2>3. QED BY <1>2, <2>2 DEF Regular, SampleAt, SlotBegins
<1>3. QED BY <1>1, <1>2

\* What the chart shows at its slot i.
LEMMA ShownAt ==
  ASSUME TimelineInv, chart.open,
         chart.range = "hourly" \/ (Regular(chart.zone) /\ (Ahead(chart.zone) \/ Behind(chart.zone))),
         NEW points, points = Points(chart.range, chart.zone, chart.now, chart.sampled),
         NEW line, line = BuildTimeline(points, chart.range, chart.zone, chart.now),
         NEW last, last = LastSlot(chart.range, chart.zone)
  PROVE  /\ Len(line) = SlotCount(chart.range)
         /\ \A i \in 1..Len(line) :
              line[i] = [at |-> SlotBegins(chart.range, chart.zone, chart.now, last - i),
                         traffic |-> IF last - i \in chart.sampled THEN last - i ELSE NoTraffic]
<1>1. /\ chart.now \in Nat /\ chart.now >= 96 /\ chart.zone \in Zone /\ chart.range \in {"hourly", "daily"}
      /\ chart.sampled \in SUBSET Nat
  BY UnitsFact DEF TimelineInv
<1>2. PICK end : end = EndSlot(points, chart.range, chart.zone, chart.now)
  OBVIOUS
<1>3. end = SlotBegins(chart.range, chart.zone, chart.now, 0)
  BY <1>1, <1>2, EndFact
<1>4. /\ Len(line) = SlotCount(chart.range)
      /\ \A i \in 1..SlotCount(chart.range) :
           line[i] = [at |-> SlotAt(end, chart.range, chart.zone, i),
                      traffic |-> TrafficIn(PointsIn(points, chart.range, chart.zone, SlotAt(end, chart.range, chart.zone, i)))]
  <2>1. SlotCount(chart.range) \in Nat
    BY <1>1, CountFact
  <2>2. QED BY <1>2, <2>1, LineFact
<1>5. ASSUME NEW i \in 1..Len(line)
      PROVE  line[i] = [at |-> SlotBegins(chart.range, chart.zone, chart.now, last - i),
                        traffic |-> IF last - i \in chart.sampled THEN last - i ELSE NoTraffic]
  <2>1. SlotAt(end, chart.range, chart.zone, i) = SlotBegins(chart.range, chart.zone, chart.now, last - i)
    BY <1>1, <1>3, <1>4, <1>5, PlacesFact
  <2>2. PICK k \in Int : k = last - i
    BY <1>1, <1>5, <1>4, CountFact
  <2>3. TrafficIn(PointsIn(points, chart.range, chart.zone, SlotBegins(chart.range, chart.zone, chart.now, k)))
          = IF k \in chart.sampled THEN k ELSE NoTraffic
    <3>1. PICK m \in Int : m = k - 1
      OBVIOUS
    <3>2. k < SlotCount(chart.range) /\ m < SlotCount(chart.range)
      BY <1>1, <1>4, <1>5, <2>2, <3>1, CountFact
    <3>3. k \in Nat => SampleAt(chart.range, chart.zone, chart.now, k) = SlotBegins(chart.range, chart.zone, chart.now, k)
      BY <1>1, <3>2, SampleBegins
    <3>4. m \in Nat => SampleAt(chart.range, chart.zone, chart.now, m) = SlotBegins(chart.range, chart.zone, chart.now, m)
      BY <1>1, <3>2, SampleBegins
    <3>5. QED BY <1>1, <3>1, <3>3, <3>4, TrafficFact
  <2>4. QED BY <1>4, <1>5, <2>1, <2>2, <2>3
<1>6. QED BY <1>4, <1>5

LEMMA ShowsFact == TimelineInv => TimelineShows
<1> SUFFICES ASSUME TimelineInv, chart.open,
                    chart.range = "hourly" \/ (Regular(chart.zone) /\ (Ahead(chart.zone) \/ Behind(chart.zone))),
                    NEW points, points = Points(chart.range, chart.zone, chart.now, chart.sampled),
                    NEW line, line = BuildTimeline(points, chart.range, chart.zone, chart.now),
                    NEW last, last = IF chart.range = "daily" /\ Ahead(chart.zone) THEN Len(line) - 1 ELSE Len(line)
             PROVE  /\ \A i \in 2..Len(line) : line[i - 1].at < line[i].at
                    /\ \A i \in 1..last :
                         IF last - i \in chart.sampled
                         THEN \E p \in points : p.traffic = last - i /\ line[i] = p
                         ELSE line[i].traffic = NoTraffic
                    /\ \A i \in (last + 1)..Len(line) : line[i].traffic = NoTraffic
  BY DEF TimelineShows
<1>1. /\ chart.now \in Nat /\ chart.now >= 96 /\ chart.zone \in Zone /\ chart.range \in {"hourly", "daily"}
      /\ chart.sampled \in SUBSET Nat
  BY UnitsFact DEF TimelineInv
<1>2. PICK place : place = LastSlot(chart.range, chart.zone)
  OBVIOUS
<1>3. /\ Len(line) = SlotCount(chart.range)
      /\ \A i \in 1..Len(line) :
           line[i] = [at |-> SlotBegins(chart.range, chart.zone, chart.now, place - i),
                      traffic |-> IF place - i \in chart.sampled THEN place - i ELSE NoTraffic]
  BY <1>2, ShownAt
<1>4. place = last
  BY <1>2, <1>3 DEF LastSlot
<1>5. PICK n \in Nat : n = Len(line) /\ n >= 1 /\ last \in {n, n - 1} /\ last \in Nat
  BY <1>1, <1>2, <1>3, <1>4, CountFact
<1>6. ASSUME NEW i \in 2..Len(line) PROVE line[i - 1].at < line[i].at
  <2>1. i \in Int /\ i \in 1..Len(line) /\ i - 1 \in 1..Len(line)
    BY <1>5, <1>6
  <2>2. PICK j \in Int : j = last - i
    <3>1. last - i \in Int
      BY <1>5, <2>1
    <3>2. QED BY <3>1
  <2>3. PICK k \in Int : k = last - (i - 1)
    <3>1. last - (i - 1) \in Int
      BY <1>5, <2>1
    <3>2. QED BY <3>1
  <2>4. /\ line[i].at = SlotBegins(chart.range, chart.zone, chart.now, j)
        /\ line[i - 1].at = SlotBegins(chart.range, chart.zone, chart.now, k)
        /\ j < k
    <3>1. line[i] = [at |-> SlotBegins(chart.range, chart.zone, chart.now, j),
                     traffic |-> IF j \in chart.sampled THEN j ELSE NoTraffic]
      BY <1>3, <1>4, <2>1, <2>2
    <3>2. line[i - 1] = [at |-> SlotBegins(chart.range, chart.zone, chart.now, k),
                         traffic |-> IF k \in chart.sampled THEN k ELSE NoTraffic]
      BY <1>3, <1>4, <2>1, <2>3
    <3>3. j < k
      BY <1>5, <2>1, <2>2, <2>3
    <3>4. QED BY <3>1, <3>2, <3>3
  <2>5. SlotBegins(chart.range, chart.zone, chart.now, k) < SlotBegins(chart.range, chart.zone, chart.now, j)
    BY <1>1, <2>2, <2>3, <2>4, SlotsFact
  <2>6. QED BY <2>4, <2>5
<1>7. ASSUME NEW i \in 1..last
      PROVE  IF last - i \in chart.sampled
             THEN \E p \in points : p.traffic = last - i /\ line[i] = p
             ELSE line[i].traffic = NoTraffic
  <2>1. PICK k \in Nat : k = last - i /\ k < SlotCount(chart.range)
    BY <1>3, <1>5
  <2>2. i \in 1..Len(line)
    BY <1>5
  <2>3. line[i] = [at |-> SlotBegins(chart.range, chart.zone, chart.now, k),
                   traffic |-> IF k \in chart.sampled THEN k ELSE NoTraffic]
    BY <1>3, <1>4, <2>1, <2>2
  <2>4. CASE k \in chart.sampled
    <3>1. PICK p : p = [at |-> SampleAt(chart.range, chart.zone, chart.now, k), traffic |-> k]
      OBVIOUS
    <3>2. p \in points /\ p.traffic = k
      BY <2>4, <3>1, PointsFact
    <3>3. SampleAt(chart.range, chart.zone, chart.now, k) = SlotBegins(chart.range, chart.zone, chart.now, k)
      BY <1>1, <2>1, SampleBegins
    <3>4. line[i] = p
      BY <2>3, <2>4, <3>1, <3>3
    <3>5. QED BY <2>1, <2>4, <3>2, <3>4
  <2>5. CASE k \notin chart.sampled
    BY <2>1, <2>3, <2>5
  <2>6. QED BY <2>4, <2>5
<1>8. ASSUME NEW i \in (last + 1)..Len(line) PROVE line[i].traffic = NoTraffic
  <2>1. PICK k \in Int : k = last - i /\ k \notin chart.sampled
    BY <1>1, <1>5
  <2>2. i \in 1..Len(line)
    BY <1>5
  <2>3. line[i] = [at |-> SlotBegins(chart.range, chart.zone, chart.now, k),
                   traffic |-> IF k \in chart.sampled THEN k ELSE NoTraffic]
    BY <1>3, <1>4, <2>1, <2>2
  <2>4. QED BY <2>1, <2>3
<1>9. QED BY <1>6, <1>7, <1>8

-----------------------------------------------------------------------------
LEMMA TimelineInit_Inv == TimelineInit => TimelineInv
<1> SUFFICES ASSUME TimelineInit PROVE TimelineInv
  OBVIOUS
<1>1. (CHOOSE z \in Zone : TRUE) \in Zone
  BY TimelineAssumption
<1>2. QED BY <1>1 DEF TimelineInit, NoChart, TimelineInv

LEMMA TimelineStep == TimelineInv /\ [TimelineNext]_chart => TimelineInv'
<1> SUFFICES ASSUME TimelineInv, [TimelineNext]_chart PROVE TimelineInv'
  OBVIOUS
<1>1. ASSUME NEW sampled \in Sampled, NEW zone \in Zone, NEW drawn \in Instant, OpenHistory(zone, drawn, sampled)
      PROVE  TimelineInv'
  <2>1. drawn \in Nat /\ drawn >= 2 * Day /\ sampled \in SUBSET Nat
    BY TimelineAssumption
  <2>2. QED BY <1>1, <2>1 DEF OpenHistory, TimelineInv
<1>2. ASSUME NEW sampled \in Sampled, NEW range \in {"hourly", "daily"}, ChooseRange(range, sampled)
      PROVE  TimelineInv'
  <2>1. sampled \in SUBSET Nat
    BY TimelineAssumption
  <2>2. QED BY <1>2, <2>1 DEF ChooseRange, TimelineInv
<1>3. CASE CloseHistory
  <2>1. (CHOOSE z \in Zone : TRUE) \in Zone
    BY TimelineAssumption
  <2>2. QED BY <1>3, <2>1 DEF CloseHistory, NoChart, TimelineInv
<1>4. CASE UNCHANGED chart
  BY <1>4 DEF TimelineInv
<1>5. QED BY <1>1, <1>2, <1>3, <1>4 DEF TimelineNext

\* The chart shows every sample of the hours or the days it stands for in the slot
\* that is theirs, and nothing else (buildTimeline, shiftZonedDay), in every zone whose days
\* begin where the server's do and that is ahead, or behind, on all of the days; and the
\* hours of any zone.
THEOREM ChartShowsTheSamples == TimelineSpec => []TimelineShows
<1>1. TimelineInv => TimelineShows
  BY ShowsFact
<1>2. QED BY TimelineInit_Inv, TimelineStep, <1>1, PTL DEF TimelineSpec
=============================================================================
