-------------------------------- MODULE Popups --------------------------------
(***************************************************************************)
(* The two popups of a settings form, a list to select from (ElegantSelect *)
(* in App.tsx) and a time picker (TimePicker.tsx), as they are used with   *)
(* keyboard and mouse, and the focus they pass around.                     *)
(*                                                                         *)
(* The focus that is moved in the next animation frame is moved at once.   *)
(* The browser gives it to a button that the pointer presses, and to no    *)
(* element (Nowhere) if it presses one that takes none, as most browsers   *)
(* do it.  The pointer cannot reach what the picker covers, the keyboard   *)
(* can.  Positions, scrolling and the look are left out.                   *)
(***************************************************************************)
EXTENDS Ordered, SequencesExt

CONSTANTS
  Hours, Minutes,   \* the numbers of hours and minutes, 24 and 60
  PageStep,         \* how far Page Up and Page Down go, 5
  Options,          \* the options of the list, a sequence
  Text,             \* what one can type into its search field
  Matches,          \* Matches[x]: the options that the text x finds
  NoText, NoTime    \* an empty search; a time that is not one

ASSUME PopupAssumption ==
  /\ Hours \in Nat \ {0} /\ Minutes \in Nat \ {0} /\ PageStep \in Nat
  /\ Options \in Seq(ToSet(Options)) /\ IsInjective(Options)
  /\ NoText \in Text /\ Matches[NoText] = ToSet(Options)

VARIABLES
  list,     \* the list: searchable, open, its search, the highlighted index, the value
  picker,   \* the picker: open, its draft, the value
  focus,    \* the element that has the focus
  missed    \* a press that missed the controls has put the focus out of place

popupVars == <<list, picker, focus, missed>>

Clock == [hour : 0..(Hours - 1), minute : 0..(Minutes - 1)]
ZeroTime == [hour |-> 0, minute |-> 0]

Nowhere == <<"nowhere", 0>>        \* the body of the page
Elsewhere == <<"elsewhere", 0>>    \* another control of the page
ListBox == <<"list", 0>>           \* the list's button, or its search field
ListOption == <<"option", 0>>      \* one of its options
Trigger == <<"trigger", 0>>        \* the picker's button
HourButton(h) == <<"hour", h>>
MinuteButton(m) == <<"minute", m>>
CloseButton == <<"close", 0>>
CancelButton == <<"cancel", 0>>
ConfirmButton == <<"confirm", 0>>

\* The buttons of the picker, and those that Tab stops at, in order.
Panel == {CloseButton, CancelButton, ConfirmButton}
           \union {HourButton(h) : h \in 0..(Hours - 1)} \union {MinuteButton(m) : m \in 0..(Minutes - 1)}
Stops == <<CloseButton, HourButton(picker.draft.hour), MinuteButton(picker.draft.minute),
           CancelButton, ConfirmButton>>

PopupInit ==
  /\ \E searchable \in BOOLEAN, o \in ToSet(Options) :
       list = [searchable |-> searchable, open |-> FALSE, search |-> NoText, active |-> 1, value |-> o]
  /\ \E time \in {NoTime, ZeroTime} : picker = [open |-> FALSE, draft |-> ZeroTime, value |-> time]
  /\ focus = Elsewhere /\ missed = FALSE

-----------------------------------------------------------------------------
(* The list.                                                               *)

Filtered == Chosen(Options, {p \in DOMAIN Options : Options[p] \in Matches[list.search]})

ClosedList == [list EXCEPT !.open = FALSE, !.search = NoText]

\* A click, or a key, which also reaches it behind the picker.
OpenList ==
  /\ ~list.open /\ (~picker.open \/ focus = ListBox)
  /\ list' = [list EXCEPT !.open = TRUE, !.search = NoText,
                !.active = CHOOSE j \in DOMAIN Options : Options[j] = list.value]
  /\ focus' = ListBox
  /\ UNCHANGED picker

\* Escape, which the picker takes first, or the button again; the search field has no such button.
CloseList ==
  /\ list.open
  /\ \/ ~picker.open /\ focus = ListBox
     \/ ~list.searchable /\ (~picker.open \/ focus = ListBox)
  /\ list' = ClosedList /\ focus' = ListBox /\ UNCHANGED picker

\* Tab, or a press of the pointer anywhere else.
LeaveList ==
  /\ list.open /\ (focus = ListBox \/ ~picker.open)
  /\ list' = ClosedList /\ focus' = Elsewhere /\ UNCHANGED picker

\* A click on the search field.
FocusSearch == list.open /\ list.searchable /\ ~picker.open /\ focus' = ListBox /\ UNCHANGED <<list, picker>>

\* Faulty: the highlight stays.
TypeKeepsHighlight(x) ==
  /\ list.open /\ list.searchable /\ focus = ListBox
  /\ list' = [list EXCEPT !.search = x]
  /\ UNCHANGED <<picker, focus>>

Type(x) ==
  /\ list.open /\ list.searchable /\ focus = ListBox
  /\ list' = [list EXCEPT !.search = x, !.active = 1]
  /\ UNCHANGED <<picker, focus>>

\* The arrows go round; the pointer highlights what it moves over.
Highlight(j) == list.open /\ list' = [list EXCEPT !.active = j] /\ UNCHANGED <<picker, focus>>

ArrowInList(d) ==
  /\ focus = ListBox /\ Filtered # <<>>
  /\ Highlight(((list.active - 1 + d + Len(Filtered)) % Len(Filtered)) + 1)
PointAt(j) == ~picker.open /\ Highlight(j)

Choose(j) ==
  /\ list' = [ClosedList EXCEPT !.value = Filtered[j]]
  /\ focus' = ListBox
  /\ UNCHANGED picker

\* Enter chooses the option that is highlighted.
EnterOption == list.open /\ focus = ListBox /\ list.active \in DOMAIN Filtered /\ Choose(list.active)

\* A click chooses its option, and so does a key that is pressed on one.
ChooseOption(j) == list.open /\ (~picker.open \/ focus = ListOption) /\ Choose(j)

(***************************************************************************)
(* A press of the search's icon, the empty message or a gap between the    *)
(* options, or one of an option that is released elsewhere: the list stays *)
(* open, but its keys are no longer heard.                                 *)
(***************************************************************************)
MissList ==
  /\ list.open /\ ~picker.open
  /\ focus' \in {Nowhere, ListOption} /\ (focus' = ListOption => Filtered # <<>>)
  /\ UNCHANGED <<list, picker>>

-----------------------------------------------------------------------------
(* The picker.                                                             *)

\* A press of the pointer outside the list closes it, a key does not.
Pressed == list' = ClosedList
Keyed(button) == focus = button /\ UNCHANGED list

\* A key that reaches its button while it is open resets the draft alone.
OpenPicker ==
  /\ (~picker.open /\ Pressed) \/ Keyed(Trigger)
  /\ LET draft == IF picker.value = NoTime THEN ZeroTime ELSE picker.value
     IN /\ picker' = [picker EXCEPT !.open = TRUE, !.draft = draft]
        /\ focus' = IF picker.open THEN Trigger ELSE HourButton(draft.hour)

\* Escape, wherever the focus is, the scrim, the close and the cancel button.
Dismiss ==
  /\ picker.open /\ (Pressed \/ UNCHANGED list)
  /\ picker' = [picker EXCEPT !.open = FALSE] /\ focus' = Trigger

SaveTime ==
  /\ picker.open /\ (Pressed \/ Keyed(ConfirmButton))
  /\ picker' = [picker EXCEPT !.open = FALSE, !.value = picker.draft]
  /\ focus' = Trigger

\* selectPart, by a click or by a key, which move the focus along.
SelectHour(h) == picker' = [picker EXCEPT !.draft.hour = h] /\ focus' = HourButton(h)
SelectMinute(m) == picker' = [picker EXCEPT !.draft.minute = m] /\ focus' = MinuteButton(m)

ClickHour(h) == picker.open /\ (Pressed \/ Keyed(HourButton(h))) /\ SelectHour(h)
ClickMinute(m) == picker.open /\ (Pressed \/ Keyed(MinuteButton(m))) /\ SelectMinute(m)

\* Where the keys Arrow, Page, Home and End lead from one of n options.
Reached(current, n) ==
  {(current + 1) % n, (current - 1 + n) % n, 0, n - 1,
   IF current + PageStep < n THEN current + PageStep ELSE n - 1,
   IF current > PageStep THEN current - PageStep ELSE 0}

Key(part) == picker.open /\ focus[1] = part

StepHour == Key("hour") /\ (\E h \in Reached(focus[2], Hours) : SelectHour(h)) /\ UNCHANGED list
StepMinute == Key("minute") /\ (\E m \in Reached(focus[2], Minutes) : SelectMinute(m)) /\ UNCHANGED list

\* Arrow Left and Right.
ToMinutes == Key("hour") /\ focus' = MinuteButton(picker.draft.minute) /\ UNCHANGED <<list, picker>>
ToHours == Key("minute") /\ focus' = HourButton(picker.draft.hour) /\ UNCHANGED <<list, picker>>

\* The place of a button in the panel.
Place(button) ==
  CASE button[1] = "close" -> 0
    [] button[1] = "hour" -> 1 + button[2]
    [] button[1] = "minute" -> 1 + Hours + button[2]
    [] button[1] = "cancel" -> 1 + Hours + Minutes
    [] OTHER -> 2 + Hours + Minutes

\* From a button of the panel Tab goes to the next stop, and from the last one round to the first.
Tab(d) ==
  /\ picker.open /\ focus \in Panel
  /\ LET ahead == {stop \in ToSet(Stops) : d * Place(stop) > d * Place(focus)}
         stops == IF ahead = {} THEN ToSet(Stops) ELSE ahead
     IN \E stop \in stops : focus' = stop /\ \A other \in stops : d * Place(stop) <= d * Place(other)
  /\ UNCHANGED <<list, picker>>

\* A button of the picker is pressed, and released elsewhere.
PressButton(button) == picker.open /\ Pressed /\ focus' = button /\ UNCHANGED picker

(***************************************************************************)
(* A press of the header, the time shown, a heading or a gap: the picker   *)
(* stays open, but Tab is no longer heard.  Escape is, by the document.    *)
(***************************************************************************)
MissPicker == picker.open /\ Pressed /\ focus' = Nowhere /\ UNCHANGED picker

-----------------------------------------------------------------------------
(* The rest of the form.                                                   *)

\* Something else of the form is clicked; the picker covers it.
FocusElsewhere ==
  /\ ~list.open /\ ~picker.open
  /\ focus' = Elsewhere
  /\ UNCHANGED <<list, picker>>

\* A Tab that neither popup hears goes where the page's order leads, which may be into either.
TabOnPage ==
  /\ focus \in {Nowhere, Elsewhere, ListOption, Trigger} \/ (focus = ListBox /\ ~list.open)
  /\ focus' \in {Elsewhere, ListBox, Trigger} \union (IF list.open THEN {ListOption} ELSE {})
                  \union (IF picker.open THEN ToSet(Stops) ELSE {})
  /\ UNCHANGED <<list, picker>>

\* One popup at most, and the focus is where its keys are heard.
InPlace ==
  /\ ~(list.open /\ picker.open)
  /\ list.open => focus = ListBox
  /\ picker.open => focus \in Panel

ListStep ==
  \/ OpenList \/ CloseList \/ LeaveList \/ FocusSearch \/ EnterOption
  \/ \E x \in Text : Type(x)
  \/ \E d \in {-1, 1} : ArrowInList(d)
  \/ \E j \in DOMAIN Filtered : PointAt(j) \/ ChooseOption(j)

PickerStep ==
  \/ OpenPicker \/ Dismiss \/ SaveTime
  \/ \E h \in 0..(Hours - 1) : ClickHour(h)
  \/ \E m \in 0..(Minutes - 1) : ClickMinute(m)
  \/ StepHour \/ StepMinute \/ ToMinutes \/ ToHours
  \/ \E d \in {-1, 1} : Tab(d)
  \/ \E button \in Panel : PressButton(button)

PopupNext ==
  \/ /\ ListStep \/ PickerStep \/ FocusElsewhere \/ TabOnPage
     /\ missed' = (missed /\ ~InPlace')
  \/ (MissList \/ MissPicker) /\ missed' = TRUE

PopupSpec == PopupInit /\ [][PopupNext]_popupVars

-----------------------------------------------------------------------------
(***************************************************************************)
(* One popup is open at a time and has the focus, in the picker on one of  *)
(* its buttons, so that the keyboard never gets stuck or out, unless a     *)
(* press has missed the controls of a popup that stays open; until the     *)
(* focus is back, the keys may then go past the popup, and open the other. *)
(* In any case Enter chooses an option that is in view, whatever has been  *)
(* typed, and the values stay an option and a time (handleKeyDown,         *)
(* handleOptionKeyDown, trapTab).                                          *)
(***************************************************************************)
PopupsHold ==
  /\ ~missed => InPlace
  /\ list.open /\ Filtered # <<>> => list.active \in DOMAIN Filtered
  /\ list.value \in ToSet(Options) /\ picker.draft \in Clock /\ picker.value \in Clock \union {NoTime}
=============================================================================
