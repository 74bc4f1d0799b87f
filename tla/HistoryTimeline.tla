---------------------------- MODULE HistoryTimeline ----------------------------
(***************************************************************************)
(* The history of an account's traffic as the console draws it             *)
(* (HistoryModal in App.tsx, HistoryChart.tsx): samples of hours or days,  *)
(* put into a row of slots that ends with the current one.  A day is one   *)
(* of the configured time zone.                                            *)
(*                                                                         *)
(* A time is a number of half hours; a zone says how far its clock is      *)
(* ahead, before and after one change of it.  The server has one sample of *)
(* every hour and of every day in which the account was read, at the       *)
(* beginning of it (AddTrafficStats).                                      *)
(***************************************************************************)
EXTENDS Integers, Sequences, FiniteSets, FiniteSetsExt, SequencesExt

CONSTANTS
  Zone,         \* the zones: records before, after, change
  Instant,      \* the times at which the chart is drawn
  Sampled,      \* sets of days or hours in which the account was read; 0 is the current one, 1 the one before
  HourSlots,    \* 25
  DaySlots      \* 31

Hour == 2
Day == 24 * Hour
Noon == Day \div 2

\* Clocks are at most 12 hours behind UTC, less than a day ahead, and never changed by a day;
\* a chart is drawn after the second day of 1970.
ASSUME TimelineAssumption ==
  /\ HourSlots \in Nat \ {0} /\ DaySlots \in Nat \ {0, 1}
  /\ Sampled \subseteq SUBSET Nat
  /\ Instant \subseteq {t \in Nat : t >= 2 * Day}
  /\ Zone # {} /\ Zone \subseteq [before : -Noon..(Day - 1), after : -Noon..(Day - 1), change : Int]
  /\ \A zone \in Zone : zone.after - zone.before \in (1 - Day)..(Day - 1)

VARIABLE
  chart     \* open, the answered samples, the range, and when and where it is drawn

NoChart == [open |-> FALSE, range |-> "hourly", now |-> 0, zone |-> CHOOSE z \in Zone : TRUE, sampled |-> {}]

TimelineInit == chart = NoChart

Offset(zone, t) == IF t < zone.change THEN zone.before ELSE zone.after

\* zonedParts
DayOf(zone, t) == (t + Offset(zone, t)) \div Day

\* zonedInstant, at the beginning of day d: the offset is that of midnight UTC.
InstantOfDay(zone, d) == Day * d - Offset(zone, Day * d)

StartOfZonedDay(zone, t) == InstantOfDay(zone, DayOf(zone, t))

\* Faulty: a day has 24 hours.
ShiftByHours(zone, t, days) == t + Day * days

\* By way of noon UTC.
ShiftZonedDay(zone, t, days) == StartOfZonedDay(zone, Day * (DayOf(zone, t) + days) + Noon)

StartOfUtcHour(t) == Hour * (t \div Hour)

(***************************************************************************)
(* The beginning of day d for the server's samples, time.Date(..., 0, 0,   *)
(* 0, 0): the offset is that of the instant which midnight is with the     *)
(* offset of midnight UTC.  A midnight that the clock skips is moved: east *)
(* of UTC to the first instant of the day, west of it to 23:00 of the day  *)
(* before.                                                                 *)
(***************************************************************************)
Midnight(zone, d) == Day * d - Offset(zone, Day * d - Offset(zone, Day * d))

Points(range, zone, now, sampled) ==
  {[at |-> IF range = "hourly" THEN StartOfUtcHour(now) - Hour * k ELSE Midnight(zone, DayOf(zone, now) - k),
    traffic |-> k] : k \in sampled}

SlotOf(range, zone, t) == IF range = "hourly" THEN StartOfUtcHour(t) ELSE StartOfZonedDay(zone, t)

(***************************************************************************)
(* The slots of the chart, the last of them the current one or the latest  *)
(* sample's, each with the traffic of its last sample.                     *)
(***************************************************************************)
NoTraffic == -1

BuildTimeline(points, range, zone, now) ==
  LET count == IF range = "hourly" THEN HourSlots ELSE DaySlots
      latest == Max({p.at : p \in points} \union {0})
      end == Max({SlotOf(range, zone, now), SlotOf(range, zone, latest)})
      At(i) == IF range = "hourly" THEN end - (count - i) * Hour ELSE ShiftZonedDay(zone, end, i - count)
      In(at) == {p \in points : SlotOf(range, zone, p.at) = at}
      Traffic(at) == IF In(at) = {} THEN NoTraffic
                     ELSE (CHOOSE p \in In(at) : \A q \in In(at) : q.at <= p.at).traffic
  IN [i \in 1..count |-> [at |-> At(i), traffic |-> Traffic(At(i))]]

\* The modal opens with the hours of the server's answer; its days are the other range.
OpenHistory(zone, now, sampled) ==
  /\ ~chart.open
  /\ chart' = [open |-> TRUE, range |-> "hourly", now |-> now, zone |-> zone, sampled |-> sampled]

ChooseRange(range, sampled) ==
  /\ chart.open /\ range # chart.range
  /\ chart' = [chart EXCEPT !.range = range, !.sampled = sampled]

CloseHistory == chart.open /\ chart' = NoChart

TimelineNext ==
  \/ \E sampled \in Sampled :
       \/ \E zone \in Zone, now \in Instant : OpenHistory(zone, now, sampled)
       \/ \E range \in {"hourly", "daily"} : ChooseRange(range, sampled)
  \/ CloseHistory

TimelineSpec == TimelineInit /\ [][TimelineNext]_chart

-----------------------------------------------------------------------------
(* A change of the clock between the beginning of a day and midnight UTC   *)
(* of the same date, as in Sydney and Auckland in spring, makes the        *)
(* console's day begin an hour before the server's; one at midnight west   *)
(* of UTC, as in Santiago and Havana in spring, an hour after it.          *)
Charted(zone) == (DayOf(zone, chart.now) - DaySlots)..(DayOf(zone, chart.now) + 1)

Regular(zone) == \A d \in Charted(zone) : InstantOfDay(zone, d) = Midnight(zone, d)

\* From 12 hours ahead on, noon UTC is on the next day, and the slots end with tomorrow's.
Ahead(zone) == \A d \in Charted(zone) : Offset(zone, Day * d + Noon) >= Noon

Behind(zone) == \A d \in Charted(zone) : Offset(zone, Day * d + Noon) < Noon

(***************************************************************************)
(* The chart shows every sample of the last 25 hours, and of the last 31   *)
(* days, in the slot that begins when the hour or the day does, and in no  *)
(* other, in order, with none missing in between, whatever the offset of   *)
(* the zone and also in the week in which its clock changes                *)
(* (buildTimeline, shiftZonedDay).  Three kinds of zones are excepted: see *)
(* Regular; Ahead, where the oldest day is missing; and those that are     *)
(* ahead on some of the days, where the day of the change is missing or    *)
(* there twice.                                                            *)
(***************************************************************************)
TimelineShows ==
  chart.open =>
    LET points == Points(chart.range, chart.zone, chart.now, chart.sampled)
        line == BuildTimeline(points, chart.range, chart.zone, chart.now)
        last == IF chart.range = "daily" /\ Ahead(chart.zone) THEN Len(line) - 1 ELSE Len(line)
    IN (chart.range = "hourly" \/ (Regular(chart.zone) /\ (Ahead(chart.zone) \/ Behind(chart.zone)))) =>
       /\ \A i \in 2..Len(line) : line[i - 1].at < line[i].at
       /\ \A i \in 1..last :
            IF last - i \in chart.sampled
            THEN \E p \in points : p.traffic = last - i /\ line[i] = p
            ELSE line[i].traffic = NoTraffic
       /\ \A i \in (last + 1)..Len(line) : line[i].traffic = NoTraffic
=============================================================================
