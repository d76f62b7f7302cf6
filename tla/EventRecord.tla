----------------------------- MODULE EventRecord -----------------------------
(***************************************************************************)
(* What the calendar conduit makes of an event for the PDA, and of an       *)
(* appointment for evolution-data-server                                    *)
(* (conduits/evolution-data-server/calendar-conduit.c).                      *)
(*                                                                         *)
(* Times are times of the user's time zone: conversions between zones are   *)
(* left out, and dates are numbers.                                         *)
(***************************************************************************)
EXTENDS RecordTexts, Integers, Sequences, SequencesExt, FiniteSetsExt

WeekDays == 0 .. 6
MaxAdvance == 99          \* PILOT_MAX_ADVANCE
DomLastSun == 28          \* enum DayOfMonthType of pilot-link

(* A rule says how often an event recurs and until when; an event that does *)
(* not recur has NoRule.  A count is given by the day it leads to.          *)
NoRule == [freq |-> "none", days |-> {}, pos |-> 0, mday |-> 0, weekStart |-> 1,
           ends |-> "never", last |-> 0]

(* A duration before the start; an alarm of another kind, or after the      *)
(* start, is no matter for the PDA.                                         *)
Minutes(m) == [kind |-> "before", minutes |-> m, hours |-> 0, days |-> 0]
Hours(h) == [kind |-> "before", minutes |-> 0, hours |-> h, days |-> 0]
ForDays(d) == [kind |-> "before", minutes |-> 0, hours |-> 0, days |-> d]
AtStart == [kind |-> "at start", minutes |-> 0, hours |-> 0, days |-> 0]
OtherAlarm == [kind |-> "other", minutes |-> 0, hours |-> 0, days |-> 0]
Length(a) == a.minutes + 60 * (a.hours + 24 * a.days)

PlainEvent == [summary |-> "a", note |-> "none", start |-> 1, span |-> "hours",
               rule |-> NoRule, exdates |-> <<>>, alarms |-> <<>>, class |-> "public"]

PlainAppointment == [summary |-> "a", note |-> "none", begin |-> 1, event |-> FALSE,
                     repeat |-> "none", days |-> {}, day |-> 0, weekStart |-> 0,
                     forever |-> FALSE, end |-> 0, exceptions |-> <<>>,
                     alarm |-> FALSE, advance |-> 0, units |-> "minutes", secret |-> FALSE]

Classes == {"public", "private", "confidential"}
Units == {"minutes", "hours", "days"}
Alarms == [kind: {"before", "at start", "other"}, minutes: Nat, hours: Nat, days: Nat]

(* A rule by the day of the week in a month names one day.                  *)
Rules ==
  {r \in [freq: {"none", "hourly", "daily", "weekly", "monthly", "yearly"}, days: SUBSET WeekDays,
          pos: Int, mday: Nat, weekStart: WeekDays, ends: {"never", "until", "count"}, last: Nat] :
     r.freq = "monthly" /\ r.mday = 0 => \E d \in WeekDays : r.days = {d}}

Events ==
  [summary: Texts, note: Texts, start: Nat \ {0}, span: {"hours", "day", "dates", "open"},
   rule: Rules, exdates: Seq(Nat), alarms: Seq(Alarms), class: Classes]

(* What an appointment says of its repetition, where it has a meaning.      *)
ProperRepeat(a) ==
  /\ a.repeat # "weekly" => a.days = {}
  /\ a.repeat # "monthly by day" => a.day = 0
  /\ a.forever => a.end = 0

Appointments ==
  {a \in [summary: Texts, note: Texts, begin: Nat \ {0}, event: BOOLEAN,
          repeat: {"none", "daily", "weekly", "monthly by day", "monthly by date", "yearly"},
          days: SUBSET WeekDays, day: 0 .. DomLastSun + 6, weekStart: WeekDays,
          forever: BOOLEAN, end: Nat, exceptions: Seq(Nat),
          alarm: BOOLEAN, advance: Nat, units: Units, secret: BOOLEAN] : ProperRepeat(a)}

---------------------------------------------------------------------------
(* An event for the PDA (local_record_from_comp).                           *)

(* dom1stSun ... domLastSun + day of the week; any other position, and none,*)
(* leaves the day of the week alone.                                        *)
RepeatDayOff(rule) == 7 * rule.pos + CHOOSE d \in rule.days : TRUE
RepeatDay(rule) ==
  LET weekDay == CHOOSE d \in rule.days : TRUE
  IN CASE rule.pos \in 1 .. 4 -> 7 * (rule.pos - 1) + weekDay
       [] rule.pos \in {-1, 5} -> DomLastSun + weekDay
       [] OTHER -> weekDay

Repeat(rule) ==
  IF rule.freq \in {"daily", "weekly", "yearly"} THEN rule.freq
  ELSE IF rule.freq # "monthly" THEN "none"
  ELSE IF rule.mday # 0 THEN "monthly by date" ELSE "monthly by day"

(* A rule the PDA does not know counts for nothing but its end.             *)
WithRule(appt, rule) ==
  [appt EXCEPT
    !.repeat = Repeat(rule),
    !.days = IF rule.freq = "weekly" THEN rule.days ELSE {},
    !.day = IF Repeat(rule) = "monthly by day" THEN RepeatDay(rule) ELSE 0,
    !.weekStart = 0,
    !.forever = rule.freq # "none" /\ rule.ends = "never",
    !.end = IF rule.ends = "never" THEN 0 ELSE rule.last]

(* The first alarm that comes before the start, or at it.  What does not    *)
(* fit into minutes is given in hours, and then in days, rounded down.      *)
Remindable(alarms) == {k \in DOMAIN alarms : alarms[k].kind # "other"}
InHours(a) == a.minutes \div 60 + a.hours + 24 * a.days
InDays(a) == a.minutes \div (60 * 24) + a.hours \div 24 + a.days

WithAlarm(appt, alarms) ==
  IF Remindable(alarms) = {} THEN [appt EXCEPT !.alarm = FALSE]
  ELSE LET a == alarms[Min(Remindable(alarms))]
           advance == IF Length(a) <= MaxAdvance THEN <<Length(a), "minutes">>
                      ELSE IF InHours(a) <= MaxAdvance THEN <<InHours(a), "hours">>
                      ELSE IF InDays(a) <= MaxAdvance THEN <<InDays(a), "days">>
                      ELSE <<MaxAdvance, "days">>
       IN [appt EXCEPT !.alarm = TRUE, !.advance = advance[1], !.units = advance[2]]

(* A record the PDA already has keeps what it says of the alarm's time.     *)
Basis(old) ==
  [PlainAppointment EXCEPT !.advance = old.advance, !.units = old.units]

ToAppointment(comp, old) ==
  WithAlarm(WithRule(
    [Basis(old) EXCEPT
      !.summary = comp.summary, !.note = comp.note,
      !.begin = comp.start,
      !.event = comp.span # "hours",
      !.exceptions = comp.exdates,
      !.secret = comp.class = "private"], comp.rule), comp.alarms)

---------------------------------------------------------------------------
(* An appointment for the desktop (comp_from_remote_record): a new event, or*)
(* a copy of the one there is.                                              *)

UntilTheDayBefore(appt) == IF appt.forever THEN 0 ELSE appt.end - 1
Until(appt) == IF appt.forever THEN 0 ELSE appt.end

(* libical takes the week to begin on Monday if nobody says otherwise.      *)
FromRepeat(appt) ==
  IF appt.repeat = "none" THEN NoRule
  ELSE [freq |-> IF appt.repeat \in {"monthly by date", "monthly by day"} THEN "monthly"
                 ELSE appt.repeat,
        days |-> CASE appt.repeat = "weekly" -> appt.days
                   [] appt.repeat = "monthly by day" -> {appt.day % 7}
                   [] OTHER -> {},
        pos |-> IF appt.repeat # "monthly by day" THEN 0
                ELSE IF appt.day < DomLastSun THEN appt.day \div 7 + 1 ELSE -1,
        mday |-> IF appt.repeat = "monthly by date" THEN appt.begin ELSE 0,
        weekStart |-> appt.weekStart,
        ends |-> IF appt.forever THEN "never" ELSE "until",
        last |-> Until(appt)]

(* rrules_mostly_equal: a rule that ends by a count keeps it if it differs  *)
(* in nothing else and ends on the same day.                                *)
MostlyEqual(a, b) == [a EXCEPT !.ends = b.ends, !.last = b.last] = b

NewRule(appt, in) ==
  LET rule == FromRepeat(appt)
  IN IF rule.ends = "until" /\ in.ends = "count" /\ MostlyEqual(rule, in) /\ rule.last = in.last
     THEN in ELSE rule

AlarmOf(appt) ==
  CASE appt.units = "minutes" -> Minutes(appt.advance)
    [] appt.units = "hours" -> Hours(appt.advance)
    [] appt.units = "days" -> ForDays(appt.advance)

(* evolution-data-server hands out a copy of an alarm: setting its time     *)
(* leaves the event as it is.                                               *)
NewAlarms(appt, alarms) ==
  IF appt.alarm /\ \A i \in DOMAIN alarms : alarms[i].kind # "before"
  THEN Append(alarms, AlarmOf(appt)) ELSE alarms

(* A day without times begins and ends on the same date.                    *)
FromAppointment(appt, comp) ==
  [comp EXCEPT
    !.summary = appt.summary, !.note = appt.note,
    !.start = appt.begin,
    !.span = IF appt.event THEN "dates" ELSE "hours",
    !.rule = NewRule(appt, comp.rule),
    !.exdates = Reverse(appt.exceptions),
    !.alarms = NewAlarms(appt, comp.alarms),
    !.class = IF appt.secret THEN "private" ELSE "public"]
=============================================================================
