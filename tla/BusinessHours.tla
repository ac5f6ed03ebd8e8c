--------------------------- MODULE BusinessHours ---------------------------
(***************************************************************************)
(* Business hours: how windows are stored and read back (the repository in *)
(* internal/repository/postgres) and when a campaign may be dialled        *)
(* (isWithinBusinessHours in internal/scheduler).  Time is a minute of the *)
(* week, counted from Sunday 00:00.  The lengths of hour, day and week are *)
(* parameters so that TLC can go through a whole week.                     *)
(***************************************************************************)
EXTENDS Integers

CONSTANTS
  DaysPerWeek,
  HoursPerDay,
  MinutesPerHour

ASSUME CalendarAssumption ==
  /\ DaysPerWeek \in Nat \ {0}
  /\ HoursPerDay \in Nat \ {0}
  /\ MinutesPerHour \in Nat \ {0}

DayLength == HoursPerDay * MinutesPerHour
WeekLength == DaysPerWeek * DayLength
Minutes == 0 .. WeekLength - 1

TimesOfDay == [hour : 0 .. HoursPerDay - 1, minute : 0 .. MinutesPerHour - 1]
Windows == [day : 0 .. DaysPerWeek - 1, start : TimesOfDay, end : TimesOfDay]

\* Replace stores minutes of the day; List makes times of them, on the first of January.
MinuteOfDay(t) == t.hour * MinutesPerHour + t.minute
MinuteToTime(min) ==
  [hour |-> (min \div MinutesPerHour) % HoursPerDay, minute |-> min % MinutesPerHour]

StoredWindow(w) ==
  [day |-> w.day, startMinute |-> MinuteOfDay(w.start), endMinute |-> MinuteOfDay(w.end)]
ListedWindow(r) ==
  [day |-> r.day, start |-> MinuteToTime(r.startMinute), end |-> MinuteToTime(r.endMinute)]

\* The CHECK constraint of the table: a window that spans midnight is never stored.
StorableWindow(w) == MinuteOfDay(w.start) < MinuteOfDay(w.end)

\* A time in a zone that is offset minutes ahead of UTC.
LocalTime(nowUTC, offset) == (nowUTC + offset) % WeekLength

\* Altered form: the part of a window after midnight is looked for on its own day.
InWindowSameDay(w, local) ==
  LET start   == MinuteOfDay(w.start)
      end     == MinuteOfDay(w.end)
      minute  == local % DayLength
  IN  /\ w.day = local \div DayLength
      /\ IF end <= start THEN minute >= start \/ minute < end
         ELSE start <= minute /\ minute < end

InWindow(w, local) ==
  LET start   == MinuteOfDay(w.start)
      end     == MinuteOfDay(w.end)
      weekday == local \div DayLength
      minute  == local % DayLength
  IN  IF end <= start
      THEN \/ w.day = weekday /\ minute >= start
           \/ (w.day + 1) % DaysPerWeek = weekday /\ minute < end
      ELSE w.day = weekday /\ start <= minute /\ minute < end

\* zone is the offset of the campaign's time zone, or empty when it cannot be loaded.
IsWithinBusinessHours(nowUTC, hours, zone) ==
  hours # {} => \A offset \in zone : \E w \in hours : InWindow(w, LocalTime(nowUTC, offset))

-----------------------------------------------------------------------------
(* What is meant: a window opens once a week and stays open for its length *)

Opening(w) == w.day * DayLength + MinuteOfDay(w.start)

WindowLength(w) ==
  LET length == (MinuteOfDay(w.end) - MinuteOfDay(w.start)) % DayLength
  IN  IF length = 0 THEN DayLength ELSE length

Covers(w, local) == (local - Opening(w)) % WeekLength < WindowLength(w)
=============================================================================
