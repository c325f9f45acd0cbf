--------------------------- MODULE CronSchedule ---------------------------
(***************************************************************************)
(* The moments of a cron expression (internal/scheduler/application/       *)
(* cron.go): Scheduler numbers the moments of a job, this module says      *)
(* which they are and when the search for the next one gives up.  Time is  *)
(* counted in minutes; the calendar is that of the constants, which is     *)
(* that of Go's time package on a smaller scale.  The names of weekdays    *)
(* stand for their numbers.                                                *)
(***************************************************************************)
EXTENDS Integers, Sequences, FiniteSets

CONSTANTS
    MinutesPerHour, HoursPerDay, DaysPerWeek,
    Calendar,      \* the month and the day of the month of each day
    CommonYear,    \* the same of a year without a leap day
    NumMonths, MaxDay,
    SearchedDays   \* 366: how far the search for the next moment goes

ASSUME CalendarAssumption ==
    /\ {MinutesPerHour, HoursPerDay, DaysPerWeek, SearchedDays, NumMonths, MaxDay}
          \subseteq Nat \ {0}
    /\ Calendar \in Seq((1..NumMonths) \X (1..MaxDay))
    /\ CommonYear \in Seq((1..NumMonths) \X (1..MaxDay))

\* As in the calendar of Go's time package: 366 days on end have every day of a
\* common year, and every weekday in each of its months.
ASSUME CalendarCovers ==
    \A first \in 0..(Len(Calendar) - SearchedDays),
       i \in 1..Len(CommonYear), w \in 0..(DaysPerWeek - 1) :
        LET Searched == first..(first + SearchedDays - 1)
        IN  /\ \E d \in Searched : Calendar[d + 1] = CommonYear[i]
            /\ \E d \in Searched : /\ Calendar[d + 1][1] = CommonYear[i][1]
                                   /\ d % DaysPerWeek = w

MinutesPerDay == MinutesPerHour * HoursPerDay

minute(t) == t % MinutesPerHour
hour(t) == (t \div MinutesPerHour) % HoursPerDay
day(t) == t \div MinutesPerDay
month(t) == Calendar[day(t) + 1][1]
dom(t) == Calendar[day(t) + 1][2]
dow(t) == day(t) % DaysPerWeek

----------------------------------------------------------------------------

\* "v", "a-b" and "*", each with a step or without: "v/n" is v alone.
Segments(min, max) == [first: min..max, last: min..max, step: 1..2]

Refused == {}

addCronSegment(seg) == {i \in seg.first..seg.last : (i - seg.first) % seg.step = 0}

\* Segments that are out of order are refused, and the expression with them.
parseCronField(segments) ==
    IF \E seg \in segments : seg.first > seg.last THEN Refused
    ELSE UNION {addCronSegment(seg) : seg \in segments}

\* Bound: a field has up to two segments.
Fields(min, max) ==
    {parseCronField({a, b}) : a, b \in Segments(min, max)} \ {Refused}

parseCronSchedule ==
    [minutes: Fields(0, MinutesPerHour - 1), hours: Fields(0, HoursPerDay - 1),
     doms: Fields(1, MaxDay), months: Fields(1, NumMonths), dows: Fields(0, DaysPerWeek - 1)]

Restricted(field, size) == Cardinality(field) # size

\* Mutant: both the day of the month and the weekday have to match.
BothDays(s, domMatch, dowMatch) == domMatch /\ dowMatch

DayMatches(s, domMatch, dowMatch) ==
    IF Restricted(s.doms, MaxDay) /\ Restricted(s.dows, DaysPerWeek)
    THEN domMatch \/ dowMatch
    ELSE domMatch /\ dowMatch

Matches(s, t) ==
    /\ minute(t) \in s.minutes /\ hour(t) \in s.hours /\ month(t) \in s.months
    /\ DayMatches(s, dom(t) \in s.doms, dow(t) \in s.dows)

NoMoment == -1

\* Minute after minute from the one that follows `from`.
nextCronTimeUTC(s, from) ==
    LET deadline == from + 1 + SearchedDays * MinutesPerDay
        search[t \in (from + 1)..(deadline + 1)] ==
            IF t > deadline THEN NoMoment
            ELSE IF Matches(s, t) THEN t ELSE search[t + 1]
    IN  search[from + 1]

----------------------------------------------------------------------------
(* Properties.                                                             *)

\* The days of crontab: a restricted field of the two decides, either of them
\* if both are restricted.
Named(s, d, w) ==
    \/ s.doms # 1..MaxDay /\ d \in s.doms
    \/ s.dows # 0..(DaysPerWeek - 1) /\ w \in s.dows
    \/ s.doms = 1..MaxDay /\ s.dows = 0..(DaysPerWeek - 1)

MomentsOf(s, T) ==
    {t \in T : /\ month(t) \in s.months /\ Named(s, dom(t), dow(t))
               /\ hour(t) \in s.hours /\ minute(t) \in s.minutes}

\* A moment every common year has, whatever weekday it starts on.
YearAfterYear(s) ==
    \E i \in 1..Len(CommonYear) :
        /\ CommonYear[i][1] \in s.months
        /\ \E w \in 0..(DaysPerWeek - 1) : Named(s, CommonYear[i][2], w)

\* What the engine comes to in n steps: each search starts at the moment the
\* last one found.
Reached(s, from, n) ==
    LET reach[k \in 0..n] ==
            IF k = 0 THEN from
            ELSE IF reach[k - 1] = NoMoment THEN NoMoment
            ELSE nextCronTimeUTC(s, reach[k - 1])
    IN  reach[n]

\* The n searches from a time find the n moments that come after it: none is
\* skipped and none named twice.
NoneSkipped(s, from, n) ==
    LET t == Reached(s, from, n)
    IN  t # NoMoment => /\ n > 0 => t \in MomentsOf(s, {t})
                        /\ Cardinality(MomentsOf(s, (from + 1)..t)) = n

\* The last minute from which n searches stay in the calendar.
LastStart(n) == (Len(Calendar) - n * (SearchedDays + 1)) * MinutesPerDay - 1

\* So from every time of which the next n searches stay in the calendar; and
\* they give up only on a schedule of days that not every year has.
GoesOn(n) ==
    \A s \in parseCronSchedule, from \in 0..LastStart(n) :
        /\ NoneSkipped(s, from, n)
        /\ Reached(s, from, n) = NoMoment => ~YearAfterYear(s)
=============================================================================
