-------------------------------- MODULE LibTime --------------------------------
(***************************************************************************)
(* Points in time and the calendar (LibTime, TimeUtil): a number of        *)
(* microseconds since 1970 and its parts in the zone of the server.  The   *)
(* zone does not change and has no summer time.                            *)
(***************************************************************************)
EXTENDS TimeSlice, SequencesExt

CONSTANTS
    TimeZone,           \* seconds that the local time is behind UTC; east is negative
    FirstDay, LastDay   \* bounds: the days since 1970 on which the calendar is asked

ASSUME ZoneAssumption == TimeZone \in Int
ASSUME DaysAssumption == FirstDay \in Nat /\ LastDay \in Nat

VARIABLE today    \* days since 1970, once the calendar is asked

NoDay == -1

-----------------------------------------------------------------------------
(* The calendar (TimeUtil, and localtime and mktime of the C library). *)

IsLeapYear(year) == (year % 4 = 0 /\ year % 100 # 0) \/ year % 400 = 0

GetMonthMaxDays(year, month) ==
    CASE month = 2 -> IF IsLeapYear(year) THEN 29 ELSE 28
      [] month \in {1, 3, 5, 7, 8, 10, 12} -> 31
      [] month \in {4, 6, 9, 11} -> 30
      [] OTHER -> -1

LeapDays(year) == (year - 1) \div 4 - (year - 1) \div 100 + (year - 1) \div 400

\* Days from the first of January 1970 to the first of a month.
DaysBefore(year, month) ==
    LET before[m \in 1..12] ==
            IF m = 1 THEN 0 ELSE before[m - 1] + GetMonthMaxDays(year, m - 1)
    IN  365 * (year - 1970) + LeapDays(year) - LeapDays(1970) + before[month]

\* The parts of a number of seconds since 1970 in local time.
Tm(seconds) ==
    LET local == seconds - TimeZone
        days == local \div SecondPerDay
        first == CHOOSE m \in ((1969 + days \div 366)..(1971 + days \div 365)) \X (1..12) :
                    /\ DaysBefore(m[1], m[2]) <= days
                    /\ days < DaysBefore(m[1], m[2]) + GetMonthMaxDays(m[1], m[2])
    IN  [year |-> first[1], month |-> first[2], day |-> days - DaysBefore(first[1], first[2]) + 1,
         hour |-> (local % SecondPerDay) \div SecondPerHour,
         minute |-> (local % SecondPerHour) \div SecondPerMinute,
         second |-> local % SecondPerMinute]

\* Parts out of their range are carried over.
Mktime(tm) ==
    LET year == tm.year + (tm.month - 1) \div 12
        month == ((tm.month - 1) % 12) + 1
    IN  (DaysBefore(year, month) + tm.day - 1) * SecondPerDay
            + tm.hour * SecondPerHour + tm.minute * SecondPerMinute + tm.second + TimeZone

-----------------------------------------------------------------------------
(* Points in time. *)

FromTimeStruct(tm, milliSecond, microSecond) ==
    Mktime(tm) * MicroPerSecond + milliSecond * MicroPerMilli + microSecond

\* East of Greenwich the first hours of 1970 come before the epoch: it is taken.
FromTimeMoment(tm, milliSecond, microSecond) ==
    LET first == tm.year = 1970 /\ tm.month = 1 /\ tm.day = 1
        seconds == tm.hour * SecondPerHour + tm.minute * SecondPerMinute + tm.second
        epoch == [tm EXCEPT !.hour = (-TimeZone) \div SecondPerHour,
                            !.minute = ((-TimeZone) % SecondPerHour) \div SecondPerMinute,
                            !.second = (-TimeZone) % SecondPerMinute]
    IN  FromTimeStruct(IF first /\ TimeZone < 0 /\ seconds < -TimeZone THEN epoch ELSE tm,
                       milliSecond, microSecond)

\* A text has a date, a time and a fraction; the digits of the fraction are
\* taken for microseconds whatever their number.
FromFmtString(repr) ==
    LET date == Padded(repr.date, <<1970, 1, 1>>)
        time == Padded(repr.time.parts, <<0, 0, 0>>)
    IN  FromTimeMoment([year |-> date[1], month |-> date[2], day |-> date[3],
                        hour |-> time[1], minute |-> time[2], second |-> time[3]],
                       Quotient(repr.time.fraction, MicroPerMilli),
                       Remainder(repr.time.fraction, MicroPerMilli))

LocalTime(time) == Tm(time \div MicroPerSecond)
Local(time) == time - TimeZone * MicroPerSecond

GetLocalMilliSecond(time) == Quotient(Remainder(Local(time), MicroPerSecond), MicroPerMilli)

\* All the microseconds of the second, the milliseconds among them.
GetLocalMicroSecond(time) == Remainder(Local(time), MicroPerSecond)

\* The epoch is written as midnight in every zone.
TimeText(time) ==
    LET tm == LocalTime(time)
    IN  IF time = 0 THEN [date |-> <<1970, 1, 1>>, time |-> Repr(<<0, 0, 0>>, 0)]
        ELSE [date |-> <<tm.year, tm.month, tm.day>>,
              time |-> Repr(<<tm.hour, tm.minute, tm.second>>, GetLocalMicroSecond(time))]

GetTimeOfDay(time) == Remainder(Local(time), MicroPerDay)

\* Until that time of a day comes next.
GetIntervalTo(time, slice) ==
    LET interval == slice - GetTimeOfDay(time)
    IN  IF interval < 0 THEN MicroPerDay + interval ELSE interval

\* A plausible mistake: the zone is not taken off again.
GetZeroTimeLocal(time) == Quotient(Local(time), MicroPerDay) * MicroPerDay

GetZeroTime(time) ==
    Quotient(Local(time), MicroPerDay) * MicroPerDay + TimeZone * MicroPerSecond

-----------------------------------------------------------------------------
(* Going on by parts of the calendar. *)

\* Milliseconds are added twice: once as such, once among the microseconds.
WithFraction(tm, time) ==
    FromTimeStruct(tm, GetLocalMilliSecond(time), GetLocalMicroSecond(time))

\* A leap day is moved to the 28th where there is none.
OnYear(tm, years) ==
    LET leapDay == tm.month = 2 /\ tm.day = 29
    IN  [tm EXCEPT !.year = @ + years,
                   !.day = IF leapDay /\ ~IsLeapYear(tm.year + years) THEN 28 ELSE @]

AddYears(time, years) ==
    IF years = 0 THEN time ELSE WithFraction(OnYear(LocalTime(time), years), time)

\* The year before the months are added says how long the new month is.
OnMonth(tm, months) ==
    LET sum == (tm.month - 1) + months
        month == (sum % 12) + 1
        last == GetMonthMaxDays(tm.year, month)
    IN  [tm EXCEPT !.year = @ + sum \div 12, !.month = month, !.day = IF @ > last THEN last ELSE @]

AddMonths(time, months) ==
    WithFraction(OnMonth(LocalTime(AddYears(time, Quotient(months, 12))), Remainder(months, 12)), time)

AddDays(time, days) == time + days * MicroPerDay
AddHours(time, hours) == time + hours * MicroPerHour
AddMinutes(time, minutes) == time + minutes * MicroPerMinute
AddSeconds(time, seconds) == time + seconds * MicroPerSecond
AddMilliSeconds(time, milliSeconds) == time + milliSeconds * MicroPerMilli

-----------------------------------------------------------------------------
(* What must hold of every time since the epoch, local and UTC. *)

\* A time is read back from its text, whatever the zone.
TextReturns(time) == time # 0 => FromFmtString(TimeText(time)) = time

\* Midnight and the time of the day make up the time, and the interval to a
\* time of day ends at it, within a day.
DayAgrees(time, slice) ==
    /\ GetZeroTime(time) + GetTimeOfDay(time) = time
    /\ TimeText(GetZeroTime(time)).time = Repr(<<0, 0, 0>>, 0)
    /\ GetIntervalTo(time, slice) \in 0..(MicroPerDay - 1)
    /\ GetTimeOfDay(time + GetIntervalTo(time, slice)) = slice
    /\ LET of == GetTimeOfDay(time)
       IN  Slice(0, GetHours(of), GetMinutes(of), GetSeconds(of), GetMilliSeconds(of),
                 GetMicroSeconds(of)) = of

\* From a full second, months later: the month that many further on, the same
\* time of the day, and the same day as far as the month has it (a leap day that
\* whole years have moved stays moved).  Excepted are the months that end in
\* February of another year, whose length is mistaken.
MonthsAgree(time, months) ==
    LET tm == LocalTime(time)
        sum == 12 * tm.year + tm.month - 1 + months
        year == sum \div 12
        month == (sum % 12) + 1
        last == GetMonthMaxDays(year, month)
        midway == LocalTime(AddYears(time, Quotient(months, 12)))
        day == IF tm.month = 2 THEN midway.day ELSE tm.day
    IN  GetLocalMicroSecond(time) = 0 /\ (month # 2 \/ year = midway.year) =>
            LocalTime(AddMonths(time, months)) =
                [tm EXCEPT !.year = year, !.month = month, !.day = IF day > last THEN last ELSE day]

-----------------------------------------------------------------------------
(* The days go by. *)

CalendarInit == today = NoDay

NextDay == \/ today = NoDay /\ today' = FirstDay
           \/ today \in FirstDay..(LastDay - 1) /\ today' = today + 1

CalendarSpec == CalendarInit /\ [][NextDay]_today

\* Texts, days and months agree with the calendar at every time of a day, for a
\* slice at its start, in its middle and at its end (LibTime, TimeSlice).
CalendarAgrees ==
    today # NoDay =>
        LET midnight == today * MicroPerDay
        IN  /\ \A at \in midnight..(midnight + MicroPerDay - 1) :
                /\ TextReturns(at)
                /\ \A slice \in {0, MicroPerDay \div 2, MicroPerDay - 1} : DayAgrees(at, slice)
            /\ \A months \in {-13, 1, 12, 13} : MonthsAgree(midnight, months)
=============================================================================
