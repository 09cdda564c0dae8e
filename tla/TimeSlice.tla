------------------------------- MODULE TimeSlice -------------------------------
(***************************************************************************)
(* Spans of time (TimeSlice): a number of microseconds and its parts.  How *)
(* many of a unit make the next is a parameter.                            *)
(***************************************************************************)
EXTENDS Integers, Sequences

CONSTANTS
    MicroPerMilli, MilliPerSecond, SecondPerMinute, MinutePerHour, HourPerDay

ASSUME UnitsAssumption ==
    {MicroPerMilli, MilliPerSecond, SecondPerMinute, MinutePerHour, HourPerDay} \subseteq Nat \ {0}

MicroPerSecond == MicroPerMilli * MilliPerSecond
MicroPerMinute == MicroPerSecond * SecondPerMinute
MicroPerHour == MicroPerMinute * MinutePerHour
SecondPerHour == SecondPerMinute * MinutePerHour
SecondPerDay == SecondPerHour * HourPerDay
MicroPerDay == MicroPerSecond * SecondPerDay

\* Division and remainder of C, which round to zero.
Quotient(a, b) == IF a >= 0 THEN a \div b ELSE -((-a) \div b)
Remainder(a, b) == a - b * Quotient(a, b)

\* From days, hours, minutes, seconds, milliseconds and microseconds.
Slice(days, hours, minutes, seconds, milliSeconds, microSeconds) ==
    (((days * HourPerDay + hours) * MinutePerHour + minutes) * SecondPerMinute + seconds)
        * MicroPerSecond + milliSeconds * MicroPerMilli + microSeconds

GetDays(slice) == Quotient(slice, MicroPerDay)
GetHours(slice) == Quotient(Remainder(slice, MicroPerDay), MicroPerHour)
GetMinutes(slice) == Quotient(Remainder(slice, MicroPerHour), MicroPerMinute)
GetSeconds(slice) == Quotient(Remainder(slice, MicroPerMinute), MicroPerSecond)
GetMilliSeconds(slice) == Quotient(Remainder(slice, MicroPerSecond), MicroPerMilli)
GetMicroSeconds(slice) == Remainder(slice, MicroPerMilli)

\* A text of a time: the numbers between the colons and the one after the point.
Repr(parts, fraction) == [parts |-> parts, fraction |-> fraction]

\* The days are written in front of a blank.
SliceText(slice) ==
    [days |-> GetDays(slice),
     time |-> Repr(<<GetHours(slice), GetMinutes(slice), GetSeconds(slice)>>,
                   GetMilliSeconds(slice) * MicroPerMilli + GetMicroSeconds(slice))]

\* Parts that are missing on the left are those given.
Padded(parts, default) == SubSeq(default, 1, 3 - Len(parts)) \o parts

\* What stands in front of the blank is cut off a copy that is not used: in the
\* text with days these are read as the hours.
SliceFromText(repr) ==
    LET parts == Padded(repr.time.parts, <<0, 0, 0>>)
        hours == IF repr.days # 0 THEN repr.days ELSE parts[1]
    IN  hours * MicroPerHour + parts[2] * MicroPerMinute + parts[3] * MicroPerSecond
            + repr.time.fraction
=============================================================================
