------------------------------ MODULE TimeTags ------------------------------
(***************************************************************************)
(* The time tags of cpXXtime2a.c and the binary counter of cs101_bcr.c:    *)
(* bytes in which several numbers and flags share a place, each set by a   *)
(* function that keeps the others.  A tag is a sequence of bytes; CP24 is  *)
(* its first three, CP32 its first four, CP56 all seven.  A moment is      *)
(* [year, month, day, hour, minute, second, ms], the year since 1900 and   *)
(* the month from 0 as in struct tm.                                       *)
(***************************************************************************)
EXTENDS Integers, Sequences

Low(byte, n)  == byte % n                    \* the bits below the weight n
High(byte, n) == n * (byte \div n)           \* the bits from the weight n on

----------------------------------------------------------------------------
(* CP16Time2a: elapsed milliseconds. *)
ElapsedOf(tag) == tag[1] + 256 * tag[2]
SetElapsed(ms) == <<ms % 256, (ms \div 256) % 256>>

(* What CP24, CP32 and CP56 have in common: milliseconds of the minute in two bytes, the   *)
(* minute in the third with the flags invalid and substituted.                             *)
Millies(tag) == tag[1] + 256 * tag[2]
WithMillies(tag, ms) == [tag EXCEPT ![1] = ms % 256, ![2] = (ms \div 256) % 256]

GetMillisecond(tag) == Millies(tag) % 1000
SetMillisecond(tag, ms) == WithMillies(tag, 1000 * (Millies(tag) \div 1000) + ms)
GetSecond(tag) == Millies(tag) \div 1000
SetSecond(tag, second) == WithMillies(tag, 1000 * second + GetMillisecond(tag))

GetMinute(tag) == Low(tag[3], 64)
SetMinute(tag, minute) == [tag EXCEPT ![3] = High(@, 64) + Low(minute, 64)]
IsInvalid(tag) == tag[3] >= 128
SetInvalid(tag, on) == [tag EXCEPT ![3] = Low(@, 128) + (IF on THEN 128 ELSE 0)]
IsSubstituted(tag) == (tag[3] \div 64) % 2 = 1
SetSubstituted(tag, on) ==
    [tag EXCEPT ![3] = High(@, 128) + (IF on THEN 64 ELSE 0) + Low(@, 64)]

(* CP32Time2a adds the hour and the summer time flag. *)
GetHour(tag) == Low(tag[4], 32)
SetHour(tag, hour) == [tag EXCEPT ![4] = High(@, 32) + Low(hour, 32)]
IsSummerTime(tag) == tag[4] >= 128
SetSummerTime(tag, on) == [tag EXCEPT ![4] = Low(@, 128) + (IF on THEN 128 ELSE 0)]

\* CP32Time2a_setMillisecond starts again from the second.
SetMillisecond32(tag, ms) == WithMillies(tag, 1000 * GetSecond(tag) + ms)

SetFromMoment32(tag, t) ==
    LET set1 == SetSecond(tag, t.second)
        set2 == SetMillisecond32(set1, t.ms)
    IN  SetHour(SetMinute(set2, t.minute), t.hour)

(* CP56Time2a adds the date; the day of the week is 0, the year has two digits. *)
GetDayOfWeek(tag) == tag[5] \div 32
SetDayOfWeek(tag, day) == [tag EXCEPT ![5] = Low(@, 32) + 32 * Low(day, 8)]
GetDayOfMonth(tag) == Low(tag[5], 32)
SetDayOfMonth(tag, day) == [tag EXCEPT ![5] = High(@, 32) + Low(day, 32)]
GetMonth(tag) == Low(tag[6], 16)
SetMonth(tag, month) == [tag EXCEPT ![6] = High(@, 16) + Low(month, 16)]
GetYear(tag) == Low(tag[7], 128)
SetYear(tag, year) == [tag EXCEPT ![7] = High(@, 128) + Low(year % 100, 128)]

\* CP56Time2a_setFromMsTimestamp, from what gmtime makes of the timestamp.
SetFromMoment(tag, t) ==
    LET timed == SetHour(SetMinute(SetSecond(SetMillisecond(tag, t.ms), t.second),
                                   t.minute), t.hour)
        dated == SetDayOfWeek(SetDayOfMonth(timed, t.day), 0)
    IN  SetYear(SetMonth(dated, t.month + 1), t.year)

\* The struct tm of CP56Time2a_toMsTimestamp: years are of this century.
MomentOf(tag) ==
    [year |-> GetYear(tag) + 100, month |-> GetMonth(tag) - 1, day |-> GetDayOfMonth(tag),
     hour |-> GetHour(tag), minute |-> GetMinute(tag), second |-> GetSecond(tag),
     ms |-> GetMillisecond(tag)]

\* my_mktime: the day since 1970-01-01 and the second of the day. January and February
\* count as the months 12 and 13 of the year before.
DayOf(t) ==
    LET early == t.month < 2
        y == IF early THEN t.year - 1 ELSE t.year
        m == IF early THEN t.month + 12 ELSE t.month
    IN  (y - 69) * 365 + (y \div 4) - ((y \div 100) * 3) \div 4 + ((m + 2) * 153) \div 5
          - 446 + t.day
SecondOf(t) == (t.hour * 60 + t.minute) * 60 + t.second

----------------------------------------------------------------------------
(* BinaryCounterReading: the fifth byte holds a number and three flags. *)
GetSequenceNumber(tag) == Low(tag[5], 32)
SetSequenceNumber(tag, number) == [tag EXCEPT ![5] = High(@, 32) + Low(number, 32)]
HasFlag(tag, weight) == (tag[5] \div weight) % 2 = 1
SetFlag(tag, weight, on) ==
    [tag EXCEPT ![5] = High(@, 2 * weight) + (IF on THEN weight ELSE 0) + Low(@, weight)]

\* BinaryCounterReading_create: the flags are set in memory that holds anything.
CounterReading(memory, value, number, carry, adjusted, invalid) ==
    LET valued == [k \in 1..5 |-> IF k < 5 THEN value[k] ELSE memory]
        counted == SetSequenceNumber(valued, number)
    IN  SetFlag(SetFlag(SetFlag(counted, 32, carry), 64, adjusted), 128, invalid)
=============================================================================
