-------------------------------- MODULE Date --------------------------------
(***************************************************************************)
(* The calendar of muduo_log: Date.cc and Date.h, and the part of          *)
(* TimeZone.cc that needs no zone.  Pure functions: dates to Julian day    *)
(* numbers and back, seconds since 1970 to a broken-down time and back.    *)
(* At the end is what the Gregorian calendar says, stated independently.   *)
(***************************************************************************)
EXTENDS Integers, FiniteSetsExt

(* Division and remainder of C, which round towards zero; b > 0. *)
CDiv(a, b) == IF a >= 0 THEN a \div b ELSE -((-a) \div b)
CMod(a, b) == a - b * CDiv(a, b)

(* Years after -4800, so no operand is negative. *)
getJulianDayNumber(year, month, day) ==
    LET a == (14 - month) \div 12
        y == year + 4800 - a
        m == month + 12 * a - 3
    IN  day + ((153 * m + 2) \div 5) + y * 365 + (y \div 4) - (y \div 100) + (y \div 400) - 32045

getYearMonthDay(julianDayNumber) ==
    LET a == julianDayNumber + 32044
        b == (4 * a + 3) \div 146097
        c == a - ((b * 146097) \div 4)
        d == (4 * c + 3) \div 1461
        e == c - ((1461 * d) \div 4)
        m == (5 * e + 2) \div 153
    IN  [day |-> e - ((153 * m + 2) \div 5) + 1,
         month |-> m + 3 - 12 * (m \div 10),
         year |-> b * 100 + d - 4800 + (m \div 10)]

kJulianDayOf1970_01_01 == getJulianDayNumber(1970, 1, 1)
kSecondsPerDay == 24 * 60 * 60

weekDay(julianDayNumber) == (julianDayNumber + 1) % 7

fillHMS(seconds) ==
    [sec |-> seconds % 60, min |-> (seconds \div 60) % 60, hour |-> (seconds \div 60) \div 60]

(* Mutant: the day before 1970 is not adjusted. *)
SplitTruncated(t) == [seconds |-> CMod(t, kSecondsPerDay), days |-> CDiv(t, kSecondsPerDay)]

(* The day of a second, and the second of that day. *)
Split(t) ==
    LET seconds == CMod(t, kSecondsPerDay)
        days == CDiv(t, kSecondsPerDay)
    IN  IF seconds < 0 THEN [seconds |-> seconds + kSecondsPerDay, days |-> days - 1]
                       ELSE [seconds |-> seconds, days |-> days]

(* With the day of the year, as yday = true asks for. *)
toUtcTime(t) ==
    LET date == Split(t).days + kJulianDayOf1970_01_01
        ymd == getYearMonthDay(date)
        hms == fillHMS(Split(t).seconds)
    IN  [year |-> ymd.year - 1900, mon |-> ymd.month - 1, mday |-> ymd.day,
         hour |-> hms.hour, min |-> hms.min, sec |-> hms.sec,
         wday |-> weekDay(date), yday |-> date - getJulianDayNumber(ymd.year, 1, 1)]

fromUtcTime(tm) ==
    (getJulianDayNumber(tm.year + 1900, tm.mon + 1, tm.mday) - kJulianDayOf1970_01_01)
        * kSecondsPerDay + tm.hour * 3600 + tm.min * 60 + tm.sec

-----------------------------------------------------------------------------
(* The Gregorian calendar. *)

Leap(y) == y % 4 = 0 /\ (y % 100 = 0 => y % 400 = 0)

DaysIn(y, m) == CASE m = 2 -> IF Leap(y) THEN 29 ELSE 28
                  [] m \in {4, 6, 9, 11} -> 30
                  [] OTHER -> 31

DaysOf(y) == IF Leap(y) THEN 366 ELSE 365

DaysBefore(y, m) ==
    LET sum[k \in 0 .. 11] == IF k = 0 THEN 0 ELSE sum[k - 1] + DaysIn(y, k)
    IN  sum[m - 1]

(* 1 January 1970 was a Thursday, and its Julian day number is 2440588. *)
Anchor == 2440588

(* A date converts to its Julian day number and back, and has the weekday  *)
(* that follows the one before it.                                         *)
DayRight(year, month, day, julianDayNumber) ==
    /\ getJulianDayNumber(year, month, day) = julianDayNumber
    /\ getYearMonthDay(julianDayNumber) = [day |-> day, month |-> month, year |-> year]
    /\ weekDay(julianDayNumber) = (4 + julianDayNumber - Anchor) % 7

(* Every day of the year whose first day is the day first. *)
YearRight(year, first) ==
    \A month \in 1 .. 12 : \A day \in 1 .. DaysIn(year, month) :
        DayRight(year, month, day, first + DaysBefore(year, month) + day - 1)

(* The seconds given, of the first and the last day of the year, convert   *)
(* to the fields a clock would show and back.                              *)
SecondsRight(year, first, seconds) ==
    \A d \in {1, DaysOf(year)}, s \in seconds :
        LET t == (first + d - 1 - Anchor) * kSecondsPerDay + s
            tm == toUtcTime(t)
        IN  /\ <<tm.year, tm.yday, tm.mon, tm.mday>>
                   = IF d = 1 THEN <<year - 1900, 0, 0, 1>> ELSE <<year - 1900, d - 1, 11, 31>>
            /\ tm.hour * 3600 + tm.min * 60 + tm.sec = s /\ tm.min < 60 /\ tm.sec < 60
            /\ fromUtcTime(tm) = t
=============================================================================
