---------------------------- MODULE LogFrontEnd ----------------------------
(***************************************************************************)
(* The time stamps of muduo_log's lines, Logging.cc: each thread formats   *)
(* the second once and keeps the text for the other lines of that second;  *)
(* the zone is a global that setTimeZone replaces.  Two more walks go      *)
(* through the years of the calendar and through zone files, to check the  *)
(* conversions the stamps rest on.                                         *)
(***************************************************************************)
EXTENDS TimeZone

CONSTANTS Loggers,          \* threads that write lines
          FirstYear, LastYear,
          SecondYears,      \* years whose seconds fit 32 bits, TLC's integers
          DaySeconds,       \* seconds of a day to convert
          ZoneFiles, Ticks, \* zone files, and the times to convert with them
          LogFiles,         \* the zone files given to setTimeZone
          LogSeconds,       \* times of the lines, 1 .. n and perhaps 0
          NoZone            \* TimeZone(): valid() is false

(* The calendar counts from the year -4800; the oldest time is far before  *)
(* what 32 bits hold.                                                      *)
ASSUME TimeAssumption ==
    /\ FirstYear \in Int /\ FirstYear >= -4799 /\ LastYear \in Int
    /\ \A s \in DaySeconds : s \in Nat /\ s < kSecondsPerDay
    /\ \A f \in ZoneFiles : WellFormed(f)
    /\ \A t \in Ticks : t \in Int /\ t >= -2000000000

VARIABLES walk,             \* "calendar", "zone" or "log"
          year, first,      \* a year and its first day, counted from the anchor
          file,             \* a zone file
          zone,             \* g_logTimeZone
          clock,            \* the second Timestamp::now() gives
          t_lastSecond, t_time,   \* of each thread
          line,             \* the stamp of the last line: [second, text, Z]
          zonesOf           \* the zones each second was lived in

calendarVars == <<year, first>>
logVars == <<zone, clock, t_lastSecond, t_time, line, zonesOf>>
timeVars == <<walk, calendarVars, file, logVars>>

LogZones == {NoZone, ZoneEast(3600)} \cup {ZoneOfFile(f) : f \in LogFiles}

LogInit ==
    /\ walk \in {"calendar", "zone", "log"}
    /\ year = 1970 /\ first = Anchor
    /\ file \in ZoneFiles
    /\ walk # "zone" => file = CHOOSE f \in ZoneFiles : TRUE
    /\ zone = NoZone
    /\ clock \in LogSeconds
    /\ t_lastSecond = [p \in Loggers |-> 0] /\ t_time = [p \in Loggers |-> <<>>]
    /\ line = <<>>
    /\ zonesOf = [t \in LogSeconds |-> IF t = clock THEN {NoZone} ELSE {}]

NextYear ==
    /\ walk = "calendar" /\ year \in 1970 .. (LastYear - 1)
    /\ year' = year + 1 /\ first' = first + DaysOf(year)
    /\ UNCHANGED <<walk, file, logVars>>

YearBefore ==
    /\ walk = "calendar" /\ year \in (FirstYear + 1) .. 1970
    /\ year' = year - 1 /\ first' = first - DaysOf(year - 1)
    /\ UNCHANGED <<walk, file, logVars>>

-----------------------------------------------------------------------------
(* What snprintf writes of a second: the fields it prints. *)
Text(tm) == <<tm.year, tm.mon, tm.mday, tm.hour, tm.min, tm.sec>>

(* The text of a second in a zone; a zone without types has none. *)
Formatted(z, t) ==
    IF z = NoZone THEN Text(gmtime_r(t))
    ELSE LET local == toLocalTime(z, t)
         IN  IF local.junk THEN <<"junk">> ELSE Text(local.tm)

(* The kept text is of another second. *)
Stale(p) == clock # t_lastSecond[p]

(* formatTime, in the constructor of a line. *)
formatTime(p) ==
    /\ walk = "log"
    /\ t_lastSecond' = [t_lastSecond EXCEPT ![p] = clock]
    /\ t_time' = IF Stale(p) THEN [t_time EXCEPT ![p] = Formatted(zone, clock)] ELSE t_time
    /\ line' = [second |-> clock, text |-> t_time'[p], Z |-> zone = NoZone]
    /\ UNCHANGED <<walk, calendarVars, file, zone, clock, zonesOf>>

setTimeZone(z) ==
    /\ walk = "log" /\ z # zone
    /\ zone' = z
    /\ zonesOf' = [zonesOf EXCEPT ![clock] = @ \cup {z}]
    /\ UNCHANGED <<walk, calendarVars, file, clock, t_lastSecond, t_time, line>>

(* The wall clock goes on, or is set back. *)
ClockMoves ==
    /\ walk = "log"
    /\ clock' \in LogSeconds \ {clock}
    /\ zonesOf' = [zonesOf EXCEPT ![clock'] = @ \cup {zone}]
    /\ UNCHANGED <<walk, calendarVars, file, zone, t_lastSecond, t_time, line>>

LogNext ==
    \/ NextYear \/ YearBefore \/ ClockMoves
    \/ \E p \in Loggers : formatTime(p)
    \/ \E z \in LogZones : setTimeZone(z)

LogSpec == LogInit /\ [][LogNext]_timeVars

-----------------------------------------------------------------------------
(* Every year of the walk, every zone file: the conversions are right. *)
ConversionsRight ==
    /\ walk = "calendar" => YearRight(year, first)
    /\ walk = "calendar" /\ year \in SecondYears => SecondsRight(year, first, DaySeconds)
    /\ walk = "zone" => ZoneRight(file, Ticks)

(* A line shows the time of its second in a zone that was in force in that *)
(* second, and says Z only for UTC if there was one zone; the exception is *)
(* the second 0, in which a new thread's empty text counts as formatted.   *)
StampsRight ==
    line # <<>> /\ line.second # 0 =>
        /\ \E z \in zonesOf[line.second] : line.text = Formatted(z, line.second)
        /\ zonesOf[line.second] = {NoZone} => line.Z /\ line.text = Text(toUtcTime(line.second))

(* Before its first transition a zone that was read whole is in the first  *)
(* of its types that is not summer time, as the comment at TimeZone.cc:227 *)
(* says; the code takes the first type whatever it is.                     *)
ZoneStartsStandard ==
    walk = "zone" /\ file.got = Len(file.types) =>
        \A t \in Ticks, i \in 1 .. Len(file.types) :
            LET local == toLocalTime(ZoneOfFile(file), t)
                early == \A j \in 1 .. Len(file.times) : t < file.times[j].at
                standard == ~file.types[i].isDst /\ \A j \in 1 .. i - 1 : file.types[j].isDst
            IN  early /\ standard
                    => ~local.isdst /\ fromUtcTime(local.tm) = t + file.types[i].gmtOffset

(* Dates, local times and the stamps of log lines agree with the calendar, *)
(* the zone file and the second they are made from.                        *)
TimesAgree == ConversionsRight /\ StampsRight
=============================================================================
