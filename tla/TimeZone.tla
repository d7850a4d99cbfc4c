------------------------------ MODULE TimeZone ------------------------------
(***************************************************************************)
(* Time zones of muduo_log, TimeZone.cc: reading a zone file, and local    *)
(* time to and from seconds since 1970.                                    *)
(*                                                                         *)
(* A file is [types, times, got]: its local time types [gmtOffset, isDst], *)
(* its transitions [at, type], ordered by time, and how much of it could   *)
(* be read: the number of types before the first that could not be read,   *)
(* 0 also if it does not exist or is bad before them.  Abbreviations are   *)
(* left out, and so is the TZ string at the end of newer files, which the  *)
(* code does not read: after the last transition it keeps the last type    *)
(* (line 247, "FIXME: use TZ-env").                                        *)
(***************************************************************************)
EXTENDS Date, Sequences, SequencesExt

(* Outside of any vector: front() of an empty one. *)
Nowhere == [gmtOffset |-> 0, isDst |-> FALSE, junk |-> TRUE]

Localtime(type) == [gmtOffset |-> type.gmtOffset, isDst |-> type.isDst, junk |-> FALSE]

Transition(gmttime, localtime, localtimeIdx) ==
    [gmttime |-> gmttime, localtime |-> localtime, localtimeIdx |-> localtimeIdx]

(* readTimeZoneFile.  Types are stored while they are read; transitions    *)
(* after the last type.  Whatever goes wrong, the result is true.          *)
readTimeZoneFile(file) ==
    LET types == [i \in 1 .. Len(file.types) |-> Localtime(file.types[i])]
    IN  [localtimes |-> SubSeq(types, 1, file.got),
         transitions |->
            IF file.got < Len(file.types) THEN <<>>
            ELSE [i \in 1 .. Len(file.times) |->
                     LET f == file.times[i]
                     IN  Transition(f.at, f.at + types[f.type].gmtOffset, f.type)]]

(* Comp(true) compares gmttime, Comp(false) compares localtime. *)
Key(compareGmt, tr) == IF compareGmt THEN tr.gmttime ELSE tr.localtime

(* The constructors.  data_ is never reset: valid() holds for every zone   *)
(* made from a file.                                                       *)
ZoneOfFile(file) == readTimeZoneFile(file)
ZoneEast(eastOfUtc) ==
    [localtimes |-> <<Localtime([gmtOffset |-> eastOfUtc, isDst |-> FALSE])>>,
     transitions |-> <<>>]

FirstType(localtimes) == IF localtimes = <<>> THEN Nowhere ELSE localtimes[1]

(* findLocaltime.  lower_bound gives the first transition that is not      *)
(* before the sentry; the one before it counts unless it is at the sentry. *)
findLocaltime(data, sentry, compareGmt) ==
    LET trs == data.transitions
        at(i) == Key(compareGmt, trs[i])
    IN  IF trs = <<>> \/ sentry < at(1)
        THEN FirstType(data.localtimes)
        ELSE LET i == SelectInSeq(trs, LAMBDA tr : Key(compareGmt, tr) >= sentry)
                 j == CASE i = 0 -> Len(trs)
                        [] i # 0 /\ at(i) = sentry -> i
                        [] OTHER -> i - 1
             IN  data.localtimes[trs[j].localtimeIdx]

(* gmtime_r and timegm do what toUtcTime and fromUtcTime do. *)
gmtime_r(seconds) == toUtcTime(seconds)
timegm(tm) == fromUtcTime(tm)

LocalTime(seconds, local) ==
    [tm |-> gmtime_r(seconds + local.gmtOffset), isdst |-> local.isDst, junk |-> local.junk]

toLocalTime(data, seconds) == LocalTime(seconds, findLocaltime(data, seconds, TRUE))

(* The hour that is shown twice: the summer time reading of it is taken to *)
(* be 3600 seconds before the other.                                       *)
SummerReading(data, localTm, seconds, local) ==
    LET tryTm == toLocalTime(data, seconds - local.gmtOffset)
    IN  /\ localTm.isdst /\ ~tryTm.isdst
        /\ tryTm.tm.hour = localTm.tm.hour /\ tryTm.tm.min = localTm.tm.min

fromLocalTime(data, localTm) ==
    LET seconds == timegm(localTm.tm)
        local == findLocaltime(data, seconds, FALSE)
    IN  (IF SummerReading(data, localTm, seconds, local) THEN seconds - 3600 ELSE seconds)
            - local.gmtOffset

-----------------------------------------------------------------------------
(* The offset a zone file prescribes at t: the type of the last transition *)
(* not after t, and the first type before all of them.                     *)
TypeAt(file, t) ==
    LET before == {i \in 1 .. Len(file.times) : file.times[i].at <= t}
    IN  file.types[IF before = {} THEN 1 ELSE file.times[Max(before)].type]

(* A second the clocks show twice whose later reading is not told apart by *)
(* the rule above: that is, unless it is winter time an hour later.        *)
Confused(file, t) ==
    \E i \in 1 .. Len(file.types) :
        LET now == TypeAt(file, t)
            later == file.types[i]
            u == t + now.gmtOffset - later.gmtOffset
        IN  t < u /\ TypeAt(file, u) = later /\ ~ (now.isDst /\ ~later.isDst /\ u = t + 3600)

(* A file as the zone compiler writes it: a day bounds the offsets, and    *)
(* transitions are farther apart than any two offsets, so that they are in *)
(* order by local time too, which lower_bound relies on.                   *)
Offsets == {o \in Int : -kSecondsPerDay <= o /\ o <= kSecondsPerDay}
WellFormed(file) ==
    /\ file.types \in Seq([gmtOffset : Offsets, isDst : BOOLEAN]) /\ file.types # <<>>
    /\ file.times \in Seq([at : Int, type : 1 .. Len(file.types)])
    /\ file.got \in 0 .. Len(file.types)
    /\ \A i, j \in 1 .. Len(file.times), a, b \in 1 .. Len(file.types) :
          i < j => file.times[j].at - file.times[i].at > file.types[a].gmtOffset - file.types[b].gmtOffset

(* No transition says what the time is, and the first type, which the code *)
(* then takes, is a summer time: line 227 says that it should be the first *)
(* one that is not, so this is not called right here.                      *)
Guessed(file, t) ==
    /\ file.types[1].isDst
    /\ file.got < Len(file.types) \/ \A i \in 1 .. Len(file.times) : t < file.times[i].at

(* If the file could be read, local time is what it prescribes, but where  *)
(* it is Guessed, and every local time that is not Confused converts back; *)
(* where it was cut short within the types, all times are in the first     *)
(* type, and nothing reports that the zone is unusable.                    *)
ZoneRight(file, ticks) ==
    LET data == ZoneOfFile(file)
    IN  \A t \in ticks :
            LET local == toLocalTime(data, t)
                type == IF file.got = Len(file.types) THEN TypeAt(file, t) ELSE file.types[1]
            IN  IF file.got = 0 THEN local.junk
                ELSE /\ ~local.junk
                     /\ \/ Guessed(file, t)
                        \/ local.isdst = type.isDst /\ fromUtcTime(local.tm) = t + type.gmtOffset
                     /\ (data.transitions # <<>> => ~Confused(file, t))
                           => fromLocalTime(data, local) = t
=============================================================================
