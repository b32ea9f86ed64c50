------------------------------- MODULE JsTime --------------------------------
(***************************************************************************)
(* Times of the script engine, JsTime.cpp and JsTime.h: the calendar, the  *)
(* texts of a time and their readers, the local time zone, and arithmetic; *)
(* and the date object of scripts, JsScriptObjectDate.cpp.                 *)
(*                                                                         *)
(* A time has seconds since 1970, not negative and of 31 bits, and         *)
(* nanoseconds, of which a second has Second.  In a text the letters of a  *)
(* name are one item, and every other character is one.                    *)
(***************************************************************************)
EXTENDS Integers, Sequences, FiniteSets, TLC

CONSTANT Second     \* nanoseconds of a second

Time(sec, nsec) == [sec |-> sec, nsec |-> nsec]
Zero == Time(0, 0)

(***************************************************************************)
(* The calendar.                                                           *)
(***************************************************************************)
Days == <<"Sun", "Mon", "Tue", "Wed", "Thu", "Fri", "Sat">>
LongDays == <<"Sunday", "Monday", "Tuesday", "Wednesday", "Thursday", "Friday", "Saturday">>
Months == <<"Jan", "Feb", "Mar", "Apr", "May", "Jun",
            "Jul", "Aug", "Sep", "Oct", "Nov", "Dec">>
PositionOf(x, s) == CHOOSE i \in DOMAIN s : s[i] = x

(* The tables: days to the end of a year from 1970, and of its months.     *)
\* Mutant: the day of a leap year is counted a year late.
YearDaysC_LeapYearLate ==
    [y \in 0 .. 69 |-> [isLeapYear |-> y % 4 = 3, accumulatedDays |-> 365 * y + (y \div 4)]]
YearDaysC ==
    [y \in 0 .. 69 |-> [isLeapYear |-> y % 4 = 3, accumulatedDays |-> 365 * y + (y + 1) \div 4]]
MonthDaysC(leap) ==
    LET normal == <<31, 59, 90, 120, 151, 181, 212, 243, 273, 304, 334, 365>>
    IN  [m \in 0 .. 12 |-> IF m = 0 THEN 0 ELSE IF leap /\ m > 1 THEN normal[m] + 1 ELSE normal[m]]

First(P(_), a, b) == CHOOSE i \in a .. b : P(i) /\ \A j \in a .. i - 1 : ~P(j)

gmtime(seconds) ==
    LET days == seconds \div 86400
        y == First(LAMBDA i : days < YearDaysC[i].accumulatedDays, 1, 69)
        accumulated == MonthDaysC(YearDaysC[y].isLeapYear)
        yday == days - YearDaysC[y - 1].accumulatedDays
        m == First(LAMBDA i : yday < accumulated[i], 1, 12)
    IN  [sec |-> seconds % 60, min |-> (seconds \div 60) % 60, hour |-> (seconds \div 3600) % 24,
         mday |-> yday - accumulated[m - 1] + 1, mon |-> m - 1, year |-> y + 69,
         wday |-> (days + 4) % 7]

(* -1 if the year, the month or the day is out of range.                   *)
mkTime(tm) ==
    LET y == tm.year - 69
        accumulated == MonthDaysC(YearDaysC[y].isLeapYear)
    IN  IF \/ y \notin 1 .. 69 \/ tm.mon \notin 0 .. 11
           \/ tm.mday \notin 1 .. accumulated[tm.mon + 1] - accumulated[tm.mon]
        THEN -1
        ELSE (YearDaysC[y - 1].accumulatedDays + accumulated[tm.mon] + tm.mday - 1) * 86400
             + tm.hour * 3600 + tm.min * 60 + tm.sec

getComponents(t) ==
    LET tm == gmtime(t.sec)
    IN  <<tm.year + 1900, tm.mon + 1, tm.mday, tm.hour, tm.min, tm.sec, t.nsec>>
getHour(t)   == (t.sec \div 3600) % 24
getMinute(t) == (t.sec \div 60) % 60

(* The second -1 is an exception.                                          *)
Struct(c) == [year |-> c[1] - 1900, mon |-> c[2] - 1, mday |-> c[3],
              hour |-> c[4], min |-> c[5], sec |-> c[6]]
setComponents(c) == Time(mkTime(Struct(c)), c[7])

(***************************************************************************)
(* Texts.                                                                  *)
(***************************************************************************)
Digit == <<"0", "1", "2", "3", "4", "5", "6", "7", "8", "9">>
D2(n) == <<Digit[(n \div 10) + 1], Digit[(n % 10) + 1]>>
D4(n) == D2(n \div 100) \o D2(n % 100)
Clock(tm) == D2(tm.hour) \o <<":">> \o D2(tm.min) \o <<":">> \o D2(tm.sec)
GMT == <<" ", "G", "M", "T">>

toAsctimeString(t) ==
    LET tm == gmtime(t.sec)
    IN  <<Days[tm.wday + 1], " ", Months[tm.mon + 1], " ">> \o D2(tm.mday) \o <<" ">>
        \o Clock(tm) \o <<" ">> \o D4(tm.year + 1900)
toIso8601(t) ==
    LET tm == gmtime(t.sec)
    IN  D4(tm.year + 1900) \o <<"-">> \o D2(tm.mon + 1) \o <<"-">> \o D2(tm.mday)
        \o <<"T">> \o Clock(tm) \o <<"Z">>
toRfc1123String(t) ==
    LET tm == gmtime(t.sec)
    IN  <<Days[tm.wday + 1], ",", " ">> \o D2(tm.mday) \o <<" ", Months[tm.mon + 1], " ">>
        \o D4(tm.year + 1900) \o <<" ">> \o Clock(tm) \o GMT
toRfc850String(t) ==
    LET tm == gmtime(t.sec)
    IN  <<LongDays[tm.wday + 1], ",", " ">> \o D2(tm.mday) \o <<"-", Months[tm.mon + 1], "-">>
        \o D2(tm.year % 100) \o <<" ">> \o Clock(tm) \o GMT

(***************************************************************************)
(* Reading a text.  What is still to be read, what was read so far, and    *)
(* whether an exception was thrown.                                        *)
(***************************************************************************)
Reader(rest, tm) == [rest |-> rest, tm |-> tm, failed |-> FALSE]
Next1(r) == IF r.rest = <<>> THEN "" ELSE Head(r.rest)
Skip(r, n) == [r EXCEPT !.rest = SubSeq(r.rest, n + 1, Len(r.rest))]
IsDigit(c) == \E i \in 1 .. 10 : Digit[i] = c
Failed(r) == [r EXCEPT !.failed = TRUE]

RECURSIVE skipSpaces(_)
skipSpaces(r) == IF Next1(r) \in {" ", "\t"} THEN skipSpaces(Skip(r, 1)) ELSE r
parseChar(r, c) == IF Next1(r) = c THEN Skip(r, 1) ELSE Failed(r)
parseMonth(r) ==
    IF \E i \in 1 .. 12 : Months[i] = Next1(r)
    THEN [Skip(r, 1) EXCEPT !.tm.mon = PositionOf(Next1(r), Months) - 1] ELSE Failed(r)

(* Exactly n digits for a part of the time; or one or two.                 *)
RECURSIVE Number(_)
Number(s) == IF s = <<>> THEN 0
             ELSE Number(SubSeq(s, 1, Len(s) - 1)) * 10 + PositionOf(s[Len(s)], Digit) - 1
parseDigits(r, n, part) ==
    IF Len(r.rest) >= n /\ \A i \in 1 .. n : IsDigit(r.rest[i])
    THEN [Skip(r, n) EXCEPT !.tm[part] = Number(SubSeq(r.rest, 1, n))] ELSE Failed(r)
parse1or2Digit(r, part) ==
    IF Len(r.rest) >= 2 /\ IsDigit(r.rest[2]) THEN parseDigits(r, 2, part)
    ELSE parseDigits(r, 1, part)

(* One step of a format.  The years of two digits are 1951 to 2050.        *)
Step(r, s) ==
    CASE r.failed -> r
      [] ~r.failed /\ s = "spaces" -> skipSpaces(r)
      [] ~r.failed /\ s = "month" -> parseMonth(r)
      [] ~r.failed /\ s = "days" -> parse1or2Digit(r, "mday")
      [] ~r.failed /\ s = "MM" -> [parseDigits(r, 2, "mon") EXCEPT !.tm.mon = @ - 1]
      [] ~r.failed /\ s \in {"mday", "hour", "min", "sec"} -> parseDigits(r, 2, s)
      [] ~r.failed /\ s = "yyyy" -> [parseDigits(r, 4, "year") EXCEPT !.tm.year = @ - 1900]
      [] ~r.failed /\ s = "yy" ->
            [parseDigits(r, 2, "year") EXCEPT !.tm.year = IF @ > 50 THEN @ ELSE @ + 100]
      [] OTHER -> parseChar(r, s)

TimeSteps == <<"hour", ":", "min", ":", "sec">>
GMTSteps == <<"spaces", "G", "M", "T">>
Formats ==
    [Rfc1123TimeE |-> <<"spaces", "days", "spaces", "month", "spaces", "yyyy", "spaces">>
                      \o TimeSteps \o GMTSteps,
     Rfc850TimeE  |-> <<"spaces", "mday", "-", "month", "-", "yy", "spaces">>
                      \o TimeSteps \o GMTSteps,
     AsctimeTimeE |-> <<"month", "spaces", "days", "spaces">> \o TimeSteps \o <<"spaces", "yyyy">>,
     Iso8601      |-> <<"yyyy", "-", "MM", "-", "mday", "T">> \o TimeSteps]

RECURSIVE Steps(_, _)
Steps(r, steps) == IF steps = <<>> THEN r ELSE Steps(Step(r, Head(steps)), Tail(steps))

(* The format a text begins like, and what follows.  Every text that       *)
(* begins with a digit is taken for one of ISO 8601.                       *)
Blank == [year |-> 0, mon |-> 0, mday |-> 0, hour |-> 0, min |-> 0, sec |-> 0]
parseWeekDay(text) ==
    LET r == skipSpaces(Reader(Tail(text), Blank))
        short == \E i \in 1 .. 7 : Days[i] = Head(text)
        long  == \E i \in 1 .. 7 : LongDays[i] = Head(text)
    IN  CASE short /\ Next1(r) = "," -> <<"Rfc1123TimeE", Skip(r, 1)>>
          [] short /\ Next1(r) # "," -> <<"AsctimeTimeE", r>>
          [] long  /\ Next1(r) = "," -> <<"Rfc850TimeE", Skip(r, 1)>>
          [] OTHER -> <<"Rfc850TimeE", Failed(r)>>
parse(text) ==
    LET format == IF IsDigit(Head(text)) THEN <<"Iso8601", Reader(text, Blank)>>
                  ELSE parseWeekDay(text)
        r == Steps(format[2], Formats[format[1]])
    IN  Time(IF r.failed THEN -1 ELSE mkTime(r.tm), 0)

(* The constructor that reads a text of RFC 1123: what is between commas,  *)
(* spaces and colons.                                                      *)
RECURSIVE Between(_, _, _)
Until(s, c) == IF \E i \in DOMAIN s : s[i] = c THEN First(LAMBDA i : s[i] = c, 1, Len(s)) ELSE 0
(* The fields before the separators; a field begins after spaces.          *)
Between(s, separators, fields) ==
    LET from == skipSpaces(Reader(s, Blank)).rest
        n == Until(from, Head(separators))
    IN  IF separators = <<>> THEN fields
        ELSE IF n < 2 THEN <<>>
        ELSE Between(SubSeq(from, n + 1, Len(from)), Tail(separators),
                     Append(fields, SubSeq(from, 1, n - 1)))
TimeOfString(text) ==
    LET f == Between(text, <<",", " ", " ", " ", ":", ":", " ">>, <<>>)
    IN  IF f = <<>> THEN Time(-1, 0)
        ELSE setComponents(<<Number(f[4]), PositionOf(f[3][1], Months), Number(f[2]),
                             Number(f[5]), Number(f[6]), Number(f[7]), 0>>)

(***************************************************************************)
(* The time zone.  The clock's library tells how far the local time is     *)
(* behind; that is kept for good, or, with daylight saving, for every time *)
(* up to 10 s after the one it was told for.                               *)
(***************************************************************************)
Unset == [timeZoneSetM |-> FALSE, timeZoneM |-> 0, nextZoneUpdateM |-> 0, timeZoneDSM |-> 0,
          timeZoneHourM |-> 0, timeMinutesM |-> 0]

Zoned(statics, behind) ==
    IF statics.timeZoneSetM THEN statics
    ELSE [statics EXCEPT !.timeZoneSetM = TRUE, !.timeZoneM = behind]
toLocalTime(t, statics) == Time(t.sec - statics.timeZoneM, t.nsec)
toUtcTime(t, statics) == Time(t.sec + statics.timeZoneM, t.nsec)

(* The time is the clock's, or the one toLocalDSTime converts.             *)
\* Mutant: once read, the zone is kept for good.
ZonedDS_Kept(statics, time, behind) ==
    IF statics.nextZoneUpdateM > 0 THEN statics
    ELSE [statics EXCEPT !.timeZoneDSM = behind, !.nextZoneUpdateM = time + 10]
ZonedDS(statics, time, behind) ==
    IF time <= statics.nextZoneUpdateM THEN statics
    ELSE [statics EXCEPT !.timeZoneDSM = behind, !.nextZoneUpdateM = time + 10]
toLocalDSTime(t, statics) == Time(t.sec - statics.timeZoneDSM, t.nsec)

(* A log line: its local time and the zone it names, which only log lines  *)
(* keep, as hours and minutes.                                             *)
Quotient(a, b) == IF a < 0 THEN -((-a) \div b) ELSE a \div b
ZonedApache(statics, now, behind) ==
    LET hour == Quotient(-behind, 3600)
    IN  IF now <= statics.nextZoneUpdateM THEN statics
        ELSE [ZonedDS(statics, now, behind) EXCEPT
                !.timeZoneHourM = hour, !.timeMinutesM = Quotient(-behind - hour * 3600, 60)]
getApacheTime(now, statics) ==
    LET sign == IF statics.timeZoneHourM >= 0 THEN 1 ELSE -1
    IN  [local |-> gmtime(now - statics.timeZoneDSM), sign |-> sign,
         hour |-> sign * statics.timeZoneHourM, minutes |-> sign * statics.timeMinutesM]

(***************************************************************************)
(* The date object: a time of seconds, not negative.  Numbers are doubles, *)
(* so days and years have fractions, which the reckoning of dates does not *)
(* expect.  They are exact here: days are counted in seconds, and years    *)
(* from 1970 in seconds of years of 365 days.  Arguments are integers.     *)
(***************************************************************************)
YearSeconds == 365 * 86400

(* A year begins (97 * years + 193) / 400 days later than if all had 365   *)
(* days; in seconds, rounded up.                                           *)
dayFromYear(y) == (y \div 146000) * 97 + ((y % 146000) * 97 + 145999) \div 146000 + 41688

RECURSIVE YearBefore(_, _)
YearBefore(y, t) == IF dayFromYear(y) > t - y THEN YearBefore(y - YearSeconds, t) ELSE y
yearFromTime(t) == 1970 + YearBefore(t, t) \div YearSeconds
dayWithinYear(t) == LET y == YearBefore(t, t) IN (t - y) - dayFromYear(y)
daysInYear(y) == IF y % 4 = 0 /\ (y % 100 # 0 \/ y % 400 = 0) THEN 366 ELSE 365
inLeapYear(t) == daysInYear(yearFromTime(t)) # 365
monthFromTime(t) ==
    LET accumulated == MonthDaysC(inLeapYear(t))
    IN  First(LAMBDA m : m = 12 \/ dayWithinYear(t) < accumulated[m] * 86400, 1, 12) - 1
dateFromTime(t) ==
    dayWithinYear(t) \div 86400 - MonthDaysC(inLeapYear(t))[monthFromTime(t)] + 1
hourFromTime(t) == (t \div 3600) % 24
minFromTime(t)  == (t \div 60) % 60
secFromTime(t)  == t % 60
weekDay(t)      == (t \div 86400 + 4) % 7

(* What the getters give, without fractions.                               *)
localTime(t, behind) == t - behind
UTCGetters(t) ==
    [getFullYear |-> yearFromTime(t), getMonth |-> monthFromTime(t), getDate |-> dateFromTime(t),
     getHours |-> hourFromTime(t), getMinutes |-> minFromTime(t), getSeconds |-> secFromTime(t),
     getDay |-> weekDay(t)]
LocalGetters(t, behind) == UTCGetters(localTime(t, behind))
getTimezoneOffset(t, behind) == (t - localTime(t, behind)) \div 60

(* The parts of a time, which a setter takes and replaces some of.         *)
PartsOf(g) ==
    [year |-> g.getFullYear - 1900, mon |-> g.getMonth, mday |-> g.getDate,
     hour |-> g.getHours, min |-> g.getMinutes, sec |-> g.getSeconds]
Refused == [refused |-> TRUE]
Replaced(p, names, args) ==
    [n \in DOMAIN p |-> IF \E i \in DOMAIN names \cap DOMAIN args : names[i] = n
                        THEN args[PositionOf(n, names)] ELSE p[n]]
YearAllowed(y) == y \in 70 .. 99 \cup 1970 .. 2038
TmYear(y) == IF y <= 99 THEN y ELSE y - 1900

scriptCallSetDate(p, args) ==
    IF Len(args) # 1 THEN Refused ELSE Replaced(p, <<"mday">>, args)
scriptCallSetFullYear(p, args) ==
    IF Len(args) \notin 1 .. 2 THEN Refused
    ELSE IF ~YearAllowed(args[1]) THEN Refused
    ELSE Replaced(p, <<"year", "mon">>, [args EXCEPT ![1] = TmYear(@)])
scriptCallSetHours(p, args) ==
    IF Len(args) \notin 1 .. 4 THEN Refused ELSE Replaced(p, <<"hour", "min", "sec">>, args)
scriptCallSetMinutes(p, args) ==
    IF Len(args) \notin 1 .. 3 THEN Refused ELSE Replaced(p, <<"min", "sec">>, args)
scriptCallSetMonth(p, args) ==
    IF Len(args) \notin 1 .. 2 THEN Refused ELSE Replaced(p, <<"mon", "mday">>, args)
scriptCallSetSeconds(p, args) ==
    IF Len(args) \notin 1 .. 2 THEN Refused ELSE Replaced(p, <<"sec">>, args)

Setters == {"setDate", "setFullYear", "setHours", "setMinutes", "setMonth", "setSeconds"}
UTCSetters == Setters \ {"setDate"}      \* setUTCDate is not in the table of methods
PartsSet(name, p, args) ==
    CASE name = "setDate"     -> scriptCallSetDate(p, args)
      [] name = "setFullYear" -> scriptCallSetFullYear(p, args)
      [] name = "setHours"    -> scriptCallSetHours(p, args)
      [] name = "setMinutes"  -> scriptCallSetMinutes(p, args)
      [] name = "setMonth"    -> scriptCallSetMonth(p, args)
      [] name = "setSeconds"  -> scriptCallSetSeconds(p, args)

(* The time is not checked; and it is taken for a local one, even if a     *)
(* setter of universal time has asked for it.                              *)
setDate(parts, behind) == mkTime(parts) + behind
LocalSet(name, t, args, behind) ==
    LET parts == PartsSet(name, PartsOf(LocalGetters(t, behind)), args)
    IN  IF parts = Refused THEN t ELSE setDate(parts, behind)
UTCSet(name, t, args, behind) ==
    LET parts == PartsSet(name, PartsOf(UTCGetters(t)), args)
    IN  IF parts = Refused THEN t ELSE setDate(parts, behind)

(* A date made of two to six numbers, or of a text.  Months and days are   *)
(* taken modulo 12.                                                        *)
MadeOfNumbers(args, behind) ==
    LET Arg(n, default) == IF n <= Len(args) THEN args[n] ELSE default
    IN  setDate([year |-> TmYear(args[1]), mon |-> args[2] % 12, mday |-> Arg(3, 1) % 12,
                 hour |-> Arg(4, 0), min |-> Arg(5, 0), sec |-> Arg(6, 0)], behind)
MadeOfText(text) == parse(text).sec
TextsOfDate(t) == {toIso8601(Time(t, 0)), toRfc1123String(Time(t, 0)), toRfc850String(Time(t, 0))}
LocalTextOfDate(t, behind) == toAsctimeString(Time(localTime(t, behind), 0))

(***************************************************************************)
(* Arithmetic.                                                             *)
(***************************************************************************)
Equal(a, b) == a.sec = b.sec /\ a.nsec = b.nsec
Less(a, b) == IF a.sec # b.sec THEN a.sec < b.sec ELSE a.nsec < b.nsec
LessOrEqual(a, b) == IF a.sec # b.sec THEN a.sec < b.sec ELSE a.nsec <= b.nsec
Minus(a, b) ==
    LET n == a.nsec - b.nsec
    IN  IF n < 0 THEN Time(a.sec - 1 - b.sec, n + Second) ELSE Time(a.sec - b.sec, n)
Plus(a, b) ==
    LET n == a.nsec + b.nsec
    IN  IF n >= Second THEN Time(a.sec + 1 + b.sec, n - Second) ELSE Time(a.sec + b.sec, n)
Times(a, value) ==
    LET n == a.nsec * value IN Time(a.sec * value + n \div Second, n % Second)
DividedBy(a, value) ==
    Time(a.sec \div value, a.nsec \div value + (Second \div value) * (a.sec % value))

-------------------------------------------------------------------------------
(* Reference: the Gregorian calendar, and a time as nanoseconds.           *)
LeapYear(y) == y % 4 = 0 /\ (y % 100 # 0 \/ y % 400 = 0)
MonthLength(y, m) ==
    IF m = 2 THEN IF LeapYear(y) THEN 29 ELSE 28 ELSE IF m \in {4, 6, 9, 11} THEN 30 ELSE 31
Date(y, m, d) == m \in 1 .. 12 /\ d \in 1 .. MonthLength(y, m)
RECURSIVE DaysBefore(_, _)
DaysBefore(y, m) ==
    IF m > 1 THEN DaysBefore(y, m - 1) + MonthLength(y, m - 1)
    ELSE 365 * (y - 1970) + Cardinality({x \in 1970 .. y - 1 : LeapYear(x)})
(* The components, up to seconds, of a number of seconds.                  *)
Meant(c, seconds) ==
    /\ Date(c[1], c[2], c[3]) /\ c[4] \in 0 .. 23 /\ c[5] \in 0 .. 59 /\ c[6] \in 0 .. 59
    /\ (DaysBefore(c[1], c[2]) + c[3] - 1) * 86400 + c[4] * 3600 + c[5] * 60 + c[6] = seconds
(* A log line names its zone; east of Greenwich is positive.               *)
NamesZone(line, behind) == behind = -line.sign * (line.hour * 3600 + line.minutes * 60)
Total(t) == t.sec * Second + t.nsec
Normal(t) == t.nsec \in 0 .. Second - 1
(* The second of the day after a setter, where it was clock before.  The   *)
(* milliseconds may be given, and are not used.                            *)
ClockAfter(name, clock, args) ==
    LET units == CASE name = "setHours"   -> <<3600, 60, 1>>
                   [] name = "setMinutes" -> <<60, 1>>
                   [] name = "setSeconds" -> <<1>>
                   [] OTHER               -> <<>>
        Part(unit, old) ==
            IF \E i \in DOMAIN units \cap DOMAIN args : units[i] = unit
            THEN unit * args[PositionOf(unit, units)] ELSE unit * old
    IN  IF Len(args) \notin 1 .. Len(units) + 1 THEN clock
        ELSE (Part(3600, clock \div 3600) + Part(60, (clock \div 60) % 60) + Part(1, clock % 60))
             % 86400
===============================================================================
