------------------------------- MODULE JsData --------------------------------
(***************************************************************************)
(* What the script engine's programs are made of, each kind of it by       *)
(* itself: texts and their tokens, files that include each other, JSON     *)
(* texts of values, the counting of references to strings and objects,     *)
(* times, and the properties of objects and arrays.                        *)
(*                                                                         *)
(* A subject is given, and a result is computed from it, at once or, for   *)
(* values, the time zone, objects and arrays, by a sequence of calls.      *)
(***************************************************************************)
EXTENDS Integers, Sequences, FiniteSets, TLC, JsObjects

CONSTANTS CharOrder, Second,
          Texts,        \* texts for the scanner
          JsonValues,   \* values for JSON
          Moments,      \* seconds from 1970 on
          Spans,        \* times of few seconds
          ZonesBehind,  \* seconds a time zone is behind
          ZoneChanges,  \* the seconds it is behind before and after a change
          Pauses,       \* seconds between two calls
          Distances,    \* seconds from the clock to a time that is converted
          MaxAsked,     \* how often the time zone is asked for
          DatesMade,    \* arguments of the constructor of dates
          DateArguments, MaxSet,    \* of setters, and how many of them are called
          Files,        \* sets of files that include each other, by name
          MainFile      \* the name of the one given to the engine

Scanner == INSTANCE JsText
Lexer   == INSTANCE JsTextReference
Json    == INSTANCE JsJson
Clock   == INSTANCE JsTime
Preprocessor == INSTANCE JsPreprocess

(* Nothing has been computed yet.                                          *)
Open == [open |-> TRUE]

(* The time zone: the engine's statics, the clock, the questions asked so  *)
(* far with the times they were about, the answer to the last of them, and *)
(* the last local time without daylight saving with the time it is of.     *)
FirstAsked == 100000
AskedNothing == [statics |-> Clock!Unset, now |-> FirstAsked, asked |-> <<>>,
                 answer |-> Open, local |-> <<>>]

(* The zone changes some time after the first question.                    *)
BehindAt(time) == subject.changes[IF time < FirstAsked + 12 THEN 1 ELSE 2]
Questions ==
    {[name |-> name, away |-> 0] : name \in {"getLocalTime", "getLocalDSTime", "getApacheTime"}}
    \cup {[name |-> "toLocalDSTime", away |-> d] : d \in Distances}

(* A date: its time, the local second of its day as far as the script      *)
(* knows it, and the calls so far.                                         *)
Unknown == -1
Made(args, behind) ==
    [time |-> Clock!MadeOfNumbers(args, behind),
     clock |-> Clock!ClockAfter("setHours", 0, SubSeq(args, 4, Len(args))), calls |-> 0]
(* A date of which the getters are defined.                                *)
IsDate == result.time >= 0 /\ Clock!localTime(result.time, subject.behind) >= 0

DataInit ==
    \/ /\ \/ \E t \in Texts : subject = [kind |-> "text", text |-> t]
          \/ \E f \in Files : subject = [kind |-> "files", files |-> f]
          \/ \E v \in JsonValues, jb \in BOOLEAN :
                subject = [kind |-> "json", value |-> v, jb |-> jb]
          \/ \E s \in Moments : subject = [kind |-> "time", time |-> Clock!Time(s, 0)]
          \/ \E a \in Spans, b \in Spans, n \in 1 .. 3 :
                subject = [kind |-> "span", a |-> a, b |-> b, times |-> n]
       /\ result = Open
    \/ CountInit
    \/ subject \in {[kind |-> "zone", changes |-> z] : z \in ZoneChanges} /\ result = AskedNothing
    \/ \E behind \in ZonesBehind, args \in DatesMade :
          /\ subject = [kind |-> "date", behind |-> behind]
          /\ result = Made(args, behind)
    \/ ObjectInit
    \/ ArrayInit
    \/ ExternalInit

(* A text is scanned as it is, files when they have been preprocessed.     *)
IsText == subject.kind = "text" /\ result = Open
Preprocessed == subject.kind = "files" /\ result # Open /\ result.open
Scan ==
    /\ IsText \/ Preprocessed
    /\ LET text == IF IsText THEN subject.text ELSE result.made.output
       IN  result' = [open |-> FALSE, tokens |-> Scanner!setInput(text),
                      number |-> IF IsText THEN Scanner!toNumber(text) ELSE Scanner!NaN,
                      made |-> IF IsText THEN Preprocessor!Bad ELSE result.made]
    /\ UNCHANGED subject

Preprocess ==
    /\ subject.kind = "files" /\ result = Open
    /\ result' = [open |-> TRUE,
                  made |-> Preprocessor!preprocessFile(
                               [f \in DOMAIN subject.files |->
                                   Preprocessor!FileText(subject.files[f])], MainFile)]
    /\ UNCHANGED subject

Format ==
    /\ subject.kind = "json" /\ result = Open
    /\ result' = [text |-> Json!JsonFormatE(subject.value, subject.jb),
                  formatted |-> Json!format(subject.value, <<>>),
                  printed |-> IF Json!IsObject(subject.value)
                              THEN Json!print(subject.value, <<>>) ELSE <<>>]
    /\ UNCHANGED subject

Convert ==
    /\ subject.kind = "time" /\ result = Open
    /\ result' = [components |-> Clock!getComponents(subject.time),
                  rfc1123 |-> Clock!toRfc1123String(subject.time),
                  others |-> {Clock!toRfc850String(subject.time),
                              Clock!toAsctimeString(subject.time),
                              Clock!toIso8601(subject.time)}]
    /\ UNCHANGED subject

Calculate ==
    /\ subject.kind = "span" /\ result = Open
    /\ result' = [sum |-> Clock!Plus(subject.a, subject.b),
                  back |-> Clock!Minus(Clock!Plus(subject.a, subject.b), subject.b),
                  product |-> Clock!Times(subject.a, subject.times),
                  quotient |-> Clock!DividedBy(subject.a, subject.times)]
    /\ UNCHANGED subject

(* Some time later the local time is asked for, with or without daylight   *)
(* saving, for a log line, or for a time other than the clock's.  The      *)
(* zone's library tells the zone of the time asked about.                  *)
Ask ==
    /\ subject.kind = "zone" /\ Len(result.asked) < MaxAsked
    /\ \E pause \in Pauses, q \in Questions :
         LET now == result.now + pause
             time == now + q.away
             behind == BehindAt(time)
             statics == CASE q.name = "getLocalTime"  -> Clock!Zoned(result.statics, behind)
                          [] q.name = "getApacheTime" ->
                                Clock!ZonedApache(result.statics, time, behind)
                          [] OTHER -> Clock!ZonedDS(result.statics, time, behind)
             answer == CASE q.name = "getLocalTime" ->
                                Clock!toLocalTime(Clock!Time(time, 0), statics)
                         [] q.name = "getApacheTime" -> Clock!getApacheTime(time, statics)
                         [] OTHER -> Clock!toLocalDSTime(Clock!Time(time, 0), statics)
         IN  result' = [statics |-> statics, now |-> now, answer |-> answer,
                        asked |-> Append(result.asked, [name |-> q.name, time |-> time]),
                        local |-> IF q.name = "getLocalTime" THEN <<time, answer>>
                                  ELSE result.local]
    /\ UNCHANGED subject

(* A script sets a part of a date, in local or in universal time.          *)
SetLocal ==
    /\ subject.kind = "date" /\ IsDate /\ result.calls < MaxSet
    /\ \E name \in Clock!Setters, args \in DateArguments :
         result' = [time |-> Clock!LocalSet(name, result.time, args, subject.behind),
                    clock |-> IF result.clock = Unknown THEN Unknown
                              ELSE Clock!ClockAfter(name, result.clock, args),
                    calls |-> result.calls + 1]
    /\ UNCHANGED subject
SetUTC ==
    /\ subject.kind = "date" /\ IsDate /\ result.calls < MaxSet
    /\ \E name \in Clock!UTCSetters, args \in DateArguments :
         result' = [time |-> Clock!UTCSet(name, result.time, args, subject.behind),
                    clock |-> IF subject.behind # 0 THEN Unknown
                              ELSE Clock!ClockAfter(name, result.clock, args),
                    calls |-> result.calls + 1]
    /\ UNCHANGED subject

DataNext ==
    \/ Scan \/ Preprocess \/ Format \/ Convert \/ Calculate
    \/ Construct \/ Change \/ Ask \/ SetLocal \/ SetUTC
    \/ UseByScript \/ UseByHost \/ UseArray \/ UseExternal

-------------------------------------------------------------------------------
Done(kind) == subject.kind = kind /\ result # Open

(* A text is cut into the tokens ECMA-262's lexical grammar gives, each    *)
(* the longest that there is, with its value and its line; and a string    *)
(* means the number its grammar says.  What the engine has of its own, and *)
(* texts beyond its grammar, are left out.                                 *)
TokensAsEcma ==
    Done("text") =>
        LET lexemes == Lexer!Lexemes(subject.text, 1)
            own == \E i \in DOMAIN lexemes : Lexer!OwnLexeme(lexemes[i].text)
        IN  /\ ~Lexer!LegalText(lexemes) \/ own
               \/ result.tokens = Lexer!TokensMeant(subject.text, lexemes)
            /\ Lexer!OwnNumber(subject.text)
               \/ result.number = Lexer!NumberMeant(subject.text)

(* A file with the files it includes, however they are nested, is scanned  *)
(* as the tokens of all of them in their order, each on the line it has in *)
(* its own file, wherever comments and the last lines of files end; and a  *)
(* file that includes itself, at once or by others, is refused.            *)
FilesInPlace ==
    /\ Done("files") /\ ~result.open
    /\ \A f \in DOMAIN subject.files : Preprocessor!LegalItems(subject.files[f])
    =>  LET meant == Preprocessor!WordsMeant(subject.files, MainFile)
        IN  IF meant = Preprocessor!NoWords THEN result.made = Preprocessor!Bad
            ELSE /\ result.made # Preprocessor!Bad
                 /\ result.tokens = meant
                 /\ result.made.included =
                        Preprocessor!Reached(subject.files, {MainFile}) \ {MainFile}

(* The texts that must be read as the value v, and the beginnings of them  *)
(* that must not be read as anything.                                      *)
TextsToRead(v) ==
    {[text |-> t, whole |-> TRUE] :
        t \in {t \in {result.text} : Json!ReadsBack(v)}
             \cup {t \in {result.formatted} : Json!FormatReadsBack(v)}}
    \cup {[text |-> SubSeq(result.text, 1, n), whole |-> FALSE] :
            n \in {n \in 0 .. Len(result.text) - 1 : Json!IsObject(v) /\ Json!ReadsBack(v)}}
ReadRight(t, v, r) == IF t.whole THEN r = Json!Read(Len(t.text) + 1, v) ELSE r.at < 1

(* The JSON text of a value is read back to its end as the same value,     *)
(* whether it is broken into lines or not, and no beginning of the text of *)
(* an object is taken for one; and so are the texts written for people,    *)
(* all of them by the same reader.  The values the engine is not able to   *)
(* write are left out.                                                     *)
ValuesReadBack ==
    Done("json") =>
        LET v == subject.value
        IN  /\ \A t \in TextsToRead(v) : ReadRight(t, v, Json!JsonUnformatE(t.text))
            /\ v.type = "object" /\ Json!FormatReadsBack(v) =>
                  Json!readMembers(result.printed) = Json!Read(Len(result.printed) + 1, v)

(* What a date says of its time is what the time says, and its texts make  *)
(* a date of the same time.  It has the local time of day that was set,    *)
(* whatever else is set in between and however far a part exceeds its      *)
(* range; by setters of universal time, at Greenwich only.  The day, the   *)
(* month and the year are left out.                                        *)
DateRight(d, behind) ==
    LET local == Clock!localTime(d.time, behind)
        got == Clock!LocalGetters(d.time, behind)
        Says(g, t) == LET c == Clock!getComponents(t)
                      IN  /\ <<g.getHours, g.getMinutes, g.getSeconds>> = <<c[4], c[5], c[6]>>
                          /\ Clock!Days[g.getDay + 1] = Clock!toRfc1123String(t)[1]
    IN  /\ Says(got, Clock!Time(local, 0))
        /\ Says(Clock!UTCGetters(d.time), Clock!Time(d.time, 0))
        /\ Clock!getTimezoneOffset(d.time, behind) * 60 = behind
        /\ d.clock = Unknown
           \/ d.clock = got.getHours * 3600 + got.getMinutes * 60 + got.getSeconds
        /\ d.calls = 0 =>
              /\ \A text \in Clock!TextsOfDate(d.time) : Clock!MadeOfText(text) = d.time
              /\ Clock!MadeOfText(Clock!LocalTextOfDate(d.time, behind)) = local

(* A time has the date the calendar says, every text of it is read as this *)
(* time and these components give it; arithmetic is that of nanoseconds,   *)
(* where a quotient is short of less than the square of the divisor; and   *)
(* the date objects of scripts keep the time of day they are given.        *)
TimesConvert ==
    /\ Done("time") =>
         /\ Clock!Meant(result.components, subject.time.sec)
         /\ Clock!setComponents(result.components) = subject.time
         /\ \A text \in result.others \cup {result.rfc1123} : Clock!parse(text) = subject.time
         /\ Clock!TimeOfString(result.rfc1123) = subject.time
         /\ result.components[4] = Clock!getHour(subject.time)
         /\ result.components[5] = Clock!getMinute(subject.time)
    /\ Done("span") =>
         /\ \A r \in {result.sum, result.product, result.quotient} : Clock!Normal(r)
         /\ Clock!Total(result.sum) = Clock!Total(subject.a) + Clock!Total(subject.b)
         /\ Clock!Equal(result.back, subject.a)
         /\ Clock!Total(result.product) = Clock!Total(subject.a) * subject.times
         /\ Clock!Total(subject.a) - Clock!Total(result.quotient) * subject.times
                \in 0 .. subject.times * (subject.times - 1)
         /\ Clock!Less(subject.a, subject.b) <=> Clock!Total(subject.a) < Clock!Total(subject.b)
         /\ Clock!LessOrEqual(subject.a, subject.b) <=> ~Clock!Less(subject.b, subject.a)
    /\ subject.kind = "date" /\ IsDate => DateRight(result, subject.behind)

(* The questions that use the zone with daylight saving; and a log line    *)
(* that is the first of them for more than ten seconds, where afterwards   *)
(* the others ask only about times up to ten seconds after it.             *)
Daylight == {i \in DOMAIN result.asked : result.asked[i].name # "getLocalTime"}
LogLeads(i) ==
    /\ result.asked[i].name = "getApacheTime"
    /\ \A j \in Daylight :
          /\ j < i => result.asked[j].time + 10 < result.asked[i].time
          /\ j > i => \/ result.asked[j].name = "getApacheTime"
                      \/ result.asked[j].time <= result.asked[i].time + 10

(* However questions of all kinds follow each other, a local time with     *)
(* daylight saving is in the zone of a time asked about that is at most    *)
(* ten seconds before its own; so the clock's is out of date for no longer *)
(* than that, unless it is in the zone of a later time that was converted. *)
(* A log line names a zone that was in force at a log line's time, or none *)
(* was yet; it names the zone its own time is in, once log lines lead.  A  *)
(* local time without daylight saving is turned back into the time it is   *)
(* of, whatever was asked and however the zone changed in between.         *)
ZoneFresh ==
    subject.kind = "zone" /\ result.asked # <<>> =>
        LET n == Len(result.asked)
            time == result.asked[n].time
            line == result.answer
            local == IF result.asked[n].name = "getApacheTime" THEN Clock!mkTime(line.local)
                     ELSE result.answer.sec
        IN  /\ n \in Daylight =>
                  \E i \in Daylight : /\ result.asked[i].time >= time - 10
                                      /\ local = time - BehindAt(result.asked[i].time)
            /\ result.asked[n].name = "getApacheTime" =>
                  /\ \/ Clock!NamesZone(line, 0)
                     \/ \E i \in Daylight : /\ result.asked[i].name = "getApacheTime"
                                            /\ Clock!NamesZone(line, BehindAt(result.asked[i].time))
                  /\ (\E i \in Daylight : LogLeads(i)) => Clock!NamesZone(line, time - local)
            /\ result.local # <<>> =>
                  Clock!toUtcTime(result.local[2], result.statics) = Clock!Time(result.local[1], 0)

===============================================================================
