-------------------------------- MODULE JsJson --------------------------------
(***************************************************************************)
(* JSON texts of the script engine: ScriptValue::jsonFormat and the        *)
(* readers of ScriptObject and ScriptObjectArray.                          *)
(*                                                                         *)
(* A value has a type and a content; that of an object or an array is its  *)
(* table of properties by name, a name being a sequence of characters.  An *)
(* array has a length besides.  No property has attributes.                *)
(***************************************************************************)
EXTENDS JsText

CONSTANT CharOrder     \* the characters of names in their order

Value(type, content) == [type |-> type, content |-> content, length |-> 0]
Null      == Value("null", <<>>)
Undefined == Value("undefined", <<>>)
Exception == Read(0, Undefined)

ObjectE(props) == Value("object", props)
ArrayE(props, length) == [type |-> "array", content |-> props, length |-> length]
IsObject(v) == v.type \in {"object", "array"}
Empty == [name \in {} |-> Null]

PrototypeC == <<"p", "r", "o", "t", "o", "t", "y", "p", "e">>
ValueC     == <<"v", "a", "l", "u", "e">>

(***************************************************************************)
(* Numbers and names as text.                                              *)
(***************************************************************************)
DigitChar(n) == CHOOSE c \in DOMAIN Digits : Digits[c] = n
RECURSIVE IntegerText(_)
IntegerText(n) == IF n < 10 THEN <<DigitChar(n)>>
                  ELSE Append(IntegerText(n \div 10), DigitChar(n % 10))
Zeros(n) == [i \in 1 .. n |-> "0"]

(* A stream with a precision of 15 digits.                                 *)
NumberText(n) ==
    LET d == IntegerText(IF n[1] < 0 THEN -n[1] ELSE n[1])
        x == Len(d) + n[2] - 1
        exponent == IntegerText(IF x < 0 THEN -x ELSE x)
        minus == IF n[1] < 0 THEN <<"-">> ELSE <<>>
    IN  minus \o
        CASE x < -4 \/ x >= 15 ->
                <<d[1]>> \o (IF Len(d) > 1 THEN <<".">> \o Tail(d) ELSE <<>>)
                \o <<"e", IF x < 0 THEN "-" ELSE "+">>
                \o Zeros(2 - Len(exponent)) \o exponent
          [] x >= -4 /\ x < 15 /\ n[2] >= 0 -> d \o Zeros(n[2])
          [] x \in 0 .. 14 /\ n[2] < 0 ->
                SubSeq(d, 1, x + 1) \o <<".">> \o SubSeq(d, x + 2, Len(d))
          [] OTHER -> <<"0", ".">> \o Zeros(-x - 1) \o d

(* Names are enumerated in the order of a map of strings.                  *)
Place(c) == CHOOSE i \in DOMAIN CharOrder : CharOrder[i] = c
Before(a, b) ==
    \E n \in 0 .. Len(a) :
        /\ n < Len(b) /\ SubSeq(a, 1, n) = SubSeq(b, 1, n)
        /\ n < Len(a) => Place(a[n + 1]) < Place(b[n + 1])
getNameOfFirstProperty(names) ==
    CHOOSE a \in names : \A b \in names \ {a} : Before(a, b)
getNameOfNextProperty(names, a) ==
    getNameOfFirstProperty({b \in names : Before(a, b)})

(***************************************************************************)
(* Writing.  With the option "jb" the text is broken into lines.  The      *)
(* value undefined has no text, and throws: Failed.                        *)
(***************************************************************************)
Failed == <<"failed">>
Word(w) == CASE w = "true"  -> <<"t", "r", "u", "e">>
             [] w = "false" -> <<"f", "a", "l", "s", "e">>
             [] w = "null"  -> <<"n", "u", "l", "l">>
             [] w = "undefined" -> <<"u", "n", "d", "e", "f", "i", "n", "e", "d">>
             [] w = "NaN" -> <<"N", "a", "N">>
Indent == <<" ", " ", " ">>

RECURSIVE jsonFormat(_, _, _), Members(_, _, _, _)
(* The members from the one named a on.                                    *)
Members(v, a, jb, prefix) ==
    LET value == v.content[a]
        broken == jb /\ IsObject(value)
        label == IF v.type = "array" THEN <<>>
                 ELSE (IF jb THEN prefix \o Indent ELSE <<>>) \o <<"\"">> \o a \o <<"\"", ":">>
                      \o (IF broken THEN <<LF>> ELSE <<>>)
        text == jsonFormat(value, jb, prefix \o Indent)
        last == \A b \in DOMAIN v.content : ~Before(a, b)
        rest == IF last THEN <<>>
                ELSE Members(v, getNameOfNextProperty(DOMAIN v.content, a), jb, prefix)
    IN  IF text = Failed \/ rest = Failed THEN Failed
        ELSE label \o (IF broken THEN prefix \o Indent ELSE <<>>) \o text
             \o (IF last THEN <<>> ELSE IF jb THEN <<",", LF>> ELSE <<",">>) \o rest

jsonFormat(v, jb, prefix) ==
    CASE v.type = "boolean" -> Word(IF v.content THEN "true" ELSE "false")
      [] v.type = "null" -> Word("null")
      [] v.type = "number" -> IF v.content = NaN THEN Word("NaN") ELSE NumberText(v.content)
      [] v.type = "string" -> <<"\"">> \o v.content \o <<"\"">>
      [] v.type = "undefined" -> Failed
      [] IsObject(v) ->
            LET open  == IF v.type = "array" THEN "[" ELSE "{"
                close == IF v.type = "array" THEN "]" ELSE "}"
                members == Members(v, getNameOfFirstProperty(DOMAIN v.content), jb, prefix)
            IN  IF DOMAIN v.content = {} THEN <<open, close>>
                ELSE IF members = Failed THEN Failed
                ELSE <<open>> \o (IF jb THEN <<LF>> ELSE <<>>) \o members
                     \o (IF jb THEN <<LF>> \o prefix ELSE <<>>) \o <<close>>

(* The text of a value for people: members with a sign of equality and a   *)
(* semicolon, arrays like objects.                                         *)
Scalar(v) ==
    CASE v.type = "boolean" -> Word(IF v.content THEN "true" ELSE "false")
      [] v.type = "number" -> IF v.content = NaN THEN Word("NaN") ELSE NumberText(v.content)
      [] v.type = "string" -> <<"\"">> \o v.content \o <<"\"">>
      [] OTHER -> Word(v.type)
Label(prefix, a) == prefix \o <<"\"">> \o a \o <<"\"", " ", "=", " ">>
RECURSIVE Ordered(_)
Ordered(names) == IF names = {} THEN <<>>
                  ELSE LET first == getNameOfFirstProperty(names)
                       IN  <<first>> \o Ordered(names \ {first})
NamesInOrder(v) == Ordered(DOMAIN v.content)
RECURSIVE Lined(_)
Lined(texts) == IF Len(texts) < 2 THEN texts[1]
                ELSE texts[1] \o <<";", LF>> \o Lined(Tail(texts))

RECURSIVE format(_, _), print(_, _)
format(v, prefix) ==
    LET names == NamesInOrder(v)
        inner == prefix \o Indent
        Member(a) == Label(inner, a)
                     \o (IF IsObject(v.content[a]) THEN <<LF>> \o inner ELSE <<>>)
                     \o format(v.content[a], inner)
    IN  IF ~IsObject(v) THEN Scalar(v)
        ELSE IF DOMAIN v.content = {} THEN <<"{", " ", "}">>
        ELSE <<"{", LF>> \o Lined([i \in DOMAIN names |-> Member(names[i])])
             \o <<LF>> \o prefix \o <<"}">>

(* The members of an object, without its braces.                           *)
print(v, prefix) ==
    LET names == NamesInOrder(v)
        Member(w) == IF IsObject(w)
                     THEN <<LF>> \o prefix \o <<"{", LF>> \o print(w, prefix \o Indent)
                          \o <<LF>> \o prefix \o <<"}">>
                     ELSE Scalar(w)
    IN  IF DOMAIN v.content = {} THEN <<>>
        ELSE Lined([i \in DOMAIN names |-> Label(prefix, names[i]) \o Member(v.content[names[i]])])

(***************************************************************************)
(* Properties.  A property its object does not have, but its prototype     *)
(* does, is updated there.  A prototype that is no object becomes one when *)
(* it is asked for; null and undefined cannot, and throw: Undefined.       *)
(***************************************************************************)
With(v, name, value) == [v EXCEPT !.content = (name :> value) @@ v.content]
convertToObject(v) ==
    CASE IsObject(v) -> v
      [] v.type \in {"boolean", "number", "string"} -> ObjectE(ValueC :> v)
      [] OTHER -> Undefined

(* The object after the update, Null if it does not have the property.     *)
RECURSIVE updateProperty(_, _, _)
updateProperty(v, name, value) ==
    CASE name \in DOMAIN v.content -> With(v, name, value)
      [] name \notin DOMAIN v.content /\ PrototypeC \in DOMAIN v.content ->
            LET p == convertToObject(v.content[PrototypeC])
                updated == updateProperty(p, name, value)
            IN  IF p = Undefined \/ updated = Undefined THEN Undefined
                ELSE IF updated = Null THEN Null ELSE With(v, PrototypeC, updated)
      [] OTHER -> Null

putProperty(v, name, value) ==
    IF name \in DOMAIN v.content \/ PrototypeC \notin DOMAIN v.content
    THEN With(v, name, value)
    ELSE LET p == convertToObject(v.content[PrototypeC])
             updated == updateProperty(p, name, value)
         IN  IF p = Undefined \/ updated = Undefined THEN Undefined
             ELSE IF updated # Null THEN With(v, PrototypeC, updated)
             ELSE With(With(v, PrototypeC, p), name, value)

(* An element of an array, which grows with it.                            *)
\* Mutant: the length stays what it was.
putElement_LengthKept(v, index, value) == putProperty(v, IntegerText(index), value)
putElement(v, index, value) ==
    [putProperty(v, IntegerText(index), value) EXCEPT
        !.length = IF index >= v.length THEN index + 1 ELSE v.length]

(***************************************************************************)
(* Reading.                                                                *)
(***************************************************************************)
SkipWhite(t, i) == Past(t, i, White)
SkipSeparator(t, i) ==
    SkipWhite(t, IF At(t, i) \in {";", ","} THEN i + 1 ELSE i)

(* A name is a number as a stream writes it, a string or a word.           *)
NumberName(n) == Read(n.at, NumberText(n.value))
WordAt(t, i) == LET j == Past(t, i + 1, NameChars) IN Read(j, SubSeq(t, i, j - 1))
NotEmpty(r) == IF r.value = <<>> THEN Exception ELSE r
readPropertyName(t, i) ==
    NotEmpty(CASE At(t, i) \in DOMAIN Digits -> NumberName(getNumber(t, i))
               [] At(t, i) \in {"'", "\""} -> getString(t, i)
               [] OTHER -> WordAt(t, i))

(* The words a value begins with; f and t are Boolean, n null.             *)
Words == [f |-> {"true", "false"}, t |-> {"true", "false"}, n |-> {"null"},
          u |-> {"undefined"}]
Meanings == [true |-> Value("boolean", TRUE), false |-> Value("boolean", FALSE),
             null |-> Null, undefined |-> Undefined]
readWord(t, i) ==
    LET w == WordAt(t, i)
        matching == {x \in Words[t[i]] : Word(x) = w.value}
    IN  IF matching = {} THEN Exception
        ELSE Read(w.at, Meanings[CHOOSE x \in matching : TRUE])

RECURSIVE readPropertyValue(_, _), readObject(_, _, _), readArray(_, _, _, _),
          AfterName(_, _, _, _), AfterValue(_, _, _, _), AfterMember(_, _, _),
          AfterElement(_, _, _, _)

(* The members of an object, and the elements of an array, from the place  *)
(* i on, or when a part of one has been read; what ends them is left to    *)
(* the caller.                                                             *)
readObject(t, i, v) ==
    IF At(t, i) \in {"", "}", "]"} THEN Read(i, v)
    ELSE LET name == readPropertyName(t, i) IN AfterName(t, v, name, SkipWhite(t, name.at))
AfterName(t, v, name, i) ==
    IF name.at < 1 THEN name
    ELSE IF At(t, i) \notin {"=", ":"} THEN Exception
    ELSE AfterValue(t, v, name.value, readPropertyValue(t, SkipWhite(t, i + 1)))
AfterValue(t, v, name, value) ==
    IF value.at < 1 THEN value
    ELSE AfterMember(t, value.at, putProperty(v, name, value.value))
AfterMember(t, i, with) ==
    IF with = Undefined THEN Exception
    ELSE readObject(t, SkipSeparator(t, SkipWhite(t, i)), with)

readArray(t, i, v, index) ==
    IF At(t, i) \in {"", "]"} THEN Read(i, v)
    ELSE AfterElement(t, v, index, readPropertyValue(t, i))
AfterElement(t, v, index, value) ==
    IF value.at < 1 THEN value
    ELSE readArray(t, SkipSeparator(t, SkipWhite(t, value.at)),
                   putElement(v, index, value.value), index + 1)

Closed(t, r, close) ==
    IF r.at < 1 THEN r ELSE IF At(t, r.at) # close THEN Exception
    ELSE Read(r.at + 1, r.value)

Literal(type, r) == Read(r.at, Value(type, r.value))
readPropertyValue(t, i) ==
    LET c == At(t, i)
    IN  CASE c \in {"'", "\""} -> Literal("string", getString(t, i))
          [] c \in DOMAIN Digits -> Literal("number", getNumber(t, i))
          [] c \in DOMAIN Words -> readWord(t, i)
          [] c = "{" -> Closed(t, readObject(t, SkipWhite(t, i + 1), ObjectE(Empty)), "}")
          [] c = "[" -> Closed(t, readArray(t, SkipWhite(t, i + 1), ArrayE(Empty, 0), 0), "]")
          [] OTHER -> Exception

(* JSON's functions, which begin at the first character.                   *)
JsonFormatE(v, jb) == jsonFormat(v, jb, <<>>)
JsonUnformatE(t) == readPropertyValue(t, 1)

(* The members an object is told to read.                                  *)
readMembers(t) == readObject(t, SkipWhite(t, 1), ObjectE(Empty))

-------------------------------------------------------------------------------
(* Reference: the values whose JSON text the engine reads back.  Its own   *)
(* ways: strings are not escaped; a number has no sign and no exponent;    *)
(* NaN and undefined cannot be read or written; an array of more than ten  *)
(* elements is written in the order of its indices as strings; a property  *)
(* named "prototype" is one to the reader, for the names after it.         *)
(***************************************************************************)
Plain(s) == \A i \in DOMAIN s : s[i] \notin {"\"", "\\", LF, CR}
RECURSIVE ReadsBack(_)
ReadsBack(v) ==
    CASE v.type = "string" -> Plain(v.content)
      [] v.type = "number" ->
            /\ v.content # NaN /\ v.content[1] >= 0
            /\ Len(IntegerText(v.content[1])) + v.content[2] - 1 \in -4 .. 14
      [] v.type = "undefined" -> FALSE
      [] IsObject(v) ->
            /\ \A a \in DOMAIN v.content : ReadsBack(v.content[a]) /\ Plain(a) /\ a # <<>>
            /\ v.type = "object" /\ PrototypeC \in DOMAIN v.content =>
                    \A a \in DOMAIN v.content : ~Before(PrototypeC, a)
            /\ v.type = "array" => /\ v.length <= 10
                                   /\ DOMAIN v.content = {IntegerText(i) : i \in 0 .. v.length - 1}
      [] OTHER -> TRUE

(* The texts for people have no arrays, but the word undefined.            *)
RECURSIVE FormatReadsBack(_)
FormatReadsBack(v) ==
    CASE v.type = "undefined" -> TRUE
      [] v.type = "array" -> FALSE
      [] v.type = "object" ->
            /\ \A a \in DOMAIN v.content : FormatReadsBack(v.content[a]) /\ Plain(a) /\ a # <<>>
            /\ PrototypeC \in DOMAIN v.content => \A a \in DOMAIN v.content : ~Before(PrototypeC, a)
      [] OTHER -> ReadsBack(v)
===============================================================================
