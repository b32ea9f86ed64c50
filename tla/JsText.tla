-------------------------------- MODULE JsText --------------------------------
(***************************************************************************)
(* The scanner of the script engine, JsScriptScanner.cpp and               *)
(* JsScannerUtilities.cpp: characters to tokens.                           *)
(*                                                                         *)
(* A text is a sequence of characters; a cursor is the place (at) and the  *)
(* line the scanner has come to.  The column, which only messages show, is *)
(* left out.  A number is its decimal mantissa and exponent, without the   *)
(* rounding of a double.  Reading on beyond the zero byte that ends the    *)
(* text, which the code does in a string without an end, gives Beyond: it  *)
(* stands for whatever may follow.                                         *)
(***************************************************************************)
EXTENDS Integers, Sequences, FiniteSets, TLC

LF == "\n"
CR == "\r"
White     == {" ", "\t", "\f", LF, CR}
Spaces    == {" ", "\t"}
Digits    == [c \in {"0", "1", "2", "3", "4", "5", "6", "7", "8", "9"} |->
                CHOOSE n \in 0 .. 9 : ToString(n) = c]
HexDigits == Digits @@ ("a" :> 10) @@ ("b" :> 11) @@ ("c" :> 12) @@ ("d" :> 13)
                    @@ ("e" :> 14) @@ ("f" :> 15) @@ ("A" :> 10) @@ ("B" :> 11)
                    @@ ("C" :> 12) @@ ("D" :> 13) @@ ("E" :> 14) @@ ("F" :> 15)
Letters   == {"a", "b", "c", "d", "e", "f", "g", "h", "i", "j", "k", "l", "m",
              "n", "o", "p", "q", "r", "s", "t", "u", "v", "w", "x", "y", "z",
              "A", "B", "C", "D", "E", "F", "X"}
NameChars == Letters \cup DOMAIN Digits \cup {"$", "_"}

(* The character at a place, and the zero byte at the end.                 *)
At(t, i) == IF i <= Len(t) THEN t[i] ELSE ""

(* The first place from i on with one of the characters cs, or without.    *)
Until(t, i, cs) ==
    CHOOSE j \in i .. Len(t) + 1 : /\ j <= Len(t) => t[j] \in cs
                                   /\ \A k \in i .. j - 1 : t[k] \notin cs
Past(t, i, cs) == Until(t, i, {t[k] : k \in DOMAIN t} \ cs)

RECURSIVE Str(_)
Str(s) == IF s = <<>> THEN "" ELSE Head(s) \o Str(Tail(s))

(* A cursor at j, with the line feeds up to there counted.                 *)
Cursor(at, line) == [at |-> at, line |-> line]
Goto(t, p, j) ==
    Cursor(j, p.line + Cardinality({k \in p.at .. j - 1 : t[k] = LF}))

skipStringWhiteSpace(t, p) == Goto(t, p, Past(t, p.at, White))
skipSingleLineComment(t, p) ==
    LET j == Until(t, p.at, {LF, CR}) IN Goto(t, p, IF j > Len(t) THEN j ELSE j + 1)
skipMultiLineComment(t, p) ==
    LET ends == {j \in p.at .. Len(t) - 1 : t[j] = "*" /\ t[j + 1] = "/"}
    IN  Goto(t, p, IF ends = {} THEN Len(t) + 1
                   ELSE 2 + CHOOSE j \in ends : \A k \in ends : j <= k)

RECURSIVE skipWhiteSpaceAndComments(_, _), skipComments(_, _)
skipWhiteSpaceAndComments(t, p) == skipComments(t, skipStringWhiteSpace(t, p))
skipComments(t, w) ==
    LET in == Cursor(w.at + 2, w.line)
    IN  CASE At(t, w.at) = "/" /\ At(t, w.at + 1) = "/" ->
                skipWhiteSpaceAndComments(t, skipSingleLineComment(t, in))
          [] At(t, w.at) = "/" /\ At(t, w.at + 1) = "*" ->
                skipWhiteSpaceAndComments(t, skipMultiLineComment(t, in))
          [] OTHER -> w

-------------------------------------------------------------------------------
(* Numbers.  After a sign no digits of the exponent are read.              *)
Read(at, value) == [at |-> at, value |-> value]

RECURSIVE Decimal(_, _)
Decimal(m, e) == IF m = 0 THEN <<0, 0>>
                 ELSE IF m % 10 = 0 THEN Decimal(m \div 10, e + 1) ELSE <<m, e>>

RECURSIVE DigitsValue(_, _)
DigitsValue(s, base) ==
    IF s = <<>> THEN 0
    ELSE DigitsValue(SubSeq(s, 1, Len(s) - 1), base) * base + HexDigits[s[Len(s)]]

(* The digits from i on, up to j.                                          *)
DigitsTo(t, i, j, base) == Read(j, DigitsValue(SubSeq(t, i, j - 1), base))
getDecimalDigits(t, i) == DigitsTo(t, i, Past(t, i, DOMAIN Digits), 10)

getExponentPart(t, i) ==
    CASE At(t, i) \notin {"e", "E"} -> Read(i, 0)
      [] At(t, i + 1) \in {"+", "-"} -> Read(i + 2, 0)
      [] At(t, i + 1) \in DOMAIN Digits -> getDecimalDigits(t, i + 1)
      [] OTHER -> Read(i, 0)

(* The number of an integer, n digits f after the dot, and an exponent x.  *)
Composed(integer, f, n, x) == Read(x.at, Decimal(integer * 10 ^ n + f, x.value - n))

(* The number that goes on after its integer d, and after its digits f     *)
(* behind the dot at i.                                                    *)
Fraction(t, i, integer, f) ==
    Composed(integer, f.value, f.at - (i + 1), getExponentPart(t, f.at))
AfterInteger(t, d) ==
    IF At(t, d.at) = "." /\ At(t, d.at + 1) \in DOMAIN Digits
    THEN Fraction(t, d.at, d.value, getDecimalDigits(t, d.at + 1))
    ELSE Composed(d.value, 0, 0, getExponentPart(t, d.at))
getDecimalNumber(t, i) ==
    CASE At(t, i) = "." -> Fraction(t, i, 0, getDecimalDigits(t, i + 1))
      [] At(t, i) \in DOMAIN Digits -> AfterInteger(t, getDecimalDigits(t, i))
      [] OTHER -> Read(i, <<0, 0>>)

getHexadecimalNumber(t, i) ==
    LET r == DigitsTo(t, i, Past(t, i, DOMAIN HexDigits), 16)
    IN  Read(r.at, Decimal(r.value, 0))

(* A number begins with a digit; the place is 0 if there is none.          *)
getNumber(t, i) ==
    IF At(t, i) \notin DOMAIN Digits THEN Read(0, <<0, 0>>)
    ELSE IF t[i] = "0" /\ At(t, i + 1) \in {"x", "X"} THEN getHexadecimalNumber(t, i + 2)
    ELSE getDecimalNumber(t, i)

(* What a string means as a number.                                        *)
NaN == <<>>
Signed(sign, n) == <<IF sign = "-" THEN -n[1] ELSE n[1], n[2]>>
Whole(t, sign, r) ==
    IF r.at = 0 \/ Past(t, r.at, White) <= Len(t) THEN NaN ELSE Signed(sign, r.value)
toNumber(t) ==
    LET i == Past(t, 1, White)
    IN  IF i > Len(t) THEN <<0, 0>>
        ELSE Whole(t, t[i], getNumber(t, IF t[i] \in {"+", "-"} THEN i + 1 ELSE i))

-------------------------------------------------------------------------------
(* Names and strings.                                                      *)
getIdentifier(t, i) == LET j == Past(t, i + 1, NameChars) IN Read(j, Str(SubSeq(t, i, j - 1)))

(* The escapes of one character; a character without a meaning of its own  *)
(* stands for itself.                                                      *)
Escapes == ("0" :> "NUL") @@ ("b" :> "BS") @@ ("t" :> "\t") @@ ("n" :> LF)
           @@ ("v" :> "VT") @@ ("f" :> "\f") @@ ("r" :> CR)
CharOf(n) == "chr" \o ToString(n)

(* The place 0 is an exception, and -1 beyond the end of the text.         *)
getEscapeCharacter(t, i) ==
    CASE At(t, i + 1) = "" -> Read(-1, "")
      [] At(t, i + 1) = "x" ->
            IF /\ At(t, i + 2) \in DOMAIN HexDigits /\ At(t, i + 3) \in DOMAIN HexDigits
            THEN Read(i + 4, CharOf(HexDigits[t[i + 2]] * 16 + HexDigits[t[i + 3]]))
            ELSE Read(0, "")
      [] At(t, i + 1) \in DOMAIN Escapes -> Read(i + 2, Escapes[t[i + 1]])
      [] OTHER -> Read(i + 2, t[i + 1])

RECURSIVE StringRest(_, _, _, _)
StringRest(t, i, stringTerminator, result) ==
    CASE At(t, i) = "" -> Read(-1, result)
      [] At(t, i) \in {LF, CR} -> Read(0, result)
      [] At(t, i) = stringTerminator -> Read(i + 1, result)
      [] At(t, i) = "\\" ->
            LET e == getEscapeCharacter(t, i)
            IN  IF e.at < 1 THEN e
                ELSE StringRest(t, e.at, stringTerminator, Append(result, e.value))
      [] OTHER -> StringRest(t, i + 1, stringTerminator, Append(result, t[i]))
getString(t, i) == StringRest(t, i + 1, t[i], <<>>)

-------------------------------------------------------------------------------
(* Tokens.  A keyword and a punctuator are their own type of token.        *)
Keywords ==
    {"$line", "break", "case", "catch", "continue", "default", "delete", "do",
     "else", "false", "finally", "for", "function", "if", "in", "instanceof",
     "new", "null", "return", "switch", "this", "throw", "true", "try",
     "typeof", "undefined", "var", "void", "while", "with"}

Token(token, value, at, line) ==
    [token |-> token, value |-> value, at |-> at, line |-> line]
NumberToken(r, line) == Token("Number", r.value, r.at, line)
StringToken(r, line) ==
    Token(CASE r.at = 0 -> "Error" [] r.at = -1 -> "Beyond" [] OTHER -> "String",
          r.value, r.at, line)
PunctuatorToken(r, line) == Token(r.value, <<>>, r.at, line)
NameToken(r, keywords, line) ==
    Token(IF r.value \in keywords THEN r.value ELSE "Identifier", <<r.value>>, r.at, line)
scanKeywordOrIdentifier(t, p) == NameToken(getIdentifier(t, p.at), Keywords, p.line)

(* With which characters a punctuator goes on.                             *)
ArithmeticPunctuators ==
    ("!" :> {"="}) @@ ("!=" :> {"="}) @@ ("%" :> {"="}) @@ ("&" :> {"&", "="})
    @@ ("*" :> {"="}) @@ ("+" :> {"+", "="}) @@ ("-" :> {"-", "="}) @@ ("/" :> {"="})
    @@ [c \in {"(", ")", ",", ".", ":", ";"} |-> {}]
\* Mutant: no assignment operator is made of the longest shift.
ShiftPunctuators_NoAssignment ==
    ("<" :> {"=", "<"}) @@ ("<<" :> {"="}) @@ ("=" :> {"="}) @@ ("==" :> {"="})
    @@ (">" :> {"=", ">"}) @@ (">>" :> {"=", ">"}) @@ (">>>" :> {})
ShiftPunctuators ==
    ("<" :> {"=", "<"}) @@ ("<<" :> {"="}) @@ ("=" :> {"="}) @@ ("==" :> {"="})
    @@ (">" :> {"=", ">"}) @@ (">>" :> {"=", ">"}) @@ (">>>" :> {"="})
OtherPunctuators ==
    ("^" :> {"="}) @@ ("|" :> {"|", "="}) @@ [c \in {"?", "[", "]", "{", "}", "~"} |-> {}]
Punctuators == ArithmeticPunctuators @@ ShiftPunctuators @@ OtherPunctuators

RECURSIVE Punctuator(_, _, _)
Punctuator(t, i, s) ==
    IF s \in DOMAIN Punctuators /\ At(t, i) \in Punctuators[s]
    THEN Punctuator(t, i + 1, s \o t[i]) ELSE Read(i, s)

(* A line that begins with '#': a comment, or the line's number and file.  *)
Truncated(n) == IF n[2] >= 0 THEN n[1] * 10 ^ n[2] ELSE n[1] \div 10 ^ (-n[2])
NoCursor == Cursor(0, 0)
AfterLineNumber(t, newLine) ==
    LET j == Past(t, newLine.at, Spaces)
        k == Until(t, j + 1, {"\"", LF})
        Renumbered(i) == Cursor(skipSingleLineComment(t, Cursor(i, 0)).at,
                                Truncated(newLine.value))
    IN  CASE At(t, j) # "\"" -> Renumbered(j)
          [] At(t, j) = "\"" /\ At(t, k) # "\"" -> NoCursor
          [] OTHER -> Renumbered(k + 1)
AfterDirective(t, directive) ==
    IF directive.value # "line" THEN NoCursor
    ELSE AfterLineNumber(t, getDecimalNumber(t, Past(t, directive.at, Spaces)))
scanPreprocessorDirective(t, p) ==
    LET i == Past(t, p.at + 1, Spaces)
    IN  IF At(t, i) \notin Letters THEN skipSingleLineComment(t, Cursor(i, p.line))
        ELSE AfterDirective(t, getIdentifier(t, i))

(* The token that begins at q, or comes after the directive there.         *)
RECURSIVE scanNextToken(_, _), AfterLine(_, _, _), TokenAt(_, _)
scanNextToken(t, p) == TokenAt(t, skipWhiteSpaceAndComments(t, p))
AfterLine(t, q, directive) ==
    IF directive = NoCursor THEN Token("Error", <<>>, 0, q.line)
    ELSE scanNextToken(t, directive)
TokenAt(t, q) ==
    LET c == At(t, q.at)
    IN  CASE c = "#" -> AfterLine(t, q, scanPreprocessorDirective(t, q))
          [] c = "" -> Token("Eof", <<>>, q.at, q.line)
          [] c \in Letters \cup {"$"} -> scanKeywordOrIdentifier(t, q)
          [] c = "_" -> NameToken(getIdentifier(t, q.at), {}, q.line)
          [] c \in DOMAIN Digits -> NumberToken(getNumber(t, q.at), q.line)
          [] c \in {"'", "\""} -> StringToken(getString(t, q.at), q.line)
          [] c \in DOMAIN Punctuators -> PunctuatorToken(Punctuator(t, q.at + 1, c), q.line)
          [] OTHER -> Token("Error", <<>>, 0, q.line)

(* All tokens of a text up to its end or an exception.                     *)
RECURSIVE TokensFrom(_, _), AndFurther(_, _)
TokensFrom(t, p) == AndFurther(t, scanNextToken(t, p))
AndFurther(t, k) ==
    <<<<k.token, k.value, k.line>>>>
    \o IF k.token \in {"Eof", "Error", "Beyond"} THEN <<>>
       ELSE TokensFrom(t, Cursor(k.at, k.line))
setInput(t) == TokensFrom(t, Cursor(1, 1))
===============================================================================
