--------------------------- MODULE JsTextReference ----------------------------
(***************************************************************************)
(* The lexical grammar of ECMA-262, clause 7: which pieces of a text are   *)
(* lexemes, a text being split into the longest ones.  A reference for     *)
(* JsText that asks of every piece whether it is one, and reads nothing    *)
(* character by character.  To the standard's lexemes it adds one: a line  *)
(* that begins with '#' is a comment, which may say where the text of the  *)
(* following lines was taken from.                                         *)
(***************************************************************************)
EXTENDS Integers, Sequences, FiniteSets, TLC

Blank  == {" ", "\t", "\f", "\n", "\r"}
Ends   == {"\n", "\r"}
Number == <<"0", "1", "2", "3", "4", "5", "6", "7", "8", "9">>
Digit  == {Number[i] : i \in DOMAIN Number}
Small  == <<"a", "b", "c", "d", "e", "f">>
Large  == <<"A", "B", "C", "D", "E", "F">>
Start  == {"$", "_", "g", "h", "i", "j", "k", "l", "m", "n", "o", "p", "q", "r", "s",
           "t", "u", "v", "w", "x", "y", "z", "X"} \cup {Small[i] : i \in 1 .. 6}
          \cup {Large[i] : i \in 1 .. 6}
HexValue(c) == (CHOOSE i \in 1 .. 16 : c \in {(Number \o Small)[i], (Number \o Large)[i]}) - 1
HexDigit == {(Number \o Small)[i] : i \in 1 .. 16} \cup {Large[i] : i \in 1 .. 6}

AllIn(s, cs) == \A i \in DOMAIN s : s[i] \in cs
Piece(s, i, j) == SubSeq(s, i, j)
RECURSIVE Joined(_)
Joined(s) == IF s = <<>> THEN "" ELSE s[1] \o Joined(Tail(s))
RECURSIVE Value(_, _)
Value(s, base) == IF s = <<>> THEN 0
                  ELSE Value(Piece(s, 1, Len(s) - 1), base) * base + HexValue(s[Len(s)])
RECURSIVE Scaled(_, _)
Scaled(m, e) == IF m = 0 THEN <<0, 0>>
                ELSE IF m % 10 = 0 THEN Scaled(m \div 10, e + 1) ELSE <<m, e>>

Words == {"break", "case", "catch", "continue", "default", "delete", "do", "else",
          "finally", "for", "function", "if", "in", "instanceof", "new", "return",
          "switch", "this", "throw", "try", "typeof", "var", "void", "while",
          "with", "null", "true", "false"}
Signs == {"{", "}", "(", ")", "[", "]", ".", ";", ",", "<", ">", "<=", ">=", "==",
          "!=", "===", "!==", "+", "-", "*", "%", "++", "--", "<<", ">>", ">>>",
          "&", "|", "^", "!", "~", "&&", "||", "?", ":", "=", "+=", "-=", "*=",
          "%=", "<<=", ">>=", ">>>=", "&=", "|=", "^=", "/", "/="}

IsName(s) == s[1] \in Start /\ AllIn(s, Start \cup Digit)
IsHex(s)  == /\ Len(s) > 2 /\ s[1] = "0" /\ s[2] \in {"x", "X"}
             /\ AllIn(Piece(s, 3, Len(s)), HexDigit)

(* The ways to read s as integer, fraction (from 'dot' on) and exponent    *)
(* (from 'e' on); the last two may be empty.                               *)
Splits(s) ==
    {<<dot, e>> \in (1 .. Len(s) + 1) \X (1 .. Len(s) + 1) :
        /\ dot <= e
        /\ AllIn(Piece(s, 1, dot - 1), Digit)
        /\ dot < e => s[dot] = "." /\ AllIn(Piece(s, dot + 1, e - 1), Digit)
        /\ dot > 1 \/ e > dot + 1
        /\ e <= Len(s) =>
             /\ s[e] \in {"e", "E"} /\ Len(s) > e
             /\ LET x == IF s[e + 1] \in {"+", "-"} THEN e + 2 ELSE e + 1
                IN  x <= Len(s) /\ AllIn(Piece(s, x, Len(s)), Digit)}
IsDecimal(s) == Splits(s) # {}
NoOctal(s) == \A p \in Splits(s) : p[1] > 2 => s[1] # "0"
DecimalValue(s) ==
    LET p == CHOOSE p \in Splits(s) : TRUE
        fraction == Piece(s, p[1] + 1, p[2] - 1)
        x == Piece(s, p[2] + 1, Len(s))
    IN  Scaled(Value(Piece(s, 1, p[1] - 1) \o fraction, 10),
               (CASE x = <<>> -> 0
                  [] x[1] = "-" -> -Value(Tail(x), 10)
                  [] x[1] = "+" -> Value(Tail(x), 10)
                  [] OTHER -> Value(x, 10)) - Len(fraction))

(* The characters of a string after its first quote q; <<FALSE>> if there  *)
(* is anything wrong.                                                      *)
Meaning == ("0" :> "NUL") @@ ("b" :> "BS") @@ ("t" :> "\t") @@ ("n" :> "\n")
           @@ ("v" :> "VT") @@ ("f" :> "\f") @@ ("r" :> "\r")
Wrong == <<"wrong">>
RECURSIVE Characters(_, _)
Characters(s, q) ==
    LET After(n, c) == IF Len(s) < n \/ Characters(Piece(s, n, Len(s)), q) = Wrong
                       THEN Wrong ELSE <<c>> \o Characters(Piece(s, n, Len(s)), q)
    IN  CASE s = <<q>> -> <<>>
          [] s = <<>> -> Wrong
          [] s # <<>> /\ s[1] \in {q} \cup Ends -> Wrong
          [] s[1] # "\\" -> After(2, s[1])
          [] Len(s) = 1 -> Wrong
          [] s[2] \in Ends -> Wrong
          [] s[2] = "x" -> IF Len(s) > 4 /\ AllIn(Piece(s, 3, 4), HexDigit)
                           THEN After(5, "chr" \o ToString(Value(Piece(s, 3, 4), 16)))
                           ELSE Wrong
          [] s[2] \in DOMAIN Meaning -> After(3, Meaning[s[2]])
          [] OTHER -> After(3, s[2])
IsString(s) == Len(s) > 1 /\ s[1] \in {"'", "\""} /\ Characters(Tail(s), s[1]) # Wrong

(* How a directive names the line after it: the places its digits begin    *)
(* and end at.                                                             *)
IsDirective(s) == s[1] = "#" /\ \A i \in DOMAIN s : s[i] \notin Ends
LineNumbers(s) ==
    {<<i, j>> \in (DOMAIN s) \X (DOMAIN s) :
        /\ i <= j /\ AllIn(Piece(s, i, j), Digit)
        /\ SelectSeq(Piece(s, 2, i - 1), LAMBDA c : c # " ") = <<"l", "i", "n", "e">>
        /\ \E k \in 2 .. i - 4 : Piece(s, k, k + 3) = <<"l", "i", "n", "e">>
        /\ LET rest == SelectSeq(Piece(s, j + 1, Len(s)), LAMBDA c : c # " ")
           IN  \/ rest = <<>>
               \/ rest[1] \notin Start \cup Digit \cup {".", "\""}
               \/ rest[1] = "\"" /\ \E k \in 2 .. Len(rest) : rest[k] = "\""}
LegalDirective(s) ==
    \/ LineNumbers(s) # {}
    \/ \A i \in 2 .. Len(s) : AllIn(Piece(s, 2, i - 1), {" "}) => s[i] \notin Start \ {"$", "_"}

IsComment(s) ==
    \/ IsDirective(s)
    \/ Len(s) > 1 /\ Piece(s, 1, 2) = <<"/", "/">> /\ \A i \in DOMAIN s : s[i] \notin Ends
    \/ /\ Len(s) > 3 /\ Piece(s, 1, 2) = <<"/", "*">>
       /\ {i \in 3 .. Len(s) - 1 : Piece(s, i, i + 1) = <<"*", "/">>} = {Len(s) - 1}

Kind(s) ==
    CASE s[1] \in Blank /\ Len(s) = 1 -> "blank"
      [] IsComment(s) -> "comment"
      [] IsName(s) -> IF Joined(s) \in Words THEN Joined(s) ELSE "Identifier"
      [] IsDecimal(s) \/ IsHex(s) -> "Number"
      [] IsString(s) -> "String"
      [] Joined(s) \in Signs -> Joined(s)
      [] OTHER -> "none"
Meant(s) ==
    CASE Kind(s) = "Number" -> IF IsHex(s) THEN Scaled(Value(Piece(s, 3, Len(s)), 16), 0)
                               ELSE DecimalValue(s)
      [] Kind(s) = "String" -> Characters(Tail(s), s[1])
      [] IsName(s) -> <<Joined(s)>>
      [] OTHER -> <<>>

(* The lexemes of a text, with the places they begin at; the last one is   *)
(* empty where no lexeme begins.                                           *)
RECURSIVE Lexemes(_, _)
Lexemes(t, i) ==
    LET ends == {j \in i .. Len(t) : Kind(Piece(t, i, j)) # "none"}
        last == CHOOSE j \in ends : \A k \in ends : k <= j
    IN  IF i > Len(t) THEN <<>>
        ELSE IF ends = {} THEN << [at |-> i, text |-> <<>>] >>
        ELSE << [at |-> i, text |-> Piece(t, i, last)] >> \o Lexemes(t, last + 1)

(* The text has a meaning: it is all lexemes, every comment that begins    *)
(* ends, and no name or digit follows a number at once.                    *)
LegalText(ls) ==
    \A i \in DOMAIN ls :
        LET s == ls[i].text IN
        /\ s # <<>>
        /\ Kind(s) = "/" /\ i < Len(ls) /\ ls[i + 1].text # <<>> => ls[i + 1].text[1] # "*"
        /\ IsDirective(s) => LegalDirective(s)
        /\ Kind(s) = "Number" =>
             /\ IsHex(s) \/ NoOctal(s)
             /\ i < Len(ls) => (\/ ls[i + 1].text = <<>>
                                \/ ls[i + 1].text[1] \notin Start \cup Digit)

(* Where the engine goes its own way: numbers that begin or end with a dot *)
(* or whose exponent has a sign, and the words undefined and $line.        *)
OwnLexeme(s) ==
    CASE Kind(s) = "Number" /\ ~IsHex(s) ->
            \/ s[1] = "."
            \/ \E i \in DOMAIN s : s[i] \in {"+", "-"}
            \/ \E i \in DOMAIN s : s[i] = "." /\ (i < Len(s) => s[i + 1] \notin Digit)
      [] Kind(s) = "Identifier" -> Joined(s) \in {"undefined", "$line"}
      [] OTHER -> FALSE

(* The line a place is on: counted from the last directive that says so.   *)
LineAt(t, ls, i) ==
    LET naming == {k \in DOMAIN ls : /\ ls[k].at < i /\ IsDirective(ls[k].text)
                                     /\ LineNumbers(ls[k].text) # {}}
        last == CHOOSE k \in naming : \A l \in naming : l <= k
        s == ls[last].text
        n == CHOOSE p \in LineNumbers(s) : TRUE
        Feeds(from) == Cardinality({k \in from .. i - 1 : t[k] = "\n"})
    IN  IF naming = {} THEN 1 + Feeds(1)
        ELSE Value(Piece(s, n[1], n[2]), 10) + Feeds(ls[last].at + Len(s) + 1)

TokensMeant(t, lexemes) ==
    LET ls == SelectSeq(lexemes, LAMBDA l : Kind(l.text) \notin {"blank", "comment"})
    IN  Append([i \in DOMAIN ls |-> <<Kind(ls[i].text), Meant(ls[i].text),
                                      LineAt(t, lexemes, ls[i].at)>>],
               <<"Eof", <<>>, LineAt(t, lexemes, Len(t) + 1)>>)

-------------------------------------------------------------------------------
(* What a string means as a number, ECMA-262 9.3.1.                        *)
Stripped(t) ==
    LET inner == {i \in DOMAIN t : t[i] \notin Blank}
    IN  IF inner = {} THEN <<>>
        ELSE Piece(t, CHOOSE i \in inner : \A j \in inner : i <= j,
                      CHOOSE i \in inner : \A j \in inner : j <= i)
Unsigned(s) == IF s # <<>> /\ s[1] \in {"+", "-"} THEN Tail(s) ELSE s
NumberMeant(t) ==
    LET s == Stripped(t)
        u == Unsigned(s)
        value == DecimalValue(u)
    IN  CASE s = <<>> -> <<0, 0>>
          [] IsHex(s) -> Meant(s)
          [] u # <<>> /\ IsDecimal(u) ->
                <<IF s[1] = "-" THEN -value[1] ELSE value[1], value[2]>>
          [] OTHER -> <<>>

(* Besides numbers as above, a sign before hexadecimal digits is accepted, *)
(* and no digits after 0x or after the sign of an exponent.                *)
OwnNumber(t) ==
    LET u == Unsigned(Stripped(t))
    IN  /\ u # <<>>
        /\ \/ IsDecimal(u) /\ OwnLexeme(u)
           \/ IsHex(u) /\ u # Stripped(t)
           \/ Len(u) = 2 /\ u[1] = "0" /\ u[2] \in {"x", "X"}
           \/ \E i \in 1 .. Len(u) - 1 : u[i] \in {"e", "E"} /\ u[i + 1] \in {"+", "-"}
===============================================================================
