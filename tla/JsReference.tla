----------------------------- MODULE JsReference ------------------------------
(***************************************************************************)
(* What programs and expressions of the script language mean by ECMA-262,  *)
(* the standard the engine's comments quote clause by clause: a reference  *)
(* for JsParser and JsExecute, defined on terms and not on tokens or trees.*)
(*                                                                         *)
(* The host offers the variables x, k and f, the object o with the         *)
(* properties x and z, and the function c, whose answers come from an      *)
(* oracle.  What can be observed of a program is its assignments to x, k   *)
(* and y, and how it ends.                                                 *)
(***************************************************************************)
EXTENDS Integers, Sequences

CONSTANTS Numerals,     \* what a string means as a number: [string -> number]
          StringOrder   \* the strings in their order

(***************************************************************************)
(* Statements.  A term has a kind (k), a detail (c) and parts.             *)
(***************************************************************************)
T(k, c, parts) == [k |-> k, c |-> c, parts |-> parts]
Assign(v) == T("assign", v, <<>>)

RECURSIVE Concat(_)
Concat(ss) == IF ss = <<>> THEN <<>> ELSE Head(ss) \o Concat(Tail(ss))

ConditionText ==
    [c   |-> <<"c", "(", ")">>,
     not |-> <<"!", "c", "(", ")">>,
     and |-> <<"c", "(", ")", "&&", "c", "(", ")">>,
     or  |-> <<"c", "(", ")", "||", "c", "(", ")">>]

(* The detail of a 'for': which of its expressions are there.              *)
ForText(c) ==
    Concat(<<CASE c[1] = "x" -> <<"x", "=", "7">>
               [] c[1] = "var" -> <<"var", "k", "=", "7">>
               [] OTHER -> <<>>, <<";">>,
             IF c[2] THEN <<"c", "(", ")">> ELSE <<>>, <<";">>,
             IF c[3] THEN <<"x", "=", "8">> ELSE <<>>>>)

RECURSIVE Text(_)
Braces(s) == <<"{">> \o Text(s) \o <<"}">>
Text(s) ==
    LET parts == [i \in DOMAIN s.parts |-> Text(s.parts[i])] IN
    CASE s.k = "assign"   -> <<"x", "=", s.c, ";">>
      [] s.k = "pick"     -> <<"x", "=", "c", "(", ")", "?", "1", ":", "2", ";">>
      [] s.k = "var"      -> <<"var", "y", "=", "1", ";">>
      [] s.k = "empty"    -> <<";">>
      [] s.k = "throw"    -> <<"throw", "3", ";">>
      [] s.k \in {"break", "continue", "return"} -> <<s.k, ";">>
      [] s.k = "block"    -> <<"{">> \o Concat(parts) \o <<"}">>
      [] s.k = "if" ->
            <<"if", "(">> \o ConditionText[s.c] \o <<")">>
            \o IF Len(parts) = 1 THEN parts[1]
               ELSE Braces(s.parts[1]) \o <<"else">> \o parts[2]
      [] s.k = "while" ->
            <<"while", "(">> \o ConditionText[s.c] \o <<")">> \o parts[1]
      [] s.k = "do" ->
            <<"do">> \o parts[1] \o <<"while", "(", "c", "(", ")", ")", ";">>
      [] s.k = "for" -> <<"for", "(">> \o ForText(s.c) \o <<")">> \o parts[1]
      [] s.k = "forin" ->
            <<"for", "(">> \o s.c \o <<"in", "o", ")">> \o parts[1]
      [] s.k = "switch" ->
            <<"switch", "(", s.c, ")", "{">> \o Concat(parts) \o <<"}">>
      [] s.k = "case"     -> <<"case", s.c, ":">>
      [] s.k = "default"  -> <<"default", ":">>
      [] s.k = "try" ->
            <<"try">> \o Braces(s.parts[1])
            \o (IF s.c.catch THEN <<"catch", "(", "e", ")">> \o Braces(s.parts[2])
                ELSE <<>>)
            \o (IF s.c.finally THEN <<"finally">> \o Braces(s.parts[3]) ELSE <<>>)
      [] s.k = "with"     -> <<"with", "(", "o", ")">> \o parts[1]
      [] s.k = "call" ->
            <<"{", "f", "=", "function", "(", ")">> \o Braces(s.parts[1])
            \o <<";", "f", "(", ")", ";", "}">>

(* Is each break in a loop or a switch, and each continue in a loop?  With *)
(* inFunction, of the same function.                                       *)
Loops == {"while", "do", "for", "forin"}
RECURSIVE Legal(_, _, _, _)
Legal(s, loop, switch, inFunction) ==
    CASE s.k = "break"    -> loop \/ switch
      [] s.k = "continue" -> loop
      [] s.k = "call" /\ inFunction -> Legal(s.parts[1], FALSE, FALSE, TRUE)
      [] OTHER -> \A i \in DOMAIN s.parts :
                    Legal(s.parts[i], loop \/ s.k \in Loops,
                          switch \/ s.k = "switch", inFunction)

(* An endless loop without a condition that cannot do anything: the engine *)
(* rejects it, where the standard lets it run.                             *)
RECURSIVE Idle(_), HasIdleLoop(_)
Idle(s) ==
    CASE s.k = "empty" -> TRUE
      [] s.k = "block" -> \A i \in DOMAIN s.parts : Idle(s.parts[i])
      [] s.k = "try"   -> Idle(s.parts[1]) /\ (s.c.finally => Idle(s.parts[3]))
      [] OTHER -> FALSE
HasIdleLoop(s) ==
    \/ s.k = "for" /\ ~s.c[2] /\ Idle(s.parts[1])
    \/ \E i \in DOMAIN s.parts : HasIdleLoop(s.parts[i])

(***************************************************************************)
(* The meaning of a statement: from a record of what happened so far to    *)
(* another.  how is the completion: "normal", "break", "continue",         *)
(* "return", "throw", "endless" when the fuel for loops is used up, or     *)
(* "open" where this reference does not say what the engine has to do.     *)
(***************************************************************************)
Start(oracle, fuel) == [log |-> <<>>, oracle |-> oracle, fuel |-> fuel,
                        how |-> "normal", left |-> FALSE]
Completes(R, how) == [R EXCEPT !.how = how]
Log(R, with, name, v) ==
    [R EXCEPT !.log = Append(@, <<IF with /\ name = "x" THEN "o" ELSE "", name, v>>)]

(* An answer of the host's function, and the value of a condition.         *)
Answer(R) == R.oracle # <<>> /\ Head(R.oracle)
Asked(R)  == [R EXCEPT !.oracle = IF @ = <<>> THEN @ ELSE Tail(@)]
Holds(c, R) ==
    CASE c = "c"   -> Answer(R)
      [] c = "not" -> ~Answer(R)
      [] c = "and" -> Answer(R) /\ Answer(Asked(R))
      [] c = "or"  -> Answer(R) \/ Answer(Asked(R))
Decided(c, R) ==
    IF c \in {"c", "not"} \/ (c = "and") # Answer(R) THEN Asked(R)
    ELSE Asked(Asked(R))

RECURSIVE Meaning(_, _, _), Sequence(_, _, _), Repeat(_, _, _, _), Each(_, _, _, _)

Sequence(ss, with, R) ==
    IF ss = <<>> \/ R.how # "normal" THEN R
    ELSE Sequence(Tail(ss), with, Meaning(Head(ss), with, R))

(* The completion of a loop's body ends the loop, or not.                  *)
AfterTurn(R) == IF R.how = "continue" THEN Completes(R, "normal") ELSE R
AfterLoop(R) == IF R.how = "break" THEN Completes(R, "normal") ELSE R

(* while ( c ) body, with a step after each turn.                          *)
Step(step, with, R) == IF step /\ R.how = "normal" THEN Log(R, with, "x", "8")
                                                  ELSE R
Repeat(s, step, with, R) ==
    LET cond == s.k = "for" => s.c[2]
        c    == IF s.k = "while" THEN s.c ELSE "c"
        R1   == IF cond THEN Decided(c, R) ELSE R
        body == AfterTurn(Meaning(s.parts[1], with, R1))
    IN  CASE R.how # "normal" -> AfterLoop(R)
          [] cond /\ ~Holds(c, R) -> R1
          [] R.fuel = 0 -> Completes(R1, "endless")
          [] OTHER -> Repeat(s, step, with,
                        Step(step, with, [body EXCEPT !.fuel = IF @ = 0 THEN 0
                                                               ELSE @ - 1]))

Each(names, s, with, R) ==
    IF names = <<>> \/ R.how # "normal" THEN AfterLoop(R)
    ELSE Each(Tail(names), s, with,
           AfterTurn(Meaning(s.parts[1], with, Log(R, with, "k", Head(names)))))

(* Where a switch on the value v begins: its case, or its default.         *)
Entry(s) ==
    LET is(k, c) == {i \in DOMAIN s.parts : s.parts[i].k = k /\ s.parts[i].c = c}
        at == IF is("case", s.c) # {} THEN is("case", s.c) ELSE is("default", "")
    IN  IF at = {} THEN <<>>
        ELSE SubSeq(s.parts, CHOOSE i \in at : \A j \in at : i <= j, Len(s.parts))

(* Left open are a finally block that does not complete normally, a 'with' *)
(* in which a function was left by an exception, and a declaration in a    *)
(* 'with', which the engine adds to the object.                            *)
Try(s, with, R) ==
    LET R1 == Meaning(s.parts[1], with, R)
        R2 == IF s.c.catch /\ R1.how = "throw"
              THEN Meaning(s.parts[2], with, Completes(R1, "normal")) ELSE R1
        R3 == Meaning(s.parts[3], with, Completes(R2, "normal"))
    IN  CASE ~s.c.finally \/ R2.how \in {"endless", "open"} -> R2
          [] R3.how = "normal" -> Completes(R3, R2.how)
          [] R3.how = "endless" -> R3
          [] OTHER -> Completes(R3, "open")
With(s, R) ==
    LET R1 == Meaning(s.parts[1], TRUE, [R EXCEPT !.left = FALSE])
    IN  IF R1.left THEN Completes(R1, "open") ELSE [R1 EXCEPT !.left = R.left]

Declares(s) == s.k = "var" \/ (s.k \in {"for", "forin"} /\ s.c[1] = "var")
Meaning(s, with, R) ==
    CASE s.k = "assign" -> Log(R, with, "x", s.c)
      [] s.k = "pick"   -> Log(Asked(R), with, "x", IF Answer(R) THEN "1" ELSE "2")
      [] with /\ Declares(s) -> Completes(R, "open")
      [] s.k = "var"    -> Log(R, with, "y", "1")
      [] s.k \in {"empty", "case", "default"} -> R
      [] s.k \in {"break", "continue", "return", "throw"} -> Completes(R, s.k)
      [] s.k = "block"  -> Sequence(s.parts, with, R)
      [] s.k = "if"     -> IF Holds(s.c, R) THEN Meaning(s.parts[1], with, Decided(s.c, R))
                           ELSE Sequence(Tail(s.parts), with, Decided(s.c, R))
      [] s.k = "while"  -> Repeat(s, FALSE, with, R)
      [] s.k = "do"     -> Repeat(s, FALSE, with, AfterTurn(Meaning(s.parts[1], with, R)))
      [] s.k = "for"    -> Repeat(s, s.c[3], with,
                             CASE s.c[1] = "x" -> Log(R, with, "x", "7")
                               [] s.c[1] = "var" -> Log(R, with, "k", "7")
                               [] OTHER -> R)
      [] s.k = "forin"  -> Each(<<"x", "z">>, s, with, R)
      [] s.k = "switch" -> AfterLoop(Sequence(Entry(s), with, R))
      [] s.k = "try"    -> Try(s, with, R)
      [] s.k = "with"   -> With(s, R)
      [] s.k = "call"   ->
            LET R1 == Meaning(s.parts[1], with, R)
            IN  CASE R1.how = "return" -> Completes(R1, "normal")
                  [] R1.how = "throw"  -> [R1 EXCEPT !.left = TRUE]
                  [] OTHER -> R1

(***************************************************************************)
(* Expressions: a term of the parser's form, and the text that means it    *)
(* with no more parentheses than the standard's grammar needs.  A level is *)
(* a place in the grammar, from Expression to PrimaryExpression.           *)
(***************************************************************************)
BinaryOperators ==
    <<{"||"}, {"&&"}, {"|"}, {"^"}, {"&"}, {"==", "!=", "===", "!=="},
      {"<", ">", "<=", ">=", "instanceof", "in"}, {"<<", ">>", ">>>"},
      {"+", "-"}, {"*", "/", "%"}>>
UnaryOperators == {"~", "--", "delete", "++", "!", "-", "typeof", "void"}
AssignmentOperators == {"=", "+=", "-=", "*=", "/=", "%=", "<<=", ">>=", ">>>=",
                        "&=", "|=", "^="}
IsUnary(op) == \E u \in UnaryOperators : op = "unary" \o u
Level(op) ==
    CASE op = "Comma" -> 1
      [] op \in AssignmentOperators -> 2
      [] op = "?" -> 3
      [] \E i \in DOMAIN BinaryOperators : op \in BinaryOperators[i] ->
            3 + CHOOSE i \in DOMAIN BinaryOperators : op \in BinaryOperators[i]
      [] IsUnary(op) -> 14
      [] op \in {"post++", "post--"} -> 15
      [] op \in {".", "[", "FunctionCall"} -> 16
      [] OTHER -> 17

RECURSIVE ExpressionText(_, _)
ExpressionText(n, level) ==
    LET Sub(i, l) == ExpressionText(n.kids[i], l)
        own == Level(n.op)
        text ==
            CASE n.op \in {"Identifier", "Literal"} -> <<n.id>>
              [] n.op = "Comma" -> Sub(1, 2) \o <<",">> \o Sub(2, 2)
              [] n.op \in AssignmentOperators -> Sub(1, 16) \o <<n.op>> \o Sub(2, 2)
              [] n.op = "?" -> Sub(1, 4) \o <<"?">> \o Sub(2, 2) \o <<":">> \o Sub(3, 2)
              [] IsUnary(n.op) ->
                    <<CHOOSE u \in UnaryOperators : n.op = "unary" \o u>> \o Sub(1, 14)
              [] n.op = "post++" -> Sub(1, 16) \o <<"++">>
              [] n.op = "post--" -> Sub(1, 16) \o <<"--">>
              [] n.op = "." -> Sub(1, 16) \o <<".", n.id>>
              [] n.op = "[" -> Sub(1, 16) \o <<"[">> \o Sub(2, 1) \o <<"]">>
              [] n.op = "FunctionCall" -> Sub(1, 16) \o <<"(">> \o Sub(2, 2) \o <<")">>
              [] OTHER -> Sub(1, own) \o <<n.op>> \o Sub(2, own + 1)
    IN  IF own >= level THEN text ELSE <<"(">> \o text \o <<")">>

(***************************************************************************)
(* Operators on values.  A value is a record of a type (t), a number (n)   *)
(* and a string (s); NaN is a number with the string "NaN".                *)
(***************************************************************************)
Num(i)  == [t |-> "number", n |-> i, s |-> ""]
Str(s)  == [t |-> "string", n |-> 0, s |-> s]
Truth(b) == [t |-> "boolean", n |-> IF b THEN 1 ELSE 0, s |-> ""]
NaN == [t |-> "number", n |-> 0, s |-> "NaN"]
Nothing(v) == v.t \in {"undefined", "null"}

ToNumber(v) ==
    CASE v.t \in {"boolean", "null"} -> Num(v.n)
      [] v.t = "number" -> v
      [] v.t = "string" /\ v.s \in DOMAIN Numerals -> Num(Numerals[v.s])
      [] OTHER -> NaN
Decimals == [i \in 0 .. 9 |-> <<"0", "1", "2", "3", "4", "5", "6", "7", "8", "9">>[i + 1]]
ToString(v) ==
    CASE v.t = "string" -> v.s
      [] v.t = "boolean" -> IF v.n = 1 THEN "true" ELSE "false"
      [] v = NaN -> "NaN"
      [] v.t = "number" -> Decimals[v.n]
      [] OTHER -> v.t

RECURSIVE AbstractEqual(_, _)
AbstractEqual(a, b) ==
    CASE a.t = b.t -> a = b
      [] Nothing(a) \/ Nothing(b) -> Nothing(a) /\ Nothing(b)
      [] a.t = "boolean" -> AbstractEqual(ToNumber(a), b)
      [] b.t = "boolean" -> AbstractEqual(a, ToNumber(b))
      [] {a.t, b.t} = {"number", "string"} -> ToNumber(a) = ToNumber(b)
      [] OTHER -> FALSE
Before(a, b) ==
    IF a.t = "string" /\ b.t = "string"
    THEN \E i, j \in DOMAIN StringOrder :
            i < j /\ StringOrder[i] = a.s /\ StringOrder[j] = b.s
    ELSE ToNumber(a).n < ToNumber(b).n

(* The bits of a small natural number, and the number of a set of bits.    *)
BitsOf(i) == {k \in 0 .. 2 : (i \div 2 ^ k) % 2 = 1}
OfBits(ks) == CHOOSE i \in 0 .. 7 : BitsOf(i) = ks

(* Of two numbers; a NaN has no bits.                                      *)
Arithmetic(op, a, b) ==
    CASE op \in {"+", "-", "*", "%"} /\ NaN \in {a, b} -> NaN
      [] op = "%" /\ b.n = 0 -> NaN
      [] op = "+" -> Num(a.n + b.n)
      [] op = "-" -> Num(a.n - b.n)
      [] op = "*" -> Num(a.n * b.n)
      [] op = "%" -> Num(a.n % b.n)
      [] op = "<<"  -> Num(a.n * 2 ^ b.n)
      [] op \in {">>", ">>>"} -> Num(a.n \div 2 ^ b.n)
      [] op = "&" -> Num(OfBits(BitsOf(a.n) \cap BitsOf(b.n)))
      [] op = "|" -> Num(OfBits(BitsOf(a.n) \cup BitsOf(b.n)))
      [] op = "^" -> Num(OfBits((BitsOf(a.n) \cup BitsOf(b.n))
                                \ (BitsOf(a.n) \cap BitsOf(b.n))))
Applied(op, a, b) ==
    CASE op = "=="  -> Truth(AbstractEqual(a, b))
      [] op = "!="  -> Truth(~AbstractEqual(a, b))
      [] op = "===" -> Truth(a = b)
      [] op = "!==" -> Truth(a # b)
      [] op = "<"   -> Truth(Before(a, b))
      [] op = ">"   -> Truth(Before(b, a))
      [] op = "<="  -> Truth(~Before(b, a))
      [] op = ">="  -> Truth(~Before(a, b))
      [] op = "+" /\ "string" \in {a.t, b.t} -> Str(ToString(a) \o ToString(b))
      [] OTHER -> Arithmetic(op, ToNumber(a), ToNumber(b))

(* Where the engine goes its own way.  Its NaN is a number near 0; null    *)
(* and undefined are equal to false, and the number 0 to null; >> takes    *)
(* its count from its left operand.                                        *)
OwnWay(op, a, b) ==
    \/ /\ NaN \in {ToNumber(a), ToNumber(b)}
       /\ \/ op \in {"-", "*", "%"}
          \/ op = "+" /\ "string" \notin {a.t, b.t}
          \/ op \in {"<", ">", "<=", ">="} /\ {a.t, b.t} # {"string"}
    \/ /\ op \in {"==", "!="} /\ Nothing(a) # Nothing(b)
       /\ {a.t, b.t} \cap {"boolean", "number"} # {}
    \/ op = ">>"
===============================================================================
