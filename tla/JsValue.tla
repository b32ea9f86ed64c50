------------------------------- MODULE JsValue --------------------------------
(***************************************************************************)
(* The values of the script engine, JsScriptValue.h and .cpp: their types, *)
(* the conversions and the operators.                                      *)
(*                                                                         *)
(* A value is a record: its type (t), a number (n) and a string (s).       *)
(* Numbers are integers, and NaNC.  The engine's NaNC is the smallest      *)
(* positive double (JsScriptDefinitions.h:12), so it compares as a number  *)
(* between 0 and 1, and is equal to itself.                                *)
(***************************************************************************)
EXTENDS Integers, Sequences, TLC, Bitwise

CONSTANTS Numerals,     \* what a string means as a number: [string -> number]
          StringOrder   \* the strings in the order of operator<

V(t, n, s) == [t |-> t, n |-> n, s |-> s]
Undefined    == V("undefined", 0, "")
Null         == V("null", 0, "")
Bool(b)      == V("boolean", IF b THEN 1 ELSE 0, "")
Number(n)    == V("number", n, "")
NaNC         == V("number", 0, "NaN")
String(s)    == V("string", 0, s)
Object(n, s) == V("object", n, s)

(* Both operands have this type.                                           *)
Both(a, b, t) == a.t = t /\ b.t = t

toBoolean(v) ==
    CASE v.t \in {"undefined", "null"} -> FALSE
      [] v.t \in {"boolean", "number"} -> v.n # 0
      [] v.t = "string" -> v.s # ""
      [] OTHER -> TRUE

toNumber(v) ==
    CASE v.t = "boolean" -> Number(v.n)
      [] v.t = "null"    -> Number(0)
      [] v.t = "number"  -> v
      [] v.t = "string" /\ v.s \in DOMAIN Numerals -> Number(Numerals[v.s])
      [] OTHER -> NaNC

toString(v) ==
    CASE v.t = "boolean" -> IF v.n = 1 THEN "true" ELSE "false"
      [] v.t = "number"  -> IF v = NaNC THEN "NaN" ELSE ToString(v.n)
      [] v.t = "string"  -> v.s
      [] OTHER -> v.t

(* The types whose names typeof gives: a function is an object.            *)
getTypeof(v) == IF v.t = "null" THEN "object" ELSE v.t

(* The place of a number in the order of the doubles.                      *)
Rank(v) == 2 * v.n + IF v = NaNC THEN 1 ELSE 0

Place(s) == CHOOSE i \in DOMAIN StringOrder : StringOrder[i] = s
Less(a, b) == IF Both(a, b, "string") THEN Place(a.s) < Place(b.s)
              ELSE Rank(toNumber(a)) < Rank(toNumber(b))

Equal_NoUndefined(a, b) ==
    CASE a.t = "boolean" -> IF b.t = "boolean" THEN a = b
                            ELSE toNumber(a) = toNumber(b)
      [] a.t = "null" -> b.t = "null" \/ (b.t = "boolean" /\ ~toBoolean(b))
      [] a.t = "number" -> a = toNumber(b)
      [] a.t = "string" -> CASE b.t = "string" -> a = b
                             [] b.t \in {"number", "boolean"} ->
                                    toNumber(a) = toNumber(b)
                             [] OTHER -> FALSE
      [] a.t = "undefined" -> b.t \in {"undefined", "null"}
      [] OTHER -> a = b
Equal(a, b) ==
    CASE a.t = "boolean" -> IF b.t = "boolean" THEN a = b
                            ELSE toNumber(a) = toNumber(b)
      [] a.t \in {"null", "undefined"} ->
            b.t \in {"null", "undefined"} \/ (b.t = "boolean" /\ ~toBoolean(b))
      [] a.t = "number" -> a = toNumber(b)
      [] a.t = "string" -> CASE b.t = "string" -> a = b
                             [] b.t \in {"number", "boolean"} ->
                                    toNumber(a) = toNumber(b)
                             [] OTHER -> FALSE
      [] OTHER -> a = b

strictlyEqual(a, b) == a.t = b.t /\ Equal(a, b)

(* The sum of two numbers is exact on integers; NaNC is lost in a sum with *)
(* any of them but 0.                                                      *)
Plus(a, b) == IF a.n + b.n = 0 /\ NaNC \in {a, b} THEN NaNC
                                                  ELSE Number(a.n + b.n)
Sum(a, b) == IF "string" \in {a.t, b.t} THEN String(toString(a) \o toString(b))
             ELSE Plus(toNumber(a), toNumber(b))

(* Numbers that are not integers become 0.  Also - and * give 0 for the    *)
(* tiny numbers, not NaNC, that they make of a NaNC.                       *)
toInt32(v) == toNumber(v).n

Sign(i) == IF i < 0 THEN -1 ELSE 1
Abs(i)  == Sign(i) * i
Modulus(a, b) ==
    CASE toNumber(b) = Number(0) -> NaNC
      [] toNumber(b) = NaNC -> Number(0)
      [] toNumber(a) = NaNC -> NaNC
      [] OTHER -> Number(Sign(toInt32(a)) * (Abs(toInt32(a)) % Abs(toInt32(b))))

(* The count of a shift to the right is that of its left operand.          *)
shiftLeft(a, b)  == Number(toInt32(a) * 2 ^ (toInt32(b) % 32))
shiftRight(a, b) == Number(toInt32(a) \div 2 ^ (toInt32(a) % 32))
shiftRightWithZeroFill(a, b) == Number(toInt32(a) \div 2 ^ (toInt32(b) % 32))

(* The bits of an integer, in a width that holds the integers in use.      *)
Width == 2 ^ 8
Bits(v) == toInt32(v) % Width
FromBits(i) == Number(IF i < Width \div 2 THEN i ELSE i - Width)

(***************************************************************************)
(* The operators of two values, in the groups the executor has them: the   *)
(* operator op also stands for the assignment op=.                         *)
(***************************************************************************)
LessThanE(op, a, b) ==
    Bool(CASE op = "<"  -> Less(a, b)
           [] op = ">"  -> Less(b, a)
           [] op = "<=" -> ~Less(b, a)
           [] op = ">=" -> ~Less(a, b))
BitwiseAndE(op, a, b) ==
    CASE op = "&"  -> FromBits(Bits(a) & Bits(b))
      [] op = "<<" -> shiftLeft(a, b)
BitwiseOrE(op, a, b) ==
    CASE op = "|"   -> FromBits(Bits(a) | Bits(b))
      [] op = "^"   -> FromBits(Bits(a) ^^ Bits(b))
      [] op = ">>"  -> shiftRight(a, b)
      [] op = ">>>" -> shiftRightWithZeroFill(a, b)
EqualityE(op, a, b) == Bool(Equal(a, b))
InequalityE(op, a, b) == Bool(~Equal(a, b))
ModulusE(op, a, b) ==
    CASE op = "%" -> Modulus(a, b)
      [] op = "*" -> IF {toNumber(a), toNumber(b)} = {NaNC, Number(1)} THEN NaNC
                     ELSE Number(toInt32(a) * toInt32(b))
StrictEqualityE(op, a, b) ==
    Bool((op = "===") <=> strictlyEqual(a, b))
SubtractionE(op, a, b) ==
    IF toNumber(a) = NaNC /\ toNumber(b) = Number(0) THEN NaNC
    ELSE Number(toInt32(a) - toInt32(b))

Operate(op, a, b) ==
    CASE op \in {"<", ">", "<=", ">="}    -> LessThanE(op, a, b)
      [] op = "+"                         -> Sum(a, b)
      [] op \in {"&", "<<"}               -> BitwiseAndE(op, a, b)
      [] op \in {"|", "^", ">>", ">>>"}   -> BitwiseOrE(op, a, b)
      [] op = "=="                        -> EqualityE(op, a, b)
      [] op = "!="                        -> InequalityE(op, a, b)
      [] op \in {"%", "*"}                -> ModulusE(op, a, b)
      [] op \in {"===", "!=="}            -> StrictEqualityE(op, a, b)
      [] op = "-"                         -> SubtractionE(op, a, b)

(* The operators of one operand.                                           *)
OperateUnary(op, a) ==
    CASE op = "unary!" -> Bool(~toBoolean(a))
      [] op = "unary-" -> Number(-toInt32(a))
      [] op = "unary~" -> Number(-toInt32(a) - 1)
      [] op = "unarytypeof" -> String(getTypeof(a))
===============================================================================
