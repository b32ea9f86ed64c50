------------------------------ MODULE JsExecute -------------------------------
(***************************************************************************)
(* The execution of a tree of the script engine: one operator for each     *)
(* kind of node of the JsScriptNode*.cpp files, over an execution context. *)
(*                                                                         *)
(* A context is a record: the objects (heap: [name -> value] each), the    *)
(* scope chain (scopes: places in the heap, the front of the chain last),  *)
(* the functions that exist (fns), the assignments done so far (log), what *)
(* the host's function will answer (oracle), the number of nodes executed  *)
(* (count), the result's value and command (val, cmd) and the exception    *)
(* that is on its way (exn): "" if none, "script" for a ScriptException,   *)
(* "limit" for a ScriptExecutionTimeExceeded.  The variables 'this' and    *)
(* 'arguments' of a function are left out.                                 *)
(***************************************************************************)
EXTENDS JsParser, JsValue

CONSTANTS MaxNodes,      \* maxNumberOfExecutedNodesM
          LiteralValues, \* the value of a literal: [token -> value]
          Names          \* the names of properties, in their order

Global == 1     \* the global object's place in the heap

Context(heap, oracle) ==
    [heap |-> heap, scopes |-> <<Global>>, fns |-> <<>>, log |-> <<>>,
     oracle |-> oracle, count |-> 0, val |-> Undefined, cmd |-> "none", exn |-> ""]

(* The ends of an execution: a value, a command, an exception.             *)
Returns(v, E) == [E EXCEPT !.val = v, !.cmd = "none"]
Commands(c, E) == [E EXCEPT !.cmd = c]
Finished(E) == Returns(Undefined, E)
Throws(v, E) == [Returns(v, E) EXCEPT !.exn = "script"]
Go(E, F(_)) == IF E.exn = "" THEN F(E) ELSE E
Caught(E, F(_)) == IF E.exn = "script" THEN F([E EXCEPT !.exn = ""]) ELSE E

countNodeExecution(E) == IF E.count < MaxNodes THEN [E EXCEPT !.count = @ + 1]
                         ELSE [E EXCEPT !.exn = "limit"]

addObjectToScopeChain(o, E) == [E EXCEPT !.scopes = Append(@, o)]
removeObjectFromScopeChain(E) ==
    [E EXCEPT !.scopes = SubSeq(@, 1, Len(@) - 1)]
NewObject(o, E) == [E EXCEPT !.heap = Append(@, o)]
Front(E) == E.scopes[Len(E.scopes)]

(* A reference is to a property of the object at a place in the heap, or   *)
(* of none (0).                                                            *)
Reference(o, name) == V("reference", o, name)
getIdentifier(name, E) ==
    LET is == {i \in DOMAIN E.scopes : name \in DOMAIN E.heap[E.scopes[i]]}
    IN  Reference(IF is = {} THEN 0
                  ELSE E.scopes[CHOOSE i \in is : \A j \in is : j <= i], name)

ReferenceError == Object(0, "ReferenceError")
TypeError      == Object(0, "TypeError")

getProperty(o, name, E) == IF name \in DOMAIN E.heap[o] THEN E.heap[o][name]
                           ELSE Undefined
getReferenceValue(E, F(_, _)) ==
    CASE E.val.t # "reference" -> F(E.val, E)
      [] E.val.n = 0 -> Throws(ReferenceError, E)
      [] OTHER -> F(getProperty(E.val.n, E.val.s, E), E)

putProperty(o, name, v, E) ==
    [E EXCEPT !.heap[o] = (name :> v) @@ @, !.log = Append(@, <<o, name, v>>)]
putValue(ref, v, E) ==
    IF ref.t # "reference" \/ ref.n = 0 THEN Throws(ReferenceError, E)
    ELSE putProperty(ref.n, ref.s, v, E)

toObject(v, E, F(_, _)) ==
    CASE v.t = "object" -> F(v.n, E)
      [] v.t \in {"null", "undefined"} -> Throws(TypeError, E)
      [] OTHER -> F(Len(E.heap) + 1, NewObject("value" :> v, E))

RECURSIVE Execute(_, _)

(* A node's value; whether it is true, where no node at all is true.       *)
Value(n, E, F(_, _)) ==
    Go(Execute(n, E), LAMBDA E1 : getReferenceValue(E1, F))
Reads(n, E, F(_)) == Value(n, E, LAMBDA v, E1 : F(Returns(v, E1)))
Test(n, E, F(_, _)) ==
    IF IsNone(n) THEN F(TRUE, E)
    ELSE Value(n, E, LAMBDA v, E1 : F(toBoolean(v), E1))

RECURSIVE ValueList(_, _, _)
ValueList(ns, vs, E) ==
    IF ns = <<>> THEN [E EXCEPT !.val = vs]
    ELSE Value(Head(ns), E, LAMBDA v, E1 :
            ValueList(Tail(ns), Append(vs, v), E1))
Values(ns, E, F(_, _)) ==
    Go(ValueList(ns, <<>>, E), LAMBDA E1 : F(E1.val, Finished(E1)))

(***************************************************************************)
(* Expressions                                                             *)
(***************************************************************************)
Binary(n, E) ==
    Values(n.kids, E, LAMBDA vs, E1 : Returns(Operate(n.op, vs[1], vs[2]), E1))

(* The left operand's reference is taken first, and read last.             *)
AssignmentE(n, E) ==
    Go(Execute(n.kids[1], E), LAMBDA E1 :
      Value(n.kids[2], E1, LAMBDA v, E2 :
        Go(putValue(E1.val, v, E2), LAMBDA E3 : Returns(v, E3))))

(* What op= applies.                                                       *)
Compound == {"+", "&", "<<", "|", ">>", ">>>", "^", "%", "*", "-"}
OperatorOf == [op \in {"+=", "&=", "<<=", "|=", ">>=", ">>>=", "^=", "%=",
                       "*=", "-="} |->
    CASE op = "+=" -> "+" [] op = "&=" -> "&" [] op = "<<=" -> "<<"
      [] op = "|=" -> "|" [] op = ">>=" -> ">>" [] op = ">>>=" -> ">>>"
      [] op = "^=" -> "^" [] op = "%=" -> "%" [] op = "*=" -> "*"
      [] op = "-=" -> "-"]
AdditionAssignmentE(n, E) ==
    Go(Execute(n.kids[1], E), LAMBDA E1 :
      Value(n.kids[2], E1, LAMBDA v, E2 :
        getReferenceValue([E2 EXCEPT !.val = E1.val], LAMBDA u, E3 :
          LET w == Operate(OperatorOf[n.op], u, v)
          IN  Go(putValue(E1.val, w, E3), LAMBDA E4 : Returns(w, E4)))))

(* && and || give a Boolean, and need not evaluate their right operand.    *)
LogicalAndE(n, E) ==
    Test(n.kids[1], E, LAMBDA b, E1 :
      IF ~b THEN Returns(Bool(FALSE), E1)
      ELSE Test(n.kids[2], E1, LAMBDA b2, E2 : Returns(Bool(b2), E2)))
LogicalOrE(n, E) ==
    Test(n.kids[1], E, LAMBDA b, E1 :
      IF b THEN Returns(Bool(TRUE), E1)
      ELSE Test(n.kids[2], E1, LAMBDA b2, E2 : Returns(Bool(b2), E2)))

QuestionmarkE(n, E) ==
    Test(n.kids[1], E, LAMBDA b, E1 : Execute(n.kids[IF b THEN 2 ELSE 3], E1))

(* The operators of one operand; void does not look at its own.            *)
Increment == [op \in {"unary++", "post++", "unary--", "post--"} |->
                IF op \in {"unary++", "post++"} THEN "+" ELSE "-"]
IncrementE(n, E) ==
    Go(Execute(n.kids[1], E), LAMBDA E1 :
      getReferenceValue(E1, LAMBDA v, E2 :
        LET w == Operate(Increment[n.op], v, Number(1)) IN
        Go(putValue(E1.val, w, E2), LAMBDA E3 :
          Returns(IF n.op \in {"post++", "post--"} THEN v ELSE w, E3))))
VoidE(n, E) == Finished(E)
Unary(n, E) ==
    Value(n.kids[1], E, LAMBDA v, E1 : Returns(OperateUnary(n.op, v), E1))

(* Of the inbuilt functions few are compiled in: the others neither look   *)
(* at their operands nor do anything.  The operands are those read: 0 is   *)
(* the object, i the argument i.                                           *)
InbuiltOperands(name, args) ==
    CASE name \in {"isNaN", "jsonUnformat", "print"} -> {1}
      [] name = "jsonFormat" -> IF args = 2 THEN {1, 2} ELSE {1}
      [] name \in {"toLowerCase", "toUpperCase", "toString", "trim"} -> {0}
      [] OTHER -> {}
Inbuilt(n, E) ==
    LET is == InbuiltOperands(n.id, Len(n.kids) - 1)
    IN  Values(SelectSeq([i \in DOMAIN n.kids |-> IF i - 1 \in is THEN n.kids[i]
                                                            ELSE None],
                         LAMBDA k : ~IsNone(k)), E,
               LAMBDA vs, E1 :
                 Returns(IF n.id = "isNaN" THEN Bool(toNumber(vs[1]) = NaNC)
                         ELSE Undefined, E1))

(* 'in' and the access to a property; instanceof has no code.              *)
InE(n, E) ==
    Values(n.kids, E, LAMBDA vs, E1 :
      IF vs[2].t # "object" THEN Throws(TypeError, E1)
      ELSE Returns(Bool(toString(vs[1]) \in DOMAIN E1.heap[vs[2].n]), E1))
InstanceofE(n, E) == Finished(E)
DotE(n, E) ==
    Value(n.kids[1], E, LAMBDA v, E1 :
      toObject(v, E1, LAMBDA o, E2 : Returns(Reference(o, n.id), E2)))
LeftBracketE(n, E) ==
    Values(n.kids, E, LAMBDA vs, E1 :
      toObject(vs[1], E1, LAMBDA o, E2 :
        Returns(Reference(o, toString(vs[2])), E2)))

(***************************************************************************)
(* Functions                                                               *)
(***************************************************************************)
RECURSIVE Statements(_, _)
Statements(ns, E) ==
    IF ns = <<>> THEN Finished(E)
    ELSE Go(Execute(Head(ns), E), LAMBDA E1 :
           IF E1.cmd = "return" THEN Commands("none", E1)
           ELSE Statements(Tail(ns), Commands("none", E1)))

(* The scope chain a function runs with is its caller's.                   *)
call(f, args, E) ==
    LET fn == E.fns[f.n]
        parameters == [i \in DOMAIN fn.kids[1].kids |-> fn.kids[1].kids[i].id]
        Argument(i) == IF i <= Len(args) THEN args[i] ELSE Undefined
        locals == [p \in {parameters[i] : i \in DOMAIN parameters} |->
                    Argument(CHOOSE i \in DOMAIN parameters : parameters[i] = p)]
        named == IF fn.op = "Function" /\ fn.id # "" THEN fn.id :> f ELSE <<>>
    IN  Statements(Tail(fn.kids),
          [E EXCEPT !.heap[Front(E)] = named @@ locals @@ @])

IsFunction(v) == v.t = "object" /\ v.s = "function"
WithActivation(F(_), E) ==
    Go(F(addObjectToScopeChain(Len(E.heap) + 1, NewObject(<<>>, E))),
       removeObjectFromScopeChain)
ScriptObject_call(f, args, constructor, E) ==
    IF ~IsFunction(f) THEN Throws(TypeError, E)
    ELSE IF ~constructor
    THEN WithActivation(LAMBDA E1 : call(f, args, E1), E)
    ELSE LET o == Len(E.heap) + 1 IN
         Go(WithActivation(LAMBDA E1 : call(f, args, E1),
                           NewObject("prototype" :> f, E)),
            LAMBDA E2 : Returns(Object(o, "object"), E2))

(* The host's function: its answers, and then always no.                   *)
HostCall(E) ==
    IF E.oracle = <<>> THEN Returns(Bool(FALSE), E)
    ELSE Returns(Bool(Head(E.oracle)), [E EXCEPT !.oracle = Tail(@)])

FunctionCall(n, E) ==
    Go(Execute(n.kids[1], E), LAMBDA E1 :
      Values(Tail(n.kids), E1, LAMBDA args, E2 :
        getReferenceValue([E2 EXCEPT !.val = E1.val], LAMBDA f, E3 :
          IF f.t = "host" THEN HostCall(E3)
          ELSE ScriptObject_call(f, args, n.id = "new", E3))))

(* A declaration binds the name when it is executed.                       *)
Function(n, E) ==
    LET f  == Object(Len(E.fns) + 1, "function")
        E1 == [E EXCEPT !.fns = Append(@, n)]
    IN  Returns(f, IF n.op # "FunctionDeclaration" THEN E1
                   ELSE [E1 EXCEPT !.heap[Front(E)] = (n.id :> f) @@ @])

(***************************************************************************)
(* Statements                                                              *)
(***************************************************************************)
Declare(name, v, E) == putProperty(Front(E), name, v, E)
VarDeclaration(n, E) ==
    LET Bind(v, E1) == LET E2 == Declare(n.id, v, E1) IN
                       Returns(IF n.op = "forvar" THEN getIdentifier(n.id, E2)
                               ELSE v, E2)
    IN  IF n.kids = <<>> THEN Bind(Undefined, E) ELSE Value(n.kids[1], E, Bind)

RECURSIVE StatementBlock(_, _)
StatementBlock(ns, E) ==
    IF ns = <<>> THEN E
    ELSE Go(Execute(Head(ns), E), LAMBDA E1 :
           IF E1.cmd # "none" THEN E1 ELSE StatementBlock(Tail(ns), E1))

IfE(n, E) ==
    Test(n.kids[1], E, LAMBDA b, E1 : IF b THEN Execute(n.kids[2], E1)
                                      ELSE Finished(E1))
IfElseE(n, E) ==
    Test(n.kids[1], E, LAMBDA b, E1 : Execute(n.kids[IF b THEN 2 ELSE 3], E1))
IfNotE(n, E) ==
    Test(n.kids[1], E, LAMBDA b, E1 : IF b THEN Finished(E1)
                                      ELSE Execute(n.kids[2], E1))

(* A turn of a loop ends with the command none if there may be another;    *)
(* break ends the loop, and return the function as well.                   *)
Turn(body, E, F(_)) ==
    Go(Execute(body, E), LAMBDA E1 :
      IF E1.cmd \in {"break", "return"} THEN E1 ELSE F(Finished(E1)))
LoopTurn(cond, body, step, E) ==
    Test(cond, E, LAMBDA b, E1 :
      IF ~b THEN Commands("break", E1)
      ELSE Turn(body, E1, LAMBDA E2 : Go(Execute(step, E2), Finished)))
LoopEnds(E) == IF E.cmd = "break" THEN Finished(E) ELSE E
RECURSIVE Loop(_, _, _, _)
Loop(cond, body, step, E) ==
    LET E1 == LoopTurn(cond, body, step, E) IN
    IF E1.exn # "" \/ E1.cmd # "none" THEN LoopEnds(E1)
    ELSE Loop(cond, body, step, E1)
InitLoop(init, cond, body, step, E) ==
    Go(Execute(init, E), LAMBDA E1 : Loop(cond, body, step, Finished(E1)))

WhileE(n, E) == Loop(n.kids[1], n.kids[2], None, E)
DoE(n, E)    ==
    LoopEnds(Turn(n.kids[1], E, LAMBDA E1 : Loop(n.kids[2], n.kids[1], None, E1)))
UnaryWhileE(n, E)  == Loop(n.kids[1], None, None, E)
UnaryDoE(n, E)     == Loop(n.kids[1], None, None, E)
For000E(n, E)      == Loop(None, n.kids[1], None, E)
UnaryFor010E(n, E) == Loop(n.kids[1], None, None, E)
For001E(n, E) == Loop(None, n.kids[2], n.kids[1], E)
For010E(n, E) == Loop(n.kids[1], n.kids[2], None, E)
For100E(n, E) == InitLoop(n.kids[1], None, n.kids[2], None, E)
BinaryFor011E(n, E) == Loop(n.kids[1], None, n.kids[2], E)
BinaryFor110E(n, E) == InitLoop(n.kids[1], n.kids[2], None, None, E)
For011E(n, E) == Loop(n.kids[1], n.kids[3], n.kids[2], E)
For101E(n, E) == InitLoop(n.kids[1], None, n.kids[3], n.kids[2], E)
For110E(n, E) == InitLoop(n.kids[1], n.kids[2], n.kids[3], None, E)
TernaryFor111E(n, E) == InitLoop(n.kids[1], n.kids[2], None, n.kids[3], E)
For111E(n, E) == InitLoop(n.kids[1], n.kids[2], n.kids[4], n.kids[3], E)

(* The property after a name, in the order of the names; "" if none.       *)
getNameOfNextProperty(o, i, E) ==
    LET is == {j \in i + 1 .. Len(Names) : Names[j] \in DOMAIN E.heap[o]}
    IN  IF is = {} THEN 0 ELSE CHOOSE j \in is : \A k \in is : j <= k

RECURSIVE EachProperty(_, _, _, _, _)
EachProperty(ref, body, o, i, E) ==
    IF i = 0 THEN Finished(E)
    ELSE Go(putValue(ref, String(Names[i]), E), LAMBDA E1 :
           LoopEnds(Turn(body, Finished(E1), LAMBDA E2 :
             EachProperty(ref, body, o, getNameOfNextProperty(o, i, E2), E2))))
ForInE(n, E) ==
    LET body == IF Len(n.kids) = 3 THEN n.kids[3] ELSE None IN
    Value(n.kids[2], E, LAMBDA v, E1 :
      toObject(v, E1, LAMBDA o, E2 :
        LET first == getNameOfNextProperty(o, 0, E2) IN
        IF first = 0 THEN Finished(E2)
        ELSE Go(Execute(n.kids[1], E2), LAMBDA E3 :
               EachProperty(E3.val, body, o, first, E3))))

(* The statements of a switch, and the labels among them: a label stands   *)
(* before the statement that follows it.                                   *)
Labels == {"case", "default"}
RECURSIVE Chosen(_, _, _, _)
Chosen(v, items, i, E) ==
    LET default == {j \in DOMAIN items : items[j].op = "default"} IN
    IF i > Len(items)
    THEN Returns(Number(IF default = {} THEN i ELSE CHOOSE j \in default : TRUE), E)
    ELSE IF items[i].op # "case" THEN Chosen(v, items, i + 1, E)
    ELSE Value(items[i].kids[1], E, LAMBDA u, E1 :
           IF u.t = v.t /\ Equal(u, v) THEN Returns(Number(i), E1)
           ELSE Chosen(v, items, i + 1, E1))
Switch(n, E) ==
    LET items == Tail(n.kids)
        From(i) == SelectSeq(SubSeq(items, i, Len(items)),
                             LAMBDA m : m.op \notin Labels)
    IN  Value(n.kids[1], E, LAMBDA v, E1 :
          Go(Chosen(v, items, 1, E1), LAMBDA E2 :
            Go(StatementBlock(From(E2.val.n), Finished(E2)), LAMBDA E3 :
              IF E3.cmd = "break" THEN Commands("none", E3) ELSE E3)))

(* The end of a scope whose exceptions are caught: the limit's is not.     *)
Popped(E) == IF E.exn = "limit" THEN E ELSE removeObjectFromScopeChain(E)
WithE_NoCatch(n, E) ==
    Value(n.kids[1], E, LAMBDA v, E1 :
      toObject(v, E1, LAMBDA o, E2 :
        Go(Execute(n.kids[2], addObjectToScopeChain(o, E2)),
           removeObjectFromScopeChain)))
WithE(n, E) ==
    Value(n.kids[1], E, LAMBDA v, E1 :
      toObject(v, E1, LAMBDA o, E2 :
        Popped(Execute(n.kids[2], addObjectToScopeChain(o, E2)))))

CatchClause(catch, E) ==
    LET body == catch.kids[1] IN
    IF IsNone(body) THEN Finished(E)
    ELSE Popped(Execute(body, addObjectToScopeChain(Len(E.heap) + 1,
                                NewObject(catch.id :> E.val, Finished(E)))))
TryCatchE(n, E) ==
    Caught(Execute(n.kids[1], E), LAMBDA E1 : CatchClause(n.kids[2], E1))

(* The result of a finally block is dropped, unless it throws.             *)
FinallyClause_Result(f, E) == Execute(f, Finished(E))
FinallyClause(f, E) ==
    Go(Execute(f, Finished(E)), LAMBDA E1 :
      [E1 EXCEPT !.val = E.val, !.cmd = E.cmd])
FinallyRethrows(f, E) ==
    Caught(E, LAMBDA E1 :
      Go(FinallyClause(f, E1), LAMBDA E2 : [E2 EXCEPT !.exn = "script"]))

(* Without a catch block the finally block is inside the same C++ try as   *)
(* the block it follows.                                                   *)
TryFinallyE(n, E) ==
    FinallyRethrows(n.kids[3],
      Go(Execute(n.kids[1], E), LAMBDA E1 : FinallyClause(n.kids[3], E1)))
TryCatchFinallyE(n, E) ==
    LET E1 == TryCatchE(n, E) IN
    IF E1.exn = "" THEN FinallyClause(n.kids[3], E1)
    ELSE FinallyRethrows(n.kids[3], E1)
Try(n, E) ==
    CASE n.kids[3].op = "Absent" -> TryCatchE(n, E)
      [] n.kids[2].op = "Absent" -> TryFinallyE(n, E)
      [] OTHER -> TryCatchFinallyE(n, E)

ThrowE(n, E) == Value(n.kids[1], E, Throws)
ReturnE(n, E) ==
    IF n.kids = <<>> THEN Commands("return", Finished(E))
    ELSE Reads(n.kids[1], E, LAMBDA E1 : Commands("return", E1))

(***************************************************************************)
(* The node of a tree: each counts itself first.                           *)
(***************************************************************************)
ForE(n, E) ==
    CASE n.op = "for000" -> For000E(n, E)
      [] n.op = "for001" -> For001E(n, E)
      [] n.op = "for010" -> IF Len(n.kids) = 1 THEN UnaryFor010E(n, E)
                                               ELSE For010E(n, E)
      [] n.op = "for011" -> IF Len(n.kids) = 2 THEN BinaryFor011E(n, E)
                                               ELSE For011E(n, E)
      [] n.op = "for100" -> For100E(n, E)
      [] n.op = "for101" -> For101E(n, E)
      [] n.op = "for110" -> IF Len(n.kids) = 2 THEN BinaryFor110E(n, E)
                                               ELSE For110E(n, E)
      [] n.op = "for111" -> IF Len(n.kids) = 3 THEN TernaryFor111E(n, E)
                                               ELSE For111E(n, E)

Operators == {"<", ">", "<=", ">=", "+", "&", "<<", "|", "^", ">>", ">>>",
              "==", "!=", "%", "*", "===", "!==", "-"}
Node(n, E) ==
    CASE n.op = "Literal"      -> Returns(LiteralValues[n.id], E)
      [] n.op = "Identifier"   -> Returns(getIdentifier(n.id, E), E)
      [] n.op \in {"Block", "Comma"} -> StatementBlock(n.kids, Finished(E))
      [] n.op \in Operators    -> Binary(n, E)
      [] n.op = "="            -> AssignmentE(n, E)
      [] n.op \in DOMAIN OperatorOf -> AdditionAssignmentE(n, E)
      [] n.op = "&&"           -> LogicalAndE(n, E)
      [] n.op = "||"           -> LogicalOrE(n, E)
      [] n.op = "?"            -> QuestionmarkE(n, E)
      [] n.op \in DOMAIN Increment -> IncrementE(n, E)
      [] n.op = "unaryvoid"    -> VoidE(n, E)
      [] n.op \in {"unary!", "unary-", "unary~", "unarytypeof"} -> Unary(n, E)
      [] n.op = "."            -> DotE(n, E)
      [] n.op = "["            -> LeftBracketE(n, E)
      [] n.op = "in"           -> InE(n, E)
      [] n.op = "instanceof"   -> InstanceofE(n, E)
      [] n.op = "Inbuilt"      -> Inbuilt(n, E)
      [] n.op = "FunctionCall" -> FunctionCall(n, E)
      [] n.op \in {"Function", "FunctionDeclaration"} -> Function(n, E)
      [] n.op \in {"var", "forvar"} -> VarDeclaration(n, E)
      [] n.op = "if"           -> IF Len(n.kids) = 3 THEN IfElseE(n, E)
                                                     ELSE IfE(n, E)
      [] n.op = "ifnot"        -> IfNotE(n, E)
      [] n.op = "while"        -> IF Len(n.kids) = 2 THEN WhileE(n, E)
                                                     ELSE UnaryWhileE(n, E)
      [] n.op = "do"           -> IF Len(n.kids) = 2 THEN DoE(n, E)
                                                     ELSE UnaryDoE(n, E)
      [] n.op = "forin"        -> ForInE(n, E)
      [] n.op = "switch"       -> Switch(n, E)
      [] n.op = "with"         -> WithE(n, E)
      [] n.op = "try"          -> Try(n, E)
      [] n.op = "throw"        -> ThrowE(n, E)
      [] n.op = "return"       -> ReturnE(n, E)
      [] n.op \in {"break", "continue"} -> Commands(n.op, Finished(E))
      [] OTHER                 -> ForE(n, E)

Execute(n, E) ==
    IF IsNone(n) THEN E
    ELSE Go(countNodeExecution(E), LAMBDA E1 : Node(n, E1))

(* A script's code: the context is used again by the next execution.       *)
Script_execute(code, E) ==
    Execute(code, [Finished(E) EXCEPT !.count = 0, !.exn = ""])
===============================================================================
