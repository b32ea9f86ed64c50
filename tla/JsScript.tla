------------------------------- MODULE JsScript -------------------------------
(***************************************************************************)
(* The script engine at work: a source is parsed once, and its code is     *)
(* executed in an execution context with a host's objects.                 *)
(*                                                                         *)
(* Besides whole programs, parts of the engine are looked at by            *)
(* themselves: how an expression is parsed, which calls of inbuilt         *)
(* functions are accepted, what an operator gives, and the data of JsData. *)
(***************************************************************************)
EXTENDS JsExecute, JsData

Ref == INSTANCE JsReference

CONSTANTS Leaves,       \* statements without parts
          Wraps(_, _),  \* the statements with a given statement in them
          MaxDepth,     \* how deep statements are nested
          Oracles,      \* answers of the host's function
          Fuel,         \* how often the reference repeats loops
          Expressions,  \* trees of expressions
          OperatorLiterals \* literals operators are applied to

VARIABLES job,     \* what the engine is given
          code,    \* the tree, once parsed
          context  \* the execution context, once executed
vars == <<job, code, context, subject, result>>

Unparsed    == N("Unparsed", "", <<>>)
NotExecuted == Context(<<>>, <<>>)

(* The host's objects: the global one, and o.                              *)
HostObjects ==
    << ("x" :> Undefined) @@ ("k" :> Undefined) @@ ("f" :> Undefined)
       @@ ("o" :> Object(2, "object")) @@ ("c" :> V("host", 0, "c")),
       ("x" :> Undefined) @@ ("z" :> Undefined) >>

Source(s, depth) == [kind |-> "program", source |-> s, depth |-> depth, oracle |-> <<>>]
ParserInit ==
    /\ job \in {Source(s, 0) : s \in Leaves}
               \cup {[kind |-> "expression", source |-> e] : e \in Expressions}
               \cup {[kind |-> "inbuilt", name |-> f, object |-> o, args |-> i] :
                        f \in InbuiltNames, o \in BOOLEAN, i \in 0 .. 3}
               \cup {[kind |-> "operator", op |-> op, form |-> form, left |-> a, right |-> b] :
                        op \in Operators, form \in {"plain", "assign"},
                        a \in OperatorLiterals, b \in OperatorLiterals}
    /\ subject = [kind |-> "none"] /\ result = Open
Init ==
    /\ \/ ParserInit
       \/ job = [kind |-> "data"] /\ DataInit
    /\ code = Unparsed
    /\ context = NotExecuted

(* A larger program.                                                       *)
Wrap ==
    /\ job.kind = "program" /\ job.depth < MaxDepth /\ code = Unparsed
    /\ \E s \in Wraps(job.source, job.depth) : job' = Source(s, job.depth + 1)
    /\ UNCHANGED <<code, context, subject, result>>

(* The tokens of a job.  A program ends with an assignment that shows that *)
(* its end was reached.                                                    *)
End == Ref!Assign("9")
Tokens ==
    CASE job.kind = "program" -> Ref!Text(job.source) \o Ref!Text(End)
      [] job.kind = "expression" -> Append(Ref!ExpressionText(job.source, 1), ";")
      [] job.kind = "inbuilt" ->
            (IF job.object THEN <<"a", ".">> ELSE <<>>) \o <<job.name, "(">>
            \o Ref!Concat([i \in 1 .. job.args |->
                            IF i = 1 THEN <<"1">> ELSE <<",", "1">>])
            \o <<")", ";">>
      [] job.kind = "operator" ->
            IF job.form = "assign" /\ job.op \in Compound
            THEN <<"x", "=", job.left, ";", "x", job.op \o "=", job.right, ";">>
            ELSE <<"x", "=", job.left, job.op, job.right, ";">>

Parse ==
    /\ job.kind # "data" /\ code = Unparsed
    /\ code' = parse(Tokens)
    /\ UNCHANGED <<job, context, subject, result>>

Executable == context = NotExecuted /\ code \notin {Unparsed, Error}
Run ==
    /\ job.kind = "program" /\ Executable
    /\ \E oracle \in Oracles :
         /\ job' = [job EXCEPT !.oracle = oracle]
         /\ context' = Script_execute(code, Context(HostObjects, oracle))
    /\ UNCHANGED <<code, subject, result>>

Evaluate ==
    /\ job.kind = "operator" /\ Executable
    /\ context' = Script_execute(code, Context(HostObjects, <<>>))
    /\ UNCHANGED <<job, code, subject, result>>

Data == DataNext /\ UNCHANGED <<job, code, context>>

Next == Wrap \/ Parse \/ Run \/ Evaluate \/ Data
Spec == Init /\ [][Next]_vars

-------------------------------------------------------------------------------
Parsed(kind) == job.kind = kind /\ code # Unparsed
Executed == job.kind = "program" /\ context # NotExecuted
Evaluated == job.kind = "operator" /\ context # NotExecuted

(* What the reference says of the program.                                 *)
LegalProgram == Ref!Legal(job.source, FALSE, FALSE, TRUE)
Meant == Ref!Sequence(<<job.source, End>>, FALSE, Ref!Start(job.oracle, Fuel))

(* What can be observed of an execution; for x also in which object.  A    *)
(* declaration without a value is none: the engine assigns undefined.      *)
Observed ==
    LET assigned == SelectSeq(context.log,
                              LAMBDA a : a[2] # "f" /\ a[3] # Undefined)
    IN  [i \in DOMAIN assigned |->
            LET a == assigned[i]
            IN  << IF a[1] = 2 /\ a[2] = "x" THEN "o" ELSE "", a[2],
                   toString(a[3]) >>]

PrefixOf(s, t) == Len(s) <= Len(t) /\ SubSeq(t, 1, Len(s)) = s

(* A program does what ECMA-262 says it does: it makes the same            *)
(* assignments in the same order and ends in the same way, whatever        *)
(* statements are nested in which; and one that never ends is stopped by   *)
(* the limit on the nodes executed, having done what it should until then. *)
(* The parser rejects a break or continue outside every loop, and of the   *)
(* legal programs only those with an endless loop that has nothing to do.  *)
Accepted ==
    Parsed("program") =>
        /\ LegalProgram => (code = Error <=> Ref!HasIdleLoop(job.source))
        /\ ~Ref!Legal(job.source, FALSE, FALSE, FALSE) => code = Error
ProgramsMeanWhatEcmaSays ==
    /\ Accepted
    /\ Executed /\ LegalProgram =>
        CASE Meant.how = "open" -> TRUE
          [] Meant.how = "endless" ->
                /\ context.exn = "limit"
                /\ PrefixOf(Observed, Meant.log) \/ PrefixOf(Meant.log, Observed)
          [] Meant.how = "throw" -> context.exn = "script" /\ Observed = Meant.log
          [] OTHER -> context.exn = "" /\ Observed = Meant.log

(* An execution leaves the scope chain as it found it, whether it ends by  *)
(* itself, by break, continue or return out of a 'with' or a catch block,  *)
(* or by an exception; unless it is stopped by the limit, an exception     *)
(* has left a function, or a finally block did not end normally.           *)
ScopesBalanced ==
    Executed /\ LegalProgram /\ context.exn # "limit" =>
        Meant.left \/ Meant.how = "open" \/ context.scopes = <<Global>>

(* An expression with no more parentheses than ECMA-262's grammar needs is *)
(* parsed into the tree that was meant: every operator has its precedence  *)
(* and associates as it should.                                            *)
ExpressionsParseBack ==
    Parsed("expression") => code = job.source

(* A call of an inbuilt function that the parser accepts has the object    *)
(* and the arguments the function's code takes without a look.             *)
InbuiltOperandsPresent ==
    Parsed("inbuilt") /\ code.op = "Inbuilt" =>
        \A i \in InbuiltOperands(code.id, Len(code.kids) - 1) :
            i < Len(code.kids) /\ ~IsNone(code.kids[i + 1])

(* An operator gives what ECMA-262 says for operands of any two types,     *)
(* also as an assignment operator, but for the engine's own ways.          *)
OperatorsAsEcma ==
    Evaluated =>
        LET a == LiteralValues[job.left]
            b == LiteralValues[job.right]
            x == context.heap[Global]["x"]
        IN  Ref!OwnWay(job.op, a, b) \/ x = Ref!Applied(job.op, a, b)
===============================================================================
