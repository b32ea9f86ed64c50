------------------------------- MODULE JsParser -------------------------------
(***************************************************************************)
(* The parser of the script engine, JsScriptParser.cpp: a recursive        *)
(* descent over the scanner's tokens that builds the tree the engine       *)
(* executes.                                                               *)
(*                                                                         *)
(* A token is a string; the scanner is left out.  A node is a record: its  *)
(* class and operator (op), a name (id) and its children (kids).  A parse  *)
(* function takes the remaining tokens and the context the parser keeps in *)
(* insideLoopM and insideSwitchM, and returns a node and the rest of the   *)
(* tokens.  A null pointer is the node None, a ScannerException the node   *)
(* Error.                                                                  *)
(***************************************************************************)
EXTENDS Naturals, Sequences, TLC

CONSTANTS Identifiers,  \* the tokens of type IdentifierE
          Literals,     \* the tokens of types NumberE and StringE
          Constructors  \* the inbuilt constructors: [name -> arguments]

N(op, id, kids) == [op |-> op, id |-> id, kids |-> kids]
None  == N("None", "", <<>>)
Error == N("Error", "", <<>>)
IsNone(n) == n.op = "None"

Ok(n, ts) == [node |-> n, rest |-> ts]
Failed == Ok(Error, <<>>)
Tok(ts) == IF ts = <<>> THEN "EOF" ELSE Head(ts)
Rest(ts) == IF ts = <<>> THEN <<>> ELSE Tail(ts)

(* The two ways of going on after a part: with its node, after a token.    *)
Then(r, F(_, _)) == IF r.node.op = "Error" THEN Failed
                                           ELSE F(r.node, r.rest)
Expect(ts, t, F(_)) == IF Tok(ts) = t THEN F(Rest(ts)) ELSE Failed

(* A statement block of fewer than two statements is replaced by its       *)
(* statement, or by nothing; addStatement ignores an empty statement.      *)
addStatement(list, n) == IF IsNone(n) THEN list ELSE Append(list, n)
Block(op, list) == IF Len(list) = 0 THEN None
                   ELSE IF Len(list) = 1 THEN list[1]
                   ELSE N(op, "", list)

(***************************************************************************)
(* The inbuilt functions: how many arguments each accepts, and whether it  *)
(* must not be applied to an object.                                       *)
(***************************************************************************)
AnyNumber == 99
Row(names, min, max, global) ==
    [n \in names |-> [min |-> min, max |-> max, global |-> global]]

Inbuilts_base64Decode ==
    Row({"base64Decode", "base64Encode"}, 0, 0, FALSE)
    @@ Row({"callback"}, 1, AnyNumber, TRUE) @@ Row({"concat"}, 0, AnyNumber, FALSE)
    @@ Row({"charAt", "charCodeAt"}, 1, 1, FALSE)
    @@ Row({"contains"}, 1, 2, FALSE)
    @@ Row({"decodeURI", "decodeURIComponent"}, 1, 1, TRUE)
Inbuilts_delayedCallback ==
    Row({"delayedCallback"}, 2, AnyNumber, TRUE) @@ Row({"format"}, 1, 2, TRUE)
    @@ Row({"encodeURI", "encodeURIComponent"}, 1, 1, TRUE)
    @@ Row({"endsWith", "equals"}, 1, 1, FALSE)
    @@ Row({"fromCharCode"}, 0, AnyNumber, TRUE)
Inbuilts_hexDecode ==
    Row({"hexDecode", "hexEncode"}, 0, 0, FALSE)
    @@ Row({"iendsWith", "iequals"}, 1, 1, FALSE)
    @@ Row({"icontains", "iindexOf", "ilastIndexOf", "indexOf"}, 1, 2, FALSE)
    @@ Row({"ireplaceAll", "ireplaceFirst"}, 2, 2, FALSE)
Inbuilts_isNaN ==
    Row({"isNaN", "readFromFile"}, 1, 1, TRUE)
    @@ Row({"istartsWith", "lastIndexOf"}, 1, 2, FALSE)
    @@ Row({"logInfo"}, 2, 2, TRUE) @@ Row({"md5"}, 0, 1, FALSE)
    @@ Row({"parseInt"}, 1, 2, TRUE) @@ Row({"rand"}, 0, 2, TRUE)
Inbuilts_replaceAll ==
    Row({"replaceAll", "replaceFirst"}, 2, 2, FALSE)
    @@ Row({"split", "startsWith", "substr", "substring"}, 1, 2, FALSE)
    @@ Row({"toLowerCase", "toUpperCase", "trim"}, 0, 0, FALSE)
    @@ Row({"toString"}, 0, 2, FALSE)
Inbuilts_jsonFormat_Unchecked ==
    Row({"jsonFormat"}, 0, 2, TRUE) @@ Row({"writeToFile"}, 2, 2, TRUE)
    @@ Row({"jsonUnformat", "print"}, 1, 1, TRUE)
Inbuilts_jsonFormat ==
    Row({"jsonFormat"}, 1, 2, TRUE) @@ Row({"writeToFile"}, 2, 2, TRUE)
    @@ Row({"jsonUnformat", "print"}, 1, 1, TRUE)

Inbuilts == Inbuilts_base64Decode @@ Inbuilts_delayedCallback
            @@ Inbuilts_hexDecode @@ Inbuilts_isNaN
            @@ Inbuilts_replaceAll @@ Inbuilts_jsonFormat
InbuiltNames == DOMAIN Inbuilts

ArgumentsAccepted(name, obj, args) ==
    /\ args >= Inbuilts[name].min /\ args <= Inbuilts[name].max
    /\ name = "rand" => args # 1
    /\ Inbuilts[name].global => IsNone(obj)

(* The inbuilt functions that may be called without an object.             *)
GlobalNames ==
    {"callback", "decodeURI", "decodeURIComponent", "delayedCallback",
     "encodeURI", "encodeURIComponent", "format", "fromCharCode", "isNaN",
     "logInfo", "parseInt", "rand", "readFromFile", "jsonFormat",
     "jsonUnformat", "writeToFile", "print"}

(***************************************************************************)
(* Expressions                                                             *)
(***************************************************************************)
RECURSIVE parseAssignmentExpression(_, _, _), parseExpression(_, _, _),
          parseUnaryExpression(_, _), parseMemberExpression(_, _),
          parseStatement(_, _), parseStatements(_, _, _)

(* Assignment expressions, separated by commas.                            *)
RECURSIVE CommaList(_, _, _, _)
CommaList(ts, c, noIn, list) ==
    Then(parseAssignmentExpression(ts, c, noIn), LAMBDA n, r :
        IF Tok(r) = "," THEN CommaList(Rest(r), c, noIn, Append(list, n))
        ELSE Ok(N("List", "", Append(list, n)), r))

parseExpression(ts, c, noIn) ==
    Then(CommaList(ts, c, noIn, <<>>), LAMBDA l, r : Ok(Block("Comma", l.kids), r))

(* The rest of an argument list, after the parenthesis that opens it.      *)
parseArguments(ts, c) ==
    IF Tok(ts) = ")" THEN Ok(N("List", "", <<>>), Rest(ts))
    ELSE Then(CommaList(ts, c, FALSE, <<>>), LAMBDA l, r :
            Expect(r, ")", LAMBDA r1 : Ok(l, r1)))

parseArgumentList(ts, c) ==
    Expect(ts, "(", LAMBDA r : parseArguments(r, c))

parseInbuiltFunctionCall(id, obj, ts, c) ==
    IF Tok(ts) # "("
    THEN Ok(IF id = "length" THEN N("Inbuilt", id, <<obj>>) ELSE None, ts)
    ELSE IF id \notin InbuiltNames THEN Ok(None, ts)
    ELSE Then(parseArguments(Rest(ts), c), LAMBDA l, r :
            IF ArgumentsAccepted(id, obj, Len(l.kids))
            THEN Ok(N("Inbuilt", id, <<obj>> \o l.kids), r) ELSE Failed)

parseFunctionCall(node, ts, c) ==
    IF node.op = "Identifier" /\ node.id \in GlobalNames
    THEN parseInbuiltFunctionCall(node.id, None, ts, c)
    ELSE Then(parseArguments(Rest(ts), c), LAMBDA l, r :
            Ok(N("FunctionCall", "", <<node>> \o l.kids), r))

parseNewInbuiltObject(ts, c) ==
    Then(parseArgumentList(Rest(ts), c), LAMBDA l, r :
        IF Constructors[Tok(ts)] \in {AnyNumber, Len(l.kids)}
        THEN Ok(N("ConstructorCall", Tok(ts), l.kids), r) ELSE Failed)

(* Applied to a call of an inbuilt function or of another inbuilt          *)
(* constructor, new goes on with a null pointer; no program here does so.  *)
parseNewMemberExpression(ts, c) ==
    IF Tok(ts) \in DOMAIN Constructors THEN parseNewInbuiltObject(ts, c)
    ELSE Then(parseMemberExpression(ts, c), LAMBDA n, r :
            IF n.op = "FunctionCall" THEN Ok([n EXCEPT !.id = "new"], r)
            ELSE Failed)

(* The elements of an array: an index may be left out.                     *)
RECURSIVE Elements(_, _, _)
Elements(ts, c, list) ==
    IF Tok(ts) = "]" THEN Ok(N("Array", "", list), Rest(ts))
    ELSE IF Tok(ts) = "," THEN Elements(Rest(ts), c, Append(list, None))
    ELSE Then(parseAssignmentExpression(ts, c, FALSE), LAMBDA n, r :
            IF Tok(r) = "," THEN Elements(Rest(r), c, Append(list, n))
            ELSE Expect(r, "]", LAMBDA r1 :
                    Ok(N("Array", "", Append(list, n)), r1)))
parseArrayInitialiser(ts, c) == Elements(Rest(ts), c, <<>>)

RECURSIVE Properties(_, _, _)
Properties(ts, c, list) ==
    IF Tok(ts) \notin Identifiers \cup Literals THEN Failed
    ELSE Expect(Rest(ts), ":", LAMBDA r :
      Then(parseAssignmentExpression(r, c, FALSE), LAMBDA n, r1 :
        LET l == Append(list, N("Property", Tok(ts), <<n>>)) IN
        IF Tok(r1) = "," THEN Properties(Rest(r1), c, l)
        ELSE Expect(r1, "}", LAMBDA r2 : Ok(N("Object", "", l), r2))))
parseObjectInitialiser(ts, c) ==
    IF Tok(Rest(ts)) = "}" THEN Ok(N("Object", "", <<>>), Rest(Rest(ts)))
    ELSE Properties(Rest(ts), c, <<>>)

Constants == {"true", "false", "null", "undefined", "$line"}
parsePrimaryExpression(ts, c) ==
    LET t == Tok(ts) IN
    CASE t \in Identifiers \cup {"this"} ->
            Ok(N("Identifier", t, <<>>), Rest(ts))
      [] t \in Literals \cup Constants -> Ok(N("Literal", t, <<>>), Rest(ts))
      [] t = "{" -> parseObjectInitialiser(ts, c)
      [] t = "[" -> parseArrayInitialiser(ts, c)
      [] t = "(" -> Then(parseExpression(Rest(ts), c, FALSE), LAMBDA n, r :
                        Expect(r, ")", LAMBDA r1 : Ok(n, r1)))
      [] OTHER -> Failed

(* The formal parameters and the body of a function.                       *)
RECURSIVE Parameters(_, _)
Parameters(ts, list) ==
    IF Tok(ts) \notin Identifiers THEN Failed
    ELSE LET l == Append(list, N("Identifier", Tok(ts), <<>>)) IN
         IF Tok(Rest(ts)) = "," THEN Parameters(Rest(Rest(ts)), l)
         ELSE Ok(N("Parameters", "", l), Rest(ts))
parseFunction(op, name, ts, c) ==
    Expect(ts, "(", LAMBDA r :
      Then(IF Tok(r) \in Identifiers THEN Parameters(r, <<>>)
                             ELSE Ok(N("Parameters", "", <<>>), r),
        LAMBDA ps, r1 :
          Expect(r1, ")", LAMBDA r2 : Expect(r2, "{", LAMBDA r3 :
            Then(parseStatements(r3, c, "}"), LAMBDA b, r4 :
              Ok(N(op, name, <<ps>> \o b.kids), r4))))))

parseFunctionDeclaration(ts, c) ==
    IF Tok(Rest(ts)) \notin Identifiers THEN Failed
    ELSE parseFunction("FunctionDeclaration", Tok(Rest(ts)), Rest(Rest(ts)), c)

parseFunctionExpression(ts, c) ==
    IF Tok(Rest(ts)) \in Identifiers
    THEN parseFunction("Function", Tok(Rest(ts)), Rest(Rest(ts)), c)
    ELSE parseFunction("Function", "", Rest(ts), c)

(* The suffixes of a member expression: .id, [ expression ], ( arguments ) *)
RECURSIVE Suffixes(_, _, _)
Suffixes(node, ts, c) ==
    LET More(r) == Then(r, LAMBDA n, r1 : Suffixes(n, r1, c)) IN
    CASE Tok(ts) = "." ->
            LET id == Tok(Rest(ts)) IN
            IF id \notin Identifiers THEN Failed
            ELSE More(Then(parseInbuiltFunctionCall(id, node, Rest(Rest(ts)), c),
                     LAMBDA n, r : Ok(IF IsNone(n) THEN N(".", id, <<node>>)
                                                   ELSE n, r)))
      [] Tok(ts) = "[" ->
            More(Then(parseExpression(Rest(ts), c, FALSE), LAMBDA n, r :
                    Expect(r, "]", LAMBDA r1 : Ok(N("[", "", <<node, n>>), r1))))
      [] Tok(ts) = "(" -> More(parseFunctionCall(node, ts, c))
      [] OTHER -> Ok(node, ts)

parseMemberExpression(ts, c) ==
    CASE Tok(ts) = "function" -> parseFunctionExpression(ts, c)
      [] Tok(ts) = "new" -> parseNewMemberExpression(Rest(ts), c)
      [] OTHER -> Then(parsePrimaryExpression(ts, c), LAMBDA n, r :
                      Suffixes(n, r, c))

parsePostfixExpression(ts, c) ==
    Then(parseMemberExpression(ts, c), LAMBDA n, r :
        IF Tok(r) \in {"++", "--"} THEN Ok(N("post" \o Tok(r), "", <<n>>), Rest(r))
        ELSE Ok(n, r))

parseUnaryExpression(ts, c) ==
    CASE Tok(ts) = "+" -> parseUnaryExpression(Rest(ts), c)
      [] Tok(ts) \in {"~", "--", "delete", "++", "!", "-", "typeof", "void"} ->
            Then(parseUnaryExpression(Rest(ts), c), LAMBDA n, r :
                Ok(N("unary" \o Tok(ts), "", <<n>>), r))
      [] OTHER -> parsePostfixExpression(ts, c)

(* The binary operators, from the loosest to the tightest: each level is   *)
(* the loop of one parse function, which calls that of the next level for  *)
(* its operands.                                                           *)
parseLogicalOrExpression      == {"||"}
parseLogicalAndExpression     == {"&&"}
parseBitwiseOrExpression      == {"|"}
parseBitwiseXorExpression     == {"^"}
parseBitwiseAndExpression     == {"&"}
parseEqualityExpression       == {"==", "!=", "===", "!=="}
parseRelationalExpression     == {"<", ">", "<=", ">=", "instanceof", "in"}
parseShiftExpression          == {"<<", ">>", ">>>"}
parseAdditiveExpression       == {"+", "-"}
parseMultiplicativeExpression_Sum == {"*", "/"}
parseMultiplicativeExpression == {"*", "/", "%"}

Levels == <<parseLogicalOrExpression, parseLogicalAndExpression,
            parseBitwiseOrExpression, parseBitwiseXorExpression,
            parseBitwiseAndExpression, parseEqualityExpression,
            parseRelationalExpression, parseShiftExpression,
            parseAdditiveExpression, parseMultiplicativeExpression>>

RECURSIVE parseLevel(_, _, _, _), Operands(_, _, _, _, _)
parseLevel(k, ts, c, noIn) ==
    IF k > Len(Levels) THEN parseUnaryExpression(ts, c)
    ELSE Then(parseLevel(k + 1, ts, c, noIn), LAMBDA n, r :
            Operands(k, n, r, c, noIn))
Operands(k, left, ts, c, noIn) ==
    IF Tok(ts) \in Levels[k] /\ ~(Tok(ts) = "in" /\ noIn)
    THEN Then(parseLevel(k + 1, Rest(ts), c, noIn), LAMBDA n, r :
            Operands(k, N(Tok(ts), "", <<left, n>>), r, c, noIn))
    ELSE Ok(left, ts)

parseConditionalExpression(ts, c, noIn) ==
    Then(parseLevel(1, ts, c, noIn), LAMBDA n, r :
      IF Tok(r) # "?" THEN Ok(n, r)
      ELSE Then(parseAssignmentExpression(Rest(r), c, noIn), LAMBDA n1, r1 :
        Expect(r1, ":", LAMBDA r2 :
          Then(parseAssignmentExpression(r2, c, noIn), LAMBDA n2, r3 :
            Ok(N("?", "", <<n, n1, n2>>), r3)))))

Assignments == {"+=", "=", "&=", "<<=", "|=", ">>=", ">>>=", "^=", "/=", "*=",
                "%=", "-="}
parseAssignmentExpression(ts, c, noIn) ==
    Then(parseConditionalExpression(ts, c, noIn), LAMBDA n, r :
        IF Tok(r) \notin Assignments THEN Ok(n, r)
        ELSE Then(parseAssignmentExpression(Rest(r), c, noIn), LAMBDA n1, r1 :
                Ok(N(Tok(r), "", <<n, n1>>), r1)))

(***************************************************************************)
(* Statements                                                              *)
(***************************************************************************)
InLoop(c)   == [c EXCEPT !.loop = @ + 1]
InSwitch(c) == [c EXCEPT !.switch = @ + 1]

(* Statements up to a closing token.                                       *)
RECURSIVE StatementList(_, _, _, _)
StatementList(ts, c, end, list) ==
    IF Tok(ts) = end THEN Ok(N("List", "", list), Rest(ts))
    ELSE Then(parseStatement(ts, c), LAMBDA n, r :
            StatementList(r, c, end, addStatement(list, n)))
parseStatements(ts, c, end) == StatementList(ts, c, end, <<>>)

parseBlock(ts, c) ==
    Then(parseStatements(Rest(ts), c, "}"), LAMBDA l, r :
        Ok(Block("Block", l.kids), r))

(* ( Expression ) and what follows it.                                     *)
Condition(ts, c, F(_, _)) ==
    Expect(ts, "(", LAMBDA r :
      Then(parseExpression(r, c, FALSE), LAMBDA n, r1 :
        Expect(r1, ")", LAMBDA r2 : F(n, r2))))

(* A node, or another one when the statement is empty.                     *)
Unless(stmt, node, other) == IF IsNone(stmt) THEN other ELSE node

parseBreakStatement(ts, c) ==
    IF c.loop = 0 /\ c.switch = 0 THEN Failed
    ELSE Expect(Rest(ts), ";", LAMBDA r : Ok(N("break", "", <<>>), r))

parseContinueStatement(ts, c) ==
    IF c.loop = 0 THEN Failed
    ELSE Expect(Rest(ts), ";", LAMBDA r : Ok(N("continue", "", <<>>), r))

parseReturnStatement(ts, c) ==
    IF Tok(Rest(ts)) = ";" THEN Ok(N("return", "", <<>>), Rest(Rest(ts)))
    ELSE Then(parseExpression(Rest(ts), c, FALSE), LAMBDA n, r :
            Expect(r, ";", LAMBDA r1 : Ok(N("return", "", <<n>>), r1)))

parseThrowStatement(ts, c) ==
    Then(parseExpression(Rest(ts), c, FALSE), LAMBDA n, r :
        Expect(r, ";", LAMBDA r1 : Ok(N("throw", "", <<n>>), r1)))

(* Declarations, after 'var': a name, and perhaps its initial value.       *)
RECURSIVE Declarations(_, _, _, _, _)
Declarations(op, ts, c, noIn, list) ==
    LET Add(l, r) == IF Tok(r) = "," THEN Declarations(op, Rest(r), c, noIn, l)
                     ELSE Ok(Block("Comma", l), r)
        id == Tok(ts)
    IN  IF id \notin Identifiers THEN Failed
        ELSE IF Tok(Rest(ts)) = "="
        THEN Then(parseAssignmentExpression(Rest(Rest(ts)), c, noIn),
               LAMBDA n, r : Add(Append(list, N(op, id, <<n>>)), r))
        ELSE Add(Append(list, N(op, id, <<>>)), Rest(ts))

parseVarStatement(ts, c) ==
    Then(Declarations("var", Rest(ts), c, FALSE, <<>>), LAMBDA n, r :
        Expect(r, ";", LAMBDA r1 : Ok(n, r1)))

parseForVarStatement(ts, c) == Declarations("forvar", Rest(ts), c, TRUE, <<>>)

parseIfStatement(ts, c) ==
    Condition(Rest(ts), c, LAMBDA e, r :
      Then(parseStatement(r, c), LAMBDA s1, r1 :
        LET Alone == Unless(s1, N("if", "", <<e, s1>>), e) IN
        IF Tok(r1) # "else" THEN Ok(Alone, r1)
        ELSE Then(parseStatement(Rest(r1), c), LAMBDA s2, r2 :
          Ok(CASE IsNone(s2) -> Alone
               [] IsNone(s1) -> N("ifnot", "", <<e, s2>>)
               [] OTHER -> N("if", "", <<e, s1, s2>>), r2))))

parseIterationStatementDo(ts, c) ==
    Then(parseStatement(Rest(ts), InLoop(c)), LAMBDA s, r :
      Expect(r, "while", LAMBDA r1 : Condition(r1, c, LAMBDA e, r2 :
        Expect(r2, ";", LAMBDA r3 :
          Ok(N("do", "", Unless(s, <<s, e>>, <<e>>)), r3)))))

parseIterationStatementWhile(ts, c) ==
    Condition(Rest(ts), c, LAMBDA e, r :
      Then(parseStatement(r, InLoop(c)), LAMBDA s, r1 :
        Ok(N("while", "", Unless(s, <<e, s>>, <<e>>)), r1)))

ForNode(e1, e2, e3, s) ==
    LET Bit(e) == IF IsNone(e) THEN "0" ELSE "1"
    IN  IF IsNone(e2) /\ IsNone(s) THEN Error
        ELSE N("for" \o Bit(e1) \o Bit(e2) \o Bit(e3), "",
               SelectSeq(<<e1, e2, e3, s>>, LAMBDA n : ~IsNone(n)))

(* An optional expression and the token that ends it.                      *)
OptionalExpression(ts, c, end, F(_, _)) ==
    IF Tok(ts) = end THEN F(None, Rest(ts))
    ELSE Then(parseExpression(ts, c, FALSE), LAMBDA n, r :
            Expect(r, end, LAMBDA r1 : F(n, r1)))

ForClauses(e1, ts, c) ==
    OptionalExpression(ts, c, ";", LAMBDA e2, r :
      OptionalExpression(r, c, ")", LAMBDA e3, r1 :
        Then(parseStatement(r1, InLoop(c)), LAMBDA s, r2 :
          Ok(ForNode(e1, e2, e3, s), r2))))

ForIn(e1, ts, c) ==
    IF e1.op = "Comma" THEN Failed
    ELSE Then(parseExpression(ts, c, FALSE), LAMBDA e2, r :
      Expect(r, ")", LAMBDA r1 :
        Then(parseStatement(r1, InLoop(c)), LAMBDA s, r2 :
          Ok(N("forin", "", Unless(s, <<e1, e2, s>>, <<e1, e2>>)), r2))))

parseIterationStatementFor(ts, c) ==
    Expect(Rest(ts), "(", LAMBDA r :
      IF Tok(r) = ";" THEN ForClauses(None, Rest(r), c)
      ELSE Then(IF Tok(r) = "var" THEN parseForVarStatement(r, c)
                                  ELSE parseExpression(r, c, TRUE),
             LAMBDA e1, r1 :
               IF Tok(r1) = "in" THEN ForIn(e1, Rest(r1), c)
               ELSE Expect(r1, ";", LAMBDA r2 : ForClauses(e1, r2, c))))

(* The cases of a switch, the default and the statements, in their order:  *)
(* the index a case keeps is the place of its label among the statements.  *)
RECURSIVE CaseBlock(_, _, _)
CaseBlock(ts, c, list) ==
    CASE Tok(ts) = "case" ->
            Then(parseExpression(Rest(ts), c, FALSE), LAMBDA n, r :
              Expect(r, ":", LAMBDA r1 :
                CaseBlock(r1, c, Append(list, N("case", "", <<n>>)))))
      [] Tok(ts) = "default" ->
            Expect(Rest(ts), ":", LAMBDA r :
              CaseBlock(r, c, IF \E i \in DOMAIN list : list[i].op = "default"
                              THEN list ELSE Append(list, N("default", "", <<>>))))
      [] Tok(ts) = "}" -> Ok(N("List", "", list), Rest(ts))
      [] OTHER -> Then(parseStatement(ts, InSwitch(c)), LAMBDA n, r :
                      CaseBlock(r, c, addStatement(list, n)))

parseSwitchStatement(ts, c) ==
    Condition(Rest(ts), c, LAMBDA e, r : Expect(r, "{", LAMBDA r1 :
      Then(CaseBlock(r1, c, <<>>), LAMBDA l, r2 :
        Ok(N("switch", "", <<e>> \o l.kids), r2))))

(* Without a try block nothing can be caught: what is left is finally.     *)
TryNode(try, catch, finally) ==
    CASE catch.op = "Absent" /\ finally.op = "Absent" -> Error
      [] IsNone(try) -> IF finally.op = "Absent" THEN None ELSE finally
      [] OTHER -> N("try", "", <<try, catch, finally>>)
Absent == N("Absent", "", <<>>)

(* An optional block, after its keyword.                                   *)
BlockAfter(ts, c) ==
    Expect(ts, "{", LAMBDA r : parseBlock(ts, c))
CatchBlock(ts, c) ==
    IF Tok(ts) # "catch" THEN Ok(Absent, ts)
    ELSE Expect(Rest(ts), "(", LAMBDA r :
      IF Tok(r) \notin Identifiers THEN Failed
      ELSE Expect(Rest(r), ")", LAMBDA r1 :
        Then(BlockAfter(r1, c), LAMBDA n, r2 :
          Ok(N("catch", Tok(r), <<n>>), r2))))
FinallyBlock(ts, c) ==
    IF Tok(ts) # "finally" THEN Ok(Absent, ts) ELSE BlockAfter(Rest(ts), c)

parseTryStatement(ts, c) ==
    Then(BlockAfter(Rest(ts), c), LAMBDA try, r :
      Then(CatchBlock(r, c), LAMBDA catch, r1 :
        Then(FinallyBlock(r1, c), LAMBDA finally, r2 :
          Ok(TryNode(try, catch, finally), r2))))

parseWithStatement(ts, c) ==
    Condition(Rest(ts), c, LAMBDA e, r :
      Then(parseStatement(r, c), LAMBDA s, r1 :
        Ok(Unless(s, N("with", "", <<e, s>>), e), r1)))

parseStatement(ts, c) ==
    CASE Tok(ts) = "{"        -> parseBlock(ts, c)
      [] Tok(ts) = "var"      -> parseVarStatement(ts, c)
      [] Tok(ts) = ";"        -> Ok(None, Rest(ts))
      [] Tok(ts) = "if"       -> parseIfStatement(ts, c)
      [] Tok(ts) = "do"       -> parseIterationStatementDo(ts, c)
      [] Tok(ts) = "while"    -> parseIterationStatementWhile(ts, c)
      [] Tok(ts) = "for"      -> parseIterationStatementFor(ts, c)
      [] Tok(ts) = "continue" -> parseContinueStatement(ts, c)
      [] Tok(ts) = "break"    -> parseBreakStatement(ts, c)
      [] Tok(ts) = "return"   -> parseReturnStatement(ts, c)
      [] Tok(ts) = "with"     -> parseWithStatement(ts, c)
      [] Tok(ts) = "switch"   -> parseSwitchStatement(ts, c)
      [] Tok(ts) = "throw"    -> parseThrowStatement(ts, c)
      [] Tok(ts) = "try"      -> parseTryStatement(ts, c)
      [] OTHER -> Then(parseExpression(ts, c, FALSE), LAMBDA n, r :
                      Expect(r, ";", LAMBDA r1 : Ok(n, r1)))

(* A program: statements, and function declarations between them.          *)
RECURSIVE Program(_, _)
Program(ts, list) ==
    LET c == [loop |-> 0, switch |-> 0] IN
    IF ts = <<>> THEN Ok(Block("Block", list), ts)
    ELSE Then(IF Tok(ts) = "function" THEN parseFunctionDeclaration(ts, c)
                                      ELSE parseStatement(ts, c),
           LAMBDA n, r : Program(r, addStatement(list, n)))
parse(ts) == Program(ts, <<>>).node
===============================================================================
