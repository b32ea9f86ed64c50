------------------------------ MODULE JsScriptMC ------------------------------
(***************************************************************************)
(* Small programs, expressions and values for JsScript.                    *)
(***************************************************************************)
EXTENDS JsScript

MCIdentifiers == {"a", "x", "y", "k", "o", "c", "f", "e", "p"} \cup InbuiltNames

T(k, c, parts) == Ref!T(k, c, parts)
X(v) == Ref!Assign(v)
Leaf(k) == T(k, "", <<>>)

MCLeaves == {X("1"), T("pick", "", <<>>), Leaf("var"), Leaf("empty"), Leaf("break"),
             Leaf("continue"), Leaf("return"), Leaf("throw")}

(* A try statement with these parts; <<>> stands for no clause.            *)
TryOf(try, catch, finally) ==
    T("try", [catch |-> catch # <<>>, finally |-> finally # <<>>],
      <<try>> \o (IF catch = <<>> THEN <<Leaf("empty")>> ELSE catch) \o finally)
Case(v) == T("case", v, <<>>)
Default == T("default", "", <<>>)

(* The statements around a statement; fewer kinds of them around two.      *)
Around(s) ==
    {T("while", "c", <<s>>), T("with", "", <<s>>),
     T("call", "", <<s>>), TryOf(s, <<X("6")>>, <<>>), TryOf(s, <<>>, <<X("5")>>),
     T("switch", "1", <<Default, X("3"), Case("1"), s>>)}
MCWraps(s, depth) == IF depth = 2 THEN Around(s) ELSE
    {T("block", "", <<s, X("2")>>), T("block", "", <<X("2"), s>>)}
    \cup {T("if", c, <<s>>) : c \in {"c", "not", "and", "or"}}
    \cup {T("if", "c", <<s, X("2")>>), T("if", "c", <<X("2"), s>>),
          T("if", "c", <<Leaf("empty"), s>>)}
    \cup {T("while", c, <<s>>) : c \in {"c", "and"}}
    \cup {T("do", "", <<s>>)}
    \cup {T("for", h, <<s>>) : h \in {<<"", FALSE, FALSE>>, <<"", FALSE, TRUE>>,
                <<"", TRUE, FALSE>>, <<"x", TRUE, TRUE>>, <<"var", TRUE, TRUE>>}}
    \cup {T("forin", <<"k">>, <<s>>), T("forin", <<"var", "k">>, <<s>>)}
    \cup {T("switch", "1", <<Case("0"), X("2"), Case("1"), s, Default, X("3")>>),
          T("switch", "1", <<Default, s, Case("2"), X("2")>>),
          T("switch", "1", <<Case("'1'"), X("2"), Leaf("break"), Case("1"), s>>)}
    \cup {TryOf(s, <<X("6")>>, <<>>), TryOf(s, <<Leaf("empty")>>, <<>>),
          TryOf(s, <<>>, <<X("5")>>), TryOf(s, <<X("6")>>, <<X("5")>>),
          TryOf(Leaf("throw"), <<s>>, <<>>), TryOf(Leaf("throw"), <<s>>, <<X("5")>>),
          TryOf(X("2"), <<>>, <<s>>), TryOf(Leaf("throw"), <<X("6")>>, <<s>>)}
    \cup {T("with", "", <<s>>), T("call", "", <<s>>)}

MCOracles == {<<>>, <<TRUE>>, <<FALSE, TRUE>>, <<TRUE, FALSE, TRUE>>}

(* Every operator over a and 1, and over every such expression.            *)
Id  == N("Identifier", "a", <<>>)
One == N("Literal", "1", <<>>)
OpsOf(k) ==
    CASE k = 1 -> {"unary" \o u : u \in Ref!UnaryOperators} \cup {"post++", "post--"}
      [] k = 2 -> UNION {Ref!BinaryOperators[i] : i \in DOMAIN Ref!BinaryOperators}
                  \cup Ref!AssignmentOperators \cup {"[", "FunctionCall", "Comma"}
      [] k = 3 -> {"?"}
Simple == {N(op, "", <<Id>>) : op \in OpsOf(1)} \cup {N(".", "p", <<Id>>)}
          \cup {N(op, "", <<Id, One>>) : op \in OpsOf(2)} \cup {N("?", "", <<Id, One, Id>>)}
MCExpressions ==
    {N(op, "", <<e>>) : op \in OpsOf(1), e \in Simple}
    \cup {N(".", "p", <<e>>) : e \in Simple}
    \cup {N(op, "", <<e, One>>) : op \in OpsOf(2), e \in Simple}
    \cup {N(op, "", <<Id, e>>) : op \in OpsOf(2) , e \in Simple}
    \cup {N("?", "", ts) : ts \in {<<e, Id, One>> : e \in Simple}
                          \cup {<<Id, e, One>> : e \in Simple}
                          \cup {<<Id, One, e>> : e \in Simple}}

MCConstructors == ("Date" :> 0)
Digits == <<"0", "1", "2", "3", "4", "5", "6", "7", "8", "9">>
MCLiteralValues ==
    [d \in {Digits[i] : i \in DOMAIN Digits} |->
        Number(CHOOSE i \in 0 .. 9 : Digits[i + 1] = d)]
    @@ ("'1'" :> String("1")) @@ ("'2'" :> String("2")) @@ ("''" :> String(""))
    @@ ("'a'" :> String("a")) @@ ("true" :> Bool(TRUE)) @@ ("false" :> Bool(FALSE))
    @@ ("null" :> Null) @@ ("undefined" :> Undefined)
MCOperatorLiterals == {"0", "1", "2", "''", "'1'", "'2'", "'a'", "true", "false",
                       "null", "undefined"}
MCNumerals == ("" :> 0) @@ ("1" :> 1) @@ ("2" :> 2)
MCStringOrder == <<"", "1", "2", "a">>
MCNames == <<"c", "f", "k", "o", "value", "x", "y", "z">>

(* Texts for the scanner, by the part of it they try.                      *)
RECURSIVE Strings(_, _)
Strings(chunks, n) ==
    IF n = 0 THEN {<<>>}
    ELSE LET r == Strings(chunks, n - 1) IN r \cup {c \o t : c \in chunks, t \in r}
Chars(cs) == {<<c>> : c \in cs}
MCTexts ==
    Strings(Chars({"<", ">", "=", "!", "a"}), 5)
    \cup Strings(Chars({"&", "|", "+", "-", "*", "/", "%", "^", "=", "~"}), 3)
    \cup Strings(Chars({"0", "1", ".", "e", "+", "x", " "}), 4)
    \cup {<<"'">> \o t : t \in Strings(Chars({"'", "\"", "\\", "n", "4", "\n"})
                                       \cup {<<"x", "4">>}, 4)}
    \cup Strings(Chars({"/", "*", "\n", "\r", "a"}), 5)
    \cup Strings(Chars({"$", "_", "1", " "})
                 \cup {<<"i", "n">>, <<"s", "t", "a", "n", "c", "e", "o", "f">>, <<"d", "o">>,
                       <<"$", "l", "i", "n", "e">>}, 3)
    \cup {<<"#">> \o t : t \in Strings(Chars({" ", "\n", "\"", "a"})
                                       \cup {<<"l", "i", "n", "e", " ", "7">>,
                                             <<"\"", "a", "\"">>}, 4)}

(* Values of JSON: scalars, objects and arrays of them, and of those.      *)
MCCharOrder == <<"\"", "'", "0", "1", "2", "3", "4", "5", "6", "7", "8", "9", "a", "b", "e",
                 "l", "o", "p", "r", "t", "u", "v", "y", "z">>
JsonNumber(m, e) == Json!Value("number", <<m, e>>)
JsonString(s) == Json!Value("string", s)
JsonBool(b) == Json!Value("boolean", b)
JsonArray(s) ==
    Json!ArrayE([x \in {Json!IntegerText(i - 1) : i \in DOMAIN s} |->
                    s[CHOOSE i \in DOMAIN s : Json!IntegerText(i - 1) = x]], Len(s))
Scalars ==
    {Json!Null, Json!Undefined, JsonBool(TRUE), JsonBool(FALSE), Json!Value("number", <<>>)}
    \cup {JsonNumber(n[1], n[2]) :
            n \in {<<0, 0>>, <<7, 0>>, <<15, -1>>, <<5, -3>>, <<12, 3>>, <<-3, 0>>, <<1, 15>>, <<1, -6>>}}
    \cup {JsonString(s) : s \in {<<>>, <<"a">>, <<"a", "\"">>, <<"\\", "n">>, <<"{", "1">>}}
FewScalars == {Json!Null, JsonBool(TRUE), JsonNumber(15, -1), JsonString(<<"a", ":">>), JsonNumber(7, 0)}
NameA == <<"a">>
NameZ == <<"z">>
NameP == Json!PrototypeC
Composed(values, names, others) ==
    {Json!ObjectE(Json!Empty), JsonArray(<<>>)}
    \cup {Json!ObjectE(n :> v) : n \in names, v \in values}
    \cup {Json!ObjectE((m :> v) @@ (n :> w)) : m \in names, n \in names, v \in others, w \in others}
    \cup {JsonArray(<<v>>) : v \in values} \cup {JsonArray(<<v, w>>) : v \in others, w \in others}
Shallow == Composed(Scalars, {NameA, <<"b", "1">>, <<"7">>, NameP, NameZ}, FewScalars)
InZ(v) == Json!ObjectE(NameZ :> v)
Deep ==
    Composed(Shallow, {NameA, NameP},
             {JsonNumber(1, 0), Json!ObjectE(Json!Empty), InZ(JsonNumber(2, 0)),
              JsonArray(<<JsonNumber(1, 0), JsonString(<<"a">>)>>),
              Json!ObjectE((NameA :> JsonNumber(1, 0)) @@ (NameZ :> JsonBool(TRUE)))})
Prototypes ==
    {Json!ObjectE((NameP :> v) @@ (n :> w)) :
        v \in Scalars \cup {InZ(JsonNumber(2, 0)), Json!ObjectE(NameP :> InZ(Json!Null))},
        n \in {NameA, NameZ}, w \in FewScalars}
MCJsonValues == Scalars \cup Shallow \cup Deep \cup Prototypes
                \cup {JsonArray([i \in 1 .. n |-> JsonNumber(5, 0)]) : n \in 3 .. 11}

(* The first and last second of every day of some years, and the last      *)
(* second there is.                                                        *)
MCMoments ==
    {d * 86400 + s :
        s \in {0, 45296, 86399},
        d \in UNION {Clock!DaysBefore(y, 1) .. Clock!DaysBefore(y + 1, 1) - 1 :
                        y \in {1970, 1971, 1972, 1999, 2000, 2001, 2036, 2037}}}
    \cup {2147483647}
MCSpans == {Clock!Time(s, n) : s \in 0 .. 4, n \in 0 .. 9}
(* Greenwich, five hours and three and a half west, five and a half east.  *)
MCZonesBehind == {0, 18000, 12600, -19800}
(* Into and out of daylight saving at Greenwich, west of it, and east.     *)
MCZoneChanges == {<<0, -3600>>, <<12600, 9000>>, <<-37800, -34200>>}
(* Times before and after the zone kept for the clock.                     *)
MCDistances == {-20, 20}

(* Years of two and four digits, days that are lost modulo 12, and hours   *)
(* beyond a day; for the setters, too few and too many arguments as well.  *)
MCDatesMade ==
    {<<70, 0>>, <<1972, 1, 11, 23>>, <<99, 11, 12>>, <<2036, 13, 30, 25, 61>>, <<2000, 6, 4, 0, 59, 61>>}
MCDateArguments ==
    {<<>>, <<25, 61, 61, 0, 0>>}
    \cup UNION {{<<v>>, <<v, 1>>, <<v, 61, 30>>, <<v, 0, 59, 999>>} : v \in {0, 11, 25, 71, 2036}}

(* A file m that includes f, g and a file that is not there; f and g may   *)
(* include each other, and f may include m.                                *)
MCMainFile == <<"m">>
Lists(items, n) == UNION {[1 .. k -> items] : k \in 0 .. n}
MCFiles ==
    {(<<"m">> :> m) @@ (<<"f">> :> f) @@ (<<"g">> :> g) :
        m \in Lists({Preprocessor!WordItem("a"), Preprocessor!NewLine, Preprocessor!Inclusion(<<"f">>),
                     Preprocessor!Inclusion(<<"g">>), Preprocessor!Inclusion(<<"x">>),
                     Preprocessor!LineComment, Preprocessor!HashComment, Preprocessor!LongComment}, 3),
        f \in Lists({Preprocessor!WordItem("b"), Preprocessor!NewLine, Preprocessor!Inclusion(<<"g">>),
                     Preprocessor!Inclusion(<<"m">>), Preprocessor!LineComment}, 2),
        g \in Lists({Preprocessor!WordItem("c"), Preprocessor!Inclusion(<<"f">>)}, 1)}

MCPropertyNames == <<"-1", "0", "1", "2", "x">>
MCNameNumbers == ("-1" :> -1) @@ ("0" :> 0) @@ ("1" :> 1) @@ ("2" :> 2)
===============================================================================
