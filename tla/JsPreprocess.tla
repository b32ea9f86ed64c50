----------------------------- MODULE JsPreprocess ------------------------------
(***************************************************************************)
(* The preprocessor of the script engine, JsScriptPreprocessor.cpp: files  *)
(* that include others become one text, in which lines of the form         *)
(* #line n "file" tell the scanner where what follows was written.         *)
(*                                                                         *)
(* The files are their texts by name; a file not among them does not       *)
(* exist.  Every one that exists can be read.                              *)
(***************************************************************************)
EXTENDS JsText

(* An exception of the preprocessor.                                       *)
Bad == [cursor |-> NoCursor, output |-> <<>>, included |-> {}]
Word(w) == CASE w = "line"    -> <<"#", "l", "i", "n", "e", " ">>
             [] w = "include" -> <<"#", "i", "n", "c", "l", "u", "d", "e", " ">>

(* A name must not be that of the file itself or of one it is included by. *)
okToIncludeFile(names, name) == \A i \in DOMAIN names : names[i] # name

LineDirective(line, name) ==
    Word("line") \o [i \in 1 .. Len(ToString(line)) |-> SubSeq(ToString(line), i, i)]
    \o <<" ", "\"">> \o name \o <<"\"", LF>>
\* Mutant: a line directive is put at the end of an unfinished line.
EndsLine_Always(output) == TRUE
EndsLine(output) == output[Len(output)] = LF

RECURSIVE preprocess(_, _, _, _, _, _), parsePreprocessorDirective(_, _, _, _),
          Further(_, _, _, _, _, _), AfterDirectiveLine(_, _, _, _), Include(_, _, _, _, _)

(* names are the file, the file that includes it, and so on; the text      *)
(* before the place from is in the output already.                         *)
preprocess(files, names, p, from, output, included) ==
    Further(files, names, skipWhiteSpaceAndComments(files[names[1]], p), from, output, included)
Further(files, names, q, from, output, included) ==
    LET t == files[names[1]]
        copied == output \o SubSeq(t, from, q.at - 1)
    IN  CASE At(t, q.at) = "#" ->
                AfterDirectiveLine(files, names, included,
                                   parsePreprocessorDirective(files, names, q, copied))
          [] At(t, q.at) = "" -> [cursor |-> q, output |-> copied, included |-> included]
          [] OTHER -> preprocess(files, names, skipSingleLineComment(t, q), from, output, included)
AfterDirectiveLine(files, names, included, d) ==
    IF d = Bad THEN Bad
    ELSE preprocess(files, names, d.cursor, d.cursor.at, d.output, included \cup d.included)

(* What follows once the file a directive names has been read, and the     *)
(* file itself.                                                            *)
Included(name, rest, inner) ==
    IF inner = Bad THEN Bad
    ELSE [cursor |-> rest,
          output |-> inner.output \o (IF EndsLine(inner.output) THEN <<>> ELSE <<LF>>)
                     \o LineDirective(rest.line, name),
          included |-> inner.included]
Include(files, names, rest, name, output) ==
    IF ~okToIncludeFile(names, name) \/ name \notin DOMAIN files THEN Bad
    ELSE Included(names[1], rest,
                  preprocess(files, <<name>> \o names, Cursor(1, 1), 1,
                             output \o LineDirective(1, name), {name}))
parsePreprocessorDirective(files, names, p, output) ==
    LET t == files[names[1]]
        i == Past(t, p.at + 1, Spaces)
        directive == getIdentifier(t, i)
        quote == Past(t, directive.at, Spaces)
        end == Until(t, quote + 1, {"\"", LF})
    IN  CASE At(t, i) \notin Letters ->
                [cursor |-> skipSingleLineComment(t, Cursor(i, p.line)),
                 output |-> output, included |-> {}]
          [] At(t, i) \in Letters /\ \/ directive.value # "include"
                                     \/ At(t, quote) # "\"" \/ At(t, end) # "\"" -> Bad
          [] OTHER -> Include(files, names, skipWhiteSpaceAndComments(t, Cursor(end + 1, p.line)),
                              SubSeq(t, quote + 1, end - 1), output)

(* A file as it is given to the engine.                                    *)
preprocessFile(files, name) == preprocess(files, <<name>>, Cursor(1, 1), 1, <<>>, {})

-------------------------------------------------------------------------------
(* Reference.  A file is a list of items: words, line ends, comments of    *)
(* both kinds, directives that are none, and inclusions.  What begins with *)
(* a hash is one only where nothing but comments comes before it on its    *)
(* line.                                                                   *)
Item(kind, text) == [kind |-> kind, text |-> text]
WordItem(c)    == Item("word", <<c>>)
NewLine        == Item("newline", <<>>)
Inclusion(f)   == Item("include", f)
LineComment    == Item("lineComment", <<>>)
HashComment    == Item("hashComment", <<>>)
LongComment    == Item("longComment", <<>>)

TextOf(item) ==
    CASE item.kind = "word" -> <<" ">> \o item.text
      [] item.kind = "newline" -> <<LF>>
      [] item.kind = "include" -> Word("include") \o <<"\"">> \o item.text \o <<"\"">>
      [] item.kind = "lineComment" -> <<"/", "/">>
      [] item.kind = "hashComment" -> <<"#", "1">>
      [] item.kind = "longComment" -> <<"/", "*", LF>> \o Word("include") \o <<"\"", "\"", LF, "*", "/">>
RECURSIVE FileText(_)
FileText(items) == IF items = <<>> THEN <<>> ELSE TextOf(items[1]) \o FileText(Tail(items))

(* The engine's own ways: a comment of several lines is not seen after a   *)
(* word, and a directive that is none is dropped with the end of its line, *)
(* so that the lines after it are counted short.                           *)

(* The items on the line of the i-th one before it.                        *)
LineBefore(items, i) ==
    {j \in 1 .. i - 1 : \A k \in j .. i - 1 : items[k].kind # "newline"}
Swallowed(items, i) ==
    \E j \in LineBefore(items, i) :
        /\ items[j].kind \in {"lineComment", "hashComment"}
        /\ items[i].kind # "newline"
LegalItems(items) ==
    \A i \in DOMAIN items :
        /\ items[i].kind \in {"include", "longComment"} /\ ~Swallowed(items, i) =>
             \A j \in LineBefore(items, i) : items[j].kind \notin {"word"}
        /\ items[i].kind = "longComment" => ~Swallowed(items, i)
        /\ items[i].kind = "hashComment" /\ ~Swallowed(items, i) =>
             \/ \E j \in LineBefore(items, i) : items[j].kind = "word"
             \/ \A j \in i .. Len(items) : items[j].kind # "newline"

(* The words of a file with its line each, those of included files in the  *)
(* place of the inclusion; NoWords if an inclusion is circular or of no    *)
(* file.                                                                   *)
NoWords == <<"none">>
LineOf(items, i) ==
    1 + Cardinality({j \in 1 .. i - 1 : items[j].kind = "newline"})
      + 2 * Cardinality({j \in 1 .. i - 1 : items[j].kind = "longComment"})
Chained(some, more) == IF some = NoWords \/ more = NoWords THEN NoWords ELSE some \o more
RECURSIVE WordsFrom(_, _, _)
WordsFrom(files, names, i) ==
    LET items == files[names[1]]
        item == items[i]
        inner == IF item.text \notin DOMAIN files \/ \E k \in DOMAIN names : names[k] = item.text
                 THEN NoWords ELSE WordsFrom(files, <<item.text>> \o names, 1)
    IN  IF i > Len(items) THEN <<>>
        ELSE Chained(CASE Swallowed(items, i) -> <<>>
                       [] ~Swallowed(items, i) /\ item.kind = "word" ->
                             <<<<"Identifier", <<item.text[1]>>, LineOf(items, i)>>>>
                       [] ~Swallowed(items, i) /\ item.kind = "include" -> inner
                       [] OTHER -> <<>>,
                     WordsFrom(files, names, i + 1))
WordsMeant(files, name) ==
    LET words == WordsFrom(files, <<name>>, 1)
        items == files[name]
    IN  IF words = NoWords THEN NoWords
        ELSE Append(words, <<"Eof", <<>>, LineOf(items, Len(items) + 1)>>)

(* The files a file includes, itself or through others.                    *)
RECURSIVE Reached(_, _)
Reached(files, names) ==
    LET more == names \cup
                {f \in DOMAIN files :
                    \E n \in names : \E i \in DOMAIN files[n] :
                        files[n][i] = Inclusion(f) /\ ~Swallowed(files[n], i)}
    IN  IF more = names THEN names ELSE Reached(files, more)
===============================================================================
