----------------------------- MODULE LispLibrary -----------------------------
(***************************************************************************)
(* Common Lisp source and the data programs work on.                       *)
(*                                                                         *)
(* The reader (common-lisp.js: the token scanner, readCommonLispSource     *)
(* over its character stream and readtable, quasiquote, reader macros,     *)
(* formatCommonLispForm): sources are kept as text, and what is printed    *)
(* into an artifact is read again by later compilations.  A text is a      *)
(* sequence of characters; a run of letters that nothing looks into is one *)
(* character of it, with an upper case of its own.                         *)
(*                                                                         *)
(* The library: the runtime helpers every image installs                   *)
(* (installCommonLispRuntimePrimitives: conses, vectors, characters,       *)
(* predicates, integers) and the standard library written in Lisp over     *)
(* them (STANDARD_LIBRARY_SOURCE): lists, sequences, property lists,       *)
(* printing, string streams, FORMAT, types.  A value is an immediate (a    *)
(* symbol, an integer, a string, a character, a function) or points to a   *)
(* cons or a vector of the heap; every function gives a value and the heap *)
(* it leaves, or signals an error.                                         *)
(***************************************************************************)
EXTENDS Integers, Sequences, SequencesExt, FiniteSets, TLC

CONSTANTS
    Uppercase,         \* of the letters (and runs of letters) that have one
    CharCodes,         \* characters and character names -> code
    ReaderFunctions,   \* name -> [steps, gives]: the functions a reader macro may be handled by
    Preamble,          \* the forms a source begins with
    Readable,          \* forms
    Templates,         \* forms with unquotes
    Styles             \* ways to write a form

VARIABLE reading       \* [what, form, style]

----------------------------------------
(* Forms.  A symbol is its canonical name. *)

Sym(name) == [name |-> name, keyword |-> Len(name) > 1 /\ name[1] = ":"]
Num(n) == [int |-> n]
Text(cs) == [text |-> cs]
NilForm == [name |-> <<"NIL">>, keyword |-> FALSE]
Dotted(items, tail) == IF items = <<>> /\ tail = <<>> THEN NilForm ELSE [list |-> items, tail |-> tail]
Listed(items) == Dotted(items, <<>>)
Made(head, items) == Listed(<<Sym(<<head>>)>> \o items)

IsListForm(f) == "list" \in DOMAIN f
HeadIs(f, head) == IsListForm(f) /\ f.list[1] = Sym(<<head>>)
UpperOf(c) == IF c \in DOMAIN Uppercase THEN Uppercase[c] ELSE c

----------------------------------------
(* The stream: a text, the place reached, the characters put back, the delimiters of the lists   *)
(* being read, the readtable and the functions defined so far.  ok: nothing was thrown.          *)

End == "end of text"
Backquote == "backquote"
Whitespace == {" ", "\n", "\t"}
Delimiters == Whitespace \union {"(", ")", "'", Backquote, ",", "\"", ";", End}
Digits == <<"0", "1", "2", "3", "4", "5", "6", "7", "8", "9">>
IsDigit(c) == c \in ToSet(Digits)
DigitOf(c) == (CHOOSE i \in DOMAIN Digits : Digits[i] = c) - 1

NoEntries == [c \in {} |-> 0]
StreamOf(text, chars, dispatch, known) ==
    [text |-> text, at |-> 1, unread |-> <<>>, delims |-> {}, chars |-> chars, dispatch |-> dispatch, known |-> known, ok |-> TRUE]
Thrown(r) == [r EXCEPT !.ok = FALSE]

CharAt(r, i) == IF i <= Len(r.text) THEN r.text[i] ELSE End
Peek(r) == IF r.unread # <<>> THEN Last(r.unread) ELSE CharAt(r, r.at)
PeekSecond(r) ==
    LET n == Len(r.unread) IN IF n >= 2 THEN r.unread[n - 1] ELSE CharAt(r, r.at + 1 - n)
ReadChar(r) ==
    IF r.unread # <<>> THEN [r EXCEPT !.unread = Front(@)]
    ELSE IF r.at > Len(r.text) THEN r ELSE [r EXCEPT !.at = @ + 1]
UnreadChar(c, r) == [r EXCEPT !.unread = Append(@, c)]

\* A custom delimiter ends a token only while its list is read, or when it terminates.
Delimits(c, r) ==
    \/ c \in Delimiters \union r.delims
    \/ c \in DOMAIN r.chars /\ ~r.chars[c].nonTerminating

RECURSIVE SkipLine(_), SkipBlock(_, _), Skip(_), ReadPiped(_, _), ReadToken(_, _), ReadText(_, _), TakeDigits(_, _), TakeRest(_, _)

SkipLine(r) == IF Peek(r) \in {End, "\n"} THEN r ELSE SkipLine(ReadChar(r))

Within(two, s, depth) ==
    IF two = <<"#", "|">> THEN SkipBlock(ReadChar(s), depth + 1)
    ELSE IF two = <<"|", "#">> THEN SkipBlock(ReadChar(s), depth - 1) ELSE SkipBlock(s, depth)
SkipBlock(r, depth) ==
    IF depth = 0 THEN r
    ELSE IF Peek(r) = End THEN Thrown(r) ELSE Within(<<Peek(r), PeekSecond(r)>>, ReadChar(r), depth)

Skip(r) ==
    IF ~r.ok THEN r
    ELSE IF Peek(r) \in Whitespace THEN Skip(ReadChar(r))
    ELSE IF Peek(r) = ";" THEN Skip(SkipLine(r))
    ELSE IF Peek(r) = "#" /\ PeekSecond(r) = "|" THEN Skip(SkipBlock(ReadChar(ReadChar(r)), 1)) ELSE r

\* A token: the characters as written and as a name, and whether any was escaped.
NoToken == [raw |-> <<>>, name |-> <<>>, escaped |-> FALSE]
Escaped(t, c) == [raw |-> Append(t.raw, c), name |-> Append(t.name, c), escaped |-> TRUE]

PipedFrom(t, r, c, s) ==
    IF c = End \/ (c = "\\" /\ Peek(s) = End) THEN [t |-> t, r |-> Thrown(r)]
    ELSE IF c = "|" THEN [t |-> t, r |-> s]
    ELSE IF c = "\\" THEN ReadPiped(Escaped(t, Peek(s)), ReadChar(s)) ELSE ReadPiped(Escaped(t, c), s)
ReadPiped(t, r) == PipedFrom(t, r, Peek(r), ReadChar(r))

TokenAfter(p) == ReadToken(p.t, p.r)
TokenFrom(t, r, c, s) ==
    IF ~r.ok \/ Delimits(c, r) THEN [t |-> t, r |-> r]
    ELSE IF c = "|" THEN TokenAfter(ReadPiped([t EXCEPT !.escaped = TRUE], s))
    ELSE IF c = "\\"
    THEN IF Peek(s) = End THEN [t |-> t, r |-> Thrown(s)] ELSE ReadToken(Escaped(t, Peek(s)), ReadChar(s))
    ELSE ReadToken([t EXCEPT !.raw = Append(@, c), !.name = Append(@, UpperOf(c))], s)
ReadToken(t, r) == TokenFrom(t, r, Peek(r), ReadChar(r))

EscapedChar(c) == CASE c = "n" -> "\n" [] c = "t" -> "\t" [] OTHER -> c

\* After the opening quote, up to the closing one.
TextFrom(cs, r, c, s) ==
    IF c = End \/ (c = "\\" /\ Peek(s) = End) THEN [cs |-> cs, r |-> Thrown(r)]
    ELSE IF c = "\"" THEN [cs |-> cs, r |-> s]
    ELSE IF c = "\\" THEN ReadText(Append(cs, EscapedChar(Peek(s))), ReadChar(s)) ELSE ReadText(Append(cs, c), s)
ReadText(cs, r) == TextFrom(cs, r, Peek(r), ReadChar(r))

TakeDigits(cs, r) == IF ~IsDigit(Peek(r)) THEN [cs |-> cs, r |-> r] ELSE TakeDigits(Append(cs, Peek(r)), ReadChar(r))
TakeRest(cs, r) == IF Delimits(Peek(r), r) THEN [cs |-> cs, r |-> r] ELSE TakeRest(Append(cs, Peek(r)), ReadChar(r))

NumberOf(base, ds) == FoldLeft(LAMBDA n, d : base * n + DigitOf(d), 0, ds)
Signed(cs) == IF cs # <<>> /\ cs[1] \in {"+", "-"} THEN Tail(cs) ELSE cs
IsInteger(cs) == Signed(cs) # <<>> /\ \A i \in DOMAIN Signed(cs) : IsDigit(Signed(cs)[i])
IntegerOf(base, cs) == Num(IF cs[1] = "-" THEN -NumberOf(base, Signed(cs)) ELSE NumberOf(base, Signed(cs)))
Bases == [x |-> 16, b |-> 2, o |-> 8]
IsRadix(base, cs) == IsInteger(cs) /\ \A i \in DOMAIN Signed(cs) : DigitOf(Signed(cs)[i]) < base

FormOf(t) == IF ~t.escaped /\ IsInteger(t.raw) THEN IntegerOf(10, t.raw) ELSE Sym(t.name)

----------------------------------------
(* Quasiquote: what is unquoted stands for itself, all else is quoted, from right to left. *)

RECURSIVE ExpandQuasiquote(_), AppendsTheTail(_)

\* A mutation of the expansion: a spliced list is put in as one element.
AppendsTheTail(f) ==
    IF "unquote" \in DOMAIN f THEN f.unquote
    ELSE IF ~IsListForm(f) THEN Made("QUOTE", <<f>>)
    ELSE FoldRight(LAMBDA item, acc :
             Made("CONS", <<IF "splice" \in DOMAIN item THEN item.splice ELSE AppendsTheTail(item), acc>>),
             f.list, IF f.tail = <<>> THEN NilForm ELSE AppendsTheTail(f.tail[1]))

ExpandQuasiquote(f) ==
    IF "unquote" \in DOMAIN f THEN f.unquote
    ELSE IF ~IsListForm(f) THEN Made("QUOTE", <<f>>)
    ELSE IF Len(f.list) = 2 /\ HeadIs(f, "UNQUOTE") THEN f.list[2]
    ELSE FoldRight(LAMBDA item, acc :
             IF "splice" \in DOMAIN item THEN Made("APPEND", <<item.splice, acc>>)
             ELSE Made("CONS", <<ExpandQuasiquote(item), acc>>),
             f.list, IF f.tail = <<>> THEN NilForm ELSE ExpandQuasiquote(f.tail[1]))

----------------------------------------
(* Reading a form *)

Given(f, r) == [f |-> f, dot |-> FALSE, r |-> r]
Dot(r) == [f |-> NilForm, dot |-> TRUE, r |-> r]
Bad(r) == [f |-> NilForm, dot |-> FALSE, r |-> Thrown(r)]
With(a, Goes(_)) == IF a.r.ok THEN Given(Goes(a.f), a.r) ELSE a

RECURSIVE ReadForm(_, _, _), ReadItems(_, _), ReadQuoted(_, _), ReadUntil(_, _, _), RunSteps(_, _, _, _)

\* Inside "(": the closing parenthesis is looked for before a form is read.
DotItem(items, a, tail, end) ==
    IF items = <<>> \/ ~tail.r.ok \/ ~end.ok \/ Peek(end) # ")" THEN Bad(a.r)
    ELSE Given(Dotted(items, <<tail.f>>), ReadChar(end))
ItemsFrom(items, s, a) ==
    IF ~s.ok \/ Peek(s) = End THEN Bad(s)
    ELSE IF Peek(s) = ")" THEN Given(Listed(items), ReadChar(s))
    ELSE IF ~a.r.ok THEN a
    ELSE IF ~a.dot THEN ReadItems(Append(items, a.f), a.r)
    ELSE LET tail == ReadForm(a.r, FALSE, FALSE) IN DotItem(items, a, tail, Skip(tail.r))
ItemsAt(items, s) == ItemsFrom(items, s, ReadForm(s, TRUE, FALSE))
ReadItems(items, r) == ItemsAt(items, Skip(r))

\* Inside "#(": every element is quoted.
QuotedFrom(items, s, a) ==
    IF ~s.ok \/ Peek(s) = End THEN Bad(s)
    ELSE IF Peek(s) = ")" THEN Given(Made("VECTOR", items), ReadChar(s))
    ELSE IF ~a.r.ok THEN a ELSE ReadQuoted(Append(items, Made("QUOTE", <<a.f>>)), a.r)
QuotedAt(items, s) == QuotedFrom(items, s, ReadForm(s, FALSE, FALSE))
ReadQuoted(items, r) == QuotedAt(items, Skip(r))

\* READ-DELIMITED-LIST
UntilFrom(c, items, s, a) ==
    IF ~s.ok \/ Peek(s) = End THEN Bad(s)
    ELSE IF Peek(s) = c THEN Given(Listed(items), ReadChar(s))
    ELSE IF ~a.r.ok THEN a ELSE ReadUntil(c, Append(items, a.f), a.r)
UntilAt(c, items, s) == UntilFrom(c, items, s, ReadForm(s, FALSE, FALSE))
ReadUntil(c, items, r) == UntilAt(c, items, Skip(r))

Delimited(c, r) ==
    [ReadUntil(c, <<>>, [r EXCEPT !.delims = @ \union {c}]) EXCEPT !.r.delims = r.delims]

\* A handler works on the stream: READ, READ-DELIMITED-LIST, READ-CHAR after PEEK-CHAR, UNREAD-CHAR.
ItemsOf(a) == IF IsListForm(a.f) THEN a.f.list ELSE <<>>
After(steps, infix, items, a, new) ==
    IF ~a.r.ok THEN a ELSE RunSteps(Tail(steps), infix, items \o new, a.r)
AfterForm(steps, infix, items, a) == After(steps, infix, items, a, <<a.f>>)
AfterList(steps, infix, items, a) == After(steps, infix, items, a, ItemsOf(a))
Accepted(c, s) == IF Peek(s) = c THEN ReadChar(s) ELSE s

RunSteps(steps, infix, items, r) ==
    IF steps = <<>> THEN Given(Listed(items), r)
    ELSE LET step == steps[1]
         IN  CASE step.op = "form" -> AfterForm(steps, infix, items, ReadForm(r, FALSE, FALSE))
               [] step.op = "until" -> AfterList(steps, infix, items, Delimited(step.char, r))
               [] step.op = "accept" -> RunSteps(Tail(steps), infix, items, Accepted(step.char, Skip(r)))
               [] step.op = "look" -> RunSteps(Tail(steps), infix, items, UnreadChar(Peek(r), ReadChar(r)))
               [] step.op = "infix" -> RunSteps(Tail(steps), infix, items \o (IF infix = <<>> THEN <<Num(2)>> ELSE infix), r)

\* A handler that gives no values has the reader look for the next form.
Gave(gives, a, allowDot, atTop) ==
    IF ~a.r.ok THEN a
    ELSE IF gives = "" THEN ReadForm(a.r, allowDot, atTop) ELSE Given(Made(gives, ItemsOf(a)), a.r)
Handled(entry, infix, r, allowDot, atTop) ==
    IF entry.closing \/ entry.handler \notin r.known \union entry.helpers THEN Bad(r)
    ELSE LET fn == ReaderFunctions[entry.handler]
         IN  Gave(fn.gives, RunSteps(fn.steps, infix, <<>>, r), allowDot, atTop)

NamedChar(named) ==
    IF Len(named.cs) = 1 /\ named.cs[1] \in DOMAIN CharCodes
    THEN Given(Made("CODE-CHAR", <<Num(CharCodes[named.cs[1]])>>), named.r) ELSE Bad(named.r)
Uninterned(rest, s) ==
    IF rest.cs = <<>> THEN Bad(s)
    ELSE Given([name |-> [i \in DOMAIN rest.cs |-> UpperOf(rest.cs[i])], keyword |-> FALSE], rest.r)
Radix(base, rest, s) == IF IsRadix(base, rest.cs) THEN Given(IntegerOf(base, rest.cs), rest.r) ELSE Bad(s)

DispatchedOn(c, sub, infix, r, s, allowDot, atTop) ==
    IF sub = End THEN Bad(s)
    ELSE IF UpperOf(sub) \in DOMAIN r.dispatch[c] THEN Handled(r.dispatch[c][UpperOf(sub)], infix, s, allowDot, atTop)
    ELSE CASE c = "#" /\ sub = "'" -> With(ReadForm(s, FALSE, FALSE), LAMBDA f : Made("FUNCTION", <<f>>))
           [] c = "#" /\ sub = "(" -> ReadQuoted(<<>>, s)
           [] c = "#" /\ sub = ":" -> Uninterned(TakeRest(<<>>, s), s)
           [] c = "#" /\ sub = "\\" -> IF Peek(s) = End THEN Bad(s) ELSE NamedChar(TakeRest(<<Peek(s)>>, ReadChar(s)))
           [] c = "#" /\ sub \in DOMAIN Bases -> Radix(Bases[sub], TakeRest(<<>>, s), s)
           [] OTHER -> Bad(s)
DispatchAfter(c, number, r, allowDot, atTop) ==
    DispatchedOn(c, Peek(number.r), IF number.cs = <<>> THEN <<>> ELSE <<Num(NumberOf(10, number.cs))>>,
                 r, ReadChar(number.r), allowDot, atTop)
ReadDispatch(r, allowDot, atTop) ==
    DispatchAfter(Peek(r), TakeDigits(<<>>, ReadChar(r)), r, allowDot, atTop)

AtomOf(got, allowDot) ==
    IF ~got.r.ok THEN Bad(got.r)
    ELSE IF ~got.t.escaped /\ got.t.raw = <<".">> THEN IF allowDot THEN Dot(got.r) ELSE Bad(got.r)
    ELSE Given(FormOf(got.t), got.r)
ReadAtom(r, allowDot) == AtomOf(ReadToken(NoToken, r), allowDot)

Quotation(string, n) == IF string.r.ok THEN Given(Text(string.cs), string.r) ELSE Bad(n)

\* readFormInternal: atTop, the end of the text is no error.
FormFrom(c, s, n, allowDot, atTop) ==
    IF ~s.ok THEN Bad(s)
    ELSE IF c = End THEN IF atTop THEN Dot(s) ELSE Bad(s)
    ELSE IF c \in DOMAIN s.chars THEN Handled(s.chars[c], <<>>, n, allowDot, atTop)
    ELSE IF c \in DOMAIN s.dispatch THEN ReadDispatch(s, allowDot, atTop)
    ELSE CASE c = "'" -> With(ReadForm(n, FALSE, FALSE), LAMBDA f : Made("QUOTE", <<f>>))
           [] c = Backquote -> With(ReadForm(n, FALSE, FALSE), ExpandQuasiquote)
           [] c = "," -> IF Peek(n) = "@" THEN With(ReadForm(ReadChar(n), FALSE, FALSE), LAMBDA f : [splice |-> f])
                         ELSE With(ReadForm(n, FALSE, FALSE), LAMBDA f : [unquote |-> f])
           [] c = "\"" -> Quotation(ReadText(<<>>, n), n)
           [] c = "(" -> ReadItems(<<>>, n)
           [] c = ")" -> Bad(n)
           [] OTHER -> ReadAtom(s, allowDot)
FormAt(s, allowDot, atTop) == FormFrom(Peek(s), s, ReadChar(s), allowDot, atTop)
ReadForm(r, allowDot, atTop) == FormAt(Skip(r), allowDot, atTop)

----------------------------------------
(* A source: form after form; a form at the top may define a function or change the readtable. *)

CharOf(f) == CHOOSE c \in DOMAIN CharCodes : Num(CharCodes[c]) = f.list[2]

Entry(f, handler, nonTerminating, r) ==
    [handler |-> handler.name, helpers |-> r.known, nonTerminating |-> nonTerminating, closing |-> FALSE]
Closing == [handler |-> <<>>, helpers |-> {}, nonTerminating |-> FALSE, closing |-> TRUE]

\* applyTopLevelReaderMacroRegistrations
Register(f, r) ==
    IF ~IsListForm(f) THEN r
    ELSE CASE HeadIs(f, "DEFUN") -> [r EXCEPT !.known = @ \union {f.list[2].name}]
           [] HeadIs(f, "SET-MACRO-CHARACTER") ->
                 [r EXCEPT !.chars = (CharOf(f.list[2]) :>
                    IF HeadIs(f.list[3], "GET-MACRO-CHARACTER") THEN Closing
                    ELSE Entry(f, f.list[3].list[2], Len(f.list) > 3 /\ f.list[4] # NilForm, r)) @@ @]
           [] HeadIs(f, "SET-DISPATCH-MACRO-CHARACTER") ->
                 LET c == CharOf(f.list[2])
                     was == IF c \in DOMAIN r.dispatch THEN r.dispatch[c] ELSE NoEntries
                 IN  [r EXCEPT !.dispatch = (c :> ((UpperOf(CharOf(f.list[3])) :> Entry(f, f.list[4].list[2], FALSE, r)) @@ was)) @@ @]
           [] OTHER -> r

RECURSIVE ReadAll(_, _)
AllFrom(fs, s, a) ==
    IF ~s.ok THEN [forms |-> fs, ok |-> FALSE]
    ELSE IF Peek(s) = End THEN [forms |-> fs, ok |-> TRUE]
    ELSE IF ~a.r.ok \/ DOMAIN a.f \in {{"unquote"}, {"splice"}} THEN [forms |-> fs, ok |-> FALSE]
    ELSE IF a.dot THEN ReadAll(fs, a.r) ELSE ReadAll(Append(fs, a.f), Register(a.f, a.r))
AllAt(fs, s) == AllFrom(fs, s, ReadForm(s, FALSE, TRUE))
ReadAll(fs, r) == AllAt(fs, Skip(r))

ReadSource(text) == ReadAll(<<>>, StreamOf(text, NoEntries, "#" :> NoEntries, {}))

----------------------------------------
(* The token scanner (tokenizeCommonLispSource) knows no readtable. *)

Token(type, value) == [type |-> type, value |-> value]
SymbolToken(t) == Token("symbol", t.name)

RECURSIVE Tokens(_, _)
Tokens(ts, r) ==
    LET s == Skip(r)
        c == Peek(s)
        n == ReadChar(s)
        sub == Peek(n)
        m == ReadChar(n)
        string == ReadText(<<>>, n)
        rest == TakeRest(<<>>, m)
        named == TakeRest(<<Peek(m)>>, ReadChar(m))
        got == ReadToken(NoToken, s)
        goes(t, q) == IF q.ok THEN Tokens(Append(ts, t), q) ELSE [tokens |-> ts, ok |-> FALSE]
    IN  IF ~s.ok THEN [tokens |-> ts, ok |-> FALSE]
        ELSE CASE c = End -> [tokens |-> ts, ok |-> TRUE]
               [] c \in {"(", ")", "'", Backquote} -> goes(Token(c, <<>>), n)
               [] c = "," -> IF sub = "@" THEN goes(Token(",@", <<>>), m) ELSE goes(Token(",", <<>>), n)
               [] c = "#" /\ sub = "'" -> goes(Token("#'", <<>>), m)
               [] c = "#" /\ sub = "(" -> goes(Token("#(", <<>>), m)
               [] c = "#" /\ sub = ":" ->
                     goes(Token("symbol", [i \in DOMAIN rest.cs |-> UpperOf(rest.cs[i])]), IF rest.cs = <<>> THEN Thrown(m) ELSE rest.r)
               [] c = "#" /\ sub = "\\" ->
                     IF named.cs[1] \in DOMAIN CharCodes THEN goes(Token("char", CharCodes[named.cs[1]]), named.r)
                     ELSE [tokens |-> ts, ok |-> FALSE]
               [] c = "#" /\ sub \in DOMAIN Bases ->
                     IF IsRadix(Bases[sub], rest.cs) THEN goes(Token("integer", IntegerOf(Bases[sub], rest.cs)), rest.r)
                     ELSE [tokens |-> ts, ok |-> FALSE]
               [] c = "\"" -> goes(Token("string", string.cs), string.r)
               [] OTHER -> goes(IF ~got.t.escaped /\ got.t.raw = <<".">> THEN Token(".", <<>>)
                                ELSE IF ~got.t.escaped /\ IsInteger(got.t.raw) THEN Token("integer", IntegerOf(10, got.t.raw))
                                ELSE SymbolToken(got.t), got.r)

Tokenize(text) == Tokens(<<>>, StreamOf(text, NoEntries, NoEntries, {}))

----------------------------------------
(* Printing (formatCommonLispForm) *)

RECURSIVE DigitsOf(_), Format(_)
DigitsOf(n) == IF n < 0 THEN <<"-">> \o DigitsOf(-n) ELSE IF n < 10 THEN <<Digits[n + 1]>> ELSE Append(DigitsOf(n \div 10), Digits[(n % 10) + 1])

InText(c) == CASE c \in {"\"", "\\"} -> <<"\\", c>> [] c = "\n" -> <<"\\", "n">> [] c = "\t" -> <<"\\", "t">> [] OTHER -> <<c>>
InQuotes(cs) == <<"\"">> \o FlattenSeq([i \in DOMAIN cs |-> InText(cs[i])]) \o <<"\"">>

Spaced(texts) == FlattenSeq([i \in DOMAIN texts |-> IF i = 1 THEN texts[i] ELSE <<" ">> \o texts[i]])

Format(f) ==
    CASE "int" \in DOMAIN f -> DigitsOf(f.int)
      [] "text" \in DOMAIN f -> InQuotes(f.text)
      [] "name" \in DOMAIN f -> f.name
      [] IsListForm(f) ->
            <<"(">> \o Spaced([i \in DOMAIN f.list |-> Format(f.list[i])])
            \o (IF f.tail = <<>> THEN <<>> ELSE <<" ", ".", " ">> \o Format(f.tail[1])) \o <<")">>
      [] OTHER -> <<"NIL">>

----------------------------------------
(* How a form may be written.  A lexeme is a token and its characters.  A style says how symbols *)
(* are spelled, whether abbreviations, a radix and reader macros are used, and what stands       *)
(* before a form and before a closing character.                                                *)

Lexeme(token, cs) == <<[token |-> token, cs |-> cs, closes |-> FALSE]>>
Mark(type, cs) == Lexeme(Token(type, <<>>), cs)
Closer(c) == <<[token |-> Token(c, <<>>), cs |-> <<c>>, closes |-> TRUE]>>

LowerOf(c) == IF \E l \in DOMAIN Uppercase : Uppercase[l] = c THEN CHOOSE l \in DOMAIN Uppercase : Uppercase[l] = c ELSE c
Lowered(cs) == [i \in DOMAIN cs |-> LowerOf(cs[i])]
RECURSIVE Binary(_)
Binary(n) == IF n < 0 THEN <<"-">> \o Binary(-n) ELSE IF n < 2 THEN <<Digits[n + 1]>> ELSE Append(Binary(n \div 2), Digits[(n % 2) + 1])

SymbolText(f, how) ==
    CASE how = "pipes" -> <<"|">> \o f.name \o <<"|">>
      [] how = "slashes" -> FlattenSeq([i \in DOMAIN f.name |-> <<"\\", f.name[i]>>])
      [] how = "uninterned" /\ ~f.keyword -> <<"#", ":">> \o Lowered(f.name)
      [] OTHER -> Lowered(f.name)

RECURSIVE Lexemes(_, _)
LexemesOf(fs, style) == FlattenSeq([i \in DOMAIN fs |-> Lexemes(fs[i], style)])

Lexemes(f, style) ==
    CASE "int" \in DOMAIN f -> Lexeme(Token("integer", f), IF style.binary THEN <<"#", "b">> \o Binary(f.int) ELSE DigitsOf(f.int))
      [] "text" \in DOMAIN f -> Lexeme(Token("string", f.text), InQuotes(f.text))
      [] "name" \in DOMAIN f -> Lexeme(Token("symbol", f.name), SymbolText(f, style.symbols))
      [] "unquote" \in DOMAIN f -> Mark(",", <<",">>) \o Lexemes(f.unquote, style)
      [] "splice" \in DOMAIN f -> Mark(",@", <<",", "@">>) \o Lexemes(f.splice, style)
      [] style.short /\ HeadIs(f, "QUOTE") -> Mark("'", <<"'">>) \o Lexemes(f.list[2], style)
      [] style.short /\ HeadIs(f, "FUNCTION") -> Mark("#'", <<"#", "'">>) \o Lexemes(f.list[2], style)
      [] style.short /\ HeadIs(f, "CODE-CHAR") -> Lexeme(Token("char", f.list[2].int), <<"#", "\\", CharOf(f)>>)
      [] style.custom /\ HeadIs(f, "VECTOR") -> Mark("", <<"[">>) \o LexemesOf(Tail(f.list), style) \o Closer("]")
      [] style.custom /\ HeadIs(f, "NOT") -> Mark("", <<"!">>) \o Lexemes(f.list[2], style)
      [] style.custom /\ HeadIs(f, "CONS") ->
            Mark("", <<"{">>) \o Lexemes(f.list[2], style) \o Closer(":") \o Lexemes(f.list[3], style) \o Closer("}")
      [] style.custom /\ HeadIs(f, "*") /\ f.list[2] = Num(2) -> Mark("", <<"#", "?">>) \o Lexemes(f.list[3], style)
      [] style.custom /\ HeadIs(f, "*") /\ f.list[2] # Num(2) -> Mark("", <<"#">> \o DigitsOf(f.list[2].int) \o <<"?">>) \o Lexemes(f.list[3], style)
      [] style.short /\ HeadIs(f, "VECTOR") -> Mark("#(", <<"#", "(">>) \o LexemesOf([i \in 1..Len(f.list) - 1 |-> f.list[i + 1].list[2]], style) \o Closer(")")
      [] OTHER -> Mark("(", <<"(">>) \o LexemesOf(f.list, style)
                  \o (IF f.tail = <<>> THEN <<>> ELSE Closer(".") \o Lexemes(f.tail[1], style)) \o Closer(")")

TextOf(lexemes, style) ==
    FlattenSeq([i \in DOMAIN lexemes |-> (IF lexemes[i].closes THEN style.gap ELSE style.before) \o lexemes[i].cs]) \o style.gap

Plain == [symbols |-> "plain", short |-> FALSE, binary |-> FALSE, custom |-> FALSE, gap |-> <<" ">>, before |-> <<" ">>]

----------------------------------------
(* What a template stands for, and what the code it is expanded into gives *)

RECURSIVE Fill(_), Computes(_)
Elements(v) == IF IsListForm(v) THEN v.list ELSE <<>>
Onto(items, tail) ==
    IF items = <<>> THEN tail
    ELSE IF IsListForm(tail) THEN [tail EXCEPT !.list = items \o @] ELSE Dotted(items, IF tail = NilForm THEN <<>> ELSE <<tail>>)

Fill(f) ==
    IF "unquote" \in DOMAIN f THEN Computes(f.unquote)
    ELSE IF ~IsListForm(f) THEN f
    ELSE Onto(FlattenSeq([i \in DOMAIN f.list |-> IF "splice" \in DOMAIN f.list[i] THEN Elements(Computes(f.list[i].splice)) ELSE <<Fill(f.list[i])>>]),
              IF f.tail = <<>> THEN NilForm ELSE Fill(f.tail[1]))

\* Variables have lists of themselves for values.
Computes(e) ==
    IF "name" \in DOMAIN e THEN IF e = NilForm THEN e ELSE Listed(<<e, e>>)
    ELSE IF ~IsListForm(e) THEN e
    ELSE CASE HeadIs(e, "QUOTE") -> e.list[2]
           [] HeadIs(e, "CONS") -> Onto(<<Computes(e.list[2])>>, Computes(e.list[3]))
           [] HeadIs(e, "APPEND") -> Onto(Elements(Computes(e.list[2])), Computes(e.list[3]))

----------------------------------------

ReaderInit ==
    \/ \E f \in Readable, s \in Styles : reading = [what |-> "form", form |-> f, style |-> s]
    \/ \E f \in Templates : reading = [what |-> "template", form |-> f, style |-> Plain]

Written == TextOf(LexemesOf((IF reading.style.custom THEN Preamble ELSE <<>>), Plain), Plain) \o TextOf(Lexemes(reading.form, reading.style), reading.style)

\* What is printed into an artifact is what a later compilation reads.
PrintedFormsReadBack ==
    reading.what = "form" => ReadSource(Format(reading.form)) = [forms |-> <<reading.form>>, ok |-> TRUE]

\* However it is written - escapes, abbreviations, comments, reader macros - a text means its form,
\* and the token scanner and the reader agree on what it consists of.
TextsMeanTheirForms ==
    reading.what = "form" =>
        /\ ReadSource(Written) = [forms |-> (IF reading.style.custom THEN Preamble ELSE <<>>) \o <<reading.form>>, ok |-> TRUE]
        /\ ~reading.style.custom =>
              LET ls == Lexemes(reading.form, reading.style)
              IN  Tokenize(Written) = [tokens |-> [i \in DOMAIN ls |-> ls[i].token], ok |-> TRUE]

Builds(r, value) == r.ok /\ Len(r.forms) = 1 /\ Computes(r.forms[1]) = value

\* The code a backquoted template is read as builds what the template says.
TemplatesAreFilled ==
    reading.what = "template" =>
        Builds(ReadSource(<<Backquote>> \o TextOf(Lexemes(reading.form, Plain), Plain)), Fill(reading.form))


----------------------------------------
(* The library.                                                            *)

CONSTANT LibraryCases      \* calls: [fn, args], the arguments as forms

VARIABLE libraryCase

----------------------------------------
(* Values and the heap.                                                    *)

Pointer(i) == [at |-> i]
CharacterOf(code) == [char |-> code]
LispT == Sym(<<"T">>)
Truth(b) == IF b THEN LispT ELSE NilForm
Gives(v, h) == [v |-> v, h |-> h, ok |-> TRUE]
Signals(h) == [v |-> NilForm, h |-> h, ok |-> FALSE]
AndThen(r, Rest(_, _)) == IF r.ok THEN Rest(r.v, r.h) ELSE r

Points(v) == "at" \in DOMAIN v
IsInt(v) == "int" \in DOMAIN v
ClassOf(v, h) ==
    CASE Points(v) -> h[v.at].class
      [] IsInt(v) -> "Integer"
      [] "text" \in DOMAIN v -> "Text"
      [] "char" \in DOMAIN v -> "Character"
      [] "fn" \in DOMAIN v -> "BlockClosure"
      [] v = NilForm -> "UndefinedObject"
      [] OTHER -> "Symbol"

(* The two indexed primitives, from zero; outside the object they signal.  *)
Reaches(v, i, h) == Points(v) /\ i + 1 \in DOMAIN h[v.at].parts
IndexedAt(v, i, h) == IF Reaches(v, i, h) THEN Gives(h[v.at].parts[i + 1], h) ELSE Signals(h)
IndexedAtPut(v, i, new, h) ==
    IF Reaches(v, i, h) THEN Gives(new, [h EXCEPT ![v.at].parts[i + 1] = new]) ELSE Signals(h)
Allocated(class, parts, h) == Gives(Pointer(Len(h) + 1), Append(h, [class |-> class, parts |-> parts]))

MakeCons(a, d, h) == Allocated("Cons", <<a, d>>, h)
Part(v, i, h) == IF v = NilForm THEN Gives(NilForm, h) ELSE IndexedAt(v, i, h)
Car(v, h) == Part(v, 0, h)
Cdr(v, h) == Part(v, 1, h)
Rplaca(v, new, h) == AndThen(IndexedAtPut(v, 0, new, h), LAMBDA x, g : Gives(v, g))
Rplacd(v, new, h) == AndThen(IndexedAtPut(v, 1, new, h), LAMBDA x, g : Gives(v, g))

MakeArray(size, h) ==
    IF size < 0 THEN Signals(h) ELSE Allocated("Array", [i \in 1..size |-> NilForm], h)
Aref(v, i, h) == IndexedAt(v, i, h)
SetAref(v, i, new, h) == IndexedAtPut(v, i, new, h)
VectorLength(v, h) == Len(h[v.at].parts)
CharCodeAt(cs, i) == CharCodes[cs[i + 1]]
CharNames == [code \in {10, 32} |-> IF code = 32 THEN "Space" ELSE "Newline"]
CharWith(code) == CHOOSE c \in DOMAIN CharCodes : CharCodes[c] = code /\ c \notin {"Space", "Newline"}
TextAt(v, i, h) ==
    IF i + 1 \in DOMAIN v.text THEN Gives(CharacterOf(CharCodeAt(v.text, i)), h) ELSE Signals(h)

Consp(v, h) == ClassOf(v, h) = "Cons"
Vectorp(v, h) == ClassOf(v, h) = "Array"
Stringp(v, h) == ClassOf(v, h) = "Text"
Symbolp(v, h) == v = NilForm \/ ClassOf(v, h) = "Symbol"
Listp(v, h) == v = NilForm \/ Consp(v, h)
Eql(a, b) == a = b

(* Division rounds toward minus infinity; the remainder has the divisor's sign.  *)
FloorDivide(a, b) == IF b > 0 THEN a \div b ELSE (-a) \div (-b)
Modulo(a, b) == a - FloorDivide(a, b) * b

----------------------------------------
(* Lists and sequences.                                                    *)

RECURSIVE EqualTo(_, _, _), ListLength(_, _), AppendLists(_, _, _), ReverseInto(_, _, _), Nth(_, _, _), SetNth(_, _, _, _),
          Mapcar(_, _, _), CopyList(_, _, _, _), CopyVector(_, _, _, _, _, _), ListSubseq(_, _, _, _, _), Member(_, _, _), Assoc(_, _, _),
          RemoveIf(_, _, _, _), Reduce(_, _, _, _), Every(_, _, _), Some(_, _, _), PlistGet(_, _, _, _)

EqualTo(a, b, h) ==
    \/ Eql(a, b)
    \/ Consp(a, h) /\ Consp(b, h) /\ EqualTo(Car(a, h).v, Car(b, h).v, h) /\ EqualTo(Cdr(a, h).v, Cdr(b, h).v, h)

(* What the recursions over a list share: nothing, or a first and a rest.  *)
Walk(list, h, end, Step(_, _)) ==
    IF list = NilForm THEN end
    ELSE AndThen(Car(list, h), LAMBDA a, g : AndThen(Cdr(list, h), LAMBDA d, k : Step(a, d)))

ListLength(list, h) ==
    Walk(list, h, Gives(Num(0), h), LAMBDA a, d : AndThen(ListLength(d, h), LAMBDA n, g : Gives(Num(n.int + 1), g)))
LengthOf(seq, h) ==
    CASE seq = NilForm -> Gives(Num(0), h)
      [] Consp(seq, h) -> ListLength(seq, h)
      [] Vectorp(seq, h) -> Gives(Num(VectorLength(seq, h)), h)
      [] Stringp(seq, h) -> Gives(Num(Len(seq.text)), h)

AppendLists(left, right, h) ==
    Walk(left, h, Gives(right, h), LAMBDA a, d : AndThen(AppendLists(d, right, h), LAMBDA t, g : MakeCons(a, t, g)))

ReverseInto(list, acc, h) ==
    Walk(list, h, Gives(acc, h), LAMBDA a, d : AndThen(MakeCons(a, acc, h), LAMBDA c, g : ReverseInto(d, c, g)))

(* The functions that are passed: those of the runtime, named.             *)
Funcall(f, args, h) ==
    CASE f.fn = "1+" -> IF IsInt(args[1]) THEN Gives(Num(args[1].int + 1), h) ELSE Signals(h)
      [] f.fn = "+" -> IF IsInt(args[1]) /\ IsInt(args[2]) THEN Gives(Num(args[1].int + args[2].int), h) ELSE Signals(h)
      [] f.fn = "cons" -> MakeCons(args[1], args[2], h)
      [] f.fn = "consp" -> Gives(Truth(Consp(args[1], h)), h)
      [] f.fn = "null" -> Gives(Truth(args[1] = NilForm), h)
      [] f.fn = "car" -> Car(args[1], h)

Mapcar(f, list, h) ==
    Walk(list, h, Gives(NilForm, h), LAMBDA a, d :
      AndThen(Funcall(f, <<a>>, h), LAMBDA v, g : AndThen(Mapcar(f, d, g), LAMBDA t, k : MakeCons(v, t, k))))

Nth(n, list, h) == IF n <= 0 THEN Car(list, h) ELSE AndThen(Cdr(list, h), LAMBDA d, g : Nth(n - 1, d, g))
SetNth(n, list, new, h) ==
    IF n <= 0 THEN AndThen(Rplaca(list, new, h), LAMBDA c, g : Gives(new, g))
    ELSE AndThen(Cdr(list, h), LAMBDA d, g : SetNth(n - 1, d, new, g))

Elt(seq, i, h) ==
    CASE Vectorp(seq, h) -> Aref(seq, i, h)
      [] Stringp(seq, h) -> TextAt(seq, i, h)
      [] OTHER -> Nth(i, seq, h)
SetElt(seq, i, new, h) == IF Vectorp(seq, h) THEN SetAref(seq, i, new, h) ELSE SetNth(i, seq, new, h)

CopyVector(out, vec, start, i, len, h) ==
    IF i >= len THEN Gives(out, h)
    ELSE AndThen(Aref(vec, start + i, h), LAMBDA x, g :
           AndThen(SetAref(out, i, x, g), LAMBDA y, k : CopyVector(out, vec, start, i + 1, len, k)))
CopyList(out, list, i, h) ==
    IF i >= VectorLength(out, h) THEN Gives(out, h)
    ELSE Walk(list, h, Gives(out, h), LAMBDA a, d : AndThen(SetAref(out, i, a, h), LAMBDA y, g : CopyList(out, d, i + 1, g)))
MakeArrayContents(size, seq, h) ==
    AndThen(MakeArray(size, h), LAMBDA out, g :
      IF Vectorp(seq, g) THEN CopyVector(out, seq, 0, 0, size, g) ELSE CopyList(out, seq, 0, g))

(* An end of NIL means to the end of the sequence.                         *)
ListSubseq(list, start, end, i, h) ==
    IF end # NilForm /\ i >= end.int THEN Gives(NilForm, h)
    ELSE Walk(list, h, Gives(NilForm, h), LAMBDA a, d :
           IF i < start THEN ListSubseq(d, start, end, i + 1, h)
           ELSE AndThen(ListSubseq(d, start, end, i + 1, h), LAMBDA t, g : MakeCons(a, t, g)))
VectorSubseq(vec, start, end, h) ==
    LET len == (IF end = NilForm THEN VectorLength(vec, h) ELSE end.int) - start
    IN  AndThen(MakeArray(len, h), LAMBDA out, g : CopyVector(out, vec, start, 0, len, g))
StringSubseq(v, start, end, h) ==
    LET limit == IF end = NilForm THEN Len(v.text) ELSE end.int
    IN  IF limit > Len(v.text) THEN Signals(h) ELSE Gives(Text(SubSeq(v.text, start + 1, limit)), h)
Subseq(seq, start, end, h) ==
    CASE Vectorp(seq, h) -> VectorSubseq(seq, start, end, h)
      [] Stringp(seq, h) -> StringSubseq(seq, start, end, h)
      [] OTHER -> ListSubseq(seq, start, end, 0, h)

Member(item, list, h) ==
    Walk(list, h, Gives(NilForm, h), LAMBDA a, d : IF EqualTo(item, a, h) THEN Gives(list, h) ELSE Member(item, d, h))
Assoc(key, alist, h) ==
    Walk(alist, h, Gives(NilForm, h), LAMBDA a, d :
      IF Consp(a, h) /\ EqualTo(key, Car(a, h).v, h) THEN Gives(a, h) ELSE Assoc(key, d, h))
RemoveIf(pred, keeping, list, h) ==
    Walk(list, h, Gives(NilForm, h), LAMBDA a, d : AndThen(Funcall(pred, <<a>>, h), LAMBDA v, g :
      IF (v # NilForm) = keeping THEN AndThen(RemoveIf(pred, keeping, d, g), LAMBDA t, k : MakeCons(a, t, k))
      ELSE RemoveIf(pred, keeping, d, g)))
Reduce(f, list, acc, h) ==
    Walk(list, h, Gives(acc, h), LAMBDA a, d : AndThen(Funcall(f, <<acc, a>>, h), LAMBDA v, g : Reduce(f, d, v, g)))
Every(pred, list, h) ==
    Walk(list, h, Gives(LispT, h), LAMBDA a, d : AndThen(Funcall(pred, <<a>>, h), LAMBDA v, g :
      IF v = NilForm THEN Gives(NilForm, g) ELSE Every(pred, d, g)))
Some(pred, list, h) ==
    Walk(list, h, Gives(NilForm, h), LAMBDA a, d : AndThen(Funcall(pred, <<a>>, h), LAMBDA v, g :
      IF v = NilForm THEN Some(pred, d, g) ELSE Gives(v, g)))
PlistGet(plist, key, default, h) ==
    Walk(plist, h, Gives(default, h), LAMBDA a, d :
      IF a = key THEN Car(d, h) ELSE AndThen(Cdr(d, h), LAMBDA t, g : PlistGet(t, key, default, g)))

----------------------------------------
(* Printing, string streams, FORMAT.                                       *)

RECURSIVE PositiveText(_, _), Printed(_, _, _), ListTail(_, _, _), FormatWalk(_, _, _, _, _)

PositiveText(n, acc) == IF n = 0 THEN acc ELSE PositiveText(FloorDivide(n, 10), <<Digits[Modulo(n, 10) + 1]>> \o acc)
IntText(n) ==
    IF n = 0 THEN <<"0">> ELSE IF n < 0 THEN <<"-">> \o PositiveText(0 - n, <<>>) ELSE PositiveText(n, <<>>)

SymbolName(v) == IF v.keyword THEN Tail(v.name) ELSE v.name

(* A few characters are printed by their names.                            *)
CharText(code) ==
    <<"#", "\\", IF code \in DOMAIN CharNames THEN CharNames[code] ELSE CharWith(code)>>

VectorText(texts) ==
    <<"#", "(">> \o FlattenSeq([i \in DOMAIN texts |-> IF i = 1 THEN texts[i] ELSE <<" ">> \o texts[i]]) \o <<")">>

ListTail(v, readable, h) ==
    CASE v = NilForm -> <<")">>
      [] Consp(v, h) -> <<" ">> \o Printed(Car(v, h).v, readable, h) \o ListTail(Cdr(v, h).v, readable, h)
      [] OTHER -> <<" ", ".", " ">> \o Printed(v, readable, h) \o <<")">>

(* PRIN1 when readable, PRINC when not.                                    *)
Printed(v, readable, h) ==
    CASE v = NilForm -> <<"NIL">>
      [] IsInt(v) -> IntText(v.int)
      [] Stringp(v, h) -> IF readable THEN <<"\"">> \o v.text \o <<"\"">> ELSE v.text
      [] "char" \in DOMAIN v -> IF readable THEN CharText(v.char) ELSE <<CharWith(v.char)>>
      [] Consp(v, h) -> <<"(">> \o Printed(Car(v, h).v, readable, h) \o ListTail(Cdr(v, h).v, readable, h)
      [] Vectorp(v, h) -> VectorText([i \in 1..VectorLength(v, h) |-> Printed(h[v.at].parts[i], readable, h)])
      [] OTHER -> IF readable THEN v.name ELSE SymbolName(v)

(* A string stream is a cons of a marker and what was written.             *)
StreamMark == Sym(<<"%STRING-STREAM">>)
MakeStream(h) == MakeCons(StreamMark, Text(<<>>), h)
IsStream(v, h) == Consp(v, h) /\ Car(v, h).v = StreamMark
WriteString(cs, stream, h) ==
    IF IsStream(stream, h)
    THEN AndThen(Rplacd(stream, Text(Cdr(stream, h).v.text \o cs), h), LAMBDA c, g : Gives(Text(cs), g))
    ELSE Gives(Text(cs), h)
StreamString(stream, h) ==
    IF IsStream(stream, h)
    THEN AndThen(Rplacd(stream, Text(<<>>), h), LAMBDA c, g : Gives(Cdr(stream, h).v, g))
    ELSE Gives(Text(<<>>), h)

DirectiveKind(c) ==
    CASE c \in {"a", "A", "d", "D"} -> "a"
      [] c \in {"s", "S"} -> "s"
      [] c = "%" -> "newline"
      [] c = "~" -> "tilde"
      [] OTHER -> "other"

FormatWalk(cs, i, args, acc, h) ==
    LET kind == DirectiveKind(cs[i + 1])
        next == Car(args, h).v
        rest == Cdr(args, h).v
    IN  IF i > Len(cs) THEN acc
        ELSE IF cs[i] # "~" THEN FormatWalk(cs, i + 1, args, Append(acc, cs[i]), h)
        ELSE IF i = Len(cs) THEN Append(acc, "~")
        ELSE CASE kind = "a" -> FormatWalk(cs, i + 2, rest, acc \o Printed(next, FALSE, h), h)
               [] kind = "s" -> FormatWalk(cs, i + 2, rest, acc \o Printed(next, TRUE, h), h)
               [] kind = "newline" -> FormatWalk(cs, i + 2, args, Append(acc, "\n"), h)
               [] kind = "tilde" -> FormatWalk(cs, i + 2, args, Append(acc, "~"), h)
               [] OTHER -> FormatWalk(cs, i + 2, args, Append(acc, cs[i + 1]), h)

(* FORMAT to NIL answers the text, to a string stream writes it.           *)
FormatTo(dest, cs, args, h) ==
    LET rendered == FormatWalk(cs, 1, args, <<>>, h)
    IN  CASE dest = NilForm -> Gives(Text(rendered), h)
          [] IsStream(dest, h) -> AndThen(WriteString(rendered, dest, h), LAMBDA t, g : Gives(NilForm, g))
          [] OTHER -> Gives(NilForm, h)

----------------------------------------
(* Types.                                                                  *)

Keywordp(v, h) == v # NilForm /\ v # LispT /\ Symbolp(v, h) /\ v.keyword

TypeOf(v, h) ==
    CASE v = NilForm -> "NULL"
      [] v = LispT -> "BOOLEAN"
      [] IsInt(v) -> "INTEGER"
      [] Stringp(v, h) -> "STRING"
      [] ClassOf(v, h) = "Character" -> "CHARACTER"
      [] Keywordp(v, h) -> "KEYWORD"
      [] Symbolp(v, h) -> "SYMBOL"
      [] Consp(v, h) -> "CONS"
      [] Vectorp(v, h) -> "VECTOR"
      [] OTHER -> "FUNCTION"

Typep(v, type, h) ==
    CASE type = "NULL" -> v = NilForm
      [] type = "CONS" -> Consp(v, h)
      [] type = "LIST" -> Listp(v, h)
      [] type = "ATOM" -> ~Consp(v, h)
      [] type = "SYMBOL" -> Symbolp(v, h)
      [] type = "KEYWORD" -> Keywordp(v, h)
      [] type \in {"INTEGER", "NUMBER", "FIXNUM"} -> IsInt(v)
      [] type = "STRING" -> Stringp(v, h)
      [] type = "CHARACTER" -> ClassOf(v, h) = "Character"
      [] type \in {"VECTOR", "ARRAY"} -> Vectorp(v, h)
      [] type = "FUNCTION" -> ClassOf(v, h) = "BlockClosure"
      [] OTHER -> FALSE

----------------------------------------
(* Between forms and heaps: what a quoted constant allocates, and what a   *)
(* value looks like.                                                       *)

RECURSIVE Quoted(_, _), QuotedAll(_, _, _), Tree(_, _)

QuotedAll(forms, end, h) ==
    IF forms = <<>> THEN Gives(end, h)
    ELSE AndThen(Quoted(forms[1], h), LAMBDA a, g : AndThen(QuotedAll(Tail(forms), end, g), LAMBDA d, k : MakeCons(a, d, k)))

Quoted(f, h) ==
    IF ~IsListForm(f) THEN Gives(f, h)
    ELSE CASE HeadIs(f, "CODE-CHAR") -> Gives(CharacterOf(f.list[2].int), h)
           [] HeadIs(f, "VECTOR") ->
                AndThen(QuotedAll([i \in 1..Len(f.list) - 1 |-> f.list[i + 1].list[2]], NilForm, h), LAMBDA l, g :
                  MakeArrayContents(Len(f.list) - 1, l, g))
           [] OTHER -> QuotedAll(f.list, IF f.tail = <<>> THEN NilForm ELSE f.tail[1], h)

Tree(v, h) ==
    CASE Consp(v, h) -> Onto(<<Tree(Car(v, h).v, h)>>, Tree(Cdr(v, h).v, h))
      [] Vectorp(v, h) -> Made("VECTOR", [i \in DOMAIN h[v.at].parts |-> Made("QUOTE", <<Tree(h[v.at].parts[i], h)>>)])
      [] "char" \in DOMAIN v -> Made("CODE-CHAR", <<Num(v.char)>>)
      [] OTHER -> v

(* The call of a case on freshly quoted arguments.                         *)
RECURSIVE QuotedArgs(_, _)
QuotedArgs(forms, h) ==
    IF forms = <<>> THEN [vs |-> <<>>, h |-> h]
    ELSE LET a == Quoted(forms[1], h)
             r == QuotedArgs(Tail(forms), a.h)
         IN  [vs |-> <<a.v>> \o r.vs, h |-> r.h]

Called(fn, vs, h) ==
    CASE fn = "length" -> LengthOf(vs[1], h)
      [] fn = "append" -> AppendLists(vs[1], vs[2], h)
      [] fn = "reverse" -> ReverseInto(vs[1], NilForm, h)
      [] fn = "mapcar" -> Mapcar(vs[1], vs[2], h)
      [] fn = "elt" -> Elt(vs[1], vs[2].int, h)
      [] fn = "set-elt" -> AndThen(SetElt(vs[1], vs[2].int, vs[3], h), LAMBDA x, g : Gives(vs[1], g))
      [] fn = "subseq" -> Subseq(vs[1], vs[2].int, vs[3], h)
      [] fn = "member" -> Member(vs[1], vs[2], h)
      [] fn = "assoc" -> Assoc(vs[1], vs[2], h)
      [] fn = "remove-if" -> RemoveIf(vs[1], FALSE, vs[2], h)
      [] fn = "remove-if-not" -> RemoveIf(vs[1], TRUE, vs[2], h)
      [] fn = "reduce" -> Reduce(vs[1], vs[2], vs[3], h)
      [] fn = "every" -> Every(vs[1], vs[2], h)
      [] fn = "some" -> Some(vs[1], vs[2], h)
      [] fn = "equal" -> Gives(Truth(EqualTo(vs[1], vs[2], h)), h)
      [] fn = "getf" -> PlistGet(vs[1], vs[2], vs[3], h)
      [] fn = "floor" -> Gives(Num(FloorDivide(vs[1].int, vs[2].int)), h)
      [] fn = "mod" -> Gives(Num(Modulo(vs[1].int, vs[2].int)), h)
      [] fn = "typep" -> Gives(Truth(Typep(vs[1], TypeOf(vs[1], h), h)), h)
      [] fn = "format" -> FormatTo(NilForm, vs[1].text, vs[2], h)
      [] fn = "stream" ->
           AndThen(MakeStream(h), LAMBDA s, g : AndThen(FormatTo(s, vs[1].text, vs[2], g), LAMBDA n, k :
             AndThen(WriteString(vs[3].text, s, k), LAMBDA t, m : StreamString(s, m))))

Quoting == QuotedArgs(libraryCase.args, <<>>)
Computed == Called(libraryCase.fn, Quoting.vs, Quoting.h)

----------------------------------------
(* What each function is for, over sequences.                              *)

LibItems(f) ==
    IF "text" \in DOMAIN f THEN [i \in DOMAIN f.text |-> Made("CODE-CHAR", <<Num(CharCodes[f.text[i]])>>)]
    ELSE IF IsListForm(f) /\ HeadIs(f, "VECTOR") THEN [i \in 1..Len(f.list) - 1 |-> f.list[i + 1].list[2]]
    ELSE Elements(f)
LibLike(f, items) ==
    IF "text" \in DOMAIN f THEN Text([i \in DOMAIN items |-> CharWith(items[i].list[2].int)])
    ELSE IF IsListForm(f) /\ HeadIs(f, "VECTOR") THEN Made("VECTOR", [i \in DOMAIN items |-> Made("QUOTE", <<items[i]>>)])
    ELSE Listed(items)
AtOf(items, i) == IF i + 1 \in DOMAIN items THEN items[i + 1] ELSE NilForm
Replaced(items, i, x) == [items EXCEPT ![i + 1] = x]
IsCons(f) == IsListForm(f) /\ ~HeadIs(f, "VECTOR") /\ ~HeadIs(f, "CODE-CHAR")
Holds(pred, x) == IF pred.fn = "consp" THEN IsCons(x) ELSE x = NilForm
Positions(items, P(_)) == {i \in DOMAIN items : P(items[i])}
Least(S) == CHOOSE i \in S : \A j \in S : i <= j
VectorsIn(f) == \E c \in {f} \cup ToSet(LibItems(f)) : IsListForm(c) /\ HeadIs(c, "VECTOR")
Applied(f, x) == IF f.fn = "1+" THEN Num(x.int + 1) ELSE IF IsCons(x) THEN x.list[1] ELSE NilForm

(* A format control built of pieces means their texts and the printed args. *)
RECURSIVE PiecesMean(_, _)
PiecesMean(cs, args) ==
    LET shown == IF args = <<>> THEN NilForm ELSE args[1]
        rest  == IF args = <<>> THEN args ELSE Tail(args)
        Shows(readable) == LET q == Quoted(shown, <<>>) IN Printed(q.v, readable, q.h)
    IN  IF cs = <<>> THEN <<>>
        ELSE IF cs[1] # "~" THEN <<cs[1]>> \o PiecesMean(Tail(cs), args)
        ELSE CASE cs[2] \in {"a", "d"} -> Shows(FALSE) \o PiecesMean(SubSeq(cs, 3, Len(cs)), rest)
               [] cs[2] = "s" -> Shows(TRUE) \o PiecesMean(SubSeq(cs, 3, Len(cs)), rest)
               [] cs[2] = "%" -> <<"\n">> \o PiecesMean(SubSeq(cs, 3, Len(cs)), args)
               [] cs[2] = "~" -> <<"~">> \o PiecesMean(SubSeq(cs, 3, Len(cs)), args)

Expected(fn, as) ==
    CASE fn = "length" -> Num(Len(LibItems(as[1])))
      [] fn = "append" -> Onto(Elements(as[1]), as[2])
      [] fn = "reverse" -> Listed(Reverse(Elements(as[1])))
      [] fn = "mapcar" -> Listed([i \in DOMAIN Elements(as[2]) |-> Applied(as[1], Elements(as[2])[i])])
      [] fn = "elt" -> AtOf(LibItems(as[1]), as[2].int)
      [] fn = "set-elt" -> LibLike(as[1], Replaced(LibItems(as[1]), as[2].int, as[3]))
      [] fn = "subseq" -> LibLike(as[1], SubSeq(LibItems(as[1]), as[2].int + 1, IF as[3] = NilForm THEN Len(LibItems(as[1])) ELSE as[3].int))
      [] fn = "member" ->
           LET items == Elements(as[2])
               there == Positions(items, LAMBDA x : x = as[1])
           IN  IF there = {} THEN NilForm ELSE Listed(SubSeq(items, Least(there), Len(items)))
      [] fn = "assoc" ->
           LET items == Elements(as[2])
               there == Positions(items, LAMBDA x : IsCons(x) /\ x.list[1] = as[1])
           IN  IF there = {} THEN NilForm ELSE items[Least(there)]
      [] fn = "remove-if" -> Listed(SelectSeq(Elements(as[2]), LAMBDA x : ~Holds(as[1], x)))
      [] fn = "remove-if-not" -> Listed(SelectSeq(Elements(as[2]), LAMBDA x : Holds(as[1], x)))
      [] fn = "reduce" -> FoldLeft(LAMBDA acc, x : IF as[1].fn = "+" THEN Num(acc.int + x.int) ELSE Onto(<<acc>>, x), as[3], Elements(as[2]))
      [] fn = "every" -> Truth(\A x \in ToSet(Elements(as[2])) : Holds(as[1], x))
      [] fn = "some" -> Truth(\E x \in ToSet(Elements(as[2])) : Holds(as[1], x))
      [] fn = "equal" -> Truth(as[1] = as[2] /\ ~VectorsIn(as[1]))
      [] fn = "getf" ->
           LET items == Elements(as[1])
               there == {i \in DOMAIN items : i % 2 = 1 /\ items[i] = as[2]}
           IN  IF there = {} THEN as[3] ELSE AtOf(items, Least(there))
      [] fn = "floor" -> CHOOSE q \in {Num(n) : n \in -20..20} :
           LET r == as[1].int - q.int * as[2].int IN IF as[2].int > 0 THEN r \in 0..as[2].int - 1 ELSE r \in as[2].int + 1..0
      [] fn = "mod" -> CHOOSE r \in {Num(n) : n \in -20..20} :
           /\ IF as[2].int > 0 THEN r.int \in 0..as[2].int - 1 ELSE r.int \in as[2].int + 1..0
           /\ \E q \in -20..20 : as[1].int = q * as[2].int + r.int
      [] fn = "typep" -> LispT
      [] fn = "format" -> Text(PiecesMean(as[1].text, Elements(as[2])))
      [] fn = "stream" -> Text(PiecesMean(as[1].text, Elements(as[2])) \o as[3].text)

LibraryInit ==
    /\ libraryCase \in LibraryCases
    /\ reading = [what |-> "nothing"]

(* Every library function computes what it is for, over lists, vectors and *)
(* strings alike, and only the ones that replace an element change what    *)
(* was there before; MEMBER and ASSOC answer a part of what they were      *)
(* given, copying nothing (common-lisp.js STANDARD_LIBRARY_SOURCE).        *)
LibraryMeansSequences ==
    libraryCase.fn # "print" =>
      /\ Computed.ok
      /\ Tree(Computed.v, Computed.h) = Expected(libraryCase.fn, libraryCase.args)
      /\ libraryCase.fn # "set-elt" => SubSeq(Computed.h, 1, Len(Quoting.h)) = Quoting.h
      /\ libraryCase.fn \in {"member", "assoc", "elt", "getf"} => Computed.h = Quoting.h

(* What PRIN1 writes of a value, the reader reads as that value            *)
(* (common-lisp.js prin1-to-string against readCommonLispSource).          *)
PrintedValuesReadBack ==
    libraryCase.fn = "print" =>
      ReadSource(Printed(Quoting.vs[1], TRUE, Quoting.h)) = [forms |-> libraryCase.args, ok |-> TRUE]

========================================
