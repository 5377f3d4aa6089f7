----------------------- MODULE PreprocessorReference -----------------------
(* What C says a project's text means, for comparison with Preprocessor: a   *)
(* file is a tree of groups of which one branch is read, a condition is an   *)
(* expression over tokens after expansion, and expansion keeps with every    *)
(* token the names it came from.  Macros are a function from names; nothing  *)
(* here has a reading position, a stack of flags or a table of entries.      *)
(*                                                                           *)
(* As in the program, conditions are computed in unsigned words, both sides  *)
(* of && and || are, and an invocation ends on its line.                     *)
EXTENDS Integers, Sequences, SequencesExt, FiniteSets, FiniteSetsExt, Functions, Bitwise

CONSTANTS WordBits, Depth, Parameters, NameCharacters, DigitCharacters

Invalid == [ok |-> FALSE, value |-> 0]
Valid(n) == [ok |-> TRUE, value |-> n % 2 ^ WordBits]
OneIf(b) == IF b THEN 1 ELSE 0
Slice(s, a, b) == SubSeq(s, a, Min({b, Len(s)}))
From(s, a) == SubSeq(s, a, Len(s))

----------------------------------------------------------------------------
(* Tokens: the longest operators, whole numbers, whole names, literals.      *)

WordCharacters == NameCharacters \union DigitCharacters \union {"x", "u"}
Pairs == {<<"|", "|">>, <<"&", "&">>, <<"=", "=">>, <<"!", "=">>, <<"<", "=">>,
          <<">", "=">>, <<"<", "<">>, <<">", ">">>, <<"+", "+">>, <<"-", "-">>}

\* A literal: up to the quote that no backslash escapes, or all there is.
Escaped(text, p) ==
    Cardinality({q \in 1 .. p - 1 : \A r \in q .. p - 1 : text[r] = "\\"}) % 2 = 1
LiteralEnd(text) ==
    LET ends == {p \in 2 .. Len(text) : text[p] = "'" /\ ~Escaped(text, p)}
    IN  IF ends = {} THEN Len(text) ELSE Min(ends)
WordEnd(text) ==
    LET n == SelectInSeq(text, LAMBDA c : c \notin WordCharacters)
    IN  IF n = 0 THEN Len(text) ELSE n - 1
TokenEnd(text) ==
    IF text[1] = "'" THEN LiteralEnd(text)
    ELSE IF text[1] \in WordCharacters THEN WordEnd(text)
    ELSE IF Slice(text, 1, 2) \in Pairs THEN 2 ELSE 1

RECURSIVE Tokens(_)
Tokens(text) ==
    IF text = <<>> THEN <<>>
    ELSE IF text[1] = " " THEN Tokens(Tail(text))
    ELSE <<Slice(text, 1, TokenEnd(text))>> \o Tokens(From(text, TokenEnd(text) + 1))

IsName(token) == token[1] \in NameCharacters
IsNumber(token) == token[1] \in DigitCharacters

----------------------------------------------------------------------------
(* Expansion.  A token carries the names whose replacement it came from.     *)

Hidden(tokens, names) == [i \in DOMAIN tokens |-> [token |-> tokens[i], names |-> names]]
Opens(s, p) == Cardinality({q \in 1 .. p : s[q].token = <<"(">>})
                 - Cardinality({q \in 1 .. p : s[q].token = <<")">>})

\* s begins with the name and the parenthesis of an invocation: where its
\* arguments end.
Ends(s) == {p \in 3 .. Len(s) : s[p].token = <<")">> /\ Opens(s, p) = 0}
Cuts(s) == {2, Min(Ends(s))} \union
           {p \in 3 .. Min(Ends(s)) : s[p].token = <<",">> /\ Opens(s, p) = 1}
Actuals(s, count) ==
    LET cuts == SetToSortSeq(Cuts(s), <)
        all  == [i \in 1 .. Len(cuts) - 1 |-> Slice(s, cuts[i] + 1, cuts[i + 1] - 1)]
    IN  IF count = 0 /\ all = << <<>> >> THEN <<>> ELSE all

RECURSIVE Expanded(_, _), Filled(_, _, _)

\* The body with its parameters replaced by the expanded arguments.
Filled(macros, m, arguments) ==
    FlattenSeq([i \in DOMAIN Tokens(m.replacement) |->
        LET token == Tokens(m.replacement)[i]
            parameter == SelectInSeq(m.parameters, LAMBDA x : x = token)
        IN  IF parameter > 0 THEN Expanded(macros, arguments[parameter]).tokens
            ELSE Hidden(<<token>>, {})])

AddNames(s, names) == [i \in DOMAIN s |-> [s[i] EXCEPT !.names = @ \union names]]
NoExpansion == [ok |-> FALSE, tokens |-> <<>>]

Expanded(macros, s) ==
    LET head == s[1]
        m == macros[head.token]
        Prepend(one, r) == [r EXCEPT !.tokens = <<one>> \o @]
    IN  IF s = <<>> THEN [ok |-> TRUE, tokens |-> <<>>]
        ELSE IF \/ head.token \notin DOMAIN macros \/ head.token \in head.names
                \/ m.function /\ (Len(s) = 1 \/ s[2].token # <<"(">>)
        THEN Prepend(head, Expanded(macros, Tail(s)))
        ELSE IF ~m.function
        THEN Expanded(macros, Hidden(Tokens(m.replacement), head.names \union {head.token})
                                \o Tail(s))
        ELSE IF Ends(s) = {} THEN NoExpansion
        ELSE LET arguments == Actuals(s, Len(m.parameters))
                 names == (head.names \intersect s[Min(Ends(s))].names) \union {head.token}
             IN  IF \/ Len(arguments) # Len(m.parameters)
                    \/ \E i \in DOMAIN arguments : ~Expanded(macros, arguments[i]).ok
                 THEN NoExpansion
                 ELSE Expanded(macros, AddNames(Filled(macros, m, arguments), names)
                                         \o From(s, Min(Ends(s)) + 1))

ExpansionOf(macros, text) ==
    LET r == Expanded(macros, Hidden(Tokens(text), {}))
    IN  [ok |-> r.ok, tokens |-> [i \in DOMAIN r.tokens |-> r.tokens[i].token]]

----------------------------------------------------------------------------
(* Conditions. *)

Binary == << {<<"|", "|">>}, {<<"&", "&">>}, {<<"|">>}, {<<"^">>}, {<<"&">>},
             {<<"=", "=">>, <<"!", "=">>}, {<<"<">>, <<">">>, <<"<", "=">>, <<">", "=">>},
             {<<"<", "<">>, <<">", ">">>}, {<<"+">>, <<"-">>}, {<<"*">>, <<"/">>, <<"%">>} >>

EndsOperand(token) == IsName(token) \/ IsNumber(token) \/ token = <<")">>

\* Where operators of a rank join two operands outside parentheses.
Joints(s, rank) ==
    {p \in 2 .. Len(s) : /\ s[p] \in Binary[rank] /\ EndsOperand(s[p - 1])
                         /\ Opens(Hidden(s, {}), p) = 0}

Combine(op, a, b) ==
    IF ~a.ok \/ ~b.ok \/ (op \in {<<"/">>, <<"%">>} /\ b.value = 0) THEN Invalid
    ELSE LET x == a.value  y == b.value IN
         Valid(CASE op = <<"|", "|">> -> OneIf(x + y > 0)
                 [] op = <<"&", "&">> -> OneIf(x * y > 0)
                 [] op = <<"|">> -> x | y
                 [] op = <<"^">> -> x ^^ y
                 [] op = <<"&">> -> x & y
                 [] op = <<"=", "=">> -> OneIf(x = y)
                 [] op = <<"!", "=">> -> OneIf(x # y)
                 [] op = <<"<">> -> OneIf(x < y)
                 [] op = <<">">> -> OneIf(x > y)
                 [] op = <<"<", "=">> -> OneIf(x <= y)
                 [] op = <<">", "=">> -> OneIf(x >= y)
                 [] op = <<"<", "<">> -> x * 2 ^ (y % WordBits)
                 [] op = <<">", ">">> -> x \div 2 ^ (y % WordBits)
                 [] op = <<"+">> -> x + y
                 [] op = <<"-">> -> x - y
                 [] op = <<"*">> -> x * y
                 [] op = <<"/">> -> x \div y
                 [] op = <<"%">> -> x % y)

DigitOf(c) == IF c = "x" THEN 99 ELSE CHOOSE n \in 0 .. 9 : ToString(n) = c
NumberOf(token) ==
    LET digits == SelectSeq(token, LAMBDA c : c # "u")
        hex    == Slice(token, 1, 2) = <<"0", "x">>
        base   == IF hex THEN 16 ELSE IF token[1] = "0" THEN 8 ELSE 10
        used   == IF hex THEN From(digits, 3) ELSE digits
    IN  IF \E i \in DOMAIN used : used[i] \in NameCharacters \/ DigitOf(used[i]) >= base
        THEN Invalid
        ELSE Valid(FoldLeft(LAMBDA n, c : n * base + DigitOf(c), 0, used))

\* "defined" asks before anything is expanded.
RECURSIVE Answered(_, _), ValueOf(_)
Answered(macros, s) ==
    LET Answer(name) == <<ToString(OneIf(name \in DOMAIN macros))>>
        enclosed == Len(s) >= 4 /\ s[2] = <<"(">> /\ IsName(s[3]) /\ s[4] = <<")">>
    IN  IF s = <<>> THEN <<>>
        ELSE IF s[1] # <<"defined">> THEN <<s[1]>> \o Answered(macros, Tail(s))
        ELSE IF Len(s) >= 2 /\ IsName(s[2])
        THEN <<Answer(s[2])>> \o Answered(macros, From(s, 3))
        ELSE IF enclosed THEN <<Answer(s[3])>> \o Answered(macros, From(s, 5))
        ELSE << <<"?">> >>

\* The lowest operator, the rightmost of them, is applied last.
ValueOf(s) ==
    LET ranks == {r \in DOMAIN Binary : Joints(s, r) # {}}
        p == Max(Joints(s, Min(ranks)))
        operand == ValueOf(Tail(s))
    IN  IF s = <<>> THEN Invalid
        ELSE IF ranks # {}
        THEN Combine(s[p], ValueOf(Slice(s, 1, p - 1)), ValueOf(From(s, p + 1)))
        ELSE IF s[1] \in {<<"!">>, <<"~">>, <<"+">>, <<"-">>}
        THEN IF ~operand.ok THEN Invalid
             ELSE Valid(CASE s[1] = <<"!">> -> OneIf(operand.value = 0)
                          [] s[1] = <<"~">> -> -1 - operand.value
                          [] s[1] = <<"+">> -> operand.value
                          [] s[1] = <<"-">> -> -operand.value)
        ELSE IF s[1] = <<"(">> /\ Last(s) = <<")">> THEN ValueOf(Slice(s, 2, Len(s) - 1))
        ELSE IF Len(s) > 1 THEN Invalid
        ELSE IF IsNumber(s[1]) THEN NumberOf(s[1])
        ELSE IF IsName(s[1]) THEN Valid(0) ELSE Invalid

ConditionValue(macros, text) ==
    LET expanded == Expanded(macros, Hidden(Answered(macros, Tokens(text)), {}))
    IN  IF ~expanded.ok THEN Invalid
        ELSE ValueOf([i \in DOMAIN expanded.tokens |-> expanded.tokens[i].token])

----------------------------------------------------------------------------
(* Files.  e is what reading has done so far: macros, the files read once    *)
(* only, the text without line ends, how many characters were put out, the   *)
(* most names there were, and whether all was well.                          *)

IsOpener(line) == line.is \in {"if", "ifdef", "ifndef"}
\* Groups open after line p; an #elif or #else belongs to the open group.
OpenAfter(lines, p) == Cardinality({q \in 1 .. p : IsOpener(lines[q])})
                         - Cardinality({q \in 1 .. p : lines[q].is = "endif"})
CloserOf(lines, p) ==
    Min({q \in p + 1 .. Len(lines) :
            lines[q].is = "endif" /\ OpenAfter(lines, q) = OpenAfter(lines, p) - 1})
Branches(lines, p) ==
    {p, CloserOf(lines, p)} \union
    {q \in p .. CloserOf(lines, p) :
        lines[q].is \in {"elif", "else"} /\ OpenAfter(lines, q) = OpenAfter(lines, p)}

WellFormed(lines) ==
    /\ \A p \in DOMAIN lines : OpenAfter(lines, p) \in 0 .. Depth
    /\ OpenAfter(lines, Len(lines)) = 0
    /\ \A p \in DOMAIN lines :
         /\ lines[p].is \in {"elif", "else"} => OpenAfter(lines, p) > 0
         /\ IsOpener(lines[p]) =>
              \A q \in Branches(lines, p) :
                 lines[q].is = "else" => q = Max(Branches(lines, p) \ {CloserOf(lines, p)})

Fault(e) == [e EXCEPT !.ok = FALSE]
Emit(e, tokens, length) ==
    [e EXCEPT !.text = @ \o tokens, !.length = @ + length]
WithMacro(e, m) ==
    IF m.name = <<>> THEN e
    ELSE LET macros == [n \in DOMAIN e.macros \union {m.name} |->
                            IF n = m.name THEN m ELSE e.macros[n]]
         IN  [e EXCEPT !.macros = macros,
                       !.most = Max({@, Cardinality(DOMAIN macros)})]

\* Does the branch that starts with this line take its lines?
Taken(e, line) ==
    CASE line.is = "ifdef"  -> Valid(OneIf(line.name \in DOMAIN e.macros))
      [] line.is = "ifndef" -> Valid(OneIf(line.name \notin DOMAIN e.macros))
      [] line.is \in {"if", "elif"} -> ConditionValue(e.macros, line.text)
      [] line.is = "else"  -> Valid(1)
      [] line.is = "endif" -> Valid(1)

\* The files an #include may mean, the first choice first.
Candidates(project, file, line) ==
    LET dirs == (IF line.quoted THEN <<Front(project.files[file].path)>> ELSE <<>>)
                  \o project.roots \o << <<>> >>
    IN  SelectSeq([i \in DOMAIN dirs |-> dirs[i] \o line.name],
                  LAMBDA path : \E f \in DOMAIN project.files : project.files[f].path = path)

RECURSIVE ReadFile(_, _, _, _), ReadLines(_, _, _, _, _, _)

ReadFile(project, e, file, inside) ==
    LET lines == project.files[file].lines
    IN  IF ~e.ok THEN e
        ELSE IF Cardinality(inside) = Depth THEN Fault(e)
        ELSE IF file \in e.once THEN e
        ELSE IF file \in inside \/ ~WellFormed(lines) THEN Fault(e)
        ELSE ReadLines(project, e, file, 1, Len(lines), inside \union {file})

\* Lines first to last of a file, all in the same group, which is read.
ReadLines(project, e, file, first, last, inside) ==
    LET lines == project.files[file].lines
        line == lines[first]
        Then(f, next) == ReadLines(project, f, file, next, last, inside)
        after == CloserOf(lines, first)
        branches == SetToSortSeq(Branches(lines, first), <)
        values == [i \in DOMAIN branches |-> Taken(e, lines[branches[i]])]
        chosen == Min({i \in DOMAIN branches : values[i].value # 0})
        directives == {p \in first .. after : lines[p].is # "text" /\
                           (p <= branches[chosen] \/ p >= branches[chosen + 1])}
        body == ReadLines(project, e, file, branches[chosen] + 1,
                          branches[chosen + 1] - 1, inside)
        found == Candidates(project, file, line)
        target == CHOOSE f \in DOMAIN project.files : project.files[f].path = found[1]
        expansion == ExpansionOf(e.macros, line.text)
    IN  IF first > last \/ ~e.ok THEN e
        ELSE IF IsOpener(line)
        THEN IF \E i \in 1 .. chosen : ~values[i].ok THEN Fault(e)
             ELSE IF chosen = Len(branches)
             THEN Then(Emit(e, <<>>, Cardinality({p \in first .. after : lines[p].is # "text"})),
                       after + 1)
             ELSE Then(Emit(body, <<>>, Cardinality(directives)), after + 1)
        ELSE CASE line.is = "text" ->
                    IF expansion.ok
                    THEN Then(Emit(e, expansion.tokens, Len(FlattenSeq(expansion.tokens)) + 1), first + 1)
                    ELSE Fault(e)
               [] line.is = "define" ->
                    IF \/ <<>> \in Range(line.macro.parameters)
                       \/ Len(line.macro.parameters) > Parameters
                    THEN Fault(e)
                    ELSE Then(Emit(WithMacro(e, line.macro), <<>>, 1), first + 1)
               [] line.is = "undef" ->
                    Then(Emit([e EXCEPT !.macros = Restrict(@, DOMAIN @ \ {line.name})], <<>>, 1),
                         first + 1)
               [] line.is = "once" ->
                    Then(Emit([e EXCEPT !.once = @ \union {file}], <<>>, 1), first + 1)
               [] line.is = "include" /\ found # <<>> ->
                    Then(Emit(ReadFile(project, e, target, inside), <<>>, 1), first + 1)
               [] OTHER -> Fault(e)

Nothing == [macros |-> [n \in {} |-> 0], once |-> {}, text |-> <<>>, length |-> 0,
            most |-> 0, ok |-> TRUE]

\* The project's meaning: the definitions given, then each unit.
Meaning(project) ==
    LET given == FoldLeft(WithMacro, Nothing, project.definitions)
        units == SelectSeq([f \in DOMAIN project.files |-> f],
                           LAMBDA f : project.files[f].unit)
    IN  FoldLeft(LAMBDA e, f : ReadFile(project, e, f, {}), given, units)
=============================================================================
