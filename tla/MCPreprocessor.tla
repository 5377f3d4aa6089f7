--------------------------- MODULE MCPreprocessor ---------------------------
(* Instances of Preprocessor, with the program's conditions and expansion,   *)
(* against PreprocessorReference.                                            *)
EXTENDS Preprocessor

CONSTANTS
    CCondition(_, _),     \* what C says of a condition,
    CExpansion(_, _),     \* of a line of text
    CMeaning(_)           \* and of a project

Bits == 4
Names == {"A", "B", "F", "G", "x"}

Conditions == INSTANCE Condition
Expansions == INSTANCE Expansion
C == INSTANCE PreprocessorReference WITH
        WordBits <- Bits, Depth <- MaxDepth, Parameters <- MaxParameters,
        NameCharacters <- {"A", "B", "F", "G", "defined"},
        DigitCharacters <- {"0", "1", "2", "3", "7", "8", "9"}

\* The parameters.  What TLC counts of an action does not go into a LET here.
ConditionOf(table, text) == LET c == Conditions!Condition(table, text) IN c
ExpansionOf(table, text) == LET e == Expansions!Line(table, text, {}) IN e
ConditionInC(table, text) == LET c == C!ConditionValue(table, text) IN c
ExpansionInC(table, text) == LET e == C!ExpansionOf(table, text) IN e
MeaningInC(files) == LET m == C!Meaning(files) IN m

----------------------------------------------------------------------------
(* Lines. *)

If(text) == [is |-> "if", text |-> text]
ElseIfLine(text) == [is |-> "elif", text |-> text]
IfDefined(name) == [is |-> "ifdef", name |-> <<name>>]
IfNotDefined(name) == [is |-> "ifndef", name |-> <<name>>]
ElseLine == [is |-> "else"]
EndLine == [is |-> "endif"]
OnceLine == [is |-> "once"]
ErrorLine == [is |-> "error"]
Undef(name) == [is |-> "undef", name |-> <<name>>]
Macro(name, text) ==
    [name |-> name, replacement |-> text, function |-> FALSE, parameters |-> <<>>]
FunctionMacro(name, parameters, text) ==
    [name |-> name, replacement |-> text, function |-> TRUE, parameters |-> parameters]
DefineLine(m) == [is |-> "define", macro |-> m]
TextLine(text) == [is |-> "text", text |-> text]
Quoted(name) == [is |-> "include", quoted |-> TRUE, name |-> name]
Angled(name) == [is |-> "include", quoted |-> FALSE, name |-> name]

File(path, unit, size, lines) == [path |-> path, unit |-> unit, size |-> size, lines |-> lines]
Project(files, roots, definitions) ==
    [files |-> files, roots |-> roots, definitions |-> definitions]
Alone(lines) == Project(<<File(<<"m">>, TRUE, 40, lines)>>, <<>>, <<>>)

SeqsUpTo(S, n) == UNION {[1 .. i -> S] : i \in 0 .. n}
Joined(S, T) == {s \o t : s \in S, t \in T}

----------------------------------------------------------------------------
(* Projects. *)

\* Conditional groups: any few lines, and longer chains that open and close.
GroupLines ==
    {IfDefined("A"), IfNotDefined("A"), If(<<"1">>), ElseIfLine(<<"A">>), ElseLine, EndLine,
     DefineLine(Macro(<<"A">>, <<"1">>)), TextLine(<<"x">>)}
GroupProjects ==
    {Alone(lines) : lines \in SeqsUpTo(GroupLines, 4)
        \union {<<IfDefined("A")>> \o s \o <<EndLine>> :
                  s \in [1 .. 4 -> {If(<<"0">>), ElseIfLine(<<"1">>), ElseIfLine(<<"0">>),
                                    ElseLine, EndLine, TextLine(<<"x">>)}]}}

\* The macro table: three names where two fit, one of them given.
TableProjects ==
    {Project(<<File(<<"m">>, TRUE, 40, lines \o <<TextLine(<<"A">>)>>)>>, <<>>, given) :
        lines \in [1 .. 4 -> {DefineLine(Macro(<<"A">>, <<"B">>)), DefineLine(Macro(<<"A">>, <<"1">>)),
                              DefineLine(Macro(<<"B">>, <<"2">>)), DefineLine(Macro(<<"F">>, <<"3">>)),
                              DefineLine(Macro(<<>>, <<"3">>)), Undef("A"), Undef("B")}],
        given \in {<<>>, <<Macro(<<"G">>, <<"1">>)>>}}

\* Includes: a unit and two headers, with guards, and room for few lines.
IncludeLines == {Quoted(<<"b">>), Quoted(<<"c">>), OnceLine, TextLine(<<"x">>)}
Guarded(lines) ==
    <<IfNotDefined("G"), DefineLine(Macro(<<"G">>, <<>>))>> \o lines \o <<EndLine>>
Headers == SeqsUpTo(IncludeLines, 2) \union {Guarded(<<l>>) : l \in IncludeLines}
IncludeProjects ==
    {Project(<<File(<<"a">>, TRUE, 2, a), File(<<"b">>, two, 1, b), File(<<"c">>, FALSE, 1, c)>>,
             <<>>, <<>>) :
        a \in [1 .. 2 -> {Quoted(<<"b">>), Quoted(<<"c">>), TextLine(<<"x">>)}],
        b \in Headers, c \in Headers, two \in BOOLEAN}

\* Where a header is looked for: beside the file, under the roots, at the top.
PathProjects ==
    {Project(<<File(<<"s", "a">>, TRUE, 9, <<include>>)>>
             \o [i \in DOMAIN paths |->
                   File(paths[i], FALSE, 1, <<TextLine(<<ToString(i)>>)>>)], roots, <<>>) :
        include \in {Quoted(<<"h">>), Angled(<<"h">>), Quoted(<<"s", "h">>), ErrorLine},
        paths \in SeqsUpTo({<<"s", "h">>, <<"p", "h">>, <<"q", "h">>, <<"h">>, <<"p", "s", "h">>}, 2),
        roots \in {<<>>, << <<"p">>, <<"q">> >>, << <<"q">>, <<"p">> >>}}

\* Conditions: every short text, and every pair of operators between numbers.
AsCondition(texts) ==
    {Alone(<<DefineLine(Macro(<<"A">>, <<"3">>)), DefineLine(Macro(<<"B">>, <<"(", "1", "-", "2", ")">>)),
             If(t), TextLine(<<"x">>), EndLine>>) : t \in texts}
Operators ==
    {<<"|", "|">>, <<"&", "&">>, <<"|">>, <<"^">>, <<"&">>, <<"=", "=">>, <<"!", "=">>,
     <<"<">>, <<">">>, <<"<", "=">>, <<">", "=">>, <<"<", "<">>, <<">", ">">>,
     <<"+">>, <<"-">>, <<"*">>, <<"/">>, <<"%">>}
ConditionProjects ==
    AsCondition(SeqsUpTo({"1", "0", "A", "(", ")", "!", "<", "=", "&", "-"}, 4)
        \union SeqsUpTo({"defined", "A", "F", "(", ")", " "}, 4)
        \union SeqsUpTo({"0", "7", "8", "|", "&", " "}, 3)
        \union {<<"0", "x", "9", "u">>, <<"9", "u", "-", "0", "x", "8">>, <<"0", "8">>}
        \union {<<a>> \o p \o <<b>> \o q \o <<c>> :
                  a \in {"1", "B"}, b \in {"2", "9"}, c \in {"0", "3"}, p \in Operators, q \in Operators})

\* Expansion: lines over macros that name one another.
Tables ==
    { << Macro(<<"A">>, <<"B", "+", "A">>), Macro(<<"B">>, <<"A">>) >>,
      << FunctionMacro(<<"F">>, << <<"x">> >>, <<"(", "x", ")", "A", "'", "x", "'">>),
         Macro(<<"A">>, <<"1">>) >>,
      << FunctionMacro(<<"F">>, << <<"x">>, <<"B">> >>, <<"B", "-", "x">>), Macro(<<"A">>, <<"A", ",", "2">>) >>,
      << FunctionMacro(<<"F">>, <<>>, <<"2">>), FunctionMacro(<<"A">>, << <<"x">> >>, <<"x", "+", "x">>) >> }
TextProjects ==
    {Alone([i \in DOMAIN table |-> DefineLine(table[i])] \o <<TextLine(t)>>) :
        table \in Tables,
        t \in SeqsUpTo({"A", "F", "(", ")", ",", "'"}, 4)
              \union Joined({<<"F", "(">>, <<"F", " ", "(">>}, SeqsUpTo({"A", "x", ",", ")", "("}, 4))
              \union SeqsUpTo({"'", "\\", "A", "1"}, 4)}
    \union {Alone(<<DefineLine(FunctionMacro(<<"F">>, p, <<"x">>)), TextLine(<<"F", "(", "1", ",", "2", ")">>)>>) :
        p \in SeqsUpTo({<<"x">>, <<"A">>, <<>>}, 3)}

BigProject == Project(<<File(<<"m">>, TRUE, 60, <<>>)>>, <<>>, <<>>)

Families ==
    << GroupProjects, TableProjects, IncludeProjects, PathProjects, ConditionProjects,
       TextProjects, {BigProject} >>

----------------------------------------------------------------------------
(* Properties. *)

\* The macros as a function, the first entry of a name being the one found.
AsFunction == [name \in {macros[i].name : i \in DOMAIN macros} |-> macros[Place(name)]]

Holds(text, s) == \E p \in 1 .. Len(text) + 1 - Len(s) : SubSeq(text, p, p + Len(s) - 1) = s

\* Where a condition means what C says: values of macros are one operand, and
\* no two signs touch.
PlainCondition(text) == ~Holds(text, <<"-", "-">>) /\ ~Holds(text, <<"+", "+">>)

\* The condition of an #if or #elif about to be read is the expression its
\* tokens are: the same texts are refused, and the others hold or not alike,
\* with C's precedences, from the left, whatever operators begin alike.
ConditionsMeanC ==
    Read({"if", "elif"}) /\ PlainCondition(Line.text) =>
        LET c == Evaluate(macros, Line.text)
            r == CCondition(AsFunction, Line.text)
        IN  c.valid = r.ok /\ (r.ok => c.value = (r.value # 0))

\* Where a line is expanded as C says: words apart, an argument without the
\* macro it is given to and without literals, no function-like macro named by
\* a replacement.
Words == {"A", "B", "F", "G", "x", "1", "2"}
FunctionNames == {n \in Names : \E i \in DOMAIN macros : macros[i].function /\ macros[i].name = <<n>>}
PlainText(text) ==
    /\ \A v, w \in Words : ~Holds(text, <<v, w>>)
    /\ \A i \in DOMAIN macros : FunctionNames \intersect Range(macros[i].replacement) = {}
    /\ \A n \in FunctionNames : Cardinality({p \in DOMAIN text : text[p] = n}) <= 1
    /\ Holds(text, <<"(">>) => ~Holds(text, <<"'">>)

WithoutBlanks(text) == SelectSeq(text, LAMBDA c : c # " ")

\* A line of text expands to what C's rescanning of tokens gives: names are
\* replaced except within what they themselves produced, arguments first, and
\* nothing inside a literal.
ExpansionsMeanC ==
    Read({"text"}) /\ PlainText(Line.text) =>
        LET e == Expand(macros, Line.text)
            r == CExpansion(AsFunction, Line.text)
        IN  /\ e.ok = r.ok
            /\ r.ok => WithoutBlanks(e.out) = WithoutBlanks(FlattenSeq(r.tokens))

----------------------------------------------------------------------------
\* Projects for comparing the whole: the texts of the others are compared
\* line by line above.
Structural ==
    \/ project.files[1].size < 40
    \/ \A p \in DOMAIN project.files[1].lines :
           LET line == project.files[1].lines[p]
           IN  /\ line.is = "text" => Len(line.text) = 1
               /\ line.is \in {"if", "elif"} => Len(line.text) = 1

\* The output is the text C gives: of every chain of groups the first whose
\* condition held, of every include the file it finds, once where it says so,
\* with the macros as they were at each line.  And there is none exactly when
\* C has none or the table or the output is full.
OutputMeansC ==
    LET meaning == CMeaning(project)
        fits == Size <= Limit /\ meaning.most <= TableCapacity /\ meaning.length <= Size
    IN  /\ status = "done" /\ Structural =>
              /\ meaning.ok /\ fits
              /\ SelectSeq(output, LAMBDA c : c # Newline) = FlattenSeq(meaning.text)
        /\ status = "failed" /\ Structural => ~meaning.ok \/ ~fits
=============================================================================
