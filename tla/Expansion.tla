----------------------------- MODULE Expansion -----------------------------
(* Macro expansion of a source line, dyn_expand_line and dyn_expand_function *)
(* of the self-hosted compiler.                                              *)
(*                                                                           *)
(* A text is a sequence of names and single characters.  A macro has a name, *)
(* a replacement and, when it is function-like, parameters; a macro being    *)
(* expanded is not expanded again.                                           *)
EXTENDS Integers, Sequences, SequencesExt

CONSTANTS Names, MaxParameters

Quote == "'"
Backslash == "\\"

\* dyn_find_macro: the first of that name.
MacrosNamed(macros, name) == {m \in DOMAIN macros : macros[m].name = <<name>>}
MacroNamed(macros, name) ==
    CHOOSE m \in MacrosNamed(macros, name) :
        \A n \in MacrosNamed(macros, name) : m <= n

----------------------------------------------------------------------------
(* The arguments of an invocation whose name ends before position start.     *)

BlankEnd(text, start) ==
    LET stops == {p \in start .. Len(text) : text[p] # " "}
    IN  IF stops = {} THEN Len(text) + 1 ELSE CHOOSE p \in stops : \A q \in stops : p <= q

\* How many parentheses are open after the characters first .. p.
Nesting(text, first, p) ==
    Cardinality({q \in first .. p : text[q] = "("})
        - Cardinality({q \in first .. p : text[q] = ")"})

\* The commas and the parenthesis at which arguments end, from a first
\* position on.  Quotes do not hide a comma or a parenthesis.
Closing(text, first) ==
    {p \in first .. Len(text) : text[p] = ")" /\ Nesting(text, first, p) = -1}
CloseAt(text, first) ==
    CHOOSE p \in Closing(text, first) : \A q \in Closing(text, first) : p <= q
\* Slip: a comma within nested parentheses ends an argument too.
SeparatorsFlat(text, first) ==
    {p \in first .. CloseAt(text, first) : p = CloseAt(text, first) \/ text[p] = ","}

Separators(text, first) ==
    {p \in first .. CloseAt(text, first) :
        \/ p = CloseAt(text, first)
        \/ text[p] = "," /\ Nesting(text, first, p) = 0}

\* What lies between the separators; an empty list for F() without parameters.
Arguments(text, first, parameters) ==
    LET ends == SetToSortSeq(Separators(text, first), LAMBDA p, q : p < q)
        cut  == [i \in DOMAIN ends |->
                    SubSeq(text, IF i = 1 THEN first ELSE ends[i - 1] + 1, ends[i] - 1)]
    IN  IF cut = << <<>> >> /\ parameters = 0 THEN <<>> ELSE cut

----------------------------------------------------------------------------
(* Results: the text put out, whether no error was met, and where reading    *)
(* goes on.                                                                  *)
Result(out, position) == [out |-> out, ok |-> TRUE, position |-> position]
Error == [out |-> <<>>, ok |-> FALSE, position |-> 0]
Before(out, r) == IF r.ok THEN [r EXCEPT !.out = out \o @] ELSE r

RECURSIVE ExpandFrom(_, _, _, _, _), Substitute(_, _, _, _, _, _)

\* dyn_expand_line on a whole text.
Line(macros, text, expanding) == ExpandFrom(macros, text, 1, FALSE, expanding)

\* dyn_expand_function after its argument list: each name of the replacement
\* is a parameter, an object-like macro, or itself.
Substitute(macros, m, arguments, p, quoted, expanding) ==
    LET body == macros[m].replacement
        More(q, inside) == Substitute(macros, m, arguments, q, inside, expanding)
        parameter == SelectInSeq(macros[m].parameters, LAMBDA x : x = body[p])
        nested == MacrosNamed(macros, body[p])
        Then(r) == IF r.ok THEN Before(r.out, More(p + 1, FALSE)) ELSE r
    IN  IF p > Len(body) THEN Result(<<>>, p)
        ELSE IF quoted /\ body[p] = Backslash /\ p < Len(body)
        THEN Before(SubSeq(body, p, p + 1), More(p + 2, TRUE))
        ELSE IF quoted \/ body[p] = Quote
        THEN Before(<<body[p]>>, More(p + 1, quoted # (body[p] = Quote)))
        ELSE IF body[p] \notin Names THEN Before(<<body[p]>>, More(p + 1, FALSE))
        ELSE IF parameter > 0 THEN Then(Line(macros, arguments[parameter], expanding))
        ELSE IF nested # {} /\ LET n == MacroNamed(macros, body[p])
                               IN  ~macros[n].function /\ n \notin expanding
             THEN LET n == MacroNamed(macros, body[p])
                  IN  Then(Line(macros, macros[n].replacement, expanding \union {n}))
             ELSE Before(<<body[p]>>, More(p + 1, FALSE))

\* dyn_expand_function: position start is after the name.  Without an
\* argument list nothing is read.
Invoke(macros, m, text, start, expanding) ==
    LET open  == BlankEnd(text, start)
        first == open + 1
        arguments == Arguments(text, first, Len(macros[m].parameters))
        body == Substitute(macros, m, arguments, 1, FALSE, expanding \union {m})
    IN  IF open > Len(text) \/ text[open] # "(" THEN Result(<<macros[m].name[1]>>, start)
        ELSE IF \/ Closing(text, first) = {}
                \/ Cardinality(Separators(text, first)) > MaxParameters
                \/ Len(arguments) # Len(macros[m].parameters)
             THEN Error
             ELSE IF body.ok THEN Result(body.out, CloseAt(text, first) + 1) ELSE body

ExpandFrom(macros, text, p, quoted, expanding) ==
    LET More(q, inside) == ExpandFrom(macros, text, q, inside, expanding)
        m == MacroNamed(macros, text[p])
        object == Line(macros, macros[m].replacement, expanding \union {m})
        invoked == Invoke(macros, m, text, p + 1, expanding)
    IN  IF p > Len(text) THEN Result(<<>>, p)
        ELSE IF quoted /\ text[p] = Backslash /\ p < Len(text)
        THEN Before(SubSeq(text, p, p + 1), More(p + 2, TRUE))
        ELSE IF quoted \/ text[p] = Quote
        THEN Before(<<text[p]>>, More(p + 1, quoted # (text[p] = Quote)))
        ELSE IF \/ text[p] \notin Names
                \/ MacrosNamed(macros, text[p]) = {}
                \/ m \in expanding
        THEN Before(<<text[p]>>, More(p + 1, FALSE))
        ELSE IF macros[m].function
        THEN IF invoked.ok THEN Before(invoked.out, More(invoked.position, FALSE)) ELSE Error
        ELSE IF object.ok THEN Before(object.out, More(p + 1, FALSE)) ELSE Error
=============================================================================
