----------------------------- MODULE Condition -----------------------------
(* The evaluator of #if and #elif lines, dyn_condition of the self-hosted    *)
(* compiler.  It reads characters, not tokens: every operator is looked for  *)
(* as text at the current position, level by level, so which operator is     *)
(* found depends on the order of the attempts.                               *)
(*                                                                           *)
(* A text is a sequence of characters; the word "defined" is one of them.    *)
(* A word has Bits bits.                                                     *)
EXTENDS Integers, Sequences, SequencesExt, Bitwise

CONSTANTS Bits, MaxDepth

Blank == " "
Digits == <<"0", "1", "2", "3", "4", "5", "6", "7", "8", "9">>
Letters == {"A", "B", "C", "F", "G", "defined"}
IsDigit(ch) == \E d \in 1 .. 10 : Digits[d] = ch
NameChar(ch) == ch \in Letters \/ IsDigit(ch)
DigitValue(ch) == (CHOOSE d \in 1 .. 10 : Digits[d] = ch) - 1

Words == 2 ^ Bits
Word(n) == n % Words
Truth(b) == IF b THEN 1 ELSE 0

\* The levels from || down to *, each with its operators in the order in
\* which they are tried, and whether its loop stops at an error.
Levels ==
    << [ops |-> << <<"|", "|">> >>,                       stops |-> FALSE],
       [ops |-> << <<"&", "&">> >>,                       stops |-> FALSE],
       [ops |-> << <<"|">> >>,                            stops |-> TRUE],
       [ops |-> << <<"^">> >>,                            stops |-> FALSE],
       [ops |-> << <<"&">> >>,                            stops |-> TRUE],
       [ops |-> << <<"=", "=">>, <<"!", "=">> >>,         stops |-> TRUE],
       [ops |-> << <<"<", "=">>, <<">", "=">>, <<"<">>, <<">">> >>,
                                                          stops |-> TRUE],
       [ops |-> << <<"<", "<">>, <<">", ">">> >>,         stops |-> TRUE],
       [ops |-> << <<"+">>, <<"-">> >>,                   stops |-> TRUE],
       [ops |-> << <<"*">>, <<"/">>, <<"%">> >>,          stops |-> TRUE] >>

\* The value of left op right; no value for a division by zero.
Defined(op, b) == op \in {<<"/">>, <<"%">>} => b # 0
Apply(op, a, b) ==
    CASE op = <<"|", "|">> -> Truth(a # 0 \/ b # 0)
      [] op = <<"&", "&">> -> Truth(a # 0 /\ b # 0)
      [] op = <<"|">>      -> a | b
      [] op = <<"^">>      -> a ^^ b
      [] op = <<"&">>      -> a & b
      [] op = <<"=", "=">> -> Truth(a = b)
      [] op = <<"!", "=">> -> Truth(a # b)
      [] op = <<"<", "=">> -> Truth(a <= b)
      [] op = <<">", "=">> -> Truth(a >= b)
      [] op = <<"<">>      -> Truth(a < b)
      [] op = <<">">>      -> Truth(a > b)
      [] op = <<"<", "<">> -> Word(a * 2 ^ (b % Bits))
      [] op = <<">", ">">> -> a \div 2 ^ (b % Bits)
      [] op = <<"+">>      -> Word(a + b)
      [] op = <<"-">>      -> Word(a - b)
      [] op = <<"*">>      -> Word(a * b)
      [] op = <<"/">>      -> a \div b
      [] op = <<"%">>      -> a % b
Prefix(op, a) ==
    CASE op = "!" -> Truth(a = 0)
      [] op = "~" -> Words - 1 - a
      [] op = "+" -> a
      [] op = "-" -> Word(0 - a)

----------------------------------------------------------------------------
(* A reader c: its text, the position, the depth of macros it is in, whether *)
(* it met an error, and the value of what it read last.                      *)
Reader(text, depth) ==
    [text |-> text, position |-> 1, depth |-> depth, error |-> FALSE, value |-> 0]

At(c, ch) == c.position <= Len(c.text) /\ c.text[c.position] = ch
AtEnd(c) == c.position > Len(c.text)

\* The end of the run of characters of a kind from a position on.
RunEnd(text, start, Kind(_)) ==
    LET stops == {p \in start .. Len(text) : ~Kind(text[p])}
    IN  IF stops = {} THEN Len(text) + 1 ELSE CHOOSE p \in stops : \A q \in stops : p <= q

Skip(c) == [c EXCEPT !.position = RunEnd(c.text, c.position, LAMBDA ch : ch = Blank)]

Found(c, op) == IsPrefix(op, SubSeq(c.text, Skip(c).position, Len(c.text)))
Past(c, op) == [Skip(c) EXCEPT !.position = @ + Len(op)]
Failed(c) == [c EXCEPT !.error = TRUE]

\* Digits of the base the prefix gives, then any suffix.
Number(c) ==
    LET octal == At(c, "0")
        hex   == octal /\ c.position < Len(c.text) /\ c.text[c.position + 1] = "x"
        base  == IF hex THEN 16 ELSE IF octal THEN 8 ELSE 10
        first == c.position + (IF hex THEN 2 ELSE IF octal THEN 1 ELSE 0)
        last  == RunEnd(c.text, first, LAMBDA ch : IsDigit(ch) /\ DigitValue(ch) < base)
        value == FoldLeft(LAMBDA v, ch : Word(v * base + DigitValue(ch)), 0,
                          SubSeq(c.text, first, last - 1))
    IN  [c EXCEPT !.value = value,
                  !.position = RunEnd(c.text, last, LAMBDA ch : ch = "u")]

\* defined NAME, defined(NAME)
IsDefined(macros, c) ==
    LET open  == Found(c, <<"(">>)
        named == Skip(IF open THEN Past(c, <<"(">>) ELSE c)
        after == [named EXCEPT !.position = RunEnd(c.text, named.position, NameChar)]
        name  == SubSeq(c.text, named.position, after.position - 1)
    IN  IF name = <<>> \/ (open /\ ~Found(after, <<")">>))
        THEN [Failed(after) EXCEPT !.value = 0]
        ELSE [(IF open THEN Past(after, <<")">>) ELSE after) EXCEPT
                !.value = Truth(\E i \in DOMAIN macros : macros[i].name = name)]

RECURSIVE Level(_, _, _), Rest(_, _, _), Unary(_, _), Primary(_, _)

\* A macro's value is that of its replacement, evaluated on its own.
MacroValue(macros, m, c) ==
    LET nested == Skip(Level(macros, 1, Reader(macros[m].replacement, c.depth + 1)))
    IN  [c EXCEPT !.value = nested.value,
                  !.error = @ \/ nested.error \/ ~AtEnd(nested)]

Name(macros, c) ==
    LET after == [c EXCEPT !.position = RunEnd(c.text, c.position, NameChar)]
        name  == SubSeq(c.text, c.position, after.position - 1)
        known == {m \in DOMAIN macros : macros[m].name = name}
    IN  IF name = <<"defined">> THEN IsDefined(macros, after)
        ELSE IF /\ known # {}
                /\ ~macros[CHOOSE m \in known : TRUE].function
                /\ c.depth < MaxDepth
             THEN MacroValue(macros, CHOOSE m \in known : TRUE, after)
             ELSE [after EXCEPT !.value = 0]

Primary(macros, before) ==
    LET c == Skip(before)
    IN  IF Found(c, <<"(">>)
        THEN LET inner == Level(macros, 1, Past(c, <<"(">>))
             IN  IF Found(inner, <<")">>) THEN Past(inner, <<")">>) ELSE Failed(Skip(inner))
        ELSE IF ~AtEnd(c) /\ IsDigit(c.text[c.position]) THEN Number(c)
        ELSE IF ~AtEnd(c) /\ c.text[c.position] \in Letters THEN Name(macros, c)
        ELSE [Failed(c) EXCEPT !.value = 0]

Unary(macros, c) ==
    IF \E op \in {"!", "~", "+", "-"} : Found(c, <<op>>)
    THEN LET op == c.text[Skip(c).position]
             operand == Unary(macros, Past(c, <<op>>))
         IN  [operand EXCEPT !.value = Prefix(op, @)]
    ELSE Primary(macros, c)

\* Slip: a single & or | is taken though another follows.
OperatorGreedy(level, c) ==
    LET ops  == Levels[level].ops
        hits == {i \in DOMAIN ops : Found(c, ops[i])}
    IN  IF hits = {} THEN <<>> ELSE ops[CHOOSE i \in hits : \A j \in hits : i <= j]

\* The operator found at a level.  A single & or | that another follows, blanks
\* between or not, is left where it is.
Operator(level, c) ==
    LET ops  == Levels[level].ops
        hits == {i \in DOMAIN ops : Found(c, ops[i])}
    IN  IF hits = {} THEN <<>>
        ELSE LET op == ops[CHOOSE i \in hits : \A j \in hits : i <= j]
             IN  IF op \in {<<"&">>, <<"|">>} /\ Found(Past(c, op), op) THEN <<>> ELSE op

Level(macros, level, c) ==
    IF level > Len(Levels) THEN Unary(macros, c)
    ELSE Rest(macros, level, Level(macros, level + 1, c))

Rest(macros, level, left) ==
    LET op == Operator(level, left)
    IN  IF op = <<>> \/ (Levels[level].stops /\ left.error) THEN left
        ELSE LET right == Level(macros, level + 1, Past(left, op))
             IN  Rest(macros, level,
                      IF Defined(op, right.value)
                      THEN [right EXCEPT !.value = Apply(op, left.value, right.value)]
                      ELSE [Failed(right) EXCEPT !.value = left.value])

\* The condition of an #if or #elif line: its value, and whether it is one.
Condition(macros, text) ==
    LET c == Skip(Level(macros, 1, Reader(text, 0)))
    IN  [value |-> c.value # 0, valid |-> ~c.error /\ AtEnd(c)]
=============================================================================
