----------------------------- MODULE CReference -----------------------------
(***************************************************************************)
(* What a C program means, from its structure alone: nothing is scanned,   *)
(* parsed or compiled here.  A program is written down as words, with no   *)
(* more parentheses than its structure needs or with all of them, and its  *)
(* meaning is what it outputs and returns.  Integers are unsigned words,   *)
(* and what C leaves open is as the compiler and the machine have it: a    *)
(* division by zero and a shift by a word yield 0, operands are evaluated  *)
(* left to right.                                                          *)
(***************************************************************************)
EXTENDS SequencesExt, Words

-----------------------------------------------------------------------------
(***************************************************************************)
(* Expressions.                                                            *)
(***************************************************************************)
N(value) == [op |-> "number", value |-> value]
V(name) == [op |-> "name", name |-> name]
U(sign, e) == [op |-> "unary", sign |-> sign, e |-> e]
B(l, sign, r) == [op |-> "binary", sign |-> sign, l |-> l, r |-> r]
Set(name, sign, e) == [op |-> "set", name |-> name, sign |-> sign, e |-> e]
Choice(test, yes, no) == [op |-> "choice", test |-> test, yes |-> yes, no |-> no]
Call(name, args) == [op |-> "call", name |-> name, args |-> args]
Out(e) == Call("output", <<e>>)

\* How tightly an operator binds; operands of its own level stand on the left.
Tightness ==
    "," :> 1 @@ "||" :> 4 @@ "&&" :> 5 @@ "|" :> 6 @@ "^" :> 7 @@ "&" :> 8
    @@ "==" :> 9 @@ "!=" :> 9 @@ "<" :> 10 @@ ">" :> 10 @@ "<=" :> 10 @@ ">=" :> 10
    @@ "<<" :> 11 @@ ">>" :> 11 @@ "+" :> 12 @@ "-" :> 12
    @@ "*" :> 13 @@ "/" :> 13 @@ "%" :> 13

TightnessOf(e) ==
    CASE e.op = "binary" -> Tightness[e.sign]
      [] e.op = "set"    -> 2
      [] e.op = "choice" -> 3
      [] e.op = "unary"  -> 14
      [] OTHER           -> 15

Digits == <<"1", "2", "3", "4", "5", "6", "7", "8", "9">>

RECURSIVE Numeral(_)
Numeral(n) ==
    IF n < 10 THEN IF n = 0 THEN "0" ELSE Digits[n]
    ELSE Numeral(n \div 10) \o Numeral(n % 10)

Separated(lists, separator) ==
    FoldLeft(LAMBDA all, one : IF all = <<>> THEN one ELSE all \o <<separator>> \o one,
             <<>>, lists)

RECURSIVE Written(_, _, _), Bare(_, _)
Bare(e, full) ==
    CASE e.op = "number" -> <<Numeral(e.value)>>
      [] e.op = "name"   -> <<e.name>>
      [] e.op = "unary"  -> <<e.sign>> \o Written(e.e, 14, full)
      [] e.op = "binary" ->
            LET t == Tightness[e.sign]
            IN  Written(e.l, t, full) \o <<e.sign>> \o Written(e.r, t + 1, full)
      [] e.op = "set"    -> <<e.name, e.sign>> \o Written(e.e, 2, full)
      [] e.op = "choice" ->
            Written(e.test, 4, full) \o <<"?">> \o Written(e.yes, 1, full)
              \o <<":">> \o Written(e.no, 3, full)
      [] e.op = "call"   ->
            <<e.name, "(">> \o Separated([i \in DOMAIN e.args |-> Written(e.args[i], 2, full)], ",")
              \o <<")">>

\* e where an operand has to bind at least this tightly.
Written(e, least, full) ==
    IF TightnessOf(e) < least \/ (full /\ e.op \in {"binary", "set", "choice", "unary"})
    THEN <<"(">> \o Bare(e, full) \o <<")">>
    ELSE Bare(e, full)

-----------------------------------------------------------------------------
(***************************************************************************)
(* Statements, functions and programs.                                     *)
(***************************************************************************)
Do(e) == [op |-> "do", e |-> e]
Return(e) == [op |-> "return", e |-> e]
Declare(type, name, e) == [op |-> "declare", type |-> type, name |-> name, e |-> e]
Block(list) == [op |-> "block", list |-> list]
If(test, yes, no) == [op |-> "if", test |-> test, yes |-> yes, no |-> no]
While(test, body) == [op |-> "while", test |-> test, body |-> body]
DoWhile(body, test) == [op |-> "dowhile", body |-> body, test |-> test]
For(first, test, step, body) ==
    [op |-> "for", first |-> first, test |-> test, step |-> step, body |-> body]
Leave(word) == [op |-> "leave", word |-> word]
Skip == Block(<<>>)

Function(name, parameters, list) ==
    [name |-> name, parameters |-> parameters, body |-> Block(list)]

Expr(e, full) == Written(e, 1, full)
Closed(word, e, full) == <<word, "(">> \o Expr(e, full) \o <<")">>

RECURSIVE Stated(_, _)
Stated(s, full) ==
    CASE s.op = "do"      -> Expr(s.e, full) \o <<";">>
      [] s.op = "return"  -> <<"return">> \o Expr(s.e, full) \o <<";">>
      [] s.op = "declare" -> <<s.type, s.name, "=">> \o Written(s.e, 2, full) \o <<";">>
      [] s.op = "leave"   -> <<s.word, ";">>
      [] s.op = "block"   ->
            <<"{">> \o FlattenSeq([i \in DOMAIN s.list |-> Stated(s.list[i], full)]) \o <<"}">>
      [] s.op = "if"      ->
            Closed("if", s.test, full) \o Stated(s.yes, full)
              \o (IF s.no = Skip THEN <<>> ELSE <<"else">> \o Stated(s.no, full))
      [] s.op = "while"   -> Closed("while", s.test, full) \o Stated(s.body, full)
      [] s.op = "dowhile" ->
            <<"do">> \o Stated(s.body, full) \o Closed("while", s.test, full) \o <<";">>
      [] s.op = "for"     ->
            <<"for", "(">> \o Stated(s.first, full) \o Expr(s.test, full) \o <<";">>
              \o Expr(s.step, full) \o <<")">> \o Stated(s.body, full)

FunctionText(f, full) ==
    <<"int", f.name, "(">>
      \o Separated([i \in DOMAIN f.parameters |-> <<"int", f.parameters[i]>>], ",")
      \o <<")">> \o Stated(f.body, full)

\* A program is [globals: declarations, functions: functions], main last.
ProgramText(program, full) ==
    FlattenSeq([i \in DOMAIN program.globals |-> Stated(program.globals[i], full)])
      \o FlattenSeq([i \in DOMAIN program.functions |-> FunctionText(program.functions[i], full)])

-----------------------------------------------------------------------------
(***************************************************************************)
(* Meaning.  A state has the scopes, the innermost one first, what was     *)
(* output and is left to be input, the last value, and whether a break, a  *)
(* continue or a return is under way.                                      *)
(***************************************************************************)
Operate(sign, a, b) ==
    CASE sign = "+"  -> (a + b) % Word
      [] sign = "-"  -> (a - b) % Word
      [] sign = "*"  -> (a * b) % Word
      [] sign = "/"  -> IF b = 0 THEN 0 ELSE a \div b
      [] sign = "%"  -> IF b = 0 THEN 0 ELSE a % b
      [] sign = "&"  -> a & b
      [] sign = "|"  -> a | b
      [] sign = "^"  -> a ^^ b
      [] sign = "<<" -> IF b < WordBits THEN (a * 2 ^ b) % Word ELSE 0
      [] sign = ">>" -> IF b < WordBits THEN a \div 2 ^ b ELSE 0
      [] sign = "==" -> Truth(a = b)
      [] sign = "!=" -> Truth(a # b)
      [] sign = "<"  -> Truth(a < b)
      [] sign = ">"  -> Truth(a > b)
      [] sign = "<=" -> Truth(a <= b)
      [] sign = ">=" -> Truth(a >= b)
      [] sign = ","  -> b

Signed(sign, a) ==
    CASE sign = "-" -> (-a) % Word
      [] sign = "+" -> a
      [] sign = "~" -> Word - 1 - a
      [] sign = "!" -> Truth(a = 0)

\* What an object of a type holds of a value.
Held(type, value) ==
    CASE type = "_Bool" -> Truth(value # 0)
      [] type = "char"  -> value % Byte
      [] OTHER          -> value

Object(type, value) == [type |-> type, value |-> Held(type, value)]

ScopeOf(s, name) == SelectInSeq(s.scopes, LAMBDA scope : name \in DOMAIN scope)
ValueOf(s, name) == s.scopes[ScopeOf(s, name)][name].value
With(s, value) == [s EXCEPT !.value = value]

\* The assignment to an object is worth what the object then holds.
Store(s, name, value) ==
    LET i == ScopeOf(s, name)
        o == Object(s.scopes[i][name].type, value)
    IN  With([s EXCEPT !.scopes[i] = [@ EXCEPT ![name] = o]], o.value)

Declaring(s, type, name, value) ==
    [s EXCEPT !.scopes = <<(name :> Object(type, value)) @@ Head(@)>> \o Tail(@)]

RECURSIVE Eval(_, _, _), Exec(_, _, _), EvalAll(_, _, _), ExecAll(_, _, _), Repeat(_, _, _)

\* The arguments of a call one after the other: the values, and the state.
EvalAll(program, args, r) ==
    LET half == Len(args) \div 2
        t    == Eval(program, args[1], r.state)
    IN  CASE Len(args) = 0 -> r
          [] Len(args) = 1 -> [state |-> t, values |-> Append(r.values, t.value)]
          [] OTHER -> EvalAll(program, SubSeq(args, half + 1, Len(args)),
                              EvalAll(program, SubSeq(args, 1, half), r))

Apply(program, f, r) ==
    LET scope == [x \in ToSet(f.parameters) |->
                    Object("int", r.values[CHOOSE i \in DOMAIN f.parameters : f.parameters[i] = x])]
        t == Exec(program, f.body, [r.state EXCEPT !.scopes = <<scope, Last(@)>>])
    IN  [t EXCEPT !.scopes = Front(r.state.scopes) \o <<Last(@)>>, !.flow = "on",
                  !.value = IF t.flow = "return" THEN @ ELSE 0]

Invoke(program, name, r) ==
    CASE name = "output" -> With([r.state EXCEPT !.outputs = Append(@, r.values[1])], 0)
      [] name = "input"  ->
            LET left == r.state.inputs
            IN  IF left = <<>> THEN With(r.state, 0)
                ELSE With([r.state EXCEPT !.inputs = Tail(left)], Head(left))
      [] OTHER -> Apply(program,
                        program.functions[SelectInSeq(program.functions, LAMBDA f : f.name = name)],
                        r)

Eval(program, e, s) ==
    CASE e.op = "number" -> With(s, e.value)
      [] e.op = "name"   -> With(s, ValueOf(s, e.name))
      [] e.op = "unary"  -> LET t == Eval(program, e.e, s) IN With(t, Signed(e.sign, t.value))
      [] e.op = "binary" ->
            LET l == Eval(program, e.l, s)
                r == Eval(program, e.r, l)
            IN  CASE e.sign = "&&" -> IF l.value = 0 THEN With(l, 0) ELSE With(r, Truth(r.value # 0))
                  [] e.sign = "||" -> IF l.value # 0 THEN With(l, 1) ELSE With(r, Truth(r.value # 0))
                  [] OTHER -> With(r, Operate(e.sign, l.value, r.value))
      [] e.op = "set"    ->
            LET t == Eval(program, e.e, s)
                sign == SubSeq(e.sign, 1, Len(e.sign) - 1)
            IN  Store(t, e.name, IF sign = "" THEN t.value
                                 ELSE Operate(sign, ValueOf(s, e.name), t.value))
      [] e.op = "choice" ->
            LET t == Eval(program, e.test, s)
            IN  Eval(program, IF t.value # 0 THEN e.yes ELSE e.no, t)
      [] e.op = "call"   -> Invoke(program, e.name, 
                                EvalAll(program, e.args, [state |-> s, values |-> <<>>]))

\* A list stops where the control leaves it.
ExecAll(program, list, s) ==
    LET half == Len(list) \div 2
    IN  CASE s.flow # "on" \/ list = <<>> -> s
          [] Len(list) = 1 -> Exec(program, list[1], s)
          [] OTHER -> ExecAll(program, SubSeq(list, half + 1, Len(list)),
                              ExecAll(program, SubSeq(list, 1, half), s))

\* loop: what is tested, done, and done between two rounds.
Repeat(program, loop, s) ==
    LET test == Eval(program, loop.test, s)
        body == Exec(program, loop.body, test)
        on   == [body EXCEPT !.flow = "on"]
        step == Eval(program, loop.step, on)
    IN  CASE test.value = 0 -> test
          [] body.flow = "break" -> on
          [] body.flow = "return" -> body
          [] OTHER -> Repeat(program, loop, step)

Loop(test, body, step) == [test |-> test, body |-> body, step |-> step]

Exec(program, c, s) ==
    CASE c.op = "do"      -> Eval(program, c.e, s)
      [] c.op = "return"  -> [Eval(program, c.e, s) EXCEPT !.flow = "return"]
      [] c.op = "leave"   -> [s EXCEPT !.flow = c.word]
      [] c.op = "declare" ->
            LET t == Eval(program, c.e, s) IN Declaring(t, c.type, c.name, t.value)
      [] c.op = "block"   ->
            LET t == ExecAll(program, c.list, [s EXCEPT !.scopes = <<<<>>>> \o @])
            IN  [t EXCEPT !.scopes = Tail(@)]
      [] c.op = "if"      ->
            LET t == Eval(program, c.test, s)
            IN  Exec(program, IF t.value # 0 THEN c.yes ELSE c.no, t)
      [] c.op = "while"   -> Repeat(program, Loop(c.test, c.body, N(0)), s)
      [] c.op = "for"     ->
            Repeat(program, Loop(c.test, c.body, c.step), Exec(program, c.first, s))
      [] c.op = "dowhile" ->
            LET t == Exec(program, c.body, s)
                on == [t EXCEPT !.flow = "on"]
            IN  CASE t.flow = "break"  -> on
                  [] t.flow = "return" -> t
                  [] OTHER -> Repeat(program, Loop(c.test, c.body, N(0)), on)

Meaning(program, inputs) ==
    LET start == [scopes |-> <<<<>>>>, outputs |-> <<>>, inputs |-> inputs, value |-> 0,
                  flow |-> "on"]
        s == Eval(program, Call("main", <<>>), ExecAll(program, program.globals, start))
    IN  [outputs |-> s.outputs, result |-> s.value]
=============================================================================
