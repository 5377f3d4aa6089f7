---------------------------- MODULE SelfCompiler ----------------------------
(***************************************************************************)
(* The self-hosted compiler at work on one source file, and its image at   *)
(* work on the machine: the tokens, one external declaration after the     *)
(* other, the names, then one function after the other, the objects, the   *)
(* addresses, and the run of what was emitted, from jump to jump.          *)
(***************************************************************************)
EXTENDS Declarations, Execution

CONSTANTS
    Programs,
    \* [text, inputs, load, symphony]: what is compiled, for which address and
    \* instruction set, and what the program reads; [valid, outputs, result]:
    \* whether it is C, and what it means.

    Parsed(_),      \* ParseUnit: the parser behind one external declaration
    Emitted(_, _)   \* EmitFunction: the emitter behind one function

VARIABLES
    source,     \* the program that is compiled and run
    phase,
    tokens,
    parser,
    emitter,
    emitted,    \* how many functions have been emitted
    machine

vars == <<source, phase, tokens, parser, emitter, emitted, machine>>

None == <<>>

Init ==
    /\ source \in Programs
    /\ phase = "scanning"
    /\ tokens = <<>>
    /\ parser = None
    /\ emitter = None
    /\ emitted = 0
    /\ machine = None

\* At most n tokens more than in r, which holds tokens and where they end; the
\* halves keep the recursion shallow.
RECURSIVE Scanned(_, _, _)
Scanned(text, r, n) ==
    LET i     == Skip(text, r.end)
        token == TokenAt(text, i)
    IN  CASE r.tokens # <<>> /\ Last(r.tokens).kind \in {"eof", "invalid"} -> r
          [] n = 1 -> [tokens |-> Append(r.tokens, token), end |-> i + Len(token.text)]
          [] OTHER -> Scanned(text, Scanned(text, r, n \div 2), n - n \div 2)

TokensOf(text) == Scanned(text, [tokens |-> <<>>, end |-> 1], Len(text) + 1).tokens

\* The parser takes them one by one, and goes back to look ahead.
Scan ==
    /\ phase = "scanning"
    /\ tokens' = TokensOf(source.text)
    /\ parser' = NewParser(tokens')
    /\ phase' = "parsing"
    /\ UNCHANGED <<source, emitter, emitted, machine>>

ParseNext ==
    /\ phase = "parsing"
    /\ ~parser.error /\ Kind(parser) # "eof"
    /\ parser' = Parsed(parser)
    /\ UNCHANGED <<source, phase, tokens, emitter, emitted, machine>>

EndParse ==
    /\ phase = "parsing"
    /\ parser.error \/ Kind(parser) = "eof"
    /\ parser' = IF parser.error THEN parser ELSE ResolveNames(parser)
    /\ phase' = IF parser'.error THEN "rejected" ELSE "lowering"
    /\ UNCHANGED <<source, tokens, emitter, emitted, machine>>

Body == parser.functions[parser.main].body

ReturnsConstant ==
    /\ Len(parser.functions) = 1 /\ parser.globals = <<>>
    /\ Body.kind = "return" /\ ConstantExpression(Body.left)

LowerConstant ==
    /\ phase = "lowering"
    /\ ReturnsConstant
    /\ LET value == Evaluate(Body.left)
           e     == EmitConstant(Emitter(parser, source.load, source.symphony), value)
       IN  IF value = NotConstant
           THEN phase' = "rejected" /\ UNCHANGED <<emitter, machine>>
           ELSE phase' = "running" /\ emitter' = e /\ machine' = Booted(e, source.inputs)
    /\ UNCHANGED <<source, tokens, parser, emitted>>

Lower ==
    /\ phase = "lowering"
    /\ ~ReturnsConstant
    /\ emitter' = Startup(Emitter(parser, source.load, source.symphony))
    /\ phase' = "emitting"
    /\ UNCHANGED <<source, tokens, parser, emitted, machine>>

EmitNext ==
    /\ phase = "emitting"
    /\ emitted < Len(parser.functions)
    /\ emitter' = Emitted(emitter, emitted + 1)
    /\ emitted' = emitted + 1
    /\ UNCHANGED <<source, phase, tokens, parser, machine>>

Objects(e) == [g \in 1 .. Len(e.program.globals) |-> g]

Finish ==
    /\ phase = "emitting"
    /\ emitted = Len(parser.functions)
    /\ LET placed  == FoldLeft(PlaceGlobal, ResolveCalls(emitter), Objects(emitter))
           pointed == FoldLeft(PointGlobal, placed, Objects(emitter))
           e       == ResolveGlobals(pointed)
       IN  /\ emitter' = e
           /\ IF e.error THEN phase' = "rejected" /\ UNCHANGED machine
              ELSE phase' = "running" /\ machine' = Booted(e, source.inputs)
    /\ UNCHANGED <<source, tokens, parser, emitted>>

Instruction(m) == emitter.code[m.pc - emitter.load]

IsAtInstruction(m) == m.pc - emitter.load \in DOMAIN emitter.code

\* The instructions up to a jump, and the jump.
RECURSIVE ToJump(_)
ToJump(m) ==
    IF ~IsAtInstruction(m) THEN m
    ELSE LET i == Instruction(m)
             n == Execute(m, i, Size(i, source.symphony))
         IN  IF i.op \in {"jump", "jumpi"} THEN n ELSE ToJump(n)

\* The machine stops at a jump to itself; the jump is executed once more here.
Run ==
    /\ phase = "running"
    /\ machine' = ToJump(machine)
    /\ phase' = CASE ~IsAtInstruction(machine') -> "lost"
                  [] Instruction(machine').op \in {"jump", "jumpi"}
                        /\ Execute(machine', Instruction(machine'), 0) = machine' -> "halted"
                  [] OTHER -> "running"
    /\ UNCHANGED <<source, tokens, parser, emitter, emitted>>

Ended == phase \in {"halted", "rejected", "lost"}
Done == Ended /\ UNCHANGED vars

Next ==
    \/ Scan \/ ParseNext \/ EndParse \/ LowerConstant \/ Lower
    \/ EmitNext \/ Finish \/ Run \/ Done

\* The weak fairness of Next: a step can be taken until it has ended.  (TLC
\* would compute every step again, and again, to find that out.)
Fairness == []<>Ended \/ []<><<TRUE>>_vars

Spec == Init /\ [][Next]_vars /\ Fairness

-----------------------------------------------------------------------------
\* What the compiled program outputs is what the source says, from the first
\* output on, and so is its result; the stack and the frame are left as they
\* were found.
ComputesMeaning ==
    /\ phase \in {"running", "halted"} => IsPrefix(machine.outputs, source.outputs)
    /\ phase = "halted" =>
          /\ machine.outputs = source.outputs /\ machine.regs[1] = source.result
          /\ machine.regs[14] = 0 /\ machine.regs[11] = 0

\* The program is compiled if it is C of the kind that is supported, and
\* rejected if not, before anything of it runs.
RejectsExactly ==
    /\ phase = "rejected" => ~source.valid
    /\ phase \in {"running", "halted"} => source.valid

AtStart == phase = "running" /\ machine = Booted(emitter, source.inputs)

\* The address a jump goes to, which was loaded last before it.
Target(code, a) ==
    code[Max({b \in DOMAIN code : b < a /\ code[b].op = "const" /\ code[b].d = code[a].a})].b

\* Every jump of the image, taken in this run or not, goes to an instruction,
\* and so does every return that is taken.
JumpsLand ==
    /\ phase # "lost"
    /\ AtStart => \A a \in DOMAIN emitter.code :
            emitter.code[a].op = "jump" /\ emitter.code[a].a # 13
                => Target(emitter.code, a) - emitter.load \in DOMAIN emitter.code

Apart(starts, ends) ==
    \A i, j \in DOMAIN starts : i = j \/ ends[i] <= starts[j] \/ ends[j] <= starts[i]

\* The bytes an object takes.
LocalBytes(l) ==
    CASE l.vla \/ l.pointer -> 4
      [] l.array            -> Evaluate(l.total)
      [] OTHER              -> l.size

GlobalBytes(g) ==
    CASE ~g.array     -> g.size
      [] g.dims = <<>> -> g.count
      [] OTHER        -> Head(g.dims).stride * Head(g.dims).count

FrameObjects(f) ==
    LET last == IF f = Len(parser.functions) THEN Len(parser.locals)
                ELSE parser.functions[f + 1].base
    IN  {l \in parser.functions[f].base + 1 .. last : parser.locals[l].static = 0}

\* Objects do not overlap: the locals of a function with each other and with
\* what is saved above their frame and pushed below it, the objects of the
\* file with each other and with the code.
ObjectsApart ==
    /\ phase = "lowering" => \A f \in DOMAIN parser.functions :
          LET objects == FrameObjects(f)
              ends    == [l \in objects |-> parser.locals[l].offset]
              starts  == [l \in objects |-> ends[l] - LocalBytes(parser.locals[l])]
          IN  /\ Apart(starts, ends)
              /\ \A l \in objects : starts[l] >= 0 /\ ends[l] <= parser.functions[f].frame
    /\ AtStart =>
          LET objects == {g \in DOMAIN parser.globals : parser.globals[g].defined}
              starts  == [g \in objects |-> emitter.globalOffsets[g]]
              ends    == [g \in objects |-> starts[g] + GlobalBytes(parser.globals[g])]
          IN  /\ Apart(starts, ends)
              /\ \A g \in objects, a \in DOMAIN emitter.code : a < starts[g]
              /\ \A g \in objects : ends[g] <= emitter.pos

\* The compiler comes to an end with every source, and what it compiles does.
Halts == <>(phase \in {"halted", "rejected"})
=============================================================================
