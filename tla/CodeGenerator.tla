--------------------------- MODULE CodeGenerator ---------------------------
(***************************************************************************)
(* The back end of the self-hosted compiler                                *)
(* (selfhost/src/target/symphony/backend.c): a tree becomes instructions   *)
(* while it is walked, through registers r1 .. r6 and the stack, and       *)
(* forward jumps are patched when their target is known.                   *)
(*                                                                         *)
(* An instruction is a record instead of its encoding, at the byte address *)
(* it has in the image.  The capacities of the tables and the intrinsics   *)
(* keyboard .. jump are not modelled.  What follows a failure is not       *)
(* emitted, as no image comes of it.                                       *)
(***************************************************************************)
EXTENDS SyntaxTree

(***************************************************************************)
(* Instructions: arithmetic on registers (alu) or with an immediate        *)
(* (alui), loads and stores of c bytes, jumps on condition c of the flags  *)
(* in r15, and the three-instruction sequence that loads a whole word.     *)
(***************************************************************************)
Ins(op, c, d, a, b) == [op |-> op, c |-> c, d |-> d, a |-> a, b |-> b]
Alu(c, d, a, b) == Ins("alu", c, d, a, b)
AluImmediate(c, d, a, v) == Ins("alui", c, d, a, v % Half)
Move(d, s) == Alu("or", d, 0, s)
Constant(d, v) == Ins("const", "", d, 0, v % Word)
Load(size, d, a) == Ins("load", size, d, a, 0)
Store(size, s, a) == Ins("store", size, s, a, 0)
Jump(c, a) == Ins("jump", c, 0, a, 0)
CompareZero(r) == AluImmediate("cmp", 15, r, 0)
Compare(l, r) == Alu("cmp", 15, l, r)
Push(r) == <<AluImmediate("sub", 14, 14, 4), Store(4, r, 14)>>
Pop(r) == <<Load(4, r, 14), AluImmediate("add", 14, 14, 4)>>

\* Bytes of an instruction; Symphony pads every one of them to a word.
Size(i, symphony) ==
    CASE i.op = "const"                   -> 12
      [] symphony \/ i.op \in {"alui", "jumpi"} -> 4
      [] i.op \in {"counter", "in"}       -> 2
      [] OTHER                            -> 3

\* The instructions one after the other from where the code ends.
Emits(e, is) ==
    LET at[k \in 1 .. Len(is) + 1] ==
            IF k = 1 THEN e.pos ELSE at[k - 1] + Size(is[k - 1], e.symphony)
    IN  [e EXCEPT !.code = [a \in {at[k] : k \in DOMAIN is} |->
                                is[CHOOSE k \in DOMAIN is : at[k] = a]] @@ @,
                  !.pos = at[Len(is) + 1]]

Emit(e, i) == Emits(e, <<i>>)

Fail(e) == [e EXCEPT !.error = TRUE]

\* A jump whose target is patched later; the fixup is the position before.
Branch(e, c) == Emits(e, <<Constant(7, 0), Jump(c, 7)>>)

\* Slip: the load address of the image is forgotten.
PatchUnrelocated(e, fixup, target) == [e EXCEPT !.code[fixup].b = target % Word]

Patch(e, fixup, target) ==
    [e EXCEPT !.code[fixup].b = (e.load + target) % Word]

PatchAll(e, fixups, target) ==
    FoldLeft(LAMBDA f, fixup : Patch(f, fixup, target), e, fixups)

\* d := a - offset, in one instruction when the offset fits.
Below(d, a, offset) ==
    IF offset < Half THEN <<AluImmediate("sub", d, a, offset)>>
    ELSE <<Constant(d, offset), Alu("sub", d, a, d)>>

Above(d, a, offset, scratch) ==
    IF offset < Half THEN <<AluImmediate("add", d, a, offset)>>
    ELSE <<Constant(scratch, offset), Alu("add", d, a, scratch)>>

GlobalAddress(e, global, d) ==
    LET e1 == [Emit(e, Constant(7, 0)) EXCEPT
                 !.globalFixups = Append(@, [at |-> e.pos, of |-> global])]
    IN  IF d = 7 THEN e1 ELSE Emit(e1, Move(d, 7))

LocalAddress(e, local, d) ==
    LET symbol == e.program.locals[local]
    IN  CASE symbol.static # 0 -> GlobalAddress(e, symbol.static, d)
          [] local <= e.base   -> Fail(e)
          [] symbol.vla        -> Emits(e, Below(d, 11, symbol.offset) \o <<Load(4, d, d)>>)
          [] OTHER             -> Emits(e, Below(d, 11, symbol.offset))

\* The return address is the counter plus the three instructions after it.
Call(e, function) ==
    [Emits(e, <<Constant(15, 0), Ins("counter", "", 13, 0, 0),
                AluImmediate("add", 13, 13, IF e.symphony THEN 12 ELSE 9),
                Jump("jmp", 15)>>) EXCEPT
        !.callFixups = Append(@, [at |-> e.pos, of |-> function])]

\* reg := 1 or 0, by the flags.
Boolean(e, reg, c) ==
    LET e1   == Emit(e, Constant(reg, 0))
        e2   == Branch(e1, c)
        e3   == Branch(e2, "jmp")
        e4   == Emit(Patch(e3, e1.pos, e3.pos), Constant(reg, 1))
    IN  Patch(e4, e2.pos, e4.pos)

\* Shift and add: reg * (reg + 1) through reg + 2 and reg + 3.
Multiply(e, reg) ==
    LET e1 == Emit(e, Constant(reg + 2, 0))
        e2 == Emit(e1, CompareZero(reg + 1))
        e3 == Emits(Branch(e2, "je"),
                    <<AluImmediate("and", reg + 3, reg + 1, 1), CompareZero(reg + 3)>>)
        e4 == Emit(Branch(e3, "je"), Alu("add", reg + 2, reg + 2, reg))
        e5 == Emits(Patch(e4, e3.pos, e4.pos),
                    <<AluImmediate("lsl", reg, reg, 1),
                      AluImmediate("lsr", reg + 1, reg + 1, 1)>>)
        e6 == Patch(Branch(e5, "jmp"), e5.pos, e1.pos)
    IN  IF reg + 3 >= 7 THEN Fail(e)
        ELSE Emit(Patch(e6, e2.pos, e6.pos), Move(reg, reg + 2))

\* Slip: the rounds are not counted.
CountDownNever(e, r, start) ==
    Patch(Branch(Emit(e, CompareZero(r)), "jne"), e.pos + Size(CompareZero(r), e.symphony), start)

\* Back to the start until r has been counted down.
CountDown(e, r, start) ==
    LET e1 == Emits(e, <<AluImmediate("sub", r, r, 1), CompareZero(r)>>)
    IN  Patch(Branch(e1, "jne"), e1.pos, start)

\* Shift and subtract, one round per bit; 0 for a zero divisor.
Divide(e, reg, remainder) ==
    LET quotient == reg + 2
        rest     == reg + 3
        e1 == Emit(e, CompareZero(reg + 1))
        e2 == Emits(Branch(e1, "je"),
                    <<Constant(quotient, 0), Constant(rest, 0),
                      Constant(reg + 4, WordBits)>>)
        e3 == Emits(e2, <<AluImmediate("lsl", quotient, quotient, 1),
                          AluImmediate("lsl", rest, rest, 1),
                          AluImmediate("lsr", reg + 5, reg, WordBits - 1),
                          Alu("or", rest, rest, reg + 5),
                          AluImmediate("lsl", reg, reg, 1),
                          Compare(rest, reg + 1)>>)
        e4 == Emits(Branch(e3, "jb"), <<Alu("sub", rest, rest, reg + 1),
                                        AluImmediate("or", quotient, quotient, 1)>>)
        e5 == CountDown(Patch(e4, e3.pos, e4.pos), reg + 4, e2.pos)
        e6 == Emit(e5, Move(reg, IF remainder THEN rest ELSE quotient))
        e7 == Branch(e6, "jmp")
        e8 == Emit(Patch(e7, e1.pos, e7.pos), Constant(reg, 0))
    IN  IF reg + 5 >= 7 THEN Fail(e) ELSE Patch(e8, e6.pos, e8.pos)

-----------------------------------------------------------------------------
(***************************************************************************)
(* Whether a call is anywhere below, so that the link register must be     *)
(* saved.  A member holds 1 or 0, for -> and ., where other nodes have     *)
(* their right subtree, and the node of that number is searched as well:   *)
(* the second node that was made, or the first, which is a leaf.  An arrow *)
(* met below the second node is searched for ever.                         *)
(***************************************************************************)
Leaves == {"nil", "number", "local", "global", "input", "break", "continue"}

RECURSIVE SearchCall(_, _, _)
SearchCall(first, n, inSecond) ==
    LET among(nodes) ==
            FoldLeft(LAMBDA found, m :
                        IF found = "no" THEN SearchCall(first, m, inSecond) ELSE found,
                     "no", nodes)
    IN  CASE n.kind \in Leaves -> "no"
          [] n.kind = "call"   -> "yes"
          [] n.kind \in {"conditional", "if"} -> among(<<n.cond, n.left, n.right>>)
          [] n.kind = "for"    -> among(<<n.cond, n.left, n.right, n.step>>)
          [] n.kind = "member" ->
                LET left == among(<<n.left>>)
                IN  CASE left # "no"        -> left
                      [] n.arrow /\ inSecond -> "never"
                      [] n.arrow            -> SearchCall(first, first[2], TRUE)
                      [] OTHER              -> among(<<first[1]>>)
          [] OTHER -> among(<<n.left, n.right>>)

LvalueSize(program, n) ==
    CASE n.kind = "local"  -> program.locals[n.value].size
      [] n.kind = "global" -> program.globals[n.value].size
      [] n.kind = "member" -> program.members[n.value].size
      [] n.kind \in {"dereference", "subscript"} -> n.value
      [] OTHER             -> 4

PointsTo(symbol) == IF symbol.pointer \/ symbol.array THEN symbol.element ELSE 0

\* The size of what a pointer expression points to; 0 for a number.
RECURSIVE PointerElement(_, _)
PointerElement(program, n) ==
    CASE n.kind = "local"  -> PointsTo(program.locals[n.value])
      [] n.kind = "global" -> PointsTo(program.globals[n.value])
      [] n.kind = "member" -> PointsTo(program.members[n.value])
      [] n.kind = "subscript" /\ n.dims # <<>> -> n.dims[1].stride
      [] n.kind = "address" -> LvalueSize(program, n.left)
      [] n.kind = "cast"    -> IF n.dims # <<>> THEN n.value ELSE 0
      [] n.kind = "add"     ->
            LET left == PointerElement(program, n.left)
            IN  IF left # 0 THEN left ELSE PointerElement(program, n.right)
      [] n.kind = "subtract" -> PointerElement(program, n.left)
      [] OTHER -> 0

-----------------------------------------------------------------------------
Unary == [negative |-> <<"sub", 0>>, not |-> <<"nand", 1>>]

\* Comparisons are unsigned.
Comparison ==
    [equal |-> "je", notequal |-> "jne", less |-> "jb", greater |-> "ja",
     lessequal |-> "jbe", greaterequal |-> "jae"]

\* r := r * scale, for the offset added to a pointer.
Scaled(e, r, scale) ==
    CASE scale = 1 -> e
      [] scale = 2 -> Emit(e, AluImmediate("lsl", r, r, 1))
      [] scale = 4 -> Emit(e, AluImmediate("lsl", r, r, 2))
      [] OTHER     -> Multiply(Emit(e, Constant(r + 1, scale)), r)

\* The difference of two addresses, in elements.
Unscaled(e, r, scale) ==
    CASE scale = 1 -> e
      [] scale = 2 -> Emit(e, AluImmediate("lsr", r, r, 1))
      [] scale = 4 -> Emit(e, AluImmediate("lsr", r, r, 2))
      [] OTHER     -> Divide(Emit(e, Constant(r + 1, scale)), r, FALSE)

RECURSIVE ArgumentList(_)
ArgumentList(n) ==
    IF n.kind = "nil" THEN <<>> ELSE <<n.left>> \o ArgumentList(n.right)

Lvalues == {"local", "global", "dereference", "subscript", "member"}

RECURSIVE Expression(_, _, _), LvalueAddress(_, _, _)

\* left in reg and right in reg + 1; the stack holds left meanwhile.
Operands(e, left, right, reg) ==
    Emits(Expression(Emits(Expression(e, left, reg), Push(reg)), right, reg + 1),
          Pop(reg))

\* The offset of an element is scaled next to the address it is added to.
SubscriptAddress(e, n, reg) ==
    LET e1 == Operands(e, n.left, n.right, reg)
        far == Emits(e1, Push(reg) \o <<Move(1, reg + 1), Constant(2, n.value)>>)
        e2 == IF n.value \in {1, 2, 4} \/ reg + 1 <= 3
              THEN Scaled(e1, reg + 1, n.value)
              ELSE Emits(Multiply(far, 1), <<Move(reg + 1, 1)>> \o Pop(reg))
    IN  Emit(e2, Alu("add", reg, reg, reg + 1))

\* Rows of a size that is only known at run time.
RowAddress(e, n, reg) ==
    LET e1 == Expression(Emits(Expression(e, n.left, reg), Push(reg)), n.right, reg + 1)
        e2 == Expression(Emits(e1, Push(reg + 1)), n.stride, reg)
    IN  Emits(Multiply(Emits(e2, Pop(reg + 1)), reg),
              Pop(reg + 1) \o <<Alu("add", reg, reg + 1, reg)>>)

MemberAddress(e, n, reg) ==
    LET e1 == IF n.arrow THEN Expression(e, n.left, reg) ELSE LvalueAddress(e, n.left, reg)
    IN  Emits(e1, Above(reg, reg, e.program.members[n.value].offset, reg + 1))

LvalueAddress(e, n, reg) ==
    CASE e.error \/ n = Nil \/ reg >= 6 -> Fail(e)
      [] n.kind = "local"            -> LocalAddress(e, n.value, reg)
      [] n.kind = "global"           -> GlobalAddress(e, n.value, reg)
      [] n.kind = "dereference"      -> Expression(e, n.left, reg)
      [] n.kind = "subscript" /\ n.value = 0 /\ n.stride # Nil -> RowAddress(e, n, reg)
      [] n.kind = "subscript"        -> SubscriptAddress(e, n, reg)
      [] n.kind = "member"           -> MemberAddress(e, n, reg)
      [] OTHER                       -> Fail(e)

\* What a name stands for: an array for its address, the rest for a value.
Variable(e, symbol, reg) ==
    Emit(e, IF symbol.array THEN Move(reg, 7) ELSE Load(symbol.size, reg, 7))

\* Slip: the divisor is computed in r2 while the dividend waits in r1.
DivisionUnsaved(e, n, reg) ==
    LET e1 == Expression(Expression(e, n.left, 1), n.right, 2)
        e2 == Divide(e1, 1, n.kind = "remainder")
    IN  IF reg = 1 THEN e2 ELSE Emit(e2, Move(reg, 1))

\* Division always works in r1 .. r6; operands to its left are on the stack.
Division(e, n, reg) ==
    LET e1 == Divide(Operands(e, n.left, n.right, 1), 1, n.kind = "remainder")
    IN  IF reg = 1 THEN e1 ELSE Emit(e1, Move(reg, 1))

\* Arguments eight and up stay pushed, the last first; the others are
\* computed in order, pushed, and popped into r1 .. r7.
CallExpression(e, n, reg) ==
    LET args    == ArgumentList(n.left)
        onStack == Reverse(SubSeq(args, 8, Len(args)))
        count   == IF Len(args) < 7 THEN Len(args) ELSE 7
        argument(f, a) == Emits(Expression(f, a, 1), Push(1))
        e1 == FoldLeft(argument, e, onStack \o SubSeq(args, 1, count))
        e2 == Call(FoldLeft(LAMBDA f, r : Emits(f, Pop(r)), e1,
                            Reverse([r \in 1 .. count |-> r])), n.value)
        e3 == IF onStack = <<>> THEN e2
              ELSE Emits(e2, Above(14, 14, 4 * Len(onStack), 7))
    IN  IF reg = 1 THEN e3 ELSE Emit(e3, Move(reg, 1))

\* The value first, then the address.
Assignment(e, n, reg) ==
    IF n.left.kind \notin Lvalues THEN Fail(e)
    ELSE LET e1 == Emits(Expression(e, n.right, reg), Push(reg))
             e2 == Emits(LvalueAddress(e1, n.left, reg + 1), Pop(reg))
         IN  Emit(e2, Store(LvalueSize(e.program, n.left), reg, reg + 1))

PostIncrement(e, n, reg) ==
    IF n.left.kind # "local" \/ reg + 1 >= 7 THEN Fail(e)
    ELSE LET symbol == e.program.locals[n.left.value]
             e1 == Emit(Expression(e, n.left, reg),
                        AluImmediate(IF n.value = 1 THEN "add" ELSE "sub", reg + 1, reg,
                                     IF symbol.pointer THEN symbol.element ELSE 1))
         IN  Emit(LocalAddress(e1, n.left.value, 7), Store(symbol.size, reg + 1, 7))

Conditional(e, n, reg) ==
    LET e1 == Emit(Expression(e, n.cond, reg), CompareZero(reg))
        e2 == Expression(Branch(e1, "je"), n.left, reg)
        e3 == Branch(e2, "jmp")
        e4 == Expression(Patch(e3, e1.pos, e3.pos), n.right, reg)
    IN  Patch(e4, e2.pos, e4.pos)

Logical(e, n, reg) ==
    LET e1 == Emit(Expression(e, n.left, reg), CompareZero(reg))
        e2 == Expression(Branch(e1, IF n.kind = "logicaland" THEN "je" ELSE "jne"),
                         n.right, reg)
        e3 == Boolean(Emit(e2, CompareZero(reg)), reg, "jne")
        e4 == Branch(e3, "jmp")
        e5 == Emit(Patch(e4, e1.pos, e4.pos),
                   Constant(reg, IF n.kind = "logicaland" THEN 0 ELSE 1))
    IN  Patch(e5, e3.pos, e5.pos)

\* + and - on numbers and pointers, the number scaled by what is pointed to.
Sum(e, n, reg) ==
    LET left  == PointerElement(e.program, n.left)
        right == PointerElement(e.program, n.right)
        e1 == CASE left = 0 /\ right = 0 -> e
                [] right = 0 -> Scaled(e, reg + 1, left)
                [] left = 0 /\ right \in {1, 2, 4} -> Scaled(e, reg, right)
                [] left = 0 -> Emits(Scaled(Emits(e, Push(reg + 1)), reg, right), Pop(reg + 1))
                [] OTHER -> e
        e2 == Emit(e1, Alu(Operation[n.kind], reg, reg, reg + 1))
    IN  CASE right # 0 /\ (left # 0) = (n.kind = "add") -> Fail(e)
          [] left # 0 /\ right # 0 -> Unscaled(e2, reg, left)
          [] OTHER -> e2

Input(e, reg) == Emit(e, Ins("in", "", reg, 0, 0))

Output(e, n, reg) ==
    Emits(Expression(e, n.left, reg), <<Ins("out", "", 0, 0, reg), Constant(reg, 0)>>)

Cast(e, n, reg) ==
    LET e1 == Expression(e, n.left, reg)
    IN  IF n.bool THEN Boolean(Emit(e1, CompareZero(reg)), reg, "jne") ELSE e1

\* A dereferenced pointer, an element or a member: its address, then itself.
Place(e, n, reg) ==
    LET e1 == LvalueAddress(e, n, reg)
        whole == IF n.kind = "member"
                 THEN LET m == e.program.members[n.value]
                      IN  m.array \/ (m.struct # 0 /\ ~m.pointer)
                 ELSE n.dims # <<>>
    IN  IF whole THEN e1 ELSE Emit(e1, Load(LvalueSize(e.program, n), reg, reg))

Expression(e, n, reg) ==
    IF e.error \/ n = Nil \/ reg >= 7 THEN Fail(e)
    ELSE
    CASE n.kind \in {"divide", "remainder"} -> Division(e, n, reg)
      [] n.kind = "number" -> Emit(e, Constant(reg, n.value))
      [] n.kind = "cast"   -> Cast(e, n, reg)
      [] n.kind = "local"  ->
            Variable(LocalAddress(e, n.value, 7), e.program.locals[n.value], reg)
      [] n.kind = "global" ->
            Variable(GlobalAddress(e, n.value, 7), e.program.globals[n.value], reg)
      [] n.kind \in {"member", "dereference", "subscript"} -> Place(e, n, reg)
      [] n.kind = "input"  -> Input(e, reg)
      [] n.kind = "output" -> Output(e, n, reg)
      [] n.kind = "call"   -> CallExpression(e, n, reg)
      [] n.kind = "assign" -> Assignment(e, n, reg)
      [] n.kind = "address" -> LvalueAddress(e, n.left, reg)
      [] n.kind = "postincrement" -> PostIncrement(e, n, reg)
      [] n.kind = "comma"  -> Expression(Expression(e, n.left, reg), n.right, reg)
      [] n.kind = "conditional" -> Conditional(e, n, reg)
      [] n.kind = "positive" -> Expression(e, n.left, reg)
      [] n.kind \in DOMAIN Unary ->
            Emit(Expression(e, n.left, reg),
                 Alu(Unary[n.kind][1], reg, reg * Unary[n.kind][2], reg))
      [] n.kind = "logicalnot" ->
            Boolean(Emit(Expression(e, n.left, reg), CompareZero(reg)), reg, "je")
      [] n.kind \in {"logicaland", "logicalor"} -> Logical(e, n, reg)
      [] n.kind \in {"add", "subtract"} -> Sum(Operands(e, n.left, n.right, reg), n, reg)
      [] n.kind = "multiply" -> Multiply(Operands(e, n.left, n.right, reg), reg)
      [] n.kind \in DOMAIN Operation ->
            Emit(Operands(e, n.left, n.right, reg),
                 Alu(Operation[n.kind], reg, reg, reg + 1))
      [] n.kind \in DOMAIN Comparison ->
            Boolean(Emit(Operands(e, n.left, n.right, reg), Compare(reg, reg + 1)),
                    reg, Comparison[n.kind])
      [] OTHER -> Fail(e)
-----------------------------------------------------------------------------
(***************************************************************************)
(* Statements.  breaks, continues and returns list the jumps that wait for *)
(* their target; a loop patches what was added since it began.             *)
(***************************************************************************)
Since(list, start) == SubSeq(list, Len(start) + 1, Len(list))

OpenLoop(e) == [e EXCEPT !.depth = @ + 1]

\* Breaks go to where the loop ends, here.
CloseLoop(e, outer) ==
    [PatchAll(e, Since(e.breaks, outer.breaks), e.pos) EXCEPT
        !.breaks = outer.breaks, !.continues = outer.continues, !.depth = @ - 1]

ContinueAt(e, outer, target) == PatchAll(e, Since(e.continues, outer.continues), target)

JumpBack(e, c, target) == Patch(Branch(e, c), e.pos, target)

Test(e, n) == Emit(Expression(e, n, 1), CompareZero(1))

RECURSIVE Statement(_, _)

IfStatement(e, n) ==
    LET e1 == Test(e, n.cond)
        e2 == Statement(Branch(e1, "je"), n.left)
        e3 == Branch(e2, "jmp")
        e4 == Statement(Patch(e3, e1.pos, e3.pos), n.right)
    IN  IF n.right = Nil THEN Patch(e2, e1.pos, e2.pos) ELSE Patch(e4, e2.pos, e4.pos)

WhileStatement(e, n) ==
    LET e1 == Test(OpenLoop(e), n.left)
        e2 == Statement(Branch(e1, "je"), n.right)
        e3 == JumpBack(ContinueAt(e2, e, e.pos), "jmp", e.pos)
    IN  CloseLoop(Patch(e3, e1.pos, e3.pos), e)

DoStatement(e, n) ==
    LET e1 == Statement(OpenLoop(e), n.left)
        e2 == Test(ContinueAt(e1, e, e1.pos), n.right)
    IN  CloseLoop(JumpBack(e2, "jne", e.pos), e)

ForStatement(e, n) ==
    LET e0 == IF n.cond = Nil THEN e ELSE Expression(e, n.cond, 1)
        e1 == Test(OpenLoop(e0), n.left)
        e2 == Statement(Branch(e1, "je"), n.right)
        e3 == ContinueAt(e2, e0, e2.pos)
        e4 == IF n.step = Nil THEN e3 ELSE Expression(e3, n.step, 1)
        e5 == JumpBack(e4, "jmp", e0.pos)
    IN  CloseLoop(Patch(e5, e1.pos, e5.pos), e0)

\* Leave room for the array, in whole words, and keep its address in a slot.
AllocateArray(e, n) ==
    Emits(Expression(e, n.left, 1),
          <<AluImmediate("add", 1, 1, 3), AluImmediate("lsr", 1, 1, 2),
            AluImmediate("lsl", 1, 1, 2), Alu("sub", 14, 14, 1)>>
          \o Below(2, 11, e.program.locals[n.value].offset)
          \o <<Store(4, 14, 2)>>)

Statement(e, n) ==
    CASE e.error \/ n = Nil -> e
      [] n.kind = "sequence" -> Statement(Statement(e, n.left), n.right)
      [] n.kind = "return" ->
            LET e1 == Expression(e, n.left, 1)
            IN  [Branch(e1, "jmp") EXCEPT !.returns = Append(@, e1.pos)]
      [] n.kind = "if"    -> IfStatement(e, n)
      [] n.kind = "while" -> WhileStatement(e, n)
      [] n.kind = "do"    -> DoStatement(e, n)
      [] n.kind = "for"   -> ForStatement(e, n)
      [] n.kind \in {"break", "continue"} /\ e.depth = 0 -> Fail(e)
      [] n.kind = "break" -> [Branch(e, "jmp") EXCEPT !.breaks = Append(@, e.pos)]
      [] n.kind = "continue" -> [Branch(e, "jmp") EXCEPT !.continues = Append(@, e.pos)]
      [] n.kind = "allocate" -> AllocateArray(e, n)
      [] n.kind = "expression" -> Expression(e, n.left, 1)
      [] n.kind = "assign" -> Expression(e, n, 1)
      [] OTHER -> Fail(e)

-----------------------------------------------------------------------------
(***************************************************************************)
(* dyn_emit_image: start-up code, the functions, the file-scope objects,   *)
(* then every address that was not known.                                  *)
(***************************************************************************)
Emitter(program, load, symphony) ==
    [program |-> program, load |-> load, symphony |-> symphony,
     code |-> <<>>, pos |-> 0, returns |-> <<>>, breaks |-> <<>>, continues |-> <<>>,
     depth |-> 0, base |-> 0, functionOffsets |-> [f \in DOMAIN program.functions |-> 0],
     callFixups |-> <<>>, globalOffsets |-> [g \in DOMAIN program.globals |-> 0],
     globalFixups |-> <<>>, data |-> <<>>, error |-> FALSE]

\* A program that only returns a constant: it is loaded, and the program
\* jumps to itself.
EmitConstant(e, value) ==
    LET e1 == Emit(e, Constant(1, value))
        here == e.load + e1.pos
    IN  IF here < Half THEN Emit(e1, Ins("jumpi", "jmp", 0, 0, here))
        ELSE Emits(e1, <<Constant(7, here + 12), Jump("jmp", 7)>>)

Startup(e) ==
    LET e1 == Call(Emit(e, AluImmediate("or", 14, 0, 0)), e.program.main)
    IN  Emits(e1, <<Constant(7, e.load + e1.pos + 12), Jump("jmp", 7)>>)

\* Where a parameter arrives: its own register, the stacked r7, or the stack.
Incoming(i, savesLink) ==
    CASE i < 7 -> <<>>
      [] i = 7 -> Pop(15) \o <<Move(1, 15)>>
      [] OTHER -> Above(7, 11, 4 * (i - 7 + (IF savesLink THEN 1 ELSE 0)), 7)
                    \o <<Load(4, 1, 7)>>

StoreParameter(e, i, savesLink) ==
    LET symbol == e.program.locals[e.base + i]
        source == IF i < 7 THEN i ELSE 1
        e1 == Emits(e, Incoming(i, savesLink))
        e2 == IF symbol.boolean /\ ~symbol.pointer
              THEN Boolean(Emit(e1, CompareZero(source)), source, "jne") ELSE e1
    IN  Emit(LocalAddress(e2, e.base + i, 7), Store(symbol.size, source, 7))

EmitFunction(e, f) ==
    LET function  == e.program.functions[f]
        search    == SearchCall(e.program.first, function.body, FALSE)
        savesLink == search = "yes"
        link(is)  == IF savesLink THEN is ELSE <<>>
        e1 == Emits([e EXCEPT !.functionOffsets[f] = e.pos, !.base = function.base,
                              !.returns = <<>>],
                    link(Push(13)) \o Push(11) \o <<Move(11, 14)>>
                    \o (IF function.frame < Half
                        THEN <<AluImmediate("sub", 14, 14, function.frame)>>
                        ELSE <<Constant(7, function.frame), Alu("sub", 14, 14, 7)>>)
                    \o (IF function.parameters >= 7 THEN Push(7) ELSE <<>>))
        e2 == FoldLeft(LAMBDA g, i : StoreParameter(g, i, savesLink), e1,
                       [i \in 1 .. function.parameters |-> i])
        e3 == Emit(Statement(e2, function.body), Constant(1, 0))
    IN  CASE ~function.defined  -> e
          [] search = "never"   -> Fail(e)
          [] OTHER -> Emits(PatchAll(e3, e3.returns, e3.pos),
                            <<Move(14, 11)>> \o Pop(11) \o link(Pop(13)) \o <<Jump("jmp", 13)>>)

ResolveCalls(e) ==
    FoldLeft(LAMBDA f, fixup : Patch(f, fixup.at, f.functionOffsets[fixup.of]),
             e, e.callFixups)

\* The bytes of an object: an initial word, listed data, or zeros.
InitialBytes(global) ==
    LET n == IF global.array THEN global.element * global.count ELSE global.size
        place(i) == Byte ^ (global.size - i)
    IN  [i \in 1 .. n |->
            CASE global.data # <<>> -> global.data[i]
              [] global.array \/ (global.struct # 0 /\ ~global.pointer) -> 0
              [] OTHER -> (global.initial \div place(i)) % Byte]

\* Structures have an alignment, others are aligned to their size, to 4 at most.
Alignment(program, global) ==
    LET own == IF global.struct # 0 /\ ~global.pointer
               THEN program.structs[global.struct].alignment ELSE global.size
    IN  IF own < 4 THEN own ELSE 4

PlaceGlobal(e, g) ==
    LET global == e.program.globals[g]
        at     == e.pos + ((-e.pos) % Alignment(e.program, global))
        bytes  == InitialBytes(global)
    IN  IF ~global.defined THEN e
        ELSE [e EXCEPT !.globalOffsets[g] = at, !.pos = at + Len(bytes),
                       !.data = [a \in at .. at + Len(bytes) - 1 |-> bytes[a - at + 1]] @@ @]

\* A pointer initialized with the address of an object.
PointGlobal(e, g) ==
    LET global  == e.program.globals[g]
        n       == IF global.init.kind = "address" THEN global.init.left ELSE global.init
        target  == CASE n.kind = "global" -> n.value
                     [] n.kind = "local"  -> e.program.locals[n.value].static
                     [] OTHER             -> 0
        address == e.load + e.globalOffsets[target]
        at      == e.globalOffsets[g]
    IN  CASE ~global.defined \/ ~global.pointer \/ global.init = Nil -> e
          [] global.init.kind = "number" /\ global.init.value = 0 -> e
          [] target = 0 -> Fail(e)
          [] OTHER -> [e EXCEPT !.data =
                [i \in at .. at + 3 |-> (address \div Byte ^ (at + 3 - i)) % Byte] @@ @]

ResolveGlobals(e) ==
    FoldLeft(LAMBDA f, fixup : Patch(f, fixup.at, f.globalOffsets[fixup.of]),
             e, e.globalFixups)
=============================================================================
