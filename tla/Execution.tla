------------------------------ MODULE Execution ------------------------------
(***************************************************************************)
(* What the machine does with the instructions of an image                 *)
(* (symphony/emulator/machine.py).  Instructions stay records at their     *)
(* addresses, apart from the bytes of the objects; Machine has the         *)
(* decoding.  The address space is one word's, and all of it is memory.    *)
(***************************************************************************)
EXTENDS CodeGenerator

\* The image once every address in it is known.
Booted(e, inputs) ==
    [pc |-> e.load, regs |-> [r \in 0 .. 15 |-> 0], inputs |-> inputs, outputs |-> <<>>,
     memory |-> [a \in {e.load + i : i \in DOMAIN e.data} |-> e.data[a - e.load]]]

Assigned(m, r, v) == IF r = 0 THEN m ELSE [m EXCEPT !.regs[r] = v]

ByteAt(memory, a) == IF a \in DOMAIN memory THEN memory[a] ELSE 0

\* Big-endian; addresses wrap.
ReadBytes(memory, a, size) ==
    LET value[i \in 0 .. size] ==
            IF i = 0 THEN 0 ELSE value[i - 1] * Byte + ByteAt(memory, (a + i - 1) % Word)
    IN  value[size]

WriteBytes(memory, a, size, v) ==
    [x \in {(a + i) % Word : i \in 0 .. size - 1} |->
        (v \div Byte ^ (size - 1 - ((x - a) % Word))) % Byte] @@ memory

\* Equal, below, and less as signed numbers.
SignedValue(v) == IF v >= Word \div 2 THEN v - Word ELSE v

FlagWord(a, b) ==
    Truth(a = b) + 2 * Truth(a < b) + 4 * Truth(SignedValue(a) < SignedValue(b))

\* Whether a jump on this condition is taken.
Taken(condition, flags) ==
    LET equal == flags % 2 = 1
        below == (flags \div 2) % 2 = 1
    IN  CASE condition = "jmp" -> TRUE
          [] condition = "je"  -> equal
          [] condition = "jne" -> ~equal
          [] condition = "jb"  -> below
          [] condition = "jae" -> ~below
          [] condition = "jbe" -> below \/ equal
          [] condition = "ja"  -> ~(below \/ equal)

Computed(c, a, b) == IF c = "cmp" THEN FlagWord(a, b) ELSE Arithmetic(c, a, b)

\* One instruction, the counter being moved past it first.
Execute(m, i, size) ==
    LET n     == [m EXCEPT !.pc = (@ + size) % Word]
        reg   == m.regs
    IN  CASE i.op = "alu"   -> Assigned(n, i.d, Computed(i.c, reg[i.a], reg[i.b]))
          [] i.op = "alui"  -> Assigned(n, i.d, Computed(i.c, reg[i.a], i.b))
          [] i.op = "const" -> Assigned(n, i.d, i.b)
          [] i.op = "load"  -> Assigned(n, i.d, ReadBytes(m.memory, reg[i.a], i.c))
          [] i.op = "store" -> [n EXCEPT !.memory = WriteBytes(@, reg[i.a], i.c, reg[i.d])]
          [] i.op = "in"    -> [Assigned(n, i.d, IF m.inputs = <<>> THEN 0 ELSE Head(m.inputs))
                                  EXCEPT !.inputs = IF @ = <<>> THEN @ ELSE Tail(@)]
          [] i.op = "out"   -> [n EXCEPT !.outputs = Append(@, reg[i.b])]
          [] i.op = "counter" -> Assigned(n, i.d, m.pc)
          [] i.op = "jump"  -> IF Taken(i.c, reg[15]) THEN [n EXCEPT !.pc = reg[i.a]] ELSE n
          [] i.op = "jumpi" -> [n EXCEPT !.pc = i.b]
=============================================================================
