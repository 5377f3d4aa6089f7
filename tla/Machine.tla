------------------------------ MODULE Machine ------------------------------
(* The reference emulator, symphony/emulator/machine.py: Machine.step decodes  *)
(* the bytes at the program counter and performs the instruction, Machine.run  *)
(* repeats it until the halt address, a jump to itself or the step limit.      *)
(*                                                                             *)
(* A register file of NREG registers stands for the sixteen of the source; the *)
(* widths follow from it the way they do there: two register numbers to a byte *)
(* (16 * 16), two bytes to an immediate, four to a word.  The opcode map is a   *)
(* constant: Op[b] says which arm of step the opcode byte b selects.  The arms *)
(* of keyboard, screen and time have the shape of "in", "out" and "getpc" and  *)
(* are not repeated; of the ALU, add, sub and cmp stand for the eleven codes.  *)
EXTENDS Integers, Sequences, FiniteSets

CONSTANTS NREG, RamSize, Op, Symphony, HaltAddress, MaxSteps,
          Images, LoadAddresses, InputLists, PersistentSizes

BYTE == NREG * NREG
HALF == BYTE * BYTE
WORD == HALF * HALF

Reg     == 0 .. NREG - 1
Byte    == 0 .. BYTE - 1
Word    == 0 .. WORD - 1
Address == 0 .. RamSize - 1

NoHalt == -1

OpArms == [arm : {"nop", "in", "out", "getpc", "alu", "branch", "load", "store", "invalid"},
           imm : BOOLEAN,       \* bit 4 of the opcode
           code : 0 .. 15]      \* its low bits

ASSUME MachineAssumption ==
    /\ NREG \in Nat /\ NREG >= 2
    /\ RamSize \in Nat /\ RamSize >= 4
    /\ WORD % RamSize = 0
    /\ Op \in [Byte -> OpArms]
    /\ Symphony \in BOOLEAN
    /\ HaltAddress \in Word \cup {NoHalt}
    /\ MaxSteps \in Nat
    /\ Images \subseteq [Address -> Byte]
    /\ LoadAddresses \subseteq Word
    /\ InputLists \subseteq Seq(Word)
    /\ PersistentSizes \subseteq Nat

VARIABLES
    memory,      \* RAM, one byte per address
    regs,        \* the register file; regs[0] is zr
    pc,
    steps,       \* instructions executed
    inputs,      \* what the input device still delivers
    outputs,     \* what the output device received
    persistent,  \* persistent memory, of size 0 when there is none
    result       \* "running", or how run() ended

vars == <<memory, regs, pc, steps, inputs, outputs, persistent, result>>

Init ==
    /\ memory \in Images
    /\ regs = [r \in Reg |-> 0]
    /\ pc \in LoadAddresses
    /\ steps = 0
    /\ inputs \in InputLists
    /\ outputs = <<>>
    /\ persistent \in {[a \in 0 .. n - 1 |-> 0] : n \in PersistentSizes}
    /\ result = "running"

(* Big-endian access of n = 1, 2 or 4 bytes, every byte address masked alone.  *)
Read(m, size, a, n) ==
    LET byte(i) == m[(a + i) % size]
    IN  CASE n = 1 -> byte(0)
          [] n = 2 -> byte(0) * BYTE + byte(1)
          [] OTHER -> (byte(0) * BYTE + byte(1)) * HALF + byte(2) * BYTE + byte(3)

Place == <<1, BYTE, HALF, HALF * BYTE>>

Written(m, size, a, v, n) ==
    [x \in DOMAIN m |->
        LET i == (x - a) % size
        IN  IF i < n THEN (v \div Place[n - i]) % BYTE ELSE m[x]]

Signed(v) == IF v >= WORD \div 2 THEN v - WORD ELSE v

Flags(a, b) ==
    (IF a = b THEN 1 ELSE 0) + (IF a < b THEN 2 ELSE 0)
        + (IF Signed(a) < Signed(b) THEN 4 ELSE 0)

Alu(code, a, b) ==
    CASE code = 4  -> (a + b) % WORD
      [] code = 5  -> (a - b) % WORD
      [] OTHER     -> Flags(a, b)

HasBit(v, i) == (v \div <<1, 2, 4, 8>>[i + 1]) % 2 = 1

(* The condition masked with the flags, reduced with OR, inverted by bit 3. *)
Taken(code, source) ==
    (\E i \in 0 .. 2 : HasBit(code, i) /\ HasBit(source, i)) # HasBit(code, 3)

SizeOf(code) == <<1, 2, 4>>[(code % 4) + 1]

-----------------------------------------------------------------------------
At(i)      == memory[(pc + i) % RamSize]
Opcode     == Op[At(0)]
High(b)    == b \div NREG
Low(b)     == b % NREG
Immediate  == Read(memory, RamSize, pc + 2, 2)
Operand    == IF Opcode.imm THEN Immediate ELSE regs[Low(At(2))]

(* Registers.__setitem__: writes to zr are dropped. *)
Assign(r, v) == regs' = IF r = 0 THEN regs ELSE [regs EXCEPT ![r] = v]

(* The end of step, and of _step_symphony around it: there a program counter   *)
(* one to four bytes on counts as having fallen through; then the test in run. *)
Advance(to) ==
    /\ pc' = IF Symphony /\ (to - pc) % WORD \in 1 .. 4
             THEN (pc + 4) % WORD ELSE to % WORD
    /\ steps' = steps + 1
    /\ result' = IF pc' = pc THEN "stopped" ELSE "running"

(* while self.steps < max_steps, and not at the halt address *)
Runs ==
    /\ result = "running"
    /\ steps < MaxSteps
    /\ pc # HaltAddress

Nop ==
    /\ Runs /\ Opcode.arm = "nop"
    /\ Advance(pc + 1)
    /\ UNCHANGED <<memory, regs, inputs, outputs, persistent>>

In ==
    /\ Runs /\ Opcode.arm = "in"
    /\ Assign(High(At(1)), IF inputs = <<>> THEN 0 ELSE Head(inputs))
    /\ inputs' = IF inputs = <<>> THEN inputs ELSE Tail(inputs)
    /\ Advance(pc + 2)
    /\ UNCHANGED <<memory, outputs, persistent>>

Out ==
    /\ Runs /\ Opcode.arm = "out"
    /\ outputs' = Append(outputs, Operand)
    /\ Advance(pc + (IF Opcode.imm THEN 4 ELSE 3))
    /\ UNCHANGED <<memory, regs, inputs, persistent>>

GetPc ==
    /\ Runs /\ Opcode.arm = "getpc"
    /\ Assign(High(At(1)), pc)
    /\ Advance(pc + 2)
    /\ UNCHANGED <<memory, inputs, outputs, persistent>>

Arithmetic ==
    /\ Runs /\ Opcode.arm = "alu"
    /\ Assign(High(At(1)), Alu(Opcode.code, regs[Low(At(1))], Operand))
    /\ Advance(pc + (IF Opcode.imm THEN 4 ELSE 3))
    /\ UNCHANGED <<memory, inputs, outputs, persistent>>

Branch ==
    /\ Runs /\ Opcode.arm = "branch"
    /\ Advance(IF Taken(Opcode.code, regs[Low(At(1))]) THEN Operand
               ELSE pc + (IF Opcode.imm THEN 4 ELSE 3))
    /\ UNCHANGED <<memory, regs, inputs, outputs, persistent>>

NeedsPersistent == Opcode.arm \in {"load", "store"} /\ Opcode.code % 4 = 3

PersistentSize == Cardinality(DOMAIN persistent)

Load ==
    /\ Runs /\ Opcode.arm = "load" /\ ~NeedsPersistent
    /\ Assign(High(At(1)), Read(memory, RamSize, Operand, SizeOf(Opcode.code)))
    /\ Advance(pc + (IF Opcode.imm THEN 4 ELSE 3))
    /\ UNCHANGED <<memory, inputs, outputs, persistent>>

Store ==
    /\ Runs /\ Opcode.arm = "store" /\ ~NeedsPersistent
    /\ memory' = Written(memory, RamSize, Operand, regs[Low(At(1))], SizeOf(Opcode.code))
    /\ Advance(pc + (IF Opcode.imm THEN 4 ELSE 3))
    /\ UNCHANGED <<regs, inputs, outputs, persistent>>

PersistentLoad ==
    /\ Runs /\ Opcode.arm = "load" /\ NeedsPersistent /\ PersistentSize > 0
    /\ Assign(High(At(1)), Read(persistent, PersistentSize, Operand, 4))
    /\ Advance(pc + (IF Opcode.imm THEN 4 ELSE 3))
    /\ UNCHANGED <<memory, inputs, outputs, persistent>>

PersistentStore ==
    /\ Runs /\ Opcode.arm = "store" /\ NeedsPersistent /\ PersistentSize > 0
    /\ persistent' = Written(persistent, PersistentSize, Operand, regs[Low(At(1))], 4)
    /\ Advance(pc + (IF Opcode.imm THEN 4 ELSE 3))
    /\ UNCHANGED <<memory, regs, inputs, outputs>>

(* An unknown opcode, or persistent memory that is not configured: raised      *)
(* before anything is assigned.                                                *)
Unsupported ==
    /\ Runs
    /\ Opcode.arm = "invalid" \/ (NeedsPersistent /\ PersistentSize = 0)
    /\ result' = "error"
    /\ UNCHANGED <<memory, regs, pc, steps, inputs, outputs, persistent>>

Halt ==
    /\ result = "running" /\ steps < MaxSteps /\ pc = HaltAddress
    /\ result' = "stopped"
    /\ UNCHANGED <<memory, regs, pc, steps, inputs, outputs, persistent>>

Exceeded ==
    /\ result = "running" /\ steps >= MaxSteps
    /\ result' = "exceeded"
    /\ UNCHANGED <<memory, regs, pc, steps, inputs, outputs, persistent>>

Next ==
    \/ Nop \/ In \/ Out \/ GetPc \/ Arithmetic \/ Branch \/ Load \/ Store
    \/ PersistentLoad \/ PersistentStore \/ Unsupported \/ Halt \/ Exceeded

Spec == Init /\ [][Next]_vars

(* run returns or raises within max_steps.                                     *)
Ends == <>(result # "running")
=============================================================================
