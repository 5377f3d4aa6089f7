-------------------------- MODULE NativeEmulator --------------------------
(* The native engine: native_emulator.c interprets a chunk of instructions on  *)
(* its own copy of the machine's registers and counters, through a cache of    *)
(* decoded instructions, and native.py calls it chunk after chunk, with the    *)
(* progress callback in between.  Memory, persistent memory, the device queues *)
(* and the constants are those of the machine object: this module extends      *)
(* Machine for them and for the arithmetic both engines spell out.             *)
EXTENDS Machine

CONSTANT Interval       \* the progress interval; 0 without a callback

ASSUME NativeAssumption == Interval \in Nat

VARIABLES
    phase,        \* "between" chunks, in the "chunk", "done" before sync_state
    status,       \* how the chunk ended: "limit", "halt", "stopped", "error"
    sregs,        \* State.regs, with the sink for writes to zr in slot NREG
    spc, ssteps,  \* State.pc and State.steps
    limit,        \* step_limit
    previous,     \* the instruction being executed
    cache         \* State.decode, by pc & mask

nativeVars == <<phase, status, sregs, spc, ssteps, limit, previous, cache>>
allVars    == <<vars, nativeVars>>

Sink == NREG

Dst(r) == IF r = 0 THEN Sink ELSE r

Entry == [valid : BOOLEAN, tag : Word, uop : OpArms, a : 0 .. NREG, b : Reg, c : Reg,
          imm : Word, next : Word]

Blank == [valid |-> FALSE, tag |-> 0, uop |-> [arm |-> "invalid", imm |-> FALSE, code |-> 0],
          a |-> 0, b |-> 0, c |-> 0, imm |-> 0, next |-> 0]

NextPc(at, size) == (at + (IF Symphony THEN 4 ELSE size)) % WORD

SizeIn(o) ==
    CASE o.arm = "nop"             -> 1
      [] o.arm \in {"in", "getpc"} -> 2
      [] OTHER                     -> IF o.imm THEN 4 ELSE 3

Operands == {"out", "alu", "branch", "load", "store"}

(* decode_instruction: everything execution needs, taken from the bytes of m   *)
(* at the program counter.  The operand register is always called c here.      *)
Decode(m, at) ==
    LET byte(i) == m[(at + i) % RamSize]
        o       == Op[byte(0)]
    IN  [valid |-> TRUE, tag |-> at, uop |-> o,
         a     |-> CASE o.arm \in {"in", "getpc", "alu", "load"} -> Dst(High(byte(1)))
                     [] o.arm \in {"branch", "store"}            -> Low(byte(1))
                     [] OTHER                                    -> 0,
         b     |-> IF o.arm = "alu" THEN Low(byte(1)) ELSE 0,
         c     |-> IF o.arm \in Operands /\ ~o.imm THEN Low(byte(2)) ELSE 0,
         imm   |-> IF o.arm \in Operands /\ o.imm THEN byte(2) * BYTE + byte(3) ELSE 0,
         next  |-> IF o.arm = "invalid" THEN 0 ELSE NextPc(at, SizeIn(o))]

(* Slip: any valid entry in the slot is taken for this program counter's. *)
FetchedBySlot(c, m, at) ==
    IF c[at % RamSize].valid THEN c ELSE [c EXCEPT ![at % RamSize] = Decode(m, at)]

(* decoded_at: the slot of pc is decoded again unless it holds this very pc.   *)
Fetched(c, m, at) ==
    LET slot == at % RamSize
    IN  IF c[slot].valid /\ c[slot].tag = at THEN c
        ELSE [c EXCEPT ![slot] = Decode(m, at)]

(* Slip: an instruction's last byte is not among those a store may change. *)
OverlappingThree(a, n) == {(a + delta) % RamSize : delta \in -2 .. n - 1}

(* invalidate_decode: every slot an instruction over the written bytes can     *)
(* start in; only the valid flag is cleared.                                   *)
Overlapping(a, n) == {(a + delta) % RamSize : delta \in -3 .. n - 1}

Invalidated(c, a, n) ==
    [x \in Address |-> IF x \in Overlapping(a, n) THEN [c[x] EXCEPT !.valid = FALSE] ELSE c[x]]

-----------------------------------------------------------------------------
NativeInit ==
    /\ Init
    /\ phase = "between" /\ status = "limit"
    /\ sregs = [r \in 0 .. NREG |-> 0]
    /\ spc = 0 /\ ssteps = 0 /\ limit = 0 /\ previous = 0
    /\ cache = [x \in Address |-> Blank]

Lesser(a, b) == IF a < b THEN a ELSE b

(* One turn of native.run: load_state copies the machine and starts with an    *)
(* empty cache, and the first instruction is decoded unless it is the halt.    *)
Begin ==
    /\ phase = "between" /\ result = "running" /\ steps < MaxSteps
    /\ limit' = IF Interval = 0 THEN MaxSteps ELSE Lesser(MaxSteps, steps + Interval)
    /\ sregs' = [r \in 0 .. NREG |-> IF r = Sink THEN 0 ELSE regs[r]]
    /\ spc' = pc /\ ssteps' = steps
    /\ LET empty == [x \in Address |-> Blank]
       IN  IF pc = HaltAddress
           THEN phase' = "done" /\ status' = "halt" /\ cache' = empty /\ UNCHANGED previous
           ELSE phase' = "chunk" /\ cache' = Fetched(empty, memory, pc)
                /\ previous' = pc /\ UNCHANGED status
    /\ UNCHANGED vars

Give_up ==
    /\ phase = "between" /\ result = "running" /\ steps >= MaxSteps
    /\ result' = "exceeded"
    /\ UNCHANGED <<memory, regs, pc, steps, inputs, outputs, persistent, nativeVars>>

(* FINISH_INSN: the tests in the order of the macro; then the next instruction *)
(* is looked up in the cache c, decoded from the memory m as it is now.        *)
Finish(to, c, m) ==
    /\ spc' = to
    /\ ssteps' = ssteps + 1
    /\ LET ends == IF to = previous            THEN "stopped"
                   ELSE IF ssteps + 1 >= limit THEN "limit"
                   ELSE IF to = HaltAddress    THEN "halt" ELSE "no"
       IN  IF ends = "no"
           THEN /\ previous' = to /\ cache' = Fetched(c, m, to)
                /\ UNCHANGED <<phase, status>>
           ELSE /\ phase' = "done" /\ status' = ends /\ cache' = c
                /\ UNCHANGED previous
    /\ UNCHANGED <<limit, regs, pc, steps, result>>

(* The dispatched instruction is the one in the slot of previous.              *)
D       == cache[previous % RamSize]
Arm(a)  == phase = "chunk" /\ D.uop.arm = a
Source  == IF D.uop.imm THEN D.imm ELSE sregs[D.c]
Put(v)  == sregs' = [sregs EXCEPT ![D.a] = v]
Guarded == D.uop.arm \in {"load", "store"} /\ D.uop.code % 4 = 3

L_NOP ==
    /\ Arm("nop")
    /\ Finish(D.next, cache, memory)
    /\ UNCHANGED <<sregs, memory, inputs, outputs, persistent>>

L_IN ==
    /\ Arm("in")
    /\ Put(IF inputs = <<>> THEN 0 ELSE Head(inputs))
    /\ inputs' = IF inputs = <<>> THEN inputs ELSE Tail(inputs)
    /\ Finish(D.next, cache, memory)
    /\ UNCHANGED <<memory, outputs, persistent>>

L_OUT ==
    /\ Arm("out")
    /\ outputs' = Append(outputs, Source)
    /\ Finish(D.next, cache, memory)
    /\ UNCHANGED <<sregs, memory, inputs, persistent>>

L_GETPC ==
    /\ Arm("getpc")
    /\ Put(previous)
    /\ Finish(D.next, cache, memory)
    /\ UNCHANGED <<memory, inputs, outputs, persistent>>

L_ALU ==
    /\ Arm("alu")
    /\ Put(Alu(D.uop.code, sregs[D.b], Source))
    /\ Finish(D.next, cache, memory)
    /\ UNCHANGED <<memory, inputs, outputs, persistent>>

L_BRANCH ==
    /\ Arm("branch")
    /\ Finish(IF Taken(D.uop.code, sregs[D.a]) THEN Source ELSE D.next, cache, memory)
    /\ UNCHANGED <<sregs, memory, inputs, outputs, persistent>>

L_LOAD ==
    /\ Arm("load") /\ ~Guarded
    /\ Put(Read(memory, RamSize, Source, SizeOf(D.uop.code)))
    /\ Finish(D.next, cache, memory)
    /\ UNCHANGED <<memory, inputs, outputs, persistent>>

(* Slip: the slots are not invalidated before the next instruction is looked up. *)
StoreInvalidatesLate ==
    /\ Arm("store") /\ ~Guarded
    /\ memory' = Written(memory, RamSize, Source, sregs[D.a], SizeOf(D.uop.code))
    /\ Finish(D.next, cache, memory')
    /\ UNCHANGED <<sregs, inputs, outputs, persistent>>

(* The bytes are written, the slots they may belong to invalidated, and only   *)
(* then is the next instruction looked up.                                     *)
L_STORE ==
    /\ Arm("store") /\ ~Guarded
    /\ memory' = Written(memory, RamSize, Source, sregs[D.a], SizeOf(D.uop.code))
    /\ Finish(D.next, Invalidated(cache, Source, SizeOf(D.uop.code)), memory')
    /\ UNCHANGED <<sregs, inputs, outputs, persistent>>

L_PLOAD ==
    /\ Arm("load") /\ Guarded /\ PersistentSize > 0
    /\ Put(Read(persistent, PersistentSize, Source, 4))
    /\ Finish(D.next, cache, memory)
    /\ UNCHANGED <<memory, inputs, outputs, persistent>>

L_PSTORE ==
    /\ Arm("store") /\ Guarded /\ PersistentSize > 0
    /\ persistent' = Written(persistent, PersistentSize, Source, sregs[D.a], 4)
    /\ Finish(D.next, cache, memory)
    /\ UNCHANGED <<sregs, memory, inputs, outputs>>

L_INVALID ==
    /\ Arm("invalid") \/ (phase = "chunk" /\ Guarded /\ PersistentSize = 0)
    /\ phase' = "done" /\ status' = "error"
    /\ UNCHANGED <<vars, sregs, spc, ssteps, limit, previous, cache>>

(* sync_state writes registers and counters back, errors included; then        *)
(* native.run returns, raises, or reports progress and goes on.                *)
Sync ==
    /\ phase = "done"
    /\ regs' = [r \in Reg |-> sregs[r]] /\ pc' = spc /\ steps' = ssteps
    /\ phase' = "between"
    /\ result' = CASE status \in {"halt", "stopped"} -> "stopped"
                   [] status = "error"               -> "error"
                   [] OTHER                          -> "running"
    /\ UNCHANGED <<memory, inputs, outputs, persistent, status, sregs, spc, ssteps,
                   limit, previous, cache>>

NativeNext ==
    \/ Begin \/ Give_up \/ Sync
    \/ L_NOP \/ L_IN \/ L_OUT \/ L_GETPC \/ L_ALU \/ L_BRANCH \/ L_LOAD \/ L_STORE
    \/ L_PLOAD \/ L_PSTORE \/ L_INVALID

(* The engine is a loop on one thread: it goes on while it can.                *)
NativeSpec == NativeInit /\ [][NativeNext]_allVars /\ WF_allVars(NativeNext)

-----------------------------------------------------------------------------
(* Types.                                                                      *)
TypeOK ==
    /\ memory \in [Address -> Byte]
    /\ regs \in [Reg -> Word] /\ regs[0] = 0
    /\ pc \in Word /\ steps \in 0 .. MaxSteps
    /\ result \in {"running", "stopped", "error", "exceeded"}
    /\ phase \in {"between", "chunk", "done"}
    /\ status \in {"limit", "halt", "stopped", "error"}
    /\ sregs \in [0 .. NREG -> Word] /\ sregs[0] = 0
    /\ spc \in Word /\ previous \in Word
    /\ ssteps \in 0 .. MaxSteps /\ limit \in 0 .. MaxSteps
    /\ cache \in [Address -> Entry]
    /\ inputs \in Seq(Word)
    /\ \E n \in PersistentSizes : persistent \in [0 .. n - 1 -> Byte]

(* A valid entry of the decode cache is what decoding its address would give   *)
(* now, whatever the program has stored over its own instructions, and sits in *)
(* the slot of that address.                                                   *)
Coherent(c, m) ==
    \A x \in Address : c[x].valid => c[x].tag % RamSize = x /\ c[x] = Decode(m, c[x].tag)

CacheCoherent == phase # "between" => Coherent(cache, memory)

(* The instruction about to be executed is the one memory holds at the program *)
(* counter at this moment.                                                     *)
DispatchesMemory ==
    phase = "chunk" => previous = spc /\ D = Decode(memory, spc)

(* The program counter each engine would continue at is the same: what native  *)
(* execution of the current instruction jumps or falls to is what step and     *)
(* _step_symphony make of the same bytes and registers.                        *)
NativeGoesTo ==
    IF D.uop.arm = "branch" /\ Taken(D.uop.code, sregs[D.a]) THEN Source ELSE D.next

ReferenceGoesTo ==
    LET op   == Op[memory[spc % RamSize]]
        byte(i) == memory[(spc + i) % RamSize]
        target == IF op.imm THEN byte(2) * BYTE + byte(3) ELSE sregs[Low(byte(2))]
        to   == IF op.arm = "branch" /\ Taken(op.code, sregs[Low(byte(1))]) THEN target
                ELSE spc + SizeIn(op)
    IN  IF Symphony /\ (to - spc) % WORD \in 1 .. 4 THEN (spc + 4) % WORD ELSE to % WORD

SamePath == phase = "chunk" /\ D.uop.arm # "invalid" => NativeGoesTo = ReferenceGoesTo

(* What the native engine does, seen through its own registers while a chunk   *)
(* runs and through the machine object between chunks, is a run of the         *)
(* reference emulator, to its end: chunks add up to max_steps.                 *)
InChunk == phase # "between"
Reference == INSTANCE Machine WITH
    regs   <- IF InChunk THEN [r \in Reg |-> sregs[r]] ELSE regs,
    pc     <- IF InChunk THEN spc ELSE pc,
    steps  <- IF InChunk THEN ssteps ELSE steps,
    result <- IF phase = "done" /\ status \in {"stopped", "error"} THEN status ELSE result

MatchesReference == Reference!Spec /\ Reference!Ends
=============================================================================
