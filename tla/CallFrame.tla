------------------------------ MODULE CallFrame ------------------------------
(***************************************************************************)
(* A whole call: the caller's sequence (CallSequence), then the code that  *)
(* Backend.function emits around the callee's body, then the caller again  *)
(* (symphony/targets/symphony/backend.py).  The prologue saves the link,   *)
(* the preserved registers it will use and the frame pointer, and brings   *)
(* each parameter to its home: a register, a frame slot, or nowhere when   *)
(* the value is dead.  The epilogue undoes the saves.                      *)
(*                                                                         *)
(* Addresses count words.  The caller's pushed arguments are the words at  *)
(* Top and above.  Contents are those of CallSequence: a preserved         *)
(* register r holds r when the caller jumps.                               *)
(***************************************************************************)
EXTENDS CallSequence

CONSTANTS
    EnteredLists,    \* the argument lists whose callees are looked at
    HomeLists,       \* the homes of their parameters looked at
    MaxLocals,       \* words of locals and spill slots besides the parameters'
    Top,             \* the stack pointer at entry
    KeptFrame, KeptLink, Result   \* the caller's r11, the return address, r1

\* Where a parameter lives in the body, if not in a register.
InSlot == 0
Dead == -1

ASSUME FrameAssumption ==
    /\ EnteredLists \subseteq ArgLists
    /\ MaxLocals \in Nat /\ Top \in Nat
    /\ CalleeHomes \subseteq Nat \ {InSlot}    \* r0 always reads 0
    /\ {KeptFrame, KeptLink, Result} \subseteq Values
    \* The stack is deep enough for a frame.
    /\ \A l \in EnteredLists : Len(l) + MaxLocals + Cardinality(CalleeHomes) + 3 <= Top

VARIABLES
    home,        \* home of each parameter: a register, InSlot or Dead
    others,      \* preserved registers that are homes of other values
    locals,      \* words of the frame besides parameter slots
    calls,       \* the body makes calls, so r13 must be saved
    mem, sp, fp, link    \* the stack, r14, r11 and r13

shape == <<home, others, locals, calls>>
machine == <<mem, sp, fp, link>>
frameVars == <<vars, shape, machine>>

Params == Len(home)
Saved == {home[i] : i \in {j \in DOMAIN home : home[j] \in CalleeHomes}} \union others
SavedInOrder ==
    CHOOSE s \in [1 .. Cardinality(Saved) -> Saved] : \A i, j \in DOMAIN s : i < j => s[i] < s[j]
FrameWords == locals + Cardinality({i \in DOMAIN home : home[i] = InSlot})
UsesFrame == FrameWords > 0 \/ Params > ArgCount
Staged == Params >= ArgCount

\* A parameter's slot, below the frame pointer.
Slot(i) == fp - Cardinality({j \in 1 .. i : home[j] = InSlot})

\* Register homes are handed out once.
Allocation(n) ==
    {h \in [1 .. n -> Homes \union {InSlot, Dead}] :
        \A i, j \in 1 .. n : h[i] = h[j] /\ h[i] \in Homes => i = j}

\* The stack when the caller jumps.
StackWord(a) ==
    IF a >= Top /\ a - Top < Len(pushed) THEN pushed[a - Top + 1] ELSE Nothing

FrameInit ==
    /\ CallInit
    /\ home = <<>> /\ others = {} /\ locals = 0 /\ calls = FALSE
    /\ mem = <<>> /\ sp = Top /\ fp = KeptFrame /\ link = Nothing

\* The call instruction, to a function of some shape.
Enter ==
    /\ pc = "call"
    /\ args \in EnteredLists /\ target = Direct
    /\ home' \in HomeLists \intersect Allocation(Len(args))
    /\ others' \in SUBSET (CalleeHomes \ {home'[i] : i \in DOMAIN home'})
    /\ locals' \in 0 .. MaxLocals
    /\ calls' \in BOOLEAN
    /\ mem' = [a \in 0 .. Top + Len(pushed) |-> StackWord(a)]
    /\ link' = KeptLink
    /\ pc' = "link" /\ k' = 1
    /\ UNCHANGED <<moveVars, pushed, callVars, sp, fp>>

-----------------------------------------------------------------------------
PushWord(v) == sp' = sp - 1 /\ mem' = [mem EXCEPT ![sp - 1] = v]

\* put(): value v of parameter i goes to its home, from the registers in file.
Put(i, v, file) ==
    /\ Settle(CASE home[i] \in Homes -> [file EXCEPT ![home[i]] = v]
                [] home[i] = InSlot -> [file EXCEPT ![Scratch] = Nothing]
                [] OTHER -> file)
    /\ mem' = IF home[i] = InSlot THEN [mem EXCEPT ![Slot(i)] = v] ELSE mem

SaveLink ==
    /\ pc = "link"
    /\ IF calls THEN PushWord(link) ELSE UNCHANGED <<mem, sp>>
    /\ pc' = "saved"
    /\ UNCHANGED <<moveVars, shape, fp, link, k, pushed, callVars>>

SaveRegister ==
    /\ pc = "saved"
    /\ k <= Len(SavedInOrder)
    /\ PushWord(regs[SavedInOrder[k]])
    /\ k' = k + 1
    /\ UNCHANGED <<moveVars, shape, fp, link, pc, pushed, callVars>>

EnterFrame ==
    /\ pc = "saved"
    /\ k > Len(SavedInOrder)
    /\ IF UsesFrame
         THEN /\ mem' = [mem EXCEPT ![sp - 1] = fp]
              /\ fp' = sp - 1
              /\ sp' = sp - 1 - FrameWords
         ELSE UNCHANGED <<mem, fp, sp>>
    /\ pc' = "stage"
    /\ UNCHANGED <<moveVars, shape, link, k, pushed, callVars>>

\* The last argument register is also the address scratch: keep it aside.
Stage ==
    /\ pc = "stage"
    /\ IF Staged THEN PushWord(regs[ArgCount]) ELSE UNCHANGED <<mem, sp>>
    /\ pc' = "store" /\ k' = 1
    /\ UNCHANGED <<moveVars, shape, fp, link, pushed, callVars>>

\* Parameters that travel in r1 .. r6.
Early == {i \in DOMAIN home : i < ArgCount}

StoreParameter ==
    /\ pc = "store"
    /\ k \in Early
    /\ IF home[k] \in Homes THEN UNCHANGED <<moveVars, mem>> ELSE Put(k, regs[k], regs)
    /\ k' = k + 1
    /\ UNCHANGED <<shape, sp, fp, link, pc, pushed, callVars>>

Moving == {i \in Early : home[i] \in Homes /\ home[i] # i}

MoveParameters ==
    /\ pc = "store"
    /\ k \notin Early
    /\ initial' = regs
    /\ goal' = [r \in {home[i] : i \in Moving} |-> CHOOSE i \in Moving : home[i] = r]
    /\ pending' = goal'
    /\ pc' = "settle"
    /\ UNCHANGED <<regs, shape, mem, sp, fp, link, k, pushed, callVars>>

MoveParameter ==
    /\ pc = "settle"
    /\ Next
    /\ UNCHANGED <<shape, mem, sp, fp, link, pc, k, pushed, callVars>>

\* pop flags, and from there to the home of the last register parameter.
Unstage ==
    /\ pc = "settle"
    /\ pending = NoMoves
    /\ IF Staged
         THEN /\ sp' = sp + 1
              /\ Put(ArgCount, mem[sp], [regs EXCEPT ![Flags] = mem[sp]])
         ELSE UNCHANGED <<moveVars, mem, sp>>
    /\ pc' = "load" /\ k' = ArgCount + 1
    /\ UNCHANGED <<shape, fp, link, pushed, callVars>>

\* Slip: the saved link is not counted.
StackArgumentBelowLink(i) == fp + (i - ArgCount) + Cardinality(Saved)

\* Where a stack argument is, above what the prologue pushed.
StackArgument(i) ==
    fp + (i - ArgCount) + Cardinality(Saved) + (IF calls THEN 1 ELSE 0)

LoadStackParameter ==
    /\ pc = "load"
    /\ k <= Params
    /\ LET word == mem[StackArgument(k)]
       IN  Put(k, word, [regs EXCEPT ![Scratch] = Nothing, ![1] = word])
    /\ k' = k + 1
    /\ UNCHANGED <<shape, sp, fp, link, pc, pushed, callVars>>

EnterBody ==
    /\ pc = "load"
    /\ k > Params
    /\ pc' = "body"
    /\ UNCHANGED <<moveVars, shape, mem, sp, fp, link, k, pushed, callVars>>

\* The body may overwrite its own frame and every register it saved or that
\* calls clobber; with a frame it may leave a dynamic array allocated.
Body ==
    /\ pc = "body"
    /\ Settle([r \in AllRegisters |->
                 IF r = 1 THEN Result
                 ELSE IF r \in CalleeHomes \ Saved THEN regs[r] ELSE Nothing])
    /\ link' = IF calls THEN Nothing ELSE link
    /\ mem' = [a \in DOMAIN mem |->
                 IF a < (IF UsesFrame THEN fp ELSE sp) THEN Nothing ELSE mem[a]]
    /\ sp' \in {sp} \union {s \in {sp - 1} : UsesFrame}
    /\ pc' = "leave"
    /\ UNCHANGED <<shape, fp, k, pushed, callVars>>

Leave ==
    /\ pc = "leave"
    /\ IF UsesFrame THEN fp' = mem[fp] /\ sp' = fp + 1 ELSE UNCHANGED <<fp, sp>>
    /\ pc' = "restore" /\ k' = Len(SavedInOrder)
    /\ UNCHANGED <<moveVars, shape, mem, link, pushed, callVars>>

\* Slip: the registers are popped in the order they were pushed.
RestoreRegisterForward ==
    /\ pc = "restore"
    /\ k > 0
    /\ Settle([regs EXCEPT ![SavedInOrder[Len(SavedInOrder) + 1 - k]] = mem[sp]])
    /\ sp' = sp + 1
    /\ k' = k - 1
    /\ UNCHANGED <<shape, mem, fp, link, pc, pushed, callVars>>

RestoreRegister ==
    /\ pc = "restore"
    /\ k > 0
    /\ Settle([regs EXCEPT ![SavedInOrder[k]] = mem[sp]])
    /\ sp' = sp + 1
    /\ k' = k - 1
    /\ UNCHANGED <<shape, mem, fp, link, pc, pushed, callVars>>

\* pop r13 and jump through it; a tail call and halt unwind the same way.
Finish ==
    /\ pc = "restore"
    /\ k = 0
    /\ IF calls THEN link' = mem[sp] /\ sp' = sp + 1 ELSE UNCHANGED <<link, sp>>
    /\ pc' = "done"
    /\ UNCHANGED <<moveVars, shape, mem, fp, k, pushed, callVars>>

\* Back in the caller: discard_stack_arguments.
Discard ==
    /\ pc = "done"
    /\ LET count == Len(args) - Cardinality(InRegisters)
       IN  /\ sp' = sp + count
           /\ pushed' = SubSeq(pushed, count + 1, Len(pushed))
    /\ pc' = "returned"
    /\ UNCHANGED <<moveVars, shape, mem, fp, link, k, callVars>>

FrameNext ==
    \/ CallNext /\ UNCHANGED <<shape, machine>>
    \/ Enter
    \/ SaveLink \/ SaveRegister \/ EnterFrame
    \/ Stage \/ StoreParameter \/ MoveParameters \/ MoveParameter \/ Unstage
    \/ LoadStackParameter \/ EnterBody \/ Body
    \/ Leave \/ RestoreRegister \/ Finish \/ Discard

FrameSpec == FrameInit /\ [][FrameNext]_frameVars

FairFrameSpec == FrameSpec /\ WF_frameVars(FrameNext)

-----------------------------------------------------------------------------
FrameTypeOK ==
    /\ regs \in [AllRegisters -> Values]
    /\ goal \in MoveLists(Registers)
    /\ home \in Seq(Homes \union {InSlot, Dead})
    /\ others \subseteq CalleeHomes /\ locals \in Nat /\ calls \in BOOLEAN
    /\ sp \in 0 .. Top + Len(args)
    /\ k \in Nat

\* The body starts with each argument in the home of its parameter, inside
\* the frame if that is a slot, whatever the caller permuted, pushed or
\* staged and the prologue moved, stored or used as scratch on the way.
ParametersArrive ==
    pc = "body" =>
        \A i \in DOMAIN home :
            /\ home[i] \in Homes => regs[home[i]] = args[i]
            /\ home[i] = InSlot =>
                  sp <= Slot(i) /\ Slot(i) < fp /\ mem[Slot(i)] = args[i]

\* The caller goes on with the stack, the frame pointer and every preserved
\* register as they were before it placed the arguments, the result in r1,
\* and nothing of its part of the stack overwritten.
Restored ==
    pc = "returned" =>
        /\ fp = KeptFrame /\ link = KeptLink
        /\ regs[1] = Result
        /\ \A r \in CalleeHomes : regs[r] = r
        /\ pushed = <<>> /\ sp = Top + Len(args) - Cardinality(InRegisters)
        /\ \A i \in ArgCount + 1 .. Len(args) : mem[Top + i - ArgCount - 1] = args[i]

\* Every move list is emitted in full and every call that is entered
\* returns: no cycle of moves stalls the code generator's loops.
Returns == <>(pc = (IF args \in EnteredLists /\ target = Direct THEN "returned" ELSE "call"))
=============================================================================
