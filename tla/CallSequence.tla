---------------------------- MODULE CallSequence ----------------------------
(***************************************************************************)
(* The instructions the code generator emits for one call: an indirect     *)
(* target goes to flags, the stack arguments are pushed, and               *)
(* place_call_arguments brings the others to the argument registers by one *)
(* of three routes (symphony/targets/symphony/backend.py).  A step here is *)
(* what get(), a push, a pop or a move does to the machine's registers.    *)
(*                                                                         *)
(* The contents of an operand are named after it: a home register r holds  *)
(* r, a spill slot or a constant holds itself.                             *)
(***************************************************************************)
EXTENDS ParallelMove, Sequences

CONSTANTS
    ArgCount,       \* number of argument registers: r1 .. r7
    CallerHomes,    \* homes a call may clobber: r3 .. r6
    CalleeHomes,    \* homes a callee preserves: r8, r9, r10 and r12
    Slots,          \* values that live in the frame
    Constants,      \* values get() rematerializes
    Targets,        \* what is called: operands, or Direct
    Direct,         \* a call of a known function: no target to fetch
    ArgLists,       \* the argument lists of the calls looked at
    Address, Nothing   \* contents of a register: a slot's address; garbage

Homes == CallerHomes \union CalleeHomes
Operands == Homes \union Slots \union Constants
ArgRegisters == 1 .. ArgCount
Scratch == ArgCount       \* ABI.scratch_register is the last argument register

ASSUME CallAssumption ==
    /\ ArgCount \in Nat /\ ArgCount > 1
    /\ ArgLists \subseteq Seq(Operands)
    /\ CallerHomes \subseteq 2 .. ArgCount - 1
    /\ CalleeHomes \intersect ArgRegisters = {}
    /\ Registers = ArgRegisters \union CalleeHomes
    /\ (Slots \union Constants) \intersect Registers = {}
    /\ Slots \intersect Constants = {}
    /\ Flags \notin Operands
    /\ Direct \notin Operands /\ Targets \subseteq Operands \union {Direct}
    /\ Operands \union {Address, Nothing} \subseteq Values

VARIABLES
    pc,          \* the part of the sequence being executed
    args,        \* the call's arguments
    target,      \* what it calls
    k,           \* the argument at hand
    pushed       \* words on the stack, the last pushed first

callVars == <<args, target>>
vars == <<moveVars, pc, k, pushed, callVars>>

Least(a, b) == IF a < b THEN a ELSE b

\* The arguments that travel in registers.
InRegisters == 1 .. Least(Len(args), ArgCount)

CallInit ==
    /\ initial = [r \in AllRegisters |-> IF r \in Homes THEN r ELSE Nothing]
    /\ regs = initial
    /\ goal = NoMoves /\ pending = NoMoves
    /\ args \in ArgLists
    /\ target \in Targets
    /\ pc = "target"
    /\ k = Len(args)
    /\ pushed = <<>>

-----------------------------------------------------------------------------
\* get(v, r): a move, a constant, or a load through the scratch register.
Got(v, r) ==
    CASE v \in Homes     -> [regs EXCEPT ![r] = regs[v]]
      [] v \in Constants -> [regs EXCEPT ![r] = v]
      [] v \in Slots     -> [regs EXCEPT ![Scratch] = Address, ![r] = v]

GetTarget ==
    /\ pc = "target"
    /\ IF target = Direct THEN UNCHANGED moveVars ELSE Settle(Got(target, Flags))
    /\ pc' = "stack"
    /\ UNCHANGED <<k, pushed, callVars>>

\* The arguments that do not fit in registers, right to left.
PushStackArgument ==
    /\ pc = "stack"
    /\ k > ArgCount
    /\ Settle(Got(args[k], 1))
    /\ pushed' = <<regs'[1]>> \o pushed
    /\ k' = k - 1
    /\ UNCHANGED <<pc, callVars>>

StackArgumentsDone == pc = "stack" /\ k <= ArgCount

\* Slip: only the first argument is looked at.
FromCallerHomeFirst == 1 \in InRegisters /\ args[1] \in CallerHomes

FromCallerHome == \E i \in InRegisters : args[i] \in CallerHomes

OnlyHomes == \A i \in InRegisters : args[i] \in Homes

ChooseDirect ==
    /\ StackArgumentsDone
    /\ ~FromCallerHome
    /\ pc' = "direct" /\ k' = 1
    /\ UNCHANGED <<moveVars, pushed, callVars>>

\* The route through a parallel move: argument i to register i.
MoveList ==
    [i \in {j \in InRegisters : args[j] # j} |-> args[i]]

ChooseMoves ==
    /\ StackArgumentsDone
    /\ FromCallerHome /\ OnlyHomes
    /\ initial' = regs
    /\ goal' = MoveList /\ pending' = goal'
    /\ pc' = "moves"
    /\ UNCHANGED <<regs, k, pushed, callVars>>

ChooseStaging ==
    /\ StackArgumentsDone
    /\ FromCallerHome /\ ~OnlyHomes
    /\ pc' = "push" /\ k' = 1
    /\ UNCHANGED <<moveVars, pushed, callVars>>

Place ==
    /\ pc = "direct"
    /\ k \in InRegisters
    /\ Settle(Got(args[k], k))
    /\ k' = k + 1
    /\ UNCHANGED <<pc, pushed, callVars>>

\* One of the moves, or the break of a cycle.
MoveOne ==
    /\ pc = "moves"
    /\ Next
    /\ UNCHANGED <<pc, k, pushed, callVars>>

PushArgument ==
    /\ pc = "push"
    /\ k \in InRegisters
    /\ Settle(Got(args[k], 1))
    /\ pushed' = <<regs'[1]>> \o pushed
    /\ k' = k + 1
    /\ UNCHANGED <<pc, callVars>>

AllPushed ==
    /\ pc = "push"
    /\ k \notin InRegisters
    /\ pc' = "pop" /\ k' = k - 1
    /\ UNCHANGED <<moveVars, pushed, callVars>>

\* The arguments come back from the stack, the last first.
PopArgument ==
    /\ pc = "pop"
    /\ k > 0
    /\ Settle([regs EXCEPT ![k] = Head(pushed)])
    /\ pushed' = Tail(pushed)
    /\ k' = k - 1
    /\ UNCHANGED <<pc, callVars>>

Jump ==
    /\ \/ pc = "direct" /\ k \notin InRegisters
       \/ pc = "moves" /\ pending = NoMoves
       \/ pc = "pop" /\ k = 0
    /\ pc' = "call"
    /\ UNCHANGED <<moveVars, k, pushed, callVars>>

CallNext ==
    \/ GetTarget \/ PushStackArgument
    \/ ChooseDirect \/ ChooseMoves \/ ChooseStaging
    \/ Place \/ MoveOne \/ PushArgument \/ AllPushed \/ PopArgument
    \/ Jump

CallSpec == CallInit /\ [][CallNext]_vars

-----------------------------------------------------------------------------
CallTypeOK ==
    /\ regs \in [AllRegisters -> Values]
    /\ initial \in [AllRegisters -> Values]
    /\ goal \in MoveLists(Registers)
    /\ pc \in {"target", "stack", "direct", "moves", "push", "pop", "call"}
    /\ k \in Nat
    /\ pushed \in Seq(Values)

\* When the call is made every argument register holds its argument and the
\* stack holds the rest in order, and nothing else: whichever route was
\* taken, no operand was overwritten before it was read.
ArgumentsArrive ==
    pc = "call" =>
        /\ \A i \in InRegisters : regs[i] = args[i]
        /\ pushed = SubSeq(args, ArgCount + 1, Len(args))

\* The address of an indirect call survives the placement of its arguments.
TargetArrives == pc = "call" /\ target # Direct => regs[Flags] = target
=============================================================================
