----------------------------- MODULE CallProofs -----------------------------
(***************************************************************************)
(* Proofs, for every list of arguments, every allocation of homes and any  *)
(* number of argument and preserved registers, that a call delivers its    *)
(* arguments and gives the caller back what it had (CallSequence and       *)
(* CallFrame).                                                             *)
(*                                                                         *)
(* The invariant says what each part of the sequence has established: the  *)
(* registers that still hold what the caller left there, the words of the  *)
(* stack from the stack arguments down to the staged one, and the          *)
(* parameters that are at home already.  The moves are ParallelMove's and  *)
(* are used through its theorems.  Last, that a call ends, and which calls *)
(* lose the target they fetched.                                           *)
(***************************************************************************)
EXTENDS CallFrame, SequenceTheorems, FiniteSetTheorems, WellFoundedInduction, TLAPS

-----------------------------------------------------------------------------
(* Parallel moves: for any number of registers and any move list, the        *)
(* generated moves behave as if they happened at once, and one spare         *)
(* register is enough.                                                       *)

\* A list moves registers to registers, never one to itself.
LEMMA ListShape ==
  ASSUME NEW m \in MoveLists(Registers)
  PROVE  /\ DOMAIN m \subseteq Registers
         /\ m \in [DOMAIN m -> Registers]
         /\ \A t \in DOMAIN m : m[t] \in Registers /\ m[t] # t
  BY DEF MoveLists

\* Flags is free whenever a cycle must be broken.  If a pending move waited
\* there, the targets, each read by another move, would outnumber the moves
\* that read a target.
LEMMA FlagsFree ==
  ASSUME TypeOK
  PROVE  FlagsFreeAtBreak
<1> DEFINE T == DOMAIN pending
<1> SUFFICES ASSUME \A t \in T : Blocked(t), NEW t0 \in T, pending[t0] = Flags
             PROVE  FALSE
  BY DEF FlagsFreeAtBreak
<1> DEFINE S == T \ {t0}
           f == [w \in S |-> pending[w]]
           R == {pending[w] : w \in S}
<1>1. T \subseteq Registers
  BY ListShape DEF TypeOK
<1>2. IsFiniteSet(T)
  BY <1>1, FS_Subset, MoveAssumption
<1>3. IsFiniteSet(S) /\ Cardinality(S) = Cardinality(T) - 1
  BY <1>2, FS_RemoveElement
<1>4. f \in Surjection(S, R)
  BY DEF Surjection
<1>5. IsFiniteSet(R) /\ Cardinality(R) <= Cardinality(S)
  BY <1>3, <1>4, FS_Surjection
<1>6. ASSUME NEW t \in T
      PROVE  t \in R
  <2>1. PICK w \in DOMAIN pending \ {t} : pending[w] = t
    BY <1>6 DEF Blocked
  <2>2. t \in Registers
    BY <1>1
  <2>3. w # t0
    BY <2>1, <2>2, MoveAssumption
  <2> QED
    BY <2>1, <2>3
<1>9. T \subseteq R
  BY <1>6
<1>7. Cardinality(T) <= Cardinality(R)
  BY <1>5, <1>9, FS_Subset
<1>8. Cardinality(T) \in Nat /\ Cardinality(S) \in Nat /\ Cardinality(R) \in Nat
  BY <1>2, <1>3, <1>5, FS_CardinalityType
<1> QED
  BY <1>3, <1>5, <1>7, <1>8

MoveInvariant == TypeOK /\ ValuesReachable /\ OneInFlags

\* A fresh list: every value is still where it comes from (backend.py:399-403).
LEMMA InitMoves == Init => MoveInvariant
  BY ListShape, MoveAssumption
     DEF Init, MoveInvariant, TypeOK, ValuesReachable, OneInFlags, AllRegisters

\* A move whose target no other move reads loses nothing (backend.py:408-424).
LEMMA MovePreserves ==
  ASSUME MoveInvariant, NEW t \in Registers, Move(t)
  PROVE  MoveInvariant'
<1>1. /\ t \in DOMAIN pending /\ t # Flags /\ t \in AllRegisters
      /\ DOMAIN pending \subseteq DOMAIN goal /\ DOMAIN goal \subseteq Registers
      /\ \A u \in DOMAIN pending : pending[u] \in AllRegisters \ {u}
  BY MoveAssumption, ListShape DEF Move, MoveInvariant, TypeOK, AllRegisters
<1>2. DOMAIN pending' = DOMAIN pending \ {t}
  BY DEF Move, Without
<1>3. \A u \in DOMAIN pending' : pending'[u] = pending[u] /\ pending[u] # t
  BY <1>2 DEF Move, Without, Blocked
<1>4. TypeOK'
  BY <1>1, <1>2, <1>3 DEF Move, MoveInvariant, TypeOK
<1>5. regs'[t] = initial[goal[t]] /\ \A r \in AllRegisters \ {t} : regs'[r] = regs[r]
  BY <1>1 DEF Move, MoveInvariant, TypeOK, ValuesReachable, AllRegisters
<1>6. ASSUME NEW r \in Registers
      PROVE  CASE r \in DOMAIN pending' -> regs'[pending'[r]] = initial'[goal'[r]]
               [] r \in DOMAIN goal' \ DOMAIN pending' -> regs'[r] = initial'[goal'[r]]
               [] OTHER -> regs'[r] = initial'[r]
  <2>1. initial' = initial /\ goal' = goal /\ r \in AllRegisters
    BY DEF Move, AllRegisters
  <2>2. CASE r \in DOMAIN pending'
    <3>1. r \in DOMAIN pending /\ r # t /\ pending[r] \in AllRegisters \ {t}
      BY <1>1, <1>2, <1>3, <2>2
    <3>2. regs'[pending'[r]] = regs[pending[r]]
      BY <1>3, <1>5, <2>2, <3>1
    <3> QED
      BY <2>1, <2>2, <3>1, <3>2 DEF MoveInvariant, ValuesReachable
  <2>3. CASE r = t
    BY <1>1, <1>2, <1>5, <2>1, <2>3
  <2>4. CASE r \notin DOMAIN pending' /\ r # t
    <3>1. r \notin DOMAIN pending /\ regs'[r] = regs[r]
      BY <1>2, <1>5, <2>1, <2>4
    <3> QED
      BY <2>1, <2>4, <3>1 DEF MoveInvariant, ValuesReachable
  <2> QED
    BY <2>2, <2>3, <2>4
<1>7. ValuesReachable'
  BY <1>6 DEF ValuesReachable
<1>8. OneInFlags'
  BY <1>2, <1>3 DEF Move, MoveInvariant, OneInFlags
<1> QED
  BY <1>4, <1>7, <1>8 DEF MoveInvariant

\* Breaking a cycle: flags is free and takes over for one register (backend.py:418-422).
LEMMA BreakPreserves ==
  ASSUME MoveInvariant, NEW t \in Registers, Break(t)
  PROVE  MoveInvariant'
<1>1. /\ t \in DOMAIN pending /\ t # Flags
      /\ DOMAIN pending \subseteq DOMAIN goal /\ DOMAIN goal \subseteq Registers
      /\ \A u \in DOMAIN pending : pending[u] \in AllRegisters \ {u}
  BY MoveAssumption, ListShape DEF Break, MoveInvariant, TypeOK
<1>2. \A u \in DOMAIN pending : pending[u] # Flags
  BY FlagsFree DEF Break, MoveInvariant, FlagsFreeAtBreak
<1>3. /\ DOMAIN pending' = DOMAIN pending
      /\ pending'[t] = Flags /\ \A u \in DOMAIN pending \ {t} : pending'[u] = pending[u]
  BY <1>1 DEF Break
<1>4. /\ regs'[Flags] = regs[pending[t]]
      /\ \A r \in Registers : regs'[r] = regs[r]
      /\ initial' = initial /\ goal' = goal
  BY MoveAssumption DEF Break, MoveInvariant, TypeOK, AllRegisters
<1>5. TypeOK'
  BY <1>1, <1>3, MoveAssumption DEF Break, MoveInvariant, TypeOK, AllRegisters
<1>6. ASSUME NEW r \in Registers
      PROVE  CASE r \in DOMAIN pending' -> regs'[pending'[r]] = initial'[goal'[r]]
               [] r \in DOMAIN goal' \ DOMAIN pending' -> regs'[r] = initial'[goal'[r]]
               [] OTHER -> regs'[r] = initial'[r]
  <2>1. CASE r = t
    BY <1>1, <1>3, <1>4, <2>1 DEF MoveInvariant, ValuesReachable
  <2>2. CASE r \in DOMAIN pending \ {t}
    <3>1. pending'[r] = pending[r] /\ pending[r] \in Registers
      BY <1>1, <1>2, <1>3, <2>2 DEF AllRegisters
    <3> QED
      BY <1>3, <1>4, <2>2, <3>1 DEF MoveInvariant, ValuesReachable
  <2>3. CASE r \notin DOMAIN pending
    BY <1>3, <1>4, <2>3 DEF MoveInvariant, ValuesReachable
  <2> QED
    BY <2>1, <2>2, <2>3
<1>7. ValuesReachable'
  BY <1>6 DEF ValuesReachable
<1>8. OneInFlags'
  BY <1>2, <1>3, <1>4 DEF MoveInvariant, OneInFlags
<1> QED
  BY <1>5, <1>7, <1>8 DEF MoveInvariant

\* The values a list has to deliver stay within reach at every step, and
\* flags never holds two of them.
THEOREM MoveInvariance == Spec => [](TypeOK /\ ValuesReachable /\ OneInFlags)
<1>1. ASSUME MoveInvariant, [Next]_moveVars
      PROVE  MoveInvariant'
  <2>1. CASE UNCHANGED moveVars
    BY <1>1, <2>1 DEF moveVars, MoveInvariant, TypeOK, ValuesReachable, OneInFlags
  <2> QED
    BY <1>1, <2>1, MovePreserves, BreakPreserves DEF Next
<1> QED
  BY <1>1, InitMoves, PTL DEF Spec, MoveInvariant

\* flags is free each time the code generator reaches for it.
THEOREM OneSpareRegisterSuffices == Spec => []FlagsFreeAtBreak
  BY MoveInvariance, FlagsFree, PTL

\* When the list is empty every target holds what its source held at first,
\* and every other register is as it was.
THEOREM MovesAreParallel == Spec => []MovesParallel
<1>1. TypeOK /\ ValuesReachable => MovesParallel
  BY DEF TypeOK, ValuesReachable, MovesParallel
<1> QED
  BY <1>1, MoveInvariance, PTL

\* What is left of a list: a move that reads flags is one step from done, any
\* other may have to be broken first.
InFlags == {t \in DOMAIN pending : pending[t] = Flags}
LeftToDo == 2 * Cardinality(DOMAIN pending) - Cardinality(InFlags)

\* Some registers, and some of those, are finitely many.
LEMMA RegisterCounts ==
  ASSUME NEW D \in SUBSET Registers, NEW F \in SUBSET D
  PROVE  /\ IsFiniteSet(D) /\ IsFiniteSet(F)
         /\ Cardinality(D) \in Nat /\ Cardinality(F) \in Nat
         /\ 2 * Cardinality(D) - Cardinality(F) \in Nat
<1>1. IsFiniteSet(D)
  BY FS_Subset, MoveAssumption
<1>2. IsFiniteSet(F) /\ Cardinality(F) <= Cardinality(D)
  BY <1>1, FS_Subset
<1>3. Cardinality(D) \in Nat /\ Cardinality(F) \in Nat
  BY <1>1, <1>2, FS_CardinalityType
<1> QED
  BY <1>1, <1>2, <1>3

\* So every list has a size, and a number of moves that read flags.
LEMMA PendingCounts ==
  ASSUME TypeOK
  PROVE  /\ IsFiniteSet(DOMAIN pending) /\ IsFiniteSet(InFlags)
         /\ Cardinality(DOMAIN pending) \in Nat /\ Cardinality(InFlags) \in Nat
         /\ LeftToDo \in Nat
<1>1. DOMAIN pending \subseteq Registers /\ InFlags \subseteq DOMAIN pending
  BY ListShape DEF TypeOK, InFlags
<1> QED
  BY <1>1, RegisterCounts DEF LeftToDo

\* A move takes one register off the list, and with it at most the one that
\* reads flags.
LEMMA MoveDescends ==
  ASSUME MoveInvariant, NEW t \in Registers, Move(t)
  PROVE  LeftToDo' < LeftToDo
<1>1. TypeOK /\ t \in DOMAIN pending
  BY DEF Move, MoveInvariant
<1>2. /\ DOMAIN pending' = DOMAIN pending \ {t}
      /\ \A u \in DOMAIN pending' : pending'[u] = pending[u]
  BY DEF Move, Without
<1>3. InFlags' = InFlags \ {t}
  BY <1>2 DEF InFlags
<1> DEFINE n == Cardinality(DOMAIN pending)  f == Cardinality(InFlags)
           m == Cardinality(DOMAIN pending')  g == Cardinality(InFlags')
<1>4. m = n - 1
  BY <1>1, <1>2, PendingCounts, FS_RemoveElement
<1>5. g = IF t \in InFlags THEN f - 1 ELSE f
  BY <1>1, <1>3, PendingCounts, FS_RemoveElement
<1>6. n \in Nat /\ f \in Nat /\ LeftToDo = 2 * n - f /\ LeftToDo' = 2 * m - g
  BY <1>1, PendingCounts DEF LeftToDo
<1> HIDE DEF n, f, m, g
<1> QED
  BY <1>4, <1>5, <1>6

\* Breaking a cycle adds a move that reads flags: there was none.
LEMMA BreakDescends ==
  ASSUME MoveInvariant, NEW t \in Registers, Break(t)
  PROVE  LeftToDo' < LeftToDo
<1>1. TypeOK /\ t \in DOMAIN pending /\ \A u \in DOMAIN pending : pending[u] # Flags
  BY FlagsFree DEF Break, MoveInvariant, FlagsFreeAtBreak
<1>2. DOMAIN pending' = DOMAIN pending /\ pending'[t] = Flags
      /\ \A u \in DOMAIN pending \ {t} : pending'[u] = pending[u]
  BY <1>1 DEF Break
<1>3. InFlags = {} /\ InFlags' = {t}
  BY <1>1, <1>2 DEF InFlags
<1>4. Cardinality(InFlags) = 0 /\ Cardinality(InFlags') = 1
  BY <1>3, FS_EmptySet, FS_Singleton
<1>5. Cardinality(DOMAIN pending) \in Nat
  BY <1>1, PendingCounts
<1> QED
  BY <1>2, <1>4, <1>5 DEF LeftToDo

\* So each step of a list brings its end nearer.
LEMMA ListDescends ==
  ASSUME MoveInvariant, Next
  PROVE  LeftToDo \in Nat /\ LeftToDo' \in Nat /\ LeftToDo' < LeftToDo
<1>1. MoveInvariant'
  BY MovePreserves, BreakPreserves DEF Next
<1>2. TypeOK /\ TypeOK'
  BY <1>1 DEF MoveInvariant
<1>3. LeftToDo \in Nat
  BY <1>2, PendingCounts
<1>4. LeftToDo' \in Nat
  <2>1. DOMAIN pending' \subseteq Registers /\ InFlags' \subseteq DOMAIN pending'
    BY <1>2, ListShape DEF TypeOK, InFlags
  <2> QED
    BY <2>1, RegisterCounts DEF LeftToDo
<1>5. LeftToDo' < LeftToDo
  BY MoveDescends, BreakDescends DEF Next
<1> QED
  BY <1>3, <1>4, <1>5

\* Every move that is emitted, and every cycle that is broken, brings the end
\* of the list nearer: the scan of backend.py:404-424 cannot go round for ever.
THEOREM MovesDescend == Spec => [](LeftToDo \in Nat) /\ [][LeftToDo' < LeftToDo]_moveVars
<1>1. ASSUME MoveInvariant, [Next]_moveVars
      PROVE  [LeftToDo' < LeftToDo]_moveVars
  BY <1>1, ListDescends
<1>2. MoveInvariant => LeftToDo \in Nat
  BY PendingCounts DEF MoveInvariant
<1> QED
  BY <1>1, <1>2, MoveInvariance, PTL DEF Spec, MoveInvariant

-----------------------------------------------------------------------------
(* The call sequence.                                                        *)

CallerPlaces == {"target", "stack", "direct", "moves", "push", "pop", "call"}
CalleePlaces == {"link", "saved", "stage", "store", "settle", "load", "body", "leave",
                 "restore", "done"}

\* How many arguments travel in registers, and on the stack.
InCount == Least(Len(args), ArgCount)
StackCount == Len(args) - InCount

HomesKept(rs) == \A r \in rs : regs[r] = r
Arrived(is) == \A i \in is : regs[i] = args[i]

\* The stack arguments are pushed, under d more words.
StackPushed(d) ==
    /\ Len(pushed) = d + StackCount
    /\ \A j \in 1 .. StackCount : pushed[d + j] = args[InCount + j]

Types ==
    /\ args \in ArgLists /\ target \in Targets
    /\ pushed \in Seq(Values) /\ k \in Nat
    /\ pc \in CallerPlaces \union CalleePlaces \union {"returned"}

\* What the caller's sequence has done.
Placed ==
    /\ pc \in CallerPlaces => sp = Top /\ fp = KeptFrame
    /\ pc \in {"target", "stack"} =>
         /\ HomesKept(Homes)
         /\ k \in InCount .. Len(args)
         /\ Len(pushed) = Len(args) - k
         /\ \A j \in 1 .. Len(args) - k : pushed[j] = args[k + j]
    /\ pc = "direct" =>
         /\ ~FromCallerHome /\ HomesKept(CalleeHomes)
         /\ k \in 1 .. InCount + 1 /\ Arrived(1 .. k - 1) /\ StackPushed(0)
    /\ pc = "moves" =>
         /\ OnlyHomes /\ goal = MoveList
         /\ \A r \in Homes : initial[r] = r
         /\ StackPushed(0)
    /\ pc = "push" =>
         /\ HomesKept(Homes)
         /\ k \in 1 .. InCount + 1 /\ StackPushed(k - 1)
         /\ \A i \in 1 .. k - 1 : pushed[k - i] = args[i]
    /\ pc = "pop" =>
         /\ HomesKept(CalleeHomes)
         /\ k \in 0 .. InCount /\ StackPushed(k)
         /\ \A i \in 1 .. k : pushed[k + 1 - i] = args[i]
         /\ Arrived(k + 1 .. InCount)
    /\ pc = "call" => HomesKept(CalleeHomes) /\ Arrived(1 .. InCount) /\ StackPushed(0)

\* The layout of the callee's part of the stack.
LinkWords == IF calls THEN 1 ELSE 0
StagedWords == IF Staged THEN 1 ELSE 0
SavedCount == Cardinality(Saved)
SaveBase == Top - LinkWords
Inner == SaveBase - SavedCount
FramePointer == Inner - 1
BodyStack == IF UsesFrame THEN FramePointer - FrameWords ELSE Inner

FrameTypes ==
    /\ args \in EnteredLists
    /\ home \in Allocation(Len(args))
    /\ others \subseteq CalleeHomes \ {home[i] : i \in DOMAIN home}
    /\ locals \in 0 .. MaxLocals /\ calls \in BOOLEAN
    /\ mem \in [0 .. Top + StackCount -> Values] /\ link \in Values

\* What the stack of a call holds, from the top down.
ArgumentWords == \A j \in 1 .. StackCount : mem[Top + j - 1] = args[InCount + j]
LinkSaved == calls => mem[Top - 1] = KeptLink
RegistersSaved(n) == \A j \in 1 .. n : mem[SaveBase - j] = SavedInOrder[j]
FrameSet == fp = IF UsesFrame THEN FramePointer ELSE KeptFrame
FrameSaved == UsesFrame => mem[FramePointer] = KeptFrame
InSlots(is) == \A i \in is \cap DOMAIN home : home[i] = InSlot => mem[Slot(i)] = args[i]
InHomes(is) == \A i \in is \cap DOMAIN home : home[i] \in Homes => regs[home[i]] = args[i]

Stacked ==
    /\ ArgumentWords /\ StackPushed(0)
    /\ (calls => pc \notin {"leave", "restore"}) => link = KeptLink
    /\ pc \notin {"link", "done"} => LinkSaved
    /\ pc \in {"link", "saved"} => fp = KeptFrame
    /\ pc = "link" => sp = Top /\ k = 1
    /\ pc = "saved" => k \in 1 .. SavedCount + 1 /\ sp = SaveBase - (k - 1) /\ RegistersSaved(k - 1)
    /\ pc \notin {"link", "saved", "done"} => RegistersSaved(SavedCount)
    /\ pc \in {"stage", "store", "settle", "load", "body", "leave"} => FrameSet /\ FrameSaved
    /\ pc \in {"stage", "load", "body"} => sp = BodyStack
    /\ pc \in {"store", "settle"} =>
         /\ sp = BodyStack - StagedWords
         /\ Staged => mem[sp] = args[ArgCount]
    /\ pc = "leave" => UsesFrame \/ sp = Inner
    /\ pc = "restore" => fp = KeptFrame /\ k \in 0 .. SavedCount /\ sp = SaveBase - k
    /\ pc = "done" => fp = KeptFrame /\ sp = Top

\* Where the arguments and the caller's registers are.
Held ==
    /\ pc \in {"link", "saved", "stage"} => HomesKept(CalleeHomes) /\ Arrived(1 .. InCount)
    /\ pc = "store" =>
         /\ HomesKept(CalleeHomes) /\ Arrived(Early)
         /\ k >= 1 /\ InSlots(1 .. k - 1)
    /\ pc = "settle" =>
         /\ goal = [r \in {home[i] : i \in Moving} |-> CHOOSE i \in Moving : home[i] = r]
         /\ \A i \in Early : initial[i] = args[i]
         /\ \A r \in CalleeHomes : initial[r] = r
         /\ InSlots(Early)
    /\ pc = "load" =>
         /\ k > ArgCount
         /\ HomesKept(CalleeHomes \ Saved) /\ InHomes(1 .. k - 1) /\ InSlots(1 .. k - 1)
    /\ pc = "body" =>
         /\ HomesKept(CalleeHomes \ Saved) /\ InHomes(DOMAIN home) /\ InSlots(DOMAIN home)
    /\ pc \in {"leave", "restore", "done"} => HomesKept(CalleeHomes \ Saved) /\ regs[1] = Result
    /\ pc = "restore" => \A j \in k + 1 .. SavedCount : regs[SavedInOrder[j]] = SavedInOrder[j]
    /\ pc = "done" => HomesKept(CalleeHomes)

CallInvariant ==
    /\ MoveInvariant
    /\ Types
    /\ Placed
    /\ pc \in CalleePlaces => FrameTypes /\ Stacked /\ Held
    /\ Restored
----------------------------------------------------------------------------
(* Registers and sequences.                                                 *)

\* What the argument and home registers have to do with each other.
LEMMA RegisterFacts ==
  /\ ArgCount \in Nat /\ ArgCount > 1 /\ Scratch = ArgCount
  /\ Homes \subseteq Registers /\ ArgRegisters \subseteq Registers
  /\ Registers \subseteq AllRegisters /\ Flags \in AllRegisters /\ Flags \notin Registers
  /\ 1 \notin Homes /\ ArgCount \notin Homes
  /\ \A r \in CalleeHomes : r \notin ArgRegisters
  /\ Operands \subseteq Values /\ Address \in Values /\ Nothing \in Values
  /\ \A v \in Constants \union Slots : v \notin Homes
  /\ \A v \in Slots : v \notin Constants
<1>1. /\ ArgCount \in Nat /\ ArgCount > 1
      /\ CallerHomes \subseteq 2 .. ArgCount - 1
      /\ \A r \in CalleeHomes : r \notin ArgRegisters
      /\ Registers = ArgRegisters \union CalleeHomes
  BY CallAssumption
<1>2. 1 \in ArgRegisters /\ ArgCount \in ArgRegisters /\ CallerHomes \subseteq ArgRegisters
  BY <1>1 DEF ArgRegisters
<1>3. 1 \notin CallerHomes /\ ArgCount \notin CallerHomes
  BY <1>1
<1> QED
  BY <1>1, <1>2, <1>3, CallAssumption, MoveAssumption
     DEF Homes, AllRegisters, Operands, Scratch

\* Getting an operand into a register disturbs no other but the scratch.
LEMMA GotFacts ==
  ASSUME regs \in [AllRegisters -> Values], NEW v \in Operands, NEW r \in AllRegisters,
         v \in Homes => regs[v] = v
  PROVE  /\ Got(v, r) \in [AllRegisters -> Values]
         /\ Got(v, r)[r] = v
         /\ \A s \in AllRegisters : s # r /\ s # Scratch => Got(v, r)[s] = regs[s]
<1>1. Scratch \in AllRegisters
  BY RegisterFacts DEF ArgRegisters
<1>2. v \in Values /\ Address \in Values
  BY RegisterFacts
<1>3. CASE v \in Homes
  <2>1. Got(v, r) = [regs EXCEPT ![r] = v]
    BY <1>3, RegisterFacts DEF Got
  <2> QED
    BY <1>2, <2>1
<1>4. CASE v \in Constants
  <2>1. Got(v, r) = [regs EXCEPT ![r] = v]
    BY <1>4, RegisterFacts DEF Got
  <2> QED
    BY <1>2, <2>1
<1>5. CASE v \in Slots
  <2>1. Got(v, r) = [regs EXCEPT ![Scratch] = Address, ![r] = v]
    BY <1>5, RegisterFacts DEF Got
  <2> QED
    BY <1>1, <1>2, <2>1
<1> QED
  BY <1>3, <1>4, <1>5 DEF Operands

\* A word on the stack.
LEMMA PushedFacts ==
  ASSUME NEW S, NEW s \in Seq(S), NEW v \in S
  PROVE  /\ <<v>> \o s \in Seq(S) /\ Len(<<v>> \o s) = Len(s) + 1 /\ Len(s) \in Nat
         /\ (<<v>> \o s)[1] = v
         /\ \A j \in 1 .. Len(s) : (<<v>> \o s)[j + 1] = s[j]
<1>1. <<v>> \in Seq(S) /\ Len(<<v>>) = 1 /\ <<v>>[1] = v
  OBVIOUS
<1>2. Len(s) \in Nat
  BY LenProperties
<1> DEFINE c == <<v>> \o s
<1>3. c \in Seq(S) /\ Len(c) = 1 + Len(s)
      /\ \A i \in 1 .. Len(c) : c[i] = IF i <= 1 THEN <<v>>[i] ELSE s[i - 1]
  BY <1>1, ConcatProperties
<1> HIDE DEF c
<1>4. c[1] = v
  BY <1>1, <1>2, <1>3
<1>5. ASSUME NEW j \in 1 .. Len(s) PROVE c[j + 1] = s[j]
  <2>1. j + 1 \in 1 .. Len(c) /\ ~(j + 1 <= 1) /\ (j + 1) - 1 = j
    BY <1>2, <1>3
  <2> QED
    BY <1>3, <2>1
<1> QED
  BY <1>2, <1>3, <1>4, <1>5 DEF c

\* And off the stack.
LEMMA PoppedFacts ==
  ASSUME NEW S, NEW s \in Seq(S), Len(s) > 0
  PROVE  /\ Head(s) = s[1] /\ Head(s) \in S
         /\ Tail(s) \in Seq(S) /\ Len(Tail(s)) = Len(s) - 1 /\ Len(s) \in Nat
         /\ \A j \in 1 .. Len(s) - 1 : Tail(s)[j] = s[j + 1]
<1>1. s # <<>> /\ Len(s) \in Nat
  BY LenProperties, EmptySeq
<1> QED
  BY <1>1, HeadTailProperties, ElementOfSeq

----------------------------------------------------------------------------
(* Moves between two lists.                                                 *)

\* Registers that are settled are a list that is done.
LEMMA Settled ==
  ASSUME NEW file \in [AllRegisters -> Values], Settle(file)
  PROVE  MoveInvariant' /\ regs' = file
<1>1. NoMoves \in MoveLists(Registers)
  <2>1. NoMoves \in [{} -> Registers] /\ DOMAIN NoMoves = {}
    BY DEF NoMoves
  <2> QED
    BY <2>1 DEF MoveLists
<1>2. DOMAIN NoMoves = {}
  BY DEF NoMoves
<1> QED
  BY <1>1, <1>2
     DEF Settle, MoveInvariant, TypeOK, ValuesReachable, OneInFlags, AllRegisters

\* A list is begun: every value is still where it comes from.
LEMMA Begun ==
  ASSUME regs \in [AllRegisters -> Values], regs' = regs, initial' = regs,
         goal' \in MoveLists(Registers), pending' = goal'
  PROVE  MoveInvariant'
<1>1. /\ DOMAIN goal' \subseteq Registers
      /\ \A t \in DOMAIN goal' : goal'[t] \in Registers /\ goal'[t] # t
  BY ListShape
<1> QED
  BY <1>1, MoveAssumption
     DEF MoveInvariant, TypeOK, ValuesReachable, OneInFlags, AllRegisters

\* A step that moves nothing.
LEMMA SameMoves ==
  ASSUME MoveInvariant, UNCHANGED moveVars
  PROVE  MoveInvariant' /\ regs' = regs
BY DEF moveVars, MoveInvariant, TypeOK, ValuesReachable, OneInFlags

\* One move, or the break of a cycle.
LEMMA OneMove ==
  ASSUME MoveInvariant, Next
  PROVE  MoveInvariant' /\ initial' = initial /\ goal' = goal
BY MovePreserves, BreakPreserves DEF Next, Move, Break

\* A list that is done has moved in parallel.
LEMMA MovesDone ==
  ASSUME MoveInvariant, pending = NoMoves
  PROVE  \A r \in Registers :
           regs[r] = IF r \in DOMAIN goal THEN initial[goal[r]] ELSE initial[r]
BY DEF MoveInvariant, ValuesReachable, NoMoves

----------------------------------------------------------------------------
(* The caller.                                                              *)

\* How the arguments are divided.
LEMMA ArgumentFacts ==
  ASSUME Types
  PROVE  /\ args \in Seq(Operands) /\ Len(args) \in Nat
         /\ InCount \in Nat /\ StackCount \in Nat
         /\ InCount <= ArgCount /\ InCount + StackCount = Len(args)
         /\ StackCount > 0 => InCount = ArgCount
         /\ ArgCount <= Len(args) => InCount = ArgCount
         /\ Len(args) <= ArgCount => InCount = Len(args)
         /\ InRegisters = 1 .. InCount /\ InRegisters \subseteq ArgRegisters
         /\ \A i \in 1 .. Len(args) : args[i] \in Operands
<1>1. args \in Seq(Operands)
  BY CallAssumption DEF Types
<1>2. Len(args) \in Nat /\ \A i \in 1 .. Len(args) : args[i] \in Operands
  BY <1>1, LenProperties, ElementOfSeq
<1> QED
  BY <1>1, <1>2, RegisterFacts DEF InCount, StackCount, InRegisters, Least, ArgRegisters

\* A step of the caller.
LEMMA CallerStep ==
  ASSUME pc' \in CallerPlaces, MoveInvariant', Types', Placed'
  PROVE  CallInvariant'
BY DEF CallInvariant, CallerPlaces, CalleePlaces, Restored

\* What the caller leaves alone.
CallerKeeps == args' = args /\ target' = target /\ sp' = sp /\ fp' = fp

\* An indirect target goes to flags (backend.py:931-942).
LEMMA GetTargetStep ==
  ASSUME CallInvariant, GetTarget, CallerKeeps
  PROVE  CallInvariant'
<1>1. /\ MoveInvariant /\ Types /\ Placed /\ regs \in [AllRegisters -> Values]
      /\ pc = "target" /\ pc' = "stack" /\ k' = k /\ pushed' = pushed
  BY DEF CallInvariant, MoveInvariant, TypeOK, GetTarget
<1>2. HomesKept(Homes)
  BY <1>1 DEF Placed
<1>3. MoveInvariant' /\ \A r \in Homes : regs'[r] = r
  <2>1. CASE target = Direct
    BY <1>1, <1>2, <2>1, SameMoves DEF GetTarget, HomesKept
  <2>2. CASE target # Direct
    <3>1. target \in Operands /\ Settle(Got(target, Flags))
      BY <1>1, <2>2, CallAssumption DEF GetTarget, Types
    <3>2. /\ Got(target, Flags) \in [AllRegisters -> Values]
          /\ \A s \in AllRegisters : s # Flags /\ s # Scratch => Got(target, Flags)[s] = regs[s]
      BY <1>1, <1>2, <3>1, GotFacts, RegisterFacts DEF HomesKept
    <3>3. MoveInvariant' /\ regs' = Got(target, Flags)
      BY <3>1, <3>2, Settled
    <3> QED
      BY <1>2, <3>2, <3>3, RegisterFacts DEF HomesKept
  <2> QED
    BY <2>1, <2>2
<1>4. Types'
  BY <1>1 DEF Types, CallerKeeps, CallerPlaces
<1>5. Placed'
  BY <1>1, <1>3 DEF Placed, CallerKeeps, CallerPlaces, HomesKept, InCount
<1> QED
  BY <1>1, <1>3, <1>4, <1>5, CallerStep DEF CallerPlaces

\* An argument that does not fit in registers (backend.py:385-387).
LEMMA PushStackArgumentStep ==
  ASSUME CallInvariant, PushStackArgument, CallerKeeps
  PROVE  CallInvariant'
<1> DEFINE n == Len(args) - k
<1>1. /\ MoveInvariant /\ Types /\ Placed /\ regs \in [AllRegisters -> Values]
      /\ pc = "stack" /\ pc' = pc /\ k > ArgCount /\ Settle(Got(args[k], 1))
      /\ pushed' = <<regs'[1]>> \o pushed /\ k' = k - 1
  BY DEF CallInvariant, MoveInvariant, TypeOK, PushStackArgument
<1>2. /\ HomesKept(Homes) /\ k \in InCount .. Len(args) /\ Len(pushed) = n
      /\ \A j \in 1 .. n : pushed[j] = args[k + j]
  BY <1>1 DEF Placed
<1>3. /\ Len(args) \in Nat /\ InCount \in Nat /\ InCount <= ArgCount /\ args[k] \in Operands
      /\ k \in Nat /\ n \in Nat /\ ArgCount \in Nat /\ 1 \in AllRegisters
  BY <1>1, <1>2, ArgumentFacts, RegisterFacts DEF ArgRegisters, Types
<1>4. /\ Got(args[k], 1) \in [AllRegisters -> Values] /\ Got(args[k], 1)[1] = args[k]
      /\ \A s \in AllRegisters : s # 1 /\ s # Scratch => Got(args[k], 1)[s] = regs[s]
  BY <1>1, <1>2, <1>3, GotFacts DEF HomesKept
<1>5. MoveInvariant' /\ regs' = Got(args[k], 1)
  BY <1>1, <1>4, Settled
<1>6. \A r \in Homes : regs'[r] = r
  BY <1>2, <1>4, <1>5, RegisterFacts DEF HomesKept
<1>7. /\ pushed' \in Seq(Values) /\ Len(pushed') = n + 1 /\ pushed'[1] = args[k]
      /\ \A j \in 1 .. n : pushed'[j + 1] = pushed[j]
  <2>1. pushed \in Seq(Values) /\ regs'[1] \in Values /\ regs'[1] = args[k]
    BY <1>1, <1>3, <1>4, <1>5, RegisterFacts DEF Types
  <2> QED
    BY <1>1, <1>2, <2>1, PushedFacts
<1>8. \A j \in 1 .. n + 1 : pushed'[j] = args[k - 1 + j]
  <2> SUFFICES ASSUME NEW j \in 1 .. n + 1 PROVE pushed'[j] = args[k - 1 + j]
    OBVIOUS
  <2>1. CASE j = 1
    BY <1>3, <1>7, <2>1
  <2>2. CASE j # 1
    <3>1. j - 1 \in 1 .. n /\ (j - 1) + 1 = j /\ k + (j - 1) = k - 1 + j
      BY <1>3, <2>2
    <3> QED
      BY <1>2, <1>7, <3>1
  <2> QED
    BY <2>1, <2>2
<1>9. Types'
  BY <1>1, <1>3, <1>7 DEF Types, CallerKeeps, CallerPlaces
<1>10. Placed'
  <2>1. /\ k' \in InCount .. Len(args) /\ Len(args) - k' = n + 1
    BY <1>1, <1>2, <1>3
  <2>2. InCount' = InCount
    BY DEF CallerKeeps, InCount
  <2> QED
    BY <1>1, <1>6, <1>7, <1>8, <2>1, <2>2 DEF Placed, CallerKeeps, CallerPlaces, HomesKept
<1> QED
  BY <1>1, <1>5, <1>9, <1>10, CallerStep DEF CallerPlaces

\* The route is chosen (backend.py:389-403, 427).
LEMMA ChooseStep ==
  ASSUME CallInvariant, ChooseDirect \/ ChooseMoves \/ ChooseStaging, CallerKeeps
  PROVE  CallInvariant'
<1>1. /\ MoveInvariant /\ Types /\ Placed /\ regs \in [AllRegisters -> Values]
      /\ pc = "stack" /\ k <= ArgCount /\ pushed' = pushed
  BY DEF CallInvariant, MoveInvariant, TypeOK, ChooseDirect, ChooseMoves, ChooseStaging,
         StackArgumentsDone
<1>2. /\ HomesKept(Homes) /\ k \in InCount .. Len(args) /\ Len(pushed) = Len(args) - k
      /\ \A j \in 1 .. Len(args) - k : pushed[j] = args[k + j]
  BY <1>1 DEF Placed
<1>3. /\ InCount \in Nat /\ StackCount \in Nat /\ InCount + StackCount = Len(args)
      /\ ArgCount <= Len(args) => InCount = ArgCount
      /\ Len(args) <= ArgCount => InCount = Len(args)
      /\ Len(args) \in Nat /\ ArgCount \in Nat /\ k \in Nat
  BY <1>1, <1>2, ArgumentFacts, RegisterFacts
<1>4. k = InCount
  BY <1>1, <1>2, <1>3
<1>5. StackPushed(0)
  <2>1. Len(args) - k = StackCount /\ Len(pushed) = 0 + StackCount
    <3>1. Len(pushed) = Len(args) - k
      BY <1>2
    <3>2. Len(args) - InCount = StackCount
      BY <1>3
    <3>3. Len(args) - k = StackCount /\ 0 + StackCount = StackCount
      BY <1>3, <1>4, <3>2
    <3> QED
      BY <3>1, <3>3
  <2>2. ASSUME NEW j \in 1 .. StackCount PROVE pushed[0 + j] = args[InCount + j]
    <3>1. 0 + j = j /\ pushed[j] = args[k + j]
      BY <1>2, <1>3, <2>1
    <3> QED
      BY <1>4, <3>1
  <2> QED
    BY <2>1, <2>2 DEF StackPushed
<1>6. /\ InCount' = InCount /\ StackPushed(0)' /\ args' = args /\ target' = target
      /\ sp' = Top /\ fp' = KeptFrame
  BY <1>1, <1>5 DEF CallerKeeps, StackPushed, StackCount, InCount, Placed, CallerPlaces
<1>7. CASE ChooseDirect
  <2>1. /\ ~FromCallerHome /\ pc' = "direct" /\ k' = 1 /\ UNCHANGED moveVars
    BY <1>7 DEF ChooseDirect
  <2>2. MoveInvariant' /\ regs' = regs
    BY <1>1, <2>1, SameMoves
  <2>3. Types'
    BY <1>1, <1>6, <2>1 DEF Types, CallerPlaces
  <2>4. ~FromCallerHome' /\ HomesKept(CalleeHomes)' /\ Arrived(1 .. 0)'
    BY <1>2, <1>6, <2>1, <2>2
       DEF FromCallerHome, InRegisters, HomesKept, Homes, Arrived
  <2>5. Placed'
    BY <1>3, <1>6, <2>1, <2>4 DEF Placed, CallerPlaces
  <2> QED
    BY <2>1, <2>2, <2>3, <2>5, CallerStep DEF CallerPlaces
<1>8. CASE ChooseMoves
  <2>1. /\ OnlyHomes /\ pc' = "moves" /\ k' = k /\ initial' = regs /\ regs' = regs
        /\ goal' = MoveList /\ pending' = goal'
    BY <1>8 DEF ChooseMoves
  <2>2. MoveList \in MoveLists(Registers)
    <3>1. \A i \in InRegisters : args[i] \in Registers
      BY <2>1, RegisterFacts DEF OnlyHomes
    <3>2. InRegisters \subseteq Registers
      BY <1>1, ArgumentFacts, RegisterFacts
    <3>3. /\ DOMAIN MoveList \subseteq Registers
          /\ MoveList \in [DOMAIN MoveList -> Registers]
          /\ \A t \in DOMAIN MoveList : MoveList[t] # t
      BY <3>1, <3>2 DEF MoveList
    <3> QED
      BY <3>3 DEF MoveLists
  <2>3. MoveInvariant'
    BY <1>1, <2>1, <2>2, Begun
  <2>4. Types'
    BY <1>1, <1>6, <2>1 DEF Types, CallerPlaces
  <2>5. /\ OnlyHomes' /\ MoveList' = MoveList /\ \A r \in Homes : initial'[r] = r
    BY <1>2, <1>6, <2>1 DEF OnlyHomes, MoveList, InRegisters, HomesKept
  <2>6. Placed'
    BY <1>6, <2>1, <2>5 DEF Placed, CallerPlaces
  <2> QED
    BY <2>1, <2>3, <2>4, <2>6, CallerStep DEF CallerPlaces
<1>9. CASE ChooseStaging
  <2>1. /\ pc' = "push" /\ k' = 1 /\ UNCHANGED moveVars
    BY <1>9 DEF ChooseStaging
  <2>2. MoveInvariant' /\ regs' = regs
    BY <1>1, <2>1, SameMoves
  <2>3. Types'
    BY <1>1, <1>6, <2>1 DEF Types, CallerPlaces
  <2>4. HomesKept(Homes)'
    BY <1>2, <2>2 DEF HomesKept
  <2>5. StackPushed(k - 1)' /\ \A i \in 1 .. k' - 1 : FALSE
    <3>1. k' - 1 = 0
      BY <2>1
    <3> QED
      BY <1>6, <3>1 DEF StackPushed
  <2>6. Placed'
    BY <1>3, <1>6, <2>1, <2>4, <2>5 DEF Placed, CallerPlaces
  <2> QED
    BY <2>1, <2>2, <2>3, <2>6, CallerStep DEF CallerPlaces
<1> QED
  BY <1>7, <1>8, <1>9

\* No argument has a home that the placement writes: straight to its register
\* (backend.py:393-396).
LEMMA PlaceStep ==
  ASSUME CallInvariant, Place, CallerKeeps
  PROVE  CallInvariant'
<1>1. /\ MoveInvariant /\ Types /\ Placed /\ regs \in [AllRegisters -> Values]
      /\ pc = "direct" /\ pc' = pc /\ k \in InRegisters /\ Settle(Got(args[k], k))
      /\ pushed' = pushed /\ k' = k + 1
  BY DEF CallInvariant, MoveInvariant, TypeOK, Place
<1>2. /\ ~FromCallerHome /\ HomesKept(CalleeHomes) /\ Arrived(1 .. k - 1) /\ StackPushed(0)
  BY <1>1 DEF Placed
<1>3. /\ InCount \in Nat /\ InCount <= ArgCount /\ ArgCount \in Nat /\ Scratch = ArgCount
      /\ InCount <= Len(args) /\ Len(args) \in Nat /\ k \in 1 .. InCount /\ k \in AllRegisters
      /\ \A r \in 1 .. InCount : r \in ArgRegisters
  BY <1>1, ArgumentFacts, RegisterFacts
<1>4. args[k] \in Operands /\ (args[k] \in Homes => regs[args[k]] = args[k])
  <2>1. args[k] \in Operands /\ args[k] \notin CallerHomes
    BY <1>1, <1>2, <1>3, ArgumentFacts DEF FromCallerHome
  <2> QED
    BY <1>2, <2>1 DEF Homes, HomesKept
<1>5. /\ Got(args[k], k) \in [AllRegisters -> Values] /\ Got(args[k], k)[k] = args[k]
      /\ \A s \in AllRegisters : s # k /\ s # Scratch => Got(args[k], k)[s] = regs[s]
  BY <1>1, <1>3, <1>4, GotFacts
<1>6. MoveInvariant' /\ regs' = Got(args[k], k)
  BY <1>1, <1>5, Settled
<1>7. \A r \in CalleeHomes : regs'[r] = r
  <2> SUFFICES ASSUME NEW r \in CalleeHomes PROVE regs'[r] = r
    OBVIOUS
  <2>1. k \in ArgRegisters /\ Scratch \in ArgRegisters
    BY <1>3, RegisterFacts DEF ArgRegisters
  <2>2. r \in AllRegisters /\ r \notin ArgRegisters
    BY RegisterFacts DEF Homes
  <2> QED
    BY <1>2, <1>5, <1>6, <2>1, <2>2 DEF HomesKept
<1>8. \A i \in 1 .. k : regs'[i] = args[i]
  <2> SUFFICES ASSUME NEW i \in 1 .. k PROVE regs'[i] = args[i]
    OBVIOUS
  <2>1. CASE i = k
    BY <1>5, <1>6, <2>1
  <2>2. CASE i # k
    <3>1. i \in 1 .. k - 1 /\ i # Scratch /\ i \in ArgRegisters
      BY <1>3, <2>2
    <3>2. i \in AllRegisters
      BY <3>1, RegisterFacts
    <3> QED
      BY <1>2, <1>5, <1>6, <2>2, <3>1, <3>2 DEF Arrived
  <2> QED
    BY <2>1, <2>2
<1>9. Types'
  BY <1>1, <1>3 DEF Types, CallerKeeps, CallerPlaces
<1>10. Placed'
  <2>1. /\ InCount' = InCount /\ args' = args /\ StackPushed(0)' /\ FromCallerHome' = FromCallerHome
        /\ sp' = Top /\ fp' = KeptFrame
    BY <1>1, <1>2
       DEF InCount, StackPushed, StackCount, CallerKeeps, FromCallerHome, InRegisters, Placed,
           CallerPlaces
  <2>2. HomesKept(CalleeHomes)'
    BY <1>7 DEF HomesKept
  <2>3. k' \in 1 .. InCount + 1 /\ k' - 1 = k
    BY <1>1, <1>3
  <2>4. Arrived(1 .. k - 1)'
    BY <1>8, <2>1, <2>3 DEF Arrived
  <2> QED
    BY <1>1, <1>2, <2>1, <2>2, <2>3, <2>4 DEF Placed, CallerPlaces
<1> QED
  BY <1>1, <1>6, <1>9, <1>10, CallerStep DEF CallerPlaces

\* A move of the list, or the break of a cycle (backend.py:404-424).
LEMMA MoveOneStep ==
  ASSUME CallInvariant, MoveOne, CallerKeeps
  PROVE  CallInvariant'
<1>1. /\ MoveInvariant /\ Types /\ Placed /\ pc = "moves" /\ pc' = pc /\ Next
      /\ pushed' = pushed /\ k' = k
  BY DEF CallInvariant, MoveOne
<1>2. MoveInvariant' /\ initial' = initial /\ goal' = goal
  BY <1>1, OneMove
<1>3. Types'
  BY <1>1 DEF Types, CallerKeeps, CallerPlaces
<1>4. Placed'
  <2>1. OnlyHomes' = OnlyHomes /\ MoveList' = MoveList /\ StackPushed(0)' = StackPushed(0)
    BY <1>1
       DEF OnlyHomes, MoveList, InRegisters, StackPushed, StackCount, InCount, CallerKeeps
  <2> QED
    BY <1>1, <1>2, <2>1 DEF Placed, CallerPlaces, CallerKeeps
<1> QED
  BY <1>1, <1>2, <1>3, <1>4, CallerStep DEF CallerPlaces

\* The other calls stage their arguments on the stack (backend.py:427-431).
LEMMA PushArgumentStep ==
  ASSUME CallInvariant, PushArgument, CallerKeeps
  PROVE  CallInvariant'
<1>1. /\ MoveInvariant /\ Types /\ Placed /\ regs \in [AllRegisters -> Values]
      /\ pc = "push" /\ pc' = pc /\ k \in InRegisters /\ Settle(Got(args[k], 1))
      /\ pushed' = <<regs'[1]>> \o pushed /\ k' = k + 1
  BY DEF CallInvariant, MoveInvariant, TypeOK, PushArgument
<1>2. /\ HomesKept(Homes) /\ StackPushed(k - 1)
      /\ \A i \in 1 .. k - 1 : pushed[k - i] = args[i]
  BY <1>1 DEF Placed
<1>3. /\ InCount \in Nat /\ StackCount \in Nat /\ InCount <= Len(args) /\ Len(args) \in Nat
      /\ k \in 1 .. InCount /\ k \in Nat /\ args[k] \in Operands /\ 1 \in AllRegisters
  BY <1>1, ArgumentFacts, RegisterFacts DEF ArgRegisters
<1>4. /\ Got(args[k], 1) \in [AllRegisters -> Values] /\ Got(args[k], 1)[1] = args[k]
      /\ \A s \in AllRegisters : s # 1 /\ s # Scratch => Got(args[k], 1)[s] = regs[s]
  BY <1>1, <1>2, <1>3, GotFacts DEF HomesKept
<1>5. MoveInvariant' /\ regs' = Got(args[k], 1)
  BY <1>1, <1>4, Settled
<1>6. \A r \in Homes : regs'[r] = r
  BY <1>2, <1>4, <1>5, RegisterFacts DEF HomesKept
<1> DEFINE n == Len(pushed)
<1>7. /\ pushed' \in Seq(Values) /\ Len(pushed') = n + 1 /\ pushed'[1] = args[k] /\ n \in Nat
      /\ \A j \in 1 .. n : pushed'[j + 1] = pushed[j]
  <2>1. pushed \in Seq(Values) /\ regs'[1] \in Values /\ regs'[1] = args[k]
    BY <1>1, <1>3, <1>4, <1>5, RegisterFacts DEF Types
  <2> QED
    BY <1>1, <2>1, PushedFacts
<1>8. n = k - 1 + StackCount /\ \A j \in 1 .. StackCount : pushed[k - 1 + j] = args[InCount + j]
  BY <1>2 DEF StackPushed
<1> HIDE DEF n
<1>9. Len(pushed') = k + StackCount
  BY <1>3, <1>7, <1>8
<1>10. \A j \in 1 .. StackCount : pushed'[k + j] = args[InCount + j]
  <2> SUFFICES ASSUME NEW j \in 1 .. StackCount PROVE pushed'[k + j] = args[InCount + j]
    OBVIOUS
  <2>1. k - 1 + j \in 1 .. n /\ (k - 1 + j) + 1 = k + j
    BY <1>3, <1>8
  <2> QED
    BY <1>7, <1>8, <2>1
<1>11. \A i \in 1 .. k : pushed'[k + 1 - i] = args[i]
  <2> SUFFICES ASSUME NEW i \in 1 .. k PROVE pushed'[k + 1 - i] = args[i]
    OBVIOUS
  <2>1. CASE i = k
    <3>1. k + 1 - i = 1
      BY <1>3, <2>1
    <3> QED
      BY <1>7, <2>1, <3>1
  <2>2. CASE i # k
    <3>1. i \in 1 .. k - 1 /\ k - i \in 1 .. n /\ (k - i) + 1 = k + 1 - i
      BY <1>3, <1>8, <2>2
    <3> QED
      BY <1>2, <1>7, <3>1
  <2> QED
    BY <2>1, <2>2
<1>12. Types'
  BY <1>1, <1>3, <1>7 DEF Types, CallerKeeps, CallerPlaces
<1>13. Placed'
  <2>1. /\ InCount' = InCount /\ StackCount' = StackCount /\ args' = args
        /\ sp' = Top /\ fp' = KeptFrame
    BY <1>1 DEF InCount, StackCount, CallerKeeps, Placed, CallerPlaces
  <2>2. k' \in 1 .. InCount + 1 /\ k' - 1 = k
    BY <1>1, <1>3
  <2>3. StackPushed(k - 1)'
    BY <1>9, <1>10, <2>1, <2>2 DEF StackPushed
  <2>4. \A i \in 1 .. k' - 1 : pushed'[k' - i] = args'[i]
    <3>1. ASSUME NEW i \in 1 .. k' - 1 PROVE i \in 1 .. k /\ k' - i = k + 1 - i
      BY <1>1, <1>3
    <3> QED
      BY <1>11, <2>1, <3>1
  <2>5. HomesKept(Homes)'
    BY <1>6 DEF HomesKept
  <2> QED
    BY <1>1, <2>1, <2>2, <2>3, <2>4, <2>5 DEF Placed, CallerPlaces
<1> QED
  BY <1>1, <1>5, <1>12, <1>13, CallerStep DEF CallerPlaces

\* The last one is staged (backend.py:432).
LEMMA AllPushedStep ==
  ASSUME CallInvariant, AllPushed, CallerKeeps
  PROVE  CallInvariant'
<1>1. /\ MoveInvariant /\ Types /\ Placed
      /\ pc = "push" /\ pc' = "pop" /\ k \notin InRegisters /\ k' = k - 1
      /\ pushed' = pushed /\ UNCHANGED moveVars
  BY DEF CallInvariant, AllPushed
<1>2. /\ HomesKept(Homes) /\ StackPushed(k - 1) /\ k \in 1 .. InCount + 1
      /\ \A i \in 1 .. k - 1 : pushed[k - i] = args[i]
  BY <1>1 DEF Placed
<1>3. MoveInvariant' /\ regs' = regs
  BY <1>1, SameMoves
<1>4. InCount \in Nat /\ k \in Nat /\ k' = InCount /\ k = InCount + 1
  <2>1. InCount \in Nat /\ InRegisters = 1 .. InCount
    BY <1>1, ArgumentFacts
  <2> QED
    BY <1>1, <1>2, <2>1
<1>5. /\ InCount' = InCount /\ StackCount' = StackCount /\ args' = args
      /\ sp' = Top /\ fp' = KeptFrame
  BY <1>1 DEF InCount, StackCount, CallerKeeps, Placed, CallerPlaces
<1>6. Types'
  BY <1>1, <1>4 DEF Types, CallerKeeps, CallerPlaces
<1>7. Placed'
  <2>1. HomesKept(CalleeHomes)'
    BY <1>2, <1>3 DEF HomesKept, Homes
  <2>2. StackPushed(k)'
    BY <1>1, <1>2, <1>5 DEF StackPushed
  <2>3. \A i \in 1 .. k' : pushed'[k' + 1 - i] = args'[i]
    <3>1. ASSUME NEW i \in 1 .. k' PROVE k' + 1 - i = k - i /\ i \in 1 .. k - 1
      BY <1>1, <1>4
    <3> QED
      BY <1>1, <1>2, <1>5, <3>1
  <2>4. Arrived(k + 1 .. InCount)'
    <3>1. ASSUME NEW i \in k' + 1 .. InCount' PROVE FALSE
      BY <1>4, <1>5
    <3> QED
      BY <3>1 DEF Arrived
  <2>5. k' \in 0 .. InCount'
    BY <1>4, <1>5
  <2> QED
    BY <1>1, <1>5, <2>1, <2>2, <2>3, <2>4, <2>5 DEF Placed, CallerPlaces
<1> QED
  BY <1>1, <1>3, <1>6, <1>7, CallerStep DEF CallerPlaces

\* And they come back, the last first (backend.py:432-433).
LEMMA PopArgumentStep ==
  ASSUME CallInvariant, PopArgument, CallerKeeps
  PROVE  CallInvariant'
<1>1. /\ MoveInvariant /\ Types /\ Placed /\ regs \in [AllRegisters -> Values]
      /\ pc = "pop" /\ pc' = pc /\ k > 0 /\ Settle([regs EXCEPT ![k] = Head(pushed)])
      /\ pushed' = Tail(pushed) /\ k' = k - 1 /\ pushed \in Seq(Values)
  BY DEF CallInvariant, MoveInvariant, TypeOK, PopArgument, Types
<1>2. /\ HomesKept(CalleeHomes) /\ StackPushed(k) /\ k \in 0 .. InCount
      /\ \A i \in 1 .. k : pushed[k + 1 - i] = args[i]
      /\ Arrived(k + 1 .. InCount)
  BY <1>1 DEF Placed
<1>3. /\ InCount \in Nat /\ StackCount \in Nat /\ k \in 1 .. InCount /\ k \in Nat
      /\ \A i \in 1 .. InCount : i \in ArgRegisters /\ i \in AllRegisters
  BY <1>1, <1>2, ArgumentFacts, RegisterFacts
<1> DEFINE n == Len(pushed)
<1>4. n = k + StackCount /\ \A j \in 1 .. StackCount : pushed[k + j] = args[InCount + j]
  BY <1>2 DEF StackPushed
<1>5. /\ Head(pushed) = pushed[1] /\ Head(pushed) \in Values
      /\ pushed' \in Seq(Values) /\ Len(pushed') = n - 1
      /\ \A j \in 1 .. n - 1 : pushed'[j] = pushed[j + 1]
  <2>1. Len(pushed) > 0
    BY <1>3, <1>4
  <2> QED
    BY <1>1, <2>1, PoppedFacts
<1> HIDE DEF n
<1>6. Head(pushed) = args[k]
  <2>1. k \in 1 .. k /\ k + 1 - k = 1
    BY <1>3
  <2> QED
    BY <1>2, <1>5, <2>1
<1> DEFINE file == [regs EXCEPT ![k] = Head(pushed)]
<1>7. file \in [AllRegisters -> Values]
      /\ \A r \in AllRegisters : file[r] = IF r = k THEN args[k] ELSE regs[r]
  BY <1>1, <1>5, <1>6
<1>8. MoveInvariant' /\ regs' = file
  BY <1>1, <1>7, Settled
<1> HIDE DEF file
<1>9. Types'
  <2>1. k' \in Nat
    BY <1>1, <1>3
  <2> QED
    BY <1>1, <1>5, <2>1 DEF Types, CallerKeeps, CallerPlaces
<1>10. /\ InCount' = InCount /\ StackCount' = StackCount /\ args' = args
       /\ sp' = Top /\ fp' = KeptFrame
  BY <1>1 DEF InCount, StackCount, CallerKeeps, Placed, CallerPlaces
<1>11. HomesKept(CalleeHomes)'
  <2> SUFFICES ASSUME NEW r \in CalleeHomes PROVE regs'[r] = r
    BY DEF HomesKept
  <2>1. r # k /\ r \in AllRegisters
    BY <1>3, RegisterFacts DEF Homes
  <2> QED
    BY <1>2, <1>7, <1>8, <2>1 DEF HomesKept
<1>12. StackPushed(k)'
  <2>1. Len(pushed') = k' + StackCount
    BY <1>1, <1>3, <1>4, <1>5
  <2>2. ASSUME NEW j \in 1 .. StackCount PROVE pushed'[k' + j] = args[InCount + j]
    <3>1. k' + j \in 1 .. n - 1 /\ (k' + j) + 1 = k + j
      BY <1>1, <1>3, <1>4
    <3> QED
      BY <1>4, <1>5, <3>1
  <2> QED
    BY <1>10, <2>1, <2>2 DEF StackPushed
<1>13. ASSUME NEW i \in 1 .. k' PROVE pushed'[k' + 1 - i] = args[i]
  <2>1. k' + 1 - i \in 1 .. n - 1 /\ (k' + 1 - i) + 1 = k + 1 - i /\ i \in 1 .. k
    BY <1>1, <1>3, <1>4
  <2> QED
    BY <1>2, <1>5, <2>1
<1>14. Arrived(k + 1 .. InCount)'
  <2> SUFFICES ASSUME NEW i \in k' + 1 .. InCount' PROVE regs'[i] = args'[i]
    BY DEF Arrived
  <2>1. i \in 1 .. InCount /\ (i = k \/ i \in k + 1 .. InCount)
    BY <1>1, <1>3, <1>10
  <2> QED
    BY <1>2, <1>3, <1>7, <1>8, <1>10, <2>1 DEF Arrived
<1>15. Placed'
  <2>1. k' \in 0 .. InCount
    BY <1>1, <1>3
  <2> QED
    BY <1>1, <1>10, <1>11, <1>12, <1>13, <1>14, <2>1 DEF Placed, CallerPlaces
<1> QED
  BY <1>1, <1>8, <1>9, <1>15, CallerStep DEF CallerPlaces

\* Whichever route was taken, the call is made (backend.py:943-952).
LEMMA JumpStep ==
  ASSUME CallInvariant, Jump, CallerKeeps
  PROVE  CallInvariant'
<1>1. /\ MoveInvariant /\ Types /\ Placed /\ pc' = "call" /\ UNCHANGED moveVars
      /\ k' = k /\ pushed' = pushed /\ pc \in CallerPlaces
  BY DEF CallInvariant, Jump, CallerPlaces
<1>2. MoveInvariant' /\ regs' = regs
  BY <1>1, SameMoves
<1>3. /\ InCount \in Nat /\ k \in Nat /\ InRegisters = 1 .. InCount
      /\ \A i \in 1 .. InCount : i \in ArgRegisters /\ i \in Registers
  BY <1>1, ArgumentFacts, RegisterFacts DEF Types
<1>4. HomesKept(CalleeHomes) /\ Arrived(1 .. InCount) /\ StackPushed(0)
  <2>1. CASE pc = "direct" /\ k \notin InRegisters
    <3>1. HomesKept(CalleeHomes) /\ k \in 1 .. InCount + 1 /\ Arrived(1 .. k - 1) /\ StackPushed(0)
      BY <1>1, <2>1 DEF Placed
    <3>2. k - 1 = InCount
      BY <1>3, <2>1, <3>1
    <3> QED
      BY <3>1, <3>2
  <2>2. CASE pc = "moves" /\ pending = NoMoves
    <3>1. OnlyHomes /\ goal = MoveList /\ StackPushed(0) /\ \A r \in Homes : initial[r] = r
      BY <1>1, <2>2 DEF Placed
    <3>2. /\ DOMAIN goal = {j \in InRegisters : args[j] # j}
          /\ \A i \in DOMAIN goal : goal[i] = args[i]
      BY <3>1 DEF MoveList
    <3>3. \A r \in Registers :
            regs[r] = IF r \in DOMAIN goal THEN initial[goal[r]] ELSE initial[r]
      BY <1>1, <2>2, MovesDone
    <3>4. ASSUME NEW i \in 1 .. InCount PROVE regs[i] = args[i]
      <4>1. args[i] \in Homes /\ i \in Registers
        BY <1>3, <3>1 DEF OnlyHomes
      <4> QED
        BY <1>3, <3>1, <3>2, <3>3, <4>1
    <3>5. ASSUME NEW r \in CalleeHomes PROVE regs[r] = r
      <4>1. r \in Homes /\ r \in Registers /\ r \notin DOMAIN goal
        BY <1>3, <3>2, RegisterFacts DEF Homes
      <4> QED
        BY <3>1, <3>3, <4>1
    <3> QED
      BY <3>1, <3>4, <3>5 DEF HomesKept, Arrived
  <2>3. CASE pc = "pop" /\ k = 0
    <3>1. k + 1 = 1
      BY <2>3
    <3> QED
      BY <1>1, <2>3, <3>1 DEF Placed
  <2> QED
    BY <2>1, <2>2, <2>3 DEF Jump
<1>5. Types'
  BY <1>1 DEF Types, CallerKeeps, CallerPlaces
<1>6. Placed'
  <2>1. HomesKept(CalleeHomes)' /\ Arrived(1 .. InCount)' /\ StackPushed(0)'
    BY <1>1, <1>2, <1>4 DEF HomesKept, Arrived, StackPushed, StackCount, InCount, CallerKeeps
  <2> QED
    BY <1>1, <2>1 DEF Placed, CallerPlaces, CallerKeeps
<1> QED
  BY <1>1, <1>2, <1>5, <1>6, CallerStep DEF CallerPlaces

----------------------------------------------------------------------------
(* The saved registers, in order.                                           *)

\* A set of natural numbers has a least element.
LEMMA LeastNatural ==
  ASSUME NEW S \in SUBSET Nat, S # {}
  PROVE  \E m \in S : \A n \in S : m <= n
<1> DEFINE family == {0 .. n : n \in S}
           R == StrictSubsetOrdering(Nat)
<1>1. IsWellFoundedOn(R, FiniteSubsetsOf(Nat))
  BY FS_StrictSubsetOrderingWellFounded
<1>2. \A n \in S : 0 .. n \in FiniteSubsetsOf(Nat)
  BY FS_Interval DEF FiniteSubsetsOf
<1>3. family \subseteq FiniteSubsetsOf(Nat) /\ family # {}
  BY <1>2
<1> HIDE DEF R
<1>4. \E x \in family : \A y \in family : ~ (<<y, x>> \in R)
  BY <1>1, <1>3, WFMin
<1>5. PICK m \in S : \A n \in S : ~ (<<0 .. n, 0 .. m>> \in R)
  BY <1>4
<1>6. ASSUME NEW n \in S, n < m
      PROVE  FALSE
  <2>1. /\ 0 .. n \in SUBSET Nat /\ 0 .. m \in SUBSET Nat
        /\ 0 .. n \subseteq 0 .. m /\ m \in 0 .. m /\ m \notin 0 .. n
    BY <1>6
  <2>2. <<0 .. n, 0 .. m>> \in R
    BY <2>1 DEF R, StrictSubsetOrdering
  <2> QED
    BY <1>5, <2>2
<1> QED
  BY <1>6

\* An enumeration of S from its least element up.
Increasing(s) == \A i, j \in DOMAIN s : i < j => s[i] < s[j]
Enumerable(S) == \E s \in [1 .. Cardinality(S) -> S] : Increasing(s)

\* A set whose least element is m is enumerated if the rest is.
LEMMA OneMoreElement ==
  ASSUME NEW S \in SUBSET Nat, IsFiniteSet(S), NEW m \in S, \A n \in S : m <= n,
         Enumerable(S \ {m})
  PROVE  Enumerable(S)
<1> DEFINE n == Cardinality(S)
<1>1. n \in Nat /\ n >= 1 /\ Cardinality(S \ {m}) = n - 1
  <2>1. n \in Nat /\ n # 0
    BY FS_CardinalityType, FS_EmptySet
  <2> QED
    BY <2>1, FS_RemoveElement
<1>2. PICK t \in [1 .. n - 1 -> S \ {m}] : Increasing(t)
  BY <1>1 DEF Enumerable
<1> HIDE DEF n
<1> DEFINE s == [j \in 1 .. n |-> IF j = 1 THEN m ELSE t[j - 1]]
<1>3. \A j \in 1 .. n : j # 1 => j - 1 \in 1 .. n - 1 /\ t[j - 1] \in S /\ t[j - 1] > m
  <2> SUFFICES ASSUME NEW j \in 1 .. n, j # 1
               PROVE  j - 1 \in 1 .. n - 1 /\ t[j - 1] \in S /\ t[j - 1] > m
    OBVIOUS
  <2>1. j - 1 \in 1 .. n - 1
    BY <1>1
  <2>2. t[j - 1] \in S /\ t[j - 1] # m
    BY <1>2, <2>1
  <2>3. t[j - 1] \in Nat /\ m \in Nat /\ m <= t[j - 1]
    BY <2>2
  <2> QED
    BY <2>1, <2>2, <2>3
<1>4. s \in [1 .. n -> S]
  BY <1>3
<1>5. Increasing(s)
  <2> SUFFICES ASSUME NEW i \in 1 .. n, NEW j \in 1 .. n, i < j PROVE s[i] < s[j]
    BY DEF Increasing
  <2>1. j # 1 /\ s[j] = t[j - 1]
    BY <1>1
  <2>2. CASE i = 1
    BY <1>3, <2>1, <2>2
  <2>3. CASE i # 1
    <3>1. s[i] = t[i - 1] /\ i - 1 \in 1 .. n - 1 /\ j - 1 \in 1 .. n - 1 /\ i - 1 < j - 1
      BY <1>1, <1>3, <2>1, <2>3
    <3> QED
      BY <1>2, <2>1, <3>1 DEF Increasing
  <2> QED
    BY <2>2, <2>3
<1> QED
  BY <1>4, <1>5 DEF Enumerable, n

\* A finite set of natural numbers has one.
LEMMA EnumerationExists ==
  ASSUME NEW S \in SUBSET Nat, IsFiniteSet(S)
  PROVE  Enumerable(S)
<1> DEFINE bad == {n \in Nat : \E T \in SUBSET Nat :
                     IsFiniteSet(T) /\ Cardinality(T) = n /\ ~Enumerable(T)}
<1>1. SUFFICES ASSUME bad # {} PROVE FALSE
  BY FS_CardinalityType
<1>2. PICK n \in bad : \A i \in bad : n <= i
  BY <1>1, LeastNatural
<1>3. PICK T \in SUBSET Nat : IsFiniteSet(T) /\ Cardinality(T) = n /\ ~Enumerable(T)
  BY <1>2
<1>4. T # {}
  <2> SUFFICES ASSUME T = {} PROVE Enumerable(T)
    BY <1>3
  <2>1. Cardinality(T) = 0 /\ 1 .. 0 = {}
    BY FS_EmptySet
  <2> DEFINE s == [j \in 1 .. 0 |-> j]
  <2>2. s \in [1 .. 0 -> T] /\ Increasing(s)
    BY <2>1 DEF Increasing
  <2> HIDE DEF s
  <2> QED
    BY <2>1, <2>2 DEF Enumerable
<1>5. PICK m \in T : \A i \in T : m <= i
  BY <1>4, LeastNatural
<1>6. /\ T \ {m} \in SUBSET Nat /\ IsFiniteSet(T \ {m}) /\ Cardinality(T \ {m}) = n - 1
      /\ n \in Nat /\ n # 0
  BY <1>3, <1>5, FS_RemoveElement, FS_EmptySet
<1>7. n - 1 \in Nat /\ ~(n <= n - 1)
  BY <1>6
<1>8. ~Enumerable(T \ {m})
  BY <1>3, <1>5, OneMoreElement
<1>9. n - 1 \in bad
  BY <1>6, <1>7, <1>8
<1> QED
  BY <1>2, <1>7, <1>9

\* And it meets every element once.
LEMMA EnumerationFacts ==
  ASSUME NEW S \in SUBSET Nat, IsFiniteSet(S),
         NEW s \in [1 .. Cardinality(S) -> S], Increasing(s)
  PROVE  /\ \A i, j \in 1 .. Cardinality(S) : s[i] = s[j] => i = j
         /\ \A x \in S : \E j \in 1 .. Cardinality(S) : s[j] = x
<1> DEFINE n == Cardinality(S)
<1>1. n \in Nat
  BY FS_CardinalityType
<1>2. ASSUME NEW i \in 1 .. n, NEW j \in 1 .. n, s[i] = s[j] PROVE i = j
  <2>1. s[i] \in Nat /\ s[j] \in Nat /\ (i < j => s[i] < s[j]) /\ (j < i => s[j] < s[i])
    BY DEF Increasing
  <2>2. ~(i < j) /\ ~(j < i)
    BY <1>2, <2>1
  <2> QED
    BY <1>1, <2>2
<1>3. Cardinality(1 .. n) = n
  BY <1>1, FS_Interval
<1>4. s \in Injection(1 .. n, S)
  BY <1>2 DEF Injection, IsInjective
<1>5. s \in Surjection(1 .. n, S)
  BY <1>3, <1>4, FS_Injection
<1> QED
  BY <1>2, <1>5 DEF Surjection

----------------------------------------------------------------------------
(* The layout of a frame.                                                   *)

SlotsTo(i) == {j \in 1 .. i : home[j] = InSlot}

\* The shape of the callee.
LEMMA ShapeFacts ==
  ASSUME Types, FrameTypes
  PROVE  /\ DOMAIN home = 1 .. Len(args) /\ Params = Len(args)
         /\ \A i \in DOMAIN home : home[i] \in Homes \union {InSlot, Dead}
         /\ \A i, j \in DOMAIN home : home[i] = home[j] /\ home[i] \in Homes => i = j
         /\ InSlot \notin Homes
         /\ Saved \in SUBSET CalleeHomes /\ Saved \in SUBSET Nat /\ IsFiniteSet(Saved)
         /\ \A i \in DOMAIN home : home[i] \in CalleeHomes => home[i] \in Saved
<1>1. Len(args) \in Nat
  BY ArgumentFacts
<1> DEFINE S == Homes \union {InSlot, Dead}
<1>2. /\ home \in [1 .. Len(args) -> S]
      /\ \A i, j \in 1 .. Len(args) : home[i] = home[j] /\ home[i] \in Homes => i = j
  BY DEF FrameTypes, Allocation
<1> HIDE DEF S
<1>3. home \in Seq(S)
  BY <1>1, <1>2, SeqDef
<1>4. DOMAIN home = 1 .. Len(args) /\ Params = Len(args)
  BY <1>1, <1>2, <1>3, LenProperties DEF Params
<1>5. InSlot \notin Homes
  BY CallAssumption, FrameAssumption DEF Homes, InSlot
<1>6. Saved \in SUBSET CalleeHomes
  BY DEF Saved, FrameTypes
<1>7. IsFiniteSet(CalleeHomes)
  BY CallAssumption, MoveAssumption, FS_Subset
<1>8. Saved \in SUBSET Nat /\ IsFiniteSet(Saved)
  BY <1>6, <1>7, FrameAssumption, FS_Subset
<1>9. \A i \in DOMAIN home : home[i] \in CalleeHomes => home[i] \in Saved
  BY DEF Saved
<1> QED
  BY <1>2, <1>4, <1>5, <1>6, <1>8, <1>9 DEF S

\* Every saved register is saved once.
LEMMA SavedFacts ==
  ASSUME Types, FrameTypes
  PROVE  /\ SavedCount \in Nat /\ Len(SavedInOrder) = SavedCount
         /\ \A j \in 1 .. SavedCount : SavedInOrder[j] \in Saved
         /\ \A i, j \in 1 .. SavedCount : SavedInOrder[i] = SavedInOrder[j] => i = j
         /\ \A r \in Saved : \E j \in 1 .. SavedCount : SavedInOrder[j] = r
<1>1. Saved \in SUBSET Nat /\ IsFiniteSet(Saved)
  BY ShapeFacts
<1>2. SavedCount \in Nat
  BY <1>1, FS_CardinalityType DEF SavedCount
<1>3. Enumerable(Saved)
  BY <1>1, EnumerationExists
<1>4. SavedInOrder \in [1 .. SavedCount -> Saved] /\ Increasing(SavedInOrder)
  BY <1>3 DEF Enumerable, SavedInOrder, Increasing, SavedCount
<1>5. SavedInOrder \in Seq(Saved)
  BY <1>2, <1>4, SeqDef
<1>6. Len(SavedInOrder) = SavedCount
  BY <1>2, <1>4, <1>5, LenProperties
<1> DEFINE s == SavedInOrder
<1> HIDE DEF s
<1>7. /\ \A i, j \in 1 .. SavedCount : SavedInOrder[i] = SavedInOrder[j] => i = j
      /\ \A r \in Saved : \E j \in 1 .. SavedCount : SavedInOrder[j] = r
  <2>1. s \in [1 .. Cardinality(Saved) -> Saved] /\ Increasing(s)
    BY <1>4 DEF SavedCount, s
  <2> QED
    BY <1>1, <2>1, EnumerationFacts DEF SavedCount, s
<1> QED
  BY <1>2, <1>4, <1>6, <1>7

\* How many slots lie at or above that of parameter i.
LEMMA SlotCounts ==
  ASSUME Types, FrameTypes
  PROVE  /\ \A i \in 0 .. Params :
              /\ Cardinality(SlotsTo(i)) \in Nat
              /\ Cardinality(SlotsTo(i)) <= Cardinality(SlotsTo(Params))
         /\ Cardinality(SlotsTo(Params)) <= Params
         /\ \A i \in 1 .. Params : home[i] = InSlot => Cardinality(SlotsTo(i)) > 0
         /\ \A i, j \in 1 .. Params :
              i < j /\ home[j] = InSlot => Cardinality(SlotsTo(i)) < Cardinality(SlotsTo(j))
<1>1. Params \in Nat
  BY ShapeFacts, ArgumentFacts
<1>2. ASSUME NEW j \in 0 .. Params, NEW i \in 0 .. j
      PROVE  /\ Cardinality(SlotsTo(i)) \in Nat /\ Cardinality(SlotsTo(j)) \in Nat
             /\ Cardinality(SlotsTo(i)) <= Cardinality(SlotsTo(j))
             /\ Cardinality(SlotsTo(j)) <= j
             /\ i < j /\ home[j] = InSlot => Cardinality(SlotsTo(i)) < Cardinality(SlotsTo(j))
  <2>1. i \in Nat /\ j \in Nat /\ i <= j
    BY <1>1
  <2>2. IsFiniteSet(1 .. j) /\ Cardinality(1 .. j) = j
    BY <2>1, FS_Interval
  <2>3. SlotsTo(j) \in SUBSET (1 .. j) /\ SlotsTo(i) \in SUBSET SlotsTo(j)
    BY <2>1 DEF SlotsTo
  <2>4. IsFiniteSet(SlotsTo(j)) /\ Cardinality(SlotsTo(j)) <= j
    BY <2>2, <2>3, FS_Subset
  <2>5. /\ IsFiniteSet(SlotsTo(i)) /\ Cardinality(SlotsTo(i)) <= Cardinality(SlotsTo(j))
        /\ Cardinality(SlotsTo(i)) = Cardinality(SlotsTo(j)) => SlotsTo(i) = SlotsTo(j)
    BY <2>3, <2>4, FS_Subset
  <2>6. i < j /\ home[j] = InSlot => SlotsTo(i) # SlotsTo(j)
    BY <2>1 DEF SlotsTo
  <2>7. Cardinality(SlotsTo(i)) \in Nat /\ Cardinality(SlotsTo(j)) \in Nat
    BY <2>4, <2>5, FS_CardinalityType
  <2> QED
    BY <2>4, <2>5, <2>6, <2>7
<1>3. ASSUME NEW i \in 1 .. Params, home[i] = InSlot
      PROVE  Cardinality(SlotsTo(i)) > 0
  <2>1. 0 \in 0 .. i /\ i \in 0 .. Params /\ 0 < i
    BY <1>1
  <2>2. /\ Cardinality(SlotsTo(0)) \in Nat /\ Cardinality(SlotsTo(i)) \in Nat
        /\ Cardinality(SlotsTo(0)) < Cardinality(SlotsTo(i))
    BY <1>2, <1>3, <2>1
  <2> QED
    BY <2>2
<1>4. ASSUME NEW i \in 0 .. Params
      PROVE  /\ Cardinality(SlotsTo(i)) \in Nat
             /\ Cardinality(SlotsTo(i)) <= Cardinality(SlotsTo(Params))
  BY <1>1, <1>2
<1>5. Cardinality(SlotsTo(Params)) <= Params
  BY <1>1, <1>2
<1>6. ASSUME NEW i \in 1 .. Params, NEW j \in 1 .. Params, i < j, home[j] = InSlot
      PROVE  Cardinality(SlotsTo(i)) < Cardinality(SlotsTo(j))
  <2>1. j \in 0 .. Params /\ i \in 0 .. j
    BY <1>1, <1>6
  <2> QED
    BY <1>2, <1>6, <2>1
<1> QED
  BY <1>3, <1>4, <1>5, <1>6

\* The words of a frame, from the top: the link, the saved registers, the
\* frame pointer, the frame, the staged argument.
LEMMA Layout ==
  ASSUME Types, FrameTypes
  PROVE  /\ Top \in Nat /\ LinkWords \in {0, 1} /\ StagedWords \in {0, 1}
         /\ SaveBase = Top - LinkWords /\ SaveBase \in Nat
         /\ Inner = SaveBase - SavedCount /\ Inner \in Nat
         /\ FramePointer = Inner - 1 /\ FramePointer \in Nat
         /\ FrameWords \in Nat
         /\ UsesFrame => BodyStack = FramePointer - FrameWords
         /\ ~UsesFrame => BodyStack = Inner
         /\ BodyStack \in Nat /\ BodyStack <= Inner /\ BodyStack > 0
         /\ StackCount \in Nat
<1> DEFINE n == Cardinality(SlotsTo(Params))
<1>1. n \in Nat /\ n <= Len(args) /\ Len(args) \in Nat /\ StackCount \in Nat
  <2>1. Params = Len(args) /\ Params \in Nat /\ StackCount \in Nat
    BY ShapeFacts, ArgumentFacts
  <2>2. Params \in 0 .. Params
    BY <2>1
  <2> QED
    BY <2>1, <2>2, SlotCounts
<1> HIDE DEF n
<1>2. FrameWords = locals + n
  <2>1. {i \in DOMAIN home : home[i] = InSlot} = SlotsTo(Params)
    BY ShapeFacts DEF SlotsTo
  <2> QED
    BY <2>1 DEF FrameWords, n
<1>3. locals \in Nat /\ locals <= MaxLocals /\ MaxLocals \in Nat /\ Top \in Nat
  BY FrameAssumption DEF FrameTypes
<1> DEFINE c == Cardinality(CalleeHomes)
<1>4. c \in Nat /\ SavedCount \in Nat /\ SavedCount <= c
  <2>1. IsFiniteSet(CalleeHomes)
    BY CallAssumption, MoveAssumption, FS_Subset
  <2> QED
    BY <2>1, ShapeFacts, SavedFacts, FS_Subset, FS_CardinalityType DEF SavedCount
<1>5. Len(args) + MaxLocals + c + 3 <= Top
  BY FrameAssumption DEF FrameTypes
<1> HIDE DEF c
<1>6. LinkWords \in {0, 1} /\ StagedWords \in {0, 1}
  BY DEF LinkWords, StagedWords
<1>7. FrameWords \in Nat /\ FrameWords <= MaxLocals + Len(args)
  BY <1>1, <1>2, <1>3
<1>8. SaveBase = Top - LinkWords /\ SaveBase \in Int /\ SaveBase >= Top - 1
  BY <1>3, <1>6 DEF SaveBase
<1>9. Inner = SaveBase - SavedCount /\ Inner \in Int /\ Inner >= Top - 1 - c
  BY <1>3, <1>4, <1>8 DEF Inner
<1>10. FramePointer = Inner - 1 /\ FramePointer \in Int
  BY <1>9 DEF FramePointer
<1>11. Inner >= FrameWords + 2
  BY <1>1, <1>3, <1>4, <1>5, <1>7, <1>9
<1>12. BodyStack \in Nat /\ BodyStack <= Inner /\ BodyStack > 0
       /\ (UsesFrame => BodyStack = FramePointer - FrameWords)
       /\ (~UsesFrame => BodyStack = Inner)
  <2>1. CASE UsesFrame
    <3>1. BodyStack = FramePointer - FrameWords
      BY <2>1 DEF BodyStack
    <3> QED
      BY <1>7, <1>9, <1>10, <1>11, <2>1, <3>1
  <2>2. CASE ~UsesFrame
    <3>1. BodyStack = Inner
      BY <2>2 DEF BodyStack
    <3> QED
      BY <1>7, <1>9, <1>11, <2>2, <3>1
  <2> QED
    BY <2>1, <2>2
<1>13. SaveBase \in Nat /\ Inner \in Nat /\ FramePointer \in Nat
  BY <1>4, <1>7, <1>8, <1>9, <1>10, <1>11
<1> QED
  BY <1>1, <1>3, <1>6, <1>7, <1>8, <1>9, <1>10, <1>12, <1>13

\* A parameter's slot is a word of the frame, and no other parameter's.
LEMMA SlotFacts ==
  ASSUME Types, FrameTypes, fp = IF UsesFrame THEN FramePointer ELSE KeptFrame
  PROVE  /\ \A i \in DOMAIN home : home[i] = InSlot =>
              UsesFrame /\ Slot(i) \in Nat /\ BodyStack <= Slot(i) /\ Slot(i) < FramePointer
         /\ \A i, j \in DOMAIN home :
              i # j /\ home[i] = InSlot /\ home[j] = InSlot => Slot(i) # Slot(j)
<1>1. DOMAIN home = 1 .. Params /\ Params \in Nat
  BY ShapeFacts, ArgumentFacts
<1>2. \A i \in 1 .. Params : Slot(i) = fp - Cardinality(SlotsTo(i))
  BY DEF Slot, SlotsTo
<1>3. FrameWords = locals + Cardinality(SlotsTo(Params)) /\ locals \in Nat
  <2>1. {i \in DOMAIN home : home[i] = InSlot} = SlotsTo(Params)
    BY <1>1 DEF SlotsTo
  <2>2. FrameWords = locals + Cardinality(SlotsTo(Params))
    BY <2>1 DEF FrameWords
  <2>3. locals \in 0 .. MaxLocals /\ MaxLocals \in Nat
    BY FrameAssumption DEF FrameTypes
  <2> QED
    BY <2>2, <2>3
<1>4. \A i \in 1 .. Params :
        /\ Cardinality(SlotsTo(i)) \in Nat
        /\ Cardinality(SlotsTo(i)) <= Cardinality(SlotsTo(Params))
        /\ home[i] = InSlot => Cardinality(SlotsTo(i)) > 0
  BY <1>1, SlotCounts
<1>5. Cardinality(SlotsTo(Params)) \in Nat
  <2>1. Params \in 0 .. Params
    BY <1>1
  <2> QED
    BY <2>1, SlotCounts
<1>6. ASSUME NEW i \in 1 .. Params, home[i] = InSlot
      PROVE  UsesFrame /\ Slot(i) \in Nat /\ BodyStack <= Slot(i) /\ Slot(i) < FramePointer
  <2>1. FrameWords > 0
    BY <1>3, <1>4, <1>5, <1>6
  <2>2. UsesFrame /\ fp = FramePointer
    BY <2>1 DEF UsesFrame
  <2>3. BodyStack = FramePointer - FrameWords /\ BodyStack \in Nat /\ FramePointer \in Nat
        /\ FrameWords \in Nat
    BY <2>2, Layout
  <2>4. /\ Slot(i) = FramePointer - Cardinality(SlotsTo(i))
        /\ Cardinality(SlotsTo(i)) \in Nat /\ Cardinality(SlotsTo(i)) > 0
        /\ Cardinality(SlotsTo(i)) <= FrameWords
    BY <1>2, <1>3, <1>4, <1>5, <1>6, <2>2
  <2> QED
    BY <2>2, <2>3, <2>4
<1>7. ASSUME NEW i \in 1 .. Params, NEW j \in 1 .. Params, i < j,
             home[i] = InSlot, home[j] = InSlot
      PROVE  Slot(i) # Slot(j)
  <2>1. Cardinality(SlotsTo(i)) < Cardinality(SlotsTo(j))
    BY <1>7, SlotCounts
  <2>2. fp \in Nat
    BY <1>6, <1>7, Layout
  <2>3. Cardinality(SlotsTo(i)) \in Nat /\ Cardinality(SlotsTo(j)) \in Nat
    BY <1>4
  <2> QED
    BY <1>2, <2>1, <2>2, <2>3
<1>8. ASSUME NEW i \in 1 .. Params, NEW j \in 1 .. Params, i # j,
             home[i] = InSlot, home[j] = InSlot
      PROVE  Slot(i) # Slot(j)
  <2>1. i < j \/ j < i
    BY <1>1, <1>8
  <2> QED
    BY <1>7, <1>8, <2>1
<1> QED
  BY <1>1, <1>6, <1>8

\* A callee with stack arguments has a frame, and finds them above its saves.
LEMMA StackArgumentFacts ==
  ASSUME Types, FrameTypes, fp = IF UsesFrame THEN FramePointer ELSE KeptFrame,
         NEW i \in Nat, i > ArgCount, i <= Params
  PROVE  /\ i - ArgCount \in 1 .. StackCount /\ InCount + (i - ArgCount) = i
         /\ StackArgument(i) = Top + (i - ArgCount) - 1
<1>1. /\ Params = Len(args) /\ Len(args) \in Nat /\ ArgCount \in Nat
      /\ InCount = ArgCount /\ InCount + StackCount = Len(args) /\ StackCount \in Nat
  BY ShapeFacts, ArgumentFacts, RegisterFacts
<1>2. i - ArgCount \in 1 .. StackCount /\ InCount + (i - ArgCount) = i
  BY <1>1
<1>3. fp = FramePointer
  BY <1>1 DEF UsesFrame
<1>4. /\ Top \in Nat /\ LinkWords \in {0, 1} /\ SaveBase = Top - LinkWords
      /\ Inner = SaveBase - SavedCount /\ FramePointer = Inner - 1 /\ SavedCount \in Nat
  BY Layout, SavedFacts
<1>5. StackArgument(i) = FramePointer + (i - ArgCount) + SavedCount + LinkWords
  BY <1>3 DEF StackArgument, SavedCount, LinkWords
<1> QED
  BY <1>1, <1>2, <1>4, <1>5

----------------------------------------------------------------------------
(* The prologue.                                                            *)

\* What the callee's code leaves alone.
CalleeKeeps == UNCHANGED <<shape, callVars, pushed>>

\* The derived names mean what they meant.
LEMMA SameShape ==
  ASSUME CalleeKeeps
  PROVE  /\ args' = args /\ target' = target /\ pushed' = pushed /\ home' = home
         /\ calls' = calls
         /\ InCount' = InCount /\ StackCount' = StackCount
         /\ Params' = Params /\ Saved' = Saved /\ SavedInOrder' = SavedInOrder
         /\ SavedCount' = SavedCount /\ UsesFrame' = UsesFrame /\ Staged' = Staged
         /\ StagedWords' = StagedWords /\ SaveBase' = SaveBase
         /\ Inner' = Inner /\ FramePointer' = FramePointer /\ BodyStack' = BodyStack
         /\ Early' = Early /\ Moving' = Moving
         /\ fp' = fp => \A i : Slot(i)' = Slot(i)
<1>1. /\ args' = args /\ target' = target /\ pushed' = pushed
      /\ home' = home /\ others' = others /\ locals' = locals /\ calls' = calls
  BY DEF CalleeKeeps, shape, callVars
<1>2. /\ InCount' = InCount /\ StackCount' = StackCount /\ Params' = Params /\ Saved' = Saved
      /\ Early' = Early /\ Staged' = Staged /\ FrameWords' = FrameWords
  BY <1>1 DEF InCount, StackCount, Params, Saved, Early, Staged, FrameWords
<1>3. /\ SavedInOrder' = SavedInOrder /\ SavedCount' = SavedCount /\ UsesFrame' = UsesFrame
      /\ Moving' = Moving /\ StagedWords' = StagedWords /\ SaveBase' = SaveBase
  BY <1>1, <1>2
     DEF SavedInOrder, SavedCount, UsesFrame, Moving, StagedWords, SaveBase, LinkWords
<1>4. Inner' = Inner /\ FramePointer' = FramePointer /\ BodyStack' = BodyStack
  BY <1>2, <1>3 DEF Inner, FramePointer, BodyStack
<1>5. fp' = fp => \A i : Slot(i)' = Slot(i)
  BY <1>1 DEF Slot
<1> QED
  BY <1>1, <1>2, <1>3, <1>4, <1>5

\* A step of the callee.
LEMMA CalleeStep ==
  ASSUME CallInvariant, pc \in CalleePlaces, pc' \in CalleePlaces, CalleeKeeps,
         k' \in Nat, mem' \in [0 .. Top + StackCount -> Values], link' \in Values,
         MoveInvariant', Stacked', Held'
  PROVE  CallInvariant'
<1>1. Types /\ FrameTypes
  BY DEF CallInvariant
<1>2. Types' /\ FrameTypes'
  <2>1. /\ args' = args /\ target' = target /\ pushed' = pushed /\ home' = home
        /\ others' = others /\ locals' = locals /\ calls' = calls /\ StackCount' = StackCount
    BY SameShape DEF CalleeKeeps, shape
  <2> QED
    BY <1>1, <2>1 DEF Types, FrameTypes, CalleePlaces
<1>3. Placed' /\ Restored'
  BY DEF Placed, Restored, CalleePlaces, CallerPlaces
<1> QED
  BY <1>2, <1>3 DEF CallInvariant

\* Words above the ones a step writes stay.
LEMMA WordsKept ==
  ASSUME Types, FrameTypes, CalleeKeeps, NEW a \in Nat,
         \A b \in DOMAIN mem : b >= a => mem'[b] = mem[b]
  PROVE  /\ a <= Top /\ ArgumentWords => ArgumentWords'
         /\ a < Top /\ LinkSaved => LinkSaved'
         /\ a <= FramePointer /\ FrameSaved => FrameSaved'
         /\ \A n \in 0 .. SavedCount :
              a <= SaveBase - n /\ RegistersSaved(n) => RegistersSaved(n)'
<1>1. /\ Top \in Nat /\ StackCount \in Nat /\ DOMAIN mem = 0 .. Top + StackCount
      /\ SaveBase \in Nat /\ SaveBase <= Top /\ FramePointer \in Nat /\ FramePointer < SaveBase
      /\ SavedCount \in Nat /\ SaveBase - SavedCount \in Nat
  <2>1. DOMAIN mem = 0 .. Top + StackCount /\ SavedCount \in Nat
    BY SavedFacts DEF FrameTypes
  <2> QED
    BY <2>1, Layout
<1>2. ASSUME a <= Top, ArgumentWords PROVE ArgumentWords'
  <2>1. \A j \in 1 .. StackCount : Top + j - 1 \in DOMAIN mem /\ Top + j - 1 >= a
    BY <1>1, <1>2
  <2> QED
    BY <1>2, <2>1, SameShape DEF ArgumentWords
<1>3. ASSUME a < Top, LinkSaved PROVE LinkSaved'
  <2>1. Top - 1 \in DOMAIN mem /\ Top - 1 >= a
    BY <1>1, <1>3
  <2> QED
    BY <1>3, <2>1, SameShape DEF LinkSaved
<1>4. ASSUME a <= FramePointer, FrameSaved PROVE FrameSaved'
  <2>1. FramePointer \in DOMAIN mem /\ FramePointer >= a
    BY <1>1, <1>4
  <2> QED
    BY <1>4, <2>1, SameShape DEF FrameSaved
<1>5. ASSUME NEW n \in 0 .. SavedCount, a <= SaveBase - n, RegistersSaved(n)
      PROVE  RegistersSaved(n)'
  <2>1. \A j \in 1 .. n : SaveBase - j \in DOMAIN mem /\ SaveBase - j >= a
    BY <1>1, <1>5
  <2> QED
    BY <1>5, <2>1, SameShape DEF RegistersSaved
<1> QED
  BY <1>2, <1>3, <1>4, <1>5

\* A word pushed at an address of the stack.
LEMMA WordPushed ==
  ASSUME Types, FrameTypes, NEW a \in Nat, a < Top, NEW v \in Values,
         mem' = [mem EXCEPT ![a] = v]
  PROVE  /\ mem' \in [0 .. Top + StackCount -> Values] /\ mem'[a] = v
         /\ \A b \in DOMAIN mem : b # a => mem'[b] = mem[b]
         /\ \A b \in DOMAIN mem : b >= a + 1 => mem'[b] = mem[b]
<1>1. mem \in [0 .. Top + StackCount -> Values]
  BY DEF FrameTypes
<1>2. a \in 0 .. Top + StackCount
  BY Layout
<1>3. \A b \in DOMAIN mem : b >= a + 1 => b # a
  BY <1>1, <1>2
<1> QED
  BY <1>1, <1>2, <1>3

\* The callee is entered: everything is as the caller left it.
LEMMA EnterStep ==
  ASSUME CallInvariant, Enter
  PROVE  CallInvariant'
<1>1. /\ MoveInvariant /\ Types /\ Placed
      /\ pc = "call" /\ pc' = "link" /\ k' = 1 /\ args \in EnteredLists
      /\ home' \in Allocation(Len(args)) /\ locals' \in 0 .. MaxLocals /\ calls' \in BOOLEAN
      /\ others' \in SUBSET (CalleeHomes \ {home'[i] : i \in DOMAIN home'})
      /\ mem' = [a \in 0 .. Top + Len(pushed) |-> StackWord(a)]
      /\ link' = KeptLink /\ sp' = sp /\ fp' = fp /\ pushed' = pushed
      /\ args' = args /\ target' = target /\ UNCHANGED moveVars
  BY DEF CallInvariant, Enter, callVars
<1>2. /\ sp = Top /\ fp = KeptFrame
      /\ HomesKept(CalleeHomes) /\ Arrived(1 .. InCount) /\ StackPushed(0)
  BY <1>1 DEF Placed, CallerPlaces
<1>3. MoveInvariant' /\ regs' = regs
  BY <1>1, SameMoves
<1>4. Top \in Nat /\ StackCount \in Nat /\ InCount' = InCount /\ StackCount' = StackCount
  BY <1>1, ArgumentFacts, FrameAssumption DEF InCount, StackCount
<1>5. /\ Len(pushed) = StackCount /\ pushed \in Seq(Values)
      /\ \A j \in 1 .. StackCount : pushed[j] = args[InCount + j] /\ pushed[j] \in Values
  <2>1. Len(pushed) = StackCount /\ pushed \in Seq(Values)
    BY <1>1, <1>2, <1>4 DEF StackPushed, Types
  <2>2. ASSUME NEW j \in 1 .. StackCount PROVE pushed[j] = args[InCount + j]
    <3>1. pushed[0 + j] = args[InCount + j] /\ 0 + j = j
      BY <1>2, <1>4 DEF StackPushed
    <3> QED
      BY <3>1
  <2> QED
    BY <2>1, <2>2, ElementOfSeq
<1>6. mem' \in [0 .. Top + StackCount -> Values]
  <2> SUFFICES ASSUME NEW a \in 0 .. Top + StackCount PROVE StackWord(a) \in Values
    BY <1>1, <1>5
  <2>1. CASE a >= Top /\ a - Top < StackCount
    <3>1. a - Top + 1 \in 1 .. StackCount
      BY <1>4, <2>1
    <3> QED
      BY <1>5, <2>1, <3>1 DEF StackWord
  <2>2. CASE ~(a >= Top /\ a - Top < StackCount)
    BY <1>5, <2>2, RegisterFacts DEF StackWord
  <2> QED
    BY <2>1, <2>2
<1>7. ArgumentWords'
  <2> SUFFICES ASSUME NEW j \in 1 .. StackCount PROVE mem'[Top + j - 1] = args[InCount + j]
    BY <1>1, <1>4 DEF ArgumentWords
  <2> DEFINE a == Top + j - 1
  <2>1. a \in 0 .. Top + StackCount /\ a >= Top /\ a - Top < StackCount /\ a - Top + 1 = j
    BY <1>4
  <2> HIDE DEF a
  <2>2. mem'[a] = pushed[j]
    BY <1>1, <1>5, <2>1 DEF StackWord
  <2> QED
    BY <1>5, <2>2 DEF a
<1>8. Types'
  BY <1>1 DEF Types, CalleePlaces
<1>9. FrameTypes'
  BY <1>1, <1>4, <1>6, FrameAssumption DEF FrameTypes
<1>10. Stacked'
  <2>1. StackPushed(0)'
    BY <1>1, <1>2, <1>4 DEF StackPushed
  <2> QED
    BY <1>1, <1>2, <1>7, <2>1 DEF Stacked
<1>11. Held'
  BY <1>1, <1>2, <1>3, <1>4 DEF Held, HomesKept, Arrived
<1>12. Placed' /\ Restored'
  BY <1>1 DEF Placed, Restored, CallerPlaces
<1> QED
  BY <1>3, <1>8, <1>9, <1>10, <1>11, <1>12 DEF CallInvariant

\* push link (backend.py:676-677).
LEMMA SaveLinkStep ==
  ASSUME CallInvariant, SaveLink
  PROVE  CallInvariant'
<1>1. /\ MoveInvariant /\ Types /\ FrameTypes /\ Stacked /\ Held
      /\ pc = "link" /\ pc' = "saved" /\ k' = k /\ fp' = fp /\ link' = link
      /\ IF calls THEN PushWord(link) ELSE UNCHANGED <<mem, sp>>
      /\ CalleeKeeps /\ UNCHANGED moveVars
  BY DEF CallInvariant, SaveLink, CalleePlaces, CalleeKeeps
<1>2. /\ ArgumentWords /\ StackPushed(0) /\ link = KeptLink /\ fp = KeptFrame /\ sp = Top /\ k = 1
      /\ HomesKept(CalleeHomes) /\ Arrived(1 .. InCount)
  BY <1>1 DEF Stacked, Held
<1>3. MoveInvariant' /\ regs' = regs
  BY <1>1, SameMoves
<1>4. Top \in Nat /\ SaveBase = Top - LinkWords /\ SaveBase \in Nat /\ SavedCount \in Nat
  BY <1>1, Layout, SavedFacts
<1>5. link \in Values /\ mem \in [0 .. Top + StackCount -> Values]
  BY <1>1 DEF FrameTypes
<1>6. /\ mem' \in [0 .. Top + StackCount -> Values] /\ sp' = SaveBase
      /\ ArgumentWords' /\ LinkSaved'
  <2>1. CASE calls
    <3>1. SaveBase = Top - 1 /\ sp' = Top - 1 /\ mem' = [mem EXCEPT ![Top - 1] = link]
      BY <1>1, <1>2, <1>4, <2>1 DEF PushWord, LinkWords
    <3>2. Top - 1 \in Nat /\ Top - 1 < Top /\ Top - 1 + 1 = Top
      BY <1>4, <3>1
    <3>3. /\ mem' \in [0 .. Top + StackCount -> Values] /\ mem'[Top - 1] = link
          /\ \A b \in DOMAIN mem : b >= Top => mem'[b] = mem[b]
      BY <1>1, <1>5, <3>1, <3>2, WordPushed
    <3>4. ArgumentWords'
      BY <1>1, <1>2, <1>4, <3>3, WordsKept
    <3> QED
      BY <1>2, <3>1, <3>3, <3>4 DEF LinkSaved
  <2>2. CASE ~calls
    <3>1. mem' = mem /\ sp' = sp /\ SaveBase = Top
      BY <1>1, <1>4, <2>2 DEF LinkWords
    <3> QED
      BY <1>1, <1>2, <1>5, <2>2, <3>1, SameShape DEF LinkSaved, ArgumentWords
  <2> QED
    BY <2>1, <2>2
<1>7. Stacked'
  <2>1. StackPushed(0)' /\ SaveBase' = SaveBase /\ SavedCount' = SavedCount
    BY <1>1, <1>2, SameShape DEF StackPushed
  <2>2. /\ k' \in 1 .. SavedCount + 1 /\ sp' = SaveBase - (k' - 1)
    BY <1>1, <1>2, <1>4, <1>6
  <2>3. RegistersSaved(k - 1)'
    <3>1. \A j \in 1 .. k' - 1 : FALSE
      BY <1>1, <1>2
    <3> QED
      BY <3>1 DEF RegistersSaved
  <2> QED
    BY <1>1, <1>2, <1>6, <2>1, <2>2, <2>3 DEF Stacked
<1>8. Held'
  BY <1>1, <1>2, <1>3, SameShape DEF Held, HomesKept, Arrived
<1> QED
  BY <1>1, <1>2, <1>3, <1>5, <1>6, <1>7, <1>8, CalleeStep DEF CalleePlaces

\* push of a preserved register (backend.py:678-679).
LEMMA SaveRegisterStep ==
  ASSUME CallInvariant, SaveRegister
  PROVE  CallInvariant'
<1>1. /\ MoveInvariant /\ Types /\ FrameTypes /\ Stacked /\ Held
      /\ pc = "saved" /\ pc' = pc /\ k' = k + 1 /\ fp' = fp /\ link' = link
      /\ k <= Len(SavedInOrder) /\ PushWord(regs[SavedInOrder[k]])
      /\ CalleeKeeps /\ UNCHANGED moveVars
  BY DEF CallInvariant, SaveRegister, CalleePlaces, CalleeKeeps
<1>2. /\ ArgumentWords /\ StackPushed(0) /\ link = KeptLink /\ fp = KeptFrame /\ LinkSaved
      /\ k \in 1 .. SavedCount + 1 /\ sp = SaveBase - (k - 1) /\ RegistersSaved(k - 1)
      /\ HomesKept(CalleeHomes) /\ Arrived(1 .. InCount)
  BY <1>1 DEF Stacked, Held
<1>3. MoveInvariant' /\ regs' = regs
  BY <1>1, SameMoves
<1>4. /\ Top \in Nat /\ SaveBase \in Nat /\ SaveBase <= Top /\ SavedCount \in Nat
      /\ SaveBase - SavedCount \in Nat /\ Len(SavedInOrder) = SavedCount
  BY <1>1, Layout, SavedFacts
<1> DEFINE a == SaveBase - k
<1>5. /\ k \in 1 .. SavedCount /\ k - 1 \in 0 .. SavedCount /\ a \in Nat /\ a < Top
      /\ a + 1 \in Nat /\ sp - 1 = a /\ a + 1 = SaveBase - (k - 1) /\ a + 1 <= Top
      /\ k' - 1 = k
  BY <1>1, <1>2, <1>4
<1> DEFINE r == SavedInOrder[k]
<1>6. regs[r] = r /\ r \in Values
  <2>1. r \in CalleeHomes
    BY <1>1, <1>5, SavedFacts, ShapeFacts
  <2> QED
    BY <1>2, <2>1, RegisterFacts DEF HomesKept, Homes, Operands
<1>7. mem' = [mem EXCEPT ![a] = r] /\ sp' = a
  BY <1>1, <1>5, <1>6 DEF PushWord
<1> HIDE DEF a, r
<1>8. /\ mem' \in [0 .. Top + StackCount -> Values] /\ mem'[a] = r
      /\ \A b \in DOMAIN mem : b >= a + 1 => mem'[b] = mem[b]
  BY <1>1, <1>5, <1>6, <1>7, WordPushed
<1>9. ArgumentWords'
  BY <1>1, <1>2, <1>5, <1>8, WordsKept
<1>10. LinkSaved'
  <2>1. CASE calls
    <3>1. SaveBase = Top - 1
      BY <1>1, <2>1, Layout DEF LinkWords
    <3>2. a + 1 < Top
      BY <1>4, <1>5, <3>1 DEF a
    <3> QED
      BY <1>1, <1>2, <1>5, <1>8, <3>2, WordsKept
  <2>2. CASE ~calls
    BY <1>1, <2>2, SameShape DEF LinkSaved
  <2> QED
    BY <2>1, <2>2
<1>11. \A j \in 1 .. k : mem'[SaveBase - j] = SavedInOrder[j]
  <2>1. \A j \in 1 .. k - 1 : mem'[SaveBase - j] = SavedInOrder[j]
    <3> DEFINE n == k - 1
    <3>1. n \in 0 .. SavedCount /\ a + 1 <= SaveBase - n /\ RegistersSaved(n)
      BY <1>2, <1>4, <1>5
    <3> HIDE DEF n
    <3>2. \A m \in 0 .. SavedCount :
            a + 1 <= SaveBase - m /\ RegistersSaved(m) => RegistersSaved(m)'
      BY <1>1, <1>5, <1>8, WordsKept
    <3>3. \A m \in 0 .. SavedCount : a + 1 <= SaveBase - m /\ RegistersSaved(m) =>
            \A j \in 1 .. m : mem'[SaveBase - j] = SavedInOrder[j]
      BY <1>1, <3>2, SameShape DEF RegistersSaved
    <3>4. \A j \in 1 .. n : mem'[SaveBase - j] = SavedInOrder[j]
      BY <3>1, <3>3
    <3> QED
      BY <3>4 DEF n
  <2>2. \A j \in 1 .. k : j = k \/ j \in 1 .. k - 1
    BY <1>5
  <2> QED
    BY <1>8, <2>1, <2>2 DEF a, r
<1>12. Stacked'
  <2>1. /\ StackPushed(0)' /\ SaveBase' = SaveBase /\ SavedCount' = SavedCount
        /\ SavedInOrder' = SavedInOrder
    BY <1>1, <1>2, SameShape DEF StackPushed
  <2>2. k' \in 1 .. SavedCount + 1 /\ sp' = SaveBase - (k' - 1)
    BY <1>1, <1>4, <1>5, <1>7 DEF a
  <2>3. RegistersSaved(k - 1)'
    BY <1>5, <1>11, <2>1 DEF RegistersSaved
  <2> QED
    BY <1>1, <1>2, <1>9, <1>10, <2>1, <2>2, <2>3 DEF Stacked
<1>13. Held'
  BY <1>1, <1>2, <1>3, SameShape DEF Held, HomesKept, Arrived
<1>14. k' \in Nat /\ link' \in Values
  BY <1>1, <1>5 DEF FrameTypes
<1> QED
  BY <1>1, <1>3, <1>8, <1>12, <1>13, <1>14, CalleeStep DEF CalleePlaces

\* The words above a frame stay.
LEMMA FrameStays ==
  ASSUME Types, FrameTypes, CalleeKeeps, ArgumentWords, LinkSaved, RegistersSaved(SavedCount),
         NEW a \in Nat, a <= Inner, \A b \in DOMAIN mem : b >= a => mem'[b] = mem[b]
  PROVE  /\ ArgumentWords' /\ LinkSaved' /\ RegistersSaved(SavedCount)'
         /\ a <= FramePointer /\ FrameSaved => FrameSaved'
<1>1. /\ Top \in Nat /\ SaveBase \in Nat /\ SaveBase = Top - LinkWords /\ SavedCount \in Nat
      /\ Inner = SaveBase - SavedCount /\ LinkWords \in {0, 1}
  BY Layout, SavedFacts
<1>2. a <= Top /\ a <= SaveBase - SavedCount
  BY <1>1
<1>3. LinkSaved'
  <2>1. CASE calls
    <3>1. a < Top
      BY <1>1, <1>2, <2>1 DEF LinkWords
    <3> QED
      BY <3>1, WordsKept
  <2>2. CASE ~calls
    BY <2>2, SameShape DEF LinkSaved
  <2> QED
    BY <2>1, <2>2
<1>4. RegistersSaved(SavedCount)'
  <2>1. \A n \in 0 .. SavedCount :
          a <= SaveBase - n /\ RegistersSaved(n) =>
            \A j \in 1 .. n : mem'[SaveBase - j] = SavedInOrder[j]
    <3>1. \A n \in 0 .. SavedCount : a <= SaveBase - n /\ RegistersSaved(n) => RegistersSaved(n)'
      BY WordsKept
    <3> QED
      BY <3>1, SameShape DEF RegistersSaved
  <2>2. \A j \in 1 .. SavedCount : mem'[SaveBase - j] = SavedInOrder[j]
    BY <1>1, <1>2, <2>1
  <2> QED
    BY <2>2, SameShape DEF RegistersSaved
<1> QED
  BY <1>2, <1>3, <1>4, WordsKept

\* push fp; mov fp, sp; sub sp, size (backend.py:680-687).
LEMMA EnterFrameStep ==
  ASSUME CallInvariant, EnterFrame
  PROVE  CallInvariant'
<1>1. /\ MoveInvariant /\ Types /\ FrameTypes /\ Stacked /\ Held
      /\ pc = "saved" /\ pc' = "stage" /\ k' = k /\ link' = link /\ k > Len(SavedInOrder)
      /\ CalleeKeeps /\ UNCHANGED moveVars
      /\ IF UsesFrame
           THEN /\ mem' = [mem EXCEPT ![sp - 1] = fp] /\ fp' = sp - 1
                /\ sp' = sp - 1 - FrameWords
           ELSE mem' = mem /\ fp' = fp /\ sp' = sp
  BY DEF CallInvariant, EnterFrame, CalleePlaces, CalleeKeeps
<1>2. /\ ArgumentWords /\ StackPushed(0) /\ link = KeptLink /\ fp = KeptFrame /\ LinkSaved
      /\ k \in 1 .. SavedCount + 1 /\ sp = SaveBase - (k - 1) /\ RegistersSaved(k - 1)
      /\ HomesKept(CalleeHomes) /\ Arrived(1 .. InCount)
  BY <1>1 DEF Stacked, Held
<1>3. MoveInvariant' /\ regs' = regs
  BY <1>1, SameMoves
<1>4. /\ Top \in Nat /\ SaveBase \in Nat /\ SaveBase <= Top /\ SavedCount \in Nat
      /\ Inner = SaveBase - SavedCount /\ Inner \in Nat /\ FramePointer = Inner - 1
      /\ FramePointer \in Nat /\ Len(SavedInOrder) = SavedCount
  BY <1>1, Layout, SavedFacts
<1>5. k - 1 = SavedCount /\ k \in Nat
  BY <1>1, <1>2, <1>4
<1>6. RegistersSaved(SavedCount) /\ sp = Inner
  BY <1>2, <1>4, <1>5
<1>7. mem \in [0 .. Top + StackCount -> Values] /\ fp \in Values /\ link' \in Values
  BY <1>1, <1>2, FrameAssumption DEF FrameTypes
<1>8. /\ mem' \in [0 .. Top + StackCount -> Values]
      /\ ArgumentWords' /\ LinkSaved' /\ RegistersSaved(SavedCount)'
      /\ sp' = BodyStack /\ FrameSet' /\ FrameSaved'
  <2>1. CASE UsesFrame
    <3>1. mem' = [mem EXCEPT ![FramePointer] = fp] /\ fp' = FramePointer /\ sp' = BodyStack
      BY <1>1, <1>4, <1>6, <2>1, Layout
    <3>2. FramePointer < Top /\ FramePointer + 1 = Inner
      BY <1>4
    <3>3. /\ mem' \in [0 .. Top + StackCount -> Values] /\ mem'[FramePointer] = fp
          /\ \A b \in DOMAIN mem : b >= Inner => mem'[b] = mem[b]
      <4>1. /\ mem' \in [0 .. Top + StackCount -> Values] /\ mem'[FramePointer] = fp
            /\ \A b \in DOMAIN mem : b >= FramePointer + 1 => mem'[b] = mem[b]
        <5>1. /\ Types /\ FrameTypes /\ FramePointer \in Nat /\ FramePointer < Top
              /\ fp \in Values /\ mem' = [mem EXCEPT ![FramePointer] = fp]
          BY <1>1, <1>4, <1>7, <3>1, <3>2
        <5> QED
          BY <5>1, WordPushed
      <4> QED
        BY <3>2, <4>1
    <3>4. ArgumentWords' /\ LinkSaved' /\ RegistersSaved(SavedCount)'
      <4>1. Inner <= Inner
        BY <1>4
      <4> QED
        BY <1>1, <1>2, <1>4, <1>6, <3>3, <4>1, FrameStays
    <3>5. FrameSet' /\ FrameSaved'
      BY <1>1, <1>2, <2>1, <3>1, <3>3, SameShape DEF FrameSet, FrameSaved
    <3> QED
      BY <3>1, <3>3, <3>4, <3>5
  <2>2. CASE ~UsesFrame
    <3>1. mem' = mem /\ sp' = sp /\ fp' = fp /\ BodyStack = Inner
      BY <1>1, <2>2, Layout
    <3>2. ArgumentWords' /\ LinkSaved' /\ RegistersSaved(SavedCount)'
      BY <1>1, <1>2, <1>6, <3>1, SameShape DEF ArgumentWords, LinkSaved, RegistersSaved
    <3>3. FrameSet' /\ FrameSaved'
      BY <1>1, <1>2, <2>2, <3>1, SameShape DEF FrameSet, FrameSaved
    <3> QED
      BY <1>6, <1>7, <3>1, <3>2, <3>3
  <2> QED
    BY <2>1, <2>2
<1>9. Stacked'
  <2>1. StackPushed(0)' /\ BodyStack' = BodyStack
    BY <1>1, <1>2, SameShape DEF StackPushed
  <2> QED
    BY <1>1, <1>2, <1>8, <2>1 DEF Stacked
<1>10. Held'
  BY <1>1, <1>2, <1>3, SameShape DEF Held, HomesKept, Arrived
<1> QED
  BY <1>1, <1>3, <1>5, <1>7, <1>8, <1>9, <1>10, CalleeStep DEF CalleePlaces

\* The last argument register is put aside (backend.py:693-696).
LEMMA StageStep ==
  ASSUME CallInvariant, Stage
  PROVE  CallInvariant'
<1>1. /\ MoveInvariant /\ Types /\ FrameTypes /\ Stacked /\ Held
      /\ pc = "stage" /\ pc' = "store" /\ k' = 1 /\ link' = link /\ fp' = fp
      /\ CalleeKeeps /\ UNCHANGED moveVars
      /\ IF Staged THEN PushWord(regs[ArgCount]) ELSE mem' = mem /\ sp' = sp
  BY DEF CallInvariant, Stage, CalleePlaces, CalleeKeeps
<1>2. /\ ArgumentWords /\ StackPushed(0) /\ link = KeptLink /\ LinkSaved
      /\ RegistersSaved(SavedCount) /\ FrameSet /\ FrameSaved /\ sp = BodyStack
      /\ HomesKept(CalleeHomes) /\ Arrived(1 .. InCount)
  BY <1>1 DEF Stacked, Held
<1>3. MoveInvariant' /\ regs' = regs
  BY <1>1, SameMoves
<1>4. /\ BodyStack \in Nat /\ BodyStack > 0 /\ BodyStack <= Inner /\ Inner \in Nat
      /\ Inner <= Top /\ Top \in Nat /\ FramePointer = Inner - 1
      /\ (UsesFrame => BodyStack <= FramePointer)
  <2>1. /\ Inner = SaveBase - SavedCount /\ SaveBase = Top - LinkWords /\ LinkWords \in {0, 1}
        /\ SavedCount \in Nat /\ Inner \in Nat /\ Top \in Nat /\ FrameWords \in Nat
        /\ FramePointer \in Nat
    BY <1>1, Layout, SavedFacts
  <2> QED
    BY <1>1, <2>1, Layout
<1>5. mem \in [0 .. Top + StackCount -> Values] /\ link' \in Values
  BY <1>1 DEF FrameTypes
<1>6. /\ Params = Len(args) /\ InCount \in Nat /\ ArgCount \in Nat /\ ArgCount > 1
      /\ (ArgCount <= Len(args) => InCount = ArgCount) /\ Len(args) \in Nat
      /\ (Len(args) <= ArgCount => InCount = Len(args))
      /\ DOMAIN home = 1 .. Len(args)
  BY <1>1, ShapeFacts, ArgumentFacts, RegisterFacts
<1>7. /\ mem' \in [0 .. Top + StackCount -> Values]
      /\ ArgumentWords' /\ LinkSaved' /\ RegistersSaved(SavedCount)' /\ FrameSaved'
      /\ sp' = BodyStack - StagedWords /\ (Staged => mem'[sp'] = args[ArgCount])
  <2>1. CASE Staged
    <3> DEFINE a == BodyStack - 1
    <3>1. regs[ArgCount] = args[ArgCount] /\ regs[ArgCount] \in Values
      <4>1. ArgCount \in 1 .. InCount /\ ArgCount \in ArgRegisters
        BY <1>6, <2>1 DEF Staged, ArgRegisters
      <4>2. ArgCount \in AllRegisters
        BY <4>1, RegisterFacts
      <4> QED
        BY <1>1, <1>2, <4>1, <4>2 DEF Arrived, MoveInvariant, TypeOK
    <3>2. mem' = [mem EXCEPT ![a] = regs[ArgCount]] /\ sp' = a /\ StagedWords = 1
      BY <1>1, <1>2, <2>1 DEF PushWord, StagedWords
    <3>3. a \in Nat /\ a < Top /\ a + 1 = BodyStack
      BY <1>4
    <3> HIDE DEF a
    <3>4. /\ mem' \in [0 .. Top + StackCount -> Values] /\ mem'[a] = regs[ArgCount]
          /\ \A b \in DOMAIN mem : b >= BodyStack => mem'[b] = mem[b]
      BY <1>1, <3>1, <3>2, <3>3, WordPushed
    <3>5. /\ ArgumentWords' /\ LinkSaved' /\ RegistersSaved(SavedCount)'
          /\ BodyStack <= FramePointer /\ FrameSaved => FrameSaved'
      BY <1>1, <1>2, <1>4, <3>4, FrameStays
    <3>6. FrameSaved'
      <4>1. CASE UsesFrame
        BY <1>2, <1>4, <3>5, <4>1
      <4>2. CASE ~UsesFrame
        BY <1>1, <4>2, SameShape DEF FrameSaved
      <4> QED
        BY <4>1, <4>2
    <3> QED
      BY <3>1, <3>2, <3>4, <3>5, <3>6 DEF a
  <2>2. CASE ~Staged
    <3>1. mem' = mem /\ sp' = sp /\ StagedWords = 0 /\ BodyStack - 0 = BodyStack
      BY <1>1, <1>4, <2>2 DEF StagedWords
    <3>2. ArgumentWords' /\ LinkSaved' /\ RegistersSaved(SavedCount)' /\ FrameSaved'
      BY <1>1, <1>2, <3>1, SameShape
         DEF ArgumentWords, LinkSaved, RegistersSaved, FrameSaved
    <3> QED
      BY <1>2, <1>5, <2>2, <3>1, <3>2
  <2> QED
    BY <2>1, <2>2
<1>8. Stacked'
  <2>1. /\ StackPushed(0)' /\ BodyStack' = BodyStack /\ StagedWords' = StagedWords
        /\ Staged' = Staged /\ args' = args
    BY <1>1, <1>2, SameShape DEF StackPushed
  <2>2. FrameSet'
    BY <1>1, <1>2, SameShape DEF FrameSet
  <2> QED
    BY <1>1, <1>2, <1>7, <2>1, <2>2 DEF Stacked
<1>9. Held'
  <2>1. Arrived(Early)'
    <3>1. \A i \in Early : i \in 1 .. InCount
      BY <1>6 DEF Early
    <3> QED
      BY <1>1, <1>2, <1>3, <3>1, SameShape DEF Arrived
  <2>2. HomesKept(CalleeHomes)'
    BY <1>2, <1>3 DEF HomesKept
  <2>3. InSlots(1 .. k - 1)'
    <3>1. \A i \in 1 .. k' - 1 : FALSE
      BY <1>1
    <3> QED
      BY <3>1 DEF InSlots
  <2> QED
    BY <1>1, <2>1, <2>2, <2>3 DEF Held
<1> QED
  BY <1>1, <1>3, <1>5, <1>7, <1>8, <1>9, CalleeStep DEF CalleePlaces

\* A value is put into a parameter's home.
LEMMA PutFacts ==
  ASSUME Types, FrameTypes, FrameSet, NEW i \in DOMAIN home, NEW v \in Values,
         NEW file \in [AllRegisters -> Values], Put(i, v, file)
  PROVE  /\ MoveInvariant' /\ mem' \in [0 .. Top + StackCount -> Values]
         /\ home[i] \in Homes => regs'[home[i]] = v
         /\ home[i] = InSlot => mem'[Slot(i)] = v
         /\ \A j \in DOMAIN home : j # i =>
              /\ home[j] \in Homes => regs'[home[j]] = file[home[j]]
              /\ home[j] = InSlot => mem'[Slot(j)] = mem[Slot(j)]
         /\ \A r \in CalleeHomes \ Saved : regs'[r] = file[r]
         /\ home[i] \notin Homes =>
              \A r \in AllRegisters : r # Scratch => regs'[r] = file[r]
         /\ \A b \in DOMAIN mem : b < BodyStack \/ b >= Inner \/ (UsesFrame /\ b >= FramePointer)
              => mem'[b] = mem[b]
<1>1. /\ home[i] \in Homes \union {InSlot, Dead} /\ InSlot \notin Homes
      /\ \A j \in DOMAIN home : home[i] = home[j] /\ home[i] \in Homes => i = j
      /\ home[i] \in CalleeHomes => home[i] \in Saved
  BY ShapeFacts
<1>2. /\ \A r \in Homes : r \in AllRegisters /\ r # Scratch
      /\ \A r \in CalleeHomes : r \in Homes
      /\ Scratch \in AllRegisters /\ Nothing \in Values
  BY RegisterFacts DEF Homes, ArgRegisters
<1> DEFINE out == CASE home[i] \in Homes -> [file EXCEPT ![home[i]] = v]
                    [] home[i] = InSlot -> [file EXCEPT ![Scratch] = Nothing]
                    [] OTHER -> file
<1>3. /\ out \in [AllRegisters -> Values]
      /\ home[i] \in Homes =>
           out[home[i]] = v /\ \A r \in AllRegisters : r # home[i] => out[r] = file[r]
      /\ home[i] \notin Homes => \A r \in AllRegisters : r # Scratch => out[r] = file[r]
  <2>1. CASE home[i] \in Homes
    <3>1. out = [file EXCEPT ![home[i]] = v] /\ home[i] \in AllRegisters
      BY <1>1, <1>2, <2>1
    <3> HIDE DEF out
    <3> QED
      BY <2>1, <3>1
  <2>2. CASE home[i] = InSlot
    <3>1. out = [file EXCEPT ![Scratch] = Nothing] /\ home[i] \notin Homes
      BY <1>1, <2>2
    <3> HIDE DEF out
    <3> QED
      BY <1>2, <3>1
  <2>3. CASE home[i] \notin Homes /\ home[i] # InSlot
    <3>1. out = file
      BY <2>3
    <3> HIDE DEF out
    <3> QED
      BY <2>3, <3>1
  <2> QED
    BY <2>1, <2>2, <2>3
<1>4. Settle(out)
  BY DEF Put
<1> HIDE DEF out
<1>5. MoveInvariant' /\ regs' = out
  BY <1>3, <1>4, Settled
<1>6. \A r \in Homes : (home[i] \in Homes => r # home[i]) => regs'[r] = file[r]
  BY <1>2, <1>3, <1>5
<1>7. \A j \in DOMAIN home : j # i /\ home[j] \in Homes => regs'[home[j]] = file[home[j]]
  BY <1>1, <1>6
<1>8. \A r \in CalleeHomes \ Saved : regs'[r] = file[r]
  BY <1>1, <1>2, <1>6
<1>9. mem' = IF home[i] = InSlot THEN [mem EXCEPT ![Slot(i)] = v] ELSE mem
  BY DEF Put
<1>10. mem \in [0 .. Top + StackCount -> Values]
  BY DEF FrameTypes
<1>11. CASE home[i] = InSlot
  <2>1. /\ UsesFrame /\ Slot(i) \in Nat /\ BodyStack <= Slot(i) /\ Slot(i) < FramePointer
        /\ \A j \in DOMAIN home : j # i /\ home[j] = InSlot => Slot(i) # Slot(j)
    BY <1>11, SlotFacts DEF FrameSet
  <2>2. /\ FramePointer \in Nat /\ FramePointer < Top /\ FramePointer < Inner /\ Inner \in Nat
        /\ BodyStack \in Nat /\ Top \in Nat /\ StackCount \in Nat
    <3>1. /\ Inner = SaveBase - SavedCount /\ SaveBase = Top - LinkWords /\ LinkWords \in {0, 1}
          /\ SavedCount \in Nat /\ Inner \in Nat /\ Top \in Nat /\ FramePointer = Inner - 1
          /\ FramePointer \in Nat /\ BodyStack \in Nat /\ StackCount \in Nat
      BY Layout, SavedFacts
    <3> QED
      BY <3>1
  <2> DEFINE s == Slot(i)
  <2>3. mem' = [mem EXCEPT ![s] = v] /\ s \in Nat /\ s < Top
    BY <1>9, <1>11, <2>1, <2>2
  <2>4. \A j \in DOMAIN home : j # i /\ home[j] = InSlot => s # Slot(j) /\ Slot(j) \in DOMAIN mem
    <3>1. \A j \in DOMAIN home : home[j] = InSlot => Slot(j) \in Nat /\ Slot(j) < FramePointer
      BY SlotFacts DEF FrameSet
    <3> QED
      BY <1>10, <2>1, <2>2, <3>1
  <2>5. \A b \in DOMAIN mem : b < BodyStack \/ b >= Inner \/ (UsesFrame /\ b >= FramePointer)
          => b # s
    BY <1>10, <2>1, <2>2
  <2> HIDE DEF s
  <2>6. /\ mem' \in [0 .. Top + StackCount -> Values] /\ mem'[s] = v
        /\ \A b \in DOMAIN mem : b # s => mem'[b] = mem[b]
    BY <2>3, WordPushed
  <2>7. /\ \A j \in DOMAIN home : j # i /\ home[j] = InSlot => mem'[Slot(j)] = mem[Slot(j)]
        /\ \A b \in DOMAIN mem : b < BodyStack \/ b >= Inner \/ (UsesFrame /\ b >= FramePointer)
             => mem'[b] = mem[b]
        /\ mem'[Slot(i)] = v
    BY <2>4, <2>5, <2>6 DEF s
  <2> QED
    BY <1>1, <1>3, <1>5, <1>7, <1>8, <1>11, <2>6, <2>7
<1>12. CASE home[i] # InSlot
  <2>1. mem' = mem
    BY <1>9, <1>12
  <2> QED
    BY <1>3, <1>5, <1>7, <1>8, <1>10, <1>12, <2>1
<1> QED
  BY <1>11, <1>12

\* What a step in the body of the prologue keeps.
LEMMA FrameKept ==
  ASSUME Types, FrameTypes, CalleeKeeps, FrameSaved,
         ArgumentWords, LinkSaved, RegistersSaved(SavedCount),
         \A b \in DOMAIN mem : (b >= Inner \/ (UsesFrame /\ b >= FramePointer)) => mem'[b] = mem[b]
  PROVE  ArgumentWords' /\ LinkSaved' /\ RegistersSaved(SavedCount)' /\ FrameSaved'
<1>1. Inner \in Nat /\ FramePointer \in Nat /\ FramePointer = Inner - 1 /\ Inner <= Inner
      /\ FramePointer <= Inner /\ FramePointer <= FramePointer
  <2>1. Inner \in Nat /\ FramePointer \in Nat /\ FramePointer = Inner - 1
    BY Layout
  <2> QED
    BY <2>1
<1>2. CASE UsesFrame
  <2>1. \A b \in DOMAIN mem : b >= FramePointer => mem'[b] = mem[b]
    BY <1>2
  <2> QED
    BY <1>1, <2>1, FrameStays
<1>3. CASE ~UsesFrame
  <2>1. \A b \in DOMAIN mem : b >= Inner => mem'[b] = mem[b]
    OBVIOUS
  <2>2. ArgumentWords' /\ LinkSaved' /\ RegistersSaved(SavedCount)'
    BY <1>1, <2>1, FrameStays
  <2> QED
    BY <1>3, <2>2, SameShape DEF FrameSaved
<1> QED
  BY <1>2, <1>3

\* Where the last argument register is staged.
LEMMA StagedPlace ==
  ASSUME Types, FrameTypes
  PROVE  /\ BodyStack - StagedWords \in DOMAIN mem
         /\ Staged => BodyStack - StagedWords < BodyStack /\ BodyStack - StagedWords + 1 = BodyStack
         /\ ~Staged => BodyStack - StagedWords = BodyStack
<1>1. /\ BodyStack \in Nat /\ BodyStack > 0 /\ BodyStack <= Inner /\ Inner \in Nat
      /\ Top \in Nat /\ StackCount \in Nat /\ StagedWords \in {0, 1}
      /\ Inner = SaveBase - SavedCount /\ SaveBase = Top - LinkWords /\ LinkWords \in {0, 1}
      /\ SavedCount \in Nat
  BY Layout, SavedFacts
<1>2. DOMAIN mem = 0 .. Top + StackCount
  BY DEF FrameTypes
<1>3. BodyStack - StagedWords \in 0 .. Top + StackCount
  BY <1>1
<1>4. Staged => StagedWords = 1
  BY DEF StagedWords
<1>5. ~Staged => StagedWords = 0
  BY DEF StagedWords
<1> QED
  BY <1>1, <1>2, <1>3, <1>4, <1>5

\* Parameters that came in registers and live in the frame (backend.py:701-712).
LEMMA StoreParameterStep ==
  ASSUME CallInvariant, StoreParameter
  PROVE  CallInvariant'
<1>1. /\ MoveInvariant /\ Types /\ FrameTypes /\ Stacked /\ Held
      /\ regs \in [AllRegisters -> Values]
      /\ pc = "store" /\ pc' = pc /\ k' = k + 1 /\ k \in Early /\ CalleeKeeps
      /\ sp' = sp /\ fp' = fp /\ link' = link
      /\ IF home[k] \in Homes THEN UNCHANGED moveVars /\ mem' = mem ELSE Put(k, regs[k], regs)
  BY DEF CallInvariant, StoreParameter, CalleePlaces, CalleeKeeps, MoveInvariant, TypeOK
<1>2. /\ ArgumentWords /\ StackPushed(0) /\ link = KeptLink /\ LinkSaved
      /\ RegistersSaved(SavedCount) /\ FrameSet /\ FrameSaved /\ sp = BodyStack - StagedWords
      /\ Staged => mem[sp] = args[ArgCount]
      /\ HomesKept(CalleeHomes) /\ Arrived(Early) /\ k >= 1 /\ InSlots(1 .. k - 1)
  BY <1>1 DEF Stacked, Held
<1>3. /\ DOMAIN home = 1 .. Len(args) /\ Len(args) \in Nat /\ k \in DOMAIN home /\ k \in Nat
      /\ ArgCount \in Nat /\ Scratch = ArgCount /\ InSlot \notin Homes
      /\ \A i \in Early : i \in ArgRegisters /\ i \in AllRegisters /\ i # Scratch
  <2>1. DOMAIN home = 1 .. Len(args) /\ Len(args) \in Nat /\ ArgCount \in Nat
        /\ Scratch = ArgCount /\ InSlot \notin Homes
    BY <1>1, ShapeFacts, ArgumentFacts, RegisterFacts
  <2>2. \A i \in Early : i \in ArgRegisters /\ i # Scratch /\ i \in DOMAIN home
    BY <2>1 DEF Early, ArgRegisters
  <2> QED
    BY <1>1, <2>1, <2>2, RegisterFacts
<1>4. regs[k] \in Values /\ regs[k] = args[k]
  BY <1>1, <1>2, <1>3 DEF Arrived
<1>5. mem \in [0 .. Top + StackCount -> Values] /\ link' \in Values
  BY <1>1 DEF FrameTypes
<1>6. /\ MoveInvariant' /\ mem' \in [0 .. Top + StackCount -> Values]
      /\ \A r \in AllRegisters : r # Scratch => regs'[r] = regs[r]
      /\ \A j \in DOMAIN home : j # k /\ home[j] = InSlot => mem'[Slot(j)] = mem[Slot(j)]
      /\ home[k] = InSlot => mem'[Slot(k)] = args[k]
      /\ \A b \in DOMAIN mem : b < BodyStack \/ b >= Inner \/ (UsesFrame /\ b >= FramePointer)
           => mem'[b] = mem[b]
  <2>1. CASE home[k] \in Homes
    <3>1. mem' = mem /\ MoveInvariant' /\ regs' = regs
      BY <1>1, <2>1, SameMoves
    <3> QED
      BY <1>3, <1>5, <2>1, <3>1
  <2>2. CASE home[k] \notin Homes
    <3>1. Put(k, regs[k], regs)
      BY <1>1, <2>2
    <3> QED
      BY <1>1, <1>2, <1>3, <1>4, <2>2, <3>1, PutFacts
  <2> QED
    BY <2>1, <2>2
<1>7. ArgumentWords' /\ LinkSaved' /\ RegistersSaved(SavedCount)' /\ FrameSaved'
  BY <1>1, <1>2, <1>6, FrameKept
<1>8. Staged => mem'[sp'] = args[ArgCount]
  BY <1>1, <1>2, <1>6, StagedPlace
<1>9. Stacked'
  <2>1. /\ StackPushed(0)' /\ BodyStack' = BodyStack /\ StagedWords' = StagedWords
        /\ Staged' = Staged /\ args' = args
    BY <1>1, <1>2, SameShape DEF StackPushed
  <2>2. FrameSet'
    BY <1>1, <1>2, SameShape DEF FrameSet
  <2> QED
    BY <1>1, <1>2, <1>7, <1>8, <2>1, <2>2 DEF Stacked
<1>10. Held'
  <2>1. Arrived(Early)'
    BY <1>1, <1>2, <1>3, <1>6, SameShape DEF Arrived
  <2>2. HomesKept(CalleeHomes)'
    <3>1. \A r \in CalleeHomes : r \in AllRegisters /\ r # Scratch
      BY RegisterFacts DEF Homes
    <3> QED
      BY <1>2, <1>6, <3>1 DEF HomesKept
  <2>3. \A i \in 1 .. k \cap DOMAIN home : home[i] = InSlot => mem'[Slot(i)] = args[i]
    <3> SUFFICES ASSUME NEW i \in 1 .. k \cap DOMAIN home, home[i] = InSlot
                 PROVE  mem'[Slot(i)] = args[i]
      OBVIOUS
    <3>1. CASE i = k
      BY <1>6, <3>1
    <3>2. CASE i # k
      <4>1. i \in 1 .. k - 1
        BY <1>3, <3>2
      <4> QED
        BY <1>2, <1>6, <3>2, <4>1 DEF InSlots
    <3> QED
      BY <3>1, <3>2
  <2>4. InSlots(1 .. k - 1)'
    <3>1. k' - 1 = k
      BY <1>1, <1>3
    <3> QED
      BY <1>1, <2>3, <3>1, SameShape DEF InSlots
  <2>5. k' >= 1
    BY <1>1, <1>3
  <2> QED
    BY <1>1, <2>1, <2>2, <2>4, <2>5 DEF Held
<1>11. k' \in Nat
  BY <1>1, <1>3
<1> QED
  BY <1>1, <1>5, <1>6, <1>9, <1>10, <1>11, CalleeStep DEF CalleePlaces

\* A list of moves takes the others to their homes (backend.py:700-712).
LEMMA MoveParametersStep ==
  ASSUME CallInvariant, MoveParameters
  PROVE  CallInvariant'
<1>1. /\ MoveInvariant /\ Types /\ FrameTypes /\ Stacked /\ Held
      /\ regs \in [AllRegisters -> Values]
      /\ pc = "store" /\ pc' = "settle" /\ k' = k /\ k \notin Early /\ CalleeKeeps
      /\ sp' = sp /\ fp' = fp /\ link' = link /\ mem' = mem /\ regs' = regs
      /\ initial' = regs /\ pending' = goal'
      /\ goal' = [r \in {home[i] : i \in Moving} |-> CHOOSE i \in Moving : home[i] = r]
  BY DEF CallInvariant, MoveParameters, CalleePlaces, CalleeKeeps, MoveInvariant, TypeOK
<1>2. /\ ArgumentWords /\ StackPushed(0) /\ link = KeptLink /\ LinkSaved
      /\ RegistersSaved(SavedCount) /\ FrameSet /\ FrameSaved /\ sp = BodyStack - StagedWords
      /\ Staged => mem[sp] = args[ArgCount]
      /\ HomesKept(CalleeHomes) /\ Arrived(Early) /\ k >= 1 /\ InSlots(1 .. k - 1)
  BY <1>1 DEF Stacked, Held
<1>3. /\ DOMAIN home = 1 .. Len(args) /\ Len(args) \in Nat /\ k \in Nat /\ ArgCount \in Nat
      /\ \A i \in Early : i \in Registers
  <2>1. DOMAIN home = 1 .. Len(args) /\ Len(args) \in Nat /\ ArgCount \in Nat
    BY <1>1, ShapeFacts, ArgumentFacts, RegisterFacts
  <2>2. \A i \in Early : i \in ArgRegisters
    BY <2>1 DEF Early, ArgRegisters
  <2> QED
    BY <1>1, <2>1, <2>2, RegisterFacts DEF Types
<1>4. goal' \in MoveLists(Registers)
  <2> DEFINE T == {home[i] : i \in Moving}
             source(r) == CHOOSE i \in Moving : home[i] = r
  <2>1. T \subseteq Registers
    BY RegisterFacts DEF Moving
  <2>2. \A r \in T : source(r) \in Moving /\ home[source(r)] = r
    OBVIOUS
  <2>3. \A i \in Moving : i \in Registers /\ home[i] # i
    BY <1>3 DEF Moving
  <2>4. \A r \in T : source(r) \in Registers /\ source(r) # r
    BY <2>2, <2>3
  <2> HIDE DEF source
  <2>5. goal' = [r \in T |-> source(r)]
    BY <1>1 DEF source
  <2> HIDE DEF T
  <2> QED
    BY <2>1, <2>4, <2>5 DEF MoveLists
<1>5. MoveInvariant'
  BY <1>1, <1>4, Begun
<1>6. Stacked'
  <2>1. /\ StackPushed(0)' /\ BodyStack' = BodyStack /\ StagedWords' = StagedWords
        /\ Staged' = Staged /\ args' = args
    BY <1>1, <1>2, SameShape DEF StackPushed
  <2>2. FrameSet' /\ FrameSaved' /\ ArgumentWords' /\ LinkSaved' /\ RegistersSaved(SavedCount)'
    BY <1>1, <1>2, SameShape
       DEF FrameSet, FrameSaved, ArgumentWords, LinkSaved, RegistersSaved
  <2> QED
    BY <1>1, <1>2, <2>1, <2>2 DEF Stacked
<1>7. Held'
  <2>1. /\ \A i \in Early' : initial'[i] = args'[i]
        /\ \A r \in CalleeHomes : initial'[r] = r
    BY <1>1, <1>2, SameShape DEF Arrived, HomesKept
  <2>2. InSlots(Early)'
    <3>1. \A i \in Early : i \in 1 .. k - 1
      BY <1>1, <1>2, <1>3 DEF Early
    <3>2. \A i \in Early \cap DOMAIN home : home[i] = InSlot => mem[Slot(i)] = args[i]
      BY <1>2, <3>1 DEF InSlots
    <3> QED
      BY <1>1, <3>2, SameShape DEF InSlots
  <2>3. goal' = [r \in {home'[i] : i \in Moving'} |-> CHOOSE i \in Moving' : home'[i] = r]
    BY <1>1, SameShape
  <2> QED
    BY <1>1, <2>1, <2>2, <2>3 DEF Held
<1>8. /\ k' \in Nat /\ link' \in Values /\ mem' \in [0 .. Top + StackCount -> Values]
  BY <1>1, <1>3 DEF FrameTypes
<1> QED
  BY <1>1, <1>5, <1>6, <1>7, <1>8, CalleeStep DEF CalleePlaces

\* One of its moves, or the break of a cycle (backend.py:714-734).
LEMMA MoveParameterStep ==
  ASSUME CallInvariant, MoveParameter
  PROVE  CallInvariant'
<1>1. /\ MoveInvariant /\ Types /\ FrameTypes /\ Stacked /\ Held
      /\ pc = "settle" /\ pc' = pc /\ k' = k /\ CalleeKeeps /\ Next
      /\ sp' = sp /\ fp' = fp /\ link' = link /\ mem' = mem
  BY DEF CallInvariant, MoveParameter, CalleePlaces, CalleeKeeps
<1>2. MoveInvariant' /\ initial' = initial /\ goal' = goal
  BY <1>1, OneMove
<1>3. Stacked'
  <2>1. /\ StackPushed(0) /\ ArgumentWords /\ FrameSet /\ FrameSaved /\ LinkSaved
        /\ RegistersSaved(SavedCount) /\ link = KeptLink /\ sp = BodyStack - StagedWords
        /\ Staged => mem[sp] = args[ArgCount]
    BY <1>1 DEF Stacked
  <2>2. FrameSet' /\ FrameSaved' /\ ArgumentWords' /\ LinkSaved' /\ RegistersSaved(SavedCount)'
    BY <1>1, <2>1, SameShape
       DEF FrameSet, FrameSaved, ArgumentWords, LinkSaved, RegistersSaved
  <2>3. /\ StackPushed(0)' /\ BodyStack' = BodyStack /\ StagedWords' = StagedWords
        /\ Staged' = Staged /\ args' = args
    BY <1>1, <2>1, SameShape DEF StackPushed
  <2> QED
    BY <1>1, <2>1, <2>2, <2>3 DEF Stacked
<1>4. Held'
  <2>1. /\ goal = [r \in {home[i] : i \in Moving} |-> CHOOSE i \in Moving : home[i] = r]
        /\ \A i \in Early : initial[i] = args[i]
        /\ \A r \in CalleeHomes : initial[r] = r
        /\ InSlots(Early)
    BY <1>1 DEF Held
  <2>2. goal' = [r \in {home'[i] : i \in Moving'} |-> CHOOSE i \in Moving' : home'[i] = r]
    BY <1>1, <1>2, <2>1, SameShape
  <2>3. (\A i \in Early' : initial'[i] = args'[i]) /\ InSlots(Early)'
    BY <1>1, <1>2, <2>1, SameShape DEF InSlots
  <2> QED
    BY <1>1, <1>2, <2>1, <2>2, <2>3 DEF Held
<1>5. /\ k' \in Nat /\ link' \in Values /\ mem' \in [0 .. Top + StackCount -> Values]
  BY <1>1 DEF FrameTypes, Types
<1> QED
  BY <1>1, <1>2, <1>3, <1>4, <1>5, CalleeStep DEF CalleePlaces

\* When they are done every one of them is at home.
LEMMA SettledParameters ==
  ASSUME CallInvariant, pc = "settle", pending = NoMoves
  PROVE  /\ \A i \in Early : home[i] \in Homes => regs[home[i]] = args[i]
         /\ \A r \in CalleeHomes \ Saved : regs[r] = r
<1>1. /\ MoveInvariant /\ Types /\ FrameTypes /\ Held
      /\ goal = [r \in {home[i] : i \in Moving} |-> CHOOSE i \in Moving : home[i] = r]
      /\ \A i \in Early : initial[i] = args[i]
      /\ \A r \in CalleeHomes : initial[r] = r
  BY DEF CallInvariant, CalleePlaces, Held
<1>2. /\ \A i, j \in DOMAIN home : home[i] = home[j] /\ home[i] \in Homes => i = j
      /\ \A i \in DOMAIN home : home[i] \in CalleeHomes => home[i] \in Saved
      /\ \A r \in Homes : r \in Registers
      /\ \A r \in CalleeHomes : r \in Homes
  BY <1>1, ShapeFacts, RegisterFacts DEF Homes
<1>3. \A r \in Registers :
        regs[r] = IF r \in DOMAIN goal THEN initial[goal[r]] ELSE initial[r]
  BY <1>1, MovesDone
<1>4. DOMAIN goal = {home[i] : i \in Moving}
  BY <1>1
<1>5. ASSUME NEW i \in Early, home[i] \in Homes PROVE regs[home[i]] = args[i]
  <2>1. i \in DOMAIN home
    BY DEF Early
  <2>2. CASE home[i] = i
    <3>1. home[i] \notin DOMAIN goal
      BY <1>2, <1>4, <1>5, <2>1, <2>2 DEF Moving, Early
    <3> QED
      BY <1>1, <1>2, <1>3, <1>5, <2>2, <3>1
  <2>3. CASE home[i] # i
    <3>1. i \in Moving
      BY <1>5, <2>3 DEF Moving
    <3>2. \A j \in Moving : home[j] = home[i] => j = i
      BY <1>2, <1>5, <2>1 DEF Moving, Early
    <3>3. home[i] \in DOMAIN goal /\ goal[home[i]] = i
      BY <1>1, <3>1, <3>2
    <3> QED
      BY <1>1, <1>2, <1>3, <1>5, <3>3
  <2> QED
    BY <2>2, <2>3
<1>6. ASSUME NEW r \in CalleeHomes \ Saved PROVE regs[r] = r
  <2>1. r \notin DOMAIN goal
    BY <1>2, <1>4 DEF Moving, Early
  <2> QED
    BY <1>1, <1>2, <1>3, <2>1
<1> QED
  BY <1>5, <1>6

\* pop flags, and into the home of the last register parameter
\* (backend.py:736-743).
LEMMA UnstageStep ==
  ASSUME CallInvariant, Unstage
  PROVE  CallInvariant'
<1>1. /\ MoveInvariant /\ Types /\ FrameTypes /\ Stacked /\ Held
      /\ regs \in [AllRegisters -> Values]
      /\ pc = "settle" /\ pc' = "load" /\ k' = ArgCount + 1 /\ pending = NoMoves /\ CalleeKeeps
      /\ fp' = fp /\ link' = link
      /\ IF Staged
           THEN sp' = sp + 1 /\ Put(ArgCount, mem[sp], [regs EXCEPT ![Flags] = mem[sp]])
           ELSE UNCHANGED moveVars /\ mem' = mem /\ sp' = sp
  BY DEF CallInvariant, Unstage, CalleePlaces, CalleeKeeps, MoveInvariant, TypeOK
<1>2. /\ ArgumentWords /\ StackPushed(0) /\ link = KeptLink /\ LinkSaved
      /\ RegistersSaved(SavedCount) /\ FrameSet /\ FrameSaved /\ sp = BodyStack - StagedWords
      /\ Staged => mem[sp] = args[ArgCount]
      /\ InSlots(Early)
  BY <1>1 DEF Stacked, Held
<1>3. /\ \A i \in Early : home[i] \in Homes => regs[home[i]] = args[i]
      /\ \A r \in CalleeHomes \ Saved : regs[r] = r
  BY <1>1, SettledParameters
<1>4. /\ DOMAIN home = 1 .. Len(args) /\ Params = Len(args) /\ Len(args) \in Nat
      /\ ArgCount \in Nat /\ ArgCount > 1
      /\ \A r \in Homes : r \in AllRegisters /\ r # Flags
      /\ \A r \in CalleeHomes : r \in Homes /\ r \in AllRegisters /\ r # Flags
  BY <1>1, ShapeFacts, ArgumentFacts, RegisterFacts DEF Homes
<1>5. mem \in [0 .. Top + StackCount -> Values] /\ link' \in Values
  BY <1>1 DEF FrameTypes
<1>6. /\ MoveInvariant' /\ mem' \in [0 .. Top + StackCount -> Values] /\ sp' = BodyStack
      /\ \A r \in CalleeHomes \ Saved : regs'[r] = r
      /\ \A i \in 1 .. ArgCount \cap DOMAIN home : home[i] \in Homes => regs'[home[i]] = args[i]
      /\ \A i \in 1 .. ArgCount \cap DOMAIN home : home[i] = InSlot => mem'[Slot(i)] = args[i]
      /\ \A b \in DOMAIN mem : (b >= Inner \/ (UsesFrame /\ b >= FramePointer))
           => mem'[b] = mem[b]
  <2>1. CASE Staged
    <3> DEFINE file == [regs EXCEPT ![Flags] = mem[sp]]
               v == mem[sp]
    <3>1. v \in Values /\ v = args[ArgCount] /\ ArgCount \in DOMAIN home
      <4>1. sp \in DOMAIN mem
        BY <1>1, <1>2, StagedPlace
      <4>2. ArgCount \in DOMAIN home
        BY <1>4, <2>1 DEF Staged
      <4> QED
        BY <1>2, <1>5, <2>1, <4>1, <4>2
    <3>2. /\ file \in [AllRegisters -> Values]
          /\ \A r \in AllRegisters : r # Flags => file[r] = regs[r]
      BY <1>1, <3>1
    <3>3. Put(ArgCount, v, file) /\ sp' = sp + 1
      BY <1>1, <2>1
    <3> HIDE DEF file, v
    <3>4. /\ MoveInvariant' /\ mem' \in [0 .. Top + StackCount -> Values]
          /\ home[ArgCount] \in Homes => regs'[home[ArgCount]] = v
          /\ home[ArgCount] = InSlot => mem'[Slot(ArgCount)] = v
          /\ \A j \in DOMAIN home : j # ArgCount =>
               /\ home[j] \in Homes => regs'[home[j]] = file[home[j]]
               /\ home[j] = InSlot => mem'[Slot(j)] = mem[Slot(j)]
          /\ \A r \in CalleeHomes \ Saved : regs'[r] = file[r]
          /\ \A b \in DOMAIN mem :
               b < BodyStack \/ b >= Inner \/ (UsesFrame /\ b >= FramePointer)
                 => mem'[b] = mem[b]
      BY <1>1, <1>2, <3>1, <3>2, <3>3, PutFacts
    <3>5. \A i \in 1 .. ArgCount \cap DOMAIN home : i # ArgCount => i \in Early
      BY <1>4 DEF Early
    <3>6. \A r \in CalleeHomes \ Saved : regs'[r] = r
      BY <1>3, <1>4, <3>2, <3>4
    <3>7. ASSUME NEW i \in 1 .. ArgCount \cap DOMAIN home, home[i] \in Homes
          PROVE  regs'[home[i]] = args[i]
      BY <1>3, <1>4, <3>1, <3>2, <3>4, <3>5, <3>7
    <3>8. ASSUME NEW i \in 1 .. ArgCount \cap DOMAIN home, home[i] = InSlot
          PROVE  mem'[Slot(i)] = args[i]
      <4>1. CASE i = ArgCount
        BY <3>1, <3>4, <3>8, <4>1
      <4>2. CASE i # ArgCount
        BY <1>2, <3>4, <3>5, <3>8, <4>2 DEF InSlots
      <4> QED
        BY <4>1, <4>2
    <3>9. sp' = BodyStack
      BY <1>1, <1>2, <2>1, <3>3, StagedPlace
    <3> QED
      BY <3>4, <3>6, <3>7, <3>8, <3>9
  <2>2. CASE ~Staged
    <3>1. mem' = mem /\ MoveInvariant' /\ regs' = regs /\ sp' = BodyStack
      BY <1>1, <1>2, <2>2, SameMoves, StagedPlace
    <3>2. \A i \in 1 .. ArgCount \cap DOMAIN home : i \in Early
      BY <1>4, <2>2 DEF Early, Staged
    <3> QED
      BY <1>2, <1>3, <1>5, <3>1, <3>2 DEF InSlots
  <2> QED
    BY <2>1, <2>2
<1>7. ArgumentWords' /\ LinkSaved' /\ RegistersSaved(SavedCount)' /\ FrameSaved'
  BY <1>1, <1>2, <1>6, FrameKept
<1>8. Stacked'
  <2>1. /\ StackPushed(0)' /\ BodyStack' = BodyStack /\ FrameSet'
    BY <1>1, <1>2, SameShape DEF StackPushed, FrameSet
  <2> QED
    BY <1>1, <1>2, <1>6, <1>7, <2>1 DEF Stacked
<1>9. k' \in Nat /\ k' > ArgCount /\ k' - 1 = ArgCount
  BY <1>1, <1>4
<1>10. Held'
  <2>1. HomesKept(CalleeHomes \ Saved)'
    BY <1>1, <1>6, SameShape DEF HomesKept
  <2>2. InHomes(1 .. k - 1)'
    BY <1>1, <1>6, <1>9, SameShape DEF InHomes
  <2>3. InSlots(1 .. k - 1)'
    BY <1>1, <1>6, <1>9, SameShape DEF InSlots
  <2> QED
    BY <1>1, <1>9, <2>1, <2>2, <2>3 DEF Held
<1> QED
  BY <1>1, <1>5, <1>6, <1>8, <1>9, <1>10, CalleeStep DEF CalleePlaces

\* A parameter that came on the stack (backend.py:745-756).
LEMMA LoadStackParameterStep ==
  ASSUME CallInvariant, LoadStackParameter
  PROVE  CallInvariant'
<1> DEFINE word == mem[StackArgument(k)]
           file == [regs EXCEPT ![Scratch] = Nothing, ![1] = word]
<1>1. /\ MoveInvariant /\ Types /\ FrameTypes /\ Stacked /\ Held
      /\ regs \in [AllRegisters -> Values]
      /\ pc = "load" /\ pc' = pc /\ k' = k + 1 /\ k <= Params /\ CalleeKeeps
      /\ sp' = sp /\ fp' = fp /\ link' = link /\ Put(k, word, file)
  BY DEF CallInvariant, LoadStackParameter, CalleePlaces, CalleeKeeps, MoveInvariant, TypeOK
<1>2. /\ ArgumentWords /\ StackPushed(0) /\ link = KeptLink /\ LinkSaved
      /\ RegistersSaved(SavedCount) /\ FrameSet /\ FrameSaved /\ sp = BodyStack
      /\ k > ArgCount /\ HomesKept(CalleeHomes \ Saved)
      /\ InHomes(1 .. k - 1) /\ InSlots(1 .. k - 1)
  BY <1>1 DEF Stacked, Held
<1>3. /\ DOMAIN home = 1 .. Len(args) /\ Params = Len(args) /\ Len(args) \in Nat
      /\ ArgCount \in Nat /\ k \in Nat /\ k \in DOMAIN home
      /\ \A r \in Homes : r \in AllRegisters /\ r # 1 /\ r # Scratch
      /\ \A r \in CalleeHomes : r \in Homes /\ r \in AllRegisters
      /\ Scratch \in AllRegisters /\ 1 \in AllRegisters /\ Nothing \in Values
  <2>1. DOMAIN home = 1 .. Len(args) /\ Params = Len(args) /\ Len(args) \in Nat
        /\ ArgCount \in Nat /\ ArgCount > 1 /\ k \in Nat
    BY <1>1, ShapeFacts, ArgumentFacts, RegisterFacts DEF Types
  <2>2. k \in DOMAIN home
    BY <1>1, <1>2, <2>1
  <2>3. Scratch \in ArgRegisters /\ 1 \in ArgRegisters
    BY <2>1, RegisterFacts DEF ArgRegisters
  <2> QED
    BY <2>1, <2>2, <2>3, RegisterFacts DEF Homes
<1>4. word = args[k] /\ word \in Values
  <2>1. /\ k - ArgCount \in 1 .. StackCount /\ InCount + (k - ArgCount) = k
        /\ StackArgument(k) = Top + (k - ArgCount) - 1
    BY <1>1, <1>2, <1>3, StackArgumentFacts DEF FrameSet
  <2>2. word = args[k]
    BY <1>2, <2>1 DEF ArgumentWords
  <2> QED
    BY <1>1, <1>3, <2>2, ArgumentFacts, RegisterFacts
<1>5. /\ file \in [AllRegisters -> Values]
      /\ \A r \in Homes : file[r] = regs[r]
  BY <1>1, <1>3, <1>4
<1> HIDE DEF word, file
<1>6. /\ MoveInvariant' /\ mem' \in [0 .. Top + StackCount -> Values]
      /\ home[k] \in Homes => regs'[home[k]] = word
      /\ home[k] = InSlot => mem'[Slot(k)] = word
      /\ \A j \in DOMAIN home : j # k =>
           /\ home[j] \in Homes => regs'[home[j]] = file[home[j]]
           /\ home[j] = InSlot => mem'[Slot(j)] = mem[Slot(j)]
      /\ \A r \in CalleeHomes \ Saved : regs'[r] = file[r]
      /\ \A b \in DOMAIN mem : b < BodyStack \/ b >= Inner \/ (UsesFrame /\ b >= FramePointer)
           => mem'[b] = mem[b]
  BY <1>1, <1>2, <1>3, <1>4, <1>5, PutFacts
<1>7. ArgumentWords' /\ LinkSaved' /\ RegistersSaved(SavedCount)' /\ FrameSaved'
  BY <1>1, <1>2, <1>6, FrameKept
<1>8. Stacked'
  <2>1. /\ StackPushed(0)' /\ BodyStack' = BodyStack /\ FrameSet'
    BY <1>1, <1>2, SameShape DEF StackPushed, FrameSet
  <2> QED
    BY <1>1, <1>2, <1>7, <2>1 DEF Stacked
<1>9. k' \in Nat /\ k' > ArgCount /\ k' - 1 = k /\ \A i \in 1 .. k : i = k \/ i \in 1 .. k - 1
  BY <1>1, <1>2, <1>3
<1>10. Held'
  <2>1. HomesKept(CalleeHomes \ Saved)'
    BY <1>1, <1>2, <1>3, <1>5, <1>6, SameShape DEF HomesKept
  <2>2. \A i \in 1 .. k \cap DOMAIN home : home[i] \in Homes => regs'[home[i]] = args[i]
    BY <1>2, <1>4, <1>5, <1>6, <1>9 DEF InHomes
  <2>3. \A i \in 1 .. k \cap DOMAIN home : home[i] = InSlot => mem'[Slot(i)] = args[i]
    BY <1>2, <1>4, <1>6, <1>9 DEF InSlots
  <2>4. InHomes(1 .. k - 1)'
    BY <1>1, <1>9, <2>2, SameShape DEF InHomes
  <2>5. InSlots(1 .. k - 1)'
    BY <1>1, <1>9, <2>3, SameShape DEF InSlots
  <2> QED
    BY <1>1, <1>9, <2>1, <2>4, <2>5 DEF Held
<1>11. link' \in Values
  BY <1>1 DEF FrameTypes
<1> QED
  BY <1>1, <1>6, <1>8, <1>9, <1>10, <1>11, CalleeStep DEF CalleePlaces

\* The parameters are all at home (backend.py:757-759).
LEMMA EnterBodyStep ==
  ASSUME CallInvariant, EnterBody
  PROVE  CallInvariant'
<1>1. /\ MoveInvariant /\ Types /\ FrameTypes /\ Stacked /\ Held
      /\ pc = "load" /\ pc' = "body" /\ k' = k /\ k > Params /\ CalleeKeeps
      /\ sp' = sp /\ fp' = fp /\ link' = link /\ mem' = mem /\ UNCHANGED moveVars
  BY DEF CallInvariant, EnterBody, CalleePlaces, CalleeKeeps
<1>2. /\ ArgumentWords /\ StackPushed(0) /\ link = KeptLink /\ LinkSaved
      /\ RegistersSaved(SavedCount) /\ FrameSet /\ FrameSaved /\ sp = BodyStack
      /\ HomesKept(CalleeHomes \ Saved) /\ InHomes(1 .. k - 1) /\ InSlots(1 .. k - 1)
  BY <1>1 DEF Stacked, Held
<1>3. MoveInvariant' /\ regs' = regs
  BY <1>1, SameMoves
<1>4. \A i \in DOMAIN home : i \in 1 .. k - 1
  <2>1. DOMAIN home = 1 .. Params /\ Params \in Nat /\ k \in Nat
    BY <1>1, ShapeFacts, ArgumentFacts DEF Types
  <2> QED
    BY <1>1, <2>1
<1>5. Stacked'
  <2>1. StackPushed(0)' /\ BodyStack' = BodyStack
    BY <1>1, <1>2, SameShape DEF StackPushed
  <2>2. FrameSet' /\ FrameSaved' /\ ArgumentWords' /\ LinkSaved' /\ RegistersSaved(SavedCount)'
    BY <1>1, <1>2, SameShape
       DEF FrameSet, FrameSaved, ArgumentWords, LinkSaved, RegistersSaved
  <2> QED
    BY <1>1, <1>2, <2>1, <2>2 DEF Stacked
<1>6. Held'
  <2>1. HomesKept(CalleeHomes \ Saved)'
    BY <1>1, <1>2, <1>3, SameShape DEF HomesKept
  <2>2. InHomes(DOMAIN home)'
    BY <1>1, <1>2, <1>3, <1>4, SameShape DEF InHomes
  <2>3. InSlots(DOMAIN home)'
    BY <1>1, <1>2, <1>4, SameShape DEF InSlots
  <2> QED
    BY <1>1, <2>1, <2>2, <2>3 DEF Held
<1>7. k' \in Nat /\ link' \in Values /\ mem' \in [0 .. Top + StackCount -> Values]
  BY <1>1 DEF Types, FrameTypes
<1> QED
  BY <1>1, <1>3, <1>5, <1>6, <1>7, CalleeStep DEF CalleePlaces

----------------------------------------------------------------------------
(* The body and the epilogue.                                               *)

\* The body overwrites what it may.
LEMMA BodyStep ==
  ASSUME CallInvariant, Body
  PROVE  CallInvariant'
<1> DEFINE file == [r \in AllRegisters |->
                      IF r = 1 THEN Result
                      ELSE IF r \in CalleeHomes \ Saved THEN regs[r] ELSE Nothing]
           floor == IF UsesFrame THEN fp ELSE sp
<1>1. /\ MoveInvariant /\ Types /\ FrameTypes /\ Stacked /\ Held
      /\ regs \in [AllRegisters -> Values]
      /\ pc = "body" /\ pc' = "leave" /\ k' = k /\ CalleeKeeps /\ fp' = fp
      /\ Settle(file)
      /\ link' = IF calls THEN Nothing ELSE link
      /\ mem' = [a \in DOMAIN mem |-> IF a < floor THEN Nothing ELSE mem[a]]
      /\ sp' \in {sp} \union {s \in {sp - 1} : UsesFrame}
  BY DEF CallInvariant, Body, CalleePlaces, CalleeKeeps, MoveInvariant, TypeOK
<1>2. /\ ArgumentWords /\ StackPushed(0) /\ link = KeptLink /\ LinkSaved
      /\ RegistersSaved(SavedCount) /\ FrameSet /\ FrameSaved /\ sp = BodyStack
      /\ HomesKept(CalleeHomes \ Saved)
  BY <1>1 DEF Stacked, Held
<1>3. /\ Nothing \in Values /\ Result \in Values /\ 1 \in AllRegisters
      /\ \A r \in CalleeHomes : r \in AllRegisters /\ r # 1
  <2>1. 1 \in ArgRegisters
    BY RegisterFacts DEF ArgRegisters
  <2> QED
    BY <2>1, RegisterFacts, FrameAssumption DEF Homes
<1>4. /\ file \in [AllRegisters -> Values] /\ file[1] = Result
      /\ \A r \in CalleeHomes \ Saved : file[r] = regs[r]
  BY <1>1, <1>3
<1> HIDE DEF file
<1>5. MoveInvariant' /\ regs' = file
  BY <1>1, <1>4, Settled
<1>6. mem \in [0 .. Top + StackCount -> Values] /\ link \in Values
  BY <1>1 DEF FrameTypes
<1>7. mem' \in [0 .. Top + StackCount -> Values] /\ link' \in Values
  BY <1>1, <1>3, <1>6
<1>8. /\ UsesFrame => floor = FramePointer
      /\ ~UsesFrame => floor = Inner /\ sp = Inner
      /\ Inner \in Nat /\ FramePointer \in Nat /\ FramePointer = Inner - 1
  BY <1>1, <1>2, Layout DEF FrameSet
<1>9. \A b \in DOMAIN mem : (b >= Inner \/ (UsesFrame /\ b >= FramePointer)) => mem'[b] = mem[b]
  <2> SUFFICES ASSUME NEW b \in DOMAIN mem, b >= Inner \/ (UsesFrame /\ b >= FramePointer)
               PROVE  mem'[b] = mem[b]
    OBVIOUS
  <2>1. b \in Nat
    BY <1>1, <1>6, Layout
  <2>2. ~(b < floor)
    BY <1>8, <2>1
  <2> HIDE DEF floor
  <2> QED
    BY <1>1, <2>2
<1>10. ArgumentWords' /\ LinkSaved' /\ RegistersSaved(SavedCount)' /\ FrameSaved'
  BY <1>1, <1>2, <1>9, FrameKept
<1>11. Stacked'
  <2>1. StackPushed(0)' /\ FrameSet' /\ Inner' = Inner /\ UsesFrame' = UsesFrame
    BY <1>1, <1>2, SameShape DEF StackPushed, FrameSet
  <2>2. calls' = calls /\ (~calls => link' = KeptLink)
    BY <1>1, <1>2, SameShape
  <2>3. UsesFrame \/ sp' = Inner
    BY <1>1, <1>8
  <2> QED
    BY <1>1, <1>10, <2>1, <2>2, <2>3 DEF Stacked
<1>12. Held'
  <2>1. HomesKept(CalleeHomes \ Saved)'
    BY <1>1, <1>2, <1>4, <1>5, SameShape DEF HomesKept
  <2> QED
    BY <1>1, <1>4, <1>5, <2>1 DEF Held
<1>13. k' \in Nat
  BY <1>1 DEF Types
<1> QED
  BY <1>1, <1>5, <1>7, <1>11, <1>12, <1>13, CalleeStep DEF CalleePlaces

\* mov sp, fp; pop fp (backend.py:1052-1055).
LEMMA LeaveStep ==
  ASSUME CallInvariant, Leave
  PROVE  CallInvariant'
<1>1. /\ MoveInvariant /\ Types /\ FrameTypes /\ Stacked /\ Held
      /\ pc = "leave" /\ pc' = "restore" /\ k' = Len(SavedInOrder) /\ CalleeKeeps
      /\ IF UsesFrame THEN fp' = mem[fp] /\ sp' = fp + 1 ELSE fp' = fp /\ sp' = sp
      /\ link' = link /\ mem' = mem /\ UNCHANGED moveVars
  BY DEF CallInvariant, Leave, CalleePlaces, CalleeKeeps
<1>2. /\ ArgumentWords /\ StackPushed(0) /\ LinkSaved /\ (~calls => link = KeptLink)
      /\ RegistersSaved(SavedCount) /\ FrameSet /\ FrameSaved /\ (UsesFrame \/ sp = Inner)
      /\ HomesKept(CalleeHomes \ Saved) /\ regs[1] = Result
  BY <1>1 DEF Stacked, Held
<1>3. MoveInvariant' /\ regs' = regs
  BY <1>1, SameMoves
<1>4. /\ Inner \in Nat /\ Inner = SaveBase - SavedCount /\ FramePointer = Inner - 1
      /\ SavedCount \in Nat /\ Len(SavedInOrder) = SavedCount
  BY <1>1, Layout, SavedFacts
<1>5. fp' = KeptFrame /\ sp' = Inner
  <2>1. CASE UsesFrame
    BY <1>1, <1>2, <1>4, <2>1 DEF FrameSet, FrameSaved
  <2>2. CASE ~UsesFrame
    BY <1>1, <1>2, <2>2 DEF FrameSet
  <2> QED
    BY <2>1, <2>2
<1>6. Stacked'
  <2>1. /\ StackPushed(0)' /\ SavedCount' = SavedCount /\ SaveBase' = SaveBase /\ calls' = calls
    BY <1>1, <1>2, SameShape DEF StackPushed
  <2>2. ArgumentWords' /\ LinkSaved' /\ RegistersSaved(SavedCount)'
    BY <1>1, <1>2, SameShape DEF ArgumentWords, LinkSaved, RegistersSaved
  <2>3. k' \in 0 .. SavedCount /\ sp' = SaveBase - k'
    BY <1>1, <1>4, <1>5
  <2> QED
    BY <1>1, <1>2, <1>5, <2>1, <2>2, <2>3 DEF Stacked
<1>7. Held'
  <2>1. HomesKept(CalleeHomes \ Saved)'
    BY <1>1, <1>2, <1>3, SameShape DEF HomesKept
  <2>2. SavedCount' = SavedCount /\ \A j \in k' + 1 .. SavedCount : FALSE
    BY <1>1, <1>4, SameShape
  <2> QED
    BY <1>1, <1>2, <1>3, <2>1, <2>2 DEF Held
<1>8. k' \in Nat /\ link' \in Values /\ mem' \in [0 .. Top + StackCount -> Values]
  BY <1>1, <1>4 DEF FrameTypes
<1> QED
  BY <1>1, <1>3, <1>6, <1>7, <1>8, CalleeStep DEF CalleePlaces

\* pop of a preserved register (backend.py:1056-1057).
LEMMA RestoreRegisterStep ==
  ASSUME CallInvariant, RestoreRegister
  PROVE  CallInvariant'
<1> DEFINE r0 == SavedInOrder[k]
           file == [regs EXCEPT ![r0] = mem[sp]]
<1>1. /\ MoveInvariant /\ Types /\ FrameTypes /\ Stacked /\ Held
      /\ regs \in [AllRegisters -> Values]
      /\ pc = "restore" /\ pc' = pc /\ k' = k - 1 /\ k > 0 /\ CalleeKeeps
      /\ fp' = fp /\ sp' = sp + 1 /\ link' = link /\ mem' = mem /\ Settle(file)
  BY DEF CallInvariant, RestoreRegister, CalleePlaces, CalleeKeeps, MoveInvariant, TypeOK
<1>2. /\ ArgumentWords /\ StackPushed(0) /\ LinkSaved /\ (~calls => link = KeptLink)
      /\ RegistersSaved(SavedCount) /\ fp = KeptFrame /\ k \in 0 .. SavedCount
      /\ sp = SaveBase - k
      /\ HomesKept(CalleeHomes \ Saved) /\ regs[1] = Result
      /\ \A j \in k + 1 .. SavedCount : regs[SavedInOrder[j]] = SavedInOrder[j]
  BY <1>1 DEF Stacked, Held
<1>3. /\ SaveBase \in Nat /\ SavedCount \in Nat /\ k \in 1 .. SavedCount
      /\ \A j \in 1 .. SavedCount : SavedInOrder[j] \in Saved
      /\ \A i, j \in 1 .. SavedCount : SavedInOrder[i] = SavedInOrder[j] => i = j
  <2>1. SaveBase \in Nat /\ SavedCount \in Nat
    BY <1>1, Layout, SavedFacts
  <2>2. k \in 1 .. SavedCount
    BY <1>1, <1>2, <2>1
  <2> QED
    BY <1>1, <2>1, <2>2, SavedFacts
<1>4. /\ \A r \in Saved : r \in CalleeHomes
      /\ \A r \in CalleeHomes : r \in AllRegisters /\ r \in Values /\ r # 1
      /\ 1 \in AllRegisters
  <2>1. 1 \in ArgRegisters
    BY RegisterFacts DEF ArgRegisters
  <2>2. \A r \in Saved : r \in CalleeHomes
    BY <1>1, ShapeFacts
  <2> QED
    BY <2>1, <2>2, RegisterFacts DEF Homes, Operands
<1>5. mem[sp] = r0 /\ r0 \in Saved
  BY <1>2, <1>3 DEF RegistersSaved
<1>6. /\ file \in [AllRegisters -> Values] /\ file[r0] = r0
      /\ \A r \in AllRegisters : r # r0 => file[r] = regs[r]
  BY <1>1, <1>4, <1>5
<1> HIDE DEF file
<1>7. MoveInvariant' /\ regs' = file
  BY <1>1, <1>6, Settled
<1>8. k' \in 0 .. SavedCount /\ sp' = SaveBase - k' /\ k' \in Nat
      /\ \A j \in k' + 1 .. SavedCount :
           j \in 1 .. SavedCount /\ (j = k \/ j \in k + 1 .. SavedCount)
  BY <1>1, <1>2, <1>3
<1>9. Stacked'
  <2>1. /\ StackPushed(0)' /\ SavedCount' = SavedCount /\ SaveBase' = SaveBase /\ calls' = calls
    BY <1>1, <1>2, SameShape DEF StackPushed
  <2>2. ArgumentWords' /\ LinkSaved' /\ RegistersSaved(SavedCount)'
    BY <1>1, <1>2, SameShape DEF ArgumentWords, LinkSaved, RegistersSaved
  <2> QED
    BY <1>1, <1>2, <1>8, <2>1, <2>2 DEF Stacked
<1>10. Held'
  <2>1. HomesKept(CalleeHomes \ Saved)'
    BY <1>1, <1>2, <1>4, <1>5, <1>6, <1>7, SameShape DEF HomesKept
  <2>2. regs'[1] = Result
    BY <1>2, <1>4, <1>5, <1>6, <1>7
  <2>3. ASSUME NEW j \in k' + 1 .. SavedCount
        PROVE  regs'[SavedInOrder[j]] = SavedInOrder[j]
    <3>1. CASE j = k
      BY <1>6, <1>7, <3>1
    <3>2. CASE j # k
      <4>1. /\ j \in k + 1 .. SavedCount /\ SavedInOrder[j] # r0
            /\ SavedInOrder[j] \in AllRegisters
        BY <1>3, <1>4, <1>8, <3>2
      <4> QED
        BY <1>2, <1>6, <1>7, <4>1
    <3> QED
      BY <3>1, <3>2
  <2>4. \A j \in k' + 1 .. SavedCount' : regs'[SavedInOrder'[j]] = SavedInOrder'[j]
    BY <1>1, <2>3, SameShape
  <2> QED
    BY <1>1, <2>1, <2>2, <2>4 DEF Held
<1>11. link' \in Values /\ mem' \in [0 .. Top + StackCount -> Values]
  BY <1>1 DEF FrameTypes
<1> QED
  BY <1>1, <1>7, <1>8, <1>9, <1>10, <1>11, CalleeStep DEF CalleePlaces

\* pop link, and back (backend.py:1058-1060).
LEMMA FinishStep ==
  ASSUME CallInvariant, Finish
  PROVE  CallInvariant'
<1>1. /\ MoveInvariant /\ Types /\ FrameTypes /\ Stacked /\ Held
      /\ pc = "restore" /\ pc' = "done" /\ k' = k /\ k = 0 /\ CalleeKeeps
      /\ IF calls THEN link' = mem[sp] /\ sp' = sp + 1 ELSE link' = link /\ sp' = sp
      /\ fp' = fp /\ mem' = mem /\ UNCHANGED moveVars
  BY DEF CallInvariant, Finish, CalleePlaces, CalleeKeeps
<1>2. /\ ArgumentWords /\ StackPushed(0) /\ LinkSaved /\ (~calls => link = KeptLink)
      /\ fp = KeptFrame /\ sp = SaveBase - k
      /\ HomesKept(CalleeHomes \ Saved) /\ regs[1] = Result
      /\ \A j \in k + 1 .. SavedCount : regs[SavedInOrder[j]] = SavedInOrder[j]
  BY <1>1 DEF Stacked, Held
<1>3. MoveInvariant' /\ regs' = regs
  BY <1>1, SameMoves
<1>4. Top \in Nat /\ SaveBase = Top - LinkWords /\ SaveBase \in Nat
  BY <1>1, Layout
<1>5. link' = KeptLink /\ sp' = Top
  <2>1. CASE calls
    <3>1. SaveBase = Top - 1 /\ sp = Top - 1 /\ sp + 1 = Top
      BY <1>1, <1>2, <1>4, <2>1 DEF LinkWords
    <3> QED
      BY <1>1, <1>2, <2>1, <3>1 DEF LinkSaved
  <2>2. CASE ~calls
    <3>1. sp = Top
      BY <1>1, <1>2, <1>4, <2>2 DEF LinkWords
    <3> QED
      BY <1>1, <1>2, <2>2, <3>1
  <2> QED
    BY <2>1, <2>2
<1>6. \A r \in CalleeHomes : regs[r] = r
  <2>1. \A r \in Saved : \E j \in 1 .. SavedCount : SavedInOrder[j] = r
    BY <1>1, SavedFacts
  <2>2. \A j \in 1 .. SavedCount : regs[SavedInOrder[j]] = SavedInOrder[j]
    BY <1>1, <1>2
  <2>3. \A r \in Saved : regs[r] = r
    BY <2>1, <2>2
  <2> QED
    BY <1>2, <2>3 DEF HomesKept
<1>7. Stacked'
  <2>1. StackPushed(0)' /\ ArgumentWords'
    BY <1>1, <1>2, SameShape DEF StackPushed, ArgumentWords
  <2> QED
    BY <1>1, <1>2, <1>5, <2>1 DEF Stacked
<1>8. Held'
  BY <1>1, <1>2, <1>3, <1>6, SameShape DEF Held, HomesKept
<1>9. k' \in Nat /\ link' \in Values /\ mem' \in [0 .. Top + StackCount -> Values]
  BY <1>1, <1>5, FrameAssumption DEF FrameTypes, Types
<1> QED
  BY <1>1, <1>3, <1>7, <1>8, <1>9, CalleeStep DEF CalleePlaces

\* The stack arguments are discarded (backend.py:436-445).
LEMMA DiscardStep ==
  ASSUME CallInvariant, Discard
  PROVE  CallInvariant'
<1> DEFINE count == Len(args) - Cardinality(InRegisters)
<1>1. /\ MoveInvariant /\ Types /\ FrameTypes /\ Stacked /\ Held
      /\ pc = "done" /\ pc' = "returned" /\ k' = k
      /\ args' = args /\ target' = target /\ UNCHANGED moveVars
      /\ sp' = sp + count /\ pushed' = SubSeq(pushed, count + 1, Len(pushed))
      /\ fp' = fp /\ mem' = mem /\ link' = link
  BY DEF CallInvariant, Discard, CalleePlaces, callVars
<1>2. /\ ArgumentWords /\ StackPushed(0) /\ link = KeptLink
      /\ fp = KeptFrame /\ sp = Top /\ HomesKept(CalleeHomes) /\ regs[1] = Result
  BY <1>1 DEF Stacked, Held
<1>3. MoveInvariant' /\ regs' = regs
  BY <1>1, SameMoves
<1>4. /\ InCount \in Nat /\ StackCount \in Nat /\ InCount + StackCount = Len(args)
      /\ Len(args) \in Nat /\ InRegisters = 1 .. InCount /\ Top \in Nat /\ ArgCount \in Nat
      /\ (ArgCount <= Len(args) => InCount = ArgCount)
  BY <1>1, ArgumentFacts, RegisterFacts, FrameAssumption
<1>5. Cardinality(InRegisters) = InCount
  <2>1. Cardinality(1 .. InCount) = IF 1 > InCount THEN 0 ELSE InCount - 1 + 1
    BY <1>4, FS_Interval
  <2> QED
    BY <1>4, <2>1
<1>6. count = StackCount
  BY <1>4, <1>5
<1>7. sp' = Top + Len(args) - Cardinality(InRegisters)
  BY <1>1, <1>2, <1>4, <1>5
<1> HIDE DEF count
<1>8. pushed' = <<>>
  <2>1. Len(pushed) = 0 + StackCount
    BY <1>2 DEF StackPushed
  <2>2. Len(pushed) = count /\ count + 1 > count /\ count \in Nat /\ pushed \in Seq(Values)
    BY <1>1, <1>4, <1>6, <2>1 DEF Types
  <2>3. pushed' = SubSeq(pushed, count + 1, count)
    BY <1>1, <2>2
  <2> QED
    BY <2>2, <2>3, SubSeqEmpty
<1>9. ASSUME NEW i \in ArgCount + 1 .. Len(args)
      PROVE  mem[Top + i - ArgCount - 1] = args[i]
  <2>1. /\ InCount = ArgCount /\ i - ArgCount \in 1 .. StackCount
        /\ Top + (i - ArgCount) - 1 = Top + i - ArgCount - 1 /\ InCount + (i - ArgCount) = i
    BY <1>4
  <2> QED
    BY <1>2, <2>1 DEF ArgumentWords
<1>10. Types'
  BY <1>1, <1>8, EmptySeq DEF Types
<1>11. Placed'
  BY <1>1 DEF Placed, CallerPlaces
<1>12. Restored'
  <2>1. InRegisters' = InRegisters
    BY <1>1 DEF InRegisters
  <2> QED
    BY <1>1, <1>2, <1>3, <1>7, <1>8, <1>9, <2>1 DEF Restored, HomesKept
<1> QED
  BY <1>1, <1>3, <1>10, <1>11, <1>12 DEF CallInvariant, CalleePlaces

----------------------------------------------------------------------------
(* The whole call.                                                          *)

\* Before the call every home holds its own value.
LEMMA InitCall == FrameInit => CallInvariant
<1> SUFFICES ASSUME FrameInit PROVE CallInvariant
  OBVIOUS
<1>1. /\ initial = [r \in AllRegisters |-> IF r \in Homes THEN r ELSE Nothing]
      /\ regs = initial /\ goal = NoMoves /\ pending = NoMoves
      /\ args \in ArgLists /\ target \in Targets /\ pc = "target" /\ k = Len(args)
      /\ pushed = <<>> /\ sp = Top /\ fp = KeptFrame
  BY DEF FrameInit, CallInit
<1>2. /\ regs \in [AllRegisters -> Values] /\ \A r \in Homes : regs[r] = r
  <2>1. \A r \in Homes : r \in AllRegisters /\ r \in Values
    BY RegisterFacts DEF Operands
  <2> QED
    BY <1>1, <2>1, RegisterFacts
<1>3. MoveInvariant
  <2>1. NoMoves \in MoveLists(Registers) /\ DOMAIN NoMoves = {}
    <3>1. NoMoves \in [{} -> Registers] /\ DOMAIN NoMoves = {}
      BY DEF NoMoves
    <3> QED
      BY <3>1 DEF MoveLists
  <2> QED
    BY <1>1, <1>2, <2>1 DEF MoveInvariant, TypeOK, ValuesReachable, OneInFlags, AllRegisters
<1>4. Len(args) \in Nat
  BY <1>1, CallAssumption, LenProperties
<1>5. Types
  BY <1>1, <1>4, EmptySeq DEF Types, CallerPlaces
<1>6. InCount \in Nat /\ InCount <= Len(args)
  BY <1>5, ArgumentFacts
<1>7. Placed
  <2>1. /\ k \in InCount .. Len(args) /\ Len(pushed) = Len(args) - k
        /\ \A j \in 1 .. Len(args) - k : FALSE
    BY <1>1, <1>4, <1>6
  <2> QED
    BY <1>1, <1>2, <2>1 DEF Placed, CallerPlaces, HomesKept
<1> QED
  BY <1>1, <1>3, <1>5, <1>7 DEF CallInvariant, CalleePlaces, Restored

\* A step of the caller's sequence.
LEMMA CallerNext ==
  ASSUME CallInvariant, CallNext, UNCHANGED <<shape, machine>>
  PROVE  CallInvariant'
<1>1. sp' = sp /\ fp' = fp
  BY DEF machine
<1>2. CASE GetTarget
  BY <1>1, <1>2, GetTargetStep DEF CallerKeeps, GetTarget, callVars
<1>3. CASE PushStackArgument
  BY <1>1, <1>3, PushStackArgumentStep DEF CallerKeeps, PushStackArgument, callVars
<1>4. CASE ChooseDirect \/ ChooseMoves \/ ChooseStaging
  BY <1>1, <1>4, ChooseStep
     DEF CallerKeeps, ChooseDirect, ChooseMoves, ChooseStaging, callVars
<1>5. CASE Place
  BY <1>1, <1>5, PlaceStep DEF CallerKeeps, Place, callVars
<1>6. CASE MoveOne
  BY <1>1, <1>6, MoveOneStep DEF CallerKeeps, MoveOne, callVars
<1>7. CASE PushArgument
  BY <1>1, <1>7, PushArgumentStep DEF CallerKeeps, PushArgument, callVars
<1>8. CASE AllPushed
  BY <1>1, <1>8, AllPushedStep DEF CallerKeeps, AllPushed, callVars
<1>9. CASE PopArgument
  BY <1>1, <1>9, PopArgumentStep DEF CallerKeeps, PopArgument, callVars
<1>10. CASE Jump
  BY <1>1, <1>10, JumpStep DEF CallerKeeps, Jump, callVars
<1> QED
  BY <1>2, <1>3, <1>4, <1>5, <1>6, <1>7, <1>8, <1>9, <1>10 DEF CallNext

\* A step of something else.
LEMMA CallStutters ==
  ASSUME CallInvariant, UNCHANGED frameVars
  PROVE  CallInvariant'
<1>1. /\ UNCHANGED moveVars /\ pc' = pc /\ k' = k /\ pushed' = pushed /\ args' = args
      /\ target' = target /\ home' = home /\ others' = others /\ locals' = locals
      /\ calls' = calls /\ mem' = mem /\ sp' = sp /\ fp' = fp /\ link' = link
      /\ regs' = regs /\ initial' = initial /\ goal' = goal /\ pending' = pending
  BY DEF frameVars, vars, shape, machine, callVars, moveVars
<1>2. CalleeKeeps
  BY <1>1 DEF CalleeKeeps, shape, callVars
<1>3. MoveInvariant'
  BY <1>1, SameMoves DEF CallInvariant
<1>4. Types'
  BY <1>1 DEF CallInvariant, Types
<1>5. Placed'
  <2>1. /\ FromCallerHome' = FromCallerHome /\ OnlyHomes' = OnlyHomes /\ MoveList' = MoveList
        /\ InCount' = InCount /\ StackCount' = StackCount
    BY <1>1 DEF FromCallerHome, OnlyHomes, MoveList, InRegisters, InCount, StackCount
  <2> QED
    BY <1>1, <2>1 DEF CallInvariant, Placed, HomesKept, Arrived, StackPushed
<1>6. FrameTypes => FrameTypes'
  BY <1>1, <1>2, SameShape DEF FrameTypes
<1>7. Stacked => Stacked'
  BY <1>1, <1>2, SameShape
     DEF Stacked, ArgumentWords, StackPushed, LinkSaved, RegistersSaved, FrameSet, FrameSaved
<1>8. Held => Held'
  BY <1>1, <1>2, SameShape DEF Held, HomesKept, Arrived, InSlots, InHomes
<1>9. Restored'
  BY <1>1 DEF CallInvariant, Restored, InRegisters
<1> QED
  BY <1>1, <1>3, <1>4, <1>5, <1>6, <1>7, <1>8, <1>9 DEF CallInvariant

\* Everything that the caller, the prologue and the epilogue have done so far
\* is still there at each step of a call.
THEOREM CallInvariance == FrameSpec => []CallInvariant
<1>1. ASSUME CallInvariant, [FrameNext]_frameVars
      PROVE  CallInvariant'
  <2>1. CASE CallNext /\ UNCHANGED <<shape, machine>>
    BY <1>1, <2>1, CallerNext
  <2>2. CASE Enter
    BY <1>1, <2>2, EnterStep
  <2>3. CASE SaveLink
    BY <1>1, <2>3, SaveLinkStep
  <2>4. CASE SaveRegister
    BY <1>1, <2>4, SaveRegisterStep
  <2>5. CASE EnterFrame
    BY <1>1, <2>5, EnterFrameStep
  <2>6. CASE Stage
    BY <1>1, <2>6, StageStep
  <2>7. CASE StoreParameter
    BY <1>1, <2>7, StoreParameterStep
  <2>8. CASE MoveParameters
    BY <1>1, <2>8, MoveParametersStep
  <2>9. CASE MoveParameter
    BY <1>1, <2>9, MoveParameterStep
  <2>10. CASE Unstage
    BY <1>1, <2>10, UnstageStep
  <2>11. CASE LoadStackParameter
    BY <1>1, <2>11, LoadStackParameterStep
  <2>12. CASE EnterBody
    BY <1>1, <2>12, EnterBodyStep
  <2>13. CASE Body
    BY <1>1, <2>13, BodyStep
  <2>14. CASE Leave
    BY <1>1, <2>14, LeaveStep
  <2>15. CASE RestoreRegister
    BY <1>1, <2>15, RestoreRegisterStep
  <2>16. CASE Finish
    BY <1>1, <2>16, FinishStep
  <2>17. CASE Discard
    BY <1>1, <2>17, DiscardStep
  <2>18. CASE UNCHANGED frameVars
    BY <1>1, <2>18, CallStutters
  <2> QED
    BY <1>1, <2>1, <2>2, <2>3, <2>4, <2>5, <2>6, <2>7, <2>8, <2>9, <2>10, <2>11, <2>12,
       <2>13, <2>14, <2>15, <2>16, <2>17, <2>18 DEF FrameNext
<1> QED
  BY <1>1, InitCall, PTL DEF FrameSpec

\* When the call is made every argument is where the convention wants it,
\* whichever route placed it.
THEOREM CallerDelivers == FrameSpec => []ArgumentsArrive
<1>1. CallInvariant => ArgumentsArrive
  <2> SUFFICES ASSUME CallInvariant, pc = "call" PROVE ArgumentsArrive
    BY DEF ArgumentsArrive
  <2>1. Arrived(1 .. InCount) /\ StackPushed(0) /\ Types
    BY DEF CallInvariant, Placed
  <2>2. /\ args \in Seq(Operands) /\ Len(args) \in Nat /\ InRegisters = 1 .. InCount
        /\ InCount \in Nat /\ StackCount \in Nat /\ ArgCount \in Nat
        /\ InCount + StackCount = Len(args)
        /\ (StackCount > 0 => InCount = ArgCount) /\ InCount <= ArgCount
        /\ (ArgCount <= Len(args) => InCount = ArgCount)
        /\ (Len(args) <= ArgCount => InCount = Len(args))
    BY <2>1, ArgumentFacts, RegisterFacts
  <2>3. \A i \in InRegisters : regs[i] = args[i]
    BY <2>1, <2>2 DEF Arrived
  <2> DEFINE t == SubSeq(args, ArgCount + 1, Len(args))
  <2>4. t \in Seq(Operands) /\ Len(t) = StackCount
        /\ \A j \in 1 .. StackCount : t[j] = args[InCount + j]
    <3>1. \A i \in ArgCount + 1 .. Len(args) : args[i] \in Operands
      BY <2>1, <2>2, ArgumentFacts
    <3>2. /\ t \in Seq(Operands)
          /\ Len(t) = IF ArgCount + 1 <= Len(args) THEN Len(args) - (ArgCount + 1) + 1 ELSE 0
          /\ \A j \in 1 .. Len(args) - (ArgCount + 1) + 1 : t[j] = args[ArgCount + 1 + j - 1]
      BY <2>2, <3>1, SubSeqProperties
    <3> HIDE DEF t
    <3>3. Len(t) = StackCount
      BY <2>2, <3>2
    <3>4. ASSUME NEW j \in 1 .. StackCount PROVE t[j] = args[InCount + j]
      <4>1. /\ j \in 1 .. Len(args) - (ArgCount + 1) + 1
            /\ ArgCount + 1 + j - 1 = InCount + j
        BY <2>2
      <4> QED
        BY <3>2, <4>1
    <3> QED
      BY <3>2, <3>3, <3>4
  <2> HIDE DEF t
  <2>5. /\ Len(pushed) = StackCount /\ pushed \in Seq(Values)
        /\ \A j \in 1 .. StackCount : pushed[j] = args[InCount + j]
    <3>1. Len(pushed) = StackCount /\ pushed \in Seq(Values)
      BY <2>1, <2>2 DEF StackPushed, Types
    <3>2. ASSUME NEW j \in 1 .. StackCount PROVE pushed[j] = args[InCount + j]
      <4>1. 0 + j = j /\ pushed[0 + j] = args[InCount + j]
        BY <2>1, <2>2 DEF StackPushed
      <4> QED
        BY <4>1
    <3> QED
      BY <3>1, <3>2
  <2>6. pushed = t
    BY <2>2, <2>4, <2>5, SeqEqual
  <2> QED
    BY <2>3, <2>6 DEF ArgumentsArrive, t
<1> QED
  BY <1>1, CallInvariance, PTL

\* The body finds every parameter at home.
THEOREM CalleeReceives == FrameSpec => []ParametersArrive
<1>1. CallInvariant => ParametersArrive
  <2> SUFFICES ASSUME CallInvariant, pc = "body", NEW i \in DOMAIN home
               PROVE  /\ home[i] \in Homes => regs[home[i]] = args[i]
                      /\ home[i] = InSlot =>
                           sp <= Slot(i) /\ Slot(i) < fp /\ mem[Slot(i)] = args[i]
    BY DEF ParametersArrive
  <2>1. /\ Types /\ FrameTypes /\ FrameSet /\ sp = BodyStack
        /\ InHomes(DOMAIN home) /\ InSlots(DOMAIN home)
    BY DEF CallInvariant, CalleePlaces, Stacked, Held
  <2>2. home[i] = InSlot => UsesFrame /\ BodyStack <= Slot(i) /\ Slot(i) < FramePointer
    BY <2>1, SlotFacts DEF FrameSet
  <2> QED
    BY <2>1, <2>2 DEF FrameSet, InHomes, InSlots
<1> QED
  BY <1>1, CallInvariance, PTL

\* The caller goes on as it was, with the result.
THEOREM CallRestores == FrameSpec => []Restored
<1>1. CallInvariant => Restored
  BY DEF CallInvariant
<1> QED
  BY <1>1, CallInvariance, PTL

\* The move lists that the caller and the prologue build keep the promise of
\* the parallel move, and never wait for flags twice.
THEOREM ListsMoveInParallel == FrameSpec => [](MovesParallel /\ FlagsFreeAtBreak)
<1>1. CallInvariant => MovesParallel /\ FlagsFreeAtBreak
  <2>1. TypeOK /\ ValuesReachable => MovesParallel
    BY DEF TypeOK, ValuesReachable, MovesParallel
  <2> QED
    BY <2>1, FlagsFree DEF CallInvariant, MoveInvariant
<1> QED
  BY <1>1, CallInvariance, PTL

-----------------------------------------------------------------------------
(* A call ends.  Each part of the sequence comes once, and each step inside  *)
(* a part brings its end nearer.                                             *)

\* The parts in their order; the three routes of the arguments are one.
Part ==
    CASE pc = "target" -> 0
      [] pc = "stack" -> 1
      [] pc \in {"direct", "moves", "push"} -> 2
      [] pc = "pop" -> 3
      [] pc = "call" -> 4
      [] pc = "link" -> 5
      [] pc = "saved" -> 6
      [] pc = "stage" -> 7
      [] pc = "store" -> 8
      [] pc = "settle" -> 9
      [] pc = "load" -> 10
      [] pc = "body" -> 11
      [] pc = "leave" -> 12
      [] pc = "restore" -> 13
      [] pc = "done" -> 14
      [] pc = "returned" -> 15

\* What is left of the part under way.
Left ==
    CASE pc \in {"stack", "pop", "restore"} -> k
      [] pc \in {"direct", "push"} -> InCount + 1 - k
      [] pc \in {"moves", "settle"} -> LeftToDo
      [] pc = "saved" -> SavedCount + 1 - k
      [] pc = "store" -> ArgCount - k
      [] pc = "load" -> Params + 1 - k
      [] OTHER -> 0

\* The step goes to a later part, or one step nearer to the end of this one.
Descends == Part' > Part \/ (pc' = pc /\ Left' \in Nat /\ Left' < Left)

\* The steps that open another part.
LEMMA NextPart ==
  ASSUME \/ pc = "target" /\ pc' = "stack"
         \/ pc = "stack" /\ pc' \in {"direct", "moves", "push"}
         \/ pc = "push" /\ pc' = "pop"
         \/ pc \in {"direct", "moves", "pop"} /\ pc' = "call"
         \/ pc = "call" /\ pc' = "link"
         \/ pc = "link" /\ pc' = "saved"
         \/ pc = "saved" /\ pc' = "stage"
         \/ pc = "stage" /\ pc' = "store"
         \/ pc = "store" /\ pc' = "settle"
         \/ pc = "settle" /\ pc' = "load"
         \/ pc = "load" /\ pc' = "body"
         \/ pc = "body" /\ pc' = "leave"
         \/ pc = "leave" /\ pc' = "restore"
         \/ pc = "restore" /\ pc' = "done"
         \/ pc = "done" /\ pc' = "returned"
  PROVE  Descends
<1>1. Part' > Part
  BY DEF Part
<1> QED
  BY <1>1 DEF Descends

\* A step that takes one word, argument or register of those that are left.
LEMMA OneFewer ==
  ASSUME pc' = pc, Left' = Left - 1, Left \in Nat, Left > 0
  PROVE  Descends
BY DEF Descends

\* The caller's loops (backend.py:386-433, 943-947).
LEMMA CallerDescends ==
  ASSUME CallInvariant, CallNext, args' = args
  PROVE  Descends
<1> USE DEF CallInvariant
<1>1. /\ InCount \in Nat /\ InCount' = InCount /\ InRegisters = 1 .. InCount /\ k \in Nat
      /\ ArgCount \in Nat
  BY ArgumentFacts, RegisterFacts DEF InCount, Types
<1>2. CASE GetTarget
  BY <1>2, NextPart DEF GetTarget
<1>3. CASE PushStackArgument
  <2>1. pc = "stack" /\ pc' = pc /\ k > 0 /\ k' = k - 1
    BY <1>1, <1>3 DEF PushStackArgument
  <2>2. Left = k /\ Left' = k'
    BY <2>1 DEF Left
  <2> QED
    BY <1>1, <2>1, <2>2, OneFewer
<1>4. CASE ChooseDirect \/ ChooseMoves \/ ChooseStaging
  BY <1>4, NextPart DEF ChooseDirect, ChooseMoves, ChooseStaging, StackArgumentsDone
<1>5. CASE Place \/ PushArgument
  <2>1. pc \in {"direct", "push"} /\ pc' = pc /\ k \in 1 .. InCount /\ k' = k + 1
    BY <1>1, <1>5 DEF Place, PushArgument
  <2>2. Left = InCount + 1 - k /\ Left' = InCount' + 1 - k'
    BY <2>1 DEF Left
  <2> QED
    BY <1>1, <2>1, <2>2, OneFewer
<1>6. CASE MoveOne
  <2>1. pc = "moves" /\ pc' = pc /\ Next
    BY <1>6 DEF MoveOne
  <2>2. Left = LeftToDo /\ Left' = LeftToDo'
    BY <2>1 DEF Left
  <2> QED
    BY <2>1, <2>2, ListDescends DEF Descends
<1>7. CASE AllPushed
  BY <1>7, NextPart DEF AllPushed
<1>8. CASE PopArgument
  <2>1. pc = "pop" /\ pc' = pc /\ k > 0 /\ k' = k - 1
    BY <1>8 DEF PopArgument
  <2>2. Left = k /\ Left' = k'
    BY <2>1 DEF Left
  <2> QED
    BY <1>1, <2>1, <2>2, OneFewer
<1>9. CASE Jump
  BY <1>9, NextPart DEF Jump
<1> QED
  BY <1>2, <1>3, <1>4, <1>5, <1>6, <1>7, <1>8, <1>9 DEF CallNext

\* The loops of the prologue and the epilogue (backend.py:1003-1076).
LEMMA CalleeDescends ==
  ASSUME CallInvariant, pc \in CalleePlaces, CalleeKeeps,
         SaveRegister \/ StoreParameter \/ MoveParameter \/ LoadStackParameter \/ RestoreRegister
  PROVE  Descends
<1>1. MoveInvariant /\ Types /\ FrameTypes /\ k \in Nat /\ ArgCount \in Nat
  BY RegisterFacts DEF CallInvariant, Types
<1>2. /\ SavedCount \in Nat /\ Len(SavedInOrder) = SavedCount /\ SavedCount' = SavedCount
      /\ Params \in Nat /\ Params' = Params
  BY <1>1, SavedFacts, ShapeFacts, ArgumentFacts, SameShape
<1>3. CASE SaveRegister
  <2>1. pc = "saved" /\ pc' = pc /\ k <= SavedCount /\ k' = k + 1
    BY <1>2, <1>3 DEF SaveRegister
  <2>2. Left = SavedCount + 1 - k /\ Left' = SavedCount' + 1 - k'
    BY <2>1 DEF Left
  <2> QED
    BY <1>1, <1>2, <2>1, <2>2, OneFewer
<1>4. CASE StoreParameter
  <2>1. pc = "store" /\ pc' = pc /\ k < ArgCount /\ k' = k + 1
    BY <1>4 DEF StoreParameter, Early
  <2>2. Left = ArgCount - k /\ Left' = ArgCount - k'
    BY <2>1 DEF Left
  <2> QED
    BY <1>1, <2>1, <2>2, OneFewer
<1>5. CASE MoveParameter
  <2>1. pc = "settle" /\ pc' = pc /\ Next
    BY <1>5 DEF MoveParameter
  <2>2. Left = LeftToDo /\ Left' = LeftToDo'
    BY <2>1 DEF Left
  <2> QED
    BY <1>1, <2>1, <2>2, ListDescends DEF Descends
<1>6. CASE LoadStackParameter
  <2>1. pc = "load" /\ pc' = pc /\ k <= Params /\ k' = k + 1
    BY <1>6 DEF LoadStackParameter
  <2>2. Left = Params + 1 - k /\ Left' = Params' + 1 - k'
    BY <2>1 DEF Left
  <2> QED
    BY <1>1, <1>2, <2>1, <2>2, OneFewer
<1>7. CASE RestoreRegister
  <2>1. pc = "restore" /\ pc' = pc /\ k > 0 /\ k' = k - 1
    BY <1>7 DEF RestoreRegister
  <2>2. Left = k /\ Left' = k'
    BY <2>1 DEF Left
  <2> QED
    BY <1>1, <2>1, <2>2, OneFewer
<1> QED
  BY <1>3, <1>4, <1>5, <1>6, <1>7

\* No call goes on for ever: whatever the caller permutes, pushes or stages
\* and the callee saves, moves and loads, each instruction opens a later part
\* of the sequence or leaves less of this one to do.
THEOREM CallsDescend == FrameSpec => [][Descends]_frameVars
<1>1. ASSUME CallInvariant, FrameNext
      PROVE  Descends
  <2>1. CASE CallNext /\ UNCHANGED <<shape, machine>>
    <3>1. args' = args
      BY <2>1 DEF CallNext, GetTarget, PushStackArgument, ChooseDirect, ChooseMoves,
         ChooseStaging, Place, MoveOne, PushArgument, AllPushed, PopArgument, Jump, callVars
    <3> QED
      BY <1>1, <2>1, <3>1, CallerDescends
  <2>2. CASE Enter \/ SaveLink \/ EnterFrame \/ Stage
    BY <2>2, NextPart DEF Enter, SaveLink, EnterFrame, Stage
  <2>3. CASE MoveParameters \/ Unstage \/ EnterBody \/ Body
    BY <2>3, NextPart DEF MoveParameters, Unstage, EnterBody, Body
  <2>4. CASE Leave \/ Finish \/ Discard
    BY <2>4, NextPart DEF Leave, Finish, Discard
  <2>5. CASE \/ SaveRegister \/ StoreParameter \/ MoveParameter
             \/ LoadStackParameter \/ RestoreRegister
    <3>1. pc \in CalleePlaces /\ CalleeKeeps
      BY <2>5 DEF SaveRegister, StoreParameter, MoveParameter, LoadStackParameter,
         RestoreRegister, CalleePlaces, CalleeKeeps
    <3> QED
      BY <1>1, <2>5, <3>1, CalleeDescends
  <2> QED
    BY <1>1, <2>1, <2>2, <2>3, <2>4, <2>5 DEF FrameNext
<1> QED
  BY <1>1, CallInvariance, PTL DEF FrameSpec

-----------------------------------------------------------------------------
(* What becomes of flags.  The target of an indirect call waits there while  *)
(* the arguments move, and breaking a cycle needs the same register, so      *)
(* TargetArrives does not hold (backend.py:940-942, 418-422).  What follows  *)
(* says of which calls it does: all but those whose moves go round in a ring.*)

\* Moves each of which reads what another one of them writes.
Rings(list) ==
    {ring \in SUBSET DOMAIN list :
        ring # {} /\ \A t \in ring : \E u \in ring : list[u] = t}

\* Flags holds v, no move waits there and no ring has been opened; or there
\* is a ring, and flags has taken what one of the moves was to bring.
FlagsHold(v) ==
    \/ /\ regs[Flags] = v
       /\ \A t \in DOMAIN pending : pending[t] # Flags
       /\ \A ring \in Rings(goal) : ring \subseteq DOMAIN pending
    \/ Rings(goal) # {} /\ \E t \in DOMAIN goal : regs[Flags] = initial[goal[t]]

\* A move leaves flags alone, and does not open a ring.
LEMMA MoveKeepsFlags ==
  ASSUME MoveInvariant, NEW v, FlagsHold(v), NEW t \in Registers, Move(t)
  PROVE  FlagsHold(v)'
<1>1. /\ goal' = goal /\ initial' = initial /\ t \in DOMAIN pending /\ ~Blocked(t)
      /\ regs' = [regs EXCEPT ![t] = regs[pending[t]]] /\ pending' = Without(t)
  BY DEF Move
<1>2. regs'[Flags] = regs[Flags]
  <2>1. t # Flags /\ regs \in [AllRegisters -> Values] /\ Flags \in AllRegisters
    BY MoveAssumption DEF MoveInvariant, TypeOK, AllRegisters
  <2> QED
    BY <1>1, <2>1
<1>3. /\ DOMAIN pending' = DOMAIN pending \ {t}
      /\ \A u \in DOMAIN pending' : pending'[u] = pending[u]
  BY <1>1 DEF Without
<1>4. CASE /\ regs[Flags] = v
           /\ \A u \in DOMAIN pending : pending[u] # Flags
           /\ \A ring \in Rings(goal) : ring \subseteq DOMAIN pending
  <2>1. ASSUME NEW ring \in Rings(goal) PROVE t \notin ring
    <3> SUFFICES ASSUME t \in ring PROVE FALSE
      OBVIOUS
    <3>1. PICK u \in ring : goal[u] = t
      BY DEF Rings
    <3>2. u \in DOMAIN pending /\ u \in DOMAIN goal
      BY <1>4, <2>1 DEF Rings
    <3>3. pending[u] = t
      BY <1>4, <3>1, <3>2 DEF MoveInvariant, OneInFlags
    <3>4. u # t
      BY <3>1, <3>2, ListShape DEF MoveInvariant, TypeOK
    <3> QED
      BY <1>1, <3>2, <3>3, <3>4 DEF Blocked
  <2>2. \A ring \in Rings(goal') : ring \subseteq DOMAIN pending'
    BY <1>1, <1>3, <1>4, <2>1
  <2>3. \A u \in DOMAIN pending' : pending'[u] # Flags
    BY <1>3, <1>4
  <2> QED
    BY <1>2, <1>4, <2>2, <2>3 DEF FlagsHold, Rings
<1>5. CASE Rings(goal) # {} /\ \E u \in DOMAIN goal : regs[Flags] = initial[goal[u]]
  <2>1. Rings(goal') = Rings(goal)
    BY <1>1 DEF Rings
  <2> QED
    BY <1>1, <1>2, <1>5, <2>1 DEF FlagsHold, Rings
<1> QED
  BY <1>4, <1>5 DEF FlagsHold

\* Flags is only used when the moves that are left are a ring, and takes what
\* one of them was to bring.
LEMMA BreakTakesFlags ==
  ASSUME MoveInvariant, NEW v, NEW t \in Registers, Break(t)
  PROVE  FlagsHold(v)'
<1>1. /\ goal' = goal /\ initial' = initial /\ t \in DOMAIN pending
      /\ \A u \in DOMAIN pending : Blocked(u)
      /\ regs' = [regs EXCEPT ![Flags] = regs[pending[t]]]
  BY DEF Break
<1>2. \A u \in DOMAIN pending : pending[u] # Flags
  BY <1>1, FlagsFree DEF MoveInvariant, FlagsFreeAtBreak
<1>3. \A u \in DOMAIN pending : pending[u] = goal[u] /\ u \in DOMAIN goal
  BY <1>2 DEF MoveInvariant, OneInFlags, TypeOK
<1>4. DOMAIN pending \in Rings(goal)
  <2>1. ASSUME NEW u \in DOMAIN pending
        PROVE  \E w \in DOMAIN pending : goal[w] = u
    <3>1. PICK w \in DOMAIN pending \ {u} : pending[w] = u
      BY <1>1 DEF Blocked
    <3> QED
      BY <1>3, <3>1
  <2>2. DOMAIN pending # {} /\ DOMAIN pending \in SUBSET DOMAIN goal
    BY <1>1, <1>3
  <2> DEFINE S == DOMAIN pending
  <2>3. /\ S \in SUBSET DOMAIN goal /\ S # {}
        /\ \A u \in S : \E w \in S : goal[w] = u
    BY <2>1, <2>2
  <2> HIDE DEF S
  <2>4. S \in Rings(goal)
    BY <2>3 DEF Rings
  <2> QED
    BY <2>4 DEF S
<1>5. regs'[Flags] = initial[goal[t]]
  <2>1. regs \in [AllRegisters -> Values] /\ Flags \in AllRegisters
    BY DEF MoveInvariant, TypeOK, AllRegisters
  <2>2. regs[pending[t]] = initial[goal[t]]
    BY <1>1 DEF MoveInvariant, ValuesReachable
  <2> QED
    BY <1>1, <2>1, <2>2
<1>6. Rings(goal') # {} /\ t \in DOMAIN goal'
  <2>1. Rings(goal') = Rings(goal)
    BY <1>1 DEF Rings
  <2> QED
    BY <1>1, <1>3, <1>4, <2>1
<1> QED
  BY <1>1, <1>5, <1>6 DEF FlagsHold, Rings

LEMMA OneMoveFlags ==
  ASSUME MoveInvariant, NEW v, FlagsHold(v), Next
  PROVE  FlagsHold(v)'
<1>1. PICK t \in Registers : Move(t) \/ Break(t)
  BY DEF Next
<1> QED
  BY <1>1, MoveKeepsFlags, BreakTakesFlags

\* A list that is done has used flags exactly if there was a ring in it.
FlagsAtEnd(v) ==
    IF Rings(goal) = {} THEN regs[Flags] = v
    ELSE \E t \in DOMAIN goal : regs[Flags] = initial[goal[t]]

LEMMA DoneFlags ==
  ASSUME NEW v, FlagsHold(v), DOMAIN pending = {}
  PROVE  FlagsAtEnd(v)
<1>1. CASE /\ regs[Flags] = v
           /\ \A ring \in Rings(goal) : ring \subseteq DOMAIN pending
  <2>1. \A ring \in Rings(goal) : ring # {}
    BY DEF Rings
  <2>2. Rings(goal) = {}
    BY <1>1, <2>1
  <2> QED
    BY <1>1, <2>2 DEF FlagsAtEnd
<1>2. CASE Rings(goal) # {} /\ \E t \in DOMAIN goal : regs[Flags] = initial[goal[t]]
  BY <1>2 DEF FlagsAtEnd
<1> QED
  BY <1>1, <1>2 DEF FlagsHold

\* The spare register survives exactly the lists without a ring: a list that
\* has one ends with one of its own values there.
FlagsTakenByRings == DOMAIN pending = {} => FlagsAtEnd(initial[Flags])

THEOREM RingsTakeFlags == Spec => []FlagsTakenByRings
<1> DEFINE Kept == FlagsHold(initial[Flags])
<1>1. Init => Kept
  <2> SUFFICES ASSUME Init PROVE Kept
    OBVIOUS
  <2>1. regs = initial /\ pending = goal /\ \A t \in DOMAIN goal : goal[t] # Flags
    BY ListShape, MoveAssumption DEF Init
  <2> QED
    BY <2>1 DEF FlagsHold, Rings
<1>2. MoveInvariant /\ Kept /\ [Next]_moveVars => Kept'
  <2> SUFFICES ASSUME MoveInvariant, Kept, [Next]_moveVars PROVE Kept'
    OBVIOUS
  <2>1. PICK v : v = initial[Flags]
    OBVIOUS
  <2>2. initial' = initial /\ FlagsHold(v)
    BY <2>1 DEF Next, Move, Break, moveVars
  <2>3. CASE Next
    <3>1. FlagsHold(v)'
      BY <2>2, <2>3, OneMoveFlags
    <3> QED
      BY <2>1, <2>2, <3>1 DEF FlagsHold
  <2>4. CASE UNCHANGED moveVars
    BY <2>4 DEF moveVars, FlagsHold, Rings
  <2> QED
    BY <2>3, <2>4
<1>3. MoveInvariant /\ Kept => FlagsTakenByRings
  <2> SUFFICES ASSUME Kept, DOMAIN pending = {} PROVE FlagsAtEnd(initial[Flags])
    BY DEF FlagsTakenByRings
  <2>1. PICK v : v = initial[Flags]
    OBVIOUS
  <2>2. FlagsAtEnd(v)
    BY <2>1, DoneFlags
  <2> QED
    BY <2>1, <2>2
<1> QED
  BY <1>1, <1>2, <1>3, MoveInvariance, PTL DEF Spec, MoveInvariant

\* The calls that lose their target: their arguments are all in registers
\* that the call moves, and the moves go round.
MovesInARing == FromCallerHome /\ OnlyHomes /\ Rings(MoveList) # {}

Passed == {args[i] : i \in DOMAIN MoveList}

\* What flags holds at each step of an indirect call.
FlagsSound ==
    target # Direct =>
        /\ pc \in {"stack", "direct", "push", "pop"} => regs[Flags] = target
        /\ pc \in {"direct", "push", "pop"} => ~(FromCallerHome /\ OnlyHomes)
        /\ pc = "moves" => FromCallerHome /\ FlagsHold(target)
        /\ pc = "call" =>
             IF MovesInARing THEN regs[Flags] \in Passed ELSE regs[Flags] = target

\* Getting an operand into another register leaves flags alone.
LEMMA GotLeavesFlags ==
  ASSUME regs \in [AllRegisters -> Values], NEW v \in Operands, NEW r \in ArgRegisters,
         Settle(Got(v, r))
  PROVE  regs'[Flags] = regs[Flags]
<1>1. /\ r \in AllRegisters /\ Scratch \in AllRegisters /\ Flags \in AllRegisters
      /\ r # Flags /\ Scratch # Flags
  BY RegisterFacts DEF ArgRegisters
<1>2. \/ Got(v, r) = [regs EXCEPT ![r] = regs[v]]
      \/ Got(v, r) = [regs EXCEPT ![r] = v]
      \/ Got(v, r) = [regs EXCEPT ![Scratch] = Address, ![r] = v]
  <2>1. CASE v \in Homes
    BY <2>1, RegisterFacts DEF Got
  <2>2. CASE v \in Constants
    BY <2>2, RegisterFacts DEF Got
  <2>3. CASE v \in Slots
    BY <2>3, RegisterFacts DEF Got
  <2> QED
    BY <2>1, <2>2, <2>3 DEF Operands
<1>3. regs' = Got(v, r)
  BY DEF Settle
<1> QED
  BY <1>1, <1>2, <1>3

\* A step that leaves the call and flags as they are keeps what is known,
\* except where it opens the moves or the jump.
LEMMA FlagsStay ==
  ASSUME FlagsSound, args' = args, target' = target, regs'[Flags] = regs[Flags],
         \/ pc \in {"stack", "direct", "push", "pop"} /\ pc' = pc
         \/ pc = "stack" /\ pc' \in {"direct", "push"} /\ ~(FromCallerHome /\ OnlyHomes)
         \/ pc = "push" /\ pc' = "pop"
         \/ pc \in {"direct", "pop"} /\ pc' = "call"
  PROVE  FlagsSound'
<1>1. /\ FromCallerHome' = FromCallerHome /\ OnlyHomes' = OnlyHomes
      /\ MovesInARing' = MovesInARing
  BY DEF FromCallerHome, OnlyHomes, InRegisters, MovesInARing, Rings, MoveList
<1>2. CASE target = Direct
  BY <1>2 DEF FlagsSound
<1>3. CASE target # Direct
  <2>1. regs'[Flags] = target
    BY <1>3 DEF FlagsSound
  <2>2. pc' \in {"direct", "push", "pop", "call"} => ~(FromCallerHome /\ OnlyHomes)
    BY <1>3 DEF FlagsSound
  <2>3. pc' # "moves"
    OBVIOUS
  <2> QED
    BY <1>1, <2>1, <2>2, <2>3 DEF FlagsSound, MovesInARing
<1> QED
  BY <1>2, <1>3

\* The moves of a call are between homes, and none waits in flags.
LEMMA MoveListFacts ==
  ASSUME Types, OnlyHomes
  PROVE  \A t \in DOMAIN MoveList : MoveList[t] = args[t] /\ args[t] \in Homes
                                    /\ MoveList[t] # Flags
BY RegisterFacts DEF MoveList, OnlyHomes

LEMMA CallerFlags ==
  ASSUME CallInvariant, FlagsSound, CallNext
  PROVE  FlagsSound'
<1>1. /\ MoveInvariant /\ Types /\ Placed /\ regs \in [AllRegisters -> Values]
      /\ ArgCount \in Nat /\ k \in Nat
  BY RegisterFacts DEF CallInvariant, MoveInvariant, TypeOK, Types
<1>2. CASE GetTarget
  <2>1. CASE target = Direct
    BY <1>2, <2>1 DEF GetTarget, callVars, FlagsSound
  <2>2. CASE target # Direct
    <3>1. /\ target \in Operands /\ Settle(Got(target, Flags)) /\ target' = target
          /\ pc = "target" /\ pc' = "stack"
      BY <1>1, <1>2, <2>2, CallAssumption DEF GetTarget, Types, callVars
    <3>2. Got(target, Flags)[Flags] = target
      BY <1>1, <3>1, GotFacts, RegisterFacts DEF Placed, HomesKept
    <3>3. regs'[Flags] = target'
      BY <3>1, <3>2 DEF Settle
    <3> QED
      BY <3>1, <3>3 DEF FlagsSound
  <2> QED
    BY <2>1, <2>2
<1>3. CASE PushStackArgument
  <2>1. /\ pc = "stack" /\ pc' = pc /\ k > ArgCount /\ Settle(Got(args[k], 1))
        /\ args' = args /\ target' = target
    BY <1>3 DEF PushStackArgument, callVars
  <2>2. k \in 1 .. Len(args)
    BY <1>1, <2>1, ArgumentFacts DEF Placed
  <2>3. args[k] \in Operands /\ 1 \in ArgRegisters
    BY <1>1, <2>2, ArgumentFacts, RegisterFacts DEF ArgRegisters
  <2> QED
    BY <1>1, <2>1, <2>3, GotLeavesFlags, FlagsStay
<1>4. CASE ChooseDirect \/ ChooseStaging
  <2>1. /\ pc = "stack" /\ pc' \in {"direct", "push"} /\ ~(FromCallerHome /\ OnlyHomes)
        /\ args' = args /\ target' = target /\ regs' = regs
    BY <1>4 DEF ChooseDirect, ChooseStaging, StackArgumentsDone, callVars, moveVars
  <2> QED
    BY <2>1, FlagsStay
<1>5. CASE ChooseMoves
  <2>1. /\ pc = "stack" /\ pc' = "moves" /\ FromCallerHome /\ OnlyHomes
        /\ goal' = MoveList /\ pending' = MoveList /\ regs' = regs
        /\ args' = args /\ target' = target
    BY <1>5 DEF ChooseMoves, StackArgumentsDone, callVars
  <2>2. \A t \in DOMAIN MoveList : MoveList[t] # Flags
    BY <1>1, <2>1, MoveListFacts
  <2>3. \A ring \in Rings(goal') : ring \subseteq DOMAIN pending'
    BY <2>1 DEF Rings
  <2>4. target # Direct => FlagsHold(target)'
    BY <2>1, <2>2, <2>3 DEF FlagsHold, FlagsSound, Rings
  <2>5. FromCallerHome'
    BY <2>1 DEF FromCallerHome, InRegisters
  <2> QED
    BY <2>1, <2>4, <2>5 DEF FlagsSound
<1>6. CASE Place
  <2>1. /\ pc = "direct" /\ pc' = pc /\ k \in InRegisters /\ Settle(Got(args[k], k))
        /\ args' = args /\ target' = target
    BY <1>6 DEF Place, callVars
  <2>2. args[k] \in Operands /\ k \in ArgRegisters
    BY <1>1, <2>1, ArgumentFacts
  <2> QED
    BY <1>1, <2>1, <2>2, GotLeavesFlags, FlagsStay
<1>7. CASE MoveOne
  <2>1. /\ pc = "moves" /\ pc' = pc /\ Next /\ args' = args /\ target' = target
    BY <1>7 DEF MoveOne, callVars
  <2>2. FromCallerHome' = FromCallerHome
    BY <2>1 DEF FromCallerHome, InRegisters
  <2>3. target # Direct => FlagsHold(target)'
    <3>1. PICK v : v = target
      OBVIOUS
    <3>2. target # Direct => FlagsHold(v)
      BY <2>1, <3>1 DEF FlagsSound
    <3>3. target # Direct => FlagsHold(v)'
      BY <1>1, <2>1, <3>2, OneMoveFlags
    <3> QED
      BY <2>1, <3>1, <3>3 DEF FlagsHold
  <2> QED
    BY <2>1, <2>2, <2>3 DEF FlagsSound
<1>8. CASE PushArgument
  <2>1. /\ pc = "push" /\ pc' = pc /\ k \in InRegisters /\ Settle(Got(args[k], 1))
        /\ args' = args /\ target' = target
    BY <1>8 DEF PushArgument, callVars
  <2>2. args[k] \in Operands /\ 1 \in ArgRegisters
    BY <1>1, <2>1, ArgumentFacts, RegisterFacts DEF ArgRegisters
  <2> QED
    BY <1>1, <2>1, <2>2, GotLeavesFlags, FlagsStay
<1>9. CASE AllPushed
  <2>1. pc = "push" /\ pc' = "pop" /\ regs' = regs /\ args' = args /\ target' = target
    BY <1>9 DEF AllPushed, callVars, moveVars
  <2> QED
    BY <2>1, FlagsStay
<1>10. CASE PopArgument
  <2>1. /\ pc = "pop" /\ pc' = pc /\ k > 0 /\ regs' = [regs EXCEPT ![k] = Head(pushed)]
        /\ args' = args /\ target' = target
    BY <1>10 DEF PopArgument, Settle, callVars
  <2>2. k \in ArgRegisters
    BY <1>1, <2>1, ArgumentFacts DEF Placed, ArgRegisters
  <2>3. regs'[Flags] = regs[Flags]
    BY <1>1, <2>1, <2>2, RegisterFacts
  <2> QED
    BY <2>1, <2>3, FlagsStay
<1>11. CASE Jump
  <2>1. /\ pc' = "call" /\ regs' = regs /\ goal' = goal /\ args' = args /\ target' = target
        /\ pc \in {"direct", "pop"} \/ (pc = "moves" /\ pending = NoMoves)
    BY <1>11 DEF Jump, callVars, moveVars
  <2>2. CASE pc \in {"direct", "pop"}
    BY <2>1, <2>2, FlagsStay
  <2>3. CASE pc = "moves" /\ pending = NoMoves /\ target # Direct
    <3>1. FlagsHold(target) /\ FromCallerHome /\ OnlyHomes /\ goal = MoveList
      BY <1>1, <2>3 DEF FlagsSound, Placed
    <3>2. FlagsAtEnd(target)
      <4>1. PICK v : v = target
        OBVIOUS
      <4>2. DOMAIN pending = {}
        BY <2>3 DEF NoMoves
      <4>3. FlagsAtEnd(v)
        BY <3>1, <4>1, <4>2, DoneFlags
      <4> QED
        BY <4>1, <4>3
    <3>3. MovesInARing <=> Rings(goal) # {}
      BY <3>1 DEF MovesInARing
    <3>4. MovesInARing => regs[Flags] \in Passed
      <4> SUFFICES ASSUME MovesInARing PROVE regs[Flags] \in Passed
        OBVIOUS
      <4>1. PICK t \in DOMAIN MoveList : regs[Flags] = initial[MoveList[t]]
        BY <3>1, <3>2, <3>3 DEF FlagsAtEnd
      <4>2. MoveList[t] = args[t] /\ args[t] \in Homes
        BY <1>1, <3>1, MoveListFacts
      <4>3. initial[args[t]] = args[t]
        BY <1>1, <2>3, <4>2 DEF Placed
      <4> QED
        BY <4>1, <4>2, <4>3 DEF Passed
    <3>5. ~MovesInARing => regs[Flags] = target
      BY <3>2, <3>3 DEF FlagsAtEnd
    <3>6. MovesInARing' = MovesInARing /\ Passed' = Passed
      BY <2>1 DEF MovesInARing, FromCallerHome, OnlyHomes, InRegisters, Rings, MoveList,
                  Passed
    <3> QED
      BY <2>1, <3>4, <3>5, <3>6 DEF FlagsSound
  <2>4. CASE target = Direct
    BY <2>1, <2>4 DEF FlagsSound
  <2> QED
    BY <2>1, <2>2, <2>3, <2>4
<1> QED
  BY <1>2, <1>3, <1>4, <1>5, <1>6, <1>7, <1>8, <1>9, <1>10, <1>11 DEF CallNext

\* When the call is made, flags holds the target, or one of the arguments:
\* the latter for every indirect call whose arguments go round in a ring of
\* registers, and for no other.
TargetLostInRings ==
    pc = "call" /\ target # Direct =>
        IF MovesInARing THEN regs[Flags] \in Passed ELSE regs[Flags] = target

THEOREM RingsTakeTarget == FrameSpec => []TargetLostInRings
<1>1. FrameInit => FlagsSound
  BY DEF FrameInit, CallInit, FlagsSound
<1>2. CallInvariant /\ FlagsSound /\ [FrameNext]_frameVars => FlagsSound'
  <2> SUFFICES ASSUME CallInvariant, FlagsSound, [FrameNext]_frameVars PROVE FlagsSound'
    OBVIOUS
  <2>1. CASE CallNext
    BY <2>1, CallerFlags
  <2>2. CASE UNCHANGED frameVars
    <3>1. /\ pc' = pc /\ args' = args /\ target' = target /\ regs' = regs
          /\ goal' = goal /\ pending' = pending /\ initial' = initial
      BY <2>2 DEF frameVars, vars, callVars, moveVars
    <3>2. /\ FromCallerHome' = FromCallerHome /\ OnlyHomes' = OnlyHomes
          /\ MovesInARing' = MovesInARing /\ Passed' = Passed
      BY <3>1 DEF MovesInARing, FromCallerHome, OnlyHomes, InRegisters, Rings, MoveList, Passed
    <3>3. FlagsHold(target)' = FlagsHold(target)
      BY <3>1 DEF FlagsHold, Rings
    <3> QED
      BY <3>1, <3>2, <3>3 DEF FlagsSound
  <2>3. CASE ~CallNext /\ FrameNext
    <3>1. pc' \in CalleePlaces \union {"returned"}
      BY <2>3 DEF FrameNext, Enter, SaveLink, SaveRegister, EnterFrame, Stage, StoreParameter,
                  MoveParameters, MoveParameter, Unstage, LoadStackParameter, EnterBody, Body,
                  Leave, RestoreRegister, Finish, Discard, CalleePlaces
    <3> QED
      BY <3>1 DEF FlagsSound, CalleePlaces
  <2> QED
    BY <2>1, <2>2, <2>3
<1>3. FlagsSound => TargetLostInRings
  BY DEF FlagsSound, TargetLostInRings
<1> QED
  BY <1>1, <1>2, <1>3, CallInvariance, PTL DEF FrameSpec
=============================================================================
