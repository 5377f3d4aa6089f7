------------------------------ MODULE DynStack ------------------------------
(***************************************************************************)
(* Storage of arrays whose size is known only when they are declared.      *)
(* Lowerer.statement (symphony/middle/ir.py) marks the stack where a block *)
(* or a for statement declares such arrays and restores it on every way    *)
(* out; Backend.function (symphony/targets/symphony/backend.py) turns      *)
(* stack_alloc into a bounds check and a move of the stack pointer.  The   *)
(* module runs one function: it nests blocks and loops, leaves them in any *)
(* way C allows, and the heap grows meanwhile.                             *)
(*                                                                         *)
(* Addresses and sizes count words.  The lowerer's list of open scopes is  *)
(* the nesting at the point of the program that runs, so `scopes' is both. *)
(***************************************************************************)
EXTENDS Integers, SequencesExt, FiniteSetsExt

CONSTANTS
    RamWords,       \* target.ram_size
    HeapStart,      \* the aligned address of __dyn_heap_anchor
    Entry,          \* the stack pointer when the function starts
    Sizes,          \* sizes the program asks for
    MaxScopes, MaxLoops,
    DirectContinue  \* programs may continue from the very block of arrays
                    \* that is the body of a plain loop

ASSUME StackAssumption ==
    /\ RamWords \in Nat /\ Entry \in 0 .. RamWords - 1
    /\ HeapStart \in 1 .. Entry
    /\ Sizes \subseteq Nat
    /\ MaxScopes \in Nat /\ MaxLoops \in Nat
    /\ DirectContinue \in BOOLEAN

VARIABLES
    sp,          \* the stack pointer
    heapEnd,     \* __dyn_heap_end, 0 while the heap is empty
    scopes,      \* open scopes, the outermost first
    loops,       \* open loops, the outermost first
    pc,
    asked        \* auxiliary: the size last asked for

vars == <<sp, heapEnd, scopes, loops, pc, asked>>

None == -1       \* a scope without arrays has no marker

\* An open scope: the marker it took, and the arrays declared in it.
Scope(marker) == [marker |-> marker, arrays |-> {}]

\* An open loop: how many scopes are outside it, and whether it is a for
\* statement that declares an array.
Loop(own) == [outside |-> Len(scopes), own |-> own]

Init ==
    /\ sp = Entry
    /\ heapEnd = 0
    /\ scopes = <<>>
    /\ loops = <<>>
    /\ pc = "running"
    /\ asked = 0

Marked(i) == scopes[i].marker # None

\* The scopes a loop has around its body.
Around(loop) == loop.outside + (IF loop.own THEN 1 ELSE 0)

\* stack_restore of the markers of scopes from .. Len(scopes), the innermost
\* first: the outermost one counts.
Restored(from) ==
    LET marked == {i \in from .. Len(scopes) : Marked(i)}
    IN  IF marked = {} THEN sp ELSE scopes[Min(marked)].marker

-----------------------------------------------------------------------------
\* The first address above static data and heap.
HeapTop == IF heapEnd = 0 THEN HeapStart ELSE heapEnd

Candidate(size) == (sp - size) % RamWords

\* Slip: the address is compared with the wrong side.
CollidesOnTouch(size) == size = 0 \/ size >= RamWords \/ Candidate(size) <= HeapTop

\* Slip: only static data is looked at.
CollidesWithStatic(size) ==
    size = 0 \/ size >= RamWords \/ Candidate(size) < HeapStart

Collides(size) == size = 0 \/ size >= RamWords \/ Candidate(size) < HeapTop

\* A declaration stands in a block, or once at the head of a for statement.
AtDeclaration ==
    /\ scopes # <<>> /\ Marked(Len(scopes))
    /\ loops # <<>> =>
         \/ Len(scopes) > Around(Last(loops))
         \/ Last(loops).own /\ Last(scopes).arrays = {}

Allocate(size) ==
    /\ pc = "running"
    /\ AtDeclaration
    /\ asked' = size
    /\ \/ /\ Collides(size)
          /\ pc' = "_stack_overflow"
          /\ UNCHANGED <<sp, scopes>>
       \/ /\ ~Collides(size)
          /\ sp' = Candidate(size)
          /\ scopes' = [scopes EXCEPT ![Len(scopes)].arrays =
                                      @ \union {[base |-> Candidate(size), size |-> size]}]
          /\ pc' = pc
    /\ UNCHANGED <<heapEnd, loops>>

\* malloc extends the heap towards the stack; see Heap.
HeapGrows ==
    /\ pc = "running"
    /\ HeapTop < sp
    /\ heapEnd' = HeapTop + 1
    /\ UNCHANGED <<sp, scopes, loops, pc, asked>>

-----------------------------------------------------------------------------
EnterBlock(dynamic) ==
    /\ pc = "running"
    /\ Len(scopes) < MaxScopes
    /\ scopes' = Append(scopes, Scope(IF dynamic THEN sp ELSE None))
    /\ UNCHANGED <<sp, heapEnd, loops, pc, asked>>

\* A block closes inside the body it belongs to.
LeaveBlock ==
    /\ pc = "running"
    /\ Len(scopes) > (IF loops = <<>> THEN 0 ELSE Around(Last(loops)))
    /\ sp' = Restored(Len(scopes))
    /\ scopes' = Front(scopes)
    /\ UNCHANGED <<heapEnd, loops, pc, asked>>

\* A for statement that declares an array takes a marker of its own.
EnterLoop(own) ==
    /\ pc = "running"
    /\ Len(loops) < MaxLoops /\ Len(scopes) < MaxScopes
    /\ scopes' = IF own THEN Append(scopes, Scope(sp)) ELSE scopes
    /\ loops' = Append(loops, Loop(own))
    /\ UNCHANGED <<sp, heapEnd, pc, asked>>

\* The test fails.
LeaveLoop ==
    /\ pc = "running"
    /\ loops # <<>>
    /\ Len(scopes) = Around(Last(loops))
    /\ sp' = Restored(Last(loops).outside + 1)
    /\ scopes' = SubSeq(scopes, 1, Last(loops).outside)
    /\ loops' = Front(loops)
    /\ UNCHANGED <<heapEnd, pc, asked>>

\* Slip: break leaves the for statement's own scope to itself.
BreakToBody ==
    /\ pc = "running"
    /\ loops # <<>>
    /\ Len(scopes) > Around(Last(loops))
    /\ sp' = Restored(Len(scopes))
    /\ scopes' = SubSeq(scopes, 1, Last(loops).outside)
    /\ loops' = Front(loops)
    /\ UNCHANGED <<heapEnd, pc, asked>>

\* Every scope inside the loop is restored, the for statement's included.
Break ==
    /\ pc = "running"
    /\ loops # <<>>
    /\ Len(scopes) > Around(Last(loops))
    /\ sp' = Restored(Last(loops).outside + 1)
    /\ scopes' = SubSeq(scopes, 1, Last(loops).outside)
    /\ loops' = Front(loops)
    /\ UNCHANGED <<heapEnd, pc, asked>>

\* scopes[scope_start + 1:]: one scope inside the loop is kept.
Continue ==
    /\ pc = "running"
    /\ loops # <<>>
    /\ Len(scopes) > Around(Last(loops))
    /\ DirectContinue \/ Last(loops).own \/ ~Marked(Last(loops).outside + 1)
    /\ sp' = Restored(Last(loops).outside + 2)
    /\ scopes' = SubSeq(scopes, 1, Around(Last(loops)))
    /\ UNCHANGED <<heapEnd, loops, pc, asked>>

Return ==
    /\ pc = "running"
    /\ sp' = Restored(1)
    /\ scopes' = <<>> /\ loops' = <<>>
    /\ pc' = "returned"
    /\ UNCHANGED <<heapEnd, asked>>

Next ==
    \/ \E size \in Sizes : Allocate(size)
    \/ HeapGrows
    \/ \E dynamic \in BOOLEAN : EnterBlock(dynamic)
    \/ LeaveBlock
    \/ \E own \in BOOLEAN : EnterLoop(own)
    \/ LeaveLoop \/ Break \/ Continue \/ Return

Spec == Init /\ [][Next]_vars

-----------------------------------------------------------------------------
Arrays == UNION {scopes[i].arrays : i \in DOMAIN scopes}

TypeOK ==
    /\ sp \in 0 .. RamWords - 1
    /\ heapEnd \in 0 .. RamWords
    /\ pc \in {"running", "_stack_overflow", "returned"}
    /\ asked \in Nat
    /\ \A i \in DOMAIN scopes :
         /\ scopes[i].marker \in {None} \union 0 .. RamWords - 1
         /\ \A a \in scopes[i].arrays : a.base \in 0 .. RamWords - 1 /\ a.size \in Nat
    /\ \A i \in DOMAIN loops : Around(loops[i]) <= Len(scopes)

\* Storage is released when its block, loop or function is left, by falling
\* through, break, continue or return: what is in use is exactly what the
\* open scopes declared.
ReleasedOnExit ==
    sp = IF Arrays = {} THEN Entry ELSE Min({a.base : a \in Arrays})

\* Arrays in scope overlap neither each other, nor the heap, nor the frames
\* above the function's own.
ArraysApart ==
    /\ \A a \in Arrays : HeapTop <= a.base /\ a.base + a.size <= Entry
    /\ \A a, b \in Arrays :
         a # b => a.base + a.size <= b.base \/ b.base + b.size <= a.base

\* The trap is taken only by a request that is empty or does not fit.
TrapsOnlyWhenFull ==
    pc = "_stack_overflow" => asked = 0 \/ asked > sp - HeapTop
=============================================================================
