-------------------------------- MODULE Heap --------------------------------
(***************************************************************************)
(* The freestanding allocator every compiled program links against:        *)
(* malloc, calloc, realloc and free of selfhost/src/runtime.c, which       *)
(* repeats those of symphony/runtime/helpers.py step for step.  Block      *)
(* headers, free-list links and client data all live in one memory, as on  *)
(* the machine; a call is a sequence of steps, one per iteration of a list *)
(* walk.                                                                   *)
(*                                                                         *)
(* Addresses and block sizes count 4-byte words (the code keeps both       *)
(* multiples of 4); request sizes count bytes, as the callers give them.   *)
(* A header is two words, {size, next}; address 0 is the null pointer.     *)
(***************************************************************************)
EXTENDS Integers

CONSTANTS
    RamWords,    \* words of RAM; config.ram_size / 4
    HeapStart,   \* first aligned word after __dyn_heap_anchor
    Wrap,        \* 2^32: the modulus of unsigned int arithmetic
    Requests,    \* byte counts the program asks for
    StackTops,   \* values of the stack pointer while the program runs
    Data         \* what the program stores in a word it owns

Addr == 0 .. RamWords - 1

ASSUME HeapAssumption ==
    /\ RamWords \in Nat
    /\ HeapStart \in 1 .. RamWords - 1
    /\ Wrap \in Nat /\ Wrap % 4 = 0 /\ Wrap >= 4 * RamWords /\ Wrap >= 12
    /\ Requests \subseteq 0 .. Wrap - 1
    /\ StackTops \subseteq HeapStart .. RamWords - 1 /\ RamWords - 1 \in StackTops
    /\ Data \subseteq Nat

VARIABLES
    mem,         \* the words of RAM
    freeList,    \* __dyn_heap_free_list
    heapEnd,     \* __dyn_heap_end, 0 until the first bump allocation
    sp,          \* the stack pointer
    pc,          \* where the allocator is
    req,         \* the call in progress: operation, pointer, byte count
    size,        \* rounded size, in words, that malloc looks for
    previous, block, next,   \* list cursors of take_free and free
    result,      \* the pointer a call returns
    want,        \* auxiliary: bytes the program owns at each pointer, 0 if none
    chain        \* auxiliary: the blocks on the free list

heapVars == <<mem, freeList, heapEnd>>
callVars == <<pc, req, size, previous, block, next, result>>
vars == <<heapVars, sp, callVars, want, chain>>

NULL == 0
HeaderWords == 2
Operations == {"malloc", "calloc", "realloc", "free"}

SizeOf(b) == mem[b]
NextOf(b) == mem[b + 1]
Payload(b) == b + HeaderWords
Header(p) == p - HeaderWords
End(b) == b + HeaderWords + mem[b]

Live == {p \in Addr : want[p] > 0}

NoCall == [op |-> "free", ptr |-> NULL, bytes |-> 0]

\* The call returns to the program and its locals are gone.
Return ==
    /\ pc' = "idle"
    /\ req' = NoCall
    /\ size' = 0
    /\ previous' = NULL /\ block' = NULL /\ next' = NULL
    /\ result' = NULL

Init ==
    /\ mem = [a \in Addr |-> 0]
    /\ freeList = NULL
    /\ heapEnd = 0
    /\ sp = RamWords - 1
    /\ pc = "idle"
    /\ req = NoCall
    /\ size = 0
    /\ previous = NULL /\ block = NULL /\ next = NULL
    /\ result = NULL
    /\ want = [p \in Addr |-> 0]
    /\ chain = {}

-----------------------------------------------------------------------------
(* Entering a call.                                                        *)

\* Slip: the size is cut to a word, not rounded up.
RoundDown(n) == n \div 4

RoundUp(n) == ((n + 3) % Wrap) \div 4      \* (size + 3) & ~3, in words

Refused(n) == n = 0 \/ n > Wrap - 12       \* !size || size > 0xfffffff4

Refuse == UNCHANGED vars      \* return 0

EnterTakeFree(op, p, n) ==
    /\ req' = [op |-> op, ptr |-> p, bytes |-> n]
    /\ size' = RoundUp(n % Wrap)
    /\ previous' = NULL
    /\ block' = freeList
    /\ pc' = "take"
    /\ UNCHANGED <<heapVars, sp, next, result, want, chain>>

\* n is what the program means to own; the code sees it modulo 2^32.
Allocate(op, p, n) ==
    \/ Refused(n % Wrap) /\ Refuse
    \/ ~Refused(n % Wrap) /\ EnterTakeFree(op, p, n)

Malloc(n) == pc = "idle" /\ Allocate("malloc", NULL, n)

ProductOverflows(count, n) == count # 0 /\ n > (Wrap - 1) \div count

Calloc(count, n) ==
    /\ pc = "idle"
    /\ \/ ProductOverflows(count, n) /\ Refuse
       \/ ~ProductOverflows(count, n) /\ Allocate("calloc", NULL, count * n)

Release(p, n) ==
    /\ req' = [op |-> "free", ptr |-> p, bytes |-> n]
    /\ block' = Header(p)
    /\ previous' = NULL
    /\ next' = freeList
    /\ want' = [want EXCEPT ![p] = 0]
    /\ pc' = "seek"
    /\ UNCHANGED <<heapVars, sp, size, result, chain>>

Free(p) == pc = "idle" /\ p \in Live /\ Release(p, 0)

FreeNull == pc = "idle" /\ UNCHANGED vars

ReallocInPlace(p, n) ==
    /\ 4 * SizeOf(Header(p)) >= n
    /\ want' = [want EXCEPT ![p] = n]
    /\ UNCHANGED <<heapVars, sp, callVars, chain>>

Realloc(p, n) ==
    /\ pc = "idle"
    /\ \/ p = NULL /\ Allocate("malloc", NULL, n)
       \/ p \in Live /\ n = 0 /\ Release(p, 0)
       \/ p \in Live /\ n > 0 /\ ReallocInPlace(p, n)
       \/ /\ p \in Live /\ n > 0 /\ 4 * SizeOf(Header(p)) < n
          /\ Allocate("realloc", p, n)

-----------------------------------------------------------------------------
(* __dyn_heap_take_free: first fit, then the bump allocator.               *)

\* Slip: an exact fit is passed over.
FitsWithSlack == block # NULL /\ SizeOf(block) > size

Fits == block # NULL /\ SizeOf(block) >= size

\* sizeof(struct __dyn_heap_block) + 4, in words
Splittable == SizeOf(block) - size >= HeaderWords + 1

Rest == block + HeaderWords + size

\* The link that pointed at the block found points at b instead.
Relink(m, b) ==
    IF previous # NULL
      THEN mem' = [m EXCEPT ![previous + 1] = b] /\ freeList' = freeList
      ELSE mem' = m /\ freeList' = b

TakeAdvance ==
    /\ pc = "take"
    /\ block # NULL /\ ~Fits
    /\ previous' = block
    /\ block' = NextOf(block)
    /\ UNCHANGED <<heapVars, sp, pc, req, size, next, result, want, chain>>

TakeSplit ==
    /\ pc = "take"
    /\ Fits /\ Splittable
    /\ Relink([mem EXCEPT ![Rest] = SizeOf(block) - size - HeaderWords,
                          ![Rest + 1] = NextOf(block),
                          ![block] = size,
                          ![block + 1] = NULL], Rest)
    /\ chain' = (chain \ {block}) \union {Rest}
    /\ result' = Payload(block)
    /\ pc' = "return"
    /\ UNCHANGED <<heapEnd, sp, req, size, previous, block, next, want>>

TakeWhole ==
    /\ pc = "take"
    /\ Fits /\ ~Splittable
    /\ Relink([mem EXCEPT ![block + 1] = NULL], NextOf(block))
    /\ chain' = chain \ {block}
    /\ result' = Payload(block)
    /\ pc' = "return"
    /\ UNCHANGED <<heapEnd, sp, req, size, previous, block, next, want>>

\* __dyn_heap_remaining: the gap between the heap and the stack.
Remaining(end) == IF sp < end THEN 0 ELSE sp - end

\* Slip: the header of the new block is not counted.
RequiredWithoutHeader == size

Required == (HeaderWords + size) % (Wrap \div 4)

FirstEnd == IF heapEnd = 0 THEN HeapStart ELSE heapEnd

Bump ==
    /\ pc = "take"
    /\ block = NULL
    /\ pc' = "return"
    /\ \/ /\ Remaining(FirstEnd) < Required
          /\ result' = NULL
          /\ heapEnd' = FirstEnd
          /\ UNCHANGED mem
       \/ /\ Remaining(FirstEnd) >= Required
          /\ result' = Payload(FirstEnd)
          /\ heapEnd' = FirstEnd + Required
          /\ mem' = [mem EXCEPT ![FirstEnd] = size, ![FirstEnd + 1] = NULL]
    /\ UNCHANGED <<freeList, sp, req, size, previous, block, next, want, chain>>

-----------------------------------------------------------------------------
(* What each caller of malloc does with its result.                        *)

MallocReturn ==
    /\ pc = "return"
    /\ req.op = "malloc"
    /\ want' = IF result = NULL THEN want ELSE [want EXCEPT ![result] = req.bytes]
    /\ Return
    /\ UNCHANGED <<heapVars, sp, chain>>

CallocReturn ==
    /\ pc = "return"
    /\ req.op = "calloc"
    /\ IF result = NULL
         THEN UNCHANGED <<want, mem>>
         ELSE /\ want' = [want EXCEPT ![result] = req.bytes]
              /\ mem' = [a \in Addr |->
                           IF a \in result .. result + ((req.bytes % Wrap) \div 4) - 1
                             THEN 0 ELSE mem[a]]
    /\ Return
    /\ UNCHANGED <<freeList, heapEnd, sp, chain>>

ReallocFailed ==
    /\ pc = "return"
    /\ req.op = "realloc" /\ result = NULL
    /\ Return
    /\ UNCHANGED <<heapVars, sp, want, chain>>

\* Slip: the old contents are not copied.
ReallocMoveWithoutCopy ==
    /\ pc = "return"
    /\ req.op = "realloc" /\ result # NULL
    /\ want' = [want EXCEPT ![req.ptr] = 0, ![result] = req.bytes]
    /\ block' = Header(req.ptr)
    /\ previous' = NULL
    /\ next' = freeList
    /\ pc' = "seek"
    /\ result' = NULL
    /\ UNCHANGED <<heapVars, sp, req, size, chain>>

\* memcpy of the old block (smaller than the request, or realloc would have
\* kept it), then free(pointer).
ReallocMove ==
    /\ pc = "return"
    /\ req.op = "realloc" /\ result # NULL
    /\ mem' = [a \in Addr |->
                 IF a \in result .. result + SizeOf(Header(req.ptr)) - 1
                   THEN mem[req.ptr + (a - result)] ELSE mem[a]]
    /\ want' = [want EXCEPT ![req.ptr] = 0, ![result] = req.bytes]
    /\ block' = Header(req.ptr)
    /\ previous' = NULL
    /\ next' = freeList
    /\ pc' = "seek"
    /\ result' = NULL
    /\ UNCHANGED <<freeList, heapEnd, sp, req, size, chain>>

-----------------------------------------------------------------------------
(* free: insert in address order, then coalesce with both neighbours.      *)

\* Slip: new blocks go to the end of the list, whatever their address.
SeekingEnd == next # NULL

Seeking == next # NULL /\ next < block

\* Slip: the cursor does not move.
FreeAdvanceStuck ==
    /\ pc = "seek"
    /\ Seeking
    /\ previous' = next
    /\ UNCHANGED <<heapVars, sp, pc, req, size, block, next, result, want, chain>>

FreeAdvance ==
    /\ pc = "seek"
    /\ Seeking
    /\ previous' = next
    /\ next' = NextOf(next)
    /\ UNCHANGED <<heapVars, sp, pc, req, size, block, result, want, chain>>

\* Slip: the absorbed header's two words are dropped.
AbsorbWithoutHeader(m, b, c) ==
    [m EXCEPT ![b] = m[b] + m[c], ![b + 1] = m[c + 1]]

\* b takes over the words of the block c that follows it.
Absorb(m, b, c) ==
    [m EXCEPT ![b] = m[b] + HeaderWords + m[c], ![b + 1] = m[c + 1]]

\* Slip: the headers are left out of the comparison.
MeetsPreviousPayload == previous # NULL /\ previous + mem[previous] = block

MeetsNext == next # NULL /\ block + HeaderWords + mem[block] = next
MeetsPrevious == previous # NULL /\ previous + HeaderWords + mem[previous] = block

FreeLink ==
    /\ pc = "seek"
    /\ ~Seeking
    /\ LET linked == IF previous # NULL
                       THEN [mem EXCEPT ![block + 1] = next, ![previous + 1] = block]
                       ELSE [mem EXCEPT ![block + 1] = next]
           forward == IF MeetsNext THEN Absorb(linked, block, next) ELSE linked
       IN  mem' = IF MeetsPrevious THEN Absorb(forward, previous, block) ELSE forward
    /\ freeList' = IF previous # NULL THEN freeList ELSE block
    /\ chain' = ((chain \union {block})
                   \ {b \in {next} : MeetsNext}) \ {b \in {block} : MeetsPrevious}
    /\ Return
    /\ UNCHANGED <<heapEnd, sp, want>>

-----------------------------------------------------------------------------
(* The program around the allocator: it fills memory it owns, and its      *)
(* calls and returns move the stack pointer.  The frames of a program      *)
(* whose stack fits never reach the heap (no code checks an ordinary call).*)

Fill(p, v) ==
    /\ pc = "idle"
    /\ p \in Live
    /\ mem' = [a \in Addr |->
                 IF a \in p .. p + (want[p] \div 4) - 1 THEN v ELSE mem[a]]
    /\ UNCHANGED <<freeList, heapEnd, sp, callVars, want, chain>>

StackMove(s) ==
    /\ pc = "idle"
    /\ s >= heapEnd
    /\ sp' = s
    /\ UNCHANGED <<heapVars, callVars, want, chain>>

Step ==
    \/ TakeAdvance \/ TakeSplit \/ TakeWhole \/ Bump
    \/ MallocReturn \/ CallocReturn \/ ReallocFailed \/ ReallocMove
    \/ FreeAdvance \/ FreeLink

Next ==
    \/ Step
    \/ FreeNull
    \/ \E n \in Requests : Malloc(n)
    \/ \E c, n \in Requests : Calloc(c, n)
    \/ \E p \in Addr : Free(p)
    \/ \E p \in Addr, n \in Requests : Realloc(p, n)
    \/ \E p \in Addr, v \in Data : Fill(p, v)
    \/ \E s \in StackTops : StackMove(s)

Spec == Init /\ [][Next]_vars

FairSpec == Spec /\ WF_vars(Step)
-----------------------------------------------------------------------------
(* Properties.                                                             *)

\* The block a call holds between taking it off one structure and handing
\* it to another.
InHand ==
    CASE pc = "return" /\ result # NULL -> {Header(result)}
      [] pc = "seek" -> {block}
      [] OTHER -> {}

Blocks == chain \union {Header(p) : p \in Live} \union InHand

\* Every variable of the allocator ranges over what its C type and its
\* alignment allow.
TypeOK ==
    /\ mem \in [Addr -> Nat]
    /\ freeList \in Addr
    /\ heapEnd \in Nat
    /\ sp \in Addr
    /\ pc \in {"idle", "take", "return", "seek"}
    /\ req \in [op : Operations, ptr : Addr, bytes : Nat]
    /\ size \in Nat
    /\ previous \in Addr /\ block \in Addr /\ next \in Addr
    /\ result \in Addr
    /\ want \in [Addr -> Nat]
    /\ chain \subseteq Addr

\* The blocks B, with their sizes in m, lie apart between HeapStart and e.
Tiled(m, B, e) ==
    /\ \A b \in B : HeapStart <= b /\ m[b] >= 1 /\ b + HeaderWords + m[b] <= e
    /\ \A b, c \in B : b < c => b + HeaderWords + m[b] <= c

\* Blocks never overlap, whoever holds them, and none reaches past
\* __dyn_heap_end or the stack: no allocation can corrupt another one.
Disjoint == heapEnd <= sp /\ Tiled(mem, Blocks, heapEnd)

\* No word of the heap is lost: each block is followed by another block or
\* by the end of the heap, through every split, merge and move.
NothingLost ==
    /\ heapEnd > HeapStart => HeapStart \in Blocks
    /\ \A b \in Blocks : End(b) = heapEnd \/ End(b) \in Blocks

\* A block is on the free list, or handed to the program, or in hand.
NoSharedBlock ==
    /\ chain \intersect {Header(p) : p \in Live} = {}
    /\ InHand \intersect (chain \union {Header(p) : p \in Live}) = {}

\* n is the lowest block of C above a, NULL if there is none.
LeastAbove(C, a, n) ==
    IF n = NULL THEN \A c \in C : c <= a
    ELSE n \in C /\ a < n /\ \A c \in C : a < c => n <= c

\* The links in m thread the blocks C, in address order, from the head.
Threaded(m, C, head) ==
    /\ LeastAbove(C, NULL, head)
    /\ \A b \in C : LeastAbove(C, b, m[b + 1])

\* The links in memory thread exactly the free blocks: what client writes,
\* splits and merges leave there is a sound list.
ListSound == Threaded(mem, chain, freeList)

\* free merges with both neighbours, so two free blocks never touch.
Coalesced == \A b \in chain : End(b) \notin chain

\* What malloc, calloc and realloc return has room for the bytes asked for.
Roomy == \A p \in Live : want[p] <= 4 * SizeOf(Header(p))

\* An allocation fails only when no free block and no room below the stack
\* can hold it.
FailsOnlyWhenFull ==
    pc = "return" /\ result = NULL =>
        /\ \A b \in chain : SizeOf(b) < size
        /\ sp - heapEnd < HeaderWords + size

\* Where the cursors of a list walk are, and what a call in progress has
\* established so far.
CursorsSound ==
    /\ pc \in {"take", "seek"} =>
         /\ previous \in chain \union {NULL}
         /\ LeastAbove(chain, previous, IF pc = "take" THEN block ELSE next)
    /\ pc = "seek" => previous < block
    /\ pc = "take" => \A b \in chain : b <= previous => SizeOf(b) < size

CallSound ==
    /\ pc \in {"take", "return"} =>
         /\ req.op # "free" /\ 0 < req.bytes /\ req.bytes < Wrap
         /\ req.bytes <= 4 * size /\ 4 * size < Wrap - 8
         /\ req.op = "realloc" =>
              req.ptr \in Live /\ 4 * SizeOf(Header(req.ptr)) < req.bytes
    /\ pc = "return" /\ result # NULL =>
         HeaderWords <= result /\ size <= SizeOf(Header(result))

StackAbove ==
    /\ HeapStart <= sp
    /\ heapEnd # 0 => HeapStart <= heapEnd

\* The inductive invariant: the safety properties and what they rest on.
HeapInvariant ==
    /\ TypeOK
    /\ StackAbove
    /\ Disjoint
    /\ NoSharedBlock
    /\ ListSound
    /\ Roomy
    /\ CursorsSound
    /\ CallSound

\* Every call returns: list walks end.
CallsReturn == pc # "idle" ~> pc = "idle"

-----------------------------------------------------------------------------
\* The words the program's data at p occupies.
Image(p) == [i \in 1 .. want[p] \div 4 |-> mem[p + i - 1]]

\* What the program may rely on: the allocator seen as a map from pointers to
\* what their owner stored there.
Allocator == INSTANCE Allocator WITH
    Addr <- Addr,
    image <- [p \in Addr |-> Image(p)]

ImplementsAllocator == Allocator!Spec
=============================================================================
