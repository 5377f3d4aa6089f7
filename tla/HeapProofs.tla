----------------------------- MODULE HeapProofs -----------------------------
(***************************************************************************)
(* Proofs, for every size of RAM and every request, that the allocator of  *)
(* Heap keeps its blocks apart, its free list sound and every word of its  *)
(* heap, merges free blocks, fails only when it is full, implements        *)
(* Allocator, and that no call of it goes on for ever.                     *)
(*                                                                         *)
(* The first part is about a memory m, a set of blocks B and a set of free *)
(* blocks C: how linking, absorbing, unlinking and splitting change them.  *)
(* The second part shows that each action preserves HeapInvariant, and     *)
(* says which blocks it splits, grows or frees (Change).  The third part   *)
(* reads the remaining invariants off those changes, the fourth maps every *)
(* step to a step of Allocator or to a stutter, and the last counts the    *)
(* steps a call has left.                                                  *)
(***************************************************************************)
EXTENDS Heap, TLAPS

Memory == [Addr -> Nat]

\* Addresses are natural numbers, which the provers must be told.
LEMMA AddrInt == Addr \subseteq Int /\ Addr \subseteq Nat
  BY HeapAssumption DEF Addr

\* The null pointer is an address, of a word no block may hold.
LEMMA NullAddr == NULL \in Addr
  BY HeapAssumption DEF NULL, Addr

\* Sizes that agree keep a tiling, and so does a longer heap.
LEMMA TiledAgree ==
  ASSUME NEW m \in Memory, NEW n \in Memory, NEW B \in SUBSET Addr,
         NEW e \in Int, NEW f \in Int, e <= f,
         Tiled(m, B, e), \A b \in B : n[b] = m[b]
  PROVE  Tiled(n, B, f)
  BY AddrInt, HeapAssumption DEF Tiled, HeaderWords, Memory

\* The two words of a header belong to no other block, and lie in RAM.
LEMMA HeadersApart ==
  ASSUME NEW m \in Memory, NEW B \in SUBSET Addr, NEW e \in Addr,
         Tiled(m, B, e), NEW b \in B, NEW c \in B
  PROVE  /\ b + 1 \in Addr
         /\ b # c + 1
         /\ b # c => b + 1 # c + 1
         /\ 0 < b
  BY AddrInt, HeapAssumption DEF Tiled, HeaderWords, Memory, Addr

\* A block that takes over its neighbour's words leaves the others where
\* they are.
LEMMA AbsorbTiled ==
  ASSUME NEW m \in Memory, NEW B \in SUBSET Addr, NEW e \in Addr,
         Tiled(m, B, e), NEW b \in B, NEW c \in B,
         b + HeaderWords + m[b] = c
  PROVE  /\ Absorb(m, b, c) \in Memory
         /\ Absorb(m, b, c)[b] = m[b] + HeaderWords + m[c]
         /\ Tiled(Absorb(m, b, c), B \ {c}, e)
<1> DEFINE n == Absorb(m, b, c)
<1>1. b + 1 \in Addr /\ c + 1 \in Addr
  BY HeadersApart
<1>2. m[b] \in Nat /\ m[c] \in Nat /\ m[c + 1] \in Nat /\ m[b] + HeaderWords + m[c] \in Nat
  BY <1>1 DEF Memory, HeaderWords
<1>3. n \in Memory
  BY <1>1, <1>2 DEF Absorb, Memory
<1>4. \A d \in B : d # b + 1
  BY HeadersApart
<1>5. n[b] = m[b] + HeaderWords + m[c]
  BY <1>1, AddrInt DEF Absorb, Memory
<1>6. \A d \in B \ {b} : n[d] = m[d]
  BY <1>4 DEF Absorb, Memory
<1>7. b < c
  BY <1>2, AddrInt DEF Tiled, HeaderWords
<1>8. ASSUME NEW d \in B \ {c}
      PROVE  HeapStart <= d /\ n[d] >= 1 /\ d + HeaderWords + n[d] <= e
  <2>1. CASE d = b
    BY <2>1, <1>2, <1>5, AddrInt, HeapAssumption DEF Tiled, HeaderWords, Memory
  <2>2. CASE d # b
    BY <2>2, <1>6 DEF Tiled
  <2> QED
    BY <2>1, <2>2
<1>9. ASSUME NEW d \in B \ {c}, NEW x \in B \ {c}, d < x
      PROVE  d + HeaderWords + n[d] <= x
  <2>1. CASE d = b
    <3>1. c < x
      BY <2>1, <1>2, <1>9, AddrInt DEF Tiled, HeaderWords
    <3>2. c + HeaderWords + m[c] <= x
      BY <3>1 DEF Tiled
    <3> QED
      BY <2>1, <3>2, <1>2, <1>5, AddrInt DEF HeaderWords
  <2>2. CASE d # b
    BY <2>2, <1>6, <1>9 DEF Tiled
  <2> QED
    BY <2>1, <2>2
<1> QED
  BY <1>3, <1>5, <1>8, <1>9 DEF Tiled

\* ... and drops the neighbour from the free list it follows there.
LEMMA AbsorbThreaded ==
  ASSUME NEW m \in Memory, NEW B \in SUBSET Addr, NEW e \in Addr,
         Tiled(m, B, e), NEW C \in SUBSET B, NEW h \in Addr,
         Threaded(m, C, h), NEW b \in C, NEW c \in C,
         b + HeaderWords + m[b] = c
  PROVE  Threaded(Absorb(m, b, c), C \ {c}, h)
<1> DEFINE n == Absorb(m, b, c)
<1>0. C \subseteq Int
  BY AddrInt
<1>1. b + 1 \in Addr /\ c + 1 \in Addr /\ b < c /\ b > 0
  BY HeadersApart, AddrInt DEF HeaderWords, Memory
<1>2. n[b + 1] = m[c + 1]
  BY <1>1, AddrInt DEF Absorb, Memory
<1>3. \A d \in C \ {b} : n[d + 1] = m[d + 1]
  <2> TAKE d \in C \ {b}
  <2>1. d + 1 \in Addr /\ d + 1 # b /\ d + 1 # b + 1
    BY HeadersApart
  <2> QED
    BY <2>1 DEF Absorb, Memory
<1>4. \A d \in C : b < d => c <= d
  BY AddrInt DEF Tiled, HeaderWords, Memory
<1>5. LeastAbove(C \ {c}, NULL, h)
  BY <1>1, AddrInt DEF Threaded, LeastAbove, NULL
<1>6. ASSUME NEW d \in C \ {c}
      PROVE  LeastAbove(C \ {c}, d, n[d + 1])
  <2>1. CASE d = b
    <3>1. LeastAbove(C, c, m[c + 1])
      BY DEF Threaded
    <3>2. n[d + 1] = m[c + 1]
      BY <2>1, <1>2
    <3>3. \A x \in C \ {c} : d < x => c < x
      BY <2>1, <1>4, AddrInt
    <3> HIDE DEF n
    <3>4. CASE m[c + 1] = NULL
      BY <3>1, <3>2, <3>3, <3>4, <1>0, <1>1, <2>1 DEF LeastAbove
    <3>5. CASE m[c + 1] # NULL
      <4> DEFINE k == m[c + 1]
      <4> HIDE DEF k
      <4>1. k \in C /\ c < k /\ \A x \in C : c < x => k <= x
        BY <3>1, <3>5 DEF LeastAbove, k
      <4>2. k \in C \ {c} /\ d < k
        BY <4>1, <1>0, <1>1, <2>1
      <4>3. LeastAbove(C \ {c}, d, k)
        BY <4>1, <4>2, <3>3, <3>5 DEF LeastAbove, k
      <4> QED
        BY <4>3, <3>2 DEF k
    <3> QED
      BY <3>4, <3>5
  <2>2. CASE d # b
    <3>1. LeastAbove(C, d, m[d + 1]) /\ n[d + 1] = m[d + 1]
      BY <2>2, <1>3 DEF Threaded
    <3>2. m[d + 1] # c
      BY <2>2, <3>1, <1>1, <1>4, AddrInt DEF LeastAbove, NULL
    <3> QED
      BY <3>1, <3>2, AddrInt DEF LeastAbove, NULL
  <2> QED
    BY <2>1, <2>2
<1> QED
  BY <1>5, <1>6 DEF Threaded

\* free's insertion: the new block goes between the cursors p and x.
LEMMA InsertThreaded ==
  ASSUME NEW C \in SUBSET (Addr \ {NULL}), NEW m \in Memory, NEW n \in Memory,
         NEW h \in Addr, Threaded(m, C, h),
         NEW b \in Addr \ C, NEW p \in C \union {NULL}, NEW x \in Addr,
         LeastAbove(C, p, x), p < b, ~(x # NULL /\ x < b),
         n[b + 1] = x, p # NULL => n[p + 1] = b,
         \A d \in C \ {p} : n[d + 1] = m[d + 1]
  PROVE  Threaded(n, C \union {b}, IF p # NULL THEN h ELSE b)
<1>1. C \subseteq Int /\ b \in Int /\ p \in Int /\ x \in Int /\ \A d \in C : d > 0
  BY AddrInt DEF NULL, Addr
<1>2. x = NULL \/ (x \in C /\ b < x)
  BY <1>1 DEF LeastAbove
<1>3. \A c \in C : c <= p \/ (x # NULL /\ x <= c)
  BY <1>1 DEF LeastAbove
<1>4. LeastAbove(C \union {b}, NULL, IF p # NULL THEN h ELSE b)
  BY <1>1, <1>2, <1>3 DEF Threaded, LeastAbove, NULL
<1>5. LeastAbove(C \union {b}, b, n[b + 1])
  BY <1>1, <1>2, <1>3 DEF LeastAbove, NULL
<1>6. ASSUME p # NULL
      PROVE  LeastAbove(C \union {b}, p, n[p + 1])
  BY <1>1, <1>2, <1>3, <1>6 DEF LeastAbove, NULL
<1>7. ASSUME NEW d \in C \ {p}
      PROVE  LeastAbove(C \union {b}, d, m[d + 1])
  <2>1. LeastAbove(C, d, m[d + 1])
    BY DEF Threaded
  <2>2. CASE d < p
    <3> DEFINE k == m[d + 1]
    <3> HIDE DEF k
    <3>1. p \in C
      BY <1>1, <2>2 DEF NULL
    <3>2. k # NULL /\ k \in C /\ d < k /\ k <= p /\ \A c \in C : d < c => k <= c
      BY <1>1, <2>1, <2>2, <3>1 DEF LeastAbove, k
    <3>3. LeastAbove(C \union {b}, d, k)
      BY <1>1, <3>2 DEF LeastAbove
    <3> QED
      BY <3>3 DEF k
  <2>3. CASE x # NULL /\ x <= d
    BY <1>1, <1>2, <1>3, <2>1, <2>3 DEF LeastAbove, NULL
  <2> QED
    BY <1>1, <1>3, <2>2, <2>3
<1> QED
  BY <1>4, <1>5, <1>6, <1>7 DEF Threaded

\* Taking block b, which follows the cursor p, off the list.
LEMMA RemoveThreaded ==
  ASSUME NEW C \in SUBSET (Addr \ {NULL}), NEW m \in Memory, NEW n \in Memory,
         NEW h \in Addr, Threaded(m, C, h),
         NEW b \in C, NEW p \in C \union {NULL}, LeastAbove(C, p, b),
         p # NULL => n[p + 1] = m[b + 1],
         \A d \in C \ {p, b} : n[d + 1] = m[d + 1]
  PROVE  Threaded(n, C \ {b}, IF p # NULL THEN h ELSE m[b + 1])
<1> DEFINE k == m[b + 1]
<1>1. C \subseteq Int /\ b \in Int /\ p \in Int /\ b # NULL /\ \A d \in C : d > 0
  BY AddrInt DEF NULL, Addr
<1>2. p < b /\ \A c \in C : p < c => b <= c
  BY <1>1 DEF LeastAbove
<1>3. LeastAbove(C, b, k)
  BY DEF Threaded
<1> HIDE DEF k
<1>4. k = NULL \/ (k \in C \ {b} /\ b < k)
  BY <1>1, <1>3 DEF LeastAbove
<1>5. \A c \in C \ {b} : p < c => k # NULL /\ k <= c
  BY <1>1, <1>2, <1>3 DEF LeastAbove
<1>6. LeastAbove(C \ {b}, p, k)
  <2>1. CASE k = NULL
    BY <1>1, <1>5, <2>1 DEF LeastAbove
  <2>2. CASE k # NULL
    <3>1. k \in C \ {b} /\ b < k
      BY <1>4, <2>2
    <3>2. p < k
      BY <3>1, <1>1, <1>2
    <3>3. \A c \in C \ {b} : p < c => k <= c
      BY <1>5
    <3> QED
      BY <3>1, <3>2, <3>3, <2>2 DEF LeastAbove
  <2> QED
    BY <2>1, <2>2
<1>7. LeastAbove(C \ {b}, NULL, IF p # NULL THEN h ELSE k)
  <2>1. CASE p = NULL
    BY <1>6, <2>1
  <2>2. CASE p # NULL
    BY <1>1, <1>2, <2>2 DEF Threaded, LeastAbove, NULL
  <2> QED
    BY <2>1, <2>2
<1>8. ASSUME NEW d \in C \ {p, b}
      PROVE  LeastAbove(C \ {b}, d, m[d + 1])
  <2>1. LeastAbove(C, d, m[d + 1])
    BY DEF Threaded
  <2>2. m[d + 1] # b
    BY <1>1, <1>2, <2>1, AddrInt DEF LeastAbove, NULL
  <2> QED
    BY <2>1, <2>2, <1>1 DEF LeastAbove
<1> QED
  BY <1>6, <1>7, <1>8 DEF Threaded, k

\* A split: the rest r takes the place of block b in the list.
LEMMA ReplaceThreaded ==
  ASSUME NEW C \in SUBSET (Addr \ {NULL}), NEW m \in Memory, NEW n \in Memory,
         NEW h \in Addr, Threaded(m, C, h),
         NEW b \in C, NEW p \in C \union {NULL}, LeastAbove(C, p, b),
         NEW r \in Addr \ C, b < r, \A c \in C : b < c => r < c,
         n[r + 1] = m[b + 1],
         p # NULL => n[p + 1] = r,
         \A d \in C \ {p, b} : n[d + 1] = m[d + 1]
  PROVE  Threaded(n, (C \ {b}) \union {r}, IF p # NULL THEN h ELSE r)
<1> DEFINE k == m[b + 1]
           D == (C \ {b}) \union {r}
<1>1. C \subseteq Int /\ b \in Int /\ p \in Int /\ r \in Int /\ b # NULL /\ r > 0
      /\ \A d \in C : d > 0
  BY AddrInt DEF NULL, Addr
<1>2. p < b /\ \A c \in C : p < c => b <= c
  BY <1>1 DEF LeastAbove
<1>3. LeastAbove(C, b, k)
  BY DEF Threaded
<1> HIDE DEF k
<1>4. k = NULL \/ (k \in C \ {b} /\ b < k /\ r < k)
  <2>1. CASE k = NULL
    BY <2>1
  <2>2. CASE k # NULL
    <3>1. k \in C /\ b < k
      BY <1>3, <2>2 DEF LeastAbove
    <3>2. r < k
      BY <3>1
    <3> QED
      BY <3>1, <3>2, <1>1
  <2> QED
    BY <2>1, <2>2
<1>5. \A c \in C \ {b} : p < c => r < c /\ k # NULL /\ k <= c
  BY <1>1, <1>2, <1>3 DEF LeastAbove
<1>6. LeastAbove(D, p, r)
  BY <1>1, <1>2, <1>5 DEF LeastAbove, NULL
<1>7. LeastAbove(D, r, k)
  BY <1>1, <1>2, <1>4, <1>5 DEF LeastAbove, NULL
<1>8. LeastAbove(D, NULL, IF p # NULL THEN h ELSE r)
  <2>1. CASE p = NULL
    BY <1>6, <2>1
  <2>2. CASE p # NULL
    <3>1. h \in C /\ h <= p /\ \A c \in C : h <= c
      BY <1>1, <2>2, AddrInt DEF Threaded, LeastAbove, NULL
    <3> QED
      BY <1>1, <1>2, <2>2, <3>1 DEF LeastAbove, NULL
  <2> QED
    BY <2>1, <2>2
<1>9. ASSUME NEW d \in C \ {p, b}
      PROVE  LeastAbove(D, d, m[d + 1])
  <2>1. LeastAbove(C, d, m[d + 1])
    BY DEF Threaded
  <2>2. m[d + 1] # b
    BY <1>1, <1>2, <2>1, AddrInt DEF LeastAbove, NULL
  <2>3. CASE d < p
    <3> DEFINE j == m[d + 1]
    <3> HIDE DEF j
    <3>1. p \in C
      BY <1>1, <2>3 DEF NULL
    <3>2. j # NULL /\ j \in C /\ d < j /\ j <= p /\ \A c \in C : d < c => j <= c
      BY <1>1, <2>1, <2>3, <3>1 DEF LeastAbove, j
    <3>3. LeastAbove(D, d, j)
      BY <1>1, <1>2, <3>2 DEF LeastAbove
    <3> QED
      BY <3>3 DEF j
  <2>4. CASE r < d
    BY <1>1, <1>2, <2>1, <2>2, <2>4 DEF LeastAbove, NULL
  <2> QED
    BY <1>1, <1>5, <2>3, <2>4
<1> QED
  BY <1>6, <1>7, <1>8, <1>9 DEF Threaded, k

\* No other block's header lies among the words of block b.
LEMMA Interior ==
  ASSUME NEW m \in Memory, NEW B \in SUBSET Addr, NEW e \in Addr,
         Tiled(m, B, e), NEW b \in B, NEW d \in B \ {b},
         NEW a \in b .. b + HeaderWords + m[b] - 1
  PROVE  a # d /\ a # d + 1 /\ a \in Addr
<1>1. m[b] \in Nat /\ m[d] \in Nat /\ b \in Nat /\ d \in Nat /\ e \in Nat /\ e < RamWords
  BY AddrInt, HeapAssumption DEF Memory, Addr
<1>2. d < b => d + HeaderWords + m[d] <= b
  BY DEF Tiled
<1>3. b < d => b + HeaderWords + m[b] <= d
  BY DEF Tiled
<1>4. b + HeaderWords + m[b] <= e
  BY DEF Tiled
<1> QED
  BY <1>1, <1>2, <1>3, <1>4, HeapAssumption DEF HeaderWords, Addr

\* Splitting block b leaves the rest r as a block of its own inside it.
LEMMA SplitTiled ==
  ASSUME NEW m \in Memory, NEW B \in SUBSET Addr, NEW e \in Addr,
         Tiled(m, B, e), NEW b \in B, NEW s \in Nat, s >= 1,
         m[b] - s >= HeaderWords + 1,
         NEW n \in Memory, NEW r \in Int, r = b + HeaderWords + s,
         n[b] = s, n[r] = m[b] - s - HeaderWords,
         \A d \in B \ {b} : n[d] = m[d]
  PROVE  /\ Tiled(n, B \union {r}, e)
         /\ \A c \in B : b < c => r < c
<1>1. m[b] \in Nat /\ b \in Nat /\ B \subseteq Nat /\ e \in Nat /\ HeapStart \in Nat
  BY AddrInt, HeapAssumption DEF Memory, Addr
<1>2. HeapStart <= b /\ b + HeaderWords + m[b] <= e
  BY DEF Tiled
<1>3. \A c \in B : b < c => b + HeaderWords + m[b] <= c
  BY DEF Tiled
<1>4. \A c \in B : c < b => c + HeaderWords + m[c] <= b
  BY DEF Tiled
<1>5. \A c \in B : b < c => r < c
  BY <1>1, <1>3 DEF HeaderWords
<1>6. ASSUME NEW d \in B \union {r}
      PROVE  HeapStart <= d /\ n[d] >= 1 /\ d + HeaderWords + n[d] <= e
  <2>1. CASE d \in B \ {b}
    BY <2>1 DEF Tiled
  <2>2. CASE d = b \/ d = r
    BY <2>2, <1>1, <1>2 DEF HeaderWords
  <2> QED
    BY <1>6, <2>1, <2>2
<1>7. ASSUME NEW c \in B \union {r}, NEW d \in B \union {r}, c < d
      PROVE  c + HeaderWords + n[c] <= d
  <2>1. CASE c \in B \ {b} /\ d \in B
    BY <2>1, <1>7 DEF Tiled
  <2>2. CASE c \in B \ {b} /\ d = r
    <3>1. c < b
      BY <2>2, <1>1, <1>5, <1>7
    <3>2. c + HeaderWords + m[c] <= b
      BY <2>2, <3>1, <1>4
    <3>3. m[c] \in Nat
      BY <2>2 DEF Memory
    <3> QED
      BY <2>2, <3>2, <3>3, <1>1 DEF HeaderWords
  <2>3. CASE c = b /\ d = r
    BY <2>3, <1>1
  <2>4. CASE c = b /\ d \in B
    BY <2>4, <1>1, <1>3, <1>7 DEF HeaderWords
  <2>5. CASE c = r /\ d \in B
    <3>1. b < d
      BY <2>5, <1>1, <1>7 DEF HeaderWords
    <3> QED
      BY <2>5, <3>1, <1>1, <1>3 DEF HeaderWords
  <2> QED
    BY <1>1, <1>7, <2>1, <2>2, <2>3, <2>4, <2>5
<1> QED
  BY <1>5, <1>6, <1>7 DEF Tiled

\* Writing to the payload of one block changes no header.
LEMMA PayloadWrite ==
  ASSUME NEW m \in Memory, NEW n \in Memory, NEW B \in SUBSET Addr, NEW e \in Addr,
         Tiled(m, B, e), NEW b \in B,
         \A a \in Addr : a \notin b + HeaderWords .. b + HeaderWords + m[b] - 1
                           => n[a] = m[a]
  PROVE  /\ \A d \in B : n[d] = m[d] /\ n[d + 1] = m[d + 1]
         /\ Tiled(n, B, e)
         /\ \A C \in SUBSET B, h \in Addr : Threaded(m, C, h) => Threaded(n, C, h)
<1>1. ASSUME NEW d \in B
      PROVE  n[d] = m[d] /\ n[d + 1] = m[d + 1]
  <2>1. d \in Addr /\ d + 1 \in Addr /\ b \in Int /\ d \in Int /\ m[b] \in Nat
    BY HeadersApart, AddrInt DEF Memory
  <2>2. CASE d = b
    BY <2>1, <2>2 DEF HeaderWords
  <2>3. CASE d # b
    <3>1. \A a \in b .. b + HeaderWords + m[b] - 1 : a # d /\ a # d + 1
      BY <2>3, Interior
    <3>2. d \notin b + HeaderWords .. b + HeaderWords + m[b] - 1
      BY <2>1, <3>1 DEF HeaderWords
    <3>3. d + 1 \notin b + HeaderWords .. b + HeaderWords + m[b] - 1
      BY <2>1, <3>1 DEF HeaderWords
    <3> QED
      BY <2>1, <3>2, <3>3
  <2> QED
    BY <2>2, <2>3
<1>2. Tiled(n, B, e)
  BY <1>1 DEF Tiled
<1>3. ASSUME NEW C \in SUBSET B, NEW h \in Addr, Threaded(m, C, h)
      PROVE  Threaded(n, C, h)
  BY <1>1, <1>3 DEF Threaded
<1> QED
  BY <1>1, <1>2, <1>3

-----------------------------------------------------------------------------
(* The actions.                                                            *)

\* What the invariant says of the blocks, in one place.
LEMMA Facts ==
  ASSUME HeapInvariant
  PROVE  /\ heapEnd \in Addr
         /\ mem \in Memory
         /\ Blocks \in SUBSET (Addr \ {NULL})
         /\ Tiled(mem, Blocks, heapEnd)
         /\ chain \subseteq Blocks
         /\ \A p \in Live : Header(p) \in Blocks
         /\ InHand \subseteq Blocks
<1>1. heapEnd \in Addr
  BY AddrInt, HeapAssumption DEF HeapInvariant, TypeOK, Disjoint, StackAbove, Addr
<1>2. Tiled(mem, Blocks, heapEnd) /\ mem \in Memory
  BY DEF HeapInvariant, TypeOK, Disjoint, Memory
<1>3. ASSUME NEW b \in Blocks
      PROVE  b \in Addr \ {NULL}
  <2>1. HeapStart <= b
    BY <1>2 DEF Tiled
  <2>2. b \in Addr
    <3>1. CASE b \in chain
      BY <3>1 DEF HeapInvariant, TypeOK
    <3>2. CASE b \in InHand
      <4>1. CASE pc = "return" /\ result # NULL
        <5>1. b = result - 2 /\ result \in Addr
          BY <3>2, <4>1 DEF InHand, HeapInvariant, TypeOK, Header, HeaderWords
        <5> QED
          BY <5>1, <2>1, HeapAssumption DEF Addr
      <4>2. CASE pc = "seek"
        BY <3>2, <4>2 DEF InHand, HeapInvariant, TypeOK
      <4> QED
        BY <3>2, <4>1, <4>2 DEF InHand
    <3>3. ASSUME NEW p \in Live, b = Header(p)
          PROVE  b \in Addr
      BY <2>1, <3>3, AddrInt, HeapAssumption DEF Live, Header, HeaderWords, Addr
    <3> QED
      BY <3>1, <3>2, <3>3 DEF Blocks
  <2> QED
    BY <2>1, <2>2, HeapAssumption DEF NULL, Addr
<1> QED
  BY <1>1, <1>2, <1>3 DEF Blocks

\* What a step can do to the blocks: leave them, but for a free one it takes
\* off the list;
Kept ==
    /\ Blocks' = Blocks /\ \A b \in Blocks : mem'[b] = mem[b]
    /\ chain' \subseteq chain
    /\ heapEnd' = heapEnd \/ (heapEnd = 0 /\ heapEnd' = HeapStart)

\* cut the free block b at r;
Split(b, r) ==
    /\ b \in chain /\ r \in Addr \ Blocks /\ b < r
    /\ b + HeaderWords + mem'[b] = r
    /\ r + HeaderWords + mem'[r] = b + HeaderWords + mem[b]
    /\ \A d \in Blocks \ {b} : mem'[d] = mem[d]
    /\ Blocks' = Blocks \union {r} /\ chain' = (chain \ {b}) \union {r}
    /\ heapEnd' = heapEnd

\* add one at the end of the heap;
Grown ==
    /\ Blocks' = Blocks \union {FirstEnd} /\ chain' = chain
    /\ \A b \in Blocks : mem'[b] = mem[b]
    /\ heapEnd' = FirstEnd + HeaderWords + mem'[FirstEnd]

\* or free the one in hand, and merge it with its neighbours: what was first
\* to last is one block.
First == IF MeetsPrevious THEN previous ELSE block
LastMerged == IF MeetsNext THEN next ELSE block
Merged == {q \in {next} : MeetsNext} \union {q \in {block} : MeetsPrevious}

Freed ==
    /\ pc = "seek" /\ ~Seeking
    /\ Blocks' = Blocks \ Merged /\ chain' = (chain \union {block}) \ Merged
    /\ First + HeaderWords + mem'[First] = LastMerged + HeaderWords + mem[LastMerged]
    /\ \A d \in Blocks \ (Merged \union {First}) : mem'[d] = mem[d]
    /\ heapEnd' = heapEnd

Change == Kept \/ (\E b \in chain, r \in Addr : Split(b, r)) \/ Grown \/ Freed

\* The empty heap of a program that starts (runtime.c:45-47).
LEMMA InitInvariant == Init => HeapInvariant
<1> SUFFICES ASSUME Init PROVE HeapInvariant
  OBVIOUS
<1>1. Live = {} /\ InHand = {} /\ Blocks = {}
  BY AddrInt DEF Init, Live, InHand, Blocks, NULL
<1>2. TypeOK
  BY AddrInt, HeapAssumption DEF Init, TypeOK, NoCall, Operations, NULL, Addr
<1>3. StackAbove /\ Disjoint
  BY <1>1, HeapAssumption DEF Init, StackAbove, Disjoint, Tiled
<1>4. NoSharedBlock /\ ListSound /\ Roomy
  BY <1>1, HeapAssumption
     DEF Init, NoSharedBlock, ListSound, Threaded, LeastAbove, Roomy, NULL
<1>5. CursorsSound /\ CallSound
  BY DEF Init, CursorsSound, CallSound
<1> QED
  BY <1>2, <1>3, <1>4, <1>5 DEF HeapInvariant

\* Rounding up loses no byte and does not wrap.
LEMMA RoundUpSound ==
  ASSUME NEW n \in Nat, n < Wrap, ~Refused(n)
  PROVE  /\ RoundUp(n) \in Nat
         /\ n <= 4 * RoundUp(n)
         /\ 4 * RoundUp(n) < Wrap - 8
<1>1. n + 3 \in 0 .. Wrap - 1
  BY HeapAssumption DEF Refused
<1>2. (n + 3) % Wrap = n + 3
  BY <1>1, HeapAssumption
<1> QED
  BY <1>1, <1>2, HeapAssumption DEF RoundUp, Refused

\* A call that begins to look through the free list disturbs nothing (runtime.c:49-51).
LEMMA EnterTakeFreeInvariant ==
  ASSUME HeapInvariant, pc = "idle",
         NEW op \in Operations \ {"free"}, NEW p \in Addr, NEW n \in Nat,
         n < Wrap, ~Refused(n % Wrap), EnterTakeFree(op, p, n),
         op = "realloc" => p \in Live /\ 4 * SizeOf(Header(p)) < n
  PROVE  HeapInvariant' /\ Kept
<1>1. n % Wrap = n /\ n > 0
  BY HeapAssumption DEF Refused
<1>2. RoundUp(n) \in Nat /\ n <= 4 * RoundUp(n) /\ 4 * RoundUp(n) < Wrap - 8
  BY <1>1, RoundUpSound
<1>3. Blocks' = Blocks /\ InHand' = {} /\ InHand = {} /\ Live' = Live
  BY DEF EnterTakeFree, Blocks, InHand, Live, heapVars
<1>4. TypeOK'
  BY <1>1, <1>2, AddrInt, HeapAssumption, SMTT(30)
     DEF EnterTakeFree, HeapInvariant, TypeOK, heapVars, NULL, Addr
<1>5. StackAbove' /\ Disjoint' /\ NoSharedBlock' /\ ListSound' /\ Roomy'
  BY <1>3 DEF EnterTakeFree, HeapInvariant, StackAbove, Disjoint, NoSharedBlock,
              ListSound, Roomy, heapVars, Tiled, Threaded, SizeOf
<1>6. CursorsSound'
  <2>1. LeastAbove(chain, NULL, freeList)
    BY DEF HeapInvariant, ListSound, Threaded
  <2>2. \A b \in chain : ~(b <= NULL)
    BY Facts, AddrInt DEF NULL, Addr
  <2> QED
    BY <2>1, <2>2 DEF EnterTakeFree, CursorsSound, heapVars
<1>7. CallSound'
  BY <1>1, <1>2, <1>3 DEF EnterTakeFree, CallSound, heapVars, SizeOf, Header
<1>8. Kept
  BY <1>3 DEF EnterTakeFree, Kept, heapVars
<1> QED
  BY <1>4, <1>5, <1>6, <1>7, <1>8 DEF HeapInvariant

\* A cursor that rests on a block rests on a free one.
LEMMA CursorFree ==
  ASSUME HeapInvariant
  PROVE  /\ pc = "take" /\ block # NULL => block \in chain /\ previous < block
         /\ pc \in {"take", "seek"} =>
              previous \in chain \union {NULL} /\ previous \in Addr
         /\ pc = "seek" => next \in chain \union {NULL}
  BY AddrInt, HeapAssumption DEF HeapInvariant, CursorsSound, LeastAbove, TypeOK, Addr, NULL

\* Passing a block that is too small keeps the walk on the list (runtime.c:52, 71-72).
LEMMA TakeAdvanceInvariant ==
  ASSUME HeapInvariant, TakeAdvance
  PROVE  HeapInvariant' /\ Kept
<1>1. block \in chain /\ previous < block /\ mem[block] < size
  BY CursorFree, AddrInt, HeapAssumption
     DEF TakeAdvance, Fits, SizeOf, HeapInvariant, TypeOK
<1>2. block + 1 \in Addr /\ mem[block + 1] \in chain \union {NULL}
      /\ LeastAbove(chain, block, mem[block + 1])
  <2>1. LeastAbove(chain, block, mem[block + 1])
    BY <1>1 DEF HeapInvariant, ListSound, Threaded
  <2> QED
    BY <1>1, <2>1, Facts, HeadersApart DEF LeastAbove
<1>3. Blocks' = Blocks /\ InHand' = {} /\ InHand = {} /\ Live' = Live
  BY DEF TakeAdvance, Blocks, InHand, Live, heapVars
<1>4. TypeOK'
  BY <1>1, <1>2, NullAddr DEF TakeAdvance, HeapInvariant, TypeOK, heapVars, NextOf
<1>5. StackAbove' /\ Disjoint' /\ NoSharedBlock' /\ ListSound' /\ Roomy'
  BY <1>3 DEF TakeAdvance, HeapInvariant, StackAbove, Disjoint, NoSharedBlock,
              ListSound, Roomy, heapVars, Tiled, Threaded, SizeOf
<1>6. CursorsSound'
  <2>1. ASSUME NEW b \in chain, b <= block
        PROVE  mem[b] < size
    <3>1. b <= previous \/ b = block
      BY <1>1, <2>1, Facts, AddrInt DEF HeapInvariant, CursorsSound, LeastAbove, TakeAdvance, TypeOK
    <3> QED
      BY <3>1, <1>1, <2>1 DEF HeapInvariant, CursorsSound, TakeAdvance, SizeOf
  <2> QED
    BY <1>1, <1>2, <2>1 DEF TakeAdvance, CursorsSound, heapVars, NextOf, SizeOf
<1>7. CallSound'
  BY <1>3 DEF TakeAdvance, HeapInvariant, CallSound, heapVars, SizeOf, Header
<1>8. Kept
  BY <1>3 DEF TakeAdvance, Kept, heapVars
<1> QED
  BY <1>4, <1>5, <1>6, <1>7, <1>8 DEF HeapInvariant

\* While take_free walks the list, the program's blocks are not free, and
\* their sizes are what Roomy and CallSound are about.
LEMMA TakeFacts ==
  ASSUME HeapInvariant, pc = "take"
  PROVE  /\ InHand = {}
         /\ \A p \in Live : Header(p) \in Blocks \ chain
         /\ size \in Nat /\ size >= 1
         /\ block # NULL => /\ block \in chain /\ previous < block
                            /\ LeastAbove(chain, previous, block)
         /\ previous \in chain \union {NULL}
<1>1. size \in Nat /\ req.bytes \in Nat /\ 0 < req.bytes /\ req.bytes <= 4 * size
  BY DEF HeapInvariant, TypeOK, CallSound
<1>2. LeastAbove(chain, previous, block)
  BY DEF HeapInvariant, CursorsSound
<1> QED
  BY <1>1, <1>2, CursorFree, Facts DEF InHand, HeapInvariant, NoSharedBlock

\* Splitting a free block: the rest is tiled, linked and owned by no one (runtime.c:53-69).
LEMMA TakeSplitInvariant ==
  ASSUME HeapInvariant, TakeSplit
  PROVE  HeapInvariant' /\ Split(block, Rest)
<1> DEFINE r == block + HeaderWords + size
<1>1. pc = "take" /\ block # NULL /\ mem[block] - size >= HeaderWords + 1
  BY DEF TakeSplit, Fits, Splittable, SizeOf
<1>2. /\ block \in chain /\ previous < block
      /\ LeastAbove(chain, previous, block)
      /\ previous \in chain \union {NULL}
      /\ size \in Nat /\ size >= 1
      /\ InHand = {} /\ \A p \in Live : Header(p) \in Blocks \ chain
  BY <1>1, TakeFacts
<1>3. /\ mem \in Memory /\ heapEnd \in Addr /\ Blocks \in SUBSET Addr
      /\ Tiled(mem, Blocks, heapEnd) /\ chain \subseteq Blocks /\ block \in Blocks
      /\ chain \in SUBSET (Addr \ {NULL}) /\ freeList \in Addr
  BY <1>2, Facts DEF HeapInvariant, TypeOK
<1>4. mem[block] \in Nat /\ block \in Nat /\ r \in Nat
      /\ block + HeaderWords + mem[block] <= heapEnd
  BY <1>2, <1>3, AddrInt DEF Memory, Tiled, HeaderWords
<1>5. {block, block + 1, r, r + 1} \subseteq block .. block + HeaderWords + mem[block] - 1
  BY <1>1, <1>2, <1>4 DEF HeaderWords
<1>6. \A d \in Blocks \ {block} :
        d \notin {block, block + 1, r, r + 1} /\ d + 1 \notin {block, block + 1, r, r + 1}
  BY <1>3, <1>5, Interior
<1>7. r \in Addr /\ r + 1 \in Addr /\ block + 1 \in Addr
  <2>1. \A a \in block .. block + HeaderWords + mem[block] - 1 : a \in Addr
    BY <1>3, <1>4, HeapAssumption DEF Addr, HeaderWords
  <2> QED
    BY <2>1, <1>5
<1>8. r \notin Blocks
  BY <1>2, <1>4, <1>6 DEF HeaderWords
<1>9. \A d \in Blocks : d + 1 \in Addr /\ (previous # NULL => d # previous + 1)
  BY <1>2, <1>3, HeadersApart
<1> DEFINE split == [mem EXCEPT ![r] = mem[block] - size - HeaderWords,
                                ![r + 1] = mem[block + 1],
                                ![block] = size,
                                ![block + 1] = NULL]
           n == IF previous # NULL THEN [split EXCEPT ![previous + 1] = r] ELSE split
<1>10. mem' = n /\ freeList' = IF previous # NULL THEN freeList ELSE r
  BY DEF TakeSplit, Relink, Rest, SizeOf, NextOf
<1>11. split \in Memory
  BY <1>1, <1>2, <1>3, <1>4, <1>7, NullAddr, AddrInt DEF Memory, HeaderWords
<1>12. n \in Memory
  BY <1>4, <1>9, <1>11 DEF Memory
<1>13. /\ split[block] = size /\ split[r] = mem[block] - size - HeaderWords
       /\ split[r + 1] = mem[block + 1]
       /\ \A d \in Blocks \ {block} : split[d] = mem[d] /\ split[d + 1] = mem[d + 1]
  BY <1>2, <1>3, <1>4, <1>6, <1>7, <1>9 DEF Memory, HeaderWords
<1>14. previous # NULL => previous \in Blocks \ {block} /\ previous + 1 \in Addr
  BY <1>2, <1>3, <1>9, AddrInt
<1>15. previous # NULL => previous + 1 \notin {block, block + 1, r, r + 1}
  BY <1>6, <1>14
<1>16. /\ n[block] = size /\ n[r] = mem[block] - size - HeaderWords
       /\ n[r + 1] = mem[block + 1]
       /\ \A d \in Blocks \ {block} : n[d] = mem[d]
       /\ \A d \in chain \ {previous, block} : n[d + 1] = mem[d + 1]
       /\ previous # NULL => n[previous + 1] = r
  <2>1. CASE previous = NULL
    BY <2>1, <1>3, <1>13
  <2>2. CASE previous # NULL
    <3>0. previous \in Int /\ \A d \in Blocks : d \in Int
      BY <2>2, <1>3, AddrInt, <1>14
    <3>1. \A d \in Blocks \ {previous} : d + 1 # previous + 1
      BY <3>0
    <3>2. split \in [Addr -> Nat]
      BY <1>11 DEF Memory
    <3> HIDE DEF split
    <3>3. \A a \in Addr \ {previous + 1} : n[a] = split[a]
      BY <2>2, <3>2
    <3>4. n[previous + 1] = r
      BY <2>2, <3>2, <1>14
    <3>5. \A d \in Blocks : d \in Addr /\ d # previous + 1
      BY <2>2, <1>3, <1>9
    <3> HIDE DEF n, r
    <3>6. n[block] = split[block] /\ n[r] = split[r] /\ n[r + 1] = split[r + 1]
      BY <2>2, <3>3, <1>3, <1>7, <1>15
    <3>7. \A d \in Blocks \ {block} : n[d] = mem[d]
      BY <3>3, <3>5, <1>13
    <3>8. \A d \in chain \ {previous, block} : n[d + 1] = mem[d + 1]
      BY <3>1, <3>3, <1>3, <1>9, <1>13
    <3> QED
      BY <3>4, <3>6, <3>7, <3>8, <1>13
  <2> QED
    BY <2>1, <2>2
<1> HIDE DEF n, split
<1>17. Tiled(n, Blocks \union {r}, heapEnd) /\ \A c \in Blocks : block < c => r < c
  <2>1. \A d \in Blocks \ {block} : n[d] = mem[d]
    BY <1>16
  <2> QED
    BY <2>1, <1>1, <1>2, <1>3, <1>4, <1>12, <1>16, SplitTiled
<1> HIDE DEF r
<1>18. Threaded(n, (chain \ {block}) \union {r}, IF previous # NULL THEN freeList ELSE r)
  <2>1. r \in Addr \ chain /\ block < r
    BY <1>2, <1>3, <1>4, <1>7, <1>8 DEF r, HeaderWords
  <2>2. \A c \in chain : block < c => r < c
    BY <1>3, <1>17
  <2>3. Threaded(mem, chain, freeList)
    BY DEF HeapInvariant, ListSound
  <2> QED
    BY <2>1, <2>2, <2>3, <1>2, <1>3, <1>12, <1>16, ReplaceThreaded, SMTT(30)
<1>19. /\ chain' = (chain \ {block}) \union {r}
       /\ result' = block + HeaderWords /\ pc' = "return"
       /\ want' = want /\ heapEnd' = heapEnd /\ sp' = sp /\ size' = size /\ req' = req
       /\ UNCHANGED <<previous, block, next>>
  BY DEF TakeSplit, Rest, Payload, r
<1>20. InHand' = {block} /\ Live' = Live
  BY <1>4, <1>19 DEF InHand, Live, Header, HeaderWords, NULL
<1>21. Blocks' = Blocks \union {r}
  BY <1>2, <1>3, <1>19, <1>20 DEF Blocks
<1>22. result' \in Addr
  BY <1>2, <1>4, <1>7, <1>19, HeapAssumption DEF r, HeaderWords, Addr
<1>23. TypeOK'
  BY <1>3, <1>7, <1>10, <1>12, <1>19, <1>22 DEF HeapInvariant, TypeOK, Memory
<1>24. StackAbove' /\ Disjoint'
  BY <1>10, <1>17, <1>19, <1>21 DEF HeapInvariant, StackAbove, Disjoint
<1>25. ListSound'
  BY <1>10, <1>18, <1>19 DEF ListSound
<1>26. NoSharedBlock'
  BY <1>2, <1>3, <1>8, <1>19, <1>20 DEF HeapInvariant, NoSharedBlock
<1>27. \A p \in Live : SizeOf(Header(p))' = SizeOf(Header(p))
  BY <1>2, <1>10, <1>16 DEF SizeOf, Header
<1>28. Roomy' /\ CursorsSound'
  BY <1>19, <1>20, <1>27 DEF HeapInvariant, Roomy, CursorsSound
<1>29. CallSound'
  <2>1. SizeOf(Header(result))' = size /\ HeaderWords <= result'
    BY <1>4, <1>10, <1>16, <1>19 DEF SizeOf, Header, HeaderWords
  <2> QED
    BY <2>1, <1>1, <1>2, <1>19, <1>20, <1>27 DEF HeapInvariant, CallSound
<1>30. Split(block, Rest)
  BY <1>2, <1>4, <1>7, <1>8, <1>10, <1>16, <1>19, <1>21 DEF Split, Rest, r, HeaderWords
<1> QED
  BY <1>23, <1>24, <1>25, <1>26, <1>28, <1>29, <1>30 DEF HeapInvariant

\* Taking a free block whole unlinks it and nothing else (runtime.c:64-69).
LEMMA TakeWholeInvariant ==
  ASSUME HeapInvariant, TakeWhole
  PROVE  HeapInvariant' /\ Kept
<1>1. pc = "take" /\ block # NULL /\ mem[block] >= size
  BY DEF TakeWhole, Fits, SizeOf
<1>2. /\ block \in chain /\ previous < block
      /\ LeastAbove(chain, previous, block)
      /\ previous \in chain \union {NULL}
      /\ InHand = {} /\ \A p \in Live : Header(p) \in Blocks \ chain
  BY <1>1, TakeFacts
<1>3. /\ mem \in Memory /\ heapEnd \in Addr /\ Blocks \in SUBSET Addr
      /\ Tiled(mem, Blocks, heapEnd) /\ chain \subseteq Blocks /\ block \in Blocks
      /\ chain \in SUBSET (Addr \ {NULL}) /\ freeList \in Addr
  BY <1>2, Facts DEF HeapInvariant, TypeOK
<1>4. mem[block] \in Nat /\ block \in Nat /\ block + HeaderWords + mem[block] <= heapEnd
  BY <1>2, <1>3, AddrInt DEF Memory, Tiled
<1>5. block + 1 \in Addr /\ block + HeaderWords \in Addr
  BY <1>3, <1>4, HeadersApart, HeapAssumption DEF Tiled, HeaderWords, Addr
<1>6. \A d \in Blocks : d + 1 \in Addr /\ d # block + 1
                        /\ (previous # NULL => d # previous + 1)
  BY <1>2, <1>3, HeadersApart
<1> DEFINE k == mem[block + 1]
           cut == [mem EXCEPT ![block + 1] = NULL]
           n == IF previous # NULL THEN [cut EXCEPT ![previous + 1] = k] ELSE cut
<1>7. mem' = n /\ freeList' = IF previous # NULL THEN freeList ELSE k
  BY DEF TakeWhole, Relink, NextOf
<1>8. LeastAbove(chain, block, k)
  BY <1>2 DEF HeapInvariant, ListSound, Threaded
<1>9. k \in Addr
  BY <1>3, <1>8, NullAddr DEF LeastAbove
<1>10. previous # NULL => previous \in Blocks /\ previous + 1 \in Addr
  BY <1>2, <1>3, <1>6
<1>11. n \in Memory
  BY <1>3, <1>5, <1>9, <1>10, NullAddr, AddrInt DEF Memory
<1>12. \A d \in Blocks : n[d] = mem[d]
  BY <1>3, <1>6 DEF Memory
<1>13. \A d \in Blocks : d \in Int
  BY <1>3, AddrInt
<1>14. \A d \in chain \ {previous, block} : n[d + 1] = mem[d + 1]
  <2> TAKE d \in chain \ {previous, block}
  <2>1. d + 1 \in Addr /\ d + 1 # block + 1
    BY <1>3, <1>6, <1>13
  <2>2. previous # NULL => d + 1 # previous + 1
    BY <1>3, <1>10, <1>13
  <2> QED
    BY <2>1, <2>2, <1>3 DEF Memory
<1>15. previous # NULL => n[previous + 1] = k
  BY <1>3, <1>10 DEF Memory
<1> HIDE DEF n, cut
<1>16. Threaded(n, chain \ {block}, IF previous # NULL THEN freeList ELSE k)
  BY <1>2, <1>3, <1>11, <1>14, <1>15, RemoveThreaded DEF HeapInvariant, ListSound
<1>17. Tiled(n, Blocks, heapEnd)
  BY <1>3, <1>11, <1>12, AddrInt, TiledAgree, HeapAssumption DEF Addr
<1>18. /\ chain' = chain \ {block}
       /\ result' = block + HeaderWords /\ pc' = "return"
       /\ want' = want /\ heapEnd' = heapEnd /\ sp' = sp /\ size' = size /\ req' = req
       /\ UNCHANGED <<previous, block, next>>
  BY DEF TakeWhole, Payload
<1>19. InHand' = {block} /\ Live' = Live
  BY <1>4, <1>18 DEF InHand, Live, Header, HeaderWords, NULL
<1>20. Blocks' = Blocks
  BY <1>2, <1>3, <1>18, <1>19 DEF Blocks
<1>21. TypeOK'
  BY <1>3, <1>5, <1>7, <1>9, <1>11, <1>18 DEF HeapInvariant, TypeOK, Memory
<1>22. StackAbove' /\ Disjoint'
  BY <1>7, <1>17, <1>18, <1>20 DEF HeapInvariant, StackAbove, Disjoint
<1>23. ListSound'
  BY <1>7, <1>16, <1>18 DEF ListSound
<1>24. NoSharedBlock'
  BY <1>2, <1>3, <1>18, <1>19 DEF HeapInvariant, NoSharedBlock
<1>25. \A p \in Live : SizeOf(Header(p))' = SizeOf(Header(p))
  BY <1>2, <1>7, <1>12 DEF SizeOf, Header
<1>26. Roomy' /\ CursorsSound'
  BY <1>18, <1>19, <1>25 DEF HeapInvariant, Roomy, CursorsSound
<1>27. CallSound'
  <2>1. SizeOf(Header(result))' = mem[block] /\ HeaderWords <= result'
    BY <1>3, <1>4, <1>7, <1>12, <1>18 DEF SizeOf, Header, HeaderWords
  <2> QED
    BY <2>1, <1>1, <1>18, <1>19, <1>25 DEF HeapInvariant, CallSound
<1>28. Kept
  BY <1>7, <1>12, <1>18, <1>20 DEF Kept
<1> QED
  BY <1>21, <1>22, <1>23, <1>24, <1>26, <1>27, <1>28 DEF HeapInvariant

\* The words a new block takes do not wrap (runtime.c:79-83).
LEMMA RequiredExact ==
  ASSUME HeapInvariant, pc = "take"
  PROVE  Required = HeaderWords + size
<1>1. HeaderWords + size \in 0 .. (Wrap \div 4) - 1
  <2>1. 4 * size < Wrap - 8 /\ size \in Nat
    BY DEF HeapInvariant, CallSound, TypeOK
  <2>2. Wrap \in Nat /\ Wrap % 4 = 0
    BY HeapAssumption
  <2> QED
    BY <2>1, <2>2 DEF HeaderWords
<1>2. \A w \in Nat : \A x \in 0 .. w - 1 : x % w = x
  OBVIOUS
<1>3. Wrap \div 4 \in Nat
  BY HeapAssumption
<1> QED
  BY <1>1, <1>2, <1>3 DEF Required

\* Growing the heap: the new block ends below the stack pointer (runtime.c:85-94).
LEMMA BumpInvariant ==
  ASSUME HeapInvariant, Bump
  PROVE  HeapInvariant' /\ (Kept \/ Grown)
<1> DEFINE e == FirstEnd
<1>1. pc = "take" /\ size \in Nat /\ size >= 1
  BY TakeFacts DEF Bump
<1>2. /\ InHand = {} /\ \A p \in Live : Header(p) \in Blocks \ chain
      /\ mem \in Memory /\ heapEnd \in Addr /\ Blocks \in SUBSET Addr
      /\ Tiled(mem, Blocks, heapEnd) /\ chain \subseteq Blocks
  BY <1>1, Facts, TakeFacts
<1>3. e \in Addr /\ HeapStart <= e /\ e <= sp /\ heapEnd <= e /\ sp \in Addr /\ e \in Nat
  BY <1>2, HeapAssumption, AddrInt
     DEF FirstEnd, HeapInvariant, StackAbove, Disjoint, TypeOK, Addr
<1>4. \A b \in Blocks : b + HeaderWords + mem[b] <= e
  BY <1>2, <1>3, AddrInt, HeapAssumption DEF Tiled, HeaderWords, Memory
<1>5. Tiled(mem, Blocks, e)
  BY <1>2, <1>4 DEF Tiled
<1>6. UNCHANGED <<freeList, sp, req, size, previous, block, next, want, chain>>
      /\ pc' = "return" /\ Live' = Live
  BY DEF Bump, Live
<1> HIDE DEF e
<1>7. CASE heapEnd' = e /\ mem' = mem /\ result' = NULL
  <2>1. Blocks' = Blocks /\ InHand' = {}
    BY <1>2, <1>6, <1>7 DEF Blocks, InHand
  <2>2. TypeOK'
    BY <1>3, <1>6, <1>7, NullAddr DEF HeapInvariant, TypeOK
  <2>3. StackAbove' /\ Disjoint'
    BY <1>3, <1>5, <1>6, <1>7, <2>1 DEF HeapInvariant, StackAbove, Disjoint
  <2>4. NoSharedBlock' /\ ListSound' /\ Roomy' /\ CursorsSound' /\ CallSound'
    BY <1>1, <1>6, <1>7, <2>1
       DEF HeapInvariant, NoSharedBlock, ListSound, Roomy, CursorsSound, CallSound,
           SizeOf, Header
  <2>5. Kept
    BY <1>6, <1>7, <2>1 DEF Kept, e, FirstEnd
  <2> QED
    BY <2>2, <2>3, <2>4, <2>5 DEF HeapInvariant
<1>8. CASE /\ Remaining(e) >= Required /\ heapEnd' = e + Required
           /\ mem' = [mem EXCEPT ![e] = size, ![e + 1] = NULL] /\ result' = Payload(e)
  <2>1. Required = HeaderWords + size
    BY <1>1, RequiredExact
  <2>2. sp - e >= HeaderWords + size
    BY <1>1, <1>3, <1>8, <2>1, AddrInt DEF Remaining, HeaderWords
  <2>3. e + HeaderWords + size <= sp /\ heapEnd' = e + HeaderWords + size
    BY <1>1, <1>3, <1>8, <2>1, <2>2, AddrInt DEF HeaderWords
  <2>4. e + 1 \in Addr /\ e + HeaderWords \in Addr
    BY <1>1, <1>3, <2>3, HeapAssumption DEF Addr, HeaderWords
  <2>5. \A b \in Blocks : b < e /\ b + 1 < e /\ mem[b] \in Nat /\ b \in Addr /\ b \in Int
    BY <1>2, <1>3, <1>4, AddrInt DEF Tiled, HeaderWords, Memory
  <2>6. mem' \in Memory /\ mem'[e] = size
    BY <1>1, <1>2, <1>3, <1>8, <2>4, NullAddr, AddrInt DEF Memory
  <2>7. \A b \in Blocks : mem'[b] = mem[b] /\ mem'[b + 1] = mem[b + 1]
    <3> TAKE b \in Blocks
    <3>1. b + 1 \in Addr
      BY <1>2, HeadersApart
    <3>2. b # e /\ b # e + 1 /\ b + 1 # e /\ b + 1 # e + 1
      BY <1>3, <2>5
    <3> QED
      BY <1>2, <1>8, <2>5, <3>1, <3>2 DEF Memory
  <2>8. InHand' = {e}
    BY <1>3, <1>6, <1>8 DEF InHand, Payload, Header, HeaderWords, NULL
  <2>9. Blocks' = Blocks \union {e} /\ e \notin Blocks
    BY <1>2, <1>3, <1>6, <2>5, <2>8 DEF Blocks
  <2>10. Tiled(mem', Blocks \union {e}, e + HeaderWords + size)
    <3>1. \A b \in Blocks : HeapStart <= b /\ mem[b] >= 1 /\ b + HeaderWords + mem[b] <= e
      BY <1>2, <1>4 DEF Tiled
    <3>2. \A b, c \in Blocks : b < c => b + HeaderWords + mem[b] <= c
      BY <1>2 DEF Tiled
    <3>3. \A b \in Blocks : b + HeaderWords + mem[b] <= e + HeaderWords + size
      BY <1>1, <1>3, <2>5, <3>1 DEF HeaderWords
    <3>4. \A b \in Blocks : ~(e < b)
      BY <1>3, <2>5
    <3>5. ~(e < e) /\ HeapStart <= e /\ e + HeaderWords + size <= e + HeaderWords + size
      BY <1>1, <1>3 DEF HeaderWords
    <3> QED
      BY <1>1, <2>6, <2>7, <3>1, <3>2, <3>3, <3>4, <3>5 DEF Tiled
  <2>11. TypeOK'
    BY <1>1, <1>3, <1>6, <1>8, <2>3, <2>4, <2>6
       DEF HeapInvariant, TypeOK, Memory, Payload, HeaderWords
  <2>12. StackAbove' /\ Disjoint'
    BY <1>1, <1>3, <1>6, <2>3, <2>9, <2>10, HeapAssumption
       DEF HeapInvariant, StackAbove, Disjoint, HeaderWords
  <2>13. ListSound'
    <3>1. Threaded(mem, chain, freeList)
      BY DEF HeapInvariant, ListSound
    <3> QED
      BY <1>2, <1>6, <2>7, <3>1 DEF ListSound, Threaded
  <2>14. \A p \in Live : SizeOf(Header(p))' = SizeOf(Header(p))
    BY <1>2, <2>7 DEF SizeOf, Header
  <2>15. NoSharedBlock' /\ Roomy' /\ CursorsSound'
    BY <1>2, <1>6, <2>8, <2>9, <2>14 DEF HeapInvariant, NoSharedBlock, Roomy, CursorsSound
  <2>16. CallSound'
    <3>1. SizeOf(Header(result))' = size /\ HeaderWords <= result'
      BY <1>3, <1>8, <2>6 DEF SizeOf, Header, Payload, HeaderWords
    <3> QED
      BY <3>1, <1>1, <1>6, <2>14 DEF HeapInvariant, CallSound
  <2>17. Grown
    BY <1>6, <2>3, <2>6, <2>7, <2>9 DEF Grown, e
  <2> QED
    BY <2>11, <2>12, <2>13, <2>15, <2>16, <2>17 DEF HeapInvariant
<1> QED
  BY <1>7, <1>8 DEF Bump, e

\* What a call that found room holds in hand when it returns.
LEMMA ReturnFacts ==
  ASSUME HeapInvariant, pc = "return", result # NULL
  PROVE  /\ result \in Addr /\ Header(result) \in Blocks /\ InHand = {Header(result)}
         /\ want[result] = 0 /\ result \notin Live
         /\ req.bytes \in Nat /\ req.bytes > 0 /\ req.bytes < Wrap
         /\ req.bytes <= 4 * mem[Header(result)]
         /\ \A p \in Live : Header(p) # Header(result)
         /\ Header(result) \notin chain
<1>1. InHand = {Header(result)} /\ result \in Addr /\ Header(result) \in Blocks
  BY Facts DEF InHand, HeapInvariant, TypeOK
<1>2. Header(result) \notin chain /\ \A p \in Live : Header(p) # Header(result)
  BY <1>1 DEF HeapInvariant, NoSharedBlock
<1>3. want[result] = 0 /\ result \notin Live
  BY <1>1, <1>2 DEF Live, HeapInvariant, TypeOK
<1>4. mem[Header(result)] \in Nat
  BY <1>1, Facts DEF Memory
<1>5. /\ req.bytes \in Nat /\ req.bytes > 0 /\ req.bytes < Wrap
      /\ req.bytes <= 4 * mem[Header(result)]
  BY <1>4 DEF HeapInvariant, TypeOK, CallSound, SizeOf
<1> QED
  BY <1>1, <1>2, <1>3, <1>5

\* The program becomes the owner of the block in hand, whose payload the
\* call may have written.
LEMMA GrantInvariant ==
  ASSUME HeapInvariant, pc = "return", result # NULL,
         want' = [want EXCEPT ![result] = req.bytes], Return,
         UNCHANGED <<freeList, heapEnd, sp, chain>>,
         mem' \in Memory,
         \A a \in Addr : a \notin result .. result + mem[Header(result)] - 1
                           => mem'[a] = mem[a]
  PROVE  HeapInvariant' /\ Kept
<1> DEFINE b == Header(result)
<1>1. /\ result \in Addr /\ b \in Blocks /\ InHand = {b}
      /\ want[result] = 0 /\ result \notin Live
      /\ req.bytes \in Nat /\ req.bytes > 0 /\ req.bytes <= 4 * mem[b]
      /\ b \notin chain
  BY ReturnFacts
<1>2. /\ mem \in Memory /\ heapEnd \in Addr /\ Blocks \in SUBSET Addr
      /\ Tiled(mem, Blocks, heapEnd) /\ chain \in SUBSET Blocks /\ freeList \in Addr
      /\ want \in [Addr -> Nat] /\ \A p \in Live : Header(p) \in Blocks
  BY Facts DEF HeapInvariant, TypeOK
<1>3. b + HeaderWords = result /\ mem[b] \in Nat
  BY <1>1, <1>2, AddrInt DEF Header, HeaderWords, Memory
<1>4. /\ \A d \in Blocks : mem'[d] = mem[d] /\ mem'[d + 1] = mem[d + 1]
      /\ Tiled(mem', Blocks, heapEnd)
      /\ Threaded(mem', chain, freeList)
  BY <1>1, <1>2, <1>3, PayloadWrite DEF HeapInvariant, ListSound
<1>5. Live' = Live \union {result} /\ InHand' = {}
  BY <1>1, <1>2 DEF Live, Return, InHand
<1>6. Blocks' = Blocks
  BY <1>1, <1>5 DEF Blocks
<1>7. TypeOK'
  BY <1>1, <1>2, NullAddr
     DEF HeapInvariant, TypeOK, Memory, Return, NoCall, Operations
<1>8. StackAbove' /\ Disjoint' /\ ListSound'
  BY <1>4, <1>6 DEF HeapInvariant, StackAbove, Disjoint, ListSound
<1>9. NoSharedBlock'
  BY <1>1, <1>5 DEF HeapInvariant, NoSharedBlock
<1>10. Roomy'
  <2>1. ASSUME NEW p \in Live'
        PROVE  want'[p] <= 4 * mem'[Header(p)]
    <3>1. CASE p = result
      BY <1>1, <1>2, <1>4, <3>1
    <3>2. CASE p # result
      <4>1. p \in Live /\ want'[p] = want[p] /\ mem'[Header(p)] = mem[Header(p)]
        BY <1>2, <1>4, <1>5, <2>1, <3>2 DEF Live
      <4> QED
        BY <4>1 DEF HeapInvariant, Roomy, SizeOf
    <3> QED
      BY <3>1, <3>2
  <2> QED
    BY <2>1 DEF Roomy, SizeOf, Header
<1>11. CursorsSound' /\ CallSound'
  BY DEF CursorsSound, CallSound, Return
<1>12. Kept
  BY <1>4, <1>6 DEF Kept
<1> QED
  BY <1>7, <1>8, <1>9, <1>10, <1>11, <1>12 DEF HeapInvariant

\* A call that ends with nothing in hand leaves the blocks as they were.
LEMMA NothingGrantedInvariant ==
  ASSUME HeapInvariant, pc = "return", result = NULL, Return,
         UNCHANGED <<heapVars, sp, want, chain>>
  PROVE  HeapInvariant' /\ Kept
<1>1. InHand = {} /\ InHand' = {} /\ Live' = Live /\ Blocks' = Blocks
  BY DEF InHand, Return, Live, Blocks
<1>2. TypeOK'
  BY NullAddr DEF HeapInvariant, TypeOK, Return, NoCall, Operations, heapVars
<1>3. /\ StackAbove' /\ Disjoint' /\ NoSharedBlock' /\ ListSound' /\ Roomy'
      /\ CursorsSound' /\ CallSound'
  BY <1>1 DEF HeapInvariant, StackAbove, Disjoint, NoSharedBlock, ListSound, Roomy,
              CursorsSound, CallSound, SizeOf, Header, heapVars, Return
<1>4. Kept
  BY <1>1 DEF Kept, heapVars
<1> QED
  BY <1>2, <1>3, <1>4 DEF HeapInvariant

\* What each entry point returns to the program, null or a block (runtime.c:84, 94, 130-131, 145).
LEMMA ReturnInvariant ==
  ASSUME HeapInvariant, MallocReturn \/ CallocReturn \/ ReallocFailed
  PROVE  HeapInvariant' /\ Kept
<1>1. CASE ReallocFailed
  BY <1>1, NothingGrantedInvariant DEF ReallocFailed
<1>2. CASE MallocReturn
  BY <1>2, Facts, NothingGrantedInvariant, GrantInvariant DEF MallocReturn, heapVars
<1>3. CASE CallocReturn
  <2>1. CASE result = NULL
    BY <1>3, <2>1, NothingGrantedInvariant DEF CallocReturn, heapVars
  <2>2. CASE result # NULL
    <3> DEFINE words == (req.bytes % Wrap) \div 4
    <3>1. /\ result \in Addr /\ req.bytes \in Nat /\ req.bytes < Wrap
          /\ req.bytes <= 4 * mem[Header(result)] /\ mem[Header(result)] \in Nat
      BY <1>3, <2>2, ReturnFacts, Facts DEF CallocReturn, Memory
    <3>2. req.bytes % Wrap = req.bytes
      BY <3>1, HeapAssumption
    <3>3. words \in Int /\ words <= mem[Header(result)]
      BY <3>1, <3>2
    <3> HIDE DEF words
    <3>4. mem' = [a \in Addr |-> IF a \in result .. result + words - 1 THEN 0 ELSE mem[a]]
      BY <1>3, <2>2 DEF CallocReturn, words
    <3>5. mem' \in Memory
      BY <3>4, Facts DEF Memory
    <3>6. \A a \in Addr : a \notin result .. result + mem[Header(result)] - 1
                             => mem'[a] = mem[a]
      BY <3>1, <3>3, <3>4, AddrInt
    <3> QED
      BY <1>3, <2>2, <3>5, <3>6, GrantInvariant DEF CallocReturn
  <2> QED
    BY <2>1, <2>2
<1> QED
  BY <1>1, <1>2, <1>3

\* A block the program owns has a proper header, and is not free.
LEMMA LiveFacts ==
  ASSUME HeapInvariant, NEW p \in Live
  PROVE  /\ p \in Addr /\ Header(p) \in Addr \ {NULL} /\ Header(p) > 0
         /\ Header(p) \notin chain
         /\ Header(p) + HeaderWords = p
<1>1. p \in Addr /\ p \in Int
  BY AddrInt DEF Live
<1>2. Header(p) \in Addr \ {NULL}
  BY Facts
<1>3. Header(p) > 0
  <2> DEFINE h == Header(p)
  <2> HIDE DEF h
  <2>1. h \in Nat /\ h # 0
    BY <1>2, AddrInt DEF NULL, h
  <2> QED
    BY <2>1 DEF h
<1>4. Header(p) \notin chain
  BY DEF HeapInvariant, NoSharedBlock
<1>5. Header(p) + HeaderWords = p
  BY <1>1 DEF Header, HeaderWords
<1> QED
  BY <1>1, <1>2, <1>3, <1>4, <1>5

\* A block handed to free becomes the block in hand of the walk (runtime.c:97-104).
LEMMA ReleaseInvariant ==
  ASSUME HeapInvariant, pc = "idle", NEW p \in Live, Release(p, 0)
  PROVE  HeapInvariant' /\ Kept
<1>1. /\ mem \in Memory /\ chain \in SUBSET Blocks /\ freeList \in Addr
      /\ want \in [Addr -> Nat] /\ p \in Addr
      /\ Header(p) \in Addr \ {NULL} /\ Header(p) > 0
      /\ Header(p) \notin chain /\ InHand = {}
  BY Facts, LiveFacts DEF HeapInvariant, TypeOK, InHand
<1>2. Live' = Live \ {p} /\ InHand' = {Header(p)}
  BY <1>1 DEF Release, Live, InHand
<1>3. \A q \in Live : q # p => Header(q) # Header(p)
  BY AddrInt DEF Live, Header, HeaderWords
<1>4. Blocks' = Blocks
  BY <1>1, <1>2, <1>3 DEF Blocks, Release
<1>5. TypeOK'
  BY <1>1, NullAddr DEF HeapInvariant, TypeOK, Release, heapVars, Operations
<1>6. StackAbove' /\ Disjoint' /\ ListSound'
  BY <1>4 DEF HeapInvariant, StackAbove, Disjoint, ListSound, Release, heapVars
<1>7. NoSharedBlock'
  BY <1>1, <1>2, <1>3 DEF HeapInvariant, NoSharedBlock, Release
<1>8. Roomy'
  BY <1>1, <1>2 DEF HeapInvariant, Roomy, SizeOf, Header, Release, heapVars
<1>9. CursorsSound' /\ CallSound'
  BY <1>1 DEF HeapInvariant, ListSound, Threaded, CursorsSound, CallSound,
              Release, heapVars, NULL
<1>10. Kept
  BY <1>4 DEF Kept, Release, heapVars
<1> QED
  BY <1>5, <1>6, <1>7, <1>8, <1>9, <1>10 DEF HeapInvariant

\* A moving realloc copies, then frees: both blocks are accounted for between (runtime.c:146-148).
LEMMA ReallocMoveInvariant ==
  ASSUME HeapInvariant, ReallocMove
  PROVE  HeapInvariant' /\ Kept
<1> DEFINE p == req.ptr
           b == Header(result)
           old == mem[Header(p)]
<1>1. pc = "return" /\ result # NULL /\ req.op = "realloc"
  BY DEF ReallocMove
<1>2. /\ result \in Addr /\ b \in Blocks /\ InHand = {b}
      /\ want[result] = 0 /\ result \notin Live
      /\ req.bytes \in Nat /\ req.bytes > 0 /\ req.bytes <= 4 * mem[b]
      /\ b \notin chain /\ \A q \in Live : Header(q) # b
  BY <1>1, ReturnFacts
<1>3. p \in Live /\ 4 * old < req.bytes
  BY <1>1 DEF HeapInvariant, CallSound, SizeOf
<1>4. /\ mem \in Memory /\ heapEnd \in Addr /\ Blocks \in SUBSET Addr
      /\ Tiled(mem, Blocks, heapEnd) /\ chain \in SUBSET Blocks /\ freeList \in Addr
      /\ want \in [Addr -> Nat] /\ Header(p) \in Blocks
      /\ Header(p) \in Addr \ {NULL} /\ Header(p) > 0
  BY <1>3, Facts, LiveFacts DEF HeapInvariant, TypeOK
<1>5. Header(p) \notin chain /\ p \in Addr /\ p # result /\ Header(p) + HeaderWords = p
  BY <1>2, <1>3, LiveFacts
<1>6. /\ b + HeaderWords = result /\ mem[b] \in Nat /\ old \in Nat /\ old < mem[b]
      /\ heapEnd \in Nat
  <2>1. b + HeaderWords = result
    BY <1>2, AddrInt DEF Header, HeaderWords
  <2>2. mem[b] \in Nat /\ old \in Nat /\ heapEnd \in Nat
    BY <1>2, <1>4, AddrInt DEF Memory
  <2> HIDE DEF old, b, p
  <2>3. old < mem[b]
    BY <2>2, <1>2, <1>3
  <2> QED
    BY <2>1, <2>2, <2>3
<1>7. mem' = [a \in Addr |-> IF a \in result .. result + old - 1
                               THEN mem[p + (a - result)] ELSE mem[a]]
  BY DEF ReallocMove, SizeOf
<1>8. mem' \in Memory
  <2>1. p + old <= heapEnd
    BY <1>4, <1>5, <1>6 DEF Tiled
  <2>2. ASSUME NEW a \in Addr, a \in result .. result + old - 1
        PROVE  mem[p + (a - result)] \in Nat
    <3>1. p + (a - result) \in Addr
      <4>1. p \in Nat /\ result \in Nat /\ a \in Nat /\ heapEnd < RamWords /\ RamWords \in Nat
        BY <1>2, <1>4, <1>5, AddrInt, HeapAssumption DEF Addr
      <4> HIDE DEF p, old
      <4>2. a - result \in 0 .. old - 1
        BY <4>1, <1>6, <2>2
      <4> QED
        BY <4>1, <4>2, <1>6, <2>1 DEF Addr
    <3> QED
      BY <1>4, <3>1 DEF Memory
  <2> QED
    BY <1>4, <1>7, <2>2 DEF Memory
<1>9. \A a \in Addr : a \notin b + HeaderWords .. b + HeaderWords + mem[b] - 1
                        => mem'[a] = mem[a]
  BY <1>2, <1>6, <1>7, AddrInt
<1> HIDE DEF b, p, old
<1>10. /\ \A d \in Blocks : mem'[d] = mem[d] /\ mem'[d + 1] = mem[d + 1]
       /\ Tiled(mem', Blocks, heapEnd)
       /\ Threaded(mem', chain, freeList)
  <2>1. Threaded(mem, chain, freeList)
    BY DEF HeapInvariant, ListSound
  <2>2. /\ \A d \in Blocks : mem'[d] = mem[d] /\ mem'[d + 1] = mem[d + 1]
        /\ Tiled(mem', Blocks, heapEnd)
        /\ \A C \in SUBSET Blocks, h \in Addr : Threaded(mem, C, h) => Threaded(mem', C, h)
    BY <1>2, <1>4, <1>8, <1>9, PayloadWrite
  <2> QED
    BY <1>4, <2>1, <2>2
<1>11. /\ want' = [want EXCEPT ![p] = 0, ![result] = req.bytes]
       /\ block' = Header(p) /\ previous' = NULL /\ next' = freeList
       /\ pc' = "seek" /\ result' = NULL
       /\ UNCHANGED <<freeList, heapEnd, sp, req, size, chain>>
  BY DEF ReallocMove, p
<1>12. Live' = (Live \ {p}) \union {result} /\ InHand' = {Header(p)}
  BY <1>2, <1>4, <1>5, <1>11 DEF Live, InHand
<1>13. \A q \in Live : q # p => Header(q) # Header(p)
  BY <1>5, AddrInt DEF Live, Header, HeaderWords
<1>14. Blocks' = Blocks
  BY <1>2, <1>3, <1>11, <1>12, <1>13 DEF Blocks, b
<1>15. TypeOK'
  BY <1>4, <1>5, <1>2, <1>8, <1>11, NullAddr DEF HeapInvariant, TypeOK, Memory
<1>16. StackAbove' /\ Disjoint' /\ ListSound'
  BY <1>10, <1>11, <1>14 DEF HeapInvariant, StackAbove, Disjoint, ListSound
<1>17. NoSharedBlock'
  BY <1>2, <1>3, <1>5, <1>11, <1>12, <1>13 DEF HeapInvariant, NoSharedBlock, b
<1>18. Roomy'
  <2>1. ASSUME NEW q \in Live'
        PROVE  want'[q] <= 4 * mem'[Header(q)]
    <3>1. CASE q = result
      BY <1>2, <1>4, <1>10, <1>11, <3>1 DEF b
    <3>2. CASE q # result
      <4>1. q \in Live /\ q # p
        BY <1>12, <2>1, <3>2
      <4>2. want'[q] = want[q]
        BY <1>2, <1>4, <1>5, <1>11, <3>2, <4>1 DEF Live
      <4>3. mem'[Header(q)] = mem[Header(q)]
        BY <1>10, <4>1, Facts
      <4> QED
        BY <4>1, <4>2, <4>3 DEF HeapInvariant, Roomy, SizeOf
    <3> QED
      BY <3>1, <3>2
  <2> QED
    BY <2>1 DEF Roomy, SizeOf, Header
<1>19. CursorsSound' /\ CallSound'
  <2>1. LeastAbove(chain, NULL, freeList)
    BY DEF HeapInvariant, ListSound, Threaded
  <2> QED
    BY <1>4, <1>11, <2>1 DEF CursorsSound, CallSound, NULL
<1>20. Kept
  BY <1>10, <1>11, <1>14 DEF Kept
<1> QED
  BY <1>15, <1>16, <1>17, <1>18, <1>19, <1>20 DEF HeapInvariant

\* A block that is large enough is returned as it is (runtime.c:143).
LEMMA ReallocInPlaceInvariant ==
  ASSUME HeapInvariant, pc = "idle", NEW p \in Live, NEW n \in Nat, n > 0,
         ReallocInPlace(p, n)
  PROVE  HeapInvariant' /\ Kept
<1>1. Live' = Live /\ InHand' = InHand /\ p \in Addr /\ want \in [Addr -> Nat]
  BY DEF ReallocInPlace, Live, InHand, callVars, HeapInvariant, TypeOK
<1>2. Blocks' = Blocks
  BY <1>1 DEF Blocks, ReallocInPlace
<1>3. TypeOK'
  BY <1>1 DEF HeapInvariant, TypeOK, ReallocInPlace, heapVars, callVars
<1>4. StackAbove' /\ Disjoint' /\ NoSharedBlock' /\ ListSound' /\ CursorsSound' /\ CallSound'
  BY <1>1, <1>2 DEF HeapInvariant, StackAbove, Disjoint, NoSharedBlock, ListSound,
       CursorsSound, CallSound, ReallocInPlace, heapVars, callVars, SizeOf, Header
<1>5. Roomy'
  BY <1>1 DEF HeapInvariant, Roomy, ReallocInPlace, heapVars, SizeOf, Header
<1>6. Kept
  BY <1>2 DEF Kept, ReallocInPlace, heapVars
<1> QED
  BY <1>3, <1>4, <1>5, <1>6 DEF HeapInvariant

\* The walk of free stays below the block being freed (runtime.c:105-108).
LEMMA FreeAdvanceInvariant ==
  ASSUME HeapInvariant, FreeAdvance
  PROVE  HeapInvariant' /\ Kept
<1>1. pc = "seek" /\ next # NULL /\ next < block /\ next \in chain
  BY CursorFree DEF FreeAdvance, Seeking
<1>2. LeastAbove(chain, next, mem[next + 1]) /\ mem[next + 1] \in chain \union {NULL}
  BY <1>1 DEF HeapInvariant, ListSound, Threaded, LeastAbove
<1>3. Live' = Live /\ InHand' = InHand /\ Blocks' = Blocks
  BY DEF FreeAdvance, Live, InHand, Blocks
<1>4. TypeOK'
  BY <1>1, <1>2, NullAddr DEF HeapInvariant, TypeOK, FreeAdvance, heapVars, NextOf
<1>5. StackAbove' /\ Disjoint' /\ NoSharedBlock' /\ ListSound' /\ Roomy' /\ CallSound'
  BY <1>3 DEF HeapInvariant, StackAbove, Disjoint, NoSharedBlock, ListSound, Roomy,
       CallSound, FreeAdvance, heapVars, SizeOf, Header
<1>6. CursorsSound'
  BY <1>1, <1>2 DEF CursorsSound, FreeAdvance, heapVars, NextOf
<1>7. Kept
  BY <1>3 DEF Kept, FreeAdvance, heapVars
<1> QED
  BY <1>4, <1>5, <1>6, <1>7 DEF HeapInvariant

\* The program writes only to words it owns, never to a header or a link.
LEMMA FillInvariant ==
  ASSUME HeapInvariant, NEW p \in Addr, NEW v \in Data, Fill(p, v)
  PROVE  HeapInvariant' /\ Kept
<1>1. /\ mem \in Memory /\ heapEnd \in Addr /\ Blocks \in SUBSET Addr
      /\ Tiled(mem, Blocks, heapEnd) /\ chain \in SUBSET Blocks /\ freeList \in Addr
      /\ p \in Live /\ Header(p) \in Blocks /\ \A q \in Live : Header(q) \in Blocks
  BY Facts DEF Fill, HeapInvariant, TypeOK
<1>2. /\ Header(p) + HeaderWords = p /\ mem[Header(p)] \in Nat /\ want[p] \in Nat
      /\ want[p] <= 4 * mem[Header(p)]
  BY <1>1, AddrInt DEF Header, HeaderWords, Memory, HeapInvariant, TypeOK, Roomy, SizeOf
<1> DEFINE words == want[p] \div 4
<1>3. words \in Nat /\ words <= mem[Header(p)]
  BY <1>2
<1> HIDE DEF words
<1>4. mem' = [a \in Addr |-> IF a \in p .. p + words - 1 THEN v ELSE mem[a]]
  BY DEF Fill, words
<1>5. mem' \in Memory
  BY <1>1, <1>4, HeapAssumption DEF Memory
<1>6. \A a \in Addr : a \notin Header(p) + HeaderWords
                                 .. Header(p) + HeaderWords + mem[Header(p)] - 1
                        => mem'[a] = mem[a]
  BY <1>2, <1>3, <1>4, AddrInt
<1>7. /\ \A d \in Blocks : mem'[d] = mem[d] /\ mem'[d + 1] = mem[d + 1]
      /\ Tiled(mem', Blocks, heapEnd)
      /\ Threaded(mem', chain, freeList)
  BY <1>1, <1>5, <1>6, PayloadWrite DEF HeapInvariant, ListSound
<1>8. Live' = Live /\ InHand' = InHand /\ Blocks' = Blocks
  BY DEF Fill, Live, InHand, Blocks, callVars
<1>9. TypeOK'
  BY <1>5 DEF HeapInvariant, TypeOK, Memory, Fill, callVars
<1>10. StackAbove' /\ Disjoint' /\ NoSharedBlock' /\ ListSound'
  BY <1>7, <1>8 DEF HeapInvariant, StackAbove, Disjoint, NoSharedBlock, ListSound, Fill
<1>11. Roomy' /\ CursorsSound' /\ CallSound'
  BY <1>1, <1>7, <1>8 DEF HeapInvariant, Roomy, CursorsSound, CallSound, Fill, callVars,
                          SizeOf, Header
<1>12. Kept
  BY <1>7, <1>8 DEF Kept, Fill
<1> QED
  BY <1>9, <1>10, <1>11, <1>12 DEF HeapInvariant

\* The stack pointer moves, but not below the heap end.
LEMMA StackMoveInvariant ==
  ASSUME HeapInvariant, NEW s \in StackTops, StackMove(s)
  PROVE  HeapInvariant' /\ Kept
<1>1. Live' = Live /\ InHand' = InHand /\ Blocks' = Blocks
  BY DEF StackMove, Live, InHand, Blocks, callVars
<1>2. s \in Addr /\ HeapStart <= s
  BY HeapAssumption DEF Addr
<1>3. Kept
  BY <1>1 DEF Kept, StackMove, heapVars
<1> QED
  BY <1>1, <1>2, <1>3
     DEF HeapInvariant, TypeOK, StackAbove, Disjoint, NoSharedBlock, ListSound, Roomy,
         CursorsSound, CallSound, StackMove, heapVars, callVars, SizeOf, Header

\* Absorbing changes no other block's size.
LEMMA AbsorbElsewhere ==
  ASSUME NEW m \in Memory, NEW B \in SUBSET Addr, NEW e \in Addr,
         Tiled(m, B, e), NEW b \in B, NEW c, NEW d \in B \ {b}
  PROVE  Absorb(m, b, c)[d] = m[d]
<1>1. d \in Addr /\ d # b /\ d # b + 1
  BY HeadersApart
<1> QED
  BY <1>1 DEF Absorb, Memory

\* Linking and merging, on either side, both or none (runtime.c:109-121).
LEMMA FreeLinkInvariant ==
  ASSUME HeapInvariant, FreeLink
  PROVE  HeapInvariant' /\ Freed
<1> DEFINE linked == IF previous # NULL
                       THEN [mem EXCEPT ![block + 1] = next, ![previous + 1] = block]
                       ELSE [mem EXCEPT ![block + 1] = next]
           forward == IF MeetsNext THEN Absorb(linked, block, next) ELSE linked
           final == IF MeetsPrevious THEN Absorb(forward, previous, block) ELSE forward
           head == IF previous # NULL THEN freeList ELSE block
           B1 == Blocks \ {q \in {next} : MeetsNext}
           C1 == (chain \union {block}) \ {q \in {next} : MeetsNext}
           B2 == B1 \ {q \in {block} : MeetsPrevious}
           C2 == C1 \ {q \in {block} : MeetsPrevious}
<1>1. /\ pc = "seek" /\ ~(next # NULL /\ next < block)
      /\ mem' = final /\ freeList' = head /\ chain' = C2
      /\ UNCHANGED <<heapEnd, sp, want>> /\ Return
  BY DEF FreeLink, Seeking
<1>2. /\ mem \in Memory /\ heapEnd \in Addr /\ Blocks \in SUBSET (Addr \ {NULL})
      /\ Tiled(mem, Blocks, heapEnd) /\ chain \in SUBSET Blocks /\ freeList \in Addr
      /\ InHand = {block} /\ block \in Blocks /\ block \notin chain
      /\ next \in Addr /\ previous \in Addr
      /\ Threaded(mem, chain, freeList)
  BY <1>1, Facts DEF InHand, HeapInvariant, NoSharedBlock, TypeOK, ListSound
<1>3. /\ LeastAbove(chain, previous, next) /\ previous < block
      /\ previous \in chain \union {NULL} /\ next \in chain \union {NULL}
  BY <1>1, CursorFree DEF HeapInvariant, CursorsSound
<1>4. /\ \A d \in Blocks : d + 1 \in Addr /\ d # block + 1 /\ d \in Int
                           /\ (previous # NULL => d # previous + 1)
      /\ previous \in Int
  BY <1>2, <1>3, HeadersApart, AddrInt
<1>5. linked \in Memory
  BY <1>2, <1>3, <1>4, AddrInt DEF Memory
<1>6. \A d \in Blocks : linked[d] = mem[d]
  BY <1>2, <1>4 DEF Memory
<1>7. /\ linked[block + 1] = next
      /\ previous # NULL => linked[previous + 1] = block
      /\ \A d \in chain \ {previous} : linked[d + 1] = mem[d + 1]
  <2>1. block + 1 \in Addr /\ (previous # NULL => previous + 1 \in Addr)
        /\ previous + 1 # block + 1
    BY <1>2, <1>3, <1>4
  <2>2. \A d \in chain \ {previous} :
          d + 1 \in Addr /\ d + 1 # block + 1 /\ d + 1 # previous + 1
    BY <1>2, <1>4
  <2> QED
    BY <1>2, <2>1, <2>2 DEF Memory
<1> HIDE DEF linked
<1>8. Tiled(linked, Blocks, heapEnd)
  BY <1>2, <1>5, <1>6, AddrInt, TiledAgree
<1>9. head \in Addr /\ Threaded(linked, chain \union {block}, head)
  BY <1>1, <1>2, <1>3, <1>5, <1>7, InsertThreaded
<1>10. MeetsNext => /\ next \in chain /\ next \in Blocks /\ next # block
                    /\ block + HeaderWords + linked[block] = next
  BY <1>2, <1>3, <1>6 DEF MeetsNext
<1> HIDE DEF head
<1>11. /\ forward \in Memory /\ Tiled(forward, B1, heapEnd)
       /\ Threaded(forward, C1, head)
       /\ B1 \in SUBSET Addr /\ C1 \in SUBSET B1 /\ block \in C1
       /\ \A d \in B1 \ {block} : forward[d] = mem[d]
       /\ block + HeaderWords + forward[block] = LastMerged + HeaderWords + mem[LastMerged]
  <2>1. CASE MeetsNext
    <3>1. forward = Absorb(linked, block, next) /\ B1 = Blocks \ {next}
          /\ C1 = (chain \union {block}) \ {next}
      BY <2>1
    <3>2. forward \in Memory /\ Tiled(forward, B1, heapEnd)
      BY <1>2, <1>5, <1>8, <1>10, <2>1, <3>1, AbsorbTiled
    <3>3. Threaded(forward, C1, head)
      <4>1. chain \union {block} \in SUBSET Blocks
        BY <1>2
      <4> QED
        BY <4>1, <1>2, <1>5, <1>8, <1>9, <1>10, <2>1, <3>1, AbsorbThreaded
    <3>4. \A d \in B1 \ {block} : forward[d] = mem[d]
      BY <1>2, <1>5, <1>6, <1>8, <1>10, <2>1, <3>1, AbsorbElsewhere
    <3>5. block + HeaderWords + forward[block] = LastMerged + HeaderWords + mem[LastMerged]
      <4>1. Absorb(linked, block, next)[block] = linked[block] + HeaderWords + linked[next]
        <5>1. /\ Blocks \in SUBSET Addr /\ heapEnd \in Addr /\ linked \in Memory
              /\ Tiled(linked, Blocks, heapEnd) /\ block \in Blocks /\ next \in Blocks
              /\ block + HeaderWords + linked[block] = next
          BY <1>2, <1>5, <1>8, <1>10, <2>1
        <5> QED
          BY <5>1, AbsorbTiled
      <4>2. linked[block] \in Int /\ linked[next] = mem[next] /\ mem[next] \in Int
            /\ block \in Int
        BY <1>2, <1>4, <1>5, <1>6, <1>10, <2>1 DEF Memory
      <4> QED
        BY <4>1, <4>2, <3>1, <1>10, <2>1 DEF LastMerged, HeaderWords
    <3> QED
      BY <3>1, <3>2, <3>3, <3>4, <3>5, <1>2, <1>10, <2>1
  <2>2. CASE ~MeetsNext
    BY <1>2, <1>5, <1>6, <1>8, <1>9, <2>2 DEF LastMerged
  <2> QED
    BY <2>1, <2>2
<1>12. MeetsPrevious => /\ previous \in C1 /\ previous \in B1 /\ previous # block
                        /\ previous + HeaderWords + forward[previous] = block
  <2> SUFFICES ASSUME MeetsPrevious
               PROVE  /\ previous \in C1 /\ previous \in B1 /\ previous # block
                      /\ previous + HeaderWords + forward[previous] = block
    OBVIOUS
  <2>1. previous # NULL /\ previous + HeaderWords + mem[previous] = block
    BY DEF MeetsPrevious
  <2>2. previous \in chain /\ previous # block
    BY <2>1, <1>2, <1>3
  <2>3. MeetsNext => previous # next
    BY <2>2, <1>2, <1>3, <1>4, <1>10, <2>1 DEF LeastAbove
  <2> QED
    BY <2>1, <2>2, <2>3, <1>2, <1>11
<1> HIDE DEF forward
<1>13. /\ final \in Memory /\ Tiled(final, B2, heapEnd)
       /\ Threaded(final, C2, head) /\ C2 \in SUBSET B2
       /\ \A d \in B2 \ {First} : final[d] = mem[d]
       /\ First + HeaderWords + final[First] = LastMerged + HeaderWords + mem[LastMerged]
  <2>1. CASE MeetsPrevious
    <3>1. final = Absorb(forward, previous, block) /\ B2 = B1 \ {block}
          /\ C2 = C1 \ {block} /\ block \in B1
      BY <2>1, <1>11
    <3>2. final \in Memory /\ Tiled(final, B2, heapEnd)
      BY <1>2, <1>11, <1>12, <2>1, <3>1, AbsorbTiled
    <3>3. Threaded(final, C2, head)
      BY <1>2, <1>9, <1>11, <1>12, <2>1, <3>1, AbsorbThreaded
    <3>4. \A d \in B2 \ {First} : final[d] = mem[d]
      <4> TAKE d \in B2 \ {First}
      <4>1. d \in B1 \ {previous} /\ d # block
        BY <2>1, <3>1 DEF First
      <4>2. Absorb(forward, previous, block)[d] = forward[d]
        BY <4>1, <1>2, <1>11, <1>12, <2>1, AbsorbElsewhere
      <4> QED
        BY <4>1, <4>2, <3>1, <1>11
    <3>5. First + HeaderWords + final[First] = LastMerged + HeaderWords + mem[LastMerged]
      <4>1. Absorb(forward, previous, block)[previous]
              = forward[previous] + HeaderWords + forward[block]
        <5>1. /\ B1 \in SUBSET Addr /\ heapEnd \in Addr /\ forward \in Memory
              /\ Tiled(forward, B1, heapEnd) /\ previous \in B1 /\ block \in B1
              /\ previous + HeaderWords + forward[previous] = block
          BY <1>2, <1>11, <1>12, <2>1, <3>1
        <5> QED
          BY <5>1, AbsorbTiled
      <4>2. forward[previous] \in Int /\ forward[block] \in Int /\ previous \in Int
        BY <1>2, <1>4, <1>11, <1>12, <2>1, <3>1 DEF Memory
      <4> QED
        BY <4>1, <4>2, <3>1, <1>11, <1>12, <2>1 DEF First, HeaderWords
    <3> QED
      BY <3>1, <3>2, <3>3, <3>4, <3>5, <1>11
  <2>2. CASE ~MeetsPrevious
    BY <1>11, <2>2 DEF First
  <2> QED
    BY <2>1, <2>2
<1> HIDE DEF final
<1>14. Live' = Live /\ InHand' = {}
  BY <1>1 DEF Live, InHand, Return
<1>15. \A p \in Live : /\ Header(p) \in Blocks /\ Header(p) \notin chain
                       /\ Header(p) # block
  BY <1>2, Facts DEF HeapInvariant, NoSharedBlock
<1>16. \A p \in Live : Header(p) \in B2 /\ Header(p) # previous
  BY <1>2, <1>3, <1>10, <1>15
<1>17. Blocks' = B2
  BY <1>1, <1>2, <1>10, <1>14, <1>16 DEF Blocks
<1>18. TypeOK'
  BY <1>1, <1>2, <1>9, <1>11, <1>13, NullAddr
     DEF HeapInvariant, TypeOK, Memory, Return, NoCall, Operations
<1>19. StackAbove' /\ Disjoint' /\ ListSound'
  BY <1>1, <1>13, <1>17 DEF HeapInvariant, StackAbove, Disjoint, ListSound
<1>20. NoSharedBlock'
  BY <1>1, <1>2, <1>14, <1>15 DEF NoSharedBlock
<1>21. Roomy'
  BY <1>1, <1>13, <1>14, <1>15, <1>16 DEF HeapInvariant, Roomy, SizeOf, Header, First
<1>22. CursorsSound' /\ CallSound'
  BY <1>1 DEF CursorsSound, CallSound, Return
<1>23. Freed
  <2>1. B2 = Blocks \ Merged /\ C2 = (chain \union {block}) \ Merged
    BY DEF Merged
  <2> QED
    BY <1>1, <1>13, <1>17, <2>1 DEF Freed, Seeking
<1> QED
  BY <1>18, <1>19, <1>20, <1>21, <1>22, <1>23 DEF HeapInvariant

-----------------------------------------------------------------------------
(* Every step.                                                             *)

\* calloc's product, when it passes the overflow test, is a 32-bit number.
LEMMA ProductFits ==
  ASSUME NEW count \in Nat, NEW n \in Nat, ~ProductOverflows(count, n)
  PROVE  count * n \in Nat /\ count * n < Wrap
<1>1. CASE count = 0
  BY <1>1, HeapAssumption
<1>2. CASE count # 0
  <2> DEFINE q == (Wrap - 1) \div count
  <2>1. Wrap - 1 \in Nat /\ count > 0 /\ count \in Int
    BY <1>2, HeapAssumption
  <2>2. q \in Nat /\ count * q <= Wrap - 1
    BY <2>1, SMTT(30)
  <2>3. n <= q
    BY <1>2, <2>2 DEF ProductOverflows
  <2> HIDE DEF q
  <2>4. q - n \in Nat
    BY <2>2, <2>3
  <2>5. count * (q - n) >= 0 /\ count * q = count * n + count * (q - n)
    BY <2>2, <2>4, SMTT(30)
  <2> QED
    BY <2>2, <2>5, HeapAssumption
<1> QED
  BY <1>1, <1>2

\* Nothing changes.
LEMMA StutterInvariant ==
  ASSUME HeapInvariant, UNCHANGED vars
  PROVE  HeapInvariant' /\ Kept
<1>1. Live' = Live /\ InHand' = InHand /\ Blocks' = Blocks
  BY DEF vars, heapVars, callVars, Live, InHand, Blocks
<1>2. Kept
  BY <1>1 DEF Kept, vars, heapVars
<1> QED
  BY <1>1, <1>2
     DEF vars, heapVars, callVars, HeapInvariant, TypeOK, StackAbove, Disjoint,
         NoSharedBlock, ListSound, Roomy, CursorsSound, CallSound, SizeOf, Header

\* malloc as the three entry points call it: refused or on its way (runtime.c:81-83).
LEMMA AllocateInvariant ==
  ASSUME HeapInvariant, pc = "idle",
         NEW op \in Operations \ {"free"}, NEW p \in Addr, NEW n \in Nat,
         n < Wrap, Allocate(op, p, n),
         op = "realloc" => p \in Live /\ 4 * SizeOf(Header(p)) < n
  PROVE  HeapInvariant' /\ Kept
  BY EnterTakeFreeInvariant, StutterInvariant DEF Allocate, Refuse

\* One case per action of Next: the invariant holds and the blocks changed in one
\* of the ways above.
LEMMA StepInvariant ==
  ASSUME HeapInvariant, [Next]_vars
  PROVE  HeapInvariant' /\ Change
<1> USE DEF Change
<1>1. CASE Step
  <2>1. CASE TakeSplit
    <3>1. HeapInvariant' /\ Split(block, Rest)
      BY <2>1, TakeSplitInvariant
    <3> QED
      BY <3>1 DEF Split
  <2> QED
    BY <1>1, <2>1, TakeAdvanceInvariant, TakeWholeInvariant, BumpInvariant,
       ReturnInvariant, ReallocMoveInvariant, FreeAdvanceInvariant, FreeLinkInvariant
       DEF Step
<1>2. CASE FreeNull \/ UNCHANGED vars
  BY <1>2, StutterInvariant DEF FreeNull
<1>3. ASSUME NEW n \in Requests, Malloc(n)
      PROVE  HeapInvariant' /\ Change
  BY <1>3, AllocateInvariant, NullAddr, HeapAssumption DEF Malloc, Operations
<1>4. ASSUME NEW c \in Requests, NEW n \in Requests, Calloc(c, n)
      PROVE  HeapInvariant' /\ Change
  <2>1. c \in Nat /\ n \in Nat
    BY HeapAssumption
  <2>2. CASE Refuse
    BY <2>2, StutterInvariant DEF Refuse
  <2>3. CASE ~ProductOverflows(c, n) /\ Allocate("calloc", NULL, c * n)
    BY <1>4, <2>1, <2>3, ProductFits, AllocateInvariant, NullAddr DEF Calloc, Operations
  <2> QED
    BY <1>4, <2>2, <2>3 DEF Calloc
<1>5. ASSUME NEW p \in Addr, Free(p)
      PROVE  HeapInvariant' /\ Change
  BY <1>5, ReleaseInvariant DEF Free
<1>6. ASSUME NEW p \in Addr, NEW n \in Requests, Realloc(p, n)
      PROVE  HeapInvariant' /\ Change
  <2>1. n \in Nat /\ n < Wrap /\ pc = "idle"
    BY <1>6, HeapAssumption DEF Realloc
  <2>2. CASE p = NULL /\ Allocate("malloc", NULL, n)
    BY <2>1, <2>2, AllocateInvariant, NullAddr DEF Operations
  <2>3. CASE p \in Live /\ n = 0 /\ Release(p, 0)
    BY <2>1, <2>3, ReleaseInvariant
  <2>4. CASE p \in Live /\ n > 0 /\ ReallocInPlace(p, n)
    BY <2>1, <2>4, ReallocInPlaceInvariant
  <2>5. CASE /\ p \in Live /\ n > 0 /\ 4 * SizeOf(Header(p)) < n
             /\ Allocate("realloc", p, n)
    BY <2>1, <2>5, AllocateInvariant DEF Operations
  <2> QED
    BY <1>6, <2>2, <2>3, <2>4, <2>5 DEF Realloc
<1>7. ASSUME NEW p \in Addr, NEW v \in Data, Fill(p, v)
      PROVE  HeapInvariant' /\ Change
  BY <1>7, FillInvariant
<1>8. ASSUME NEW s \in StackTops, StackMove(s)
      PROVE  HeapInvariant' /\ Change
  BY <1>8, StackMoveInvariant
<1> QED
  BY <1>1, <1>2, <1>3, <1>4, <1>5, <1>6, <1>7, <1>8 DEF Next

\* The inductive invariant of the allocator holds in every reachable state.
THEOREM Invariance == Spec => []HeapInvariant
  BY InitInvariant, StepInvariant, PTL DEF Spec

\* Type correctness.
THEOREM TypeCorrect == Spec => []TypeOK
<1>1. HeapInvariant => TypeOK
  BY DEF HeapInvariant
<1> QED
  BY <1>1, Invariance, PTL

\* No two blocks overlap and none reaches past the heap end or the stack,
\* whatever the program allocates, frees and writes.
THEOREM BlocksDisjoint == Spec => []Disjoint
<1>1. HeapInvariant => Disjoint
  BY DEF HeapInvariant
<1> QED
  BY <1>1, Invariance, PTL

\* The links in memory always thread exactly the free blocks in order, and
\* no free block is the program's or in hand.
THEOREM FreeListSound == Spec => [](ListSound /\ NoSharedBlock)
<1>1. HeapInvariant => ListSound /\ NoSharedBlock
  BY DEF HeapInvariant
<1> QED
  BY <1>1, Invariance, PTL

\* Every block the program holds has room for the bytes it asked for.
THEOREM RoomForRequest == Spec => []Roomy
<1>1. HeapInvariant => Roomy
  BY DEF HeapInvariant
<1> QED
  BY <1>1, Invariance, PTL

-----------------------------------------------------------------------------
(* No word is lost and no two free blocks touch.                           *)

\* Two blocks that end at the same place are one block.
LEMMA EndsApart ==
  ASSUME HeapInvariant
  PROVE  /\ heapEnd \in Int /\ Blocks \subseteq Int /\ HeapStart \in Int
         /\ \A b \in Blocks : /\ mem[b] \in Int /\ HeapStart <= b
                              /\ End(b) \in Int /\ b < End(b) /\ End(b) <= heapEnd
         /\ \A b, c \in Blocks : b < c => End(b) <= c
         /\ \A b, c \in Blocks : End(b) = End(c) => b = c
         /\ heapEnd <= HeapStart => Blocks = {}
<1>1. heapEnd \in Int /\ Blocks \subseteq Int /\ HeapStart \in Int
  <2>1. heapEnd \in Addr /\ Blocks \subseteq Addr
    BY Facts
  <2>2. HeapStart \in Int
    BY HeapAssumption
  <2> QED
    BY <2>1, <2>2, AddrInt
<1>4. \A b \in Blocks : mem[b] \in Nat
  BY Facts DEF Memory
<1>2. \A b \in Blocks : /\ HeapStart <= b /\ End(b) \in Int
                        /\ b < End(b) /\ End(b) <= heapEnd
  BY <1>1, <1>4, Facts DEF Tiled, End, HeaderWords
<1>3. \A b, c \in Blocks : b < c => End(b) <= c
  BY Facts DEF Tiled, End
<1> QED
  BY <1>1, <1>2, <1>3, <1>4

\* Where the cursors of free are when it links: previous is the free block
\* below, next the free block above.
LEMMA SeekFacts ==
  ASSUME HeapInvariant, pc = "seek", ~Seeking
  PROVE  /\ block \in Blocks /\ block \notin chain
         /\ previous < block /\ previous \in chain \union {NULL}
         /\ MeetsPrevious => previous \in chain /\ End(previous) = block
         /\ MeetsNext => next \in chain /\ End(block) = next /\ block < next
         /\ next = NULL \/ (next \in chain /\ block < next)
         /\ LeastAbove(chain, previous, next)
<1>1. block \in Blocks /\ block \notin chain
  BY Facts DEF InHand, HeapInvariant, NoSharedBlock
<1>2. /\ LeastAbove(chain, previous, next) /\ previous < block
      /\ previous \in chain \union {NULL} /\ next \in chain \union {NULL}
  BY CursorFree DEF HeapInvariant, CursorsSound
<1>3. next = NULL \/ (next \in chain /\ block < next)
  BY <1>1, <1>2, Facts, EndsApart DEF Seeking
<1> QED
  BY <1>1, <1>2, <1>3 DEF MeetsPrevious, MeetsNext, End

\* After any change of the blocks, each still ends where another begins or at
\* the end of the heap.
LEMMA NothingLostStep ==
  ASSUME HeapInvariant, NothingLost, Change
  PROVE  NothingLost'
<1>1. CASE Kept
  BY <1>1, EndsApart, HeapAssumption DEF Kept, NothingLost, End
<1>2. ASSUME NEW b \in chain, NEW r \in Addr, Split(b, r)
      PROVE  NothingLost'
  <2>1. b \in Blocks /\ r \notin Blocks
    BY <1>2, Facts DEF Split
  <2>2. End(b)' = r /\ End(r)' = End(b) /\ \A d \in Blocks \ {b} : End(d)' = End(d)
    BY <1>2 DEF Split, End
  <2> QED
    BY <1>2, <2>1, <2>2 DEF Split, NothingLost
<1>3. CASE Grown
  <2>1. \A d \in Blocks : End(d)' = End(d)
    BY <1>3 DEF Grown, End
  <2>2. \A d : d = FirstEnd => End(d)' = heapEnd'
    BY <1>3 DEF Grown, End
  <2>3. heapEnd = 0 \/ HeapStart <= heapEnd
    BY DEF HeapInvariant, StackAbove
  <2>4. FirstEnd = HeapStart \/ HeapStart \in Blocks
    BY <2>3, EndsApart DEF NothingLost, FirstEnd
  <2>5. \A d \in Blocks : End(d) = FirstEnd \/ End(d) \in Blocks
    BY EndsApart, HeapAssumption DEF NothingLost, FirstEnd
  <2> QED
    BY <1>3, <2>1, <2>2, <2>4, <2>5 DEF Grown, NothingLost
<1>4. CASE Freed
  <2>1. /\ pc = "seek" /\ ~Seeking /\ Blocks' = Blocks \ Merged /\ heapEnd' = heapEnd
        /\ \A d \in Blocks \ (Merged \union {First}) : End(d)' = End(d)
        /\ \A d : d = First => End(d)' = End(LastMerged)
    BY <1>4 DEF Freed, End
  <2>2. chain \subseteq Blocks
    BY Facts
  <2>3. \A d \in Merged : HeapStart < d
    BY <2>1, <2>2, SeekFacts, EndsApart DEF Merged
  <2>4. LastMerged \in Blocks /\ \A d \in Merged : d <= LastMerged
    BY <2>1, <2>2, SeekFacts, EndsApart DEF Merged, LastMerged
  <2>5. End(LastMerged) \notin Merged
    BY <2>4, EndsApart DEF Merged
  <2>6. ASSUME NEW d \in Blocks \ Merged, d # First
        PROVE  End(d) \notin Merged
    <3>1. CASE MeetsNext /\ End(d) = next
      <4>1. d = block
        BY <2>1, <3>1, SeekFacts, EndsApart
      <4> QED
        BY <4>1, <2>6 DEF First, Merged
    <3>2. CASE MeetsPrevious /\ End(d) = block
      BY <2>1, <2>2, <2>6, <3>2, SeekFacts, EndsApart DEF First
    <3> QED
      BY <3>1, <3>2 DEF Merged
  <2> QED
    BY <2>1, <2>3, <2>4, <2>5, <2>6, EndsApart DEF NothingLost
<1> QED
  BY <1>1, <1>2, <1>3, <1>4 DEF Change

\* After any change of the blocks, no free block ends where another begins:
\* only free puts a block on the list, and it merges with both neighbours.
LEMMA CoalescedStep ==
  ASSUME HeapInvariant, HeapInvariant', Coalesced, Change
  PROVE  Coalesced'
<1>0. chain \subseteq Blocks
  BY Facts
<1>1. CASE Kept \/ Grown
  BY <1>0, <1>1 DEF Kept, Grown, Coalesced, End
<1>2. ASSUME NEW b \in chain, NEW r \in Addr, Split(b, r)
      PROVE  Coalesced'
  <2>1. /\ End(r)' = End(b) /\ \A d \in Blocks \ {b} : End(d)' = End(d)
        /\ r \notin Blocks /\ b < r
        /\ chain' = (chain \ {b}) \union {r}
    BY <1>2 DEF Split, End
  <2>2. \A d \in chain \ {b} : End(d) # r
    <3>1. mem'[r] \in Nat /\ r \in Int
      BY AddrInt DEF HeapInvariant, TypeOK
    <3>2. r < End(b)
      BY <2>1, <3>1 DEF End, HeaderWords
    <3> QED
      BY <2>1, <3>1, <3>2, <1>0, EndsApart
  <2>3. r # End(b)
    <3>1. mem'[r] \in Nat /\ r \in Int
      BY AddrInt DEF HeapInvariant, TypeOK
    <3> QED
      BY <2>1, <3>1 DEF End, HeaderWords
  <2> QED
    BY <1>0, <2>1, <2>2, <2>3 DEF Coalesced
<1>3. CASE Freed
  <2>1. /\ pc = "seek" /\ ~Seeking /\ chain' = (chain \union {block}) \ Merged
        /\ \A d \in Blocks \ (Merged \union {First}) : End(d)' = End(d)
        /\ \A d : d = First => End(d)' = End(LastMerged)
    BY <1>3 DEF Freed, End
  <2>2. End(block) \in chain => MeetsNext
    <3>1. ASSUME End(block) \in chain
          PROVE  next = End(block)
      <4>1. previous < End(block) /\ next \in chain /\ next <= End(block) /\ block < next
        <5>1. previous \in Int /\ block \in Int /\ previous < End(block)
          BY <2>1, <1>0, SeekFacts, EndsApart DEF NULL
        <5>2. next # NULL /\ next \in chain /\ next <= End(block)
          BY <2>1, <3>1, <5>1, <1>0, SeekFacts, EndsApart DEF LeastAbove
        <5> QED
          BY <2>1, <5>1, <5>2, SeekFacts
      <4> QED
        BY <4>1, <2>1, <1>0, SeekFacts, EndsApart
    <3> QED
      BY <3>1, Facts DEF MeetsNext, End
  <2>3. \A d \in chain : End(d) = block => MeetsPrevious /\ d = previous
    <3> SUFFICES ASSUME NEW d \in chain, End(d) = block
                 PROVE  d = previous
      BY <1>0, Facts DEF MeetsPrevious, End
    <3>1. d < block /\ d <= previous
      <4>1. previous \in Int /\ block \in Int /\ d \in Int /\ d < block
        BY <2>1, <1>0, SeekFacts, EndsApart DEF NULL
      <4>2. LeastAbove(chain, previous, next)
        BY <2>1, SeekFacts
      <4>3. next = NULL \/ (next \in Int /\ block < next)
        BY <2>1, <1>0, SeekFacts, EndsApart
      <4> QED
        BY <4>1, <4>2, <4>3 DEF LeastAbove
    <3>2. previous \in chain
      BY <2>1, <3>1, <1>0, SeekFacts, EndsApart, HeapAssumption DEF NULL
    <3> QED
      BY <2>1, <3>1, <3>2, <1>0, SeekFacts, EndsApart
  <2>4. End(LastMerged) \notin chain /\ End(LastMerged) # block
    BY <2>1, <2>2, <1>0, SeekFacts, EndsApart DEF LastMerged, Coalesced
  <2>5. \A d \in chain \ {previous} : End(d) \notin chain \union {block}
    BY <2>3 DEF Coalesced
  <2>6. ASSUME NEW d \in chain', d # First
        PROVE  End(d)' \notin chain'
    <3>1. End(d)' = End(d) /\ d \in chain \union {block} /\ d \notin Merged
      BY <2>1, <2>6, <1>0, SeekFacts
    <3>2. d # block
      BY <2>6, <3>1 DEF First, Merged
    <3>3. End(d) \notin chain
      BY <3>1, <3>2 DEF Coalesced
    <3>4. End(d) = block => block \in Merged
      BY <3>1, <3>2, <2>3 DEF Merged
    <3> QED
      BY <2>1, <3>1, <3>3, <3>4
  <2> QED
    BY <2>1, <2>4, <2>6 DEF Coalesced
<1> QED
  BY <1>1, <1>2, <1>3 DEF Change

\* A call that fails has seen every free block too small, and the room below
\* the stack too.
LEMMA FailsOnlyWhenFullStep ==
  ASSUME HeapInvariant, FailsOnlyWhenFull, [Next]_vars
  PROVE  FailsOnlyWhenFull'
<1>1. CASE UNCHANGED vars \/ FreeNull
  BY <1>1 DEF FreeNull, vars, heapVars, callVars, FailsOnlyWhenFull, SizeOf
<1>2. CASE Bump
  <2>1. /\ pc = "take" /\ block = NULL /\ chain' = chain /\ sp' = sp /\ size' = size
        /\ size \in Nat
    BY <1>2 DEF Bump, HeapInvariant, TypeOK
  <2>2. FirstEnd \in Nat /\ FirstEnd <= sp /\ sp \in Nat /\ FirstEnd > 0
    BY Facts, AddrInt, HeapAssumption
       DEF FirstEnd, HeapInvariant, StackAbove, Disjoint, TypeOK, Addr
  <2>3. CASE /\ Remaining(FirstEnd) < Required /\ result' = NULL
             /\ heapEnd' = FirstEnd /\ mem' = mem
    <3>1. \A b \in chain : b <= previous
      BY <2>1 DEF HeapInvariant, CursorsSound, LeastAbove
    <3>2. \A b \in chain : mem[b] < size
      BY <2>1, <3>1 DEF HeapInvariant, CursorsSound, SizeOf
    <3>3. sp - FirstEnd < HeaderWords + size
      BY <2>1, <2>2, <2>3, RequiredExact DEF Remaining
    <3> QED
      BY <2>1, <2>3, <3>2, <3>3 DEF FailsOnlyWhenFull, SizeOf
  <2>4. CASE result' = Payload(FirstEnd)
    <3>1. result' # NULL
      BY <2>2, <2>4 DEF Payload, HeaderWords, NULL
    <3> QED
      BY <3>1 DEF FailsOnlyWhenFull
  <2> QED
    BY <1>2, <2>3, <2>4 DEF Bump
<1>3. CASE TakeSplit \/ TakeWhole
  <2>1. block \in Nat /\ result' = block + HeaderWords
    BY <1>3, AddrInt DEF TakeSplit, TakeWhole, Payload, HeapInvariant, TypeOK
  <2>2. result' # NULL
    BY <2>1 DEF HeaderWords, NULL
  <2> QED
    BY <2>2 DEF FailsOnlyWhenFull
<1>4. pc' # "return" => FailsOnlyWhenFull'
  BY DEF FailsOnlyWhenFull
<1>5. CASE TakeAdvance \/ FreeAdvance \/ FreeLink \/ ReallocMove
  BY <1>4, <1>5 DEF TakeAdvance, FreeAdvance, FreeLink, ReallocMove, Return
<1>6. CASE MallocReturn \/ CallocReturn \/ ReallocFailed
  BY <1>4, <1>6 DEF MallocReturn, CallocReturn, ReallocFailed, Return
<1>7. ASSUME NEW op, NEW p, NEW n, Allocate(op, p, n), pc = "idle"
      PROVE  pc' # "return"
  BY <1>7 DEF Allocate, Refuse, EnterTakeFree, vars, callVars
<1>8. CASE /\ ~(UNCHANGED vars \/ Step \/ FreeNull)
  <2>1. pc' # "return"
    BY <1>7, <1>8
       DEF Next, Malloc, Calloc, Refuse, Free, Realloc, Release, ReallocInPlace, Fill,
           StackMove, callVars
  <2> QED
    BY <2>1, <1>4
<1> QED
  BY <1>1, <1>2, <1>3, <1>5, <1>6, <1>8 DEF Step

\* The three properties hold at the start, with no block and no call.
LEMMA InitWhole == Init => NothingLost /\ Coalesced /\ FailsOnlyWhenFull
<1> SUFFICES ASSUME Init PROVE NothingLost /\ Coalesced /\ FailsOnlyWhenFull
  OBVIOUS
<1>1. Blocks = {} /\ chain = {} /\ heapEnd = 0 /\ pc = "idle"
  BY AddrInt DEF Init, Live, InHand, Blocks, NULL
<1> QED
  BY <1>1, HeapAssumption DEF NothingLost, Coalesced, FailsOnlyWhenFull

\* No word between the start and the end of the heap is lost: the blocks, free
\* or owned, follow one another without a gap.
THEOREM NoWordLost == Spec => []NothingLost
<1>1. HeapInvariant /\ NothingLost /\ [Next]_vars => NothingLost'
  BY StepInvariant, NothingLostStep
<1> QED
  BY <1>1, InitWhole, Invariance, PTL DEF Spec

\* Two free blocks never touch, so a request that fits the free words between
\* two owned blocks fits one free block.
THEOREM FreeBlocksMerged == Spec => []Coalesced
<1>1. HeapInvariant /\ HeapInvariant' /\ Coalesced /\ [Next]_vars => Coalesced'
  BY StepInvariant, CoalescedStep
<1> QED
  BY <1>1, InitWhole, Invariance, PTL DEF Spec

\* A call returns null only when no free block and no room below the stack can
\* hold what it asks for.
THEOREM FailureMeansFull == Spec => []FailsOnlyWhenFull
<1>1. HeapInvariant /\ FailsOnlyWhenFull /\ [Next]_vars => FailsOnlyWhenFull'
  BY FailsOnlyWhenFullStep
<1> QED
  BY <1>1, InitWhole, Invariance, PTL DEF Spec

-----------------------------------------------------------------------------
(* The allocator implements the map from pointers to regions of Allocator. *)

images == [p \in Addr |-> Image(p)]

\* Two blocks share no word.
LEMMA ExtentsApart ==
  ASSUME HeapInvariant, NEW b \in Blocks, NEW c \in Blocks \ {b},
         NEW a \in b .. End(b) - 1
  PROVE  a \notin c .. End(c) - 1
<1>1. b \in Int /\ c \in Int /\ End(b) \in Int /\ End(c) \in Int
  BY EndsApart
<1>2. End(b) <= c \/ End(c) <= b
  BY <1>1, EndsApart
<1> QED
  BY <1>1, <1>2

\* The words the program owns at q: they lie in q's block, in RAM.
LEMMA OwnedWords ==
  ASSUME HeapInvariant, NEW q \in Live
  PROVE  /\ q \in Int /\ want[q] \in Nat /\ mem[Header(q)] \in Nat
         /\ Header(q) \in Blocks /\ HeapStart + 2 <= q
         /\ q = Header(q) + HeaderWords /\ End(Header(q)) = q + mem[Header(q)]
         /\ want[q] <= 4 * mem[Header(q)] /\ End(Header(q)) <= heapEnd
         /\ \A a \in q .. End(Header(q)) - 1 : a \in Addr
<1>1. /\ q \in Addr /\ q \in Int /\ Header(q) \in Blocks
      /\ q = Header(q) + HeaderWords /\ want[q] \in Nat
  BY Facts, LiveFacts, AddrInt DEF Live, HeapInvariant, TypeOK
<1>2. mem[Header(q)] \in Nat
  BY <1>1, Facts DEF Memory
<1>3. HeapStart <= Header(q) /\ End(Header(q)) <= heapEnd /\ heapEnd \in Addr
  BY <1>1, Facts, EndsApart
<1>4. End(Header(q)) = q + mem[Header(q)]
  BY <1>1 DEF End
<1>5. HeapStart + 2 <= q
  <2> DEFINE h == Header(q)
  <2>1. h \in Int /\ HeapStart <= h /\ q = h + 2 /\ HeapStart \in Int
    BY <1>1, <1>3, EndsApart DEF HeaderWords
  <2> QED
    BY <2>1
<1>6. \A a \in q .. End(Header(q)) - 1 : a \in Addr
  BY <1>1, <1>2, <1>3, <1>4, HeapAssumption DEF Addr
<1>7. want[q] <= 4 * mem[Header(q)]
  BY DEF HeapInvariant, Roomy, SizeOf
<1> QED
  BY <1>1, <1>2, <1>3, <1>4, <1>5, <1>6, <1>7

\* The step writes no word of an owned block.
Quiet == \A q \in Live : \A a \in q .. End(Header(q)) - 1 : mem'[a] = mem[a]

\* Writes to free blocks, to the block in hand and past the heap are quiet.
LEMMA QuietWrites ==
  ASSUME HeapInvariant,
         \A a \in Addr : \/ mem'[a] = mem[a]
                         \/ heapEnd <= a
                         \/ \E b \in chain \union InHand : a \in b .. End(b) - 1
  PROVE  Quiet
<1> SUFFICES ASSUME NEW q \in Live, NEW a \in q .. End(Header(q)) - 1
             PROVE  mem'[a] = mem[a]
  BY DEF Quiet
<1>1. /\ a \in Addr /\ Header(q) \in Blocks /\ End(Header(q)) <= heapEnd
      /\ q = Header(q) + HeaderWords /\ q \in Int
  BY OwnedWords
<1>2. End(Header(q)) \in Int /\ heapEnd \in Int /\ Header(q) \in Int
  BY <1>1, EndsApart
<1>3. ~(heapEnd <= a)
  BY <1>1, <1>2
<1>4. a \in Header(q) .. End(Header(q)) - 1
  BY <1>1, <1>2 DEF HeaderWords
<1>5. ASSUME NEW b \in chain \union InHand
      PROVE  a \notin b .. End(b) - 1
  <2>1. b \in Blocks \ {Header(q)}
    BY <1>5, Facts DEF HeapInvariant, NoSharedBlock
  <2> QED
    BY <2>1, <1>1, <1>4, ExtentsApart
<1> QED
  BY <1>1, <1>3, <1>5

\* A pointer the step neither grants, resizes nor releases keeps its image.
LEMMA ImageKept ==
  ASSUME HeapInvariant, NEW q \in Addr, want'[q] = want[q],
         q \in Live => \A a \in q .. End(Header(q)) - 1 : mem'[a] = mem[a]
  PROVE  Image(q)' = Image(q)
<1>1. CASE q \in Live
  <2>1. \A i \in 1 .. want[q] \div 4 : q + i - 1 \in q .. End(Header(q)) - 1
    BY <1>1, OwnedWords
  <2>2. \A i \in 1 .. want[q] \div 4 : mem'[q + i - 1] = mem[q + i - 1]
    BY <1>1, <2>1
  <2> QED
    BY <2>2 DEF Image
<1>2. CASE q \notin Live
  <2>1. want[q] = 0
    BY <1>2 DEF Live, HeapInvariant, TypeOK
  <2>2. 1 .. want[q] \div 4 = {}
    BY <2>1
  <2> QED
    BY <2>2 DEF Image
<1> QED
  BY <1>1, <1>2

\* A pointer that owns nothing has the empty image.
LEMMA EmptyImage ==
  ASSUME NEW q \in Addr, want[q] = 0
  PROVE  Image(q) = <<>>
<1>1. 1 .. want[q] \div 4 = {}
  OBVIOUS
<1> QED
  BY <1>1 DEF Image

\* A quiet step that changes no owner changes nothing the program can see.
LEMMA QuietStutters ==
  ASSUME HeapInvariant, Quiet, want' = want
  PROVE  UNCHANGED Allocator!vars
<1>1. \A q \in Addr : Image(q)' = Image(q)
  BY ImageKept DEF Quiet
<1> QED
  BY <1>1 DEF Allocator!vars

\* A block's header is in the block.
LEMMA HeaderInside ==
  ASSUME HeapInvariant, NEW b \in Blocks
  PROVE  b \in b .. End(b) - 1 /\ b + 1 \in b .. End(b) - 1
<1>1. b \in Int /\ mem[b] \in Int /\ mem[b] >= 1
  BY EndsApart, Facts DEF Tiled
<1> QED
  BY <1>1 DEF End, HeaderWords

\* The steps of a walk write headers and links of free blocks only.
LEMMA TakeQuiet ==
  ASSUME HeapInvariant, TakeSplit \/ TakeWhole
  PROVE  Quiet
<1>1. pc = "take" /\ block # NULL
  BY DEF TakeSplit, TakeWhole, Fits
<1>2. /\ block \in chain /\ previous \in chain \union {NULL} /\ chain \subseteq Blocks
      /\ size \in Nat /\ size >= 1
  BY <1>1, TakeFacts, Facts
<1>3. /\ block \in block .. End(block) - 1 /\ block + 1 \in block .. End(block) - 1
      /\ previous # NULL => previous + 1 \in previous .. End(previous) - 1
  BY <1>2, HeaderInside
<1>4. TakeSplit => Rest \in block .. End(block) - 1 /\ Rest + 1 \in block .. End(block) - 1
  <2>1. block \in Int /\ mem[block] \in Int
    BY <1>2, EndsApart
  <2> QED
    BY <2>1, <1>2 DEF TakeSplit, Splittable, Rest, SizeOf, End, HeaderWords
<1>5. ASSUME NEW a \in Addr, a \notin block .. End(block) - 1,
             previous # NULL => a # previous + 1
      PROVE  mem'[a] = mem[a]
  <2>0. mem \in Memory
    BY Facts
  <2>1. a # block /\ a # block + 1
    BY <1>3, <1>5
  <2>2. CASE TakeSplit
    <3>1. a # Rest /\ a # Rest + 1
      BY <1>4, <1>5, <2>2
    <3> QED
      BY <1>5, <2>0, <2>1, <2>2, <3>1 DEF TakeSplit, Relink, Memory
  <2>3. CASE TakeWhole
    BY <1>5, <2>0, <2>1, <2>3 DEF TakeWhole, Relink, Memory
  <2> QED
    BY <2>2, <2>3
<1>6. \A a \in Addr : mem'[a] = mem[a] \/ \E b \in chain : a \in b .. End(b) - 1
  BY <1>2, <1>3, <1>5
<1> QED
  BY <1>6, QuietWrites

\* Growing the heap writes past its end.
LEMMA BumpQuiet ==
  ASSUME HeapInvariant, Bump
  PROVE  Quiet
<1>1. FirstEnd \in Int /\ heapEnd \in Int /\ heapEnd <= FirstEnd /\ mem \in Memory
  BY EndsApart, Facts, HeapAssumption DEF FirstEnd
<1>2. \A a \in Addr : mem'[a] = mem[a] \/ heapEnd <= a
  BY <1>1 DEF Bump, Memory
<1> QED
  BY <1>2, QuietWrites

\* Linking and merging writes headers of free blocks and of the block in hand.
LEMMA FreeLinkQuiet ==
  ASSUME HeapInvariant, FreeLink
  PROVE  Quiet
<1>1. /\ pc = "seek" /\ InHand = {block} /\ chain \union {block} \subseteq Blocks
      /\ previous \in chain \union {NULL} /\ mem \in Memory
  BY CursorFree, Facts DEF FreeLink, InHand
<1>2. /\ block \in block .. End(block) - 1 /\ block + 1 \in block .. End(block) - 1
      /\ previous # NULL => /\ previous \in previous .. End(previous) - 1
                            /\ previous + 1 \in previous .. End(previous) - 1
  BY <1>1, HeaderInside
<1>4. ASSUME NEW a \in Addr, a # block, a # block + 1,
             previous # NULL => a # previous /\ a # previous + 1
      PROVE  mem'[a] = mem[a]
  BY <1>1, <1>4 DEF FreeLink, Absorb, MeetsPrevious, Memory
<1>5. \A a \in Addr : mem'[a] = mem[a]
                      \/ \E b \in chain \union InHand : a \in b .. End(b) - 1
  BY <1>1, <1>2, <1>4
<1> QED
  BY <1>5, QuietWrites

\* n bytes fit in a block of 4 * mem[b] of them, and regions of two blocks
\* share no word.
LEMMA RegionInside ==
  ASSUME HeapInvariant, NEW b \in Blocks, NEW n \in Nat, n <= 4 * mem[b]
  PROVE  /\ Allocator!Region(b + HeaderWords, n) \subseteq b .. End(b) - 1
         /\ Allocator!Region(b + HeaderWords, n) \subseteq Addr
<1>1. /\ b \in Nat /\ mem[b] \in Nat /\ End(b) = b + HeaderWords + mem[b]
      /\ End(b) <= heapEnd /\ heapEnd \in Nat /\ heapEnd < RamWords /\ RamWords \in Nat
  BY Facts, EndsApart, AddrInt, HeapAssumption DEF Memory, End, Addr
<1>2. (n + 3) \div 4 <= mem[b] /\ (n + 3) \div 4 \in Nat
  BY <1>1
<1> DEFINE w == (n + 3) \div 4
<1>3. Allocator!Region(b + HeaderWords, n) = b + HeaderWords .. b + HeaderWords + w - 1
  BY DEF Allocator!Region, Allocator!Words
<1> HIDE DEF w
<1>4. w <= mem[b] /\ w \in Nat
  BY <1>2 DEF w
<1> QED
  BY <1>1, <1>3, <1>4 DEF HeaderWords, Addr

LEMMA RegionsApart ==
  ASSUME HeapInvariant, NEW b \in Blocks, NEW n \in Nat, n <= 4 * mem[b],
         NEW q \in Live, Header(q) # b
  PROVE  Allocator!Region(b + HeaderWords, n) \intersect Allocator!Region(q, want[q]) = {}
<1>1. /\ Header(q) \in Blocks \ {b} /\ q = Header(q) + HeaderWords
      /\ want[q] \in Nat /\ want[q] <= 4 * mem[Header(q)]
  BY OwnedWords
<1>2. Allocator!Region(b + HeaderWords, n) \subseteq b .. End(b) - 1
  BY RegionInside
<1>3. Allocator!Region(q, want[q]) \subseteq Header(q) .. End(Header(q)) - 1
  <2> DEFINE h == Header(q)
  <2>1. h \in Blocks /\ want[q] \in Nat /\ want[q] <= 4 * mem[h] /\ q = h + HeaderWords
    BY <1>1
  <2> HIDE DEF h
  <2>2. Allocator!Region(h + HeaderWords, want[q]) \subseteq h .. End(h) - 1
    BY <2>1, RegionInside
  <2> QED
    BY <2>1, <2>2 DEF h
<1>4. \A a \in b .. End(b) - 1 : a \notin Header(q) .. End(Header(q)) - 1
  BY <1>1, ExtentsApart
<1> QED
  BY <1>2, <1>3, <1>4

\* What the block a call returns offers the pointer it is granted to.
LEMMA GrantedRegion ==
  ASSUME HeapInvariant, pc = "return", result # NULL
  PROVE  /\ result \in Addr /\ result \notin Live /\ want[result] = 0
         /\ req.bytes \in Nat /\ req.bytes > 0 /\ HeapStart + 2 <= result
         /\ Header(result) \in Blocks /\ result = Header(result) + HeaderWords
         /\ End(Header(result)) = result + mem[Header(result)]
         /\ mem[Header(result)] \in Nat /\ req.bytes <= 4 * mem[Header(result)]
         /\ Allocator!Region(result, req.bytes) \subseteq Addr
         /\ \A q \in Live : Allocator!Region(result, req.bytes)
                              \intersect Allocator!Region(q, want[q]) = {}
<1> DEFINE b == Header(result)
<1>1. /\ result \in Addr /\ result \notin Live /\ want[result] = 0
      /\ req.bytes \in Nat /\ req.bytes > 0 /\ req.bytes <= 4 * mem[b]
      /\ b \in Blocks /\ \A q \in Live : Header(q) # b
  BY ReturnFacts
<1>2. result = b + HeaderWords /\ result \in Int
  BY <1>1, AddrInt DEF Header, HeaderWords
<1> HIDE DEF b
<1>3. /\ Allocator!Region(result, req.bytes) \subseteq Addr
      /\ \A q \in Live : Allocator!Region(result, req.bytes)
                           \intersect Allocator!Region(q, want[q]) = {}
  BY <1>1, <1>2, RegionInside, RegionsApart
<1>4. mem[b] \in Nat /\ HeapStart <= b /\ HeapStart \in Int /\ b \in Int
  BY <1>1, Facts, EndsApart DEF Memory
<1>5. End(b) = result + mem[b] /\ HeapStart + 2 <= result
  BY <1>2, <1>4 DEF End, HeaderWords
<1> QED
  BY <1>1, <1>2, <1>3, <1>4, <1>5 DEF b

\* Writes to the block in hand leave every owned word as it was.
LEMMA InHandQuiet ==
  ASSUME HeapInvariant, pc = "return", result # NULL,
         \A a \in Addr : a \notin result .. result + mem[Header(result)] - 1
                           => mem'[a] = mem[a]
  PROVE  Quiet
<1>1. /\ InHand = {Header(result)} /\ result = Header(result) + HeaderWords
      /\ End(Header(result)) = result + mem[Header(result)] /\ Header(result) \in Int
      /\ mem[Header(result)] \in Nat /\ result \in Int
  BY ReturnFacts, GrantedRegion, EndsApart, AddrInt
<1>2. \A a \in result .. result + mem[Header(result)] - 1 :
        a \in Header(result) .. End(Header(result)) - 1
  BY <1>1 DEF HeaderWords
<1> QED
  BY <1>1, <1>2, QuietWrites

\* malloc and calloc grant a region no pointer owns a word of.
LEMMA GrantStep ==
  ASSUME HeapInvariant, pc = "return", result # NULL,
         want' = [want EXCEPT ![result] = req.bytes],
         \A a \in Addr : a \notin result .. result + mem[Header(result)] - 1
                           => mem'[a] = mem[a]
  PROVE  Allocator!Next
<1>1. /\ result \in Addr /\ want[result] = 0 /\ req.bytes > 0 /\ HeapStart + 2 <= result
      /\ Allocator!Region(result, req.bytes) \subseteq Addr
      /\ \A q \in Live : Allocator!Region(result, req.bytes)
                           \intersect Allocator!Region(q, want[q]) = {}
      /\ want \in [Addr -> Nat] /\ HeapStart \in Int /\ result \in Int
      /\ req.bytes \in Nat
  BY GrantedRegion, EndsApart, AddrInt DEF HeapInvariant, TypeOK
<1>2. want'[result] = req.bytes /\ \A q \in Addr \ {result} : want'[q] = want[q]
  BY <1>1
<1>3. \A q \in Addr \ {result} : Image(q)' = Image(q)
  BY <1>2, InHandQuiet, ImageKept DEF Quiet
<1>4. images' = [images EXCEPT ![result] = images'[result]]
  BY <1>1, <1>3 DEF images
<1>5. Allocator!Grant(result, req.bytes)
  BY <1>1, <1>4 DEF Allocator!Grant, Allocator!Owned, Live, images
<1> QED
  BY <1>1, <1>2, <1>5 DEF Allocator!Next

\* free, and realloc to 0, give up a region and touch no other.
LEMMA ReleaseStep ==
  ASSUME HeapInvariant, NEW p \in Live, Release(p, 0)
  PROVE  Allocator!Next
<1>1. p \in Addr /\ want \in [Addr -> Nat] /\ want' = [want EXCEPT ![p] = 0] /\ mem' = mem
  BY DEF Live, HeapInvariant, TypeOK, Release, heapVars
<1>2. Image(p)' = <<>>
  BY <1>1, EmptyImage DEF Image
<1>3. \A q \in Addr \ {p} : Image(q)' = Image(q)
  BY <1>1, ImageKept
<1>4. images' = [images EXCEPT ![p] = <<>>]
  BY <1>1, <1>2, <1>3 DEF images
<1>5. Allocator!Release(p)
  BY <1>1, <1>4 DEF Allocator!Release, Allocator!Owned, Live, images
<1> QED
  BY <1>1, <1>5 DEF Allocator!Next

\* realloc in place changes how many bytes are owned, not what they hold.
LEMMA ResizeStep ==
  ASSUME HeapInvariant, NEW p \in Live, NEW n \in Nat, n > 0, ReallocInPlace(p, n)
  PROVE  Allocator!Next
<1>1. /\ p \in Addr /\ want \in [Addr -> Nat] /\ want' = [want EXCEPT ![p] = n]
      /\ mem' = mem /\ n <= 4 * mem[Header(p)]
      /\ Header(p) \in Blocks /\ p = Header(p) + HeaderWords
  BY OwnedWords DEF Live, HeapInvariant, TypeOK, ReallocInPlace, heapVars, SizeOf
<1>2. \A q \in Addr \ {p} : Image(q)' = Image(q)
  BY <1>1, ImageKept
<1>3. \A q \in Live \ {p} : Header(q) # Header(p)
  <2> TAKE q \in Live \ {p}
  <2>1. q \in Int /\ p \in Int
    BY OwnedWords
  <2> QED
    BY <2>1 DEF Header, HeaderWords
<1>4. \A q \in Live \ {p} : Allocator!Region(p, n) \intersect Allocator!Region(q, want[q]) = {}
  <2> DEFINE h == Header(p)
  <2>1. h \in Blocks /\ p = h + HeaderWords /\ n <= 4 * mem[h]
        /\ \A q \in Live \ {p} : Header(q) # h
    BY <1>1, <1>3
  <2> HIDE DEF h
  <2>2. \A q \in Live \ {p} :
          Allocator!Region(h + HeaderWords, n) \intersect Allocator!Region(q, want[q]) = {}
    BY <2>1, RegionsApart
  <2> QED
    BY <2>1, <2>2
<1>5. Allocator!Prefix(images[p], images'[p])
  BY <1>1 DEF Allocator!Prefix, images, Image
<1>6. images' = [images EXCEPT ![p] = images'[p]]
  BY <1>1, <1>2 DEF images
<1>7. Allocator!Resize(p, n) /\ want'[p] = n
  BY <1>1, <1>4, <1>5, <1>6 DEF Allocator!Resize, Allocator!Owned, Live, images
<1> QED
  BY <1>1, <1>7 DEF Allocator!Next

\* A moving realloc hands the old contents over to a region of its own.
LEMMA MoveStep ==
  ASSUME HeapInvariant, ReallocMove
  PROVE  Allocator!Next
<1> DEFINE p == req.ptr
           q == result
           old == mem[Header(p)]
<1>1. pc = "return" /\ q # NULL /\ req.op = "realloc"
      /\ want' = [want EXCEPT ![p] = 0, ![q] = req.bytes]
      /\ mem' = [a \in Addr |-> IF a \in q .. q + old - 1 THEN mem[p + (a - q)] ELSE mem[a]]
  BY DEF ReallocMove, SizeOf
<1>2. p \in Live /\ 4 * old < req.bytes
  BY <1>1 DEF HeapInvariant, CallSound, SizeOf
<1>3. /\ q \in Addr /\ q \notin Live /\ want[q] = 0 /\ req.bytes > 0 /\ HeapStart + 2 <= q
      /\ req.bytes \in Nat /\ mem[Header(q)] \in Nat /\ req.bytes <= 4 * mem[Header(q)]
      /\ Allocator!Region(q, req.bytes) \subseteq Addr
      /\ \A x \in Live : Allocator!Region(q, req.bytes)
                           \intersect Allocator!Region(x, want[x]) = {}
      /\ Header(q) \in Blocks /\ End(Header(q)) = q + mem[Header(q)]
      /\ q = Header(q) + HeaderWords
      /\ want \in [Addr -> Nat] /\ HeapStart \in Int /\ q \in Int
  BY <1>1, GrantedRegion, EndsApart, AddrInt DEF HeapInvariant, TypeOK
<1>4. p \in Addr /\ p # q /\ p \in Int /\ old \in Nat /\ want[p] <= 4 * old /\ want[p] \in Nat
  BY <1>2, <1>3, OwnedWords DEF Live
<1>5. old <= mem[Header(q)]
  <2> DEFINE new == mem[Header(q)]
  <2>1. new \in Nat /\ req.bytes <= 4 * new /\ req.bytes \in Nat
    BY <1>3
  <2> HIDE DEF new, old
  <2>2. old <= new
    BY <2>1, <1>2, <1>4
  <2> QED
    BY <2>2 DEF new
<1> HIDE DEF p, q, old
<1>6. \A a \in Addr : a \notin q .. q + mem[Header(q)] - 1 => mem'[a] = mem[a]
  BY <1>1, <1>3, <1>4, <1>5
<1>7. Quiet
  BY <1>1, <1>6, InHandQuiet DEF q
<1>8. want'[q] = req.bytes /\ want'[p] = 0 /\ \A x \in Addr \ {p, q} : want'[x] = want[x]
  BY <1>1, <1>3, <1>4
<1>9. \A x \in Addr \ {p, q} : Image(x)' = Image(x)
  BY <1>7, <1>8, ImageKept DEF Quiet
<1>10. \A x \in Addr : want'[x] = 0 => Image(x)' = <<>>
  BY EmptyImage DEF Image
<1>11. images' = [images EXCEPT ![p] = <<>>, ![q] = images'[q]]
  BY <1>3, <1>4, <1>8, <1>9, <1>10 DEF images
<1>12. \A x \in Addr : /\ DOMAIN images[x] = 1 .. want[x] \div 4
                       /\ DOMAIN images'[x] = 1 .. want'[x] \div 4
                       /\ \A i \in 1 .. want[x] \div 4 : images[x][i] = mem[x + i - 1]
                       /\ \A i \in 1 .. want'[x] \div 4 : images'[x][i] = mem'[x + i - 1]
  BY DEF images, Image
<1>13. ASSUME NEW i \in 1 .. want[p] \div 4, i \in 1 .. req.bytes \div 4
       PROVE  mem'[q + i - 1] = mem[p + i - 1]
  <2>1. i \in Nat /\ i >= 1 /\ i <= old
    BY <1>4
  <2>2. q + i - 1 \in q .. q + old - 1
    BY <1>3, <1>4, <2>1
  <2>3. q + i - 1 \in Addr
    <3>1. q + i - 1 \in q .. End(Header(q)) - 1 /\ End(Header(q)) <= heapEnd
      BY <1>3, <1>4, <1>5, <2>1, EndsApart
    <3>2. heapEnd \in Nat /\ heapEnd < RamWords /\ RamWords \in Nat /\ q \in Nat
          /\ End(Header(q)) \in Int
      BY <1>3, Facts, EndsApart, AddrInt, HeapAssumption DEF Addr
    <3> QED
      BY <3>1, <3>2 DEF Addr
  <2>4. p + ((q + i - 1) - q) = p + i - 1
    BY <1>3, <1>4, <2>1
  <2> QED
    BY <1>1, <2>2, <2>3, <2>4
<1>14. Allocator!Prefix(images[p], images'[q])
  <2>1. /\ DOMAIN images[p] = 1 .. want[p] \div 4
        /\ DOMAIN images'[q] = 1 .. req.bytes \div 4
        /\ \A i \in 1 .. want[p] \div 4 : images[p][i] = mem[p + i - 1]
        /\ \A i \in 1 .. req.bytes \div 4 : images'[q][i] = mem'[q + i - 1]
    BY <1>3, <1>4, <1>8, <1>12
  <2> QED
    BY <2>1, <1>13 DEF Allocator!Prefix
<1>15. Allocator!Move(p, q, req.bytes)
  BY <1>1, <1>2, <1>3, <1>4, <1>11, <1>14
     DEF Allocator!Move, Allocator!Owned, Live, images
<1> QED
  BY <1>3, <1>4, <1>8, <1>15 DEF Allocator!Next

\* The program's own writes change the image of one pointer.
LEMMA StoreStep ==
  ASSUME HeapInvariant, NEW p \in Addr, NEW v \in Data, Fill(p, v)
  PROVE  Allocator!Next
<1> DEFINE w == want[p] \div 4
<1>1. /\ p \in Live /\ want' = want
      /\ mem' = [a \in Addr |-> IF a \in p .. p + w - 1 THEN v ELSE mem[a]]
  BY DEF Fill
<1>2. /\ p \in Int /\ want[p] \in Nat /\ mem[Header(p)] \in Nat /\ Header(p) \in Blocks
      /\ want[p] <= 4 * mem[Header(p)] /\ p = Header(p) + HeaderWords
      /\ End(Header(p)) = p + mem[Header(p)]
      /\ \A a \in p .. End(Header(p)) - 1 : a \in Addr
  BY <1>1, OwnedWords
<1>3. w \in Nat /\ w <= mem[Header(p)]
  BY <1>2
<1>4. ASSUME NEW q \in Addr \ {p}
      PROVE  Image(q)' = Image(q)
  <2>1. ASSUME q \in Live, NEW a \in q .. End(Header(q)) - 1
        PROVE  mem'[a] = mem[a]
    <3>1. Header(q) \in Blocks /\ q \in Int /\ q = Header(q) + HeaderWords /\ a \in Addr
      BY <2>1, OwnedWords
    <3>2. Header(q) # Header(p) /\ Header(q) \in Int /\ Header(p) \in Int
      BY <1>2, <3>1 DEF Header, HeaderWords
    <3>3. a \in Header(q) .. End(Header(q)) - 1
      BY <2>1, <3>1, <3>2, EndsApart DEF HeaderWords
    <3>4. a \notin Header(p) .. End(Header(p)) - 1
      BY <1>2, <3>1, <3>2, <3>3, ExtentsApart
    <3>5. a \notin p .. p + w - 1
      <4> DEFINE h == Header(p)
      <4>1. h \in Int /\ p = h + HeaderWords /\ End(h) = p + mem[h] /\ mem[h] \in Nat
            /\ w <= mem[h] /\ a \notin h .. End(h) - 1 /\ a \in Int
        BY <1>2, <1>3, <3>1, <3>2, <3>4, AddrInt
      <4> HIDE DEF h, w
      <4> QED
        BY <4>1, <1>2, <1>3 DEF HeaderWords
    <3> QED
      BY <1>1, <3>1, <3>5
  <2> QED
    BY <1>1, <2>1, ImageKept
<1>5. \A i \in 1 .. w : mem'[p + i - 1] = v
  <2> TAKE i \in 1 .. w
  <2>1. p + i - 1 \in p .. p + w - 1 /\ p + i - 1 \in Addr
    BY <1>2, <1>3
  <2> QED
    BY <1>1, <2>1
<1>6. Image(p)' = [i \in 1 .. w |-> v]
  BY <1>1, <1>5 DEF Image
<1>7. DOMAIN images[p] = 1 .. w
  BY DEF images, Image
<1>8. images' = [images EXCEPT ![p] = [i \in DOMAIN images[p] |-> v]]
  BY <1>4, <1>6, <1>7 DEF images
<1>9. Allocator!Store(p, v)
  BY <1>1, <1>8 DEF Allocator!Store, Allocator!Owned, Live, images
<1> QED
  BY <1>9 DEF Allocator!Next

\* What malloc, calloc and a failing realloc return is a grant, or nothing.
LEMMA ReturnStep ==
  ASSUME HeapInvariant, MallocReturn \/ CallocReturn \/ ReallocFailed
  PROVE  Allocator!Next \/ UNCHANGED Allocator!vars
<1>1. CASE result = NULL
  <2>1. mem' = mem /\ want' = want
    BY <1>1 DEF MallocReturn, CallocReturn, ReallocFailed, heapVars
  <2> QED
    BY <2>1, QuietStutters DEF Quiet
<1>2. CASE MallocReturn /\ result # NULL
  BY <1>2, GrantStep DEF MallocReturn, heapVars
<1>3. CASE CallocReturn /\ result # NULL
  <2> DEFINE words == (req.bytes % Wrap) \div 4
  <2>1. /\ result \in Int /\ req.bytes \in Nat /\ req.bytes < Wrap
        /\ req.bytes <= 4 * mem[Header(result)] /\ mem[Header(result)] \in Nat
    BY <1>3, ReturnFacts, Facts, AddrInt DEF CallocReturn, Memory
  <2>2. req.bytes % Wrap = req.bytes
    BY <2>1, HeapAssumption
  <2>3. words \in Int /\ words <= mem[Header(result)]
    BY <2>1, <2>2
  <2> HIDE DEF words
  <2>4. /\ pc = "return" /\ want' = [want EXCEPT ![result] = req.bytes]
        /\ mem' = [a \in Addr |-> IF a \in result .. result + words - 1 THEN 0 ELSE mem[a]]
    BY <1>3 DEF CallocReturn, words
  <2>5. \A a \in Addr : a \notin result .. result + mem[Header(result)] - 1
                          => mem'[a] = mem[a]
    BY <2>1, <2>3, <2>4
  <2> QED
    BY <1>3, <2>4, <2>5, GrantStep
<1> QED
  BY <1>1, <1>2, <1>3 DEF ReallocFailed

\* Beginning to look through the free list shows the program nothing.
LEMMA AllocateStep ==
  ASSUME HeapInvariant, NEW op, NEW p, NEW n, Allocate(op, p, n)
  PROVE  UNCHANGED Allocator!vars
<1>1. mem' = mem /\ want' = want
  BY DEF Allocate, Refuse, EnterTakeFree, vars, heapVars
<1> QED
  BY <1>1, QuietStutters DEF Quiet

\* Every step of the allocator and of the program is one step of the abstract
\* allocator, or none.
LEMMA AllocatorStep ==
  ASSUME HeapInvariant, [Next]_vars
  PROVE  [Allocator!Next]_(Allocator!vars)
<1>1. CASE Step
  <2>1. CASE TakeSplit \/ TakeWhole \/ Bump \/ FreeLink
    <3>1. Quiet
      BY <2>1, TakeQuiet, BumpQuiet, FreeLinkQuiet
    <3>2. want' = want
      BY <2>1 DEF TakeSplit, TakeWhole, Bump, FreeLink
    <3> QED
      BY <3>1, <3>2, QuietStutters
  <2>2. CASE TakeAdvance \/ FreeAdvance
    <3>1. mem' = mem /\ want' = want
      BY <2>2 DEF TakeAdvance, FreeAdvance, heapVars
    <3> QED
      BY <3>1, QuietStutters DEF Quiet
  <2> QED
    BY <1>1, <2>1, <2>2, ReturnStep, MoveStep DEF Step
<1>2. CASE FreeNull \/ UNCHANGED vars
  <2>1. mem' = mem /\ want' = want
    BY <1>2 DEF FreeNull, vars, heapVars
  <2> QED
    BY <2>1, QuietStutters DEF Quiet
<1>3. ASSUME NEW n \in Requests, Malloc(n)
      PROVE  [Allocator!Next]_(Allocator!vars)
  BY <1>3, AllocateStep DEF Malloc
<1>4. ASSUME NEW c \in Requests, NEW n \in Requests, Calloc(c, n)
      PROVE  [Allocator!Next]_(Allocator!vars)
  <2>1. CASE Refuse
    <3>1. mem' = mem /\ want' = want
      BY <2>1 DEF Refuse, vars, heapVars
    <3> QED
      BY <3>1, QuietStutters DEF Quiet
  <2> QED
    BY <1>4, <2>1, AllocateStep DEF Calloc
<1>5. ASSUME NEW p \in Addr, Free(p)
      PROVE  [Allocator!Next]_(Allocator!vars)
  BY <1>5, ReleaseStep DEF Free
<1>6. ASSUME NEW p \in Addr, NEW n \in Requests, Realloc(p, n)
      PROVE  [Allocator!Next]_(Allocator!vars)
  <2>1. n \in Nat
    BY HeapAssumption
  <2> QED
    BY <1>6, <2>1, AllocateStep, ReleaseStep, ResizeStep DEF Realloc
<1>7. ASSUME NEW p \in Addr, NEW v \in Data, Fill(p, v)
      PROVE  [Allocator!Next]_(Allocator!vars)
  BY <1>7, StoreStep
<1>8. ASSUME NEW s \in StackTops, StackMove(s)
      PROVE  [Allocator!Next]_(Allocator!vars)
  <2>1. mem' = mem /\ want' = want
    BY <1>8 DEF StackMove, heapVars
  <2> QED
    BY <2>1, QuietStutters DEF Quiet
<1> QED
  BY <1>1, <1>2, <1>3, <1>4, <1>5, <1>6, <1>7, <1>8 DEF Next

\* A program that starts owns nothing.
LEMMA AllocatorInit == Init => Allocator!Init
<1> SUFFICES ASSUME Init PROVE Allocator!Init
  OBVIOUS
<1>1. want = [p \in Addr |-> 0]
  BY DEF Init
<1>2. \A p \in Addr : Image(p) = <<>>
  BY <1>1, EmptyImage
<1> QED
  BY <1>1, <1>2 DEF Allocator!Init

\* The allocator implements Allocator: through every split, merge, copy and
\* growth, each pointer keeps its own words and what was stored there.
THEOREM Refinement == Spec => ImplementsAllocator
  BY AllocatorInit, AllocatorStep, Invariance, PTL
     DEF Spec, ImplementsAllocator, Allocator!Spec

-----------------------------------------------------------------------------
(* Every call returns.  CallsReturn, which says so, needs fairness; what    *)
(* follows needs none: a number falls with every step of a call, so a call  *)
(* that keeps stepping can take only so many steps.                         *)

\* How far a cursor of a list walk still has to go; NULL ends the walk.
Ahead(b) == IF b = NULL THEN 0 ELSE RamWords - b

\* What is left of a call: the walk of malloc, its return, and the walk of
\* the free that ends a realloc.
LeftOfCall ==
    CASE pc = "take" -> RamWords + 3 + Ahead(block)
      [] pc = "return" -> RamWords + 2
      [] pc = "seek" -> 1 + Ahead(next)
      [] OTHER -> 0

\* A cursor is never farther away than all of memory.
LEMMA AheadBounded == \A b \in Addr : Ahead(b) \in 0 .. RamWords
  BY HeapAssumption DEF Addr, Ahead, NULL

\* Following a link of the free list brings the end of the walk nearer.
LEMMA AheadFalls ==
  ASSUME HeapInvariant, NEW b \in chain
  PROVE  NextOf(b) \in Addr /\ Ahead(NextOf(b)) < Ahead(b)
<1>1. b \in Addr /\ b # NULL
  <2>1. HeapStart <= b /\ b \in Addr
    BY DEF HeapInvariant, Disjoint, Tiled, Blocks, TypeOK
  <2> QED
    BY <2>1, HeapAssumption DEF NULL, Addr
<1>2. LeastAbove(chain, b, NextOf(b))
  BY DEF HeapInvariant, ListSound, Threaded, NextOf
<1>3. NextOf(b) = NULL \/ (NextOf(b) \in Addr /\ b < NextOf(b))
  BY <1>2 DEF LeastAbove, HeapInvariant, TypeOK
<1> QED
  BY <1>1, <1>3, NullAddr, HeapAssumption DEF Ahead, Addr, NULL

\* What is left of a call is a number, and none is left between calls.
LEMMA LeftOfCallCounts == TypeOK => LeftOfCall \in 0 .. 2 * RamWords + 3
<1> SUFFICES ASSUME TypeOK PROVE LeftOfCall \in 0 .. 2 * RamWords + 3
  OBVIOUS
<1>1. pc \in {"idle", "take", "return", "seek"} /\ block \in Addr /\ next \in Addr
  BY DEF TypeOK
<1>2. Ahead(block) \in 0 .. RamWords /\ Ahead(next) \in 0 .. RamWords
  BY <1>1, AheadBounded
<1> HIDE DEF Ahead
<1> QED
  BY <1>1, <1>2, HeapAssumption DEF LeftOfCall

\* Every step of a call leaves less of it.
LEMMA CallDescends ==
  HeapInvariant /\ Step => LeftOfCall' < LeftOfCall
<1> SUFFICES ASSUME HeapInvariant, Step PROVE LeftOfCall' < LeftOfCall
  OBVIOUS
<1>1. /\ RamWords \in Nat /\ freeList \in Addr
      /\ block \in Addr /\ next \in Addr
  BY HeapAssumption DEF HeapInvariant, TypeOK
<1>2. /\ Ahead(block) \in 0 .. RamWords /\ Ahead(next) \in 0 .. RamWords
      /\ Ahead(freeList) \in 0 .. RamWords
  BY <1>1, AheadBounded
<1>3. CASE TakeAdvance
  <2>1. block \in chain
    BY <1>3, CursorFree DEF TakeAdvance, HeapInvariant
  <2>2. Ahead(block') < Ahead(block) /\ Ahead(block') \in 0 .. RamWords
    BY <1>3, <2>1, AheadFalls, AheadBounded DEF TakeAdvance
  <2>3. pc = "take" /\ pc' = "take"
    BY <1>3 DEF TakeAdvance
  <2>4. /\ LeftOfCall = RamWords + 3 + Ahead(block)
        /\ LeftOfCall' = RamWords + 3 + Ahead(block')
    BY <2>3 DEF LeftOfCall, Ahead
  <2> QED
    BY <1>1, <1>2, <2>2, <2>4
<1>4. CASE TakeSplit \/ TakeWhole \/ Bump
  <2>1. pc = "take" /\ pc' = "return"
    BY <1>4 DEF TakeSplit, TakeWhole, Bump
  <2>2. /\ LeftOfCall = RamWords + 3 + Ahead(block)
        /\ LeftOfCall' = RamWords + 2
    BY <2>1 DEF LeftOfCall
  <2> QED
    BY <1>1, <1>2, <2>2
<1>5. CASE MallocReturn \/ CallocReturn \/ ReallocFailed
  <2>1. pc = "return" /\ pc' = "idle"
    BY <1>5 DEF MallocReturn, CallocReturn, ReallocFailed, Return
  <2>2. LeftOfCall = RamWords + 2 /\ LeftOfCall' = 0
    BY <2>1 DEF LeftOfCall
  <2> QED
    BY <1>1, <2>2
<1>6. CASE ReallocMove
  <2>1. pc = "return" /\ pc' = "seek" /\ next' = freeList
    BY <1>6 DEF ReallocMove
  <2>2. LeftOfCall = RamWords + 2 /\ LeftOfCall' = 1 + Ahead(freeList)
    BY <2>1 DEF LeftOfCall, Ahead
  <2> QED
    BY <1>1, <1>2, <2>2
<1>7. CASE FreeAdvance
  <2>1. next \in chain
    BY <1>7 DEF FreeAdvance, Seeking, HeapInvariant, CursorsSound, LeastAbove
  <2>2. Ahead(next') < Ahead(next) /\ Ahead(next') \in 0 .. RamWords
    BY <1>7, <2>1, AheadFalls, AheadBounded DEF FreeAdvance
  <2>3. pc = "seek" /\ pc' = "seek"
    BY <1>7 DEF FreeAdvance
  <2>4. LeftOfCall = 1 + Ahead(next) /\ LeftOfCall' = 1 + Ahead(next')
    BY <2>3 DEF LeftOfCall, Ahead
  <2> QED
    BY <1>1, <1>2, <2>2, <2>4
<1>8. CASE FreeLink
  <2>1. pc = "seek" /\ pc' = "idle"
    BY <1>8 DEF FreeLink, Return
  <2>2. LeftOfCall = 1 + Ahead(next) /\ LeftOfCall' = 0
    BY <2>1 DEF LeftOfCall
  <2> QED
    BY <1>1, <1>2, <2>2
<1> QED
  BY <1>3, <1>4, <1>5, <1>6, <1>7, <1>8 DEF Step

\* The list walks of malloc and free end: each step inside a call leaves
\* less of it, and there is never more than two walks of the memory left. A
\* call to malloc, calloc, realloc or free takes at most 2 * RamWords + 3
\* steps, whatever the program stored in the blocks it owned.
THEOREM CallsDescend ==
  Spec => /\ [](LeftOfCall \in 0 .. 2 * RamWords + 3)
          /\ [][pc # "idle" => LeftOfCall' < LeftOfCall]_vars
<1>1. HeapInvariant => LeftOfCall \in 0 .. 2 * RamWords + 3
  BY LeftOfCallCounts DEF HeapInvariant
<1>2. HeapInvariant /\ [Next]_vars
        => [pc # "idle" => LeftOfCall' < LeftOfCall]_vars
  <2> SUFFICES ASSUME HeapInvariant, Next, pc # "idle"
               PROVE  LeftOfCall' < LeftOfCall
    OBVIOUS
  <2>1. Step
    BY DEF Next, FreeNull, Malloc, Calloc, Free, Realloc, Fill, StackMove
  <2> QED
    BY <2>1, CallDescends
<1> QED
  BY <1>1, <1>2, Invariance, PTL DEF Spec
=============================================================================
