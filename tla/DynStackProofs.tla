--------------------------- MODULE DynStackProofs ---------------------------
(***************************************************************************)
(* Proofs, for every nesting of blocks and loops, that the arrays of       *)
(* DynStack stay apart, are released when their scope is left, and trap    *)
(* only when they do not fit.                                              *)
(*                                                                         *)
(* Two restrictions are hypotheses of the theorems that need them, and     *)
(* without them the properties fail: the code compares the new stack       *)
(* pointer only after it has wrapped (backend.py:794), and continue in a   *)
(* plain loop passes over the body's own marker (ir.py:399, the run        *)
(* continue_leak).  Types and the trap need neither.                       *)
(***************************************************************************)
EXTENDS DynStack, FiniteSetTheorems, SequenceTheorems, TLAPS

Address == 0 .. RamWords - 1
Array == [base : Address, size : Nat]
OpenScope == [marker : {None} \union Address, arrays : SUBSET Array]
OpenLoop == [outside : Nat, own : BOOLEAN]

Types ==
    /\ sp \in Address
    /\ heapEnd \in 0 .. RamWords
    /\ scopes \in Seq(OpenScope)
    /\ loops \in Seq(OpenLoop)
    /\ pc \in {"running", "_stack_overflow", "returned"}
    /\ asked \in Nat

\* Every scope a loop counts is open, and an inner loop is inside the body of
\* an outer one.
LoopsNested ==
    /\ \A i \in 1 .. Len(loops) : Around(loops[i]) <= Len(scopes)
    /\ \A i, j \in 1 .. Len(loops) : i < j => Around(loops[i]) <= loops[j].outside

Apart(a, b) == a.base + a.size <= b.base \/ b.base + b.size <= a.base

\* Where the scopes s keep their arrays when the stack pointer is p: below
\* the marker of their own scope, above that of every scope inside.
Layout(s, p) ==
    /\ p <= Entry
    /\ \A i \in 1 .. Len(s) :
         /\ s[i].marker # None => p <= s[i].marker /\ s[i].marker <= Entry
         /\ \A a \in s[i].arrays :
              /\ s[i].marker # None /\ p <= a.base /\ 0 < a.size
              /\ a.base + a.size <= s[i].marker
         /\ \A a, b \in s[i].arrays : a # b => Apart(a, b)
    /\ \A i, j \in 1 .. Len(s) : i < j /\ s[j].marker # None =>
         /\ s[i].marker # None => s[j].marker <= s[i].marker
         /\ \A a \in s[i].arrays : s[j].marker <= a.base

\* p is the lowest address the first k scopes of s use.
Lowest(s, k, p) ==
    /\ \A i \in 1 .. k : \A a \in s[i].arrays : p <= a.base
    /\ \/ p = Entry /\ \A i \in 1 .. k : s[i].arrays = {}
       \/ \E i \in 1 .. k : \E a \in s[i].arrays : p = a.base

\* No storage is kept longer than the scope that declared it: the stack pointer
\* and each marker are the lowest address used then.
Exact(s, p) ==
    /\ Lowest(s, Len(s), p)
    /\ \A i \in 1 .. Len(s) : s[i].marker # None => Lowest(s, i - 1, s[i].marker)

Shape == Types /\ LoopsNested

StackInvariant ==
    /\ Shape
    /\ Layout(scopes, sp)
    /\ HeapTop <= sp /\ HeapStart <= HeapTop

ExactInvariant == Exact(scopes, sp)

\* What a step keeps: the types whatever happens, the layout if no request
\* reaches below the stack, exactness if every scope that closes is restored.
Kept(fits, restored) ==
    /\ Shape'
    /\ StackInvariant /\ fits => StackInvariant'
    /\ StackInvariant /\ ExactInvariant /\ fits /\ restored => ExactInvariant'

\* No request reaches below the stack: sizes are at most that of the static
\* data, which lies under every stack pointer.
RequestsBelowWrap == Sizes \subseteq 0 .. HeapStart

\* A set of natural numbers has a least element.
LEMMA LeastNatural ==
  ASSUME NEW S \in SUBSET Nat, S # {}
  PROVE  \E m \in S : \A n \in S : m <= n
<1> DEFINE family == {0 .. n : n \in S}
           R == StrictSubsetOrdering(Nat)
<1>1. IsWellFoundedOn(R, FiniteSubsetsOf(Nat))
  BY FS_StrictSubsetOrderingWellFounded
<1>2. \A n \in S : 0 .. n \in FiniteSubsetsOf(Nat)
  BY FS_Interval DEF FiniteSubsetsOf
<1>3. family \subseteq FiniteSubsetsOf(Nat) /\ family # {}
  BY <1>2
<1> HIDE DEF R
<1>4. \E x \in family : \A y \in family : ~ (<<y, x>> \in R)
  BY <1>1, <1>3, WFMin
<1>5. PICK m \in S : \A n \in S : ~ (<<0 .. n, 0 .. m>> \in R)
  BY <1>4
<1>6. ASSUME NEW n \in S, n < m
      PROVE  FALSE
  <2>1. /\ 0 .. n \in SUBSET Nat /\ 0 .. m \in SUBSET Nat
        /\ 0 .. n \subseteq 0 .. m /\ m \in 0 .. m /\ m \notin 0 .. n
    BY <1>6
  <2>2. <<0 .. n, 0 .. m>> \in R
    BY <2>1 DEF R, StrictSubsetOrdering
  <2> QED
    BY <1>5, <2>2
<1> QED
  BY <1>6

\* The outermost scopes of a sequence of scopes.
LEMMA Outer ==
  ASSUME NEW s \in Seq(OpenScope), NEW k \in 0 .. Len(s)
  PROVE  /\ SubSeq(s, 1, k) \in Seq(OpenScope)
         /\ Len(SubSeq(s, 1, k)) = k
         /\ \A i \in 1 .. k : SubSeq(s, 1, k)[i] = s[i]
<1>1. Len(s) \in Nat /\ k \in Nat /\ \A i \in 1 .. k : s[i] \in OpenScope
  BY LenProperties, ElementOfSeq
<1>2. /\ SubSeq(s, 1, k) \in Seq(OpenScope)
      /\ Len(SubSeq(s, 1, k)) = IF 1 <= k THEN k - 1 + 1 ELSE 0
      /\ \A i \in 1 .. k - 1 + 1 : SubSeq(s, 1, k)[i] = s[1 + i - 1]
  BY <1>1, SubSeqProperties
<1>3. \A i \in 1 .. k : 1 + i - 1 = i
  BY <1>1
<1> QED
  BY <1>1, <1>2, <1>3

\* A scope of a sequence of scopes, field by field.
LEMMA ScopeTypes ==
  ASSUME NEW s \in Seq(OpenScope)
  PROVE  /\ Len(s) \in Nat
         /\ \A i \in 1 .. Len(s) :
              /\ s[i].marker # None => s[i].marker \in Nat
              /\ \A a \in s[i].arrays : a.base \in Nat /\ a.size \in Nat
<1>1. Len(s) \in Nat /\ \A i \in 1 .. Len(s) : s[i] \in OpenScope
  BY LenProperties, ElementOfSeq
<1>2. Address \subseteq Nat
  BY StackAssumption DEF Address
<1> QED
  BY <1>1, <1>2 DEF OpenScope, Array, None

\* The scopes that leaving a body restores: either none of them has a marker,
\* or the outermost marker is the one that counts.
LEMMA RestoredIs ==
  ASSUME Types, NEW from \in 1 .. Len(scopes) + 1
  PROVE  \/ /\ \A i \in from .. Len(scopes) : ~Marked(i)
            /\ Restored(from) = sp
         \/ \E m \in from .. Len(scopes) :
              /\ Marked(m) /\ Restored(from) = scopes[m].marker
              /\ \A i \in from .. m - 1 : ~Marked(i)
<1> DEFINE marked == {i \in from .. Len(scopes) : Marked(i)}
<1>1. Len(scopes) \in Nat /\ marked \in SUBSET Nat
  BY ScopeTypes DEF Types
<1>2. CASE marked = {}
  BY <1>2 DEF Restored
<1>3. CASE marked # {}
  <2>1. PICK m \in marked : \A i \in marked : m <= i
    BY <1>1, <1>3, LeastNatural
  <2>2. Min(marked) \in marked /\ \A i \in marked : Min(marked) <= i
    BY <2>1 DEF Min
  <2> DEFINE n == Min(marked)
  <2> HIDE DEF n
  <2>3. Restored(from) = scopes[n].marker
    BY <1>3 DEF Restored, n
  <2>4. n \in from .. Len(scopes) /\ Marked(n)
    BY <2>2 DEF n
  <2>5. \A i \in from .. n - 1 : ~Marked(i)
    BY <1>1, <2>2, <2>4 DEF n
  <2> QED
    BY <2>3, <2>4, <2>5
<1> QED
  BY <1>2, <1>3

\* The stack pointer stays an address.
LEMMA RestoredAddress ==
  ASSUME Types, NEW from \in 1 .. Len(scopes) + 1
  PROVE  Restored(from) \in Address
<1>1. scopes \in Seq(OpenScope) /\ Len(scopes) \in Nat /\ from \in Nat
  BY ScopeTypes DEF Types
<1>2. CASE Restored(from) = sp
  BY <1>2 DEF Types
<1>3. ASSUME NEW m \in from .. Len(scopes), Marked(m), Restored(from) = scopes[m].marker
      PROVE  Restored(from) \in Address
  <2>1. m \in 1 .. Len(scopes)
    BY <1>1
  <2>2. scopes[m] \in OpenScope
    BY <1>1, <2>1, ElementOfSeq
  <2> QED
    BY <1>3, <2>2 DEF OpenScope, Marked
<1> QED
  BY <1>2, <1>3, RestoredIs

\* Leaving scopes keeps the layout of those that stay open.
LEMMA RestoreLayout ==
  ASSUME Types, Layout(scopes, sp),
         NEW from \in 1 .. Len(scopes) + 1, NEW k \in 0 .. from - 1
  PROVE  /\ Layout(SubSeq(scopes, 1, k), Restored(from))
         /\ sp <= Restored(from)
<1> DEFINE r == Restored(from)
           t == SubSeq(scopes, 1, k)
<1>1. /\ scopes \in Seq(OpenScope) /\ Len(scopes) \in Nat /\ sp \in Nat /\ Entry \in Nat
      /\ sp < RamWords /\ RamWords \in Nat /\ Entry < RamWords
      /\ \A i \in 1 .. Len(scopes) :
           /\ Marked(i) => scopes[i].marker \in Nat
           /\ \A a \in scopes[i].arrays : a.base \in Nat /\ a.size \in Nat
  BY ScopeTypes, StackAssumption DEF Types, Address, Marked
<1>2. k \in 0 .. Len(scopes) /\ Len(t) = k /\ \A i \in 1 .. k : t[i] = scopes[i]
  BY <1>1, Outer
<1>3. \/ r = sp
      \/ \E m \in from .. Len(scopes) : Marked(m) /\ r = scopes[m].marker
  BY RestoredIs
<1> HIDE DEF r, t
<1>4. r \in Nat /\ sp <= r /\ r <= Entry
  BY <1>1, <1>3 DEF Layout, Marked
<1>5. ASSUME NEW i \in 1 .. k
      PROVE  /\ Marked(i) => r <= scopes[i].marker
             /\ \A a \in scopes[i].arrays : r <= a.base
  <2>1. i \in 1 .. Len(scopes)
    BY <1>1
  <2>2. \A m \in from .. Len(scopes) : m \in 1 .. Len(scopes) /\ i < m
    BY <1>1
  <2> QED
    BY <1>3, <2>1, <2>2 DEF Layout, Marked
<1>6. Layout(t, r)
  <2>1. 1 .. k \subseteq 1 .. Len(scopes)
    BY <1>1
  <2> QED
    BY <1>2, <1>4, <1>5, <2>1 DEF Layout, Marked
<1> QED
  BY <1>4, <1>6 DEF r, t

\* Leaving scopes releases exactly their arrays, if no scope with a marker is
\* closed without being restored.
LEMMA RestoreExact ==
  ASSUME Types, Layout(scopes, sp), Exact(scopes, sp),
         NEW from \in 1 .. Len(scopes) + 1, NEW k \in 0 .. from - 1,
         \A i \in k + 1 .. from - 1 : ~Marked(i)
  PROVE  Exact(SubSeq(scopes, 1, k), Restored(from))
<1> DEFINE r == Restored(from)
           t == SubSeq(scopes, 1, k)
<1>1. scopes \in Seq(OpenScope) /\ Len(scopes) \in Nat
  BY ScopeTypes DEF Types
<1>2. k \in 0 .. Len(scopes) /\ Len(t) = k /\ \A i \in 1 .. k : t[i] = scopes[i]
  BY <1>1, Outer
<1>3. \A i \in 1 .. Len(scopes) : ~Marked(i) => scopes[i].arrays = {}
  BY DEF Layout, Marked
<1>4. PICK n \in k .. Len(scopes) :
        Lowest(scopes, n, r) /\ \A i \in k + 1 .. n : ~Marked(i)
  <2>1. CASE r = sp /\ \A i \in from .. Len(scopes) : ~Marked(i)
    <3>1. Len(scopes) \in k .. Len(scopes) /\ \A i \in k + 1 .. Len(scopes) : ~Marked(i)
      BY <1>1, <2>1
    <3> QED
      BY <2>1, <3>1 DEF Exact
  <2>2. ASSUME NEW m \in from .. Len(scopes), Marked(m), r = scopes[m].marker,
               \A i \in from .. m - 1 : ~Marked(i)
        PROVE  \E n \in k .. Len(scopes) :
                 Lowest(scopes, n, r) /\ \A i \in k + 1 .. n : ~Marked(i)
    <3>1. m - 1 \in k .. Len(scopes) /\ \A i \in k + 1 .. m - 1 : ~Marked(i)
      BY <1>1, <2>2
    <3>2. m \in 1 .. Len(scopes)
      BY <1>1
    <3>3. Lowest(scopes, m - 1, r)
      BY <2>2, <3>2 DEF Exact, Marked
    <3> QED
      BY <3>1, <3>3
  <2> QED
    BY <2>1, <2>2, RestoredIs
<1> HIDE DEF r, t
<1>5. \A i \in k + 1 .. n : i \in 1 .. Len(scopes) /\ scopes[i].arrays = {}
  BY <1>1, <1>3, <1>4
<1>6. Lowest(t, k, r)
  <2>1. \A i \in 1 .. k : i \in 1 .. n
    BY <1>1
  <2>2. \A i \in 1 .. n : i \in 1 .. k \/ i \in k + 1 .. n
    BY <1>1
  <2> QED
    BY <1>2, <1>4, <1>5, <2>1, <2>2 DEF Lowest
<1>7. ASSUME NEW i \in 1 .. k, t[i].marker # None
      PROVE  Lowest(t, i - 1, t[i].marker)
  <2>1. /\ i \in 1 .. Len(scopes) /\ t[i] = scopes[i]
        /\ \A j \in 1 .. i - 1 : t[j] = scopes[j]
    BY <1>1, <1>2
  <2>2. Lowest(scopes, i - 1, scopes[i].marker)
    BY <1>7, <2>1 DEF Exact
  <2> QED
    BY <2>1, <2>2 DEF Lowest
<1> QED
  BY <1>2, <1>6, <1>7 DEF Exact, r, t

\* A scope that opens comes after those that are open.
LEMMA Opened ==
  ASSUME Types, NEW m \in {None, sp}
  PROVE  LET t == Append(scopes, Scope(m))
             n == Len(scopes) + 1
         IN  /\ t \in Seq(OpenScope) /\ Len(t) = n
             /\ \A i \in 1 .. Len(scopes) : t[i] = scopes[i]
             /\ t[n].marker = m /\ t[n].arrays = {}
<1>1. Scope(m) \in OpenScope
  BY DEF Scope, OpenScope, Types
<1> QED
  BY <1>1, AppendProperties, LenProperties DEF Types, Scope

\* It takes no storage and marks the stack as it is.
LEMMA OpenLayout ==
  ASSUME Types, Layout(scopes, sp), NEW m \in {None, sp}
  PROVE  LET t == Append(scopes, Scope(m))
         IN  /\ Layout(t, sp)
             /\ Exact(scopes, sp) => Exact(t, sp)
<1> DEFINE t == Append(scopes, Scope(m))
           n == Len(scopes) + 1
<1>2. /\ t \in Seq(OpenScope) /\ Len(t) = n /\ Len(scopes) \in Nat
      /\ \A i \in 1 .. Len(scopes) : t[i] = scopes[i]
      /\ t[n].marker = m /\ t[n].arrays = {}
  BY Opened, ScopeTypes DEF Types
<1> HIDE DEF t
<1>3. \A i \in 1 .. n : i \in 1 .. Len(scopes) \/ i = n
  BY <1>2
<1>4. sp \in Int
  BY DEF Types, Address
<1>5. Layout(t, sp)
  <2>1. \A i \in 1 .. Len(scopes) : i # n
    BY <1>2
  <2>2. \A j \in 1 .. Len(scopes) : ~(n < j)
    BY <1>2
  <2>3. ASSUME NEW i \in 1 .. n
        PROVE  /\ t[i].marker # None => sp <= t[i].marker /\ t[i].marker <= Entry
               /\ \A a \in t[i].arrays :
                    /\ t[i].marker # None /\ sp <= a.base /\ 0 < a.size
                    /\ a.base + a.size <= t[i].marker
               /\ \A a, b \in t[i].arrays : a # b => Apart(a, b)
    BY <1>2, <1>3, <1>4 DEF Layout
  <2>4. ASSUME NEW i \in 1 .. n, NEW j \in 1 .. n, i < j, t[j].marker # None
        PROVE  /\ t[i].marker # None => t[j].marker <= t[i].marker
               /\ \A a \in t[i].arrays : t[j].marker <= a.base
    <3>1. i \in 1 .. Len(scopes)
      BY <1>2, <2>4
    <3>2. CASE j \in 1 .. Len(scopes)
      BY <1>2, <2>4, <3>1, <3>2 DEF Layout
    <3>3. CASE j = n
      BY <1>2, <1>4, <2>4, <3>1, <3>3 DEF Layout
    <3> QED
      BY <1>3, <3>2, <3>3
  <2> HIDE DEF n
  <2>5. sp <= Entry
    BY DEF Layout
  <2> QED
    BY <1>2, <2>3, <2>4, <2>5 DEF Layout
<1>6. ASSUME Exact(scopes, sp)
      PROVE  Exact(t, sp)
  <2>1. Lowest(scopes, Len(scopes), sp)
    BY <1>6 DEF Exact
  <2>2. Lowest(t, Len(scopes), sp)
    BY <1>2, <2>1 DEF Lowest
  <2>3. Lowest(t, n, sp)
    <3>1. 1 .. Len(scopes) \subseteq 1 .. n
      BY <1>2
    <3> HIDE DEF n
    <3> QED
      BY <1>2, <1>3, <2>2, <3>1 DEF Lowest
  <2>4. ASSUME NEW i \in 1 .. n, t[i].marker # None
        PROVE  Lowest(t, i - 1, t[i].marker)
    <3>1. CASE i = n
      <4>1. i - 1 = Len(scopes) /\ t[i].marker = sp
        BY <1>2, <2>4, <3>1
      <4> QED
        BY <2>2, <4>1
    <3>2. CASE i \in 1 .. Len(scopes)
      <4>1. t[i] = scopes[i] /\ \A j \in 1 .. i - 1 : t[j] = scopes[j]
        BY <1>2, <3>2
      <4>2. Lowest(scopes, i - 1, scopes[i].marker)
        BY <1>6, <2>4, <3>2, <4>1 DEF Exact
      <4> QED
        BY <4>1, <4>2 DEF Lowest
    <3> QED
      BY <1>3, <3>1, <3>2
  <2> QED
    BY <1>2, <2>3, <2>4 DEF Exact
<1> QED
  BY <1>2, <1>5, <1>6 DEF t

\* A new array belongs to the innermost scope.
LEMMA Declared ==
  ASSUME Types, scopes # <<>>, NEW p \in Address, NEW size \in Nat
  PROVE  LET n == Len(scopes)
             new == [base |-> p, size |-> size]
             t == [scopes EXCEPT ![n].arrays = @ \union {new}]
         IN  /\ t \in Seq(OpenScope) /\ Len(t) = n
             /\ t[n].marker = scopes[n].marker
             /\ t[n].arrays = scopes[n].arrays \union {new}
             /\ \A i \in 1 .. n - 1 : t[i] = scopes[i]
<1> DEFINE n == Len(scopes)
           new == [base |-> p, size |-> size]
           s == scopes[n]
           e == [s EXCEPT !.arrays = @ \union {new}]
           t == [scopes EXCEPT ![n].arrays = @ \union {new}]
<1>1. scopes \in Seq(OpenScope) /\ n \in Nat \ {0} /\ n \in 1 .. n
  BY EmptySeq DEF Types
<1>2. s \in OpenScope /\ new \in Array
  BY <1>1, ElementOfSeq DEF Array
<1>3. e \in OpenScope /\ e.marker = s.marker /\ e.arrays = s.arrays \union {new}
  BY <1>2 DEF OpenScope
<1>4. t = [scopes EXCEPT ![n] = e]
  BY <1>1, LenProperties
<1> HIDE DEF e, t, n
<1>5. /\ [scopes EXCEPT ![n] = e] \in Seq(OpenScope)
      /\ Len([scopes EXCEPT ![n] = e]) = Len(scopes)
      /\ \A j \in 1 .. Len(scopes) :
           [scopes EXCEPT ![n] = e][j] = IF j = n THEN e ELSE scopes[j]
  BY <1>1, <1>3, ExceptSeq DEF n
<1>6. Len(scopes) = n
  BY DEF n
<1>7. /\ t \in Seq(OpenScope) /\ Len(t) = n /\ t[n] = e
      /\ \A i \in 1 .. n - 1 : t[i] = scopes[i]
  BY <1>1, <1>4, <1>5, <1>6
<1> QED
  BY <1>3, <1>7 DEF t, n

\* It goes below everything in use.
LEMMA AllocateLayout ==
  ASSUME Types, Layout(scopes, sp), scopes # <<>>, Marked(Len(scopes)),
         NEW p \in Address, NEW size \in Nat, 0 < size, p + size = sp
  PROVE  LET t == [scopes EXCEPT ![Len(scopes)].arrays =
                                 @ \union {[base |-> p, size |-> size]}]
         IN  /\ Layout(t, p)
             /\ Exact(scopes, sp) => Exact(t, p)
<1> DEFINE n == Len(scopes)
           new == [base |-> p, size |-> size]
           s == scopes[n]
           t == [scopes EXCEPT ![n].arrays = @ \union {new}]
           e == t[n]
<1>1. scopes \in Seq(OpenScope) /\ n \in Nat \ {0} /\ n \in 1 .. n
  BY EmptySeq DEF Types
<1>3. /\ Len(t) = n /\ e.marker = s.marker /\ e.arrays = s.arrays \union {new}
      /\ \A i \in 1 .. n - 1 : t[i] = scopes[i]
  BY Declared
<1>5. t[n] = e
  OBVIOUS
<1> HIDE DEF e, t, s, n
<1>6. /\ \A i \in 1 .. n : i \in 1 .. n - 1 \/ i = n
      /\ \A i \in 1 .. n - 1 : i \in 1 .. n /\ i < n
  BY <1>1
<1>7. p \in Nat /\ p < sp /\ sp \in Nat
  BY StackAssumption DEF Types, Address
<1>8. /\ sp <= Entry /\ Entry \in Nat
      /\ \A i \in 1 .. n : /\ scopes[i].marker # None =>
                                scopes[i].marker \in Nat /\ sp <= scopes[i].marker
                           /\ \A a \in scopes[i].arrays :
                                a.base \in Nat /\ a.size \in Nat /\ sp <= a.base
  BY <1>1, ScopeTypes, StackAssumption DEF Layout, n
<1>9. s = scopes[n] /\ s.marker # None /\ s.marker \in Nat /\ sp <= s.marker
  BY <1>1, <1>8 DEF s, n, Marked
<1>10. new.base = p /\ new.size = size
  OBVIOUS
<1> HIDE DEF new
<1>11. Layout(t, p)
  <2>1. \A i \in 1 .. n : t[i].marker = scopes[i].marker
    BY <1>3, <1>5, <1>6, <1>9
  <2>2. \A i \in 1 .. n : t[i].arrays \subseteq scopes[i].arrays \union {new}
    BY <1>3, <1>5, <1>6, <1>9
  <2>3. \A i \in 1 .. n : new \in t[i].arrays => i = n \/ new \in scopes[i].arrays
    BY <1>3, <1>5, <1>6
  <2>4. \A i \in 1 .. n : \A a \in scopes[i].arrays : Apart(new, a) /\ Apart(a, new)
    BY <1>7, <1>8, <1>10 DEF Apart
  <2>5. ASSUME NEW i \in 1 .. n
        PROVE  /\ t[i].marker # None => p <= t[i].marker /\ t[i].marker <= Entry
               /\ \A a \in t[i].arrays :
                    /\ t[i].marker # None /\ p <= a.base /\ 0 < a.size
                    /\ a.base + a.size <= t[i].marker
               /\ \A a, b \in t[i].arrays : a # b => Apart(a, b)
    <3>1. t[i].marker # None => p <= t[i].marker /\ t[i].marker <= Entry
      BY <1>7, <1>8, <2>1 DEF Layout, n
    <3>2. ASSUME NEW a \in t[i].arrays
          PROVE  /\ t[i].marker # None /\ p <= a.base /\ 0 < a.size
                 /\ a.base + a.size <= t[i].marker
      <4>1. CASE a \in scopes[i].arrays
        BY <1>7, <1>8, <2>1, <4>1 DEF Layout, n
      <4>2. CASE a = new /\ i = n
        BY <1>7, <1>8, <1>9, <1>10, <2>1, <4>2
      <4> QED
        BY <2>2, <2>3, <3>2, <4>1, <4>2
    <3>3. \A a, b \in t[i].arrays : a # b => Apart(a, b)
      BY <2>2, <2>4 DEF Layout, n
    <3> QED
      BY <3>1, <3>2, <3>3
  <2>6. ASSUME NEW i \in 1 .. n, NEW j \in 1 .. n, i < j, t[j].marker # None
        PROVE  /\ t[i].marker # None => t[j].marker <= t[i].marker
               /\ \A a \in t[i].arrays : t[j].marker <= a.base
    <3>1. t[i] = scopes[i]
      BY <1>1, <1>3, <1>5, <2>6
    <3> QED
      BY <2>1, <2>6, <3>1 DEF Layout, n
  <2>7. p <= Entry
    BY <1>7, <1>8
  <2> QED
    BY <1>3, <1>5, <2>5, <2>6, <2>7 DEF Layout
<1>12. ASSUME Exact(scopes, sp)
       PROVE  Exact(t, p)
  <2>1. \A i \in 1 .. n : \A a \in t[i].arrays : p <= a.base
    BY <1>3, <1>5, <1>11 DEF Layout
  <2>2. new \in t[n].arrays /\ n \in 1 .. n
    BY <1>1, <1>3, <1>5
  <2>3. Lowest(t, n, p)
    BY <1>10, <2>1, <2>2 DEF Lowest
  <2>4. ASSUME NEW i \in 1 .. n, t[i].marker # None
        PROVE  Lowest(t, i - 1, t[i].marker)
    <3>1. t[i].marker = scopes[i].marker /\ \A j \in 1 .. i - 1 : t[j] = scopes[j]
      BY <1>1, <1>3, <1>5, <1>6, <1>9
    <3>2. Lowest(scopes, i - 1, scopes[i].marker)
      BY <1>12, <2>4, <3>1 DEF Exact, n
    <3> QED
      BY <3>1, <3>2 DEF Lowest
  <2> QED
    BY <1>3, <1>5, <2>3, <2>4 DEF Exact
<1> QED
  BY <1>3, <1>5, <1>11, <1>12 DEF t, n, new

-----------------------------------------------------------------------------
(* The actions.                                                            *)

\* The innermost loop, and the loops around it.
LEMMA LoopFacts ==
  ASSUME Types, LoopsNested, loops # <<>>
  PROVE  /\ Last(loops).outside \in Nat /\ Last(loops).own \in BOOLEAN
         /\ Around(Last(loops)) = Last(loops).outside + (IF Last(loops).own THEN 1 ELSE 0)
         /\ Around(Last(loops)) <= Len(scopes)
         /\ \A i \in 1 .. Len(loops) : Around(loops[i]) <= Around(Last(loops))
         /\ Front(loops) \in Seq(OpenLoop)
         /\ \A i \in 1 .. Len(Front(loops)) : /\ Front(loops)[i] = loops[i]
                                              /\ i \in 1 .. Len(loops)
                                              /\ Around(loops[i]) <= Last(loops).outside
<1> DEFINE n == Len(loops)
<1>1. n \in Nat \ {0} /\ loops \in Seq(OpenLoop) /\ n \in 1 .. n
  BY EmptySeq DEF Types
<1>2. \A i \in 1 .. n : loops[i] \in OpenLoop /\ Around(loops[i]) \in Nat
                        /\ loops[i].outside <= Around(loops[i])
  <2>1. \A i \in 1 .. n : loops[i] \in OpenLoop
    BY <1>1, ElementOfSeq
  <2> QED
    BY <2>1 DEF OpenLoop, Around
<1>3. Last(loops) = loops[n]
  BY DEF Last
<1>4. /\ Front(loops) \in Seq(OpenLoop)
      /\ Len(Front(loops)) = IF 1 <= n - 1 THEN (n - 1) - 1 + 1 ELSE 0
      /\ \A i \in 1 .. (n - 1) - 1 + 1 : Front(loops)[i] = loops[1 + i - 1]
  <2>1. \A i \in 1 .. n - 1 : loops[i] \in OpenLoop
    BY <1>1, <1>2
  <2> HIDE DEF n
  <2>2. 1 \in Int /\ n - 1 \in Int
    BY <1>1
  <2> QED
    BY <2>1, <2>2, SubSeqProperties DEF Front, n
<1> HIDE DEF n
<1>5. Len(Front(loops)) = n - 1 /\ \A i \in 1 .. n - 1 : Front(loops)[i] = loops[i]
  <2>1. \A i \in 1 .. n - 1 : 1 + i - 1 = i
    BY <1>1
  <2> QED
    BY <1>1, <1>4, <2>1
<1>6. \A i \in 1 .. n - 1 : i \in 1 .. n /\ i < n /\ Around(loops[i]) <= loops[n].outside
  <2>1. \A i \in 1 .. n - 1 : i \in 1 .. n /\ i < n
    BY <1>1
  <2> QED
    BY <1>1, <2>1 DEF LoopsNested, n
<1>7. Around(loops[n]) <= Len(scopes)
  BY <1>1 DEF LoopsNested, n
<1>8. \A i \in 1 .. n : Around(loops[i]) <= Around(loops[n])
  <2> TAKE i \in 1 .. n
  <2>1. CASE i = n
    BY <1>2, <2>1
  <2>2. CASE i \in 1 .. n - 1
    <3>1. Around(loops[i]) <= loops[n].outside /\ loops[n] \in OpenLoop
          /\ loops[n].outside <= Around(loops[n])
      BY <1>1, <1>2, <1>6, <2>2
    <3> QED
      BY <1>1, <1>2, <3>1 DEF OpenLoop
  <2> QED
    BY <1>1, <2>1, <2>2
<1>9. loops[n].outside \in Nat /\ loops[n].own \in BOOLEAN
  BY <1>1, <1>2 DEF OpenLoop
<1>10. \A i \in 1 .. Len(Front(loops)) :
         Front(loops)[i] = loops[i] /\ i \in 1 .. n /\ Around(loops[i]) <= loops[n].outside
  BY <1>5, <1>6
<1> QED
  BY <1>3, <1>4, <1>7, <1>8, <1>9, <1>10 DEF Around, n

\* Leaving the scopes above the first k, restoring those from `from' on.
LEMMA LeaveScopes ==
  ASSUME Shape, NEW from \in 1 .. Len(scopes) + 1, NEW k \in 0 .. from - 1,
         sp' = Restored(from), scopes' = SubSeq(scopes, 1, k),
         heapEnd' = heapEnd, asked' = asked,
         pc' \in {"running", "_stack_overflow", "returned"},
         loops' \in Seq(OpenLoop),
         \A i \in 1 .. Len(loops') : Around(loops'[i]) <= k,
         \A i, j \in 1 .. Len(loops') : i < j => Around(loops'[i]) <= loops'[j].outside
  PROVE  Kept(TRUE, \A i \in k + 1 .. from - 1 : ~Marked(i))
<1>1. Types /\ scopes' \in Seq(OpenScope) /\ Len(scopes') = k
  <2>1. Types
    BY DEF Shape
  <2>2. k \in 0 .. Len(scopes)
    BY <2>1, ScopeTypes DEF Types
  <2> QED
    BY <2>1, <2>2, Outer DEF Types
<1>2. sp' \in Address
  BY <1>1, RestoredAddress
<1>3. Shape'
  BY <1>1, <1>2 DEF Shape, Types, LoopsNested
<1>4. HeapTop' = HeapTop /\ HeapTop \in Nat /\ sp \in Nat /\ sp' \in Nat
  BY <1>1, <1>2, StackAssumption DEF HeapTop, Types, Address
<1>5. ASSUME StackInvariant
      PROVE  StackInvariant'
  <2>1. Layout(scopes', sp') /\ sp <= sp'
    BY <1>1, <1>5, RestoreLayout DEF StackInvariant
  <2>2. HeapTop' <= sp' /\ HeapStart <= HeapTop'
    BY <1>4, <1>5, <2>1 DEF StackInvariant
  <2> QED
    BY <1>3, <2>1, <2>2 DEF StackInvariant
<1>6. ASSUME StackInvariant, ExactInvariant, \A i \in k + 1 .. from - 1 : ~Marked(i)
      PROVE  ExactInvariant'
  BY <1>1, <1>6, RestoreExact DEF StackInvariant, ExactInvariant
<1> QED
  BY <1>3, <1>5, <1>6 DEF Kept

\* A block closes (ir.py:304-306).
LEMMA LeaveBlockInvariant ==
  ASSUME Shape, LeaveBlock
  PROVE  Kept(TRUE, TRUE)
<1>1. Types /\ LoopsNested /\ pc = "running" /\ Len(scopes) \in Nat
  BY ScopeTypes DEF Shape, LeaveBlock, Types
<1> DEFINE n == Len(scopes)
<1>2. n >= 1 /\ \A i \in 1 .. Len(loops) : Around(loops[i]) <= n - 1
  <2>1. CASE loops = <<>>
    BY <1>1, <2>1 DEF LeaveBlock
  <2>2. CASE loops # <<>>
    <3>1. /\ n > Around(Last(loops)) /\ Around(Last(loops)) \in Nat
          /\ \A i \in 1 .. Len(loops) : Around(loops[i]) <= Around(Last(loops))
      BY <1>1, <2>2, LoopFacts DEF LeaveBlock
    <3>2. \A i \in 1 .. Len(loops) : Around(loops[i]) \in Nat
      <4>1. \A i \in 1 .. Len(loops) : loops[i] \in OpenLoop
        BY <1>1, ElementOfSeq DEF Types
      <4> QED
        BY <4>1 DEF OpenLoop, Around
    <3> QED
      BY <1>1, <3>1, <3>2
  <2> QED
    BY <2>1, <2>2
<1>3. n \in 1 .. n + 1 /\ n - 1 \in 0 .. n - 1
  BY <1>1, <1>2
<1>4. /\ sp' = Restored(n) /\ scopes' = SubSeq(scopes, 1, n - 1)
      /\ UNCHANGED <<heapEnd, loops, pc, asked>>
  BY DEF LeaveBlock, Front
<1>5. \A i \in (n - 1) + 1 .. n - 1 : ~Marked(i)
  BY <1>1
<1>6. /\ loops' \in Seq(OpenLoop)
      /\ \A i, j \in 1 .. Len(loops') : i < j => Around(loops'[i]) <= loops'[j].outside
  BY <1>1, <1>4 DEF Types, LoopsNested
<1> HIDE DEF n
<1>7. n \in 1 .. Len(scopes) + 1
  BY <1>3 DEF n
<1>8. Kept(TRUE, \A i \in (n - 1) + 1 .. n - 1 : ~Marked(i))
  BY <1>1, <1>2, <1>3, <1>4, <1>6, <1>7, LeaveScopes
<1> QED
  BY <1>5, <1>8 DEF Kept

\* A loop ends, by its test or by break (ir.py:378-396).
LEMMA LeaveLoopInvariant ==
  ASSUME Shape, LeaveLoop \/ Break
  PROVE  Kept(TRUE, TRUE)
<1>1. Types /\ LoopsNested /\ pc = "running" /\ Len(scopes) \in Nat /\ loops # <<>>
  BY ScopeTypes DEF Shape, LeaveLoop, Break, Types
<1> DEFINE k == Last(loops).outside
<1>2. k \in Nat /\ k <= Len(scopes)
  BY <1>1, LoopFacts
<1>3. k + 1 \in 1 .. Len(scopes) + 1 /\ k \in 0 .. (k + 1) - 1
      /\ \A i \in k + 1 .. (k + 1) - 1 : ~Marked(i)
  BY <1>1, <1>2
<1>4. /\ sp' = Restored(k + 1) /\ scopes' = SubSeq(scopes, 1, k)
      /\ loops' = Front(loops) /\ UNCHANGED <<heapEnd, pc, asked>>
  BY DEF LeaveLoop, Break
<1>5. /\ loops' \in Seq(OpenLoop)
      /\ \A i \in 1 .. Len(loops') : Around(loops'[i]) <= k
      /\ \A i, j \in 1 .. Len(loops') : i < j => Around(loops'[i]) <= loops'[j].outside
  BY <1>1, <1>4, LoopFacts DEF LoopsNested
<1> HIDE DEF k
<1>6. Kept(TRUE, \A i \in k + 1 .. (k + 1) - 1 : ~Marked(i))
  BY <1>1, <1>3, <1>4, <1>5, LeaveScopes
<1> QED
  BY <1>3, <1>6 DEF Kept

\* continue restores the body's scopes but the first, which the for
\* statement's own marker makes the right ones (ir.py:397-402).
LEMMA ContinueInvariant ==
  ASSUME Shape, Continue
  PROVE  Kept(TRUE, ~DirectContinue)
<1>1. Types /\ LoopsNested /\ pc = "running" /\ Len(scopes) \in Nat /\ loops # <<>>
  BY ScopeTypes DEF Shape, Continue, Types
<1> DEFINE k == Around(Last(loops))
           from == Last(loops).outside + 2
<1>2. /\ Last(loops).outside \in Nat /\ k < Len(scopes) /\ k \in Nat
      /\ k = Last(loops).outside + (IF Last(loops).own THEN 1 ELSE 0)
      /\ Last(loops).own \in BOOLEAN
  BY <1>1, LoopFacts DEF Continue
<1>3. from \in 1 .. Len(scopes) + 1 /\ k \in 0 .. from - 1
  BY <1>1, <1>2
<1>4. /\ sp' = Restored(from) /\ scopes' = SubSeq(scopes, 1, k)
      /\ UNCHANGED <<heapEnd, loops, pc, asked>>
  BY DEF Continue
<1>5. /\ loops' \in Seq(OpenLoop)
      /\ \A i \in 1 .. Len(loops') : Around(loops'[i]) <= k
      /\ \A i, j \in 1 .. Len(loops') : i < j => Around(loops'[i]) <= loops'[j].outside
  BY <1>1, <1>4, LoopFacts DEF LoopsNested, Types
<1>6. ~DirectContinue => \A i \in k + 1 .. from - 1 : ~Marked(i)
  <2>1. CASE Last(loops).own
    <3>1. k + 1 > from - 1
      BY <1>2, <2>1
    <3> QED
      BY <1>2, <3>1
  <2>2. CASE ~Last(loops).own
    <3>1. \A i \in k + 1 .. from - 1 : i = Last(loops).outside + 1
      BY <1>2, <2>2
    <3> QED
      BY <2>2, <3>1 DEF Continue
  <2> QED
    BY <2>1, <2>2
<1> HIDE DEF k, from
<1>7. Kept(TRUE, \A i \in k + 1 .. from - 1 : ~Marked(i))
  BY <1>1, <1>3, <1>4, <1>5, LeaveScopes
<1> QED
  BY <1>6, <1>7 DEF Kept

\* The function returns from any depth (ir.py:339-348).
LEMMA ReturnInvariant ==
  ASSUME Shape, Return
  PROVE  Kept(TRUE, TRUE)
<1>1. Types /\ Len(scopes) \in Nat
  BY ScopeTypes DEF Shape, Types
<1>2. 1 \in 1 .. Len(scopes) + 1 /\ 0 \in 0 .. 1 - 1 /\ \A i \in 0 + 1 .. 1 - 1 : ~Marked(i)
  BY <1>1
<1>3. /\ sp' = Restored(1) /\ scopes' = SubSeq(scopes, 1, 0) /\ loops' = <<>>
      /\ pc' = "returned" /\ UNCHANGED <<heapEnd, asked>>
  BY SubSeqEmpty DEF Return
<1>4. loops' \in Seq(OpenLoop) /\ Len(loops') = 0
  BY <1>3, EmptySeq
<1>5. \A i \in 1 .. Len(loops') : FALSE
  BY <1>4
<1>6. Kept(TRUE, \A i \in 0 + 1 .. 1 - 1 : ~Marked(i))
  BY <1>2, <1>3, <1>4, <1>5, LeaveScopes
<1> QED
  BY <1>2, <1>6 DEF Kept

\* Scopes stay open, and one more may open.
LEMMA EnterScope ==
  ASSUME Shape, UNCHANGED <<sp, heapEnd, pc, asked>>,
         scopes' = scopes \/ \E m \in {None, sp} : scopes' = Append(scopes, Scope(m)),
         loops' \in Seq(OpenLoop),
         \A i \in 1 .. Len(loops') : Around(loops'[i]) <= Len(scopes'),
         \A i, j \in 1 .. Len(loops') : i < j => Around(loops'[i]) <= loops'[j].outside
  PROVE  Kept(TRUE, TRUE)
<1>1. Types /\ HeapTop' = HeapTop
  BY DEF Shape, HeapTop
<1>2. scopes' \in Seq(OpenScope)
  <2>1. CASE scopes' = scopes
    BY <1>1, <2>1 DEF Types
  <2>2. ASSUME NEW m \in {None, sp}, scopes' = Append(scopes, Scope(m))
        PROVE  scopes' \in Seq(OpenScope)
    BY <1>1, <2>2, Opened
  <2> QED
    BY <2>1, <2>2
<1>3. Shape'
  BY <1>1, <1>2 DEF Shape, Types, LoopsNested
<1>4. ASSUME StackInvariant
      PROVE  StackInvariant' /\ (ExactInvariant => ExactInvariant')
  <2>1. Layout(scopes, sp)
    BY <1>4 DEF StackInvariant
  <2>2. Layout(scopes', sp') /\ (Exact(scopes, sp) => Exact(scopes', sp'))
    <3>1. CASE scopes' = scopes
      <4>1. sp' = sp
        OBVIOUS
      <4> QED
        BY <2>1, <3>1, <4>1
    <3>2. ASSUME NEW m \in {None, sp}, scopes' = Append(scopes, Scope(m))
          PROVE  Layout(scopes', sp') /\ (Exact(scopes, sp) => Exact(scopes', sp'))
      BY <1>1, <2>1, <3>2, OpenLayout
    <3> QED
      BY <3>1, <3>2
  <2> QED
    BY <1>1, <1>3, <1>4, <2>2 DEF StackInvariant, ExactInvariant
<1> QED
  BY <1>3, <1>4 DEF Kept

\* A block begins; it marks the stack if it declares arrays (ir.py:295-303).
LEMMA EnterBlockInvariant ==
  ASSUME Shape, NEW dynamic \in BOOLEAN, EnterBlock(dynamic)
  PROVE  Kept(TRUE, TRUE)
<1> DEFINE m == IF dynamic THEN sp ELSE None
<1>1. /\ m \in {None, sp} /\ scopes' = Append(scopes, Scope(m))
      /\ UNCHANGED <<sp, heapEnd, loops, pc, asked>>
  BY DEF EnterBlock
<1> HIDE DEF m
<1>2. /\ Types /\ LoopsNested /\ loops \in Seq(OpenLoop)
      /\ Len(scopes) \in Nat
  BY ScopeTypes DEF Shape, Types
<1>3. Len(scopes') = Len(scopes) + 1
  BY <1>1, <1>2, Opened
<1>4. \A i \in 1 .. Len(loops) : Around(loops[i]) <= Len(scopes')
  <2>1. \A i \in 1 .. Len(loops) : Around(loops[i]) \in Nat
    <3>1. \A i \in 1 .. Len(loops) : loops[i] \in OpenLoop
      BY <1>2, ElementOfSeq
    <3> QED
      BY <3>1 DEF OpenLoop, Around
  <2> QED
    BY <1>2, <1>3, <2>1 DEF LoopsNested
<1> QED
  BY <1>1, <1>2, <1>4, EnterScope DEF LoopsNested

\* A loop begins; a for statement that declares an array opens a scope of its
\* own (ir.py:356-377).
LEMMA EnterLoopInvariant ==
  ASSUME Shape, NEW own \in BOOLEAN, EnterLoop(own)
  PROVE  Kept(TRUE, TRUE)
<1> DEFINE new == Loop(own)
           n == Len(loops)
<1>1. /\ scopes' = IF own THEN Append(scopes, Scope(sp)) ELSE scopes
      /\ loops' = Append(loops, new) /\ UNCHANGED <<sp, heapEnd, pc, asked>>
  BY DEF EnterLoop
<1>2. /\ Types /\ LoopsNested /\ loops \in Seq(OpenLoop) /\ n \in Nat
      /\ Len(scopes) \in Nat
  BY ScopeTypes, LenProperties DEF Shape, Types
<1>3. new \in OpenLoop /\ new.outside = Len(scopes) /\ new.own = own
  BY <1>2 DEF Loop, OpenLoop
<1> HIDE DEF new
<1>4. Len(scopes') = IF own THEN Len(scopes) + 1 ELSE Len(scopes)
  BY <1>1, <1>2, Opened
<1>5. Around(new) = Len(scopes')
  BY <1>2, <1>3, <1>4 DEF Around
<1>6. /\ loops' \in Seq(OpenLoop) /\ Len(loops') = n + 1
      /\ \A i \in 1 .. n : loops'[i] = loops[i]
      /\ loops'[n + 1] = new
  BY <1>1, <1>2, <1>3, AppendProperties
<1>7. \A i \in 1 .. n + 1 : i \in 1 .. n \/ i = n + 1
  BY <1>2
<1>8. \A i \in 1 .. n : /\ Around(loops[i]) \in Nat
                        /\ Around(loops[i]) <= Len(scopes)
                        /\ Around(loops[i]) <= Len(scopes')
  <2>1. \A i \in 1 .. n : loops[i] \in OpenLoop
    BY <1>2, ElementOfSeq
  <2>2. \A i \in 1 .. n : Around(loops[i]) \in Nat
    BY <2>1 DEF OpenLoop, Around
  <2> QED
    BY <1>2, <1>4, <2>2 DEF LoopsNested
<1>9. \A i \in 1 .. n + 1 : Around(loops'[i]) <= Len(scopes')
  BY <1>2, <1>4, <1>5, <1>6, <1>7, <1>8
<1>10. ASSUME NEW i \in 1 .. n + 1, NEW j \in 1 .. n + 1, i < j
       PROVE  Around(loops'[i]) <= loops'[j].outside
  <2>1. i \in 1 .. n
    BY <1>2, <1>10
  <2>2. CASE j = n + 1
    BY <1>3, <1>6, <1>8, <2>1, <2>2
  <2>3. CASE j \in 1 .. n
    BY <1>2, <1>6, <1>10, <2>1, <2>3 DEF LoopsNested
  <2> QED
    BY <1>7, <2>2, <2>3
<1>11. scopes' = scopes \/ \E m \in {None, sp} : scopes' = Append(scopes, Scope(m))
  BY <1>1
<1> QED
  BY <1>1, <1>6, <1>9, <1>10, <1>11, EnterScope

\* A request that fits goes below everything in use; one that does not ends
\* in the trap (backend.py:782-818).
LEMMA AllocateInvariant ==
  ASSUME Shape, NEW size \in Sizes, Allocate(size)
  PROVE  Kept(RequestsBelowWrap, TRUE)
<1>1. /\ Types /\ LoopsNested /\ HeapTop' = HeapTop
      /\ UNCHANGED <<heapEnd, loops>> /\ asked' = size /\ size \in Nat /\ pc = "running"
  BY StackAssumption DEF Shape, Allocate, HeapTop
<1>2. /\ sp \in Nat /\ sp < RamWords /\ RamWords \in Nat \ {0} /\ HeapTop \in Nat
      /\ HeapStart \in Nat
  BY <1>1, StackAssumption DEF Types, Address, HeapTop
<1>3. CASE pc' = "_stack_overflow" /\ UNCHANGED <<sp, scopes>>
  BY <1>1, <1>3 DEF Shape, StackInvariant, Types, LoopsNested, ExactInvariant, Kept
<1>4. CASE /\ ~Collides(size) /\ pc' = pc /\ sp' = Candidate(size)
           /\ scopes' = [scopes EXCEPT ![Len(scopes)].arrays =
                                       @ \union {[base |-> Candidate(size), size |-> size]}]
  <2>1. Candidate(size) \in Address
    BY <1>1, <1>2 DEF Candidate, Address
  <2>2. scopes # <<>> /\ Marked(Len(scopes))
    BY DEF Allocate, AtDeclaration
  <2>3. scopes' \in Seq(OpenScope) /\ Len(scopes') = Len(scopes)
    BY <1>1, <1>4, <2>1, <2>2, Declared
  <2>4. Shape'
    BY <1>1, <1>4, <2>1, <2>3 DEF Shape, Types, LoopsNested
  <2>5. ASSUME StackInvariant, RequestsBelowWrap
        PROVE  StackInvariant' /\ (ExactInvariant => ExactInvariant')
    <3>1. Layout(scopes, sp) /\ HeapTop <= sp /\ HeapStart <= HeapTop /\ size <= HeapStart
      BY <1>2, <2>5 DEF StackInvariant, RequestsBelowWrap
    <3>2. sp - size \in 0 .. RamWords - 1
      BY <1>1, <1>2, <3>1
    <3>3. \A n \in Nat : \A x \in 0 .. n - 1 : x % n = x
      OBVIOUS
    <3>4. Candidate(size) = sp - size
      BY <1>2, <3>2, <3>3 DEF Candidate
    <3>5. 0 < size /\ Candidate(size) + size = sp /\ HeapTop <= Candidate(size)
      BY <1>1, <1>2, <1>4, <3>2, <3>4 DEF Collides
    <3>6. Layout(scopes', sp') /\ (Exact(scopes, sp) => Exact(scopes', sp'))
      BY <1>1, <1>4, <2>1, <2>2, <3>1, <3>5, AllocateLayout
    <3> QED
      BY <1>1, <1>4, <2>4, <3>1, <3>5, <3>6 DEF StackInvariant, ExactInvariant
  <2> QED
    BY <2>4, <2>5 DEF Kept
<1> QED
  BY <1>3, <1>4 DEF Allocate

\* The heap grows up to the stack pointer, never past it.
LEMMA HeapGrowsInvariant ==
  ASSUME Shape, HeapGrows
  PROVE  Kept(TRUE, TRUE)
<1>1. /\ Types /\ LoopsNested
      /\ HeapTop < sp /\ heapEnd' = HeapTop + 1 /\ UNCHANGED <<sp, scopes, loops, pc, asked>>
  BY DEF Shape, HeapGrows
<1>2. HeapTop \in Nat /\ sp \in Nat /\ sp < RamWords /\ RamWords \in Nat
  BY <1>1, StackAssumption DEF HeapTop, Types, Address
<1>3. HeapTop' = HeapTop + 1
  <2>1. heapEnd' # 0
    BY <1>1, <1>2
  <2> QED
    BY <1>1, <2>1 DEF HeapTop
<1>4. Shape'
  BY <1>1, <1>2 DEF Shape, Types, LoopsNested
<1>5. HeapStart <= HeapTop => HeapTop' <= sp' /\ HeapStart <= HeapTop'
  BY <1>1, <1>2, <1>3, StackAssumption
<1> QED
  BY <1>1, <1>4, <1>5 DEF Kept, StackInvariant, ExactInvariant

\* The function starts with no scope open.
LEMMA InitInvariant == Init => StackInvariant /\ ExactInvariant
<1> SUFFICES ASSUME Init PROVE StackInvariant /\ ExactInvariant
  OBVIOUS
<1>1. scopes \in Seq(OpenScope) /\ loops \in Seq(OpenLoop) /\ Len(scopes) = 0 /\ Len(loops) = 0
  BY EmptySeq DEF Init
<1>2. Types
  BY <1>1, StackAssumption DEF Init, Types, Address
<1>3. \A i \in 1 .. 0 : FALSE
  OBVIOUS
<1>4. LoopsNested
  BY <1>1, <1>3 DEF LoopsNested
<1>5. sp = Entry /\ Entry \in Nat /\ HeapTop = HeapStart /\ HeapStart <= Entry
      /\ HeapStart \in Nat
  BY StackAssumption DEF Init, HeapTop
<1>6. Layout(scopes, sp)
  BY <1>1, <1>3, <1>5 DEF Layout
<1>7. Exact(scopes, sp)
  BY <1>1, <1>3, <1>5 DEF Exact, Lowest
<1> QED
  BY <1>2, <1>4, <1>5, <1>6, <1>7 DEF StackInvariant, Shape, ExactInvariant

\* One case per action.
LEMMA StepInvariant ==
  ASSUME Shape, [Next]_vars
  PROVE  Kept(RequestsBelowWrap, ~DirectContinue)
<1> DEFINE K == Kept(RequestsBelowWrap, ~DirectContinue)
<1>1. CASE UNCHANGED vars
  BY <1>1 DEF vars, Shape, StackInvariant, Types, LoopsNested, HeapTop, ExactInvariant, Kept
<1>2. CASE \E size \in Sizes : Allocate(size)
  BY <1>2, AllocateInvariant DEF Kept
<1>3. CASE HeapGrows
  BY <1>3, HeapGrowsInvariant DEF Kept
<1>4. CASE \/ \E dynamic \in BOOLEAN : EnterBlock(dynamic)
           \/ \E own \in BOOLEAN : EnterLoop(own)
  BY <1>4, EnterBlockInvariant, EnterLoopInvariant DEF Kept
<1>5. CASE LeaveBlock
  BY <1>5, LeaveBlockInvariant DEF Kept
<1>6. CASE LeaveLoop \/ Break
  BY <1>6, LeaveLoopInvariant DEF Kept
<1>7. CASE Continue
  BY <1>7, ContinueInvariant DEF Kept
<1>8. CASE Return
  BY <1>8, ReturnInvariant DEF Kept
<1> HIDE DEF K
<1>9. K
  BY <1>1, <1>2, <1>3, <1>4, <1>5, <1>6, <1>7, <1>8 DEF Next, K
<1> QED
  BY <1>9 DEF K

-----------------------------------------------------------------------------
(* What the invariants say.                                                *)

\* Every step keeps the types, whatever sizes the program asks for.
THEOREM ShapeInvariance == Spec => []Shape
<1>1. Init => Shape
  BY InitInvariant DEF StackInvariant
<1>2. Shape /\ [Next]_vars => Shape'
  BY StepInvariant DEF Kept
<1> QED
  BY <1>1, <1>2, PTL DEF Spec

\* The inductive invariant: where open scopes keep their arrays.
THEOREM Invariance == RequestsBelowWrap => (Spec => []StackInvariant)
<1> SUFFICES ASSUME RequestsBelowWrap
             PROVE  Spec => []StackInvariant
  OBVIOUS
<1>1. Init => StackInvariant
  BY InitInvariant
<1>2. StackInvariant /\ [Next]_vars => StackInvariant'
  BY StepInvariant DEF Kept, StackInvariant
<1> QED
  BY <1>1, <1>2, PTL DEF Spec

\* What open scopes keep is exactly what is in use, when programs do not
\* continue from the very block of arrays that is a plain loop's body.
THEOREM ExactInvariance ==
  RequestsBelowWrap /\ ~DirectContinue => (Spec => []ExactInvariant)
<1> SUFFICES ASSUME RequestsBelowWrap, ~DirectContinue
             PROVE  Spec => []ExactInvariant
  OBVIOUS
<1>1. Init => StackInvariant /\ ExactInvariant
  BY InitInvariant
<1>2. StackInvariant /\ ExactInvariant /\ [Next]_vars => StackInvariant' /\ ExactInvariant'
  BY StepInvariant DEF Kept, StackInvariant
<1> QED
  BY <1>1, <1>2, PTL DEF Spec

\* Type correctness, whatever sizes the program asks for.
THEOREM TypeCorrect == Spec => []TypeOK
<1>1. Shape => TypeOK
  <2> SUFFICES ASSUME Shape PROVE TypeOK
    OBVIOUS
  <2>1. /\ Types /\ LoopsNested
        /\ DOMAIN scopes = 1 .. Len(scopes) /\ DOMAIN loops = 1 .. Len(loops)
        /\ \A i \in 1 .. Len(scopes) : scopes[i] \in OpenScope
    BY LenProperties, ElementOfSeq DEF Shape, Types
  <2> QED
    BY <2>1 DEF TypeOK, Types, LoopsNested, OpenScope, Array, Address
<1> QED
  BY <1>1, ShapeInvariance, PTL

\* Arrays in scope share no word with each other, with the heap or with the
\* frames above the function's own.
THEOREM ArraysStayApart == RequestsBelowWrap => (Spec => []ArraysApart)
<1> SUFFICES ASSUME RequestsBelowWrap
             PROVE  Spec => []ArraysApart
  OBVIOUS
<1>1. StackInvariant => ArraysApart
  <2> SUFFICES ASSUME StackInvariant PROVE ArraysApart
    OBVIOUS
  <2>1. /\ scopes \in Seq(OpenScope) /\ DOMAIN scopes = 1 .. Len(scopes)
        /\ Len(scopes) \in Nat /\ HeapTop <= sp /\ Layout(scopes, sp)
        /\ HeapTop \in Nat /\ sp \in Nat /\ Entry \in Nat
    BY ScopeTypes, LenProperties, StackAssumption
       DEF StackInvariant, Shape, Types, HeapTop, Address
  <2>2. \A i \in 1 .. Len(scopes) :
          /\ scopes[i].marker # None => scopes[i].marker \in Nat
          /\ \A a \in scopes[i].arrays : a.base \in Nat /\ a.size \in Nat
    BY <2>1, ScopeTypes
  <2>3. \A i \in 1 .. Len(scopes) : \A a \in scopes[i].arrays :
          HeapTop <= a.base /\ a.base + a.size <= Entry
    BY <2>1, <2>2 DEF Layout
  <2>4. ASSUME NEW i \in 1 .. Len(scopes), NEW j \in 1 .. Len(scopes), i < j,
               NEW a \in scopes[i].arrays, NEW b \in scopes[j].arrays
        PROVE  b.base + b.size <= a.base
    <3>1. /\ scopes[j].marker # None /\ b.base + b.size <= scopes[j].marker
          /\ scopes[j].marker <= a.base
      BY <2>1, <2>4 DEF Layout
    <3> QED
      BY <2>2, <3>1
  <2>5. ASSUME NEW i \in 1 .. Len(scopes), NEW j \in 1 .. Len(scopes),
               NEW a \in scopes[i].arrays, NEW b \in scopes[j].arrays, a # b
        PROVE  a.base + a.size <= b.base \/ b.base + b.size <= a.base
    <3>1. i < j \/ j < i \/ i = j
      BY <2>1
    <3> QED
      BY <2>1, <2>4, <2>5, <3>1 DEF Layout, Apart
  <2> QED
    BY <2>1, <2>3, <2>5 DEF ArraysApart, Arrays
<1> QED
  BY <1>1, Invariance, PTL

\* Storage is released when its block, loop or function is left, by whatever
\* way: the stack pointer is at the lowest array in scope.
THEOREM StorageReleased ==
  RequestsBelowWrap /\ ~DirectContinue => (Spec => []ReleasedOnExit)
<1> SUFFICES ASSUME RequestsBelowWrap, ~DirectContinue
             PROVE  Spec => []ReleasedOnExit
  OBVIOUS
<1>1. StackInvariant /\ ExactInvariant => ReleasedOnExit
  <2> SUFFICES ASSUME StackInvariant, ExactInvariant PROVE ReleasedOnExit
    OBVIOUS
  <2>1. /\ DOMAIN scopes = 1 .. Len(scopes) /\ Lowest(scopes, Len(scopes), sp)
        /\ scopes \in Seq(OpenScope)
    BY LenProperties DEF StackInvariant, Shape, ExactInvariant, Exact, Types
  <2>2. CASE sp = Entry /\ \A i \in 1 .. Len(scopes) : scopes[i].arrays = {}
    <3>1. Arrays = {}
      BY <2>1, <2>2 DEF Arrays
    <3> QED
      BY <2>2, <3>1 DEF ReleasedOnExit
  <2>3. ASSUME NEW i \in 1 .. Len(scopes), NEW a \in scopes[i].arrays, sp = a.base
        PROVE  ReleasedOnExit
    <3> DEFINE bases == {b.base : b \in Arrays}
    <3>1. a \in Arrays /\ sp \in bases
      BY <2>1, <2>3 DEF Arrays
    <3>2. \A b \in bases : sp <= b /\ b \in Nat
      BY <2>1, ScopeTypes DEF Arrays, Lowest
    <3> HIDE DEF bases
    <3>3. Min(bases) = sp
      <4>1. /\ Min(bases) \in bases
            /\ \A b \in bases : Min(bases) <= b
        BY <3>1, <3>2 DEF Min
      <4> QED
        BY <3>1, <3>2, <4>1
    <3> QED
      BY <3>1, <3>3 DEF ReleasedOnExit, bases
  <2> QED
    BY <2>1, <2>2, <2>3 DEF Lowest
<1> QED
  BY <1>1, Invariance, ExactInvariance, PTL

\* The trap is taken only by a request that is empty or does not fit, whatever
\* sizes the program asks for.
THEOREM TrapMeansFull == Spec => []TrapsOnlyWhenFull
<1>1. Init => TrapsOnlyWhenFull
  BY DEF Init, TrapsOnlyWhenFull
<1>2. ASSUME Shape, TrapsOnlyWhenFull, [Next]_vars
      PROVE  TrapsOnlyWhenFull'
  <2>1. CASE UNCHANGED vars
    BY <1>2, <2>1 DEF vars, TrapsOnlyWhenFull, HeapTop
  <2>2. ASSUME NEW size \in Sizes, Allocate(size), Collides(size), UNCHANGED <<sp, scopes>>
        PROVE  TrapsOnlyWhenFull'
    <3>1. /\ sp \in Nat /\ sp < RamWords /\ RamWords \in Nat /\ HeapTop \in Nat
          /\ size \in Nat /\ asked' = size /\ heapEnd' = heapEnd
      BY <1>2, <2>2, StackAssumption
         DEF Shape, Types, Address, HeapTop, Allocate
    <3>2. HeapTop' = HeapTop
      BY <3>1 DEF HeapTop
    <3>3. ASSUME size <= sp - HeapTop
          PROVE  size = 0
      <4>1. sp - size \in 0 .. RamWords - 1 /\ HeapTop <= sp - size /\ size < RamWords
        BY <3>1, <3>3
      <4>2. \A n \in Nat : \A x \in 0 .. n - 1 : x % n = x
        OBVIOUS
      <4>3. Candidate(size) = sp - size
        BY <3>1, <4>1, <4>2 DEF Candidate
      <4> QED
        BY <2>2, <3>1, <4>1, <4>3 DEF Collides
    <3> QED
      BY <2>2, <3>1, <3>2, <3>3 DEF TrapsOnlyWhenFull
  <2>3. ASSUME pc' # "_stack_overflow"
        PROVE  TrapsOnlyWhenFull'
    BY <2>3 DEF TrapsOnlyWhenFull
  <2>4. ASSUME NEW size \in Sizes, Allocate(size), pc' = pc
        PROVE  TrapsOnlyWhenFull'
    BY <2>3, <2>4 DEF Allocate
  <2>5. CASE ~(UNCHANGED vars \/ \E size \in Sizes : Allocate(size))
    <3>1. pc' # "_stack_overflow"
      BY <1>2, <2>5
         DEF Next, HeapGrows, EnterBlock, LeaveBlock, EnterLoop, LeaveLoop, Break,
             Continue, Return
    <3> QED
      BY <2>3, <3>1
  <2> QED
    BY <2>1, <2>2, <2>4, <2>5 DEF Allocate
<1> QED
  BY <1>1, <1>2, ShapeInvariance, PTL DEF Spec
=============================================================================
