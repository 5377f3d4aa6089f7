------------------------- MODULE ImageLayoutProofs -------------------------
(***************************************************************************)
(* Proofs, for every program, load address and limit, that relaxation      *)
(* moves every label with what it is on and leaves every branch and call   *)
(* in the form its final target asks for (ImageLayout).                    *)
(*                                                                         *)
(* The invariant says what every byte of the image is: item after item in  *)
(* its longest form until the image is rebuilt, in its final form after.   *)
(* The last part shows that relaxing comes to an end: sizes never grow.    *)
(***************************************************************************)
EXTENDS ImageLayout, FiniteSetTheorems, SequenceTheorems, WellFoundedInduction, TLAPS

\* The items that have bytes in the image, among those labelled.
InCode == {i \in DOMAIN labels : InImage(i)}

FinalSize(i) ==
    IF IsControl(i)
    THEN IF load + labels[Goal(i)] <= Limit THEN NewSize(Item(i).kind) ELSE OldSize(Item(i).kind)
    ELSE Emitted(i)

\* The bytes are those of the items of S, each at its place, and padding.
Lays(bytes, places, S, sizes) ==
    /\ \A i \in S : \A k \in 0 .. sizes[i] - 1 :
          places[i] + k + 1 \in DOMAIN bytes /\ bytes[places[i] + k + 1] = <<i, k>>
    /\ \A p \in DOMAIN bytes :
          \/ bytes[p] = Pad
          \/ \E i \in S : \E k \in 0 .. sizes[i] - 1 :
                p = places[i] + k + 1 /\ bytes[p] = <<i, k>>

Longest == [i \in InCode |-> Emitted(i)]
Final == [i \in InCode |-> FinalSize(i)]

Byte == Nat \X Nat

Types ==
    /\ isa \in Isas /\ load \in LoadAddresses /\ program \in Programs
    /\ phase \in {"emit", "layout", "reserve", "finish", "built", "error"}
    /\ code \in Seq(Byte)
    /\ labels \in Seq(Nat) /\ Len(labels) <= Len(program)
    /\ controls \in Seq([at : Nat, item : Nat, old : Nat])
    /\ next \in Nat /\ changed \in BOOLEAN

\* The controls of the image, each where its item is, in order.
ControlsListed ==
    /\ \A c \in DOMAIN controls :
         /\ controls[c].item \in InCode /\ IsControl(controls[c].item)
         /\ controls[c].at = labels[controls[c].item]
         /\ controls[c].old = Emitted(controls[c].item)
    /\ \A c, d \in DOMAIN controls : c < d => controls[c].at + controls[c].old <= controls[d].at
    /\ \A i \in InCode : IsControl(i) => \E c \in DOMAIN controls : controls[c].item = i

Unrelaxed == phase = "emit" \/ (phase = "layout" /\ controls # <<>>)
AsEmitted == Unrelaxed => Lays(code, labels, InCode, Longest) /\ ControlsListed

\* The size a control's target asks for, with the sizes chosen so far.
Wanted(c) ==
    IF Target(controls[c].item) <= Limit THEN NewSize(Item(controls[c].item).kind)
    ELSE controls[c].old

\* A pass that has changed nothing has found the sizes it met as wanted.
ChoicesSound ==
    phase = "layout" /\ controls # <<>> =>
        /\ choices \in [DOMAIN controls -> Nat]
        /\ \A c \in DOMAIN controls :
             choices[c] \in {NewSize(Item(controls[c].item).kind), controls[c].old}
        /\ \A c \in DOMAIN controls : c < next =>
             /\ Goal(controls[c].item) \in DOMAIN labels
             /\ ~changed => choices[c] = Wanted(c)

Complete ==
    /\ phase \in {"emit", "layout"} => InCode = DOMAIN labels
    /\ phase # "emit" => \A i \in DOMAIN program \ DOMAIN labels : ~InImage(i)
    /\ phase \in {"reserve", "finish", "built"} => controls = <<>>

AsRelaxed ==
    phase \in {"layout", "reserve", "finish", "built"} /\ controls = <<>> =>
        /\ \A i \in InCode : IsControl(i) => Goal(i) \in DOMAIN labels
        /\ Lays(code, labels, InCode, Final)

ImageInvariant == Types /\ AsEmitted /\ ChoicesSound /\ Complete /\ AsRelaxed

-----------------------------------------------------------------------------
(* Numbers, sequences and recursion.                                         *)

\* A set of natural numbers has a least element.
LEMMA LeastNatural ==
  ASSUME NEW S \in SUBSET Nat, S # {}
  PROVE  \E m \in S : \A n \in S : m <= n
<1> DEFINE family == {0 .. n : n \in S}
           R == StrictSubsetOrdering(Nat)
<1>1. IsWellFoundedOn(R, FiniteSubsetsOf(Nat))
  BY FS_StrictSubsetOrderingWellFounded
<1>2. \A n \in S : 0 .. n \in FiniteSubsetsOf(Nat)
  BY FS_Interval DEF FiniteSubsetsOf
<1>3. family \subseteq FiniteSubsetsOf(Nat) /\ family # {}
  BY <1>2
<1> HIDE DEF R
<1>4. \E x \in family : \A y \in family : ~ (<<y, x>> \in R)
  BY <1>1, <1>3, WFMin
<1>5. PICK m \in S : \A n \in S : ~ (<<0 .. n, 0 .. m>> \in R)
  BY <1>4
<1>6. ASSUME NEW n \in S, n < m
      PROVE  FALSE
  <2>1. /\ 0 .. n \in SUBSET Nat /\ 0 .. m \in SUBSET Nat
        /\ 0 .. n \subseteq 0 .. m /\ m \in 0 .. m /\ m \notin 0 .. n
    BY <1>6
  <2>2. <<0 .. n, 0 .. m>> \in R
    BY <2>1 DEF R, StrictSubsetOrdering
  <2> QED
    BY <1>5, <2>2
<1> QED
  BY <1>6

\* A function defined from its value one place before exists.
Recursion(W, n, first, step) ==
    \E f \in [0 .. n -> W] :
        f[0] = first /\ \A c \in 1 .. n : f[c] = step[<<c, f[c - 1]>>]

LEMMA RecursionExists ==
  ASSUME NEW W, NEW n \in Nat, NEW first \in W, NEW step \in [(1 .. n) \X W -> W]
  PROVE  Recursion(W, n, first, step)
<1> DEFINE Upto(m) == \E f \in [0 .. m -> W] :
                        f[0] = first /\ \A c \in 1 .. m : f[c] = step[<<c, f[c - 1]>>]
           S == {m \in 0 .. n : ~Upto(m)}
<1>1. SUFFICES ASSUME S # {} PROVE FALSE
  <2> HIDE DEF Upto
  <2>1. n \in 0 .. n
    OBVIOUS
  <2>2. Upto(n)
    BY <1>1, <2>1
  <2> QED
    BY <2>2 DEF Upto, Recursion
<1>2. PICK m \in S : \A j \in S : m <= j
  <2>1. S \in SUBSET Nat
    OBVIOUS
  <2> HIDE DEF S
  <2> QED
    BY <1>1, <2>1, LeastNatural
<1>3. Upto(0)
  <2> DEFINE f == [c \in 0 .. 0 |-> first]
  <2>1. f \in [0 .. 0 -> W]
    OBVIOUS
  <2>2. f[0] = first /\ 1 .. 0 = {}
    OBVIOUS
  <2> QED
    BY <2>1, <2>2
<1>4. m \in 0 .. n /\ m # 0 /\ m - 1 \in 0 .. n /\ Upto(m - 1)
  <2> HIDE DEF Upto
  <2>1. m \in 0 .. n /\ m # 0
    BY <1>2, <1>3
  <2>2. m - 1 \in 0 .. n /\ ~(m <= m - 1)
    BY <2>1
  <2>3. m - 1 \notin S
    BY <1>2, <2>2
  <2> QED
    BY <2>1, <2>2, <2>3
<1>5. PICK g \in [0 .. m - 1 -> W] :
        g[0] = first /\ \A c \in 1 .. m - 1 : g[c] = step[<<c, g[c - 1]>>]
  BY <1>4
<1> DEFINE f == [c \in 0 .. m |-> IF c = m THEN step[<<m, g[m - 1]>>] ELSE g[c]]
<1>6. step[<<m, g[m - 1]>>] \in W
  <2>1. m - 1 \in 0 .. m - 1 /\ m \in 1 .. n
    BY <1>4
  <2>2. <<m, g[m - 1]>> \in (1 .. n) \X W
    BY <2>1
  <2> QED
    BY <2>2
<1>7. f \in [0 .. m -> W]
  BY <1>4, <1>6
<1>8. f[0] = first
  BY <1>4, <1>5
<1>9. ASSUME NEW c \in 1 .. m
      PROVE  f[c] = step[<<c, f[c - 1]>>]
  <2>1. CASE c = m
    <3>1. f[m - 1] = g[m - 1] /\ f[m] = step[<<m, g[m - 1]>>]
      BY <1>4
    <3> QED
      BY <2>1, <3>1
  <2>2. CASE c # m
    <3>1. c \in 1 .. m - 1 /\ c - 1 \in 0 .. m - 1 /\ c - 1 # m
      BY <2>2, <1>4
    <3>2. f[c] = g[c] /\ f[c - 1] = g[c - 1] /\ g[c] = step[<<c, g[c - 1]>>]
      BY <3>1, <2>2, <1>4, <1>5
    <3> QED
      BY <3>2
  <2> QED
    BY <2>1, <2>2
<1>10. Upto(m)
  BY <1>7, <1>8, <1>9
<1> QED
  BY <1>2, <1>10

\* A sum over a prefix: terms past the prefix count nothing.
LEMMA PrefixSum ==
  ASSUME NEW n \in Nat, NEW c \in 0 .. n, NEW d \in [1 .. n -> Int],
         NEW s \in [0 .. n -> Int], s[0] = 0, \A j \in 1 .. n : s[j] = s[j - 1] + d[j],
         NEW g \in [0 .. n -> Int], g[0] = 0,
         \A j \in 1 .. n : g[j] = g[j - 1] + (IF j <= c THEN d[j] ELSE 0)
  PROVE  g[n] = s[c]
<1> DEFINE Agree(j) == g[j] = s[IF j <= c THEN j ELSE c]
           S == {j \in 0 .. n : ~Agree(j)}
<1>1. CASE S = {}
  <2> HIDE DEF Agree
  <2>1. n \in 0 .. n
    OBVIOUS
  <2>2. Agree(n)
    BY <1>1, <2>1
  <2> QED
    BY <2>2 DEF Agree
<1>2. CASE S # {}
  <2> HIDE DEF Agree
  <2>1. S \in SUBSET Nat
    OBVIOUS
  <2>2. PICK m \in S : \A j \in S : m <= j
    <3> HIDE DEF S
    <3> QED
      BY <1>2, <2>1, LeastNatural
  <2>3. m \in 0 .. n /\ ~Agree(m)
    OBVIOUS
  <2>4. m # 0
    BY <2>3 DEF Agree
  <2>5. m - 1 \in 0 .. n /\ m \in 1 .. n /\ ~(m <= m - 1)
    BY <2>3, <2>4
  <2>6. Agree(m - 1)
    BY <2>2, <2>5
  <2>7. g[m - 1] = s[IF m - 1 <= c THEN m - 1 ELSE c]
    BY <2>6 DEF Agree
  <2>8. /\ g[m] = g[m - 1] + (IF m <= c THEN d[m] ELSE 0)
        /\ s[m] = s[m - 1] + d[m]
    BY <2>5
  <2>9. /\ d[m] \in Int /\ s[m - 1] \in Int /\ s[c] \in Int
    BY <2>5
  <2>10. g[m] = s[IF m <= c THEN m ELSE c]
    <3>1. CASE m <= c
      <4>1. m - 1 <= c
        BY <2>5, <3>1
      <4> QED
        BY <3>1, <4>1, <2>7, <2>8
    <3>2. CASE ~(m <= c)
      <4>1. g[m - 1] = s[c]
        <5>1. CASE m - 1 <= c
          <6>1. m - 1 = c
            BY <5>1, <3>2, <2>5
          <6> QED
            BY <6>1, <5>1, <2>7
        <5>2. CASE ~(m - 1 <= c)
          BY <5>2, <2>7
        <5> QED
          BY <5>1, <5>2
      <4> QED
        BY <3>2, <4>1, <2>8, <2>9
    <3> QED
      BY <3>1, <3>2
  <2> QED
    BY <2>3, <2>10 DEF Agree
<1> QED
  BY <1>1, <1>2

\* What the first c controls save; a choice never exceeds the longest form.
Saved(s) ==
    /\ s \in [0 .. Len(controls) -> Int]
    /\ s[0] = 0
    /\ \A c \in 1 .. Len(controls) : s[c] = s[c - 1] + (controls[c].old - choices[c])

ControlsTyped ==
    /\ controls \in Seq([at : Nat, item : Nat, old : Nat])
    /\ choices \in [DOMAIN controls -> Nat]

LEMMA ControlShape ==
  ASSUME ControlsTyped
  PROVE  /\ Len(controls) \in Nat /\ DOMAIN controls = 1 .. Len(controls)
         /\ \A c \in 1 .. Len(controls) :
              controls[c].at \in Nat /\ controls[c].old \in Nat /\ choices[c] \in Nat
<1> DEFINE Control == [at : Nat, item : Nat, old : Nat]
<1>1. controls \in Seq(Control)
  BY DEF ControlsTyped
<1>2. \A x \in Control : x.at \in Nat /\ x.old \in Nat
  OBVIOUS
<1> HIDE DEF Control
<1>3. Len(controls) \in Nat /\ DOMAIN controls = 1 .. Len(controls)
  BY <1>1, LenProperties
<1>4. \A c \in 1 .. Len(controls) : controls[c] \in Control
  BY <1>1, ElementOfSeq
<1> QED
  BY <1>2, <1>3, <1>4 DEF ControlsTyped

LEMMA SavedExists ==
  ASSUME ControlsTyped
  PROVE  \E s : Saved(s)
<1> DEFINE n == Len(controls)
           step == [x \in (1 .. n) \X Int |-> x[2] + (controls[x[1]].old - choices[x[1]])]
<1>1. n \in Nat /\ DOMAIN controls = 1 .. n
  BY ControlShape
<1>2. \A c \in 1 .. n : controls[c].old - choices[c] \in Int
  BY ControlShape
<1>3. step \in [(1 .. n) \X Int -> Int]
  BY <1>2
<1>4. \A c \in 1 .. n, v \in Int : step[<<c, v>>] = v + (controls[c].old - choices[c])
  OBVIOUS
<1> HIDE DEF step
<1>5. PICK s \in [0 .. n -> Int] :
        s[0] = 0 /\ \A c \in 1 .. n : s[c] = step[<<c, s[c - 1]>>]
  <2> DEFINE W == Int
             zero == 0
  <2>1. n \in Nat /\ zero \in W /\ step \in [(1 .. n) \X W -> W]
    BY <1>1, <1>3
  <2> HIDE DEF W, zero, n
  <2>2. Recursion(W, n, zero, step)
    BY <2>1, RecursionExists
  <2> QED
    BY <2>2 DEF W, zero, Recursion
<1>6. ASSUME NEW c \in 1 .. n
      PROVE  s[c] = s[c - 1] + (controls[c].old - choices[c])
  <2>1. c \in 0 .. n /\ c - 1 \in 0 .. n /\ c # 0
    BY <1>1
  <2>2. s[c] = step[<<c, s[c - 1]>>] /\ s[c - 1] \in Int
    BY <2>1, <1>5
  <2> QED
    BY <2>2, <1>4
<1> QED
  BY <1>5, <1>6 DEF Saved

\* Translated, of any list of controls and any sizes chosen for it.
Moved(list, sizes, position) ==
    LET saved[c \in 0 .. Len(list)] ==
            IF c = 0 THEN 0
            ELSE saved[c - 1] + (IF list[c].at < position
                                 THEN list[c].old - sizes[c] ELSE 0)
    IN  position - saved[Len(list)]

\* What the controls before a position save adds up, control after control.
LEMMA SavingsAddUp ==
  ASSUME NEW list, NEW sizes, NEW q \in Int, Len(list) \in Nat,
         \A j \in 1 .. Len(list) : list[j].at \in Nat /\ list[j].old - sizes[j] \in Int
  PROVE  \E g \in [0 .. Len(list) -> Int] :
            /\ g[0] = 0
            /\ \A j \in 1 .. Len(list) :
                 g[j] = g[j - 1] + (IF list[j].at < q THEN list[j].old - sizes[j] ELSE 0)
            /\ Moved(list, sizes, q) = q - g[Len(list)]
<1> DEFINE n == Len(list)
           term(j) == IF list[j].at < q THEN list[j].old - sizes[j] ELSE 0
           step == [x \in (1 .. n) \X Int |-> x[2] + term(x[1])]
<1>1. n \in Nat
  OBVIOUS
<1>3. \A j \in 1 .. n : term(j) \in Int
  OBVIOUS
<1> HIDE DEF term
<1>4. step \in [(1 .. n) \X Int -> Int]
  BY <1>3
<1>5. \A j \in 1 .. n, v \in Int : step[<<j, v>>] = v + term(j)
  OBVIOUS
<1> HIDE DEF step
<1>6. PICK h \in [0 .. n -> Int] :
        h[0] = 0 /\ \A j \in 1 .. n : h[j] = step[<<j, h[j - 1]>>]
  <2> DEFINE W == Int
             zero == 0
  <2>1. n \in Nat /\ zero \in W /\ step \in [(1 .. n) \X W -> W]
    BY <1>1, <1>4
  <2> HIDE DEF W, zero, n
  <2>2. Recursion(W, n, zero, step)
    BY <2>1, RecursionExists
  <2> QED
    BY <2>2 DEF W, zero, Recursion
<1>7. h = [j \in 0 .. n |-> IF j = 0 THEN 0 ELSE h[j - 1] + term(j)]
  <2>1. \A j \in 0 .. n : h[j] = IF j = 0 THEN 0 ELSE h[j - 1] + term(j)
    <3> TAKE j \in 0 .. n
    <3>1. CASE j = 0
      BY <3>1, <1>6
    <3>2. CASE j # 0
      <4>1. j \in 1 .. n /\ j - 1 \in 0 .. n
        BY <3>2, <1>1
      <4>2. h[j] = step[<<j, h[j - 1]>>] /\ h[j - 1] \in Int
        BY <4>1, <1>6, <3>2
      <4> QED
        BY <4>1, <4>2, <1>5, <3>2
    <3> QED
      BY <3>1, <3>2
  <2> QED
    BY <2>1
<1> DEFINE Defines(g) == g = [j \in 0 .. n |-> IF j = 0 THEN 0 ELSE g[j - 1] + term(j)]
           g == CHOOSE g : Defines(g)
<1>8. Defines(g)
  BY <1>7
<1>9. Moved(list, sizes, q) = q - g[n]
  BY DEF Moved, term
<1> HIDE DEF g
<1>10. g[0] = 0 /\ \A j \in 1 .. n : g[j] = g[j - 1] + term(j)
  <2>1. 0 \in 0 .. n
    BY <1>1
  <2>2. \A j \in 1 .. n : j \in 0 .. n /\ j # 0
    BY <1>1
  <2> QED
    BY <1>8, <2>1, <2>2
<1>11. g \in [0 .. n -> Int]
  <2> DEFINE S == {j \in 0 .. n : g[j] \notin Int}
  <2>1. SUFFICES S = {}
    <3>1. DOMAIN g = 0 .. n /\ g = [j \in 0 .. n |-> g[j]]
      BY <1>8
    <3> QED
      BY <2>1, <3>1
  <2>2. ASSUME S # {} PROVE FALSE
    <3>1. S \in SUBSET Nat
      BY <1>1
    <3>2. PICK m \in S : \A j \in S : m <= j
      <4> HIDE DEF S
      <4> QED
        BY <2>2, <3>1, LeastNatural
    <3>3. m # 0 /\ m \in 0 .. n
      BY <1>10
    <3>4. m \in 1 .. n /\ m - 1 \in 0 .. n /\ ~(m <= m - 1)
      BY <3>3, <1>1
    <3>5. g[m - 1] \in Int
      BY <3>2, <3>4
    <3>6. g[m] = g[m - 1] + term(m) /\ term(m) \in Int
      BY <3>4, <1>10, <1>3
    <3> QED
      BY <3>5, <3>6
  <2> QED
    BY <2>2
<1>12. \A j \in 1 .. n :
         g[j] = g[j - 1] + (IF list[j].at < q THEN list[j].old - sizes[j] ELSE 0)
  BY <1>10 DEF term
<1> HIDE DEF n
<1>13. g[0] = 0 /\ n = Len(list)
  BY <1>10 DEF n
<1> QED
  BY <1>9, <1>11, <1>12, <1>13

\* A position behind exactly the first c controls moves by what they save.
LEMMA TranslatedAt ==
  ASSUME ControlsTyped, NEW s, Saved(s), NEW q \in Nat, NEW c \in 0 .. Len(controls),
         \A j \in DOMAIN controls : controls[j].at < q <=> j <= c
  PROVE  Translated(q) = q - s[c]
<1> DEFINE n == Len(controls)
           d == [j \in 1 .. n |-> controls[j].old - choices[j]]
<1>1. /\ n \in Nat /\ DOMAIN controls = 1 .. n /\ q \in Int
      /\ \A j \in 1 .. n : controls[j].at \in Nat /\ controls[j].old - choices[j] \in Int
  BY ControlShape
<1>2. d \in [1 .. n -> Int] /\ \A j \in 1 .. n : d[j] = controls[j].old - choices[j]
  BY <1>1
<1>3. PICK g \in [0 .. n -> Int] :
        /\ g[0] = 0
        /\ \A j \in 1 .. n :
             g[j] = g[j - 1] + (IF controls[j].at < q THEN controls[j].old - choices[j] ELSE 0)
        /\ Moved(controls, choices, q) = q - g[n]
  BY <1>1, SavingsAddUp
<1>4. Translated(q) = q - g[n]
  BY <1>3 DEF Translated, Moved
<1>5. \A j \in 1 .. n : g[j] = g[j - 1] + (IF j <= c THEN d[j] ELSE 0)
  BY <1>1, <1>2, <1>3
<1>6. /\ s \in [0 .. n -> Int] /\ s[0] = 0
      /\ \A j \in 1 .. n : s[j] = s[j - 1] + d[j]
  BY <1>2 DEF Saved
<1> HIDE DEF d
<1>7. g[n] = s[c]
  BY <1>1, <1>2, <1>3, <1>5, <1>6, PrefixSum
<1> QED
  BY <1>4, <1>7

-----------------------------------------------------------------------------
(* Rebuilding the code around its controls.                                  *)

\* The code between control c and the next one, by offsets.
Bound(c) == IF c = Len(controls) THEN Len(code) ELSE controls[c + 1].at
Gap(c) == (IF c = 0 THEN 0 ELSE controls[c].at + controls[c].old) .. Bound(c) - 1

\* The controls are apart, and the sizes selected are those chosen.
Cut(s) ==
    /\ ControlsTyped /\ Saved(s) /\ Len(controls) > 0 /\ code \in Seq(Byte)
    /\ \A c \in 1 .. Len(controls) :
         /\ controls[c].item \in Nat
         /\ controls[c].at + controls[c].old <= Len(code)
         /\ choices[c] <= controls[c].old
         /\ Selected(c) = Bytes(controls[c].item, choices[c])
    /\ \A c, d \in 1 .. Len(controls) :
         c < d => controls[c].at + controls[c].old <= controls[d].at

\* The code up to the gap behind control m, rebuilt.
Relaid(r, m, s) ==
    /\ r \in Seq(Byte) /\ Len(r) = Bound(m) - s[m]
    /\ \A c \in 1 .. m : \A i \in 0 .. choices[c] - 1 :
         /\ controls[c].at - s[c - 1] + i + 1 \in 1 .. Len(r)
         /\ r[controls[c].at - s[c - 1] + i + 1] = <<controls[c].item, i>>
    /\ \A c \in 0 .. m : \A q \in Gap(c) :
         q - s[c] + 1 \in 1 .. Len(r) /\ r[q - s[c] + 1] = code[q + 1]
    /\ \A p \in 1 .. Len(r) :
         \/ \E c \in 1 .. m : \E i \in 0 .. choices[c] - 1 : p = controls[c].at - s[c - 1] + i + 1
         \/ \E c \in 0 .. m : \E q \in Gap(c) : p = q - s[c] + 1

LEMMA CutNumbers ==
  ASSUME NEW s, Cut(s)
  PROVE  /\ Len(controls) \in Nat /\ Len(code) \in Nat
         /\ \A c \in 0 .. Len(controls) : s[c] \in Int
         /\ \A c \in 1 .. Len(controls) :
              /\ controls[c].at \in Nat /\ controls[c].old \in Nat /\ choices[c] \in Nat
              /\ s[c] = s[c - 1] + (controls[c].old - choices[c])
         /\ \A c \in 0 .. Len(controls) : Bound(c) \in Nat /\ Bound(c) <= Len(code)
         /\ \A c \in 1 .. Len(controls) : controls[c].at + controls[c].old <= Bound(c)
<1>1. /\ Len(controls) \in Nat /\ Len(code) \in Nat
      /\ \A c \in 1 .. Len(controls) :
           controls[c].at \in Nat /\ controls[c].old \in Nat /\ choices[c] \in Nat
  BY ControlShape, LenProperties DEF Cut
<1>2. /\ \A c \in 0 .. Len(controls) : s[c] \in Int
      /\ \A c \in 1 .. Len(controls) : s[c] = s[c - 1] + (controls[c].old - choices[c])
  BY DEF Cut, Saved
<1>3. ASSUME NEW c \in 0 .. Len(controls)
      PROVE  Bound(c) \in Nat /\ Bound(c) <= Len(code)
  <2>1. CASE c = Len(controls)
    BY <2>1, <1>1 DEF Bound
  <2>2. CASE c # Len(controls)
    <3>1. c + 1 \in 1 .. Len(controls)
      BY <2>2, <1>1
    <3>2. controls[c + 1].at + controls[c + 1].old <= Len(code)
      BY <3>1 DEF Cut
    <3> QED
      BY <3>1, <3>2, <2>2, <1>1 DEF Bound
  <2> QED
    BY <2>1, <2>2
<1>4. ASSUME NEW c \in 1 .. Len(controls)
      PROVE  controls[c].at + controls[c].old <= Bound(c)
  <2>1. CASE c = Len(controls)
    BY <2>1 DEF Bound, Cut
  <2>2. CASE c # Len(controls)
    <3>1. c + 1 \in 1 .. Len(controls) /\ c < c + 1
      BY <2>2, <1>1
    <3> QED
      BY <3>1, <2>2 DEF Bound, Cut
  <2> QED
    BY <2>1, <2>2
<1> QED
  BY <1>1, <1>2, <1>3, <1>4

\* The code before the first control is copied as it is.
LEMMA RelayFirst ==
  ASSUME NEW s, Cut(s)
  PROVE  Relaid(Copied(0, controls[1].at), 0, s)
<1> DEFINE r == Copied(0, controls[1].at)
           x == controls[1].at
<1>1. /\ x \in Nat /\ Len(code) \in Nat /\ x <= Len(code) /\ Bound(0) = x /\ s[0] = 0
      /\ Gap(0) = 0 .. x - 1 /\ code \in Seq(Byte)
  <2>1. 0 \in 0 .. Len(controls) /\ 1 \in 1 .. Len(controls) /\ 0 # Len(controls) /\ 0 + 1 = 1
    BY CutNumbers DEF Cut
  <2>2. Bound(0) = x
    BY <2>1 DEF Bound
  <2> QED
    BY <2>1, <2>2, CutNumbers DEF Cut, Gap, Saved
<1>2. \A j \in 1 .. x : code[j] \in Byte
  <2>1. \A j \in 1 .. Len(code) : code[j] \in Byte
    BY <1>1, ElementOfSeq
  <2> QED
    BY <1>1, <2>1
<1>3. /\ r \in Seq(Byte) /\ Len(r) = x /\ \A j \in 1 .. x : r[j] = code[j]
  <2>1. r = SubSeq(code, 1, x)
    BY DEF Copied
  <2> HIDE DEF r, x
  <2>2. 1 \in Int /\ x \in Int
    BY <1>1
  <2>3. /\ SubSeq(code, 1, x) \in Seq(Byte)
        /\ Len(SubSeq(code, 1, x)) = IF 1 <= x THEN x - 1 + 1 ELSE 0
        /\ \A i \in 1 .. x - 1 + 1 : SubSeq(code, 1, x)[i] = code[1 + i - 1]
    BY <1>2, <2>2, SubSeqProperties
  <2>4. x - 1 + 1 = x /\ (~(1 <= x) => x = 0) /\ \A i \in 1 .. x : 1 + i - 1 = i
    BY <1>1
  <2> QED
    BY <2>1, <2>3, <2>4
<1> HIDE DEF r, x
<1>4. \A q \in 0 .. x - 1 : q - s[0] + 1 \in 1 .. x /\ q - s[0] + 1 = q + 1
  BY <1>1
<1>5. \A p \in 1 .. x : p - 1 \in 0 .. x - 1 /\ p = (p - 1) - s[0] + 1
  BY <1>1
<1>6. 0 .. 0 = {0} /\ 1 .. 0 = {} /\ x = x - s[0]
  BY <1>1
<1>7. \A c \in 0 .. 0 : \A q \in Gap(c) :
        q - s[c] + 1 \in 1 .. Len(r) /\ r[q - s[c] + 1] = code[q + 1]
  BY <1>1, <1>3, <1>4, <1>6
<1>8. \A p \in 1 .. Len(r) : \E c \in 0 .. 0 : \E q \in Gap(c) : p = q - s[c] + 1
  BY <1>1, <1>3, <1>5, <1>6
<1>9. r \in Seq(Byte) /\ Len(r) = Bound(0) - s[0]
  BY <1>1, <1>3, <1>6
<1> QED
  BY <1>6, <1>7, <1>8, <1>9 DEF Relaid, r

\* A control of the size chosen and the gap behind it are appended.
LEMMA RelayNext ==
  ASSUME NEW s, Cut(s), NEW m \in 1 .. Len(controls), NEW r, Relaid(r, m - 1, s)
  PROVE  Relaid(r \o Selected(m) \o Copied(controls[m].at + controls[m].old, Bound(m)), m, s)
<1> DEFINE a == Selected(m)
           o == controls[m].old
           lo == controls[m].at + controls[m].old
           hi == Bound(m)
           b == Copied(lo, hi)
           R == r \o a \o b
           x == controls[m].at
           w == choices[m]
           l == Len(r)
<1>1. /\ x \in Nat /\ lo \in Nat /\ hi \in Nat /\ w \in Nat /\ o \in Nat
      /\ lo = x + o /\ lo <= hi /\ hi <= Len(code) /\ Len(code) \in Nat
      /\ s[m - 1] \in Int /\ s[m] \in Int /\ s[m] = s[m - 1] + (o - w)
      /\ m - 1 \in 0 .. Len(controls) /\ m \in 0 .. Len(controls) /\ controls[m].item \in Nat
  <2>1. m - 1 \in 0 .. Len(controls) /\ m \in 0 .. Len(controls)
    BY CutNumbers
  <2> QED
    BY <2>1, CutNumbers DEF Cut
<1>2. Bound(m - 1) = x /\ l = x - s[m - 1] /\ l \in Nat /\ r \in Seq(Byte)
  <2>1. m - 1 # Len(controls) /\ m - 1 + 1 = m
    BY CutNumbers
  <2> QED
    BY <2>1, LenProperties DEF Bound, Relaid
<1>3. a \in Seq(Byte) /\ Len(a) = w /\ \A i \in 1 .. w : a[i] = <<controls[m].item, i - 1>>
  <2>1. a = [i \in 1 .. w |-> <<controls[m].item, i - 1>>]
    BY DEF Cut, Bytes
  <2>2. \A i \in 1 .. w : <<controls[m].item, i - 1>> \in Byte
    BY <1>1 DEF Byte
  <2> HIDE DEF a, w
  <2>3. a \in [1 .. w -> Byte]
    BY <2>1, <2>2
  <2>4. a \in Seq(Byte) /\ DOMAIN a = 1 .. w
    BY <1>1, <2>3, SeqDef
  <2>5. Len(a) = w
    BY <1>1, <2>4, LenProperties
  <2> QED
    BY <2>1, <2>4, <2>5
<1>4. /\ b \in Seq(Byte) /\ Len(b) = hi - lo
      /\ \A i \in 1 .. hi - lo : b[i] = code[lo + i]
  <2>1. \A j \in 1 .. Len(code) : code[j] \in Byte
    BY ElementOfSeq DEF Cut
  <2> HIDE DEF lo, hi, b, x, o, w
  <2>2. lo + 1 \in Int /\ hi \in Int /\ \A j \in lo + 1 .. hi : code[j] \in Byte
    BY <1>1, <2>1
  <2>3. b = SubSeq(code, lo + 1, hi)
    BY DEF b, Copied
  <2>4. /\ SubSeq(code, lo + 1, hi) \in Seq(Byte)
        /\ Len(SubSeq(code, lo + 1, hi)) = IF lo + 1 <= hi THEN hi - (lo + 1) + 1 ELSE 0
        /\ \A i \in 1 .. hi - (lo + 1) + 1 : SubSeq(code, lo + 1, hi)[i] = code[lo + 1 + i - 1]
    BY <2>2, SubSeqProperties
  <2>5. hi - (lo + 1) + 1 = hi - lo /\ (~(lo + 1 <= hi) => hi - lo = 0)
        /\ \A i \in 1 .. hi - lo : lo + 1 + i - 1 = lo + i
    BY <1>1
  <2> QED
    BY <2>3, <2>4, <2>5
<1> HIDE DEF a, b, lo, hi, x, o, w, l
<1>5. /\ R \in Seq(Byte) /\ Len(R) = l + w + (hi - lo)
      /\ \A p \in 1 .. l : R[p] = r[p]
      /\ \A i \in 1 .. w : R[l + i] = a[i]
      /\ \A i \in 1 .. hi - lo : R[l + w + i] = b[i]
  <2> DEFINE ra == r \o a
  <2>1. /\ ra \in Seq(Byte) /\ Len(ra) = l + w
        /\ \A i \in 1 .. l + w : ra[i] = IF i <= l THEN r[i] ELSE a[i - l]
    BY <1>2, <1>3, ConcatProperties DEF l
  <2> HIDE DEF ra
  <2>7. R = ra \o b
    BY DEF ra
  <2> HIDE DEF R
  <2>2. /\ R \in Seq(Byte) /\ Len(R) = l + w + (hi - lo)
        /\ \A i \in 1 .. l + w + (hi - lo) : R[i] = IF i <= l + w THEN ra[i] ELSE b[i - (l + w)]
    BY <1>4, <2>7, <2>1, ConcatProperties
  <2>3. l \in Nat /\ w \in Nat /\ hi - lo \in Nat
    BY <1>1, <1>2
  <2>4. ASSUME NEW p \in 1 .. l PROVE R[p] = r[p]
    <3>1. p \in 1 .. l + w /\ p \in 1 .. l + w + (hi - lo) /\ p <= l + w /\ p <= l
      BY <2>3
    <3> QED
      BY <3>1, <2>1, <2>2
  <2>5. ASSUME NEW i \in 1 .. w PROVE R[l + i] = a[i]
    <3>1. /\ l + i \in 1 .. l + w /\ l + i \in 1 .. l + w + (hi - lo) /\ l + i <= l + w
          /\ ~(l + i <= l) /\ (l + i) - l = i
      BY <2>3
    <3> QED
      BY <3>1, <2>1, <2>2
  <2>6. ASSUME NEW i \in 1 .. hi - lo PROVE R[l + w + i] = b[i]
    <3>1. /\ l + w + i \in 1 .. l + w + (hi - lo) /\ ~(l + w + i <= l + w)
          /\ (l + w + i) - (l + w) = i
      BY <2>3
    <3> QED
      BY <3>1, <2>2
  <2> QED
    BY <2>2, <2>4, <2>5, <2>6
<1> DEFINE s0 == s[m - 1]
           s1 == s[m]
           L == Len(R)
<1> HIDE DEF R
<1>6. /\ l \in Nat /\ w \in Nat /\ o \in Nat /\ x \in Nat /\ lo \in Nat /\ hi \in Nat
      /\ s0 \in Int /\ s1 \in Int
      /\ l = x - s0 /\ s1 = s0 + (o - w) /\ lo = x + o /\ lo <= hi
  BY <1>1, <1>2
<1> HIDE DEF s0, s1, L
<1>7. L = hi - s1 /\ L \in Nat /\ L = l + w + (hi - lo) /\ hi - lo \in Nat
  <2>1. L = l + w + (hi - lo)
    BY <1>5 DEF L
  <2> QED
    BY <2>1, <1>6
<1>8. /\ \A c \in 1 .. m - 1 : \A i \in 0 .. choices[c] - 1 :
           /\ controls[c].at - s[c - 1] + i + 1 \in 1 .. l
           /\ r[controls[c].at - s[c - 1] + i + 1] = <<controls[c].item, i>>
      /\ \A c \in 0 .. m - 1 : \A q \in Gap(c) :
           q - s[c] + 1 \in 1 .. l /\ r[q - s[c] + 1] = code[q + 1]
      /\ \A p \in 1 .. l :
           \/ \E c \in 1 .. m - 1 : \E i \in 0 .. choices[c] - 1 :
                 p = controls[c].at - s[c - 1] + i + 1
           \/ \E c \in 0 .. m - 1 : \E q \in Gap(c) : p = q - s[c] + 1
  BY DEF Relaid, l
<1>9. \A p \in 1 .. l : p \in 1 .. Len(R) /\ R[p] = r[p]
  <2>1. \A p \in 1 .. l : p \in 1 .. L
    BY <1>6, <1>7
  <2> QED
    BY <2>1, <1>5 DEF L
<1>10. \A c \in 1 .. m : c # m => c \in 1 .. m - 1
  BY <1>1
<1>11. \A c \in 0 .. m : c # m => c \in 0 .. m - 1
  BY <1>1
<1>12. ASSUME NEW c \in 1 .. m, NEW i \in 0 .. choices[c] - 1
       PROVE  /\ controls[c].at - s[c - 1] + i + 1 \in 1 .. Len(R)
              /\ R[controls[c].at - s[c - 1] + i + 1] = <<controls[c].item, i>>
  <2>1. CASE c # m
    <3>1. c \in 1 .. m - 1
      BY <2>1, <1>10
    <3> QED
      BY <3>1, <1>8, <1>9
  <2>2. CASE c = m
    <3>1. i \in 0 .. w - 1 /\ controls[c].at = x /\ s[c - 1] = s0
      BY <2>2 DEF w, x, s0
    <3>2. /\ i + 1 \in 1 .. w /\ x - s0 + i + 1 = l + (i + 1) /\ (i + 1) - 1 = i
          /\ l + (i + 1) \in 1 .. L
      BY <3>1, <1>6, <1>7
    <3>3. R[l + (i + 1)] = <<controls[m].item, i>>
      BY <3>2, <1>3, <1>5
    <3> QED
      BY <3>1, <3>2, <3>3, <2>2 DEF L
  <2> QED
    BY <2>1, <2>2
<1>13. Gap(m) = lo .. hi - 1
  <2>1. m # 0
    BY <1>1
  <2> QED
    BY <2>1 DEF Gap, lo, hi
<1>14. ASSUME NEW c \in 0 .. m, NEW q \in Gap(c)
       PROVE  q - s[c] + 1 \in 1 .. Len(R) /\ R[q - s[c] + 1] = code[q + 1]
  <2>1. CASE c # m
    <3>1. c \in 0 .. m - 1
      BY <2>1, <1>11
    <3> QED
      BY <3>1, <1>8, <1>9
  <2>2. CASE c = m
    <3>1. q \in lo .. hi - 1
      BY <2>2, <1>13
    <3>2. /\ q - lo + 1 \in 1 .. hi - lo /\ q - s1 + 1 = l + w + (q - lo + 1)
          /\ lo + (q - lo + 1) = q + 1 /\ q - s1 + 1 \in 1 .. L
      BY <3>1, <1>6, <1>7
    <3>3. R[l + w + (q - lo + 1)] = code[lo + (q - lo + 1)]
      BY <3>2, <1>4, <1>5
    <3> QED
      BY <3>2, <3>3, <2>2 DEF L, s1
  <2> QED
    BY <2>1, <2>2
<1>15. ASSUME NEW p \in 1 .. Len(R)
       PROVE  \/ \E c \in 1 .. m : \E i \in 0 .. choices[c] - 1 :
                    p = controls[c].at - s[c - 1] + i + 1
              \/ \E c \in 0 .. m : \E q \in Gap(c) : p = q - s[c] + 1
  <2>5. p \in 1 .. L
    BY DEF L
  <2>1. 1 .. m - 1 \subseteq 1 .. m /\ 0 .. m - 1 \subseteq 0 .. m /\ m \in 1 .. m /\ m \in 0 .. m
    BY <1>1
  <2>2. CASE p <= l
    <3>1. p \in 1 .. l
      BY <2>5, <2>2, <1>6
    <3> QED
      BY <3>1, <2>1, <1>8
  <2>3. CASE ~(p <= l) /\ p <= l + w
    <3>1. p - l - 1 \in 0 .. w - 1 /\ p = x - s0 + (p - l - 1) + 1
      BY <2>5, <2>3, <1>6
    <3>2. \E i \in 0 .. choices[m] - 1 : p = controls[m].at - s[m - 1] + i + 1
      BY <3>1 DEF x, w, s0
    <3> QED
      BY <3>2, <2>1
  <2>4. CASE ~(p <= l + w)
    <3>1. lo + (p - l - w) - 1 \in lo .. hi - 1 /\ p = (lo + (p - l - w) - 1) - s1 + 1
      BY <2>5, <2>4, <1>6, <1>7
    <3> QED
      BY <3>1, <1>13, <2>1 DEF s1
  <2> QED
    BY <2>2, <2>3, <2>4
<1>16. R \in Seq(Byte) /\ Len(R) = Bound(m) - s[m]
  BY <1>5, <1>7 DEF hi, s1, L
<1>17. Relaid(R, m, s)
  BY <1>12, <1>14, <1>15, <1>16 DEF Relaid
<1> QED
  BY <1>17 DEF R, a, b, lo, hi

LEMMA RebuiltRelaid ==
  ASSUME NEW s, Cut(s)
  PROVE  Relaid(Rebuilt, Len(controls), s)
<1> DEFINE n == Len(controls)
           first == Copied(0, controls[1].at)
           piece(c) == Copied(controls[c].at + controls[c].old, Bound(c))
           W == Seq(Byte)
           step == [x \in (1 .. n) \X W |-> x[2] \o Selected(x[1]) \o piece(x[1])]
<1>1. n \in Nat
  BY CutNumbers
<1>2. \A c \in 1 .. n : Selected(c) \in W /\ piece(c) \in W
  <2> TAKE c \in 1 .. n
  <2>1. /\ choices[c] \in Nat /\ controls[c].item \in Nat
        /\ controls[c].at + controls[c].old \in Nat /\ Bound(c) \in Nat /\ Bound(c) <= Len(code)
        /\ Len(code) \in Nat
    <3>1. c \in 0 .. n
      BY <1>1
    <3>2. controls[c].at \in Nat /\ controls[c].old \in Nat /\ choices[c] \in Nat
      BY CutNumbers
    <3>3. controls[c].item \in Nat
      BY DEF Cut
    <3> QED
      BY <3>1, <3>2, <3>3, CutNumbers
  <2>2. Selected(c) \in W
    <3> DEFINE w == choices[c]
               i == controls[c].item
    <3>1. Selected(c) = [j \in 1 .. w |-> <<i, j - 1>>]
      BY DEF Cut, Bytes
    <3>2. w \in Nat /\ i \in Nat
      BY <2>1
    <3> HIDE DEF w, i
    <3>3. [j \in 1 .. w |-> <<i, j - 1>>] \in [1 .. w -> Byte]
      BY <3>2 DEF Byte
    <3>4. [j \in 1 .. w |-> <<i, j - 1>>] \in Seq(Byte)
      BY <3>2, <3>3, SeqDef
    <3> QED
      BY <3>1, <3>4
  <2>3. piece(c) \in W
    <3> DEFINE lo == controls[c].at + controls[c].old
               hi == Bound(c)
    <3>1. code \in Seq(Byte)
      BY DEF Cut
    <3>2. \A j \in 1 .. Len(code) : code[j] \in Byte
      BY <3>1, ElementOfSeq
    <3>3. lo \in Nat /\ hi \in Nat /\ hi <= Len(code) /\ Len(code) \in Nat
      BY <2>1
    <3> HIDE DEF lo, hi
    <3>4. lo + 1 \in Int /\ hi \in Int /\ \A j \in lo + 1 .. hi : code[j] \in Byte
      BY <3>2, <3>3
    <3>5. SubSeq(code, lo + 1, hi) \in Seq(Byte)
      BY <3>4, SubSeqProperties
    <3> QED
      BY <3>5 DEF lo, hi, Copied
  <2> QED
    BY <2>2, <2>3
<1>3. first \in W
  BY RelayFirst DEF Relaid
<1> HIDE DEF piece, first
<1>4. step \in [(1 .. n) \X W -> W]
  <2>1. ASSUME NEW x \in (1 .. n) \X W
        PROVE  x[2] \o Selected(x[1]) \o piece(x[1]) \in W
    <3>1. x[1] \in 1 .. n /\ x[2] \in W
      OBVIOUS
    <3>2. Selected(x[1]) \in W /\ piece(x[1]) \in W
      BY <3>1, <1>2
    <3>3. x[2] \o Selected(x[1]) \in W
      BY <3>1, <3>2, ConcatProperties
    <3> QED
      BY <3>2, <3>3, ConcatProperties
  <2> QED
    BY <2>1
<1>5. \A c \in 1 .. n, v \in W : step[<<c, v>>] = v \o Selected(c) \o piece(c)
  OBVIOUS
<1> HIDE DEF step
<1>6. PICK h \in [0 .. n -> W] :
        h[0] = first /\ \A c \in 1 .. n : h[c] = step[<<c, h[c - 1]>>]
  <2>1. n \in Nat /\ first \in W /\ step \in [(1 .. n) \X W -> W]
    BY <1>1, <1>3, <1>4
  <2> HIDE DEF W, n
  <2>2. Recursion(W, n, first, step)
    BY <2>1, RecursionExists
  <2> QED
    BY <2>2 DEF Recursion
<1>7. h = [c \in 0 .. n |-> IF c = 0 THEN first ELSE h[c - 1] \o Selected(c) \o piece(c)]
  <2>1. \A c \in 0 .. n : h[c] = IF c = 0 THEN first ELSE h[c - 1] \o Selected(c) \o piece(c)
    <3> TAKE c \in 0 .. n
    <3>1. CASE c = 0
      BY <3>1, <1>6
    <3>2. CASE c # 0
      <4>1. c \in 1 .. n /\ c - 1 \in 0 .. n
        BY <3>2, <1>1
      <4>2. h[c] = step[<<c, h[c - 1]>>] /\ h[c - 1] \in W
        BY <4>1, <1>6
      <4> QED
        BY <4>1, <4>2, <1>5, <3>2
    <3> QED
      BY <3>1, <3>2
  <2> QED
    BY <2>1
<1> DEFINE Defines(g) ==
             g = [c \in 0 .. n |-> IF c = 0 THEN first ELSE g[c - 1] \o Selected(c) \o piece(c)]
           g == CHOOSE g : Defines(g)
<1>8. Defines(g)
  BY <1>7
<1>9. Rebuilt = g[n]
  BY DEF Rebuilt, piece, first, Bound
<1> HIDE DEF g
<1>10. g[0] = first /\ \A c \in 1 .. n : g[c] = g[c - 1] \o Selected(c) \o piece(c)
  <2>1. 0 \in 0 .. n
    BY <1>1
  <2>2. \A c \in 1 .. n : c \in 0 .. n /\ c # 0
    BY <1>1
  <2> QED
    BY <1>8, <2>1, <2>2
<1> DEFINE S == {c \in 0 .. n : ~Relaid(g[c], c, s)}
<1>11. CASE S = {}
  <2>1. n \in 0 .. n
    BY <1>1
  <2> QED
    BY <1>9, <1>11, <2>1
<1>12. CASE S # {}
  <2>1. S \in SUBSET Nat
    BY <1>1
  <2>2. PICK m \in S : \A j \in S : m <= j
    <3> HIDE DEF S
    <3> QED
      BY <1>12, <2>1, LeastNatural
  <2>3. Relaid(g[0], 0, s)
    BY <1>10, RelayFirst DEF first
  <2>4. m \in 0 .. n /\ ~Relaid(g[m], m, s) /\ m # 0
    BY <2>3
  <2>5. m \in 1 .. n /\ m - 1 \in 0 .. n /\ ~(m <= m - 1)
    BY <2>4, <1>1
  <2>6. Relaid(g[m - 1], m - 1, s)
    BY <2>2, <2>5
  <2>7. Relaid(g[m - 1] \o Selected(m) \o piece(m), m, s)
    BY <2>5, <2>6, RelayNext DEF piece
  <2> QED
    BY <2>4, <2>5, <2>7, <1>10
<1> QED
  BY <1>11, <1>12

-----------------------------------------------------------------------------
(* Items.                                                                    *)

LEMMA ItemShape ==
  ASSUME program \in Programs
  PROVE  /\ Len(program) \in Nat /\ DOMAIN program = 1 .. Len(program)
         /\ \A i \in DOMAIN program :
              /\ Item(i).kind \in {"plain", "branch", "call", "address", "data", "reserved"}
              /\ Item(i).kind \in {"plain", "data", "reserved"} => Item(i).size \in Nat \ {0}
              /\ Item(i).kind \in {"data", "reserved"} => Item(i).align \in Nat \ {0}
         /\ \A i, j \in DOMAIN program : i < j /\ ~InImage(i) => ~InImage(j)
<1>1. program \in Seq(Items)
  BY ProgramsAssumption
<1>2. Len(program) \in Nat /\ DOMAIN program = 1 .. Len(program)
  BY <1>1, LenProperties
<1>3. \A i \in DOMAIN program : Item(i) \in Items
  BY <1>1, <1>2, ElementOfSeq DEF Item
<1>4. ASSUME NEW x \in Items
      PROVE  /\ x.kind \in {"plain", "branch", "call", "address", "data", "reserved"}
             /\ x.kind \in {"plain", "data", "reserved"} => x.size \in Nat \ {0}
             /\ x.kind \in {"data", "reserved"} => x.align \in Nat \ {0}
  <2>1. CASE x \in [kind : {"plain"}, size : Nat \ {0}]
    BY <2>1
  <2>2. CASE x \in [kind : {"branch", "call", "address"}, label : Nat]
    BY <2>2
  <2>3. CASE x \in [kind : {"data", "reserved"}, size : Nat \ {0}, align : Nat \ {0}]
    BY <2>3
  <2> QED
    BY <2>1, <2>2, <2>3 DEF Items
<1>5. ASSUME NEW i \in DOMAIN program, NEW j \in DOMAIN program, i < j, ~InImage(i)
      PROVE  ~InImage(j)
  <2>1. i <= Len(program) /\ Item(i).kind = "reserved"
    BY <1>2, <1>5 DEF InImage
  <2>2. program[j].kind = "reserved"
    BY <1>5, <2>1, ProgramsAssumption DEF Item
  <2> QED
    BY <2>2 DEF InImage, Item
<1> QED
  BY <1>2, <1>3, <1>4, <1>5

LEMMA ControlSizes ==
  ASSUME isa \in Isas, NEW kind \in {"branch", "call"}
  PROVE  /\ OldSize(kind) \in Nat \ {0} /\ NewSize(kind) \in Nat \ {0}
         /\ NewSize(kind) <= OldSize(kind)
<1>1. isa \in {"dynphony", "symphony"}
  BY ImageAssumption
<1> QED
  BY <1>1 DEF OldSize, NewSize

LEMMA SizeShape ==
  ASSUME isa \in Isas, program \in Programs, NEW i \in DOMAIN program, InImage(i)
  PROVE  /\ Emitted(i) \in Nat \ {0}
         /\ FinalSize(i) \in Nat \ {0}
         /\ IsControl(i) => /\ Emitted(i) = OldSize(Item(i).kind)
                            /\ NewSize(Item(i).kind) \in Nat \ {0}
                            /\ NewSize(Item(i).kind) <= Emitted(i)
         /\ ~IsControl(i) => FinalSize(i) = Emitted(i)
<1>1. Item(i).kind \in {"plain", "branch", "call", "address", "data"}
  BY ItemShape DEF InImage
<1>2. Item(i).kind \in {"plain", "data"} => Item(i).size \in Nat \ {0}
  BY ItemShape
<1>3. CASE IsControl(i)
  <2>1. Item(i).kind \in {"branch", "call"}
    BY <1>3 DEF IsControl
  <2>2. Emitted(i) = OldSize(Item(i).kind)
    BY <1>3, <2>1 DEF Emitted
  <2>3. FinalSize(i) \in {NewSize(Item(i).kind), OldSize(Item(i).kind)}
    BY <1>3 DEF FinalSize
  <2> QED
    BY <1>3, <2>1, <2>2, <2>3, ControlSizes
<1>4. CASE ~IsControl(i)
  <2>1. FinalSize(i) = Emitted(i)
    BY <1>4 DEF FinalSize
  <2>2. Item(i).kind \in {"plain", "address", "data"}
    BY <1>1, <1>4 DEF IsControl
  <2>3. Emitted(i) \in Nat \ {0}
    <3>1. Emitted(i) = IF Item(i).kind = "address" THEN Constant ELSE Item(i).size
      BY <1>4, <2>2 DEF Emitted
    <3> QED
      BY <1>2, <2>2, <3>1 DEF Constant
  <2> QED
    BY <1>4, <2>1, <2>3
<1> QED
  BY <1>3, <1>4

LEMMA LabelShape ==
  ASSUME Types
  PROVE  /\ Len(labels) \in Nat /\ DOMAIN labels = 1 .. Len(labels)
         /\ \A l \in DOMAIN labels : labels[l] \in Nat /\ l \in DOMAIN program
         /\ Len(code) \in Nat /\ DOMAIN code = 1 .. Len(code)
         /\ InCode \subseteq DOMAIN labels /\ \A i \in InCode : InImage(i)
<1>1. Len(labels) \in Nat /\ DOMAIN labels = 1 .. Len(labels)
  BY LenProperties DEF Types
<1>2. Len(code) \in Nat /\ DOMAIN code = 1 .. Len(code)
  BY LenProperties DEF Types
<1>3. \A l \in DOMAIN labels : labels[l] \in Nat
  BY <1>1, ElementOfSeq DEF Types
<1>4. \A l \in DOMAIN labels : l \in DOMAIN program
  BY <1>1, ItemShape DEF Types
<1> QED
  BY <1>1, <1>2, <1>3, <1>4 DEF InCode

-----------------------------------------------------------------------------
(* Emitting.                                                                 *)

LEMMA InitInvariant == Init => ImageInvariant
<1> SUFFICES ASSUME Init PROVE ImageInvariant
  OBVIOUS
<1>1. /\ isa \in Isas /\ load \in LoadAddresses /\ program \in Programs /\ phase = "emit"
      /\ code = <<>> /\ labels = <<>> /\ controls = <<>> /\ next = 1 /\ changed = FALSE
  BY DEF Init
<1>2. Types
  <2>1. Len(labels) = 0 /\ Len(program) \in Nat
    BY <1>1, ItemShape
  <2>2. \A S : <<>> \in Seq(S)
    BY EmptySeq
  <2>3. code \in Seq(Byte) /\ labels \in Seq(Nat)
        /\ controls \in Seq([at : Nat, item : Nat, old : Nat])
    BY <1>1, <2>2
  <2>4. Len(labels) <= Len(program)
    BY <2>1
  <2>5. next \in Nat /\ changed \in BOOLEAN
    BY <1>1
  <2> QED
    BY <1>1, <2>3, <2>4, <2>5 DEF Types
<1>3. DOMAIN labels = {} /\ DOMAIN code = {} /\ DOMAIN controls = {} /\ InCode = {}
  BY <1>1 DEF InCode
<1>4. AsEmitted
  BY <1>3 DEF AsEmitted, Lays, ControlsListed
<1>5. ChoicesSound /\ Complete /\ AsRelaxed
  BY <1>1, <1>3 DEF ChoicesSound, Complete, AsRelaxed
<1> QED
  BY <1>2, <1>4, <1>5 DEF ImageInvariant

\* One more item, at a place behind the code and its padding.
LEMMA Emission ==
  ASSUME ImageInvariant, phase = "emit", UNCHANGED target,
         NEW i, i = Emitting, InImage(i), NEW place \in Nat, Len(code) <= place,
         labels' = Append(labels, place),
         code' \in Seq(Byte), Len(code') = place + Emitted(i),
         \A p \in DOMAIN code : code'[p] = code[p],
         \A p \in Len(code) + 1 .. place : code'[p] = Pad,
         \A j \in 0 .. Emitted(i) - 1 : code'[place + j + 1] = <<i, j>>
  PROVE  /\ i \in DOMAIN program /\ i \notin DOMAIN labels
         /\ labels' \in Seq(Nat) /\ Len(labels') <= Len(program)
         /\ DOMAIN labels' = DOMAIN labels \cup {i}
         /\ labels'[i] = place /\ \A l \in DOMAIN labels : labels'[l] = labels[l]
         /\ InCode = DOMAIN labels /\ InCode' = DOMAIN labels'
         /\ \A l \in DOMAIN program : (IsControl(l))' = IsControl(l) /\ (Emitted(l))' = Emitted(l)
         /\ Lays(code', labels', InCode', Longest')
<1>1. /\ Types /\ Lays(code, labels, InCode, Longest) /\ InCode = DOMAIN labels
  BY DEF ImageInvariant, AsEmitted, Unrelaxed, Complete
<1>2. /\ Len(labels) \in Nat /\ DOMAIN labels = 1 .. Len(labels) /\ i = Len(labels) + 1
      /\ Len(program) \in Nat /\ DOMAIN program = 1 .. Len(program)
      /\ program' = program /\ isa' = isa /\ load' = load
  BY <1>1, LabelShape, ItemShape DEF Types, Emitting, target
<1>3. i \in DOMAIN program /\ i \notin DOMAIN labels
  BY <1>2 DEF InImage
<1>4. /\ labels' \in Seq(Nat) /\ Len(labels') = Len(labels) + 1
      /\ labels'[i] = place /\ \A l \in DOMAIN labels : labels'[l] = labels[l]
  <2>1. labels \in Seq(Nat)
    BY <1>1 DEF Types
  <2> QED
    BY <2>1, <1>2, AppendProperties
<1>5. DOMAIN labels' = DOMAIN labels \cup {i} /\ Len(labels') <= Len(program)
  <2>1. DOMAIN labels' = 1 .. Len(labels) + 1
    BY <1>4, LenProperties
  <2> QED
    BY <2>1, <1>2, <1>3, <1>4
<1>6. \A l \in DOMAIN program :
        /\ (IsControl(l))' = IsControl(l) /\ (Emitted(l))' = Emitted(l)
        /\ (InImage(l))' = InImage(l)
  BY <1>2 DEF IsControl, Item, Emitted, InImage, OldSize
<1>7. InCode' = DOMAIN labels'
  <2>1. \A l \in DOMAIN labels' : InImage(l) /\ l \in DOMAIN program
    BY <1>1, <1>3, <1>5, LabelShape
  <2> QED
    BY <2>1, <1>6 DEF InCode
<1>8. /\ Longest'[i] = Emitted(i)
      /\ \A l \in DOMAIN labels : Longest'[l] = Emitted(l) /\ Longest[l] = Emitted(l)
  <2>1. \A l \in DOMAIN labels' : Longest'[l] = (Emitted(l))'
    BY <1>7 DEF Longest
  <2>2. \A l \in DOMAIN labels : Longest[l] = Emitted(l)
    BY <1>1 DEF Longest
  <2>3. \A l \in DOMAIN labels' : l \in DOMAIN program
    BY <1>1, <1>3, <1>5, LabelShape
  <2> QED
    BY <2>1, <2>2, <2>3, <1>5, <1>6
<1>9. /\ Emitted(i) \in Nat \ {0} /\ Len(code) \in Nat /\ DOMAIN code = 1 .. Len(code)
      /\ DOMAIN code' = 1 .. place + Emitted(i)
  BY <1>1, <1>3, SizeShape, LabelShape, LenProperties DEF Types
<1>10. DOMAIN code \subseteq DOMAIN code'
  BY <1>9
<1>11. ASSUME NEW l \in InCode', NEW j \in 0 .. Longest'[l] - 1
       PROVE  labels'[l] + j + 1 \in DOMAIN code' /\ code'[labels'[l] + j + 1] = <<l, j>>
  <2>1. CASE l = i
    <3>1. j \in 0 .. Emitted(i) - 1 /\ labels'[l] = place
      BY <2>1, <1>4, <1>8
    <3>2. place + j + 1 \in DOMAIN code'
      BY <3>1, <1>9
    <3> QED
      BY <2>1, <3>1, <3>2
  <2>2. CASE l # i
    <3>1. l \in DOMAIN labels
      BY <2>2, <1>5, <1>7
    <3>2. labels'[l] = labels[l] /\ j \in 0 .. Longest[l] - 1
      BY <3>1, <1>4, <1>8
    <3>3. labels[l] + j + 1 \in DOMAIN code /\ code[labels[l] + j + 1] = <<l, j>>
      BY <3>1, <3>2, <1>1 DEF Lays
    <3> QED
      BY <3>2, <3>3, <1>10
  <2> QED
    BY <2>1, <2>2
<1>12. ASSUME NEW p \in DOMAIN code'
       PROVE  \/ code'[p] = Pad
              \/ \E l \in InCode' : \E j \in 0 .. Longest'[l] - 1 :
                    p = labels'[l] + j + 1 /\ code'[p] = <<l, j>>
  <2>1. CASE p \in DOMAIN code
    <3>1. code'[p] = code[p]
      BY <2>1
    <3>2. CASE code[p] = Pad
      BY <3>1, <3>2
    <3>3. CASE code[p] # Pad
      <4>1. PICK l \in InCode : \E j \in 0 .. Longest[l] - 1 :
              p = labels[l] + j + 1 /\ code[p] = <<l, j>>
        BY <2>1, <3>3, <1>1 DEF Lays
      <4>2. /\ l \in InCode' /\ labels'[l] = labels[l] /\ Longest'[l] = Longest[l]
        BY <1>1, <1>4, <1>5, <1>7, <1>8
      <4> QED
        BY <4>1, <4>2, <3>1
    <3> QED
      BY <3>2, <3>3
  <2>2. CASE p \in Len(code) + 1 .. place
    BY <2>2
  <2>3. CASE p \notin DOMAIN code /\ p \notin Len(code) + 1 .. place
    <3> DEFINE j == p - place - 1
    <3>1. j \in 0 .. Emitted(i) - 1 /\ p = place + j + 1
      BY <2>3, <1>9
    <3> HIDE DEF j
    <3>2. code'[p] = <<i, j>> /\ i \in InCode' /\ p = labels'[i] + j + 1
      BY <3>1, <1>4, <1>5, <1>7
    <3> QED
      BY <3>1, <3>2, <1>8
  <2> QED
    BY <2>1, <2>2, <2>3
<1>13. Lays(code', labels', InCode', Longest')
  BY <1>11, <1>12 DEF Lays
<1> QED
  BY <1>1, <1>3, <1>4, <1>5, <1>6, <1>7, <1>13

\* No control reaches past the code.
LEMMA ControlsInCode ==
  ASSUME Types, Lays(code, labels, InCode, Longest), ControlsListed
  PROVE  /\ Len(controls) \in Nat /\ DOMAIN controls = 1 .. Len(controls)
         /\ \A c \in DOMAIN controls :
              /\ controls[c] \in [at : Nat, item : Nat, old : Nat]
              /\ controls[c].at \in Nat /\ controls[c].item \in Nat /\ controls[c].old \in Nat \ {0}
              /\ controls[c].at + controls[c].old <= Len(code)
<1> DEFINE Control == [at : Nat, item : Nat, old : Nat]
<1>1. controls \in Seq(Control)
  BY DEF Types
<1>2. \A x \in Control : x.at \in Nat /\ x.item \in Nat /\ x.old \in Nat
  OBVIOUS
<1> HIDE DEF Control
<1>3. Len(controls) \in Nat /\ DOMAIN controls = 1 .. Len(controls)
  BY <1>1, LenProperties
<1>4. \A c \in DOMAIN controls : controls[c] \in Control
  BY <1>1, <1>3, ElementOfSeq
<1>5. ASSUME NEW c \in DOMAIN controls
      PROVE  controls[c].old # 0 /\ controls[c].at + controls[c].old <= Len(code)
  <2> DEFINE i == controls[c].item
             w == controls[c].old
             a == controls[c].at
  <2>1. i \in InCode /\ a = labels[i] /\ w = Emitted(i) /\ Longest[i] = w
    BY DEF ControlsListed, Longest
  <2>2. w \in Nat \ {0}
    BY <2>1, LabelShape, SizeShape DEF Types
  <2>3. a \in Nat /\ Len(code) \in Nat /\ DOMAIN code = 1 .. Len(code)
    BY <1>2, <1>4, LabelShape
  <2> HIDE DEF i, w, a
  <2>4. w - 1 \in 0 .. Longest[i] - 1
    BY <2>1, <2>2
  <2>5. a + (w - 1) + 1 \in DOMAIN code
    BY <2>1, <2>4 DEF Lays
  <2>6. w # 0 /\ a + w <= Len(code)
    BY <2>2, <2>3, <2>5
  <2> QED
    BY <2>6 DEF w, a
<1> QED
  BY <1>2, <1>3, <1>4, <1>5 DEF Control

LEMMA EmitInvariant ==
  ASSUME ImageInvariant, phase = "emit", UNCHANGED <<target, phase, next, changed>>,
         NEW i, i = Emitting, InImage(i), NEW place \in Nat, Len(code) <= place,
         labels' = Append(labels, place),
         code' \in Seq(Byte), Len(code') = place + Emitted(i),
         \A p \in DOMAIN code : code'[p] = code[p],
         \A p \in Len(code) + 1 .. place : code'[p] = Pad,
         \A j \in 0 .. Emitted(i) - 1 : code'[place + j + 1] = <<i, j>>,
         controls' = IF IsControl(i)
                     THEN Append(controls, [at |-> place, item |-> i, old |-> Emitted(i)])
                     ELSE controls
  PROVE  ImageInvariant'
<1> DEFINE new == [at |-> place, item |-> i, old |-> Emitted(i)]
           Control == [at : Nat, item : Nat, old : Nat]
<1>1. /\ Types /\ Lays(code, labels, InCode, Longest) /\ ControlsListed
      /\ phase' = "emit"
  BY DEF ImageInvariant, AsEmitted, Unrelaxed
<1>2. UNCHANGED target
  OBVIOUS
<1>3. /\ i \in DOMAIN program /\ i \notin DOMAIN labels
      /\ labels' \in Seq(Nat) /\ Len(labels') <= Len(program)
      /\ DOMAIN labels' = DOMAIN labels \cup {i}
      /\ labels'[i] = place /\ \A l \in DOMAIN labels : labels'[l] = labels[l]
      /\ InCode = DOMAIN labels /\ InCode' = DOMAIN labels'
      /\ \A l \in DOMAIN program : (IsControl(l))' = IsControl(l) /\ (Emitted(l))' = Emitted(l)
      /\ Lays(code', labels', InCode', Longest')
  BY <1>2, Emission
<1>4. \A l \in InCode' : l \in DOMAIN program
  BY <1>1, <1>3, LabelShape
<1>5. Emitted(i) \in Nat \ {0} /\ i \in Nat
  BY <1>1, <1>3, SizeShape, ItemShape DEF Types
<1>6. new \in Control /\ controls \in Seq(Control)
  BY <1>1, <1>5 DEF Types
<1>7. /\ Len(controls) \in Nat /\ DOMAIN controls = 1 .. Len(controls)
      /\ \A c \in DOMAIN controls :
           /\ controls[c].at \in Nat /\ controls[c].item \in Nat /\ controls[c].old \in Nat
           /\ controls[c].at + controls[c].old <= Len(code)
  BY <1>1, ControlsInCode
<1>8. Len(code) \in Nat
  BY <1>1, LabelShape
<1>9. new.at = place /\ new.item = i /\ new.old = Emitted(i)
  OBVIOUS
<1> HIDE DEF Control, new
<1>10. /\ controls' \in Seq(Control)
       /\ \A c \in DOMAIN controls : c \in DOMAIN controls' /\ controls'[c] = controls[c]
       /\ \A c \in DOMAIN controls' : c \notin DOMAIN controls =>
            IsControl(i) /\ c = Len(controls) + 1 /\ controls'[c] = new
       /\ IsControl(i) => Len(controls) + 1 \in DOMAIN controls' /\ controls'[Len(controls) + 1] = new
  <2>1. CASE IsControl(i)
    <3>1. controls' = Append(controls, new)
      BY <2>1 DEF new
    <3>2. /\ controls' \in Seq(Control) /\ Len(controls') = Len(controls) + 1
          /\ \A c \in 1 .. Len(controls) : controls'[c] = controls[c]
          /\ controls'[Len(controls) + 1] = new
      BY <3>1, <1>6, AppendProperties
    <3>3. DOMAIN controls' = 1 .. Len(controls) + 1
      BY <3>2, LenProperties
    <3> QED
      BY <2>1, <3>2, <3>3, <1>7
  <2>2. CASE ~IsControl(i)
    <3>1. controls' = controls
      BY <2>2
    <3> QED
      BY <2>2, <3>1, <1>6
  <2> QED
    BY <2>1, <2>2
<1>11. ASSUME NEW c \in DOMAIN controls'
       PROVE  /\ controls'[c].item \in InCode' /\ IsControl(controls'[c].item)
              /\ controls'[c].at = labels'[controls'[c].item]
              /\ controls'[c].old = Emitted(controls'[c].item)
  <2>1. CASE c \in DOMAIN controls
    <3> DEFINE l == controls[c].item
    <3>1. /\ l \in InCode /\ IsControl(l)
          /\ controls[c].at = labels[l] /\ controls[c].old = Emitted(l)
      BY <2>1, <1>1 DEF ControlsListed
    <3>2. controls'[c] = controls[c]
      BY <2>1, <1>10
    <3>3. l \in InCode' /\ labels'[l] = labels[l]
      BY <3>1, <1>3
    <3> QED
      BY <3>1, <3>2, <3>3
  <2>2. CASE c \notin DOMAIN controls
    <3>1. IsControl(i) /\ controls'[c] = new
      BY <2>2, <1>10
    <3> QED
      BY <3>1, <1>3, <1>9
  <2> QED
    BY <2>1, <2>2
<1>12. ASSUME NEW c \in DOMAIN controls', NEW d \in DOMAIN controls', c < d
       PROVE  controls'[c].at + controls'[c].old <= controls'[d].at
  <2>1. CASE d \in DOMAIN controls
    <3>1. c \in DOMAIN controls
      BY <2>1, <1>7, <1>10, <1>12
    <3>2. controls'[c] = controls[c] /\ controls'[d] = controls[d]
      BY <2>1, <3>1, <1>10
    <3> QED
      BY <2>1, <3>1, <3>2, <1>1, <1>12 DEF ControlsListed
  <2>2. CASE d \notin DOMAIN controls
    <3>1. d = Len(controls) + 1 /\ controls'[d].at = place
      BY <2>2, <1>9, <1>10
    <3>2. c \in DOMAIN controls
      BY <3>1, <1>7, <1>10, <1>12
    <3>3. /\ controls'[c] = controls[c] /\ controls[c].at + controls[c].old <= Len(code)
          /\ controls[c].at + controls[c].old \in Nat
      BY <3>2, <1>7, <1>10
    <3> QED
      BY <3>1, <3>3, <1>8
  <2> QED
    BY <2>1, <2>2
<1>13. ASSUME NEW l \in InCode', IsControl(l)
       PROVE  \E c \in DOMAIN controls' : controls'[c].item = l
  <2>1. CASE l = i
    BY <2>1, <1>9, <1>10, <1>13
  <2>2. CASE l # i
    <3>1. l \in InCode
      BY <2>2, <1>3
    <3>2. PICK c \in DOMAIN controls : controls[c].item = l
      BY <3>1, <1>1, <1>13 DEF ControlsListed
    <3> QED
      BY <3>2, <1>10
  <2> QED
    BY <2>1, <2>2
<1>14. program' = program /\ isa' = isa /\ load' = load
  BY <1>2 DEF target
<1>15. ControlsListed'
  <2>1. \A l : (IsControl(l))' = IsControl(l)
    BY <1>14 DEF IsControl, Item
  <2>2. \A c \in DOMAIN controls' :
          /\ controls'[c].item \in InCode' /\ program'[controls'[c].item].kind \in {"branch", "call"}
          /\ controls'[c].at = labels'[controls'[c].item]
    BY <1>11, <1>14 DEF IsControl, Item
  <2>3. \A c \in DOMAIN controls' : controls'[c].old = Emitted(controls'[c].item)
    BY <1>11
  <2>4. ASSUME NEW c \in DOMAIN controls'
        PROVE  (controls[c].old = Emitted(controls[c].item))'
    <3>1. (Emitted(controls[c].item))' = Emitted(controls'[c].item)
      <4> DEFINE k == controls[c].item
      <4>1. /\ (IsControl(k))' = IsControl(controls'[c].item)
            /\ (OldSize(Item(k).kind))' = OldSize(Item(controls'[c].item).kind)
            /\ (Item(k))' = Item(controls'[c].item)
        BY <1>14 DEF IsControl, Item, OldSize
      <4> QED
        BY <4>1 DEF Emitted
    <3> QED
      BY <2>3, <3>1
  <2>5. \A l \in InCode' : (IsControl(l))' => \E c \in DOMAIN controls' : controls'[c].item = l
    BY <1>13, <2>1
  <2> QED
    BY <1>12, <2>2, <2>4, <2>5 DEF ControlsListed, IsControl, Item
<1>16. Types'
  <2>1. (Len(labels) <= Len(program))'
    BY <1>3, <1>14
  <2> QED
    BY <1>1, <1>2, <1>3, <1>10, <1>14, <2>1 DEF Types, Control, target
<1>17. AsEmitted'
  BY <1>3, <1>15 DEF AsEmitted
<1>18. Complete'
  BY <1>1, <1>3 DEF Complete
<1>19. ChoicesSound' /\ AsRelaxed'
  BY <1>1 DEF ChoicesSound, AsRelaxed
<1> QED
  BY <1>16, <1>17, <1>18, <1>19 DEF ImageInvariant

LEMMA AlignUpAbove ==
  ASSUME NEW n \in Nat, NEW a \in Nat \ {0}
  PROVE  AlignUp(n, a) \in Nat /\ n <= AlignUp(n, a)
<1> DEFINE m == n + a - 1
<1>1. m \in Nat
  OBVIOUS
<1>2. m = a * (m \div a) + (m % a) /\ m % a \in 0 .. a - 1
  <2> HIDE DEF m
  <2> QED
    BY <1>1
<1>3. m \div a \in Nat
  <2> HIDE DEF m
  <2> QED
    BY <1>1
<1>4. (m \div a) * a = a * (m \div a)
  <2> HIDE DEF m
  <2> QED
    BY <1>3
<1>5. AlignUp(n, a) = (m \div a) * a
  BY DEF AlignUp
<1>6. (m \div a) * a \in Nat
  <2> HIDE DEF m
  <2> QED
    BY <1>3
<1> DEFINE k == (m \div a) * a
           e == m % a
<1>7. k \in Nat /\ e \in 0 .. a - 1 /\ m = k + e
  BY <1>2, <1>4, <1>6
<1> HIDE DEF k, e
<1>8. n <= k
  BY <1>7
<1> QED
  BY <1>5, <1>7, <1>8 DEF k

LEMMA BytesShape ==
  ASSUME NEW i \in Nat, NEW n \in Nat
  PROVE  /\ Bytes(i, n) \in Seq(Byte) /\ Len(Bytes(i, n)) = n
         /\ \A j \in 1 .. n : Bytes(i, n)[j] = <<i, j - 1>>
<1> DEFINE b == Bytes(i, n)
<1>1. b = [j \in 1 .. n |-> <<i, j - 1>>]
  BY DEF Bytes
<1>2. \A j \in 1 .. n : <<i, j - 1>> \in Byte
  BY DEF Byte
<1> HIDE DEF b
<1>3. b \in [1 .. n -> Byte]
  BY <1>1, <1>2
<1>4. b \in Seq(Byte) /\ DOMAIN b = 1 .. n
  BY <1>3, SeqDef
<1>5. Len(b) = n
  BY <1>4, LenProperties
<1> QED
  BY <1>1, <1>4, <1>5 DEF b

LEMMA EmitCodeInvariant ==
  ASSUME ImageInvariant, EmitCode
  PROVE  ImageInvariant'
<1> DEFINE i == Emitting
           n == Emitted(i)
           place == Len(code)
           b == Bytes(i, n)
<1>1. /\ phase = "emit" /\ InImage(i) /\ Item(i).kind # "data"
      /\ labels' = Append(labels, place) /\ code' = code \o b
      /\ controls' = IF IsControl(i)
                     THEN Append(controls, [at |-> place, item |-> i, old |-> n]) ELSE controls
      /\ UNCHANGED <<target, phase, next, changed>>
  BY DEF EmitCode
<1>2. Types
  BY DEF ImageInvariant
<1>3. i \in DOMAIN program /\ i \in Nat
  BY <1>1, <1>2, LabelShape, ItemShape DEF Types, Emitting, InImage
<1>4. n \in Nat \ {0} /\ place \in Nat /\ DOMAIN code = 1 .. place /\ code \in Seq(Byte)
  BY <1>1, <1>2, <1>3, SizeShape, LabelShape DEF Types
<1>5. b \in Seq(Byte) /\ Len(b) = n /\ \A j \in 1 .. n : b[j] = <<i, j - 1>>
  BY <1>3, <1>4, BytesShape
<1> HIDE DEF i, n, b
<1>6. /\ code' \in Seq(Byte) /\ Len(code') = place + n
      /\ \A p \in 1 .. place + n : code'[p] = IF p <= place THEN code[p] ELSE b[p - place]
  BY <1>1, <1>4, <1>5, ConcatProperties
<1> HIDE DEF place
<1>7. \A p \in DOMAIN code : code'[p] = code[p]
  <2>1. \A p \in 1 .. place : p \in 1 .. place + n /\ p <= place
    BY <1>4
  <2> QED
    BY <2>1, <1>4, <1>6
<1>8. ASSUME NEW j \in 0 .. n - 1
      PROVE  code'[place + j + 1] = <<i, j>>
  <2>1. /\ place + j + 1 \in 1 .. place + n /\ ~(place + j + 1 <= place)
        /\ (place + j + 1) - place = j + 1 /\ j + 1 \in 1 .. n /\ (j + 1) - 1 = j
    BY <1>4
  <2> QED
    BY <2>1, <1>5, <1>6
<1>9. Len(code) = place /\ Len(code) <= place /\ Len(code) + 1 .. place = {}
  BY <1>4 DEF place
<1>10. \A p \in Len(code) + 1 .. place : code'[p] = Pad
  BY <1>9
<1>11. /\ i = Emitting /\ n = Emitted(i)
  BY DEF i, n
<1> QED
  BY <1>1, <1>4, <1>6, <1>7, <1>8, <1>9, <1>10, <1>11, EmitInvariant

LEMMA EmitDataInvariant ==
  ASSUME ImageInvariant, EmitData
  PROVE  ImageInvariant'
<1> DEFINE i == Emitting
           n == Emitted(i)
           l == Len(code)
           place == AlignUp(l, Item(i).align)
           b == Bytes(i, n)
           pads == [j \in 1 .. place - l |-> Pad]
<1>1. /\ phase = "emit" /\ InImage(i) /\ Item(i).kind = "data"
      /\ UNCHANGED <<target, phase, next, changed>> /\ controls' = controls
  BY DEF EmitData
<1>2. Types
  BY DEF ImageInvariant
<1>3. i \in DOMAIN program /\ i \in Nat
  BY <1>1, <1>2, LabelShape, ItemShape DEF Types, Emitting, InImage
<1>4. ~IsControl(i) /\ n = Item(i).size /\ Item(i).align \in Nat \ {0}
  BY <1>1, <1>2, <1>3, ItemShape DEF IsControl, Emitted, Types
<1>5. labels' = Append(labels, place) /\ code' = code \o pads \o b
  BY <1>4 DEF EmitData
<1>6. n \in Nat \ {0} /\ l \in Nat /\ DOMAIN code = 1 .. l /\ code \in Seq(Byte)
  BY <1>1, <1>2, <1>3, SizeShape, LabelShape DEF Types
<1>7. place \in Nat /\ l <= place
  <2> HIDE DEF l
  <2> QED
    BY <1>4, <1>6, AlignUpAbove
<1>8. b \in Seq(Byte) /\ Len(b) = n /\ \A j \in 1 .. n : b[j] = <<i, j - 1>>
  BY <1>3, <1>6, BytesShape
<1> HIDE DEF i, n, b, place
<1>9. pads \in Seq(Byte) /\ Len(pads) = place - l /\ \A j \in 1 .. place - l : pads[j] = Pad
  <2> DEFINE g == place - l
  <2>1. g \in Nat /\ pads = [j \in 1 .. g |-> Pad]
    BY <1>6, <1>7
  <2> HIDE DEF g, pads
  <2>2. pads \in [1 .. g -> Byte]
    BY <2>1 DEF Pad, Byte
  <2>3. pads \in Seq(Byte) /\ DOMAIN pads = 1 .. g
    BY <2>1, <2>2, SeqDef
  <2>4. Len(pads) = g
    BY <2>1, <2>3, LenProperties
  <2> QED
    BY <2>1, <2>3, <2>4 DEF g
<1> DEFINE padded == code \o pads
<1> HIDE DEF pads
<1>10. /\ padded \in Seq(Byte) /\ Len(padded) = l + (place - l)
       /\ \A p \in 1 .. l + (place - l) : padded[p] = IF p <= l THEN code[p] ELSE pads[p - l]
  BY <1>6, <1>9, ConcatProperties
<1>11. code' = padded \o b
  BY <1>5
<1> HIDE DEF padded
<1>12. /\ code' \in Seq(Byte) /\ Len(code') = l + (place - l) + n
       /\ \A p \in 1 .. l + (place - l) + n :
            code'[p] = IF p <= l + (place - l) THEN padded[p] ELSE b[p - (l + (place - l))]
  BY <1>8, <1>10, <1>11, ConcatProperties
<1>13. Len(code) = l
  OBVIOUS
<1> HIDE DEF l
<1>14. l + (place - l) = place
  BY <1>6, <1>7
<1>15. \A p \in DOMAIN code : code'[p] = code[p]
  <2>1. \A p \in 1 .. l : p \in 1 .. place + n /\ p <= place /\ p <= l /\ p \in 1 .. place
    BY <1>6, <1>7
  <2> QED
    BY <2>1, <1>6, <1>10, <1>12, <1>14
<1>16. ASSUME NEW p \in l + 1 .. place
       PROVE  code'[p] = Pad
  <2>1. /\ p \in 1 .. place + n /\ p <= place /\ ~(p <= l) /\ p \in 1 .. place
        /\ p - l \in 1 .. place - l
    BY <1>6, <1>7
  <2> QED
    BY <2>1, <1>9, <1>10, <1>12, <1>14
<1>17. ASSUME NEW j \in 0 .. n - 1
       PROVE  code'[place + j + 1] = <<i, j>>
  <2>1. /\ place + j + 1 \in 1 .. place + n /\ ~(place + j + 1 <= place)
        /\ (place + j + 1) - place = j + 1 /\ j + 1 \in 1 .. n /\ (j + 1) - 1 = j
    BY <1>6, <1>7
  <2> QED
    BY <2>1, <1>8, <1>12, <1>14
<1>18. i = Emitting /\ n = Emitted(i) /\ Len(code') = place + n
  BY <1>12, <1>14 DEF i, n
<1>19. controls' = IF IsControl(i)
                   THEN Append(controls, [at |-> place, item |-> i, old |-> n]) ELSE controls
  BY <1>1, <1>4
<1> QED
  BY <1>1, <1>5, <1>7, <1>12, <1>13, <1>15, <1>16, <1>17, <1>18, <1>19, EmitInvariant

-----------------------------------------------------------------------------
(* Relaxing.                                                                 *)

LEMMA BeginRelaxInvariant ==
  ASSUME ImageInvariant, BeginRelax
  PROVE  ImageInvariant'
<1>1. /\ choices' = [c \in DOMAIN controls |-> controls[c].old]
      /\ next' = 1 /\ changed' = FALSE
      /\ isa' = isa /\ load' = load /\ program' = program /\ code' = code /\ labels' = labels
      /\ controls' = controls /\ fixups' = fixups
  BY DEF BeginRelax, target
<1>2. /\ Types /\ Complete
  BY DEF ImageInvariant
<1>3. InCode' = InCode /\ Longest' = Longest /\ Final' = Final
  BY <1>1 DEF InCode, InImage, Item, Longest, Final, Emitted, FinalSize, IsControl, Goal, OldSize, NewSize
<1>4. CASE phase = "emit" /\ ~InImage(Emitting) /\ phase' = "layout"
  <2>1. Lays(code, labels, InCode, Longest) /\ ControlsListed
    BY <1>4 DEF ImageInvariant, AsEmitted, Unrelaxed
  <2>2. ControlsListed'
    BY <2>1, <1>1, <1>3 DEF ControlsListed, IsControl, Item, Emitted, OldSize
  <2>3. ChoicesSound'
    <3>1. \A c \in DOMAIN controls : controls[c].old \in Nat
      BY <1>2, <2>1, ControlsInCode
    <3>2. /\ choices' \in [DOMAIN controls -> Nat]
          /\ \A c \in DOMAIN controls : choices'[c] = controls[c].old
      BY <1>1, <3>1
    <3>3. \A c \in DOMAIN controls : ~(c < 1)
      BY <1>2, <2>1, ControlsInCode
    <3>4. \A c \in DOMAIN controls' : ~(c < next')
      BY <1>1, <3>3
    <3> QED
      BY <1>1, <3>2, <3>4 DEF ChoicesSound
  <2>4. Complete'
    <3>1. InCode' = DOMAIN labels'
      BY <1>1, <1>2, <1>3, <1>4 DEF Complete
    <3>2. ASSUME NEW i \in DOMAIN program \ DOMAIN labels
          PROVE  ~InImage(i)
      <4>1. /\ DOMAIN program = 1 .. Len(program) /\ Len(program) \in Nat
            /\ DOMAIN labels = 1 .. Len(labels) /\ Len(labels) \in Nat
        BY <1>2, ItemShape, LabelShape DEF Types
      <4>2. Emitting \in DOMAIN program /\ (i = Emitting \/ Emitting < i)
        BY <4>1 DEF Emitting
      <4> QED
        BY <4>2, <1>2, <1>4, ItemShape DEF Types
    <3>3. \A i \in DOMAIN program' \ DOMAIN labels' : ~(InImage(i))'
      BY <3>2, <1>1 DEF InImage, Item
    <3> QED
      BY <1>4, <3>1, <3>3 DEF Complete
  <2>5. AsRelaxed'
    <3>1. SUFFICES ASSUME controls = <<>>
                   PROVE  /\ \A i \in InCode : ~IsControl(i)
                          /\ Lays(code, labels, InCode, Final)
      <4>1. \A i : (IsControl(i))' = IsControl(i)
        BY <1>1 DEF IsControl, Item
      <4> QED
        BY <3>1, <4>1, <1>1, <1>3, <1>4 DEF AsRelaxed, Lays
    <3>2. DOMAIN controls = {}
      BY <3>1
    <3>3. \A i \in InCode : ~IsControl(i)
      BY <2>1, <3>2 DEF ControlsListed
    <3>4. Final = Longest
      BY <3>3 DEF Final, Longest, FinalSize
    <3> QED
      BY <2>1, <3>3, <3>4
  <2>6. AsEmitted'
    BY <2>1, <2>2, <1>1, <1>3 DEF AsEmitted, Lays
  <2>7. Types'
    BY <1>1, <1>2, <1>4 DEF Types
  <2> QED
    BY <2>3, <2>4, <2>5, <2>6, <2>7 DEF ImageInvariant
<1>5. CASE phase = "reserve" /\ phase' = "finish"
  <2>1. controls = <<>>
    BY <1>2, <1>5 DEF Complete
  <2>2. Types'
    BY <1>1, <1>2, <1>5 DEF Types
  <2>3. AsEmitted' /\ ChoicesSound'
    BY <1>5 DEF AsEmitted, Unrelaxed, ChoicesSound
  <2>4. \A i : (InImage(i))' = InImage(i) /\ (IsControl(i))' = IsControl(i) /\ (Goal(i))' = Goal(i)
    BY <1>1 DEF InImage, Item, IsControl, Goal
  <2>5. Complete'
    BY <1>1, <1>2, <1>5, <2>1, <2>4 DEF Complete
  <2>6. /\ \A i \in InCode : IsControl(i) => Goal(i) \in DOMAIN labels
        /\ Lays(code, labels, InCode, Final)
    BY <1>5, <2>1 DEF ImageInvariant, AsRelaxed
  <2>7. AsRelaxed'
    BY <1>1, <1>3, <2>4, <2>6 DEF AsRelaxed, Lays
  <2> QED
    BY <2>2, <2>3, <2>5, <2>7 DEF ImageInvariant
<1> QED
  BY <1>4, <1>5 DEF BeginRelax

\* What an unrelaxed image has besides choices stays as it is in a pass.
LEMMA PassKeeps ==
  ASSUME ImageInvariant, Relaxing,
         UNCHANGED <<target, phase, code, labels, controls, fixups>>,
         next' \in Nat, changed' \in BOOLEAN
  PROVE  /\ phase = "layout" /\ controls # <<>> /\ Types /\ ControlsListed
         /\ Lays(code, labels, InCode, Longest)
         /\ ChoicesSound' => ImageInvariant'
<1>1. phase \in {"layout", "finish"} /\ controls # <<>> /\ Types
  BY DEF Relaxing, ImageInvariant
<1>2. phase = "layout"
  BY <1>1 DEF ImageInvariant, Complete
<1>3. Lays(code, labels, InCode, Longest) /\ ControlsListed
  BY <1>1, <1>2 DEF ImageInvariant, AsEmitted, Unrelaxed
<1>4. /\ isa' = isa /\ load' = load /\ program' = program /\ code' = code /\ labels' = labels
      /\ controls' = controls /\ phase' = phase
  BY DEF target
<1>5. Types' /\ AsRelaxed'
  BY <1>1, <1>4 DEF Types, AsRelaxed
<1>6. InCode' = InCode /\ Longest' = Longest
  BY <1>4 DEF InCode, InImage, Item, Longest, Emitted, IsControl, OldSize
<1>7. AsEmitted'
  <2>1. \A i : (IsControl(i))' = IsControl(i)
    BY <1>4 DEF IsControl, Item
  <2>2. \A c \in DOMAIN controls :
          /\ (IsControl(controls[c].item))' = IsControl(controls[c].item)
          /\ (Emitted(controls[c].item))' = Emitted(controls[c].item)
    BY <1>4 DEF IsControl, Item, Emitted, OldSize
  <2>3. ControlsListed'
    BY <1>3, <1>4, <1>6, <2>1, <2>2 DEF ControlsListed
  <2> QED
    BY <1>3, <1>4, <1>6, <2>3 DEF AsEmitted, Lays
<1>8. Complete'
  <2>1. Complete
    BY DEF ImageInvariant
  <2>2. \A i : (InImage(i))' = InImage(i)
    BY <1>4 DEF InImage, Item
  <2> QED
    BY <1>4, <1>6, <2>1, <2>2 DEF Complete
<1> QED
  BY <1>1, <1>2, <1>3, <1>5, <1>7, <1>8 DEF ImageInvariant

LEMMA ChooseInvariant ==
  ASSUME ImageInvariant, Choose
  PROVE  ImageInvariant'
<1> DEFINE l == controls[next].item
           size == IF Target(l) <= Limit THEN NewSize(Item(l).kind) ELSE controls[next].old
<1>1. /\ Relaxing /\ next \in DOMAIN controls
      /\ Goal(l) \in DOMAIN labels
      /\ choices' = [choices EXCEPT ![next] = size]
      /\ changed' = (changed \/ choices[next] # size)
      /\ next' = next + 1
      /\ UNCHANGED <<target, phase, code, labels, controls, fixups>>
  BY DEF Choose
<1>2. next \in Nat /\ changed \in BOOLEAN
  BY DEF ImageInvariant, Types
<1>3. changed' \in BOOLEAN /\ next' \in Nat
  BY <1>1, <1>2
<1>4. /\ phase = "layout" /\ controls # <<>> /\ Types /\ ControlsListed
      /\ Lays(code, labels, InCode, Longest)
      /\ ChoicesSound' => ImageInvariant'
  BY <1>1, <1>3, PassKeeps
<1>5. /\ choices \in [DOMAIN controls -> Nat]
      /\ \A c \in DOMAIN controls :
           choices[c] \in {NewSize(Item(controls[c].item).kind), controls[c].old}
      /\ \A c \in DOMAIN controls : c < next =>
           /\ Goal(controls[c].item) \in DOMAIN labels
           /\ ~changed => choices[c] = Wanted(c)
  BY <1>4 DEF ImageInvariant, ChoicesSound
<1>6. size = Wanted(next)
  BY DEF Wanted
<1>7. size \in {NewSize(Item(l).kind), controls[next].old} /\ size \in Nat
  <2>1. controls[next].old \in Nat
    BY <1>1, <1>4, ControlsInCode
  <2>2. Item(l).kind \in {"branch", "call"}
    BY <1>1, <1>4 DEF ControlsListed, IsControl
  <2>3. NewSize(Item(l).kind) \in Nat
    BY <1>4, <2>2, ControlSizes DEF Types
  <2> QED
    BY <2>1, <2>3
<1> HIDE DEF size
<1>8. /\ choices' \in [DOMAIN controls -> Nat]
      /\ \A c \in DOMAIN controls :
           choices'[c] \in {NewSize(Item(controls[c].item).kind), controls[c].old}
  BY <1>1, <1>5, <1>7
<1>9. isa' = isa /\ load' = load /\ program' = program /\ labels' = labels /\ controls' = controls
  BY <1>1 DEF target
<1>10. ~changed' => choices' = choices
  BY <1>1, <1>5
<1>11. ASSUME ~changed', NEW c \in DOMAIN controls
       PROVE  (Wanted(c))' = Wanted(c)
  <2>1. choices' = choices
    BY <1>10, <1>11
  <2> QED
    BY <1>9, <2>1 DEF Wanted, Target, Goal, Item, NewSize, Translated
<1>12. ASSUME NEW c \in DOMAIN controls, c < next + 1
       PROVE  /\ Goal(controls[c].item) \in DOMAIN labels
              /\ ~changed' => choices'[c] = Wanted(c)
  <2>1. c \in Nat
    BY <1>4, <1>12, ControlsInCode
  <2>2. c < next \/ c = next
    BY <1>2, <1>12, <2>1
  <2>3. ~changed' => ~changed /\ choices[next] = size
    BY <1>1
  <2> QED
    BY <1>1, <1>5, <1>6, <1>10, <2>2, <2>3
<1>13. \A k : (Goal(k))' = Goal(k) /\ (Item(k))' = Item(k)
  BY <1>9 DEF Goal, Item
<1>14. \A c \in DOMAIN controls : c < next' =>
         /\ (Goal(controls[c].item))' \in DOMAIN labels'
         /\ ~changed' => choices'[c] = (Wanted(c))'
  BY <1>1, <1>9, <1>11, <1>12 DEF Goal, Item
<1>15. ChoicesSound'
  <2>1. \A c \in DOMAIN controls :
          choices'[c] \in {(NewSize(Item(controls[c].item).kind))', controls'[c].old}
    BY <1>8, <1>9 DEF NewSize, Item
  <2> QED
    BY <1>8, <1>9, <1>14, <2>1 DEF ChoicesSound
<1> QED
  BY <1>4, <1>15

LEMMA AgainInvariant ==
  ASSUME ImageInvariant, Again
  PROVE  ImageInvariant'
<1>1. /\ Relaxing /\ next' = 1 /\ changed' = FALSE
      /\ UNCHANGED <<target, phase, code, labels, controls, fixups, choices>>
  BY DEF Again
<1>2. /\ phase = "layout" /\ controls # <<>> /\ Types /\ ControlsListed
      /\ Lays(code, labels, InCode, Longest)
      /\ ChoicesSound' => ImageInvariant'
  BY <1>1, PassKeeps
<1>3. \A c \in DOMAIN controls : ~(c < 1)
  BY <1>2, ControlsInCode
<1>4. isa' = isa /\ program' = program /\ controls' = controls /\ choices' = choices
  BY <1>1 DEF target
<1>5. ChoicesSound'
  <2>1. \A c \in DOMAIN controls' : ~(c < next')
    BY <1>1, <1>3
  <2>2. /\ choices \in [DOMAIN controls -> Nat]
        /\ \A c \in DOMAIN controls :
             choices[c] \in {NewSize(Item(controls[c].item).kind), controls[c].old}
    BY <1>2 DEF ImageInvariant, ChoicesSound
  <2>3. \A c \in DOMAIN controls :
          choices'[c] \in {(NewSize(Item(controls[c].item).kind))', controls'[c].old}
    BY <1>4, <2>2 DEF NewSize, Item
  <2> QED
    BY <1>4, <2>1, <2>2, <2>3 DEF ChoicesSound
<1> QED
  BY <1>2, <1>5

\* What is in a range and not up to c is at c + 1 or after it.
LEMMA NextInRange ==
  ASSUME NEW n \in Nat, NEW c \in 0 .. n, NEW j \in 1 .. n, ~(j <= c)
  PROVE  c # n /\ c + 1 \in 1 .. n /\ (j = c + 1 \/ c + 1 < j)
OBVIOUS

\* A position in a gap, or a control's, is behind as many controls as it seems.
LEMMA Positions ==
  ASSUME NEW s, Cut(s), \A c \in 1 .. Len(controls) : controls[c].old # 0
  PROVE  /\ \A c \in 0 .. Len(controls) : \A q \in Gap(c) :
              q \in Nat /\ Translated(q) = q - s[c]
         /\ \A c \in 1 .. Len(controls) : Translated(controls[c].at) = controls[c].at - s[c - 1]
         /\ \A c \in 0 .. Len(controls), d \in 1 .. Len(controls) : \A q \in Gap(c) :
              ~(controls[d].at <= q /\ q < controls[d].at + controls[d].old)
<1> DEFINE n == Len(controls)
           at(c) == controls[c].at
           old(c) == controls[c].old
<1>1. /\ n \in Nat
      /\ \A c \in 1 .. n : at(c) \in Nat /\ old(c) \in Nat \ {0}
      /\ \A c \in 1 .. n, d \in 1 .. n : c < d => at(c) + old(c) <= at(d)
      /\ ControlsTyped /\ Saved(s) /\ DOMAIN controls = 1 .. n
      /\ \A c \in 0 .. n : Bound(c) \in Nat
  BY CutNumbers, ControlShape DEF Cut
<1>2. \A c \in 0 .. n, q \in Nat :
        q \in Gap(c) => (c # 0 => at(c) + old(c) <= q) /\ (c # n => q < at(c + 1))
  <2> TAKE c \in 0 .. n, q \in Nat
  <2>1. HAVE q \in Gap(c)
  <2>2. c # 0 => at(c) + old(c) \in Nat /\ at(c) + old(c) <= q
    <3>1. SUFFICES ASSUME c # 0 PROVE at(c) + old(c) \in Nat /\ at(c) + old(c) <= q
      OBVIOUS
    <3>2. c \in 1 .. n
      BY <1>1, <3>1
    <3>3. at(c) + old(c) \in Nat /\ Bound(c) \in Nat
      BY <1>1, <3>2
    <3>4. q \in at(c) + old(c) .. Bound(c) - 1
      BY <2>1, <3>1 DEF Gap
    <3> HIDE DEF at, old
    <3> QED
      BY <3>3, <3>4
  <2>3. q <= Bound(c) - 1
    BY <2>1 DEF Gap
  <2>4. c # n => Bound(c) = at(c + 1)
    BY DEF Bound
  <2>5. q < Bound(c)
    BY <2>3, <1>1
  <2> QED
    BY <2>2, <2>4, <2>5
<1>3. \A c \in 0 .. n : \A q \in Gap(c) : q \in Nat
  <2> TAKE c \in 0 .. n
  <2>1. CASE c = 0
    BY <2>1, <1>1 DEF Gap
  <2>2. CASE c # 0
    <3>1. c \in 1 .. n
      BY <1>1, <2>2
    <3> DEFINE lo == at(c) + old(c)
    <3>2. lo \in Nat /\ Bound(c) \in Nat
      BY <1>1, <3>1
    <3>3. Gap(c) = lo .. Bound(c) - 1
      BY <2>2 DEF Gap
    <3> HIDE DEF lo
    <3> QED
      BY <3>2, <3>3
  <2> QED
    BY <2>1, <2>2
<1> HIDE DEF at, old
<1>4. ASSUME NEW c \in 0 .. n, NEW q \in Gap(c), NEW j \in 1 .. n
      PROVE  /\ j <= c => at(j) + old(j) <= q
             /\ ~(j <= c) => q < at(j)
  <2>1. q \in Nat
    BY <1>3
  <2>2. CASE j = c
    <3>1. c # 0
      BY <2>2
    <3> QED
      BY <2>1, <2>2, <3>1, <1>2
  <2>3. CASE j < c
    <3>1. c \in 1 .. n /\ c # 0
      BY <2>3, <1>1
    <3>4. at(c) + old(c) <= q
      BY <2>1, <3>1, <1>2
    <3>2. at(j) + old(j) <= at(c) /\ at(c) + old(c) <= q
      BY <2>3, <3>1, <3>4, <1>1
    <3>3. at(j) \in Nat /\ old(j) \in Nat /\ at(c) \in Nat /\ old(c) \in Nat
      BY <3>1, <1>1
    <3> QED
      BY <2>1, <2>3, <3>2, <3>3
  <2>4. CASE ~(j <= c)
    <3>0. n \in Nat
      BY <1>1
    <3>1. c # n /\ c + 1 \in 1 .. n /\ (j = c + 1 \/ c + 1 < j)
      <4> HIDE DEF n
      <4> QED
        BY ONLY <2>4, <3>0, NextInRange
    <3>2. q < at(c + 1)
      BY <2>1, <3>1, <1>2
    <3>3. at(c + 1) \in Nat /\ at(j) \in Nat /\ old(c + 1) \in Nat
      BY <3>1, <1>1
    <3>4. c + 1 < j => at(c + 1) + old(c + 1) <= at(j)
      BY <3>1, <1>1
    <3>5. q < at(j)
      BY <2>1, <3>1, <3>2, <3>3, <3>4
    <3> QED
      BY <2>4, <3>5
  <2> QED
    BY <2>2, <2>3, <2>4, <1>1
<1>5. ASSUME NEW c \in 0 .. n, NEW q \in Gap(c)
      PROVE  Translated(q) = q - s[c]
  <2>1. q \in Nat
    BY <1>3
  <2>2. ASSUME NEW j \in DOMAIN controls
        PROVE  controls[j].at < q <=> j <= c
    <3>1. j \in 1 .. n
      BY <1>1
    <3>2. at(j) \in Nat /\ old(j) \in Nat \ {0}
      BY <3>1, <1>1
    <3>3. (j <= c => at(j) + old(j) <= q) /\ (~(j <= c) => q < at(j))
      BY <3>1, <1>4
    <3>4. at(j) < q <=> j <= c
      BY <2>1, <3>2, <3>3
    <3> QED
      BY <3>4 DEF at
  <2> QED
    BY <1>1, <2>1, <2>2, TranslatedAt
<1>6. ASSUME NEW c \in 1 .. n
      PROVE  Translated(controls[c].at) = controls[c].at - s[c - 1]
  <2>1. controls[c].at \in Nat /\ c - 1 \in 0 .. n
    BY <1>1 DEF at
  <2>2. ASSUME NEW j \in DOMAIN controls
        PROVE  controls[j].at < controls[c].at <=> j <= c - 1
    <3>1. j \in 1 .. n
      BY <1>1
    <3>2. at(j) \in Nat /\ old(j) \in Nat \ {0} /\ at(c) \in Nat /\ old(c) \in Nat \ {0}
      BY <3>1, <1>1
    <3>3. (j < c => at(j) + old(j) <= at(c)) /\ (c < j => at(c) + old(c) <= at(j))
      BY <3>1, <1>1
    <3>4. at(j) < at(c) <=> j < c
      <4>1. CASE j < c
        BY <4>1, <3>2, <3>3
      <4>2. CASE j = c
        BY <4>2, <3>2
      <4>3. CASE c < j
        BY <4>3, <3>1, <3>2, <3>3
      <4> QED
        BY <4>1, <4>2, <4>3, <3>1
    <3>5. j < c <=> j <= c - 1
      BY <3>1
    <3> QED
      BY <3>4, <3>5 DEF at
  <2> QED
    BY <1>1, <2>1, <2>2, TranslatedAt
<1>7. ASSUME NEW c \in 0 .. n, NEW d \in 1 .. n, NEW q \in Gap(c)
      PROVE  ~(controls[d].at <= q /\ q < controls[d].at + controls[d].old)
  <2>1. q \in Nat /\ at(d) \in Nat /\ old(d) \in Nat
    BY <1>1, <1>3
  <2>2. (d <= c => at(d) + old(d) <= q) /\ (~(d <= c) => q < at(d))
    BY <1>4
  <2>3. ~(at(d) <= q /\ q < at(d) + old(d))
    BY <2>1, <2>2
  <2> QED
    BY <2>3 DEF at, old
<1> QED
  BY <1>3, <1>5, <1>6, <1>7

\* Every byte of the code is in a control or in a gap.
LEMMA EveryByte ==
  ASSUME NEW s, Cut(s), NEW q \in 0 .. Len(code) - 1
  PROVE  \/ \E d \in 1 .. Len(controls) :
               controls[d].at <= q /\ q < controls[d].at + controls[d].old
         \/ \E c \in 0 .. Len(controls) : q \in Gap(c)
<1> DEFINE n == Len(controls)
           after == {c \in 1 .. n : q < controls[c].at}
           Last(c) == /\ c \in 0 .. n
                      /\ c # 0 => controls[c].at <= q
                      /\ q < Bound(c)
<1>1. /\ n \in Nat /\ Len(code) \in Nat /\ q \in Nat /\ q < Len(code)
      /\ \A c \in 1 .. n : controls[c].at \in Nat /\ controls[c].old \in Nat
      /\ \A c \in 0 .. n : Bound(c) \in Nat
  BY CutNumbers
<1>2. \E c \in 0 .. n : Last(c)
  <2>1. CASE after = {}
    <3>1. n \in 0 .. n /\ Bound(n) = Len(code)
      BY <1>1 DEF Bound
    <3>2. ASSUME n # 0 PROVE controls[n].at <= q
      <4>1. n \in 1 .. n
        BY <1>1, <3>2
      <4>2. ~(q < controls[n].at)
        BY <2>1, <4>1
      <4> QED
        BY <1>1, <4>1, <4>2
    <3> QED
      BY <1>1, <3>1, <3>2
  <2>2. CASE after # {}
    <3>1. after \in SUBSET Nat
      BY <1>1
    <3>2. PICK m \in after : \A j \in after : m <= j
      <4> HIDE DEF after
      <4> QED
        BY <2>2, <3>1, LeastNatural
    <3>3. m \in 1 .. n /\ q < controls[m].at /\ m - 1 \in 0 .. n /\ ~(m <= m - 1)
      BY <1>1
    <3>4. m - 1 \notin after
      BY <3>2, <3>3
    <3>5. ASSUME m - 1 # 0 PROVE controls[m - 1].at <= q
      <4>1. m - 1 \in 1 .. n
        BY <3>3, <3>5, <1>1
      <4>2. ~(q < controls[m - 1].at)
        BY <3>4, <4>1
      <4> QED
        BY <1>1, <4>1, <4>2
    <3>6. Bound(m - 1) = controls[m].at
      <4>1. m - 1 # n /\ m - 1 + 1 = m
        BY <3>3, <1>1
      <4> QED
        BY <4>1 DEF Bound
    <3> QED
      BY <3>3, <3>5, <3>6
  <2> QED
    BY <2>1, <2>2
<1>3. PICK c \in 0 .. n : Last(c)
  BY <1>2
<1>4. CASE c = 0
  <2>1. q \in Gap(0)
    BY <1>1, <1>3, <1>4 DEF Gap
  <2> QED
    BY <2>1, <1>4
<1>5. CASE c # 0
  <2> DEFINE a == controls[c].at
             e == controls[c].at + controls[c].old
             h == Bound(c)
  <2>1. c \in 1 .. n
    BY <1>1, <1>5
  <2>2. a \in Nat /\ e \in Nat /\ h \in Nat /\ a <= q /\ q < h
    BY <1>1, <1>3, <1>5, <2>1
  <2>3. Gap(c) = e .. h - 1
    BY <1>5 DEF Gap
  <2> HIDE DEF a, e, h
  <2>4. q < e \/ q \in e .. h - 1
    BY <1>1, <2>2
  <2>5. q < e => controls[c].at <= q /\ q < controls[c].at + controls[c].old
    BY <2>2 DEF a, e
  <2> QED
    BY <2>1, <2>3, <2>4, <2>5
<1> QED
  BY <1>4, <1>5

\* When a pass has changed nothing the controls are cut as chosen.
LEMMA SettledCut ==
  ASSUME ImageInvariant, Relaxing, next > Len(controls), ~changed
  PROVE  /\ phase = "layout" /\ Types /\ ControlsListed
         /\ Lays(code, labels, InCode, Longest) /\ InCode = DOMAIN labels
         /\ \A c \in DOMAIN controls :
              /\ Goal(controls[c].item) \in DOMAIN labels
              /\ choices[c] = Wanted(c) /\ choices[c] \in Nat \ {0}
              /\ controls[c].old # 0
         /\ \E s : Cut(s)
<1>1. phase \in {"layout", "finish"} /\ controls # <<>> /\ Types
  BY DEF Relaxing, ImageInvariant
<1>2. phase = "layout"
  BY <1>1 DEF ImageInvariant, Complete
<1>3. /\ Lays(code, labels, InCode, Longest) /\ ControlsListed
      /\ InCode = DOMAIN labels /\ ChoicesSound
  BY <1>1, <1>2 DEF ImageInvariant, AsEmitted, Unrelaxed, Complete
<1>4. /\ Len(controls) \in Nat /\ DOMAIN controls = 1 .. Len(controls)
      /\ \A c \in DOMAIN controls :
           /\ controls[c] \in [at : Nat, item : Nat, old : Nat]
           /\ controls[c].at \in Nat /\ controls[c].item \in Nat /\ controls[c].old \in Nat \ {0}
           /\ controls[c].at + controls[c].old <= Len(code)
  BY <1>1, <1>3, ControlsInCode
<1>5. \A c \in DOMAIN controls : c < next
  <2>1. next \in Nat
    BY <1>1 DEF Types
  <2> QED
    BY <2>1, <1>4
<1>6. /\ choices \in [DOMAIN controls -> Nat]
      /\ \A c \in DOMAIN controls :
           /\ choices[c] \in {NewSize(Item(controls[c].item).kind), controls[c].old}
           /\ Goal(controls[c].item) \in DOMAIN labels /\ choices[c] = Wanted(c)
  BY <1>1, <1>2, <1>3, <1>5 DEF ChoicesSound
<1>7. ASSUME NEW c \in DOMAIN controls
      PROVE  choices[c] \in Nat \ {0} /\ choices[c] <= controls[c].old
  <2> DEFINE i == controls[c].item
  <2>1. i \in InCode /\ IsControl(i) /\ controls[c].old = Emitted(i)
    BY <1>3 DEF ControlsListed
  <2>2. i \in DOMAIN program /\ InImage(i)
    BY <1>1, <2>1, LabelShape
  <2>3. /\ NewSize(Item(i).kind) \in Nat \ {0}
        /\ NewSize(Item(i).kind) <= controls[c].old
    BY <1>1, <2>1, <2>2, SizeShape DEF Types
  <2>4. controls[c].old \in Nat \ {0} /\ choices[c] \in {NewSize(Item(i).kind), controls[c].old}
    BY <1>4, <1>6
  <2> QED
    BY <2>3, <2>4
<1>8. ControlsTyped
  BY <1>1, <1>6 DEF ControlsTyped, Types
<1>9. PICK s : Saved(s)
  BY <1>8, SavedExists
<1>10. ASSUME NEW c \in DOMAIN controls
       PROVE  Selected(c) = Bytes(controls[c].item, choices[c])
  BY <1>6 DEF Selected, Wanted
<1>11. Len(controls) > 0
  <2>1. Len(controls) # 0
    BY <1>1, EmptySeq DEF Types
  <2> QED
    BY <2>1, <1>4
<1>12. Cut(s)
  BY <1>1, <1>3, <1>4, <1>7, <1>8, <1>9, <1>10, <1>11 DEF Cut, ControlsListed, Types
<1> QED
  BY <1>1, <1>2, <1>3, <1>4, <1>6, <1>7, <1>12

\* An item that is no control lies in one gap.
LEMMA ItemInGap ==
  ASSUME Types, ControlsListed, Lays(code, labels, InCode, Longest), NEW s, Cut(s),
         NEW i \in InCode, ~IsControl(i)
  PROVE  \E c \in 0 .. Len(controls) : \A j \in 0 .. Emitted(i) - 1 : labels[i] + j \in Gap(c)
<1> DEFINE n == Len(controls)
           place == labels[i]
           size == Emitted(i)
<1>1. /\ place \in Nat /\ size \in Nat \ {0} /\ Len(code) \in Nat /\ DOMAIN code = 1 .. Len(code)
      /\ n \in Nat /\ DOMAIN controls = 1 .. n
  <2>1. i \in DOMAIN program /\ InImage(i) /\ i \in DOMAIN labels
    BY LabelShape
  <2> QED
    BY <2>1, LabelShape, SizeShape, ControlsInCode DEF Types
<1>2. Longest[i] = size
  BY DEF Longest
<1> HIDE DEF place, size
<1>3. ASSUME NEW j \in 0 .. size - 1
      PROVE  /\ place + j \in 0 .. Len(code) - 1 /\ code[place + j + 1] = <<i, j>>
             /\ \A d \in 1 .. n :
                  ~(controls[d].at <= place + j /\ place + j < controls[d].at + controls[d].old)
  <2>1. place + j + 1 \in DOMAIN code /\ code[place + j + 1] = <<i, j>>
    BY <1>2 DEF Lays, place
  <2>2. place + j \in 0 .. Len(code) - 1
    BY <2>1, <1>1
  <2>3. ASSUME NEW d \in 1 .. n,
               controls[d].at <= place + j, place + j < controls[d].at + controls[d].old
        PROVE  FALSE
    <3> DEFINE a == controls[d].at
               o == controls[d].old
               k == place + j - a
               l == controls[d].item
    <3>1. l \in InCode /\ IsControl(l) /\ a = labels[l] /\ Longest[l] = o
      BY <1>1 DEF ControlsListed, Longest
    <3>2. a \in Nat /\ o \in Nat
      BY <1>1, ControlsInCode
    <3>3. a <= place + j /\ place + j < a + o
      BY <2>3
    <3> HIDE DEF a, o, l
    <3>4. k \in 0 .. o - 1 /\ a + k + 1 = place + j + 1
      BY <1>1, <3>2, <3>3
    <3> HIDE DEF k
    <3>5. code[a + k + 1] = <<l, k>>
      BY <3>1, <3>4 DEF Lays
    <3>6. l = i
      BY <2>1, <3>4, <3>5
    <3> QED
      BY <3>1, <3>6
  <2> QED
    BY <2>1, <2>2, <2>3
<1>4. 0 \in 0 .. size - 1 /\ place + 0 = place
  BY <1>1
<1>5. PICK c \in 0 .. n : place \in Gap(c)
  <2>1. /\ place \in 0 .. Len(code) - 1
        /\ \A d \in 1 .. n : ~(controls[d].at <= place /\ place < controls[d].at + controls[d].old)
    BY <1>3, <1>4
  <2> QED
    BY <2>1, EveryByte
<1>6. ASSUME NEW j \in 0 .. size - 1
      PROVE  place + j \in Gap(c)
  <2> DEFINE lo == IF c = 0 THEN 0 ELSE controls[c].at + controls[c].old
             hi == Bound(c)
  <2>1. Gap(c) = lo .. hi - 1
    BY DEF Gap
  <2>2. lo \in Nat /\ hi \in Nat
    <3>1. c # 0 => c \in 1 .. n
      BY <1>1
    <3> QED
      BY <3>1, CutNumbers
  <2>3. place + j < hi
    <3>1. SUFFICES ASSUME ~(place + j < hi) PROVE FALSE
      OBVIOUS
    <3>2. c # n
      <4>1. SUFFICES ASSUME c = n PROVE FALSE
        OBVIOUS
      <4>2. hi = Len(code)
        BY <4>1 DEF Bound
      <4> HIDE DEF hi
      <4>3. place + j \in 0 .. Len(code) - 1
        BY <1>3
      <4> QED
        BY <4>2, <4>3, <3>1, <1>1
    <3> DEFINE d == c + 1
               a == controls[d].at
               l == controls[d].item
               k == a - place
    <3>3. d \in 1 .. n /\ hi = a
      <4>1. d \in 1 .. n
        <5> HIDE DEF n
        <5>1. c \in 0 .. n /\ c # n /\ n \in Nat
          BY <1>1, <3>2 DEF n
        <5> QED
          BY <5>1 DEF d
      <4>2. Bound(c) = controls[c + 1].at
        BY <3>2 DEF Bound
      <4> QED
        BY <4>1, <4>2
    <3>4. /\ l \in InCode /\ IsControl(l) /\ a = labels[l] /\ Longest[l] = controls[d].old
          /\ a \in Nat /\ controls[d].old \in Nat \ {0}
      BY <1>1, <3>3, ControlsInCode DEF ControlsListed, Longest
    <3>5. place < hi
      <4> HIDE DEF lo, hi
      <4> QED
        BY <1>1, <1>5, <2>1, <2>2
    <3> HIDE DEF hi, a, d, l
    <3>6. k \in 0 .. size - 1 /\ place + k + 1 = a + 0 + 1
      BY <1>1, <2>2, <3>1, <3>3, <3>4, <3>5
    <3> HIDE DEF k
    <3>7. code[place + k + 1] = <<i, k>>
      BY <1>3, <3>6
    <3>8. 0 \in 0 .. Longest[l] - 1
      BY <3>4
    <3>9. code[a + 0 + 1] = <<l, 0>>
      BY <3>4, <3>8 DEF Lays
    <3>10. l = i
      BY <3>6, <3>7, <3>9
    <3> QED
      BY <3>4, <3>10
  <2> HIDE DEF lo, hi
  <2>4. lo <= place
    BY <1>1, <1>5, <2>1, <2>2
  <2> QED
    BY <1>1, <2>1, <2>2, <2>3, <2>4
<1> QED
  BY <1>6 DEF place, size

LEMMA RebuildInvariant ==
  ASSUME ImageInvariant, Rebuild
  PROVE  ImageInvariant'
<1> DEFINE n == Len(controls)
           r == Rebuilt
           moved == [l \in DOMAIN labels |-> Translated(labels[l])]
<1>1. /\ Relaxing /\ next > Len(controls) /\ ~changed
      /\ code' = r /\ labels' = moved /\ controls' = <<>>
      /\ UNCHANGED <<target, phase, choices, next, changed>>
  BY DEF Rebuild
<1>2. /\ phase = "layout" /\ Types /\ ControlsListed
      /\ Lays(code, labels, InCode, Longest) /\ InCode = DOMAIN labels
      /\ \A c \in DOMAIN controls :
           /\ Goal(controls[c].item) \in DOMAIN labels
           /\ choices[c] = Wanted(c) /\ choices[c] \in Nat \ {0}
           /\ controls[c].old # 0
  BY <1>1, SettledCut
<1>3. PICK s : Cut(s)
  BY <1>1, SettledCut
<1>4. /\ n \in Nat /\ DOMAIN controls = 1 .. n /\ Len(code) \in Nat
      /\ DOMAIN code = 1 .. Len(code)
      /\ Len(labels) \in Nat /\ DOMAIN labels = 1 .. Len(labels)
      /\ \A l \in DOMAIN labels : labels[l] \in Nat /\ l \in DOMAIN program /\ InImage(l)
  BY <1>2, LabelShape, ControlsInCode
<1>5. Relaid(r, n, s)
  BY <1>3, RebuiltRelaid
<1>6. /\ \A c \in 0 .. n : \A q \in Gap(c) : q \in Nat /\ Translated(q) = q - s[c]
      /\ \A c \in 1 .. n : Translated(controls[c].at) = controls[c].at - s[c - 1]
      /\ \A c \in 0 .. n, d \in 1 .. n : \A q \in Gap(c) :
           ~(controls[d].at <= q /\ q < controls[d].at + controls[d].old)
  BY <1>2, <1>3, <1>4, Positions
<1>7. \A c \in 0 .. n : s[c] \in Int
  BY <1>3, CutNumbers
<1> HIDE DEF n, r
\* The final size of an item, and where its bytes now are.
<1> DEFINE size(i) == IF IsControl(i) THEN IF Target(i) <= Limit
                                           THEN NewSize(Item(i).kind) ELSE OldSize(Item(i).kind)
                      ELSE Emitted(i)
<1>8. ASSUME NEW c \in 1 .. n
      PROVE  /\ controls[c].item \in DOMAIN labels /\ IsControl(controls[c].item)
             /\ size(controls[c].item) = choices[c]
             /\ moved[controls[c].item] = controls[c].at - s[c - 1]
             /\ controls[c].old = Emitted(controls[c].item)
             /\ controls[c].at = labels[controls[c].item]
  <2> DEFINE i == controls[c].item
  <2>1. /\ i \in DOMAIN labels /\ IsControl(i) /\ controls[c].at = labels[i]
        /\ controls[c].old = Emitted(i)
    BY <1>2, <1>4 DEF ControlsListed
  <2>2. Emitted(i) = OldSize(Item(i).kind)
    BY <1>2, <1>4, <2>1, SizeShape DEF Types
  <2>3. choices[c] = Wanted(c)
    BY <1>2, <1>4
  <2>4. size(i) = Wanted(c)
    BY <2>1, <2>2 DEF Wanted
  <2>5. moved[i] = controls[c].at - s[c - 1]
    BY <1>6, <2>1
  <2> QED
    BY <2>1, <2>3, <2>4, <2>5
<1>9. ASSUME NEW i \in DOMAIN labels, ~IsControl(i)
      PROVE  \E c \in 0 .. n : /\ \A j \in 0 .. Emitted(i) - 1 : labels[i] + j \in Gap(c)
                               /\ moved[i] = labels[i] - s[c]
  <2>1. PICK c \in 0 .. n : \A j \in 0 .. Emitted(i) - 1 : labels[i] + j \in Gap(c)
    BY <1>2, <1>3, <1>9, ItemInGap DEF n
  <2>2. Emitted(i) \in Nat \ {0} /\ labels[i] \in Nat
    BY <1>2, <1>4, SizeShape DEF Types
  <2>3. 0 \in 0 .. Emitted(i) - 1 /\ labels[i] + 0 = labels[i]
    BY <2>2
  <2>4. labels[i] \in Gap(c)
    BY <2>1, <2>3
  <2>5. moved[i] = labels[i] - s[c]
    BY <1>6, <2>4
  <2> QED
    BY <2>1, <2>5
<1>10. /\ r \in Seq(Byte)
       /\ \A c \in 1 .. n : \A i \in 0 .. choices[c] - 1 :
            /\ controls[c].at - s[c - 1] + i + 1 \in 1 .. Len(r)
            /\ r[controls[c].at - s[c - 1] + i + 1] = <<controls[c].item, i>>
       /\ \A c \in 0 .. n : \A q \in Gap(c) :
            q - s[c] + 1 \in 1 .. Len(r) /\ r[q - s[c] + 1] = code[q + 1]
       /\ \A p \in 1 .. Len(r) :
            \/ \E c \in 1 .. n : \E i \in 0 .. choices[c] - 1 : p = controls[c].at - s[c - 1] + i + 1
            \/ \E c \in 0 .. n : \E q \in Gap(c) : p = q - s[c] + 1
  BY <1>5 DEF Relaid
<1>11. DOMAIN r = 1 .. Len(r) /\ Len(r) \in Nat
  BY <1>10, LenProperties
\* Every byte of an item is at its new place.
<1>12. ASSUME NEW i \in DOMAIN labels, NEW j \in 0 .. size(i) - 1
       PROVE  moved[i] + j + 1 \in DOMAIN r /\ r[moved[i] + j + 1] = <<i, j>>
  <2>1. CASE IsControl(i)
    <3>1. PICK c \in 1 .. n : controls[c].item = i
      BY <1>2, <1>4, <2>1 DEF ControlsListed
    <3>2. size(i) = choices[c] /\ moved[i] = controls[c].at - s[c - 1]
      BY <1>8, <3>1
    <3>3. j \in 0 .. choices[c] - 1
      BY <3>2
    <3> HIDE DEF moved, size
    <3> QED
      BY <1>10, <1>11, <3>1, <3>2, <3>3
  <2>2. CASE ~IsControl(i)
    <3>1. PICK c \in 0 .. n : /\ \A k \in 0 .. Emitted(i) - 1 : labels[i] + k \in Gap(c)
                              /\ moved[i] = labels[i] - s[c]
      BY <1>9, <2>2
    <3>2. j \in 0 .. Emitted(i) - 1
      BY <2>2
    <3> DEFINE place == labels[i]
               t == s[c]
               q == place + j
    <3>3. q \in Gap(c) /\ place \in Nat /\ t \in Int /\ moved[i] = place - t
      BY <3>1, <3>2, <1>4, <1>7
    <3>4. Longest[i] = Emitted(i)
      BY <1>2 DEF Longest
    <3>5. code[q + 1] = <<i, j>>
      BY <1>2, <3>2, <3>4 DEF Lays
    <3>6. q - t + 1 \in 1 .. Len(r) /\ r[q - t + 1] = code[q + 1]
      BY <1>10, <3>3
    <3> HIDE DEF moved, size, place, t
    <3>7. j \in Int
      OBVIOUS
    <3>8. moved[i] + j + 1 = q - t + 1
      BY <3>3, <3>7
    <3> QED
      BY <3>5, <3>6, <3>8, <1>11
  <2> QED
    BY <2>1, <2>2
\* Every byte is padding or the byte of an item at its new place.
<1>13. ASSUME NEW p \in DOMAIN r
       PROVE  \/ r[p] = Pad
              \/ \E i \in DOMAIN labels : \E j \in 0 .. size(i) - 1 :
                    p = moved[i] + j + 1 /\ r[p] = <<i, j>>
  <2>1. CASE \E c \in 1 .. n : \E j \in 0 .. choices[c] - 1 : p = controls[c].at - s[c - 1] + j + 1
    <3>0. PICK c \in 1 .. n : \E j \in 0 .. choices[c] - 1 : p = controls[c].at - s[c - 1] + j + 1
      BY <2>1
    <3>1. PICK j \in 0 .. choices[c] - 1 : p = controls[c].at - s[c - 1] + j + 1
      BY <3>0
    <3> DEFINE i == controls[c].item
    <3>2. i \in DOMAIN labels /\ size(i) = choices[c] /\ moved[i] = controls[c].at - s[c - 1]
      BY <1>8
    <3>3. r[p] = <<i, j>>
      BY <1>10, <3>1
    <3>4. p = moved[i] + j + 1 /\ j \in 0 .. size(i) - 1
      BY <3>1, <3>2
    <3> QED
      BY <3>2, <3>3, <3>4
  <2>2. CASE \E c \in 0 .. n : \E q \in Gap(c) : p = q - s[c] + 1
    <3>0. PICK c \in 0 .. n : \E q \in Gap(c) : p = q - s[c] + 1
      BY <2>2
    <3>1. PICK q \in Gap(c) : p = q - s[c] + 1
      BY <3>0
    <3>2. q \in Nat /\ Translated(q) = q - s[c] /\ r[p] = code[q + 1]
      BY <1>6, <1>10, <3>1
    <3>3. q + 1 \in DOMAIN code
      <4>1. q <= Bound(c) - 1 /\ Bound(c) \in Nat /\ Bound(c) <= Len(code)
        BY <1>3, CutNumbers DEF Gap, n
      <4> QED
        BY <1>4, <3>2, <4>1
    <3>4. CASE code[q + 1] = Pad
      BY <3>2, <3>4
    <3>5. CASE \E i \in InCode : \E j \in 0 .. Longest[i] - 1 :
                  q + 1 = labels[i] + j + 1 /\ code[q + 1] = <<i, j>>
      <4>0. PICK i \in InCode : \E j \in 0 .. Longest[i] - 1 :
                  q + 1 = labels[i] + j + 1 /\ code[q + 1] = <<i, j>>
        BY <3>5
      <4>1. PICK j \in 0 .. Longest[i] - 1 : q + 1 = labels[i] + j + 1 /\ code[q + 1] = <<i, j>>
        BY <4>0
      <4>2. /\ i \in DOMAIN labels /\ labels[i] \in Nat /\ Longest[i] = Emitted(i)
            /\ Emitted(i) \in Nat
        BY <1>2, <1>4, SizeShape DEF Types, Longest
      <4> DEFINE place == labels[i]
                 width == Emitted(i)
      <4>3. j \in 0 .. width - 1 /\ q = place + j /\ place \in Nat
        <5>1. j \in Nat /\ q + 1 = place + j + 1 /\ place \in Nat
          BY <4>1, <4>2
        <5> HIDE DEF place
        <5>2. q = place + j
          BY <3>2, <5>1
        <5> QED
          BY <4>1, <4>2, <5>1, <5>2
      <4>4. ~IsControl(i)
        <5>1. SUFFICES ASSUME IsControl(i) PROVE FALSE
          OBVIOUS
        <5>2. PICK d \in 1 .. n : controls[d].item = i
          BY <1>2, <1>4, <5>1 DEF ControlsListed
        <5>3. controls[d].at = place /\ controls[d].old = width
          BY <1>8, <5>2
        <5> HIDE DEF place, width
        <5>4. place <= q /\ q < place + width
          BY <4>2, <4>3 DEF width
        <5> QED
          BY <1>6, <5>3, <5>4
      <4>5. PICK e \in 0 .. n : /\ \A k \in 0 .. Emitted(i) - 1 : labels[i] + k \in Gap(e)
                                /\ moved[i] = labels[i] - s[e]
        BY <1>9, <4>2, <4>4
      <4>6. q \in Gap(e)
        BY <4>3, <4>5
      <4>7. q - s[c] = q - s[e]
        BY <1>6, <3>2, <4>6
      <4> DEFINE t == s[e]
                 u == s[c]
                 m == moved[i]
      <4>8. t \in Int /\ u \in Int /\ m = place - t /\ p = q - u + 1 /\ q - u = q - t
        BY <1>7, <3>1, <4>5, <4>7
      <4>9. size(i) = width
        BY <4>4
      <4> HIDE DEF place, width, t, u, m
      <4>10. p = m + j + 1
        BY <3>2, <4>3, <4>8
      <4>11. r[p] = <<i, j>> /\ j \in 0 .. size(i) - 1
        BY <3>2, <4>1, <4>3, <4>9
      <4> QED
        BY <4>2, <4>10, <4>11 DEF m
    <3> QED
      BY <1>2, <3>3, <3>4, <3>5 DEF Lays
  <2> QED
    BY <1>10, <1>11, <2>1, <2>2
<1>14. /\ DOMAIN moved = DOMAIN labels
       /\ \A i \in DOMAIN labels : moved[i] \in Nat
  <2>1. ASSUME NEW i \in DOMAIN labels
        PROVE  moved[i] \in Nat
    <3>1. Emitted(i) \in Nat \ {0} /\ FinalSize(i) \in Nat \ {0} /\ labels[i] \in Nat
      BY <1>2, <1>4, SizeShape DEF Types
    <3>2. size(i) \in Nat \ {0}
      <4>1. CASE ~IsControl(i)
        BY <3>1, <4>1
      <4>2. CASE IsControl(i)
        BY <4>2, <1>2, <1>4, SizeShape DEF Types
      <4> QED
        BY <4>1, <4>2
    <3>3. 0 \in 0 .. size(i) - 1
      <4> HIDE DEF size
      <4> QED
        BY <3>2
    <3>4. moved[i] + 0 + 1 \in 1 .. Len(r)
      BY <1>11, <1>12, <3>3
    <3>5. moved[i] \in Int
      <4>1. CASE IsControl(i)
        <5>1. PICK c \in 1 .. n : controls[c].item = i
          BY <1>2, <1>4, <4>1 DEF ControlsListed
        <5>2. moved[i] = controls[c].at - s[c - 1] /\ controls[c].at = labels[i]
          BY <1>8, <5>1
        <5>3. c - 1 \in 0 .. n
          BY <1>4
        <5>4. s[c - 1] \in Int
          BY <1>7, <5>3
        <5> HIDE DEF moved
        <5> QED
          BY <3>1, <5>2, <5>4
      <4>2. CASE ~IsControl(i)
        BY <1>7, <1>9, <3>1, <4>2
      <4> QED
        BY <4>1, <4>2
    <3> HIDE DEF moved
    <3> QED
      BY <1>11, <3>4, <3>5
  <2> QED
    BY <2>1
<1>15. moved \in Seq(Nat) /\ Len(moved) = Len(labels)
  <2> HIDE DEF moved
  <2>1. moved \in [1 .. Len(labels) -> Nat]
    <3>1. moved = [i \in DOMAIN labels |-> moved[i]]
      BY <1>14 DEF moved
    <3> QED
      BY <1>4, <1>14, <3>1
  <2>2. moved \in Seq(Nat)
    BY <1>4, <2>1, SeqDef
  <2> QED
    BY <1>4, <1>14, <2>2, LenProperties
<1> HIDE DEF moved
<1>16. /\ isa' = isa /\ load' = load /\ program' = program /\ phase' = "layout"
       /\ code' = r /\ labels' = moved /\ controls' = <<>>
       /\ next' = next /\ changed' = changed
  BY <1>1, <1>2 DEF target
<1>17. /\ InCode' = InCode
       /\ \A i : (InImage(i))' = InImage(i) /\ (IsControl(i))' = IsControl(i) /\ (Goal(i))' = Goal(i)
  <2>1. \A i : (InImage(i))' = InImage(i) /\ (IsControl(i))' = IsControl(i) /\ (Goal(i))' = Goal(i)
    BY <1>16 DEF InImage, Item, IsControl, Goal
  <2> QED
    BY <1>14, <1>16, <2>1 DEF InCode
<1>18. ASSUME NEW i \in InCode
       PROVE  /\ IsControl(i) => Goal(i) \in DOMAIN labels
              /\ (FinalSize(i))' = size(i)
  <2>1. IsControl(i) => Goal(i) \in DOMAIN labels
    BY <1>2, <1>4 DEF ControlsListed
  <2>2. (Emitted(i))' = Emitted(i)
    BY <1>16 DEF Emitted, IsControl, Item, OldSize
  <2>3. CASE ~IsControl(i)
    BY <1>17, <2>2, <2>3 DEF FinalSize
  <2>4. CASE IsControl(i)
    <3>1. moved[Goal(i)] = Translated(labels[Goal(i)])
      BY <2>1, <2>4 DEF moved
    <3>2. (load + labels[Goal(i)] <= Limit)' <=> Target(i) <= Limit
      BY <1>16, <3>1 DEF Target, Goal, Item
    <3>3. /\ (NewSize(Item(i).kind))' = NewSize(Item(i).kind)
          /\ (OldSize(Item(i).kind))' = OldSize(Item(i).kind)
      BY <1>16 DEF NewSize, OldSize, Item
    <3> QED
      BY <1>17, <2>1, <2>4, <3>2, <3>3 DEF FinalSize
  <2> QED
    BY <2>1, <2>3, <2>4
<1> HIDE DEF size
<1>19. Final' = [i \in InCode |-> size(i)]
  BY <1>17, <1>18 DEF Final
<1>20. Types'
  <2>1. controls' \in Seq([at : Nat, item : Nat, old : Nat])
    BY <1>16, EmptySeq
  <2> QED
    BY <1>2, <1>10, <1>15, <1>16, <2>1 DEF Types
<1>21. AsEmitted' /\ ChoicesSound'
  BY <1>16 DEF AsEmitted, Unrelaxed, ChoicesSound
<1>22. Complete'
  <2>1. Complete
    BY DEF ImageInvariant
  <2> QED
    BY <1>2, <1>14, <1>16, <1>17, <2>1 DEF Complete
<1>23. AsRelaxed'
  <2>1. Lays(r, moved, InCode, Final')
    BY <1>2, <1>12, <1>13, <1>19 DEF Lays
  <2>2. Lays(code', labels', InCode', Final')
    BY <1>16, <1>17, <2>1
  <2>3. \A i \in InCode' : (IsControl(i))' => (Goal(i))' \in DOMAIN labels'
    BY <1>14, <1>16, <1>17, <1>18
  <2>4. (Lays(code, labels, InCode, Final))'
    BY <2>2 DEF Lays
  <2> QED
    BY <2>3, <2>4 DEF AsRelaxed
<1> QED
  BY <1>20, <1>21, <1>22, <1>23 DEF ImageInvariant

-----------------------------------------------------------------------------
(* After the image is relaxed.                                               *)

\* What the invariant reads of an item is the same where nothing has moved.
LEMMA Unmoved ==
  ASSUME UNCHANGED <<target, code, labels, controls, next, changed>>
  PROVE  /\ InCode' = InCode /\ Longest' = Longest /\ Final' = Final
         /\ \A i : /\ (InImage(i))' = InImage(i) /\ (IsControl(i))' = IsControl(i)
                   /\ (Goal(i))' = Goal(i)
         /\ isa' = isa /\ load' = load /\ program' = program /\ code' = code
         /\ labels' = labels /\ controls' = controls /\ next' = next /\ changed' = changed
<1>1. /\ isa' = isa /\ load' = load /\ program' = program /\ code' = code
      /\ labels' = labels /\ controls' = controls /\ next' = next /\ changed' = changed
  BY DEF target
<1>2. \A i : /\ (InImage(i))' = InImage(i) /\ (IsControl(i))' = IsControl(i)
             /\ (Goal(i))' = Goal(i)
  BY <1>1 DEF InImage, Item, IsControl, Goal
<1>3. InCode' = InCode /\ Longest' = Longest /\ Final' = Final
  BY <1>1 DEF InCode, InImage, Item, Longest, Final, Emitted, FinalSize, IsControl, Goal,
              OldSize, NewSize
<1> QED
  BY <1>1, <1>2, <1>3

\* A step that only ends a phase of a relaxed image.
LEMMA PhaseEnds ==
  ASSUME ImageInvariant, UNCHANGED <<target, code, labels, controls, next, changed>>,
         \/ /\ phase \in {"layout", "reserve", "finish"} /\ controls = <<>>
            /\ phase' \in {"reserve", "finish", "built", "error"}
         \/ phase # "emit" /\ phase' = "error"
  PROVE  ImageInvariant'
<1>1. Types /\ Complete
  BY DEF ImageInvariant
<1>2. /\ InCode' = InCode /\ Final' = Final
      /\ \A i : /\ (InImage(i))' = InImage(i) /\ (IsControl(i))' = IsControl(i)
                /\ (Goal(i))' = Goal(i)
      /\ isa' = isa /\ load' = load /\ program' = program /\ code' = code
      /\ labels' = labels /\ controls' = controls /\ next' = next /\ changed' = changed
  BY Unmoved
<1>3. phase # "emit" /\ phase' \in {"reserve", "finish", "built", "error"}
  OBVIOUS
<1>4. Types'
  BY <1>1, <1>2, <1>3 DEF Types
<1>5. AsEmitted' /\ ChoicesSound'
  BY <1>3 DEF AsEmitted, Unrelaxed, ChoicesSound
<1>6. phase' # "error" => phase \in {"layout", "reserve", "finish"} /\ controls = <<>>
  OBVIOUS
<1>7. Complete'
  <2>1. \A i \in DOMAIN program' \ DOMAIN labels' : ~(InImage(i))'
    BY <1>1, <1>2, <1>3 DEF Complete
  <2>2. phase' \notin {"emit", "layout"}
    BY <1>3
  <2>3. phase' \in {"reserve", "finish", "built"} => controls' = <<>>
    BY <1>2, <1>6
  <2> QED
    BY <2>1, <2>2, <2>3 DEF Complete
<1>8. AsRelaxed'
  <2>1. CASE phase' = "error"
    BY <2>1 DEF AsRelaxed
  <2>2. CASE phase' # "error"
    <3>1. /\ \A i \in InCode : IsControl(i) => Goal(i) \in DOMAIN labels
          /\ Lays(code, labels, InCode, Final)
      BY <1>6, <2>2 DEF ImageInvariant, AsRelaxed
    <3> QED
      BY <1>2, <3>1 DEF AsRelaxed, Lays
  <2> QED
    BY <2>1, <2>2
<1> QED
  BY <1>4, <1>5, <1>7, <1>8 DEF ImageInvariant

\* A reservation is labelled behind the code, where it moves nothing.
LEMMA ReserveInvariant ==
  ASSUME ImageInvariant, Reserve
  PROVE  ImageInvariant'
<1> DEFINE i == Emitting
           place == AlignUp(VirtualEnd, Item(i).align)
<1>1. /\ phase = "reserve" /\ i <= Len(program) /\ labels' = Append(labels, place)
      /\ isa' = isa /\ load' = load /\ program' = program /\ phase' = phase /\ code' = code
      /\ controls' = controls /\ next' = next /\ changed' = changed
  BY DEF Reserve, target
<1>2. Types /\ Complete
  BY DEF ImageInvariant
<1>3. /\ Len(program) \in Nat /\ DOMAIN program = 1 .. Len(program)
      /\ Len(labels) \in Nat /\ DOMAIN labels = 1 .. Len(labels)
      /\ \A l \in DOMAIN labels : labels[l] \in Nat /\ l \in DOMAIN program
      /\ Len(code) \in Nat
  BY <1>2, ItemShape, LabelShape DEF Types
<1>4. i \in DOMAIN program /\ i = Len(labels) + 1 /\ i \notin DOMAIN labels
  BY <1>1, <1>3 DEF Emitting
<1> HIDE DEF i
<1>5. ~InImage(i)
  BY <1>1, <1>2, <1>4 DEF Complete
<1>6. Item(i).align \in Nat \ {0}
  <2>1. Item(i).kind = "reserved"
    BY <1>3, <1>4, <1>5 DEF InImage
  <2> QED
    BY <1>2, <1>4, <2>1, ItemShape DEF Types
<1>7. VirtualEnd \in Nat
  <2>1. CASE Len(labels) > 0 /\ Item(Len(labels)).kind = "reserved"
    <3>1. Len(labels) \in DOMAIN labels
      BY <1>3, <2>1
    <3>2. Item(Len(labels)).size \in Nat /\ labels[Len(labels)] \in Nat
      BY <1>2, <1>3, <2>1, <3>1, ItemShape DEF Types
    <3> QED
      BY <2>1, <3>2 DEF VirtualEnd
  <2>2. CASE ~(Len(labels) > 0 /\ Item(Len(labels)).kind = "reserved")
    BY <1>3, <2>2 DEF VirtualEnd
  <2> QED
    BY <2>1, <2>2
<1>8. place \in Nat
  BY <1>6, <1>7, AlignUpAbove
<1> HIDE DEF place
<1>9. /\ labels' \in Seq(Nat) /\ Len(labels') = Len(labels) + 1
      /\ \A l \in 1 .. Len(labels) : labels'[l] = labels[l]
  BY <1>1, <1>2, <1>8, AppendProperties DEF Types
<1>10. DOMAIN labels' = 1 .. Len(labels) + 1
  BY <1>9, LenProperties
<1>11. DOMAIN labels' = DOMAIN labels \cup {i}
  BY <1>3, <1>4, <1>10
<1>12. \A l : /\ (InImage(l))' = InImage(l) /\ (IsControl(l))' = IsControl(l)
              /\ (Goal(l))' = Goal(l)
  BY <1>1 DEF InImage, Item, IsControl, Goal
<1>13. InCode' = InCode
  BY <1>5, <1>11, <1>12 DEF InCode
<1>14. /\ \A l \in InCode : IsControl(l) => Goal(l) \in DOMAIN labels
       /\ Lays(code, labels, InCode, Final)
  BY <1>1, <1>2 DEF ImageInvariant, AsRelaxed, Complete
<1>15. Final' = Final
  <2>1. ASSUME NEW l \in InCode
        PROVE  (FinalSize(l))' = FinalSize(l)
    <3>1. IsControl(l) => labels'[Goal(l)] = labels[Goal(l)]
      BY <1>3, <1>9, <1>14
    <3>2. /\ (NewSize(Item(l).kind))' = NewSize(Item(l).kind)
          /\ (OldSize(Item(l).kind))' = OldSize(Item(l).kind)
          /\ (Emitted(l))' = Emitted(l)
      BY <1>1 DEF NewSize, OldSize, Item, Emitted, IsControl
    <3>3. IsControl(l) => ((load + labels[Goal(l)] <= Limit)' <=> load + labels[Goal(l)] <= Limit)
      BY <1>1, <1>12, <3>1
    <3> QED
      BY <1>12, <3>2, <3>3 DEF FinalSize
  <2> QED
    BY <1>13, <2>1 DEF Final
<1>16. Types'
  BY <1>1, <1>2, <1>3, <1>4, <1>9 DEF Types
<1>17. AsEmitted' /\ ChoicesSound'
  BY <1>1 DEF AsEmitted, Unrelaxed, ChoicesSound
<1>18. Complete'
  <2>1. \A l \in DOMAIN program' \ DOMAIN labels' : ~(InImage(l))'
    BY <1>1, <1>2, <1>11, <1>12 DEF Complete
  <2> QED
    BY <1>1, <1>2, <2>1 DEF Complete
<1>19. AsRelaxed'
  <2>1. \A l \in InCode : labels'[l] = labels[l]
    BY <1>3, <1>9 DEF InCode
  <2>2. (Lays(code, labels, InCode, Final))'
    <3>1. ASSUME NEW l \in InCode, NEW k \in 0 .. Final[l] - 1
          PROVE  /\ labels'[l] + k + 1 \in DOMAIN code
                 /\ code[labels'[l] + k + 1] = <<l, k>>
      BY <1>14, <2>1 DEF Lays
    <3>2. ASSUME NEW p \in DOMAIN code
          PROVE  \/ code[p] = Pad
                 \/ \E l \in InCode : \E k \in 0 .. Final[l] - 1 :
                       p = labels'[l] + k + 1 /\ code[p] = <<l, k>>
      BY <1>14, <2>1 DEF Lays
    <3>3. Lays(code, labels', InCode, Final)
      BY <3>1, <3>2 DEF Lays
    <3>4. Lays(code', labels', InCode', Final')
      BY <1>1, <1>13, <1>15, <3>3
    <3> QED
      BY <3>4 DEF Lays
  <2>3. \A l \in InCode' : (IsControl(l))' => (Goal(l))' \in DOMAIN labels'
    BY <1>11, <1>12, <1>13, <1>14
  <2> QED
    BY <2>2, <2>3 DEF AsRelaxed
<1> QED
  BY <1>16, <1>17, <1>18, <1>19 DEF ImageInvariant

LEMMA NextInvariant ==
  ASSUME ImageInvariant, [Next]_vars
  PROVE  ImageInvariant'
<1>1. CASE EmitCode
  BY <1>1, EmitCodeInvariant
<1>2. CASE EmitData
  BY <1>2, EmitDataInvariant
<1>3. CASE BeginRelax
  BY <1>3, BeginRelaxInvariant
<1>4. CASE Choose
  BY <1>4, ChooseInvariant
<1>5. CASE Again
  BY <1>5, AgainInvariant
<1>6. CASE Rebuild
  BY <1>6, RebuildInvariant
<1>7. CASE BeginReserve
  BY <1>7, PhaseEnds DEF BeginReserve
<1>8. CASE Reserve
  BY <1>8, ReserveInvariant
<1>9. CASE Patch
  BY <1>9, PhaseEnds DEF Patch
<1>10. CASE UndefinedSymbol
  <2>1. phase # "emit" /\ phase' = "error"
    BY <1>10 DEF UndefinedSymbol, Relaxing
  <2> QED
    BY <1>10, <2>1, PhaseEnds DEF UndefinedSymbol
<1>11. CASE UNCHANGED vars
  <2>1. UNCHANGED <<target, code, labels, controls, next, changed>>
        /\ phase' = phase /\ choices' = choices
    BY <1>11 DEF vars, target
  <2>2. /\ InCode' = InCode /\ Longest' = Longest /\ Final' = Final
        /\ \A i : /\ (InImage(i))' = InImage(i) /\ (IsControl(i))' = IsControl(i)
                  /\ (Goal(i))' = Goal(i)
        /\ isa' = isa /\ load' = load /\ program' = program /\ code' = code
        /\ labels' = labels /\ controls' = controls /\ next' = next /\ changed' = changed
    BY <2>1, Unmoved
  <2>3. /\ \A i : (Emitted(i))' = Emitted(i)
        /\ \A kind : (NewSize(kind))' = NewSize(kind)
        /\ \A q : (Translated(q))' = Translated(q)
    BY <2>1, <2>2 DEF Emitted, IsControl, Item, OldSize, NewSize, Translated
  <2>4. Types'
    BY <2>1, <2>2 DEF ImageInvariant, Types
  <2>5. AsEmitted'
    BY <2>1, <2>2, <2>3 DEF ImageInvariant, AsEmitted, Unrelaxed, Lays, ControlsListed
  <2>6. Complete' /\ AsRelaxed'
    BY <2>1, <2>2 DEF ImageInvariant, Complete, AsRelaxed, Lays
  <2>7. \A c \in DOMAIN controls : (Wanted(c))' = Wanted(c)
    BY <2>2, <2>3 DEF Wanted, Target, Goal, Item
  <2>8. ChoicesSound'
    BY <2>1, <2>2, <2>3, <2>7 DEF ImageInvariant, ChoicesSound, Item
  <2> QED
    BY <2>4, <2>5, <2>6, <2>8 DEF ImageInvariant
<1> QED
  BY <1>1, <1>2, <1>3, <1>4, <1>5, <1>6, <1>7, <1>8, <1>9, <1>10, <1>11 DEF Next

-----------------------------------------------------------------------------
(* What holds of every image.                                                *)

\* At every moment each byte of the image is padding or a byte of one item,
\* at its label: in the longest form while it is emitted, in the form its
\* target asks for once it is relaxed.
THEOREM ImageInvariance == Spec => []ImageInvariant
<1>1. Init => ImageInvariant
  BY InitInvariant
<1>2. ImageInvariant /\ [Next]_vars => ImageInvariant'
  BY NextInvariant
<1> QED
  BY <1>1, <1>2, PTL DEF Spec

\* Relaxation leaves every label on the first byte of what it was put on,
\* whatever was shortened before it.
THEOREM LabelsReachHome == Spec => []LabelsPointHome
<1>1. ASSUME ImageInvariant
      PROVE  LabelsPointHome
  <2>1. SUFFICES ASSUME Relaxed, NEW l \in DOMAIN labels, InImage(l)
                 PROVE  labels[l] + 1 \in DOMAIN code /\ code[labels[l] + 1] = <<l, 0>>
    BY DEF LabelsPointHome
  <2>2. Types /\ Lays(code, labels, InCode, Final)
    BY <1>1, <2>1 DEF ImageInvariant, AsRelaxed, Complete, Relaxed
  <2>3. l \in InCode /\ labels[l] \in Nat /\ l \in DOMAIN program
    BY <2>1, <2>2, LabelShape DEF InCode
  <2>4. Final[l] = FinalSize(l) /\ FinalSize(l) \in Nat \ {0}
    BY <2>1, <2>2, <2>3, SizeShape DEF Final, Types
  <2>5. 0 \in 0 .. Final[l] - 1
    BY <2>4
  <2>6. labels[l] + 0 + 1 \in DOMAIN code /\ code[labels[l] + 0 + 1] = <<l, 0>>
    BY <2>2, <2>3, <2>5 DEF Lays
  <2>7. labels[l] + 0 + 1 = labels[l] + 1
    BY <2>3
  <2> QED
    BY <2>6, <2>7
<1> QED
  BY <1>1, ImageInvariance, PTL

\* A branch or call of the finished image has its short form exactly when
\* its final target fits the immediate.
THEOREM FormsFitTargets == Spec => []ShortWhereItReaches
<1>1. ASSUME ImageInvariant
      PROVE  ShortWhereItReaches
  <2>1. SUFFICES ASSUME phase = "built", NEW i \in DOMAIN program, IsControl(i)
                 PROVE  SizeInImage(i) = FinalSize(i)
    BY DEF ShortWhereItReaches, FinalSize
  <2>2. Types /\ Complete /\ Lays(code, labels, InCode, Final)
    BY <1>1, <2>1 DEF ImageInvariant, AsRelaxed, Complete
  <2>3. InImage(i)
    BY <2>1, <2>2, ItemShape DEF InImage, IsControl, Types
  <2>4. i \in InCode /\ labels[i] \in Nat /\ i \in Nat \ {0}
    <3>1. i \in DOMAIN labels
      BY <2>1, <2>2, <2>3 DEF Complete
    <3> QED
      BY <2>2, <2>3, <3>1, LabelShape, ItemShape DEF InCode, Types
  <2>5. Final[i] = FinalSize(i) /\ FinalSize(i) \in Nat \ {0}
    BY <2>2, <2>3, <2>4, SizeShape DEF Final, Types
  <2> DEFINE a == labels[i]
             w == FinalSize(i)
             places == {p \in DOMAIN code : code[p][1] = i}
  <2>6. ASSUME NEW p \in places
        PROVE  p \in a + 1 .. a + w
    <3>1. code[p] # Pad
      BY <2>4 DEF Pad
    <3>2. PICK l \in InCode : \E k \in 0 .. Final[l] - 1 :
                                 p = labels[l] + k + 1 /\ code[p] = <<l, k>>
      BY <2>2, <3>1 DEF Lays
    <3>3. PICK k \in 0 .. Final[l] - 1 : p = labels[l] + k + 1 /\ code[p] = <<l, k>>
      BY <3>2
    <3>4. l = i
      BY <3>3
    <3>5. k \in 0 .. w - 1 /\ p = a + k + 1
      BY <2>5, <3>3, <3>4
    <3> HIDE DEF a, w
    <3> QED
      BY <2>4, <2>5, <3>5 DEF a, w
  <2>7. ASSUME NEW p \in a + 1 .. a + w
        PROVE  p \in places
    <3> DEFINE k == p - a - 1
    <3>1. k \in 0 .. w - 1 /\ a + k + 1 = p
      <4>1. a \in Nat /\ w \in Nat
        BY <2>4, <2>5
      <4> HIDE DEF a, w
      <4> QED
        BY <4>1
    <3> HIDE DEF k
    <3>2. p \in DOMAIN code /\ code[p] = <<i, k>>
      BY <2>2, <2>4, <2>5, <3>1 DEF Lays
    <3> QED
      BY <3>2
  <2>8. places = a + 1 .. a + w
    BY <2>6, <2>7
  <2>9. a + 1 \in Int /\ a + w \in Int
    BY <2>4, <2>5
  <2> HIDE DEF places
  <2>10. Cardinality(places) = IF a + 1 > a + w THEN 0 ELSE (a + w) - (a + 1) + 1
    BY <2>8, <2>9, FS_Interval
  <2>11. Cardinality(places) = w
    <3>1. a \in Nat /\ w \in Nat \ {0}
      BY <2>4, <2>5
    <3> HIDE DEF a, w
    <3> QED
      BY <2>10, <3>1
  <2> QED
    BY <2>11 DEF SizeInImage, places
<1> QED
  BY <1>1, ImageInvariance, PTL

-----------------------------------------------------------------------------
(* Address constants.                                                        *)

\* Each address constant is remembered at its item's label.
FixupsAtHome ==
    /\ fixups \in Seq([at : Nat, item : Nat])
    /\ \A f \in DOMAIN fixups :
          /\ fixups[f].item \in InCode /\ Item(fixups[f].item).kind = "address"
          /\ fixups[f].at = labels[fixups[f].item]

\* When the constants are written over their places, each place is where the
\* bytes of that constant lie.
PatchesInPlace ==
    phase \in {"finish", "built"} =>
        \A f \in DOMAIN fixups : \A j \in 0 .. Constant - 1 :
            /\ fixups[f].at + j + 1 \in DOMAIN code
            /\ code[fixups[f].at + j + 1] = <<fixups[f].item, j>>

\* A label more leaves the constants where they are.
LEMMA FixupsStay ==
  ASSUME Types, FixupsAtHome, UNCHANGED <<target, fixups>>,
         labels' \in Seq(Nat), Len(labels) <= Len(labels'),
         \A l \in DOMAIN labels : labels'[l] = labels[l]
  PROVE  FixupsAtHome'
<1>1. program' = program /\ fixups' = fixups
  BY DEF target
<1>2. DOMAIN labels \subseteq DOMAIN labels'
  BY LabelShape, LenProperties
<1>3. \A i : (InImage(i))' = InImage(i) /\ (Item(i))' = Item(i)
  BY <1>1 DEF InImage, Item
<1>4. InCode \subseteq InCode' /\ \A i \in InCode : labels'[i] = labels[i]
  BY <1>2, <1>3 DEF InCode
<1>5. \A f \in DOMAIN fixups : (Item(fixups[f].item).kind = "address")' 
                                  <=> Item(fixups[f].item).kind = "address"
  BY <1>1, <1>3 DEF Item
<1> QED
  BY <1>1, <1>4, <1>5 DEF FixupsAtHome

LEMMA FixupsNext ==
  ASSUME ImageInvariant, FixupsAtHome, [Next]_vars
  PROVE  FixupsAtHome'
<1>1. Types
  BY DEF ImageInvariant
<1>2. labels \in Seq(Nat) /\ Len(labels) \in Nat /\ DOMAIN labels = 1 .. Len(labels)
      /\ Len(code) \in Nat
  BY <1>1, LabelShape DEF Types
<1>3. ASSUME NEW place \in Nat, labels' = Append(labels, place)
      PROVE  /\ labels' \in Seq(Nat) /\ Len(labels) <= Len(labels')
             /\ DOMAIN labels' = DOMAIN labels \cup {Emitting} /\ labels'[Emitting] = place
             /\ \A l \in DOMAIN labels : labels'[l] = labels[l]
  <2>1. /\ labels' \in Seq(Nat) /\ Len(labels') = Len(labels) + 1
        /\ \A l \in 1 .. Len(labels) : labels'[l] = labels[l]
        /\ labels'[Len(labels) + 1] = place
    BY <1>2, <1>3, AppendProperties
  <2>2. DOMAIN labels' = 1 .. Len(labels) + 1
    BY <2>1, LenProperties
  <2> QED
    BY <1>2, <2>1, <2>2 DEF Emitting
<1>4. CASE EmitCode
  <2> DEFINE i == Emitting
             fixup == [at |-> Len(code), item |-> i]
  <2>1. /\ InImage(i) /\ labels' = Append(labels, Len(code)) /\ UNCHANGED target
        /\ fixups' = IF Item(i).kind = "address" THEN Append(fixups, fixup) ELSE fixups
    BY <1>4 DEF EmitCode
  <2>2. /\ labels' \in Seq(Nat) /\ Len(labels) <= Len(labels')
        /\ DOMAIN labels' = DOMAIN labels \cup {i} /\ labels'[i] = Len(code)
        /\ \A l \in DOMAIN labels : labels'[l] = labels[l]
    BY <1>2, <1>3, <2>1
  <2>3. CASE Item(i).kind # "address"
    BY <1>1, <2>1, <2>2, <2>3, FixupsStay
  <2>4. CASE Item(i).kind = "address"
    <3>1. program' = program
      BY <2>1 DEF target
    <3>2. \A l : (InImage(l))' = InImage(l) /\ program'[l] = program[l]
      BY <3>1 DEF InImage, Item
    <3>3. InCode \subseteq InCode' /\ i \in InCode' /\ \A l \in InCode : labels'[l] = labels[l]
      BY <2>1, <2>2, <3>2 DEF InCode
    <3>4. fixup \in [at : Nat, item : Nat] /\ fixup.at = Len(code) /\ fixup.item = i
      BY <1>2 DEF Emitting
    <3>5. fixups \in Seq([at : Nat, item : Nat]) /\ fixups' = Append(fixups, fixup)
      BY <2>1, <2>4 DEF FixupsAtHome
    <3> HIDE DEF fixup
    <3>6. /\ fixups' \in Seq([at : Nat, item : Nat]) /\ Len(fixups') = Len(fixups) + 1
          /\ \A f \in 1 .. Len(fixups) : fixups'[f] = fixups[f]
          /\ fixups'[Len(fixups) + 1] = fixup
      BY <3>4, <3>5, AppendProperties
    <3>7. /\ DOMAIN fixups' = 1 .. Len(fixups) + 1 /\ DOMAIN fixups = 1 .. Len(fixups)
          /\ Len(fixups) \in Nat
      BY <3>5, <3>6, LenProperties
    <3>8. ASSUME NEW f \in DOMAIN fixups'
          PROVE  /\ fixups'[f].item \in InCode' /\ program'[fixups'[f].item].kind = "address"
                 /\ fixups'[f].at = labels'[fixups'[f].item]
      <4>1. CASE f \in DOMAIN fixups
        <5>1. /\ fixups[f].item \in InCode /\ program[fixups[f].item].kind = "address"
              /\ fixups[f].at = labels[fixups[f].item]
          BY <4>1 DEF FixupsAtHome, Item
        <5> QED
          BY <4>1, <5>1, <3>2, <3>3, <3>6, <3>7
      <4>2. CASE f = Len(fixups) + 1
        BY <2>2, <2>4, <3>2, <3>3, <3>4, <3>6, <4>2 DEF Item
      <4> QED
        BY <3>7, <4>1, <4>2
    <3> QED
      BY <3>6, <3>8 DEF FixupsAtHome, Item
  <2> QED
    BY <2>3, <2>4
<1>5. CASE EmitData
  <2>1. /\ phase = "emit" /\ InImage(Emitting) /\ Item(Emitting).kind = "data"
        /\ labels' = Append(labels, AlignUp(Len(code), Item(Emitting).align))
        /\ UNCHANGED <<target, fixups>>
    BY <1>5 DEF EmitData
  <2>2. Emitting \in DOMAIN program
    BY <1>1, <1>2, <2>1, ItemShape DEF Types, Emitting, InImage
  <2>3. AlignUp(Len(code), Item(Emitting).align) \in Nat
    BY <1>1, <1>2, <2>1, <2>2, ItemShape, AlignUpAbove DEF Types
  <2> QED
    BY <1>1, <1>3, <2>1, <2>3, FixupsStay
<1>6. CASE Reserve
  <2>1. /\ UNCHANGED <<target, fixups>>
        /\ labels' = Append(labels, AlignUp(VirtualEnd, Item(Emitting).align))
    BY <1>6 DEF Reserve
  <2>2. Len(labels') = Len(labels) + 1 /\ \A l \in DOMAIN labels : labels'[l] = labels[l]
    BY <1>2, <2>1, AppendProperties
  <2>3. labels' \in Seq(Nat)
    BY <1>6, ReserveInvariant DEF ImageInvariant, Types
  <2>4. Len(labels) <= Len(labels')
    BY <1>2, <2>2
  <2> QED
    BY <1>1, <2>1, <2>2, <2>3, <2>4, FixupsStay
<1>7. CASE Rebuild
  <2>1. /\ UNCHANGED target
        /\ labels' = [l \in DOMAIN labels |-> Translated(labels[l])]
        /\ fixups' = [f \in DOMAIN fixups |-> [fixups[f] EXCEPT !.at = Translated(fixups[f].at)]]
    BY <1>7 DEF Rebuild
  <2>2. labels' \in Seq(Nat)
    BY <1>7, RebuildInvariant DEF ImageInvariant, Types
  <2>3. program' = program
    BY <2>1 DEF target
  <2>4. InCode' = InCode
    <3>1. \A l : (InImage(l))' = InImage(l)
      BY <2>3 DEF InImage, Item
    <3> QED
      BY <2>1, <3>1 DEF InCode
  <2>5. \A l \in DOMAIN labels : labels'[l] \in Nat
    <3>1. DOMAIN labels' = DOMAIN labels
      BY <2>1
    <3>2. labels' \in [1 .. Len(labels') -> Nat] /\ DOMAIN labels' = 1 .. Len(labels')
      BY <2>2, LenProperties
    <3> QED
      BY <3>1, <3>2
  <2>6. ASSUME NEW f \in DOMAIN fixups
        PROVE  /\ fixups'[f] \in [at : Nat, item : Nat]
               /\ fixups'[f].item = fixups[f].item
               /\ fixups'[f].item \in InCode /\ program[fixups[f].item].kind = "address"
               /\ fixups'[f].at = labels'[fixups'[f].item]
    <3>1. /\ fixups[f] \in [at : Nat, item : Nat]
          /\ fixups[f].item \in InCode /\ program[fixups[f].item].kind = "address"
          /\ fixups[f].at = labels[fixups[f].item]
      BY ElementOfSeq, LenProperties DEF FixupsAtHome, Item
    <3>2. fixups'[f].item = fixups[f].item /\ fixups'[f].at = Translated(fixups[f].at)
      BY <2>1, <3>1
    <3>3. fixups[f].item \in DOMAIN labels
      BY <3>1 DEF InCode
    <3>4. fixups'[f].at = labels'[fixups[f].item] /\ labels'[fixups[f].item] \in Nat
      BY <2>1, <2>5, <3>1, <3>2, <3>3
    <3>5. fixups'[f] = [fixups[f] EXCEPT !.at = labels'[fixups[f].item]]
      BY <2>1, <3>2, <3>4
    <3> QED
      BY <3>1, <3>2, <3>4, <3>5
  <2>7. fixups' \in Seq([at : Nat, item : Nat]) /\ DOMAIN fixups' = DOMAIN fixups
    <3>1. Len(fixups) \in Nat /\ DOMAIN fixups = 1 .. Len(fixups)
      BY LenProperties DEF FixupsAtHome
    <3>2. DOMAIN fixups' = DOMAIN fixups
      BY <2>1
    <3>3. fixups' = [f \in 1 .. Len(fixups) |-> fixups'[f]]
      BY <2>1, <3>1
    <3>4. fixups' \in [1 .. Len(fixups) -> [at : Nat, item : Nat]]
      BY <2>6, <3>1, <3>3
    <3> DEFINE moved == fixups'
               l == Len(fixups)
               R == [at : Nat, item : Nat]
    <3>5. moved \in [1 .. l -> R] /\ l \in Nat
      BY <3>1, <3>4
    <3> HIDE DEF moved, l, R
    <3>6. moved \in Seq(R)
      BY <3>5, SeqDef
    <3> QED
      BY <3>2, <3>6 DEF moved, R
  <2> QED
    BY <2>3, <2>4, <2>6, <2>7 DEF FixupsAtHome, Item
<1>8. CASE UNCHANGED <<target, labels, fixups>>
  BY <1>1, <1>2, <1>8, FixupsStay
<1>9. CASE UNCHANGED vars
  BY <1>8, <1>9 DEF vars, target
<1>10. CASE BeginRelax \/ Choose \/ Again \/ BeginReserve \/ Patch \/ UndefinedSymbol
  BY <1>8, <1>10 DEF BeginRelax, Choose, Again, BeginReserve, Patch, UndefinedSymbol
<1> QED
  BY <1>4, <1>5, <1>6, <1>7, <1>9, <1>10 DEF Next

\* An address constant moves with its item: finish writes every one of them
\* over the bytes that were emitted for it, however the image was shortened.
THEOREM ConstantsPatchedInPlace == Spec => []PatchesInPlace
<1>1. Init => FixupsAtHome
  <2>1. \A S : <<>> \in Seq(S)
    BY EmptySeq
  <2> QED
    BY <2>1 DEF Init, FixupsAtHome
<1>2. ImageInvariant /\ FixupsAtHome /\ [Next]_vars => FixupsAtHome'
  BY FixupsNext
<1>3. ASSUME ImageInvariant, FixupsAtHome
      PROVE  PatchesInPlace
  <2>1. SUFFICES ASSUME phase \in {"finish", "built"}, NEW f \in DOMAIN fixups,
                        NEW j \in 0 .. Constant - 1
                 PROVE  /\ fixups[f].at + j + 1 \in DOMAIN code
                        /\ code[fixups[f].at + j + 1] = <<fixups[f].item, j>>
    BY DEF PatchesInPlace
  <2> DEFINE i == fixups[f].item
  <2>2. i \in InCode /\ Item(i).kind = "address" /\ fixups[f].at = labels[i]
    BY <1>3 DEF FixupsAtHome
  <2>3. Lays(code, labels, InCode, Final)
    BY <1>3, <2>1 DEF ImageInvariant, AsRelaxed, Complete
  <2>4. Final[i] = Constant
    BY <2>2 DEF Final, FinalSize, Emitted, IsControl
  <2> QED
    BY <2>2, <2>3, <2>4 DEF Lays
<1> QED
  BY <1>1, <1>2, <1>3, ImageInvariance, PTL DEF Spec

-----------------------------------------------------------------------------
(* Relaxing ends.  Finishes, which says so, needs fairness; what follows      *)
(* needs none.  A size once shortened is never taken back, because shorter    *)
(* controls only bring targets nearer to the start of the image; so no pass   *)
(* undoes what another one did, and every step leaves less to do.             *)

\* Shorter controls move no position up.
LEMMA ShorterMovesDown ==
  ASSUME NEW list, NEW long, NEW short, NEW q \in Int, Len(list) \in Nat,
         \A j \in 1 .. Len(list) :
            /\ list[j].at \in Nat /\ list[j].old \in Nat
            /\ long[j] \in Nat /\ short[j] \in Nat /\ short[j] <= long[j]
  PROVE  /\ Moved(list, long, q) \in Int /\ Moved(list, short, q) \in Int
         /\ Moved(list, short, q) <= Moved(list, long, q)
<1> DEFINE n == Len(list)
<1>1. n \in Nat /\ n \in 0 .. n
  OBVIOUS
<1>2. \A j \in 1 .. n : /\ list[j].at \in Nat
                        /\ list[j].old - long[j] \in Int /\ list[j].old - short[j] \in Int
                        /\ list[j].old - long[j] <= list[j].old - short[j]
  OBVIOUS
<1>3. PICK g \in [0 .. n -> Int] :
        /\ g[0] = 0
        /\ \A j \in 1 .. n :
             g[j] = g[j - 1] + (IF list[j].at < q THEN list[j].old - long[j] ELSE 0)
        /\ Moved(list, long, q) = q - g[n]
  BY <1>1, <1>2, SavingsAddUp
<1>4. PICK h \in [0 .. n -> Int] :
        /\ h[0] = 0
        /\ \A j \in 1 .. n :
             h[j] = h[j - 1] + (IF list[j].at < q THEN list[j].old - short[j] ELSE 0)
        /\ Moved(list, short, q) = q - h[n]
  BY <1>1, <1>2, SavingsAddUp
<1>5. g[n] <= h[n]
  <2> DEFINE S == {j \in 0 .. n : ~(g[j] <= h[j])}
  <2>1. SUFFICES S = {}
    BY <1>1, <2>1
  <2>2. ASSUME S # {} PROVE FALSE
    <3>1. S \in SUBSET Nat
      BY <1>1
    <3>2. PICK m \in S : \A j \in S : m <= j
      <4> HIDE DEF S
      <4> QED
        BY <2>2, <3>1, LeastNatural
    <3>3. m # 0 /\ m \in 0 .. n
      BY <1>3, <1>4
    <3>4. m \in 1 .. n /\ m - 1 \in 0 .. n /\ ~(m <= m - 1)
      BY <3>3, <1>1
    <3>5. g[m - 1] <= h[m - 1] /\ g[m - 1] \in Int /\ h[m - 1] \in Int
      BY <3>2, <3>4
    <3>6. g[m] <= h[m]
      <4>1. CASE list[m].at < q
        <5>1. /\ g[m] = g[m - 1] + (list[m].old - long[m])
              /\ h[m] = h[m - 1] + (list[m].old - short[m])
          BY <1>3, <1>4, <3>4, <4>1
        <5> QED
          BY <5>1, <3>5, <1>2, <3>4
      <4>2. CASE ~(list[m].at < q)
        <5>1. g[m] = g[m - 1] + 0 /\ h[m] = h[m - 1] + 0
          BY <1>3, <1>4, <3>4, <4>2
        <5> QED
          BY <5>1, <3>5
      <4> QED
        BY <4>1, <4>2
    <3> QED
      BY <3>2, <3>6
  <2> QED
    BY <2>2
<1>6. g[n] \in Int /\ h[n] \in Int
  BY <1>1
<1> QED
  BY <1>3, <1>4, <1>5, <1>6

\* While controls are relaxed, every one that has been shortened is still
\* within reach of the target its label has with the sizes chosen so far.
ShortOnesReach ==
    Relaxing =>
        /\ next \in 1 .. Len(controls) + 1
        /\ \A c \in DOMAIN controls : choices[c] # controls[c].old =>
              Goal(controls[c].item) \in DOMAIN labels /\ Target(controls[c].item) <= Limit

\* The short form is shorter.
LEMMA ShortIsShorter ==
  ASSUME isa \in Isas, NEW kind \in {"branch", "call"}
  PROVE  NewSize(kind) < OldSize(kind)
<1>1. isa \in {"dynphony", "symphony"}
  BY ImageAssumption
<1> QED
  BY <1>1 DEF OldSize, NewSize

\* The list of controls that a pass goes through, and what it may choose.
LEMMA PassShape ==
  ASSUME ImageInvariant, Relaxing
  PROVE  /\ phase = "layout" /\ controls # <<>>
         /\ Len(controls) \in Nat /\ DOMAIN controls = 1 .. Len(controls)
         /\ \A c \in DOMAIN controls :
              /\ controls[c].at \in Nat /\ controls[c].old \in Nat /\ choices[c] \in Nat
              /\ NewSize(Item(controls[c].item).kind) \in Nat
              /\ NewSize(Item(controls[c].item).kind) < controls[c].old
              /\ choices[c] \in {NewSize(Item(controls[c].item).kind), controls[c].old}
         /\ choices \in [DOMAIN controls -> Nat]
         /\ load \in Nat /\ Limit \in Nat
         /\ \A l \in DOMAIN labels : labels[l] \in Nat
<1>1. phase = "layout" /\ controls # <<>> /\ Types
  BY DEF Relaxing, ImageInvariant, Complete
<1>2. Lays(code, labels, InCode, Longest) /\ ControlsListed
  BY <1>1 DEF ImageInvariant, AsEmitted, Unrelaxed
<1>3. /\ choices \in [DOMAIN controls -> Nat]
      /\ \A c \in DOMAIN controls :
           choices[c] \in {NewSize(Item(controls[c].item).kind), controls[c].old}
  BY <1>1 DEF ImageInvariant, ChoicesSound
<1>4. /\ Len(controls) \in Nat /\ DOMAIN controls = 1 .. Len(controls)
      /\ \A c \in DOMAIN controls : controls[c].at \in Nat /\ controls[c].old \in Nat
  BY <1>1, <1>2, ControlsInCode
<1>5. ASSUME NEW c \in DOMAIN controls
      PROVE  /\ NewSize(Item(controls[c].item).kind) \in Nat
             /\ NewSize(Item(controls[c].item).kind) < controls[c].old
  <2> DEFINE i == controls[c].item
  <2>1. i \in InCode /\ IsControl(i) /\ controls[c].old = Emitted(i)
    BY <1>2 DEF ControlsListed
  <2>2. Item(i).kind \in {"branch", "call"} /\ isa \in Isas
    BY <1>1, <2>1 DEF IsControl, Types
  <2>3. controls[c].old = OldSize(Item(i).kind)
    BY <1>1, <2>1, LabelShape, SizeShape DEF Types
  <2> QED
    BY <2>2, <2>3, ShortIsShorter, ControlSizes
<1>6. load \in Nat /\ Limit \in Nat
  BY <1>1, ImageAssumption DEF Types
<1>7. \A l \in DOMAIN labels : labels[l] \in Nat
  BY <1>1, LabelShape
<1> QED
  BY <1>1, <1>3, <1>4, <1>5, <1>6, <1>7

\* One turn of the loop leaves the sizes as they are, or shortens its control.
LEMMA ChooseShortens ==
  ASSUME ImageInvariant, ShortOnesReach, Choose
  PROVE  /\ next \in 1 .. Len(controls) /\ next' = next + 1
         /\ choices' \in [DOMAIN controls -> Nat]
         /\ \/ choices' = choices /\ changed' = changed
            \/ /\ choices[next] = controls[next].old
               /\ choices'[next] < controls[next].old
         /\ \A c \in DOMAIN controls : c # next => choices'[c] = choices[c]
         /\ choices'[next] # controls[next].old => Target(controls[next].item) <= Limit
<1> DEFINE l == controls[next].item
           new == NewSize(Item(l).kind)
           size == IF Target(l) <= Limit THEN new ELSE controls[next].old
<1>1. /\ Relaxing /\ next \in DOMAIN controls /\ next' = next + 1
      /\ choices' = [choices EXCEPT ![next] = size]
      /\ changed' = (changed \/ choices[next] # size)
  BY DEF Choose
<1>2. /\ DOMAIN controls = 1 .. Len(controls)
      /\ controls[next].old \in Nat /\ new \in Nat /\ new < controls[next].old
      /\ choices[next] \in {new, controls[next].old}
      /\ choices \in [DOMAIN controls -> Nat]
  BY <1>1, PassShape
<1>3. choices[next] # controls[next].old => Target(l) <= Limit
  BY <1>1 DEF ShortOnesReach
<1>4. size \in {new, controls[next].old} /\ (size = new => Target(l) <= Limit)
  BY <1>2
<1>5. size = choices[next] \/ (choices[next] = controls[next].old /\ size = new)
  BY <1>2, <1>3
<1> HIDE DEF size, new
<1>6. /\ choices' \in [DOMAIN controls -> Nat] /\ choices'[next] = size
      /\ \A c \in DOMAIN controls : c # next => choices'[c] = choices[c]
      /\ size = choices[next] => choices' = choices
  BY <1>1, <1>2, <1>4
<1>7. changed \in BOOLEAN
  BY DEF ImageInvariant, Types
<1>8. size = choices[next] => changed' = changed
  BY <1>1, <1>7
<1> QED
  BY <1>1, <1>2, <1>4, <1>5, <1>6, <1>8

\* A turn of the loop brings every target nearer, or leaves it where it is.
LEMMA TargetsComeNearer ==
  ASSUME ImageInvariant, ShortOnesReach, Choose, NEW i, Goal(i) \in DOMAIN labels
  PROVE  LET nearer == load + Moved(controls, choices', labels[Goal(i)])
         IN  Target(i) \in Int /\ nearer \in Int /\ nearer <= Target(i)
<1>1. Relaxing
  BY DEF Choose
<1> DEFINE q == labels[Goal(i)]
<1>2. q \in Nat /\ load \in Nat /\ Len(controls) \in Nat /\ DOMAIN controls = 1 .. Len(controls)
  BY <1>1, PassShape
<1>3. ASSUME NEW j \in 1 .. Len(controls)
      PROVE  /\ controls[j].at \in Nat /\ controls[j].old \in Nat
             /\ choices[j] \in Nat /\ choices'[j] \in Nat /\ choices'[j] <= choices[j]
  <2>1. controls[j].at \in Nat /\ controls[j].old \in Nat /\ choices[j] \in Nat
    BY <1>1, <1>2, PassShape
  <2>2. choices'[j] \in Nat
    BY <1>2, ChooseShortens
  <2>3. choices'[j] <= choices[j]
    <3>1. CASE choices' = choices
      BY <2>1, <3>1
    <3>2. CASE j # next
      BY <1>2, <2>1, <3>2, ChooseShortens
    <3>3. CASE j = next /\ choices' # choices
      <4>1. choices[next] = controls[next].old /\ choices'[next] < controls[next].old
        BY <3>3, ChooseShortens
      <4> QED
        BY <2>1, <2>2, <3>3, <4>1
    <3> QED
      BY <3>1, <3>2, <3>3
  <2> QED
    BY <2>1, <2>2, <2>3
<1>4. /\ Moved(controls, choices, q) \in Int /\ Moved(controls, choices', q) \in Int
      /\ Moved(controls, choices', q) <= Moved(controls, choices, q)
  <2>1. q \in Int /\ Len(controls) \in Nat
    BY <1>2
  <2> HIDE DEF q
  <2> QED
    BY ONLY <2>1, <1>3, ShorterMovesDown
<1>5. Target(i) = load + Moved(controls, choices, q)
  BY DEF Target, Translated, Moved
<1> HIDE DEF q
<1>6. /\ Target(i) \in Int /\ load + Moved(controls, choices', q) \in Int
      /\ load + Moved(controls, choices', q) <= Target(i)
  BY <1>2, <1>4, <1>5
<1> QED
  BY <1>6 DEF q

LEMMA ReachNext ==
  ASSUME ImageInvariant, ShortOnesReach, [Next]_vars
  PROVE  ShortOnesReach'
<1>1. CASE EmitCode \/ EmitData
  BY <1>1 DEF EmitCode, EmitData, ShortOnesReach, Relaxing
<1>2. CASE BeginRelax
  <2>1. CASE phase = "reserve"
    <3>1. controls' = <<>>
      BY <1>2, <2>1 DEF BeginRelax, ImageInvariant, Complete
    <3> QED
      BY <3>1 DEF ShortOnesReach, Relaxing
  <2>2. CASE phase # "reserve"
    <3>1. /\ next' = 1 /\ controls' = controls
          /\ choices' = [c \in DOMAIN controls |-> controls[c].old]
      BY <1>2 DEF BeginRelax
    <3>2. Len(controls) \in Nat
      BY LenProperties DEF ImageInvariant, Types
    <3> QED
      BY <3>1, <3>2 DEF ShortOnesReach
  <2> QED
    BY <2>1, <2>2
<1>3. CASE Choose
  <2>1. /\ Relaxing /\ phase' = phase /\ controls' = controls
        /\ load' = load /\ program' = program /\ labels' = labels
        /\ Goal(controls[next].item) \in DOMAIN labels
    BY <1>3 DEF Choose, target
  <2>2. /\ Len(controls) \in Nat /\ DOMAIN controls = 1 .. Len(controls)
        /\ next \in 1 .. Len(controls) /\ next' = next + 1
    BY <1>3, <2>1, PassShape, ChooseShortens
  <2>3. next' \in 1 .. Len(controls') + 1
    BY <2>1, <2>2
  <2>4. ASSUME NEW c \in DOMAIN controls, choices'[c] # controls[c].old
        PROVE  /\ Goal(controls[c].item) \in DOMAIN labels
               /\ load + Moved(controls, choices', labels[Goal(controls[c].item)]) <= Limit
    <3>1. PICK i : i = controls[c].item
      OBVIOUS
    <3>2. Goal(i) \in DOMAIN labels /\ Target(i) <= Limit
      <4>1. CASE c = next
        BY <1>3, <2>1, <2>4, <3>1, <4>1, ChooseShortens
      <4>2. CASE c # next
        <5>1. choices[c] # controls[c].old
          BY <1>3, <2>4, <4>2, ChooseShortens
        <5> QED
          BY <2>1, <3>1, <5>1 DEF ShortOnesReach
      <4> QED
        BY <4>1, <4>2
    <3>3. Limit \in Nat
      BY ImageAssumption
    <3> DEFINE nearer == load + Moved(controls, choices', labels[Goal(i)])
    <3>4. Target(i) \in Int /\ nearer \in Int /\ nearer <= Target(i)
      BY <1>3, <3>2, TargetsComeNearer
    <3> HIDE DEF nearer
    <3>5. nearer <= Limit
      BY <3>2, <3>3, <3>4
    <3> QED
      BY <3>1, <3>2, <3>5 DEF nearer
  <2>5. ASSUME NEW c \in DOMAIN controls
        PROVE  /\ Goal(controls[c].item)' = Goal(controls[c].item)
               /\ Target(controls[c].item)'
                    = load + Moved(controls, choices', labels[Goal(controls[c].item)])
    BY <2>1 DEF Goal, Item, Target, Translated, Moved
  <2>6. \A c \in DOMAIN controls' : choices'[c] # controls'[c].old =>
          Goal(controls[c].item)' \in DOMAIN labels' /\ Target(controls[c].item)' <= Limit
    BY <2>1, <2>4, <2>5
  <2> QED
    BY <2>1, <2>3, <2>6 DEF ShortOnesReach
<1>4. CASE Again
  <2>1. /\ Relaxing /\ next' = 1 /\ isa' = isa /\ load' = load /\ program' = program
        /\ labels' = labels /\ controls' = controls /\ choices' = choices
    BY <1>4 DEF Again, target
  <2>2. Len(controls) \in Nat
    BY <2>1, PassShape
  <2>3. \A i : Goal(i)' = Goal(i) /\ Target(i)' = Target(i)
    BY <2>1 DEF Goal, Item, Target, Translated
  <2> QED
    BY <2>1, <2>2, <2>3 DEF ShortOnesReach
<1>5. CASE Rebuild \/ BeginReserve \/ Reserve \/ Patch
  <2>1. controls' = <<>>
    BY <1>5 DEF Rebuild, BeginReserve, Reserve, Patch, ImageInvariant, Complete
  <2> QED
    BY <2>1 DEF ShortOnesReach, Relaxing
<1>6. CASE UndefinedSymbol
  BY <1>6 DEF UndefinedSymbol, ShortOnesReach, Relaxing
<1>7. CASE UNCHANGED vars
  <2>1. /\ phase' = phase /\ next' = next /\ isa' = isa /\ load' = load /\ program' = program
        /\ labels' = labels /\ controls' = controls /\ choices' = choices
    BY <1>7 DEF vars, target
  <2>2. \A i : Goal(i)' = Goal(i) /\ Target(i)' = Target(i)
    BY <2>1 DEF Goal, Item, Target, Translated
  <2>3. Relaxing' = Relaxing
    BY <2>1 DEF Relaxing
  <2> QED
    BY <2>1, <2>2, <2>3 DEF ShortOnesReach
<1> QED
  BY <1>1, <1>2, <1>3, <1>4, <1>5, <1>6, <1>7 DEF Next

\* How far the assembler is, and the controls still in their long form.
Stage ==
    CASE phase = "emit" -> 4
      [] phase = "layout" -> 3
      [] phase = "reserve" -> 2
      [] phase = "finish" -> 1
      [] OTHER -> 0

LongOnes == {c \in DOMAIN controls : choices[c] = controls[c].old}

\* Less is left to do: a later stage; or in the same stage one label more, of
\* those the program has; or the image rebuilt; or fewer long controls; or,
\* with the same ones, a pass that has changed nothing yet after one that
\* has; or in the same pass one control less ahead.
Descends ==
    \/ Stage' < Stage
    \/ /\ Stage' = Stage
       /\ \/ Len(labels) < Len(labels') /\ Len(labels') <= Len(program)
          \/ Len(labels') = Len(labels) /\ controls # <<>> /\ controls' = <<>>
          \/ /\ labels' = labels /\ controls' = controls
             /\ \/ LongOnes' \subseteq LongOnes /\ LongOnes' # LongOnes
                \/ LongOnes' = LongOnes /\ changed /\ ~changed'
                \/ /\ LongOnes' = LongOnes /\ changed' = changed
                   /\ next < next' /\ next' <= Len(controls) + 1

LEMMA StepDescends ==
  ASSUME ImageInvariant, ShortOnesReach, Next
  PROVE  Descends
<1>1. /\ labels \in Seq(Nat) /\ Len(labels) \in Nat /\ Len(program) \in Nat
      /\ DOMAIN labels = 1 .. Len(labels)
  BY LabelShape, ItemShape DEF ImageInvariant, Types
<1>2. CASE EmitCode \/ EmitData \/ Reserve
  <2>1. /\ phase' = phase /\ Emitting <= Len(program)
        /\ \E v : labels' = Append(labels, v)
    BY <1>2 DEF EmitCode, EmitData, Reserve, InImage
  <2>2. Stage' = Stage
    BY <2>1 DEF Stage
  <2>3. Len(labels') = Len(labels) + 1
    BY <1>1, <2>1
  <2>4. Len(labels) < Len(labels') /\ Len(labels') <= Len(program)
    BY <1>1, <2>1, <2>3 DEF Emitting
  <2> QED
    BY <2>2, <2>4 DEF Descends
<1>3. CASE BeginRelax
  <2>1. \/ phase = "emit" /\ phase' = "layout"
        \/ phase = "reserve" /\ phase' = "finish"
    BY <1>3 DEF BeginRelax
  <2> QED
    BY <2>1 DEF Descends, Stage
<1>4. CASE Choose
  <2>1. /\ Relaxing /\ phase' = phase /\ controls' = controls /\ labels' = labels
    BY <1>4 DEF Choose
  <2>2. /\ Len(controls) \in Nat /\ DOMAIN controls = 1 .. Len(controls)
        /\ next \in 1 .. Len(controls) /\ next' = next + 1
    BY <1>4, <2>1, PassShape, ChooseShortens
  <2>3. next < next' /\ next' <= Len(controls) + 1
    BY <2>2
  <2>4. Stage' = Stage
    BY <2>1 DEF Stage
  <2>5. CASE choices' = choices /\ changed' = changed
    <3>1. LongOnes' = LongOnes
      BY <2>1, <2>5 DEF LongOnes
    <3> QED
      BY <2>1, <2>3, <2>4, <2>5, <3>1 DEF Descends
  <2>6. CASE ~(choices' = choices /\ changed' = changed)
    <3>1. /\ choices[next] = controls[next].old /\ choices'[next] < controls[next].old
          /\ \A c \in DOMAIN controls : c # next => choices'[c] = choices[c]
      BY <1>4, <2>6, ChooseShortens
    <3>2. next \in DOMAIN controls /\ controls[next].old \in Nat
      BY <2>1, <2>2, PassShape
    <3>3. choices'[next] # controls[next].old
      BY <3>1, <3>2
    <3>4. LongOnes' = LongOnes \ {next} /\ next \in LongOnes
      BY <2>1, <3>1, <3>2, <3>3 DEF LongOnes
    <3> QED
      BY <2>1, <2>4, <3>4 DEF Descends
  <2> QED
    BY <2>5, <2>6
<1>5. CASE Again
  <2>1. /\ phase' = phase /\ controls' = controls /\ labels' = labels /\ choices' = choices
        /\ changed /\ ~changed'
    BY <1>5 DEF Again
  <2>2. Stage' = Stage /\ LongOnes' = LongOnes
    BY <2>1 DEF Stage, LongOnes
  <2> QED
    BY <2>1, <2>2 DEF Descends
<1>6. CASE Rebuild
  <2>1. /\ phase' = phase /\ controls # <<>> /\ controls' = <<>>
        /\ labels' = [l \in DOMAIN labels |-> Translated(labels[l])]
    BY <1>6 DEF Rebuild, Relaxing
  <2>2. Stage' = Stage
    BY <2>1 DEF Stage
  <2>3. DOMAIN labels' = 1 .. Len(labels)
    BY <1>1, <2>1
  <2>4. Len(labels') = Len(labels)
    BY <1>1, <2>3
  <2> QED
    BY <2>1, <2>2, <2>4 DEF Descends
<1>7. CASE BeginReserve \/ Patch
  <2>1. \/ phase = "layout" /\ phase' = "reserve"
        \/ phase = "finish" /\ phase' = "built"
    BY <1>7 DEF BeginReserve, Patch
  <2> QED
    BY <2>1 DEF Descends, Stage
<1>8. CASE UndefinedSymbol
  <2>1. phase \in {"layout", "finish"} /\ phase' = "error"
    BY <1>8 DEF UndefinedSymbol, Relaxing
  <2> QED
    BY <2>1 DEF Descends, Stage
<1> QED
  BY <1>2, <1>3, <1>4, <1>5, <1>6, <1>7, <1>8 DEF Next

\* relax_controls repeats its passes until one changes nothing
\* (assembler.py:111-124). No pass ever takes a short form back.
ChoicesOnlyShrink ==
    Relaxing /\ controls' = controls =>
        \A c \in DOMAIN controls : choices'[c] <= choices[c]

THEOREM NoSizeGrowsBack == Spec => []ShortOnesReach /\ [][ChoicesOnlyShrink]_vars
<1>1. Init => ShortOnesReach
  BY DEF Init, ShortOnesReach, Relaxing
<1>2. ImageInvariant /\ ShortOnesReach /\ [Next]_vars => ShortOnesReach'
  BY ReachNext
<1>3. ImageInvariant /\ ShortOnesReach /\ [Next]_vars => [ChoicesOnlyShrink]_vars
  <2> SUFFICES ASSUME ImageInvariant, ShortOnesReach, Next, Relaxing,
                      controls' = controls, NEW c \in DOMAIN controls
               PROVE  choices'[c] <= choices[c]
    BY DEF ChoicesOnlyShrink
  <2>1. /\ phase = "layout" /\ controls # <<>> /\ choices[c] \in Nat
        /\ DOMAIN controls = 1 .. Len(controls)
    BY PassShape
  <2>2. CASE Choose
    <3>1. choices' = choices \/ c # next => choices'[c] = choices[c]
      BY <2>2, ChooseShortens
    <3>2. choices' # choices => choices[next] = controls[next].old
                                /\ choices'[next] < controls[next].old
      BY <2>2, ChooseShortens
    <3>3. choices'[c] \in Nat
      BY <2>1, <2>2, ChooseShortens
    <3> QED
      BY <2>1, <3>1, <3>2, <3>3
  <2>3. CASE ~Choose
    <3>1. choices' = choices
      BY <2>1, <2>3 DEF Next, EmitCode, EmitData, BeginRelax, Again, Rebuild, BeginReserve,
                        Reserve, Patch, UndefinedSymbol
    <3> QED
      BY <2>1, <3>1
  <2> QED
    BY <2>2, <2>3
<1> QED
  BY <1>1, <1>2, <1>3, ImageInvariance, PTL DEF Spec

\* Assembling descends: every step leaves less to do, in an order that cannot
\* fall forever (at most Len(program) labels, finitely many long controls,
\* one pass after another with no change). relax_controls' "while True" ends
\* for every program and load address.
THEOREM AssemblyDescends == Spec => [][Descends]_vars
<1>1. ImageInvariant /\ ShortOnesReach /\ [Next]_vars => [Descends]_vars
  <2> SUFFICES ASSUME ImageInvariant, ShortOnesReach, Next PROVE Descends
    OBVIOUS
  <2> QED
    BY StepDescends
<1> QED
  BY <1>1, NoSizeGrowsBack, ImageInvariance, PTL DEF Spec
=============================================================================
