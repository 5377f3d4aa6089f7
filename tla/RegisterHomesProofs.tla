------------------------- MODULE RegisterHomesProofs -------------------------
(***************************************************************************)
(* For any function, any number of values and of registers: values in      *)
(* preserved registers or in the frame are never lost, and values in       *)
(* r3 .. r6 are not lost before a branch goes back.                        *)
(***************************************************************************)
EXTENDS RegisterHomes, FiniteSetTheorems, TLAPS

\* A set of values is finite, so ranks are numbers.
LEMMA RankIsNat ==
  ASSUME NEW S \in SUBSET Values, NEW v
  PROVE  IsFiniteSet(S) /\ Rank(v, S) \in Nat
<1>1. IsFiniteSet(Values)
  BY FS_Interval, HomesAssumption DEF Values
<1>2. IsFiniteSet(S) /\ IsFiniteSet({u \in S : Before(u, v)})
  BY <1>1, FS_Subset
<1> QED
  BY <1>2, FS_CardinalityType DEF Rank

\* So are scores.
LEMMA ScoreIsNat ==
  ASSUME NEW v
  PROVE  Score(v) \in Nat
<1>1. IsFiniteSet(Positions)
  BY FS_Interval, HomesAssumption DEF Positions
<1>2. IsFiniteSet(Uses(v))
  BY <1>1, FS_Subset DEF Uses
<1> QED
  BY <1>2, FS_CardinalityType DEF Score

\* The order in which homes are handed out is a strict order.
LEMMA BeforeIsOrder ==
  ASSUME NEW u \in Values, NEW v \in Values
  PROVE  /\ ~Before(u, u)
         /\ u # v => Before(u, v) \/ Before(v, u)
         /\ \A w \in Values : Before(w, u) /\ Before(u, v) => Before(w, v)
  BY ScoreIsNat DEF Before, Values

\* A value that comes first has a lower rank.
LEMMA RankGrows ==
  ASSUME NEW S \in SUBSET Values, NEW u \in S, NEW v \in S, Before(u, v)
  PROVE  Rank(u, S) < Rank(v, S)
<1> DEFINE A == {w \in S : Before(w, u)}
           B == {w \in S : Before(w, v)}
<1>1. IsFiniteSet(S)
  BY RankIsNat
<1>2. IsFiniteSet(A) /\ IsFiniteSet(B)
  BY <1>1, FS_Subset
<1>3. A \subseteq B /\ u \in B /\ u \notin A
  BY BeforeIsOrder
<1>4. Cardinality(A) < Cardinality(B)
  <2>1. A \subseteq B /\ A # B
    BY <1>3
  <2> HIDE DEF A, B
  <2> QED
    BY <1>2, <2>1, FS_Subset, FS_CardinalityType
<1> QED
  BY <1>4 DEF Rank

\* No two values of a set have the same rank.
LEMMA RankInjective ==
  ASSUME NEW S \in SUBSET Values, NEW u \in S, NEW v \in S, Rank(u, S) = Rank(v, S)
  PROVE  u = v
<1>1. u \in Values /\ v \in Values
  OBVIOUS
<1>2. Rank(u, S) \in Nat
  BY RankIsNat
<1>3. CASE Before(u, v)
  BY <1>2, <1>3, RankGrows
<1>4. CASE Before(v, u)
  BY <1>2, <1>4, RankGrows
<1> QED
  BY <1>1, <1>3, <1>4, BeforeIsOrder

\* No two values share a home, and a home is in the range of its kind.
LEMMA HomesApart ==
  ASSUME NEW u \in LiveValues, NEW v \in LiveValues
  PROVE  /\ Home(u) \in HomeNames
         /\ Home(u) \in CallerHomes <=> u \in InCallerHome
         /\ Home(u) = Home(v) => u = v
<1>1. /\ Candidates \subseteq Values /\ Remaining \subseteq Values /\ LiveValues \subseteq Values
      /\ InCallerHome \subseteq Candidates /\ InCalleeHome \subseteq Remaining
  BY DEF Candidates, Remaining, LiveValues, InCallerHome, InCalleeHome
<1>2. /\ Rank(u, Candidates) \in Nat /\ Rank(v, Candidates) \in Nat
      /\ Rank(u, Remaining) \in Nat /\ Rank(v, Remaining) \in Nat
  BY <1>1, RankIsNat
<1>3. ASSUME NEW w \in LiveValues, Rank(w, Candidates) \in Nat, Rank(w, Remaining) \in Nat
      PROVE  /\ w \in InCallerHome => Home(w) \in CallerHomes
             /\ w \in InCalleeHome \ InCallerHome => Home(w) \in CalleeHomes
             /\ w \notin InCallerHome \union InCalleeHome => Home(w) = -w
             /\ w \in Nat \ {0}
  BY <1>1, <1>3, HomesAssumption
     DEF Home, CalleeHome, InCallerHome, InCalleeHome, CallerHomes, CalleeHomes, Slot, Values
<1>4. \A w \in Nat \ {0} : -w \notin CallerHomes \union CalleeHomes
  BY HomesAssumption DEF CallerHomes, CalleeHomes
<1>5. CallerHomes \intersect CalleeHomes = {}
  BY HomesAssumption DEF CallerHomes, CalleeHomes
<1>6. Home(u) \in HomeNames
  BY <1>1, <1>2, <1>3 DEF HomeNames, Slot
<1>7. Home(u) \in CallerHomes <=> u \in InCallerHome
  BY <1>2, <1>3, <1>4, <1>5
<1>8. ASSUME Home(u) = Home(v)
      PROVE  u = v
  <2>1. CASE u \in InCallerHome
    <3>1. v \in InCallerHome
      BY <1>2, <1>3, <1>4, <1>5, <1>8, <2>1
    <3>2. Rank(u, Candidates) = Rank(v, Candidates)
      BY <1>2, <1>8, <2>1, <3>1 DEF Home
    <3> QED
      BY <1>1, <2>1, <3>1, <3>2, RankInjective
  <2>2. CASE u \in InCalleeHome \ InCallerHome
    <3>1. v \in InCalleeHome \ InCallerHome
      BY <1>2, <1>3, <1>4, <1>5, <1>8, <2>2
    <3>2. Rank(u, Remaining) = Rank(v, Remaining)
      BY <1>2, <1>8, <2>2, <3>1 DEF Home, CalleeHome
    <3> QED
      BY <1>1, <2>2, <3>1, <3>2, RankInjective
  <2>3. CASE u \notin InCallerHome \union InCalleeHome
    <3>1. v \notin InCallerHome \union InCalleeHome
      BY <1>2, <1>3, <1>4, <1>5, <1>8, <2>3
    <3> QED
      BY <1>2, <1>3, <1>8, <2>3, <3>1
  <2> QED
    BY <2>1, <2>2, <2>3
<1> QED
  BY <1>6, <1>7, <1>8

\* Homes depend on the instruction list alone, which never changes.
LEMMA HomesFixed ==
  ASSUME code' = code
  PROVE  /\ LiveValues' = LiveValues /\ InCallerHome' = InCallerHome
         /\ Calls' = Calls
         /\ \A v : Home(v)' = Home(v) /\ Defs(v)' = Defs(v) /\ Uses(v)' = Uses(v)
                   /\ Rematerialized(v)' = Rematerialized(v)
  BY DEF Home, CalleeHome, Slot, InCallerHome, InCalleeHome, Remaining, Candidates,
         CrossesCall, LiveValues, Rematerialized, Rank, Before, Score, Uses, Defs, Calls

-----------------------------------------------------------------------------
\* As long as no branch has gone back, a value that was assigned has a
\* definition behind, and it is lost only to a call behind after it.
Forward ==
  ~looped =>
    \A v \in written :
      /\ \E d \in Defs(v) : d < pos
      /\ v \in InCallerHome =>
           \/ file[Home(v)] = v
           \/ \E c \in Calls : c < pos /\ \E d \in Defs(v) : d < c

HomesInvariant ==
  /\ TypeOK
  /\ \A v \in written : v \in LiveValues \ InCallerHome => file[Home(v)] = v
  /\ Forward

\* What an assignment leaves in the homes.
LEMMA WrittenFile ==
  ASSUME NEW f \in [HomeNames -> Values \union {None}], NEW d \in Values \union {None}
  PROVE  /\ Written(f, d) \in [HomeNames -> Values \union {None}]
         /\ \A v \in LiveValues : v = d => Written(f, d)[Home(v)] = v
         /\ \A v \in LiveValues : v # d => Written(f, d)[Home(v)] = f[Home(v)]
<1>1. CASE d \in LiveValues
  <2>1. Home(d) \in HomeNames /\ d \in Values
    BY <1>1, HomesApart DEF LiveValues
  <2>2. Written(f, d) = [f EXCEPT ![Home(d)] = d]
    BY <1>1 DEF Written
  <2>3. \A v \in LiveValues : v # d => Home(v) # Home(d)
    BY <1>1, HomesApart
  <2> QED
    BY <2>1, <2>2, <2>3, HomesApart
<1>2. CASE d \notin LiveValues
  BY <1>2 DEF Written
<1> QED
  BY <1>1, <1>2

\* An instruction that is not a branch, from a file in which the preserved
\* homes are as they were.
LEMMA StraightStep ==
  ASSUME HomesInvariant, pos \in Positions,
         NEW f \in [HomeNames -> Values \union {None}],
         \A v \in LiveValues : v \notin InCallerHome => f[Home(v)] = file[Home(v)],
         code[pos].op # "call" => f = file,
         file' = Written(f, code[pos].dst),
         written' = written \union ({code[pos].dst} \ {None}),
         pos' = pos + 1, code' = code, looped' = looped
  PROVE  HomesInvariant'
<1> DEFINE d == code[pos].dst
<1>1. d \in Values \union {None} /\ None \notin Values
  BY DEF HomesInvariant, TypeOK, Instructions, Values, None
<1>2. pos \in Nat /\ pos + 1 \in 1 .. Length + 1
  BY HomesAssumption DEF Positions
<1>3. d \in Values => pos \in Defs(d)
  BY DEF Defs
<1>4. /\ file' \in [HomeNames -> Values \union {None}]
      /\ \A v \in LiveValues : v = d => file'[Home(v)] = v
      /\ \A v \in LiveValues : v # d => file'[Home(v)] = f[Home(v)]
  BY <1>1, WrittenFile
<1>5. TypeOK'
  BY <1>1, <1>2, <1>4 DEF HomesInvariant, TypeOK
<1>6. ASSUME NEW v \in written', v \in LiveValues \ InCallerHome
      PROVE  file'[Home(v)] = v
  BY <1>4, <1>6 DEF HomesInvariant
<1>7. ASSUME ~looped, NEW v \in written'
      PROVE  \E e \in Defs(v) : e < pos'
  <2>1. CASE v = d /\ v \in Values
    BY <1>2, <1>3, <2>1
  <2>2. CASE v \in written
    <3>1. PICK e \in Defs(v) : e < pos
      BY <1>7, <2>2 DEF HomesInvariant, Forward
    <3> QED
      BY <1>2, <3>1 DEF Defs, Positions
  <2> QED
    BY <1>1, <2>1, <2>2
<1>8. ASSUME ~looped, NEW v \in written', v \in InCallerHome
      PROVE  file'[Home(v)] = v \/ \E c \in Calls : c < pos' /\ \E e \in Defs(v) : e < c
  <2>0. v \in LiveValues
    BY <1>8 DEF InCallerHome, Candidates
  <2>1. CASE v = d
    BY <1>4, <2>0, <2>1
  <2>2. CASE v # d /\ code[pos].op = "call"
    <3>1. v \in written /\ pos \in Calls
      BY <2>2 DEF Calls
    <3>2. PICK e \in Defs(v) : e < pos
      BY <1>8, <3>1 DEF HomesInvariant, Forward
    <3> QED
      BY <1>2, <3>1, <3>2
  <2>3. CASE v # d /\ code[pos].op # "call"
    <3>1. v \in written /\ file'[Home(v)] = file[Home(v)]
      BY <1>4, <2>0, <2>3
    <3>2. CASE file[Home(v)] = v
      BY <3>1, <3>2
    <3>3. CASE file[Home(v)] # v
      <4>1. PICK c \in Calls : c < pos /\ \E e \in Defs(v) : e < c
        BY <1>8, <3>1, <3>3 DEF HomesInvariant, Forward
      <4>2. c < pos'
        BY <1>2, <4>1 DEF Calls, Positions
      <4> QED
        BY <4>1, <4>2
    <3> QED
      BY <3>2, <3>3
  <2> QED
    BY <2>1, <2>2, <2>3
<1>9. Forward'
  BY <1>7, <1>8, HomesFixed DEF Forward
<1> QED
  BY <1>5, <1>6, <1>9, HomesFixed DEF HomesInvariant

\* A branch forward leaves more behind; one that goes back is on record.
LEMMA BranchStep ==
  ASSUME HomesInvariant, Branch
  PROVE  HomesInvariant'
<1>1. code[pos].to \in 1 .. Length + 1 /\ pos \in Nat /\ pos + 1 \in 1 .. Length + 1
  BY HomesAssumption DEF HomesInvariant, TypeOK, Branch, Instructions, Positions, None
<1>2. TypeOK'
  BY <1>1 DEF HomesInvariant, TypeOK, Branch
<1>3. ASSUME ~looped'
      PROVE  ~looped /\ pos < pos'
  <2>1. looped \in BOOLEAN /\ pos' \in Nat /\ looped' = (looped \/ pos' <= pos)
    BY <1>1 DEF Branch, HomesInvariant, TypeOK
  <2>2. ~looped /\ ~(pos' <= pos)
    BY <1>3, <2>1
  <2> QED
    BY <1>1, <2>1, <2>2
<1>4. ASSUME ~looped', NEW v \in written
      PROVE  /\ \E d \in Defs(v) : d < pos'
             /\ v \in InCallerHome =>
                  \/ file[Home(v)] = v
                  \/ \E c \in Calls : c < pos' /\ \E d \in Defs(v) : d < c
  <2>1. Defs(v) \subseteq Nat /\ Calls \subseteq Nat /\ pos' \in Nat
    BY <1>1 DEF Defs, Calls, Positions, Branch
  <2> QED
    BY <1>1, <1>3, <1>4, <2>1 DEF HomesInvariant, Forward
<1>5. Forward'
  BY <1>4, HomesFixed DEF Forward, Branch
<1> QED
  BY <1>2, <1>5, HomesFixed DEF HomesInvariant, Branch

\* The invariant holds from the start.
LEMMA InitHomes == Init => HomesInvariant
<1> SUFFICES ASSUME Init PROVE HomesInvariant
  OBVIOUS
<1>1. code \in [Positions -> Instructions] /\ pos \in 1 .. Length + 1
  BY HomesAssumption DEF Init
<1>2. file \in [HomeNames -> Values \union {None}] /\ written = {} /\ looped = FALSE
  BY DEF Init
<1> QED
  BY <1>1, <1>2 DEF HomesInvariant, TypeOK, Forward

\* Every step preserves it.
LEMMA StepHomes ==
  ASSUME HomesInvariant, [Next]_vars
  PROVE  HomesInvariant'
<1>1. CASE Plain
  BY <1>1, StraightStep DEF Plain, HomesInvariant, TypeOK
<1>2. CASE Call
  <2> DEFINE f == [h \in HomeNames |-> IF h \in CallerHomes THEN None ELSE file[h]]
  <2>1. f \in [HomeNames -> Values \union {None}]
    BY DEF HomesInvariant, TypeOK
  <2>2. \A v \in LiveValues : v \notin InCallerHome => f[Home(v)] = file[Home(v)]
    BY HomesApart
  <2> QED
    BY <1>2, <2>1, <2>2, StraightStep DEF Call
<1>3. CASE Branch
  BY <1>3, BranchStep
<1>4. CASE UNCHANGED vars
  <2>1. code' = code /\ UNCHANGED <<pos, file, written, looped>>
    BY <1>4 DEF vars
  <2> QED
    BY <2>1, HomesFixed DEF HomesInvariant, TypeOK, Forward
<1> QED
  BY <1>1, <1>2, <1>3, <1>4 DEF Next

\* The inductive invariant holds throughout.
THEOREM HomesInvariance == Spec => []HomesInvariant
  BY InitHomes, StepHomes, PTL DEF Spec

\* Values in preserved registers and in the frame read back across calls and
\* around loops.
THEOREM SavedHomesAreSafe == Spec => []SavedHomesReadBack
<1>1. HomesInvariant => SavedHomesReadBack
  BY DEF HomesInvariant, SavedHomesReadBack, Holds
<1> QED
  BY <1>1, HomesInvariance, PTL

\* Along the list, values in r3 .. r6 read back too.
THEOREM CallerHomesAreSafeForward == Spec => []ReadsLastWriteForward
<1>1. ASSUME HomesInvariant, ~looped, Operand \in written
      PROVE  Holds(Operand)
  <2> DEFINE v == Operand
  <2>0. v \in Values /\ None \notin Values
    BY <1>1 DEF HomesInvariant, TypeOK, Values, None
  <2>1. pos \in Positions /\ pos \in Uses(v)
    BY <2>0 DEF Operand, Uses
  <2>2. PICK d \in Defs(v) : d < pos
    BY <1>1 DEF HomesInvariant, Forward
  <2>3. CASE v \notin InCallerHome
    BY <1>1, <2>0, <2>1, <2>2, <2>3 DEF HomesInvariant, LiveValues, Holds
  <2>4. CASE v \in InCallerHome
    <3>1. ~CrossesCall(v)
      BY <2>4 DEF InCallerHome, Candidates
    <3>2. file[Home(v)] = v
      BY <1>1, <2>1, <2>4, <3>1, <2>0 DEF HomesInvariant, Forward, CrossesCall
    <3> QED
      BY <3>2 DEF Holds
  <2> QED
    BY <2>3, <2>4
<1> QED
  BY <1>1, HomesInvariance, PTL DEF ReadsLastWriteForward, ReadsLastWrite
=============================================================================
