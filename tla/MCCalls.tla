------------------------------ MODULE MCCalls ------------------------------
(***************************************************************************)
(* Calls with the argument registers and the caller homes of the code, so  *)
(* that r3 .. r6 are sources and targets of one move list and can hold two *)
(* rings.  The callees are those of calls whose arguments all differ, so   *)
(* that a parameter in the wrong place shows.                              *)
(***************************************************************************)
EXTENDS CallFrame

CONSTANTS slot, spill, const

\* Every call of up to four arguments over operands of each kind.
ShortLists == UNION {[1 .. n -> {3, 4, 8, slot, const}] : n \in 0 .. 4}

\* Every way to fill the caller homes from one another, with an argument for
\* the last register and one for the stack, or without.
RingLists ==
    {<<f, 8>> \o s \o t :
        f \in {3, 9}, s \in [1 .. 4 -> {3, 4, 5, 6}], t \in {<<>>, <<9>>, <<9, slot>>}}

\* Up to two arguments on the stack, behind arguments of each route.
LongLists == UNION {[1 .. n -> {v, 8}] : n \in 5 .. 9, v \in {6, slot}}

\* Lists of each length and each route.
MCEnteredLists ==
    {SubSeq(<<slot, 8, 4, 3, 6, 5, const, 9, spill>>, 1, n) : n \in 0 .. 9 \ {5}}
        \cup {<<8, 9, 4, 3, 6, 5>>, <<const, 8, slot>>}

MCArgLists == ShortLists \cup RingLists \cup LongLists \cup MCEnteredLists

\* What comes in r3 .. r6 changes places there in every way, or some of it goes
\* to slots.
Inside == {m \in [1 .. 4 -> {3, 4, 5, 6}] : \A i, j \in 1 .. 4 : m[i] = m[j] => i = j}
            \cup {<<4, 3, InSlot, InSlot>>, <<InSlot, 5, 6, 4>>, <<InSlot, InSlot, InSlot, InSlot>>}

Behind ==
    {<<>>, <<9>>, <<Dead>>, <<InSlot, 9>>, <<Dead, InSlot>>, <<InSlot, InSlot, 9>>, <<Dead, 9, InSlot>>}

\* Up to four parameters anywhere, or more that keep to these.
MCHomeLists ==
    UNION {[1 .. n -> Homes \cup {InSlot, Dead}] : n \in 0 .. 4}
        \cup {<<a, Dead>> \o m \o t : a \in {8, InSlot}, m \in Inside, t \in Behind}
=============================================================================
