------------------------------ MODULE Allocator ------------------------------
(***************************************************************************)
(* What malloc, calloc, realloc and free promise the program, with no      *)
(* header, list or heap end in sight: a pointer owns a region of words,    *)
(* regions never overlap, and a word keeps what its owner stored in it     *)
(* until the owner stores something else or gives the region up.           *)
(***************************************************************************)
EXTENDS Integers

CONSTANTS Addr, HeapStart, Data

VARIABLES
    want,        \* bytes owned at each pointer, 0 if the pointer owns none
    image        \* the whole words stored there

vars == <<want, image>>

Words(n) == (n + 3) \div 4

Region(p, n) == p .. p + Words(n) - 1

Owned == {p \in Addr : want[p] > 0}

Init ==
    /\ want = [p \in Addr |-> 0]
    /\ image = [p \in Addr |-> <<>>]

\* A new region holds anything, but touches no region in use.
Grant(p, n) ==
    /\ want[p] = 0 /\ n > 0
    /\ p >= HeapStart + 2 /\ Region(p, n) \subseteq Addr
    /\ \A q \in Owned : Region(p, n) \intersect Region(q, want[q]) = {}
    /\ want' = [want EXCEPT ![p] = n]
    /\ image' = [image EXCEPT ![p] = image'[p]]

\* The words an old and a new region have in common survive.
Prefix(old, new) ==
    \A i \in DOMAIN old \intersect DOMAIN new : new[i] = old[i]

Resize(p, n) ==
    /\ p \in Owned /\ n > 0
    /\ \A q \in Owned \ {p} : Region(p, n) \intersect Region(q, want[q]) = {}
    /\ want' = [want EXCEPT ![p] = n]
    /\ image' = [image EXCEPT ![p] = image'[p]]
    /\ Prefix(image[p], image'[p])

Move(p, q, n) ==
    /\ p \in Owned /\ want[q] = 0 /\ n > 0
    /\ q >= HeapStart + 2 /\ Region(q, n) \subseteq Addr
    /\ \A r \in Owned : Region(q, n) \intersect Region(r, want[r]) = {}
    /\ want' = [want EXCEPT ![p] = 0, ![q] = n]
    /\ image' = [image EXCEPT ![p] = <<>>, ![q] = image'[q]]
    /\ Prefix(image[p], image'[q])

Release(p) ==
    /\ p \in Owned
    /\ want' = [want EXCEPT ![p] = 0]
    /\ image' = [image EXCEPT ![p] = <<>>]

Store(p, v) ==
    /\ p \in Owned
    /\ image' = [image EXCEPT ![p] = [i \in DOMAIN image[p] |-> v]]
    /\ want' = want

Next ==
    \/ \E p \in Addr : Grant(p, want'[p]) \/ Resize(p, want'[p]) \/ Release(p)
    \/ \E p, q \in Addr : Move(p, q, want'[q])
    \/ \E p \in Addr, v \in Data : Store(p, v)

Spec == Init /\ [][Next]_vars
=============================================================================
