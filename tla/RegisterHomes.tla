---------------------------- MODULE RegisterHomes ----------------------------
(***************************************************************************)
(* Where the values of a function with control flow live, and whether they *)
(* are still there when they are read.  Homes are chosen once, from the    *)
(* positions of definitions, uses and calls in the instruction list        *)
(* (Backend.prepare_frame, symphony/targets/symphony/backend.py); then the *)
(* function runs, along branches that may also go back.                    *)
(*                                                                         *)
(* A home holds the name of the value whose latest contents are in it.     *)
(***************************************************************************)
EXTENDS Integers, FiniteSets

CONSTANTS
    Names,         \* number of virtual values
    Length,        \* instructions in the function
    CallerCount,   \* homes r3 .. r6, which a call may clobber
    CalleeCount    \* homes r8, r9, r10 and, without PIC, r12

ASSUME HomesAssumption ==
    /\ Names \in Nat \ {0} /\ Length \in Nat \ {0}
    /\ CallerCount \in 0 .. 4 /\ CalleeCount \in 0 .. 4

VARIABLES
    code,        \* the instructions, 1 .. Length
    pos,         \* the next one, Length + 1 at the end
    file,        \* what each home holds
    written,     \* values that have been assigned
    looped       \* auxiliary: a branch has gone back

vars == <<code, pos, file, written, looped>>

Values == 1 .. Names
None == 0                       \* no operand; contents nobody asked for
Positions == 1 .. Length

\* An instruction has a destination or an operand; multiplication and
\* division are calls of a helper, so they count as calls.
Instructions ==
    [op : {"plain", "call"}, dst : {None}, arg : Values, to : {None}]
      \union [op : {"plain", "call", "const"}, dst : Values, arg : {None}, to : {None}]
      \union [op : {"call"}, dst : {None}, arg : {None}, to : {None}]
      \union [op : {"branch"}, dst : {None}, arg : {None}, to : 1 .. Length + 1]

Defs(v) == {i \in Positions : code[i].dst = v}
Uses(v) == {i \in Positions : code[i].arg = v}
Calls == {i \in Positions : code[i].op = "call"}

\* Assigned once, by a constant or an address: computed again at each use.
Rematerialized(v) ==
    \E i \in Defs(v) : Defs(v) = {i} /\ code[i].op = "const"

LiveValues ==
    {v \in Values : Defs(v) # {} /\ Uses(v) # {} /\ ~Rematerialized(v)}

Score(v) == Cardinality(Uses(v))

Before(u, v) == Score(u) > Score(v) \/ (Score(u) = Score(v) /\ u < v)

Rank(v, S) == Cardinality({u \in S : Before(u, v)})

\* Slip: the first use is compared, not the last.
CrossesCallToFirstUse(v) ==
    \E c \in Calls : (\E d \in Defs(v) : d < c) /\ \A u \in Uses(v) : c < u

\* A call lies between the first definition and the last use in the list.
CrossesCall(v) ==
    \E c \in Calls : (\E d \in Defs(v) : d < c) /\ \E u \in Uses(v) : c < u

Candidates == {v \in LiveValues : ~CrossesCall(v)}

InCallerHome == {v \in Candidates : Rank(v, Candidates) < CallerCount}

Remaining == LiveValues \ InCallerHome

\* Slip: numbered from the first caller home.
CalleeHomeFromThree(v) == 3 + Rank(v, Remaining)

CalleeHome(v) == 8 + Rank(v, Remaining)

InCalleeHome == {v \in Remaining : Rank(v, Remaining) < CalleeCount}

Slot(v) == -v

Home(v) ==
    IF v \in InCallerHome THEN 3 + Rank(v, Candidates)
    ELSE IF v \in InCalleeHome THEN CalleeHome(v)
    ELSE Slot(v)

CallerHomes == 3 .. 2 + CallerCount
CalleeHomes == 8 .. 7 + CalleeCount
HomeNames == CallerHomes \union CalleeHomes \union {Slot(v) : v \in Values}

Init ==
    /\ code \in {c \in [Positions -> Instructions] : c[1].dst # None}
    /\ pos = 1
    /\ file = [h \in HomeNames |-> None]
    /\ written = {}
    /\ looped = FALSE

-----------------------------------------------------------------------------
Holds(v) == Rematerialized(v) \/ file[Home(v)] = v

\* put(): a destination nobody reads, or one that is computed again, has no
\* home.
Written(f, v) ==
    IF v \in LiveValues THEN [f EXCEPT ![Home(v)] = v] ELSE f

\* Operands are read through r1 and r2 before anything is clobbered; see
\* ReadsLastWrite for what they find.
Plain ==
    /\ pos \in Positions
    /\ code[pos].op \in {"plain", "const"}
    /\ file' = Written(file, code[pos].dst)
    /\ written' = written \union ({code[pos].dst} \ {None})
    /\ pos' = pos + 1
    /\ UNCHANGED <<code, looped>>

\* The callee leaves the caller-saved registers with anything in them.
Call ==
    /\ pos \in Positions
    /\ code[pos].op = "call"
    /\ file' = Written([h \in HomeNames |-> IF h \in CallerHomes THEN None ELSE file[h]],
                       code[pos].dst)
    /\ written' = written \union ({code[pos].dst} \ {None})
    /\ pos' = pos + 1
    /\ UNCHANGED <<code, looped>>

Branch ==
    /\ pos \in Positions
    /\ code[pos].op = "branch"
    /\ pos' \in {pos + 1, code[pos].to}
    /\ looped' = (looped \/ pos' <= pos)
    /\ UNCHANGED <<code, file, written>>

Next == Plain \/ Call \/ Branch

Spec == Init /\ [][Next]_vars

-----------------------------------------------------------------------------
TypeOK ==
    /\ code \in [Positions -> Instructions]
    /\ pos \in 1 .. Length + 1
    /\ file \in [HomeNames -> Values \union {None}]
    /\ written \subseteq Values
    /\ looped \in BOOLEAN

\* The value the next instruction reads, if any.
Operand == IF pos \in Positions THEN code[pos].arg ELSE None

\* An instruction that reads a value finds what was last assigned to it.
ReadsLastWrite == Operand \in written => Holds(Operand)

\* The same, as long as no branch has gone back: along the list of
\* instructions a value in r3 .. r6 meets no call before its last use.
ReadsLastWriteForward == ~looped => ReadsLastWrite

\* Values homed in preserved registers or in the frame are safe everywhere,
\* across calls and around loops.
SavedHomesReadBack ==
    \A v \in written : v \in LiveValues \ InCallerHome => Holds(v)
=============================================================================
