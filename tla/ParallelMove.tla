---------------------------- MODULE ParallelMove ----------------------------
(***************************************************************************)
(* The parallel move that the code generator resolves twice: when every    *)
(* register argument of a call already has a register home, and when the   *)
(* incoming argument registers go to the homes of promoted parameters      *)
(* (symphony/targets/symphony/backend.py).  A move list is executed one    *)
(* instruction at a time; `flags' breaks a cycle.                          *)
(*                                                                         *)
(* The code scans the list in order and takes the first move that is safe; *)
(* the order differs between the two places, so any safe move may go first *)
(* here, and any move may be the one that is broken.                       *)
(***************************************************************************)
EXTENDS Integers, FiniteSets

CONSTANTS
    Registers,   \* registers a move may write or read
    Flags,       \* ABI.status_register, in none of the move lists
    Values

ASSUME MoveAssumption ==
    /\ IsFiniteSet(Registers)
    /\ Flags \notin Registers

VARIABLES
    regs,        \* register contents
    pending,     \* the moves still to do: target register -> source register
    initial,     \* auxiliary: register contents when the list was built
    goal         \* auxiliary: the list as it was built

moveVars == <<regs, pending, initial, goal>>

AllRegisters == Registers \union {Flags}

\* The move lists over registers R: distinct targets, and no move of a register
\* to itself.
MoveLists(R) ==
    {m \in UNION {[T -> R] : T \in SUBSET R} :
        \A t \in DOMAIN m : m[t] # t}

NoMoves == [t \in {} |-> t]

Init ==
    /\ initial \in [AllRegisters -> Values]
    /\ regs = initial
    /\ goal \in MoveLists(Registers)
    /\ pending = goal

\* Slip: two registers that swap do not count as blocking each other.
BlockedUnlessMutual(t) ==
    \E u \in DOMAIN pending \ {t} : pending[u] = t /\ pending[t] # u

\* Slip: moves that are done, or read flags by now, still count.
BlockedByGoal(t) == \E u \in DOMAIN goal \ {t} : goal[u] = t

\* Another pending move still has to read the target.
Blocked(t) == \E u \in DOMAIN pending \ {t} : pending[u] = t

Without(t) == [u \in DOMAIN pending \ {t} |-> pending[u]]

\* mov target, source
Move(t) ==
    /\ t \in DOMAIN pending
    /\ ~Blocked(t)
    /\ regs' = [regs EXCEPT ![t] = regs[pending[t]]]
    /\ pending' = Without(t)
    /\ UNCHANGED <<initial, goal>>

\* Slip: flags takes the source, but the move keeps reading the register.
BreakForgotten(t) ==
    /\ t \in DOMAIN pending
    /\ \A u \in DOMAIN pending : Blocked(u)
    /\ regs' = [regs EXCEPT ![Flags] = regs[pending[t]]]
    /\ UNCHANGED <<pending, initial, goal>>

\* No move is safe: mov flags, source, and read flags instead.
Break(t) ==
    /\ t \in DOMAIN pending
    /\ \A u \in DOMAIN pending : Blocked(u)
    /\ regs' = [regs EXCEPT ![Flags] = regs[pending[t]]]
    /\ pending' = [pending EXCEPT ![t] = Flags]
    /\ UNCHANGED <<initial, goal>>

Next == \E t \in Registers : Move(t) \/ Break(t)

Spec == Init /\ [][Next]_moveVars

\* For the modules that emit other instructions between two lists: the
\* registers become file, and no list is under way.
Settle(file) ==
    /\ regs' = file /\ initial' = file
    /\ goal' = NoMoves /\ pending' = NoMoves

-----------------------------------------------------------------------------
TypeOK ==
    /\ initial \in [AllRegisters -> Values]
    /\ regs \in [AllRegisters -> Values]
    /\ goal \in MoveLists(Registers)
    /\ DOMAIN pending \subseteq DOMAIN goal
    /\ \A t \in DOMAIN pending : pending[t] \in AllRegisters \ {t}

\* What the machine code must do: every target ends up with what its source
\* held at the start, however the moves chase each other, and every other
\* register keeps its contents.
MovesParallel ==
    DOMAIN pending = {} =>
        \A r \in Registers :
            regs[r] = IF r \in DOMAIN goal THEN initial[goal[r]] ELSE initial[r]

\* Half-way, a move still to be done finds its value where it will read it,
\* and one that is done has delivered it.
ValuesReachable ==
    \A r \in Registers :
        CASE r \in DOMAIN pending -> regs[pending[r]] = initial[goal[r]]
          [] r \in DOMAIN goal \ DOMAIN pending -> regs[r] = initial[goal[r]]
          [] OTHER -> regs[r] = initial[r]

\* A move reads flags only after a cycle was broken, and one at a time; the
\* others still read what the list said.
OneInFlags ==
    /\ \A t \in DOMAIN pending : pending[t] # Flags => pending[t] = goal[t]
    /\ \A t, u \in DOMAIN pending : pending[t] = Flags /\ pending[u] = Flags => t = u

\* When a cycle is broken flags is free: no earlier broken cycle still waits
\* there.
FlagsFreeAtBreak ==
    (\A t \in DOMAIN pending : Blocked(t)) => \A t \in DOMAIN pending : pending[t] # Flags
=============================================================================
