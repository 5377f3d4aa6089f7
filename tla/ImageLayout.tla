---------------------------- MODULE ImageLayout ----------------------------
(* Building a fixed-address image: Assembler records where every symbolic      *)
(* branch and call was emitted in its longest form, relax_controls shrinks     *)
(* those whose target can be an immediate, and Backend.build appends static    *)
(* data before that and places zero-filled reservations after it.              *)
(*                                                                             *)
(* A program is a sequence of items, the i-th labelled i: "plain" code, a      *)
(* "branch", "call" or "address" constant that names a label, static data, and *)
(* reservations.  A byte of the image is <<i, k>>, byte k of item i, or Pad.   *)
EXTENDS Integers, Sequences, FiniteSets

CONSTANTS Isas, LoadAddresses, Limit, Programs

ASSUME ImageAssumption ==
    /\ Isas \subseteq {"dynphony", "symphony"}
    /\ LoadAddresses \subseteq Nat
    /\ Limit \in Nat        \* 0xFFFF, the largest immediate target

(* Every item has a byte for its label to name: a label put on no code is one  *)
(* with the label that follows.  Reservations come after everything else.      *)
Items ==
    [kind : {"plain"}, size : Nat \ {0}]
        \cup [kind : {"branch", "call", "address"}, label : Nat]
        \cup [kind : {"data", "reserved"}, size : Nat \ {0}, align : Nat \ {0}]

ASSUME ProgramsAssumption ==
    /\ Programs \subseteq Seq(Items)
    /\ \A p \in Programs : \A i, j \in DOMAIN p :
          i < j /\ p[i].kind = "reserved" => p[j].kind = "reserved"

VARIABLES
    isa, load,   \* the target: instruction set and load address
    program,     \* what is assembled
    phase,       \* "emit", "layout" (relaxing), "reserve", "finish", "built", "error"
    code,        \* the bytes emitted so far
    labels,      \* label -> offset, for the labels defined so far
    controls,    \* control_fixups: where, which item, its emitted size
    fixups,      \* address constants: where, which item
    choices,     \* the size chosen for every control, by its offset
    next,        \* the control the loop over control_fixups is at
    changed      \* whether this pass has changed a choice

vars == <<isa, load, program, phase, code, labels, controls, fixups, choices, next, changed>>
target == <<isa, load, program>>

Pad == <<0, 0>>
Item(i) == program[i]
IsControl(i) == Item(i).kind \in {"branch", "call"}

(* Sizes in bytes: a register-form jump, or the three instructions of a call   *)
(* through the link register, after a constant of three instructions.          *)
Constant == 12
OldSize(kind) ==
    CASE kind = "branch" /\ isa = "symphony" -> 16
      [] kind = "branch" /\ isa = "dynphony" -> 15
      [] kind = "call"   /\ isa = "symphony" -> 24
      [] kind = "call"   /\ isa = "dynphony" -> 21

NewSize(kind) ==
    CASE kind = "branch"                     -> 4
      [] kind = "call"   /\ isa = "symphony" -> 12
      [] kind = "call"   /\ isa = "dynphony" -> 10

Bytes(i, n) == [k \in 1 .. n |-> <<i, k - 1>>]

AlignUp(n, a) == ((n + a - 1) \div a) * a

Emitted(i) ==
    CASE IsControl(i)             -> OldSize(Item(i).kind)
      [] Item(i).kind = "address" -> Constant
      [] OTHER                    -> Item(i).size

(* The items are emitted in order; reservations take no bytes of the image.    *)
Init ==
    /\ isa \in Isas /\ load \in LoadAddresses /\ program \in Programs
    /\ phase = "emit"
    /\ code = <<>> /\ labels = <<>>
    /\ controls = <<>> /\ fixups = <<>>
    /\ choices = <<>> /\ next = 1 /\ changed = FALSE

(* The item about to be emitted: the k-th, after the labels defined so far.    *)
Emitting == Len(labels) + 1

InImage(i) == i <= Len(program) /\ Item(i).kind # "reserved"

EmitCode ==
    /\ phase = "emit" /\ InImage(Emitting) /\ Item(Emitting).kind # "data"
    /\ LET i == Emitting
       IN  /\ labels' = Append(labels, Len(code))
           /\ code' = code \o Bytes(i, Emitted(i))
           /\ controls' = IF IsControl(i)
                          THEN Append(controls, [at |-> Len(code), item |-> i, old |-> Emitted(i)])
                          ELSE controls
           /\ fixups' = IF Item(i).kind = "address"
                        THEN Append(fixups, [at |-> Len(code), item |-> i]) ELSE fixups
    /\ UNCHANGED <<target, phase, choices, next, changed>>

(* Static data: padded to its alignment from the length of the code as it is.  *)
EmitData ==
    /\ phase = "emit" /\ InImage(Emitting) /\ Item(Emitting).kind = "data"
    /\ LET at == AlignUp(Len(code), Item(Emitting).align)
       IN  /\ labels' = Append(labels, at)
           /\ code' = code \o [k \in 1 .. at - Len(code) |-> Pad]
                           \o Bytes(Emitting, Item(Emitting).size)
    /\ UNCHANGED <<target, phase, controls, fixups, choices, next, changed>>

(* relax_controls begins, from build or from finish: every control is long.    *)
BeginRelax ==
    /\ \/ phase = "emit" /\ ~InImage(Emitting) /\ phase' = "layout"
       \/ phase = "reserve" /\ Len(labels) = Len(program) /\ phase' = "finish"
    /\ choices' = [c \in DOMAIN controls |-> controls[c].old]
    /\ next' = 1 /\ changed' = FALSE
    /\ UNCHANGED <<target, code, labels, controls, fixups>>

Relaxing == phase \in {"layout", "finish"} /\ controls # <<>>

(* Where an offset of the unrelaxed code lies with the sizes chosen so far.    *)
Translated(position) ==
    LET saved[c \in 0 .. Len(controls)] ==
            IF c = 0 THEN 0
            ELSE saved[c - 1] + (IF controls[c].at < position
                                 THEN controls[c].old - choices[c] ELSE 0)
    IN  position - saved[Len(controls)]

Goal(i) == Item(i).label
(* Slip: the load address is left out. *)
TargetFromImage(i) == Translated(labels[Goal(i)])

Target(i) == load + Translated(labels[Goal(i)])

(* One turn of the loop: the size its target allows, as far as known.          *)
Choose ==
    /\ Relaxing /\ next \in DOMAIN controls
    /\ LET i    == controls[next].item
           size == IF Target(i) <= Limit THEN NewSize(Item(i).kind) ELSE controls[next].old
       IN  /\ Goal(i) \in DOMAIN labels
           /\ choices' = [choices EXCEPT ![next] = size]
           /\ changed' = (changed \/ choices[next] # size)
    /\ next' = next + 1
    /\ UNCHANGED <<target, phase, code, labels, controls, fixups>>

(* Slip: once a pass has changed a size, every later one counts as changing. *)
AgainForever ==
    /\ Relaxing /\ next > Len(controls) /\ changed
    /\ next' = 1 /\ UNCHANGED changed
    /\ UNCHANGED <<target, phase, code, labels, controls, fixups, choices>>

(* A pass that changed a size is followed by another one.                      *)
Again ==
    /\ Relaxing /\ next > Len(controls) /\ changed
    /\ next' = 1 /\ changed' = FALSE
    /\ UNCHANGED <<target, phase, code, labels, controls, fixups, choices>>

(* The code between the controls is copied, each control selected anew by its  *)
(* target; labels and constants move to where they now lie.                    *)
Selected(c) ==
    LET i == controls[c].item
    IN  Bytes(i, IF Target(i) <= Limit THEN NewSize(Item(i).kind) ELSE controls[c].old)

Copied(from, to) == SubSeq(code, from + 1, to)

Rebuilt ==
    LET upto[c \in 0 .. Len(controls)] ==
            IF c = 0 THEN Copied(0, controls[1].at)
            ELSE upto[c - 1] \o Selected(c)
                     \o Copied(controls[c].at + controls[c].old,
                               IF c = Len(controls) THEN Len(code) ELSE controls[c + 1].at)
    IN  upto[Len(controls)]

(* Slip: one pass is taken to be enough. *)
RebuildAfterOnePass ==
    /\ Relaxing /\ next > Len(controls)
    /\ code' = Rebuilt
    /\ labels' = [l \in DOMAIN labels |-> Translated(labels[l])]
    /\ fixups' = [f \in DOMAIN fixups |-> [fixups[f] EXCEPT !.at = Translated(fixups[f].at)]]
    /\ controls' = <<>>
    /\ UNCHANGED <<target, phase, choices, next, changed>>

Rebuild ==
    /\ Relaxing /\ next > Len(controls) /\ ~changed
    /\ code' = Rebuilt
    /\ labels' = [l \in DOMAIN labels |-> Translated(labels[l])]
    /\ fixups' = [f \in DOMAIN fixups |-> [fixups[f] EXCEPT !.at = Translated(fixups[f].at)]]
    /\ controls' = <<>>
    /\ UNCHANGED <<target, phase, choices, next, changed>>

(* Reservations follow the relaxed image, each at its alignment.               *)
VirtualEnd ==
    IF Len(labels) > 0 /\ Item(Len(labels)).kind = "reserved"
    THEN labels[Len(labels)] + Item(Len(labels)).size ELSE Len(code)

BeginReserve ==
    /\ phase = "layout" /\ controls = <<>>
    /\ phase' = "reserve"
    /\ UNCHANGED <<target, code, labels, controls, fixups, choices, next, changed>>

Reserve ==
    /\ phase = "reserve" /\ Emitting <= Len(program)
    /\ labels' = Append(labels, AlignUp(VirtualEnd, Item(Emitting).align))
    /\ UNCHANGED <<target, phase, code, controls, fixups, choices, next, changed>>

(* finish writes every address constant over its place, if all are defined.    *)
Patch ==
    /\ phase = "finish" /\ controls = <<>>
    /\ \A f \in DOMAIN fixups : Goal(fixups[f].item) \in DOMAIN labels
    /\ phase' = "built"
    /\ UNCHANGED <<target, code, labels, controls, fixups, choices, next, changed>>

UndefinedSymbol ==
    /\ \/ /\ Relaxing /\ next \in DOMAIN controls
          /\ Goal(controls[next].item) \notin DOMAIN labels
       \/ /\ phase = "finish" /\ controls = <<>>
          /\ \E f \in DOMAIN fixups : Goal(fixups[f].item) \notin DOMAIN labels
    /\ phase' = "error"
    /\ UNCHANGED <<target, code, labels, controls, fixups, choices, next, changed>>

Next ==
    \/ EmitCode \/ EmitData \/ BeginRelax \/ Choose \/ Again \/ Rebuild
    \/ BeginReserve \/ Reserve \/ Patch \/ UndefinedSymbol

(* The assembler runs to its end in one thread.                                *)
Spec == Init /\ [][Next]_vars /\ WF_vars(Next)

-----------------------------------------------------------------------------
(* Types.                                                                      *)
Position == 0 .. 200

TypeOK ==
    /\ isa \in Isas /\ load \in LoadAddresses /\ program \in Programs
    /\ phase \in {"emit", "layout", "reserve", "finish", "built", "error"}
    /\ \A p \in DOMAIN code : code[p] = Pad \/ code[p][1] \in DOMAIN program
    /\ labels \in Seq(Position)
    /\ \A c \in DOMAIN controls : controls[c].at \in Position
    /\ \A f \in DOMAIN fixups : fixups[f].at \in Position
    /\ next \in 1 .. Len(controls) + 1 \/ controls = <<>>
    /\ changed \in BOOLEAN

Relaxed == phase \in {"reserve", "finish", "built"}

(* After relaxation every label still names the first byte of what it was put  *)
(* on, so branches, calls, constants and data relocations reach their goals.   *)
LabelsPointHome ==
    Relaxed => \A l \in DOMAIN labels :
        InImage(l) => labels[l] + 1 \in DOMAIN code /\ code[labels[l] + 1] = <<l, 0>>

(* In the final image a branch or call has its short form exactly when its     *)
(* final target fits the immediate: no short form that cannot reach, no long   *)
(* one that is not needed, although every size moved other targets.            *)
SizeInImage(i) == Cardinality({p \in DOMAIN code : code[p][1] = i})

ShortWhereItReaches ==
    phase = "built" => \A i \in DOMAIN program :
        IsControl(i) =>
            SizeInImage(i) = IF load + labels[Goal(i)] <= Limit
                             THEN NewSize(Item(i).kind) ELSE OldSize(Item(i).kind)

(* Static data is where its alignment wants it, within the image.              *)
StaticDataAligned ==
    phase = "built" => \A l \in DOMAIN program :
        Item(l).kind = "data" => labels[l] % Item(l).align = 0

(* Relaxation comes to an end.                                                 *)
Finishes == <>(phase \in {"built", "error"})
=============================================================================
