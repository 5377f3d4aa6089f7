---------------------------- MODULE Preprocessor ----------------------------
(* The preprocessor of the self-hosted compiler, dyn_preprocess_project      *)
(* (selfhost/src/frontend/preprocessor.c): every unit of the project is read *)
(* line by line into one output, through includes, conditional groups and    *)
(* macros.                                                                   *)
(*                                                                           *)
(* A file is a path (a sequence of directories and a name), a size and lines *)
(* that are already cut into directive and argument; what a line's condition *)
(* means and how its text is expanded are parameters (see Condition and      *)
(* Expansion).  An error anywhere discards everything.                       *)
EXTENDS Integers, Sequences, SequencesExt, FiniteSets, FiniteSetsExt

CONSTANTS
    Projects,             \* families of [files, roots, definitions]
    Evaluate(_, _),       \* a condition: [value, valid]
    Expand(_, _),         \* a line of text: [out, ok]
    MaxDepth,             \* DYN_PP_MAX_DEPTH, of groups and of includes
    MaxParameters,        \* DYN_PP_MAX_PARAMETERS
    TablePerFile, TableSpare,   \* macro_capacity: 4 for each file, and 16
    OutputSpare,          \* 4096
    Limit                 \* 1048576

ASSUME DepthAssumption == MaxDepth \in Nat
ASSUME CapacityAssumption == TablePerFile \in Nat /\ TableSpare \in Nat
ASSUME ProjectAssumption ==
    \A family \in DOMAIN Projects : \A p \in Projects[family] :
        /\ p.files \in Seq(Range(p.files))
        /\ p.definitions \in Seq(Range(p.definitions))
        /\ p.roots \in Seq(Range(p.roots))
        /\ \A f \in DOMAIN p.files : p.files[f].lines \in Seq(Range(p.files[f].lines))

VARIABLES
    project,
    status,               \* "definitions", "files", "done" or "failed"
    index,                \* the next definition or file of the project
    macros,               \* the table, in the order of definition
    once_files, active_files,
    output,
    stack                 \* calls of dyn_process_file, the innermost last

vars == <<project, status, index, macros, once_files, active_files, output, stack>>

Newline == "\n"
Openers == {"if", "ifdef", "ifndef"}

Size == FoldLeft(LAMBDA n, f : n + f.size, OutputSpare, project.files)
TableCapacity ==
    Len(project.files) * TablePerFile + Len(project.definitions) + TableSpare

Init ==
    /\ \E family \in DOMAIN Projects : project \in Projects[family]
    /\ status = IF Size > Limit THEN "failed" ELSE "definitions"
    /\ index = 1
    /\ macros = <<>>
    /\ once_files = {} /\ active_files = {}
    /\ output = <<>>
    /\ stack = <<>>

----------------------------------------------------------------------------
(* The macro table. *)

Known(name) == \E i \in DOMAIN macros : macros[i].name = name
Place(name) == CHOOSE i \in DOMAIN macros :
                   macros[i].name = name /\ \A j \in 1 .. i - 1 : macros[j].name # name

\* A macro without a name is passed over.
Define(m) ==
    IF m.name = <<>> THEN macros
    ELSE IF Known(m.name) THEN [macros EXCEPT ![Place(m.name)] = m]
    ELSE Append(macros, m)
HasRoom(m) == m.name = <<>> \/ Known(m.name) \/ Len(macros) < TableCapacity

Undefine(name) == IF Known(name) THEN RemoveAt(macros, Place(name)) ELSE macros

----------------------------------------------------------------------------
(* Results of a step: an error, or the next state of the innermost file.     *)

Fail == /\ status' = "failed"
        /\ UNCHANGED <<project, index, macros, once_files, active_files, output, stack>>

Top == stack[Len(stack)]
Line == project.files[Top.file].lines[Top.position]
Read(kinds) ==
    /\ status = "files" /\ stack # <<>>
    /\ Top.position <= Len(project.files[Top.file].lines)
    /\ Line.is \in kinds
Advanced(frame) ==
    [stack EXCEPT ![Len(stack)] = [frame EXCEPT !.position = @ + 1]]
Fits(text) == Len(output) + Len(text) <= Size

\* The line is done: frame is the file's state after it and text is put out,
\* unless there was an error.
LineDone(ok, frame, text) ==
    IF ok /\ Fits(text)
    THEN /\ stack' = Advanced(frame)
         /\ output' = output \o text
         /\ UNCHANGED <<project, status, index>>
    ELSE /\ status' = "failed"
         /\ UNCHANGED <<project, index, output, stack>>

Directive(ok, frame) == LineDone(ok, frame, <<Newline>>)

----------------------------------------------------------------------------
(* Definitions of the project, and its units one after the other.            *)

GiveDefinition ==
    /\ status = "definitions" /\ index <= Len(project.definitions)
    /\ LET m == project.definitions[index]
       IN  IF HasRoom(m)
           THEN /\ macros' = Define(m)
                /\ index' = index + 1
                /\ UNCHANGED <<project, status, once_files, active_files, output, stack>>
           ELSE Fail

StartFiles ==
    /\ status = "definitions" /\ index > Len(project.definitions)
    /\ status' = "files" /\ index' = 1
    /\ UNCHANGED <<project, macros, once_files, active_files, output, stack>>

\* What dyn_process_file refuses, unless the file is passed over.
\* Slip: a file that is being read is not noticed.
RefusesDeep(file) == Len(stack) >= MaxDepth

Refuses(file) ==
    Len(stack) >= MaxDepth \/ file \in (active_files \ once_files)

Frame(file) == [file |-> file, position |-> 1, active |-> TRUE, groups |-> <<>>]

NextUnit ==
    /\ status = "files" /\ stack = <<>> /\ index <= Len(project.files)
    /\ LET opens == project.files[index].unit /\ index \notin once_files
       IN  IF project.files[index].unit /\ Refuses(index) THEN Fail
           ELSE /\ stack' = IF opens THEN <<Frame(index)>> ELSE <<>>
                /\ active_files' = IF opens THEN active_files \union {index} ELSE active_files
                /\ index' = index + 1
                /\ UNCHANGED <<project, status, macros, once_files, output>>

Finish ==
    /\ status = "files" /\ stack = <<>> /\ index > Len(project.files)
    /\ status' = "done"
    /\ UNCHANGED <<project, index, macros, once_files, active_files, output, stack>>

\* The end of a file: an open group is an error; the file that included this
\* one goes on after its line.
EndOfFile ==
    /\ status = "files" /\ stack # <<>>
    /\ Top.position > Len(project.files[Top.file].lines)
    /\ LET nested == Len(stack) > 1
       IN  IF Top.groups # <<>> \/ (nested /\ ~Fits(<<Newline>>)) THEN Fail
           ELSE /\ stack' = Front(stack)
                /\ active_files' = active_files \ {Top.file}
                /\ output' = IF nested THEN output \o <<Newline>> ELSE output
                /\ UNCHANGED <<project, status, index, macros, once_files>>

----------------------------------------------------------------------------
(* Conditional groups: read whether the group they are in is active or not.  *)

Asked ==
    CASE Line.is = "if"     -> Evaluate(macros, Line.text)
      [] Line.is = "ifdef"  -> [value |-> Known(Line.name), valid |-> TRUE]
      [] Line.is = "ifndef" -> [value |-> ~Known(Line.name), valid |-> TRUE]

OpenGroup ==
    /\ Read(Openers)
    /\ LET c == IF Top.active THEN Asked ELSE [value |-> FALSE, valid |-> TRUE]
           group == [parent |-> Top.active, taken |-> c.value, seen_else |-> FALSE]
       IN  Directive(c.valid /\ Len(Top.groups) < MaxDepth,
                     [Top EXCEPT !.groups = Append(@, group), !.active = @ /\ c.value])
    /\ UNCHANGED <<macros, once_files, active_files>>

Group == Top.groups[Len(Top.groups)]
WithGroup(group, active) ==
    [Top EXCEPT !.groups = Append(Front(@), group), !.active = active]

\* Slip: the chain is not marked as taken by an #elif.
ElseIfForgets ==
    /\ Read({"elif"})
    /\ IF Top.groups = <<>> \/ Group.seen_else THEN Directive(FALSE, Top)
       ELSE LET c == IF Group.parent /\ ~Group.taken THEN Evaluate(macros, Line.text)
                     ELSE [value |-> FALSE, valid |-> TRUE]
            IN  Directive(c.valid, WithGroup(Group, c.value))
    /\ UNCHANGED <<macros, once_files, active_files>>

ElseIf ==
    /\ Read({"elif"})
    /\ IF Top.groups = <<>> \/ Group.seen_else THEN Directive(FALSE, Top)
       ELSE LET c == IF Group.parent /\ ~Group.taken THEN Evaluate(macros, Line.text)
                     ELSE [value |-> FALSE, valid |-> TRUE]
            IN  Directive(c.valid, WithGroup([Group EXCEPT !.taken = @ \/ c.value], c.value))
    /\ UNCHANGED <<macros, once_files, active_files>>

Else ==
    /\ Read({"else"})
    /\ IF Top.groups = <<>> \/ Group.seen_else THEN Directive(FALSE, Top)
       ELSE Directive(TRUE, WithGroup([Group EXCEPT !.taken = TRUE, !.seen_else = TRUE],
                                      Group.parent /\ ~Group.taken))
    /\ UNCHANGED <<macros, once_files, active_files>>

EndIf ==
    /\ Read({"endif"})
    /\ IF Top.groups = <<>> THEN Directive(FALSE, Top)
       ELSE Directive(TRUE, [Top EXCEPT !.groups = Front(@), !.active = Group.parent])
    /\ UNCHANGED <<macros, once_files, active_files>>

----------------------------------------------------------------------------
(* The other directives and text, read only in an active group.              *)

Active(kinds) == Read(kinds) /\ Top.active

\* A parameter is missing, or there are too many.
BadParameters(m) == <<>> \in Range(m.parameters) \/ Len(m.parameters) > MaxParameters

\* #define, with a parameter list when the macro is function-like, which is
\* read after the macro was entered.
DefineMacro ==
    /\ Active({"define"})
    /\ LET m == Line.macro
       IN  /\ macros' = IF HasRoom(m) THEN Define(m) ELSE macros
           /\ Directive(HasRoom(m) /\ ~BadParameters(m), Top)
    /\ UNCHANGED <<once_files, active_files>>

UndefineMacro ==
    /\ Active({"undef"})
    /\ macros' = Undefine(Line.name)
    /\ Directive(TRUE, Top)
    /\ UNCHANGED <<once_files, active_files>>

PragmaOnce ==
    /\ Active({"once"})
    /\ once_files' = once_files \union {Top.file}
    /\ Directive(TRUE, Top)
    /\ UNCHANGED <<macros, active_files>>

\* #error, another pragma, a directive that is not known.
Refused ==
    /\ Active({"error"})
    /\ Directive(FALSE, Top)
    /\ UNCHANGED <<macros, once_files, active_files>>

\* dyn_find_include: beside the file that includes, then under the include
\* roots in order, then from the project's root.
Places ==
    (IF Line.quoted THEN <<Front(project.files[Top.file].path)>> ELSE <<>>)
        \o project.roots \o << <<>> >>
At(place) == {f \in DOMAIN project.files : project.files[f].path = Places[place] \o Line.name}
Found == {place \in DOMAIN Places : At(place) # {}}
Included == Min(At(Min(Found)))

Include ==
    /\ Active({"include"})
    /\ IF Found = {} \/ (Found # {} /\ Refuses(Included))
       THEN Directive(FALSE, Top) /\ UNCHANGED active_files
       ELSE IF Included \in once_files THEN Directive(TRUE, Top) /\ UNCHANGED active_files
       ELSE /\ stack' = Append(Advanced(Top), Frame(Included))
            /\ active_files' = active_files \union {Included}
            /\ UNCHANGED <<project, status, index, output>>
    /\ UNCHANGED <<macros, once_files>>

Text ==
    /\ Active({"text"})
    /\ LET r == Expand(macros, Line.text) IN LineDone(r.ok, Top, r.out \o <<Newline>>)
    /\ UNCHANGED <<macros, once_files, active_files>>

\* In a group that is skipped a directive leaves an empty line, text nothing.
SkipLine ==
    /\ Read({"define", "undef", "once", "error", "include", "text"})
    /\ ~Top.active
    /\ LineDone(TRUE, Top, IF Line.is = "text" THEN <<>> ELSE <<Newline>>)
    /\ UNCHANGED <<macros, once_files, active_files>>

Next ==
    \/ GiveDefinition \/ StartFiles \/ NextUnit \/ Finish \/ EndOfFile
    \/ OpenGroup \/ ElseIf \/ Else \/ EndIf
    \/ DefineMacro \/ UndefineMacro \/ PragmaOnce \/ Refused \/ Include
    \/ Text \/ SkipLine

Spec == Init /\ [][Next]_vars

----------------------------------------------------------------------------
\* No file is read while it is being read, however deep the includes: the
\* frames on the stack are of different files, those marked as active.
NeverInsideItself ==
    /\ \A i, j \in DOMAIN stack : stack[i].file = stack[j].file => i = j
    /\ active_files = {stack[i].file : i \in DOMAIN stack}
=============================================================================
