------------------------ MODULE PreprocessorProofs ------------------------
(* Proofs, for every set of projects, every meaning of conditions and of     *)
(* expansion, every depth and every capacity, that includes never re-enter a *)
(* file, that files and conditional groups stay nested, that what is passed  *)
(* over counts for nothing, that the macro table keeps one entry, the last,  *)
(* for a name, and that preprocessing ends.                                  *)
(*                                                                           *)
(* The first part is about the files being read; then come the groups of     *)
(* each (StackOK), the table (TableOK), and what a step leaves to read.      *)
EXTENDS Preprocessor, SequenceTheorems, FiniteSetTheorems, WellFoundedInduction, TLAPS

\* NeverInsideItself is not inductive alone: replacing the innermost frame
\* keeps its file only because frames are records that have one.
Frames ==
    /\ \E S : stack \in Seq(S)
    /\ \A i \in 1 .. Len(stack) : "file" \in DOMAIN stack[i]

IInv == Frames /\ NeverInsideItself

LEMMA StackIsSequence ==
    ASSUME Frames
    PROVE  /\ Len(stack) \in Nat
           /\ DOMAIN stack = 1 .. Len(stack)
           /\ stack # <<>> => Len(stack) > 0 /\ "file" \in DOMAIN Top
<1>1. PICK S : stack \in Seq(S)
  BY DEF Frames
<1>2. Len(stack) \in Nat /\ DOMAIN stack = 1 .. Len(stack)
  BY <1>1
<1>3. stack # <<>> => Len(stack) > 0
  BY <1>1, <1>2, EmptySeq
<1> QED
  BY <1>2, <1>3 DEF Frames, Top

\* A line that is done leaves the files on the stack as they are.
LEMMA LineKeepsFiles ==
    ASSUME IInv, stack # <<>>,
           NEW ok, NEW frame, NEW text, LineDone(ok, frame, text),
           "file" \in DOMAIN frame, frame.file = Top.file,
           active_files' = active_files
    PROVE  IInv'
<1> USE DEF IInv
<1>1. CASE stack' = stack
  BY <1>1 DEF Frames, NeverInsideItself
<1>2. CASE stack' = Advanced(frame)
  <2>1. PICK S : stack \in Seq(S)
    BY DEF Frames
  <2>2. Len(stack) \in Nat /\ DOMAIN stack = 1 .. Len(stack) /\ Len(stack) > 0
    BY StackIsSequence
  <2> DEFINE after == [frame EXCEPT !.position = @ + 1]
  <2>3. "file" \in DOMAIN after /\ after.file = Top.file
    OBVIOUS
  <2>4. stack' = [stack EXCEPT ![Len(stack)] = after]
    BY <1>2 DEF Advanced
  <2> HIDE DEF after
  <2>5. stack' \in Seq(S \union {after}) /\ Len(stack') = Len(stack)
    <3>1. stack \in Seq(S \union {after})
      BY <2>1, SeqMonotonic
    <3> QED
      BY <2>2, <2>4, <3>1, ExceptSeq
  <2>6. DOMAIN stack' = DOMAIN stack
    BY <2>4
  <2>7. \A i \in DOMAIN stack :
            /\ stack'[i].file = stack[i].file
            /\ "file" \in DOMAIN stack'[i]
    BY <2>2, <2>3, <2>4 DEF Top, Frames
  <2>8. Frames'
    BY <2>2, <2>5, <2>7 DEF Frames
  <2>9. {stack'[i].file : i \in DOMAIN stack'} = {stack[i].file : i \in DOMAIN stack}
    BY <2>6, <2>7
  <2> QED
    BY <2>6, <2>7, <2>8, <2>9 DEF NeverInsideItself
<1> QED
  BY <1>1, <1>2 DEF LineDone

LEMMA NothingChanges ==
    ASSUME IInv, UNCHANGED <<stack, active_files>>
    PROVE  IInv'
BY DEF IInv, Frames, NeverInsideItself

\* A file that is not active goes on top.
LEMMA FileOpens ==
    ASSUME IInv, NEW file, file \notin active_files,
           NEW base,
           \E S : base \in Seq(S),
           Len(base) = Len(stack),
           \A i \in 1 .. Len(base) : "file" \in DOMAIN base[i] /\ base[i].file = stack[i].file,
           stack' = Append(base, Frame(file)),
           active_files' = active_files \union {file}
    PROVE  IInv'
<1> USE DEF IInv
<1>1. PICK S : base \in Seq(S)
  OBVIOUS
<1>2. /\ Len(stack) \in Nat
      /\ DOMAIN stack = 1 .. Len(stack)
      /\ DOMAIN base = 1 .. Len(stack)
  BY <1>1, StackIsSequence
<1> DEFINE last == Len(stack) + 1
<1>3. Frame(file).file = file /\ "file" \in DOMAIN Frame(file)
  BY DEF Frame
<1>4. /\ stack' \in Seq(S \union {Frame(file)})
      /\ Len(stack') = last
      /\ stack'[last] = Frame(file)
      /\ \A i \in 1 .. Len(stack) : stack'[i] = base[i]
  <2>1. base \in Seq(S \union {Frame(file)})
    BY <1>1, SeqMonotonic
  <2> QED
    BY <1>2, <2>1, AppendProperties
<1>5. DOMAIN stack' = 1 .. last
  BY <1>4
<1>6. \A i \in 1 .. Len(stack) :
          stack'[i].file = stack[i].file /\ stack'[i].file \in active_files
  BY <1>2, <1>4 DEF NeverInsideItself
<1>7. Frames'
  BY <1>2, <1>3, <1>4 DEF Frames
<1>8. \A i, j \in DOMAIN stack' : stack'[i].file = stack'[j].file => i = j
  <2>1. \A i, j \in 1 .. Len(stack) : stack'[i].file = stack'[j].file => i = j
    BY <1>2, <1>6 DEF NeverInsideItself
  <2>2. \A i \in 1 .. Len(stack) : stack'[i].file # stack'[last].file
    BY <1>3, <1>4, <1>6
  <2> QED
    BY <1>2, <1>5, <2>1, <2>2
<1>9. active_files' = {stack'[i].file : i \in DOMAIN stack'}
  <2>0. active_files = {stack[i].file : i \in 1 .. Len(stack)}
    BY <1>2 DEF NeverInsideItself
  <2>1. \A f : f \in active_files <=> \E i \in 1 .. Len(stack) : stack'[i].file = f
    BY <1>6, <2>0
  <2>2. stack'[last].file = file
    BY <1>3, <1>4
  <2>3. \A f : f \in active_files' <=> f \in {stack'[i].file : i \in DOMAIN stack'}
    <3> TAKE f
    <3>1. f \in {stack'[i].file : i \in DOMAIN stack'}
            <=> (f = file \/ \E i \in 1 .. Len(stack) : stack'[i].file = f)
      BY <1>2, <1>5, <2>2
    <3> QED
      BY <2>1, <3>1
  <2> QED
    BY <2>3
<1> QED
  BY <1>7, <1>8, <1>9 DEF NeverInsideItself

\* The end of a file takes its frame and its mark.
LEMMA FileCloses ==
    ASSUME IInv, stack # <<>>,
           stack' = Front(stack),
           active_files' = active_files \ {Top.file}
    PROVE  IInv'
<1>0. Frames /\ NeverInsideItself
  BY DEF IInv
<1>1. PICK S : stack \in Seq(S)
  BY <1>0 DEF Frames
<1>2. /\ Len(stack) \in Nat /\ Len(stack) > 0
      /\ DOMAIN stack = 1 .. Len(stack)
  BY <1>0, StackIsSequence
<1> DEFINE rest == Len(stack) - 1
<1>3. /\ stack' \in Seq(S)
      /\ Len(stack') = rest
      /\ \A i \in 1 .. rest : stack'[i] = stack[i]
  BY <1>1, <1>2, SubSeqProperties DEF Front
<1>4. DOMAIN stack' = 1 .. rest
  BY <1>3
<1>5. Frames'
  BY <1>0, <1>2, <1>3 DEF Frames
<1>6. \A i, j \in DOMAIN stack' : stack'[i].file = stack'[j].file => i = j
  BY <1>0, <1>2, <1>3, <1>4 DEF NeverInsideItself
<1>7. \A f : f \in active_files' <=> f \in {stack'[i].file : i \in DOMAIN stack'}
  <2> TAKE f
  <2>1. f \in {stack'[i].file : i \in DOMAIN stack'} <=> \E i \in 1 .. rest : stack[i].file = f
    BY <1>3, <1>4
  <2>2. f \in active_files <=> \E i \in 1 .. Len(stack) : stack[i].file = f
    BY <1>0, <1>2 DEF NeverInsideItself
  <2>3. ASSUME NEW i \in 1 .. rest PROVE stack[i].file # stack[Len(stack)].file
    <3> DEFINE n == Len(stack)
    <3>1. n \in Nat /\ n > 0 /\ DOMAIN stack = 1 .. n /\ i \in 1 .. n - 1
      BY <1>2
    <3> HIDE DEF n
    <3>2. i \in 1 .. n /\ n \in 1 .. n /\ i # n
      BY <3>1
    <3>3. i \in DOMAIN stack /\ Len(stack) \in DOMAIN stack /\ i # Len(stack)
      BY <3>1, <3>2 DEF n
    <3> QED
      BY <1>0, <3>3 DEF NeverInsideItself
  <2>4. /\ \A i \in 1 .. Len(stack) : i \in 1 .. rest \/ i = Len(stack)
        /\ 1 .. rest \subseteq 1 .. Len(stack)
    <3> DEFINE n == Len(stack)
    <3>1. n \in Nat /\ n > 0
      BY <1>2
    <3> HIDE DEF n
    <3>2. (\A i \in 1 .. n : i \in 1 .. n - 1 \/ i = n) /\ 1 .. n - 1 \subseteq 1 .. n
      BY <3>1
    <3> QED
      BY <3>2 DEF n
  <2>5. f \in active_files' <=> f \in active_files /\ f # stack[Len(stack)].file
    BY DEF Top
  <2>6. (f \in active_files /\ f # stack[Len(stack)].file)
           <=> \E i \in 1 .. rest : stack[i].file = f
    BY <2>2, <2>3, <2>4
  <2> QED
    BY <2>1, <2>5, <2>6
<1> QED
  BY <1>5, <1>6, <1>7 DEF IInv, NeverInsideItself

-----------------------------------------------------------------------------
LEMMA InitIInv == Init => IInv
<1> SUFFICES ASSUME Init PROVE IInv
  OBVIOUS
<1>1. stack = <<>> /\ Len(stack) = 0 /\ DOMAIN stack = {} /\ active_files = {}
  BY DEF Init
<1>2. stack \in Seq({})
  BY <1>1, EmptySeq
<1>3. Frames
  BY <1>1, <1>2 DEF Frames
<1> QED
  BY <1>1, <1>3 DEF IInv, NeverInsideItself

\* What the directives do to the frame leaves it a record with the same file.
LEMMA FrameOfGroups ==
    ASSUME "file" \in DOMAIN Top
    PROVE  /\ \A groups, active :
                 LET frame == [Top EXCEPT !.groups = groups, !.active = active]
                 IN  "file" \in DOMAIN frame /\ frame.file = Top.file
           /\ \A group, active :
                 "file" \in DOMAIN WithGroup(group, active) /\ WithGroup(group, active).file = Top.file
BY DEF WithGroup

LEMMA NextIInv == IInv /\ [Next]_vars => IInv'
<1> SUFFICES ASSUME IInv, [Next]_vars PROVE IInv'
  OBVIOUS
<1>1. CASE GiveDefinition
  BY <1>1, NothingChanges DEF GiveDefinition, Fail
<1>2. CASE StartFiles
  BY <1>2, NothingChanges DEF StartFiles
<1>3. CASE NextUnit
  <2>1. CASE UNCHANGED <<stack, active_files>>
    BY <2>1, NothingChanges
  <2>2. CASE ~UNCHANGED <<stack, active_files>>
    <3>1. /\ stack = <<>> /\ stack' = <<Frame(index)>>
          /\ active_files' = active_files \union {index}
      BY <1>3, <2>2 DEF NextUnit, Fail
    <3>2. Len(stack) = 0 /\ stack' = Append(stack, Frame(index)) /\ DOMAIN stack = {}
      BY <3>1
    <3>3. index \notin active_files
      BY <3>2 DEF IInv, NeverInsideItself
    <3> QED
      BY <3>1, <3>2, <3>3, FileOpens DEF IInv, Frames
  <2> QED
    BY <2>1, <2>2
<1>4. CASE Finish
  BY <1>4, NothingChanges DEF Finish
<1>5. CASE EndOfFile
  BY <1>5, NothingChanges, FileCloses DEF EndOfFile, Fail
<1>6. ASSUME stack # <<>> PROVE "file" \in DOMAIN Top
  BY <1>6, StackIsSequence DEF IInv
<1>7. CASE OpenGroup
  <2>1. PICK groups, active, ok : LineDone(ok, [Top EXCEPT !.groups = groups, !.active = active], <<Newline>>)
    BY <1>7 DEF OpenGroup, Directive
  <2> QED
    BY <1>6, <1>7, <2>1, FrameOfGroups, LineKeepsFiles DEF OpenGroup, Read
<1>8. CASE ElseIf
  <2>1. CASE LineDone(FALSE, Top, <<Newline>>)
    BY <1>6, <1>8, <2>1, LineKeepsFiles DEF ElseIf, Read
  <2>2. CASE \E ok, group, active : LineDone(ok, WithGroup(group, active), <<Newline>>)
    BY <1>6, <1>8, <2>2, FrameOfGroups, LineKeepsFiles DEF ElseIf, Read
  <2> QED
    BY <1>8, <2>1, <2>2 DEF ElseIf, Directive
<1>9. CASE Else
  <2>1. CASE LineDone(FALSE, Top, <<Newline>>)
    BY <1>6, <1>9, <2>1, LineKeepsFiles DEF Else, Read
  <2>2. CASE \E ok, group, active : LineDone(ok, WithGroup(group, active), <<Newline>>)
    BY <1>6, <1>9, <2>2, FrameOfGroups, LineKeepsFiles DEF Else, Read
  <2> QED
    BY <1>9, <2>1, <2>2 DEF Else, Directive
<1>10. CASE EndIf
  <2>1. CASE LineDone(FALSE, Top, <<Newline>>)
    BY <1>6, <1>10, <2>1, LineKeepsFiles DEF EndIf, Read
  <2>2. CASE \E groups, active :
               LineDone(TRUE, [Top EXCEPT !.groups = groups, !.active = active], <<Newline>>)
    BY <1>6, <1>10, <2>2, FrameOfGroups, LineKeepsFiles DEF EndIf, Read
  <2> QED
    BY <1>10, <2>1, <2>2 DEF EndIf, Directive
<1>11. CASE DefineMacro
  BY <1>6, <1>11, LineKeepsFiles DEF DefineMacro, Active, Read, Directive
<1>12. CASE UndefineMacro
  BY <1>6, <1>12, LineKeepsFiles DEF UndefineMacro, Active, Read, Directive
<1>13. CASE PragmaOnce
  BY <1>6, <1>13, LineKeepsFiles DEF PragmaOnce, Active, Read, Directive
<1>14. CASE Refused
  BY <1>6, <1>14, LineKeepsFiles DEF Refused, Active, Read, Directive
<1>15. CASE Include
  <2>0. stack # <<>>
    BY <1>15 DEF Include, Active, Read
  <2>1. CASE \E ok : LineDone(ok, Top, <<Newline>>) /\ UNCHANGED active_files
    BY <1>6, <2>0, <2>1, LineKeepsFiles
  <2>2. CASE /\ Included \notin active_files
             /\ stack' = Append(Advanced(Top), Frame(Included))
             /\ active_files' = active_files \union {Included}
    <3> DEFINE after == [Top EXCEPT !.position = @ + 1]
    <3>1. PICK S : stack \in Seq(S)
      BY DEF IInv, Frames
    <3>2. Len(stack) \in Nat /\ DOMAIN stack = 1 .. Len(stack) /\ Len(stack) > 0
      BY <2>0, StackIsSequence DEF IInv
    <3>3. "file" \in DOMAIN after /\ after.file = Top.file
      BY <1>6, <2>0
    <3>4. Advanced(Top) = [stack EXCEPT ![Len(stack)] = after]
      BY DEF Advanced
    <3> HIDE DEF after
    <3>5. stack \in Seq(S \union {after})
      BY <3>1, SeqMonotonic
    <3>6. Advanced(Top) \in Seq(S \union {after}) /\ Len(Advanced(Top)) = Len(stack)
      BY <3>2, <3>4, <3>5, ExceptSeq
    <3>7. \A i \in 1 .. Len(stack) :
              "file" \in DOMAIN Advanced(Top)[i] /\ Advanced(Top)[i].file = stack[i].file
      BY <3>2, <3>3, <3>4 DEF Top, IInv, Frames
    <3> QED
      BY <2>2, <3>6, <3>7, FileOpens
  <2>3. Included \notin active_files \/ Included \in once_files \/ Refuses(Included)
    BY DEF Refuses
  <2> QED
    BY <1>15, <2>1, <2>2, <2>3 DEF Include, Directive
<1>16. CASE Text
  BY <1>6, <1>16, LineKeepsFiles DEF Text, Active, Read
<1>17. CASE SkipLine
  BY <1>6, <1>17, LineKeepsFiles DEF SkipLine, Read
<1>18. CASE UNCHANGED vars
  BY <1>18, NothingChanges DEF vars
<1> QED
  BY <1>1, <1>2, <1>3, <1>4, <1>5, <1>7, <1>8, <1>9, <1>10, <1>11, <1>12, <1>13, <1>14,
     <1>15, <1>16, <1>17, <1>18 DEF Next

\* However the files of a project include one another, none is read inside
\* itself: dyn_process_file marks, tests and unmarks in step with its calls.
THEOREM IncludesNeverReenter == Spec => []NeverInsideItself
<1>1. IInv => NeverInsideItself
  BY DEF IInv
<1> QED
  BY InitIInv, NextIInv, <1>1, PTL DEF Spec

-----------------------------------------------------------------------------
(* Conditional groups.  A file's groups nest as its lines do, and a line is  *)
(* read only where every branch around it was taken.                         *)

\* How many groups the first n lines leave open.
Opened(lines, n) == {p \in 1 .. n : lines[p].is \in Openers}
Closed(lines, n) == {p \in 1 .. n : lines[p].is = "endif"}
Depth(lines, n) == Cardinality(Opened(lines, n)) - Cardinality(Closed(lines, n))
Turn(line) == IF line.is \in Openers THEN 1 ELSE IF line.is = "endif" THEN -1 ELSE 0

\* The branch being read is the one that was chosen.
InForce(group) == group.parent /\ group.taken

FrameFields == {"file", "position", "active", "groups"}
GroupFields == {"parent", "taken", "seen_else"}

\* A frame's groups: each lies in a branch in force of those around it, or is
\* passed over with them.
Nested(f) ==
    /\ \E S : f.groups \in Seq(S)
    /\ \A i \in 1 .. Len(f.groups) : GroupFields \subseteq DOMAIN f.groups[i]
    /\ f.active => \A i \in 1 .. Len(f.groups) : InForce(f.groups[i])
    /\ \A i \in 1 .. Len(f.groups) :
          f.groups[i].parent => \A j \in 1 .. i - 1 : InForce(f.groups[j])
    /\ Len(f.groups) = 0 => f.active
    /\ Len(f.groups) > 0 => f.groups[1].parent

\* A file half-way: as many groups as its lines so far left open.
FrameOK(files, f) ==
    /\ FrameFields \subseteq DOMAIN f
    /\ f.file \in DOMAIN files
    /\ f.position \in 1 .. Len(files[f.file].lines) + 1
    /\ Len(f.groups) <= MaxDepth
    /\ \A n \in 0 .. f.position - 1 : Depth(files[f.file].lines, n) >= 0
    /\ Len(f.groups) = Depth(files[f.file].lines, f.position - 1)
    /\ Nested(f)

LEMMA CountTo ==
    ASSUME NEW S, NEW n \in Nat
    PROVE  /\ Cardinality({p \in 1 .. n : p \in S}) \in Nat
           /\ Cardinality({p \in 1 .. n + 1 : p \in S})
                = Cardinality({p \in 1 .. n : p \in S}) + (IF n + 1 \in S THEN 1 ELSE 0)
<1> DEFINE T == {p \in 1 .. n : p \in S}
           U == {p \in 1 .. n + 1 : p \in S}
<1>1. IsFiniteSet(1 .. n)
  BY FS_Interval
<1>2. IsFiniteSet(T) /\ Cardinality(T) \in Nat
  BY <1>1, FS_Subset, FS_CardinalityType
<1>3. CASE n + 1 \in S
  <2>1. U = T \union {n + 1} /\ n + 1 \notin T
    BY <1>3
  <2>2. Cardinality(U) = Cardinality(T) + 1
    BY <1>2, <2>1, FS_AddElement
  <2> QED
    BY <1>2, <1>3, <2>2
<1>4. CASE n + 1 \notin S
  <2>1. U = T
    BY <1>4
  <2> QED
    BY <1>2, <1>4, <2>1
<1> QED
  BY <1>3, <1>4

\* A line opens a group, closes one or leaves them.
LEMMA DepthSteps ==
    ASSUME NEW lines, NEW n \in Nat
    PROVE  /\ Depth(lines, 0) = 0
           /\ Depth(lines, n) \in Int
           /\ Depth(lines, n + 1) = Depth(lines, n) + Turn(lines[n + 1])
<1> DEFINE O == {p \in 1 .. n + 1 : lines[p].is \in Openers}
           C == {p \in 1 .. n + 1 : lines[p].is = "endif"}
<1>1. /\ Opened(lines, n) = {p \in 1 .. n : p \in O}
      /\ Opened(lines, n + 1) = {p \in 1 .. n + 1 : p \in O}
      /\ Closed(lines, n) = {p \in 1 .. n : p \in C}
      /\ Closed(lines, n + 1) = {p \in 1 .. n + 1 : p \in C}
  BY DEF Opened, Closed
<1>2. /\ n + 1 \in O <=> lines[n + 1].is \in Openers
      /\ n + 1 \in C <=> lines[n + 1].is = "endif"
  OBVIOUS
<1> HIDE DEF O, C
<1>3. /\ Cardinality(Opened(lines, n)) \in Nat /\ Cardinality(Closed(lines, n)) \in Nat
      /\ Cardinality(Opened(lines, n + 1))
           = Cardinality(Opened(lines, n)) + (IF n + 1 \in O THEN 1 ELSE 0)
      /\ Cardinality(Closed(lines, n + 1))
           = Cardinality(Closed(lines, n)) + (IF n + 1 \in C THEN 1 ELSE 0)
  BY <1>1, CountTo
<1>4. Depth(lines, 0) = 0
  <2>1. Opened(lines, 0) = {} /\ Closed(lines, 0) = {}
    BY DEF Opened, Closed
  <2> QED
    BY <2>1, FS_EmptySet DEF Depth
<1>5. "endif" \notin Openers
  BY DEF Openers
<1> QED
  BY <1>2, <1>3, <1>4, <1>5 DEF Depth, Turn

\* A frame that goes on past its line.
LEMMA FrameAdvances ==
    ASSUME NEW files, NEW f, NEW g, FrameOK(files, f),
           Len(files[f.file].lines) \in Nat,
           f.position <= Len(files[f.file].lines),
           FrameFields \subseteq DOMAIN g, g.file = f.file, g.position = f.position + 1,
           Len(g.groups) <= MaxDepth,
           Len(g.groups) = Len(f.groups) + Turn(files[f.file].lines[f.position]),
           Nested(g)
    PROVE  FrameOK(files, g)
<1> DEFINE lines == files[f.file].lines
           n == f.position - 1
<1>1. n \in Nat /\ f.position = n + 1 /\ g.position - 1 = n + 1 /\ n + 1 <= Len(lines)
      /\ f.position \in Nat
  BY DEF FrameOK
<1>2. g.position \in 1 .. Len(files[g.file].lines) + 1
  BY <1>1
<1>3. Len(g.groups) \in Nat
  <2>1. PICK S : g.groups \in Seq(S)
    BY DEF Nested
  <2> QED
    BY <2>1, LenProperties
<1>4. Depth(lines, n + 1) = Depth(lines, n) + Turn(lines[n + 1])
  BY <1>1, DepthSteps
<1>5. Len(g.groups) = Depth(lines, n + 1)
  BY <1>1, <1>4 DEF FrameOK
<1>6. ASSUME NEW m \in 0 .. g.position - 1 PROVE Depth(lines, m) >= 0
  <2>1. CASE m = n + 1
    BY <1>3, <1>5, <2>1
  <2>2. CASE m # n + 1
    <3>1. m \in 0 .. f.position - 1
      BY <1>1, <2>2
    <3> QED
      BY <3>1 DEF FrameOK
  <2> QED
    BY <2>1, <2>2
<1> QED
  BY <1>1, <1>2, <1>5, <1>6 DEF FrameOK

\* The innermost group of a frame that is in one.
Innermost(f) == f.groups[Len(f.groups)]

\* The frame after a line that neither opens a group nor closes one, nor is
\* another branch of one.
LEMMA FrameStays ==
    ASSUME NEW files, NEW f, NEW g, FrameOK(files, f),
           Len(files[f.file].lines) \in Nat,
           f.position <= Len(files[f.file].lines),
           Turn(files[f.file].lines[f.position]) = 0,
           FrameFields \subseteq DOMAIN g, g.file = f.file, g.position = f.position + 1,
           g.groups = f.groups, g.active = f.active
    PROVE  FrameOK(files, g)
<1>1. Nested(g)
  BY DEF FrameOK, Nested
<1>2. Len(g.groups) \in Nat
  <2>1. PICK S : g.groups \in Seq(S)
    BY <1>1 DEF Nested
  <2> QED
    BY <2>1, LenProperties
<1>3. Len(g.groups) <= MaxDepth
      /\ Len(g.groups) = Len(f.groups) + Turn(files[f.file].lines[f.position])
  BY <1>2 DEF FrameOK
<1> QED
  BY <1>1, <1>3, FrameAdvances

\* After #if, #ifdef or #ifndef.
LEMMA FrameOpens ==
    ASSUME NEW files, NEW f, NEW g, NEW group, FrameOK(files, f),
           Len(files[f.file].lines) \in Nat,
           f.position <= Len(files[f.file].lines),
           Turn(files[f.file].lines[f.position]) = 1,
           Len(f.groups) < MaxDepth,
           GroupFields \subseteq DOMAIN group, group.parent = f.active,
           FrameFields \subseteq DOMAIN g, g.file = f.file, g.position = f.position + 1,
           g.groups = Append(f.groups, group), g.active => InForce(group)
    PROVE  FrameOK(files, g)
<1>1. Nested(f)
  BY DEF FrameOK
<1>2. PICK S : f.groups \in Seq(S)
  BY <1>1 DEF Nested
<1> DEFINE n == Len(f.groups)
           h == Append(f.groups, group)
<1>3. n \in Nat
  BY <1>2, LenProperties
<1>4. f.groups \in Seq(S \union {group})
  BY <1>2, SeqMonotonic
<1>5. /\ h \in Seq(S \union {group}) /\ Len(h) = n + 1 /\ h[n + 1] = group
      /\ \A i \in 1 .. n : h[i] = f.groups[i]
  BY <1>4, AppendProperties
<1> HIDE DEF h
<1>6. g.groups = h
  BY DEF h
<1>7. \A i \in 1 .. n + 1 : i \in 1 .. n \/ i = n + 1
  BY <1>3
<1>8. group.parent => \A i \in 1 .. n : InForce(h[i])
  BY <1>1, <1>5 DEF Nested
<1>9. ASSUME NEW i \in 1 .. n + 1, h[i].parent, NEW j \in 1 .. i - 1 PROVE InForce(h[j])
  <2>1. j \in 1 .. n
    BY <1>3
  <2>2. CASE i = n + 1
    BY <1>5, <1>8, <1>9, <2>1, <2>2
  <2>3. CASE i \in 1 .. n
    BY <1>1, <1>5, <1>9, <2>1, <2>3 DEF Nested
  <2> QED
    BY <1>7, <2>2, <2>3
<1>10. h[1].parent
  <2>1. CASE n = 0
    BY <1>1, <1>5, <2>1 DEF Nested
  <2>2. CASE n > 0
    <3>1. 1 \in 1 .. n
      BY <1>3, <2>2
    <3> QED
      BY <1>1, <1>5, <2>2, <3>1 DEF Nested
  <2> QED
    BY <1>3, <2>1, <2>2
<1>11. \A i \in 1 .. n + 1 : GroupFields \subseteq DOMAIN h[i]
  BY <1>1, <1>5, <1>7 DEF Nested
<1>12. g.active => \A i \in 1 .. n + 1 : InForce(h[i])
  <2> SUFFICES ASSUME g.active, NEW i \in 1 .. n + 1 PROVE InForce(h[i])
    OBVIOUS
  <2>1. InForce(group) /\ group.parent
    BY DEF InForce
  <2> QED
    BY <1>5, <1>7, <1>8, <2>1
<1>13. Nested(g)
  BY <1>3, <1>5, <1>6, <1>9, <1>10, <1>11, <1>12 DEF Nested
<1>14. Len(g.groups) <= MaxDepth /\ Len(g.groups) = n + 1
  BY <1>3, <1>5, <1>6, DepthAssumption
<1> QED
  BY <1>13, <1>14, FrameAdvances

\* After #elif or #else.
LEMMA FrameTurns ==
    ASSUME NEW files, NEW f, NEW g, NEW group, FrameOK(files, f),
           Len(files[f.file].lines) \in Nat,
           f.position <= Len(files[f.file].lines),
           Turn(files[f.file].lines[f.position]) = 0,
           f.groups # <<>>,
           GroupFields \subseteq DOMAIN group, group.parent = Innermost(f).parent,
           FrameFields \subseteq DOMAIN g, g.file = f.file, g.position = f.position + 1,
           g.groups = Append(Front(f.groups), group), g.active => InForce(group)
    PROVE  FrameOK(files, g)
<1>1. Nested(f)
  BY DEF FrameOK
<1>2. PICK S : f.groups \in Seq(S)
  BY <1>1 DEF Nested
<1> DEFINE n == Len(f.groups)
           h == Append(Front(f.groups), group)
<1>3. n \in Nat /\ n > 0
  BY <1>2, LenProperties, EmptySeq
<1>4. /\ Front(f.groups) \in Seq(S) /\ Len(Front(f.groups)) = n - 1
      /\ \A i \in 1 .. n - 1 : Front(f.groups)[i] = f.groups[i]
  BY <1>2, <1>3, SubSeqProperties DEF Front
<1>5. Front(f.groups) \in Seq(S \union {group})
  BY <1>4, SeqMonotonic
<1>6. /\ h \in Seq(S \union {group}) /\ Len(h) = n /\ h[n] = group
      /\ \A i \in 1 .. n - 1 : h[i] = f.groups[i]
  BY <1>3, <1>4, <1>5, AppendProperties
<1> HIDE DEF h
<1>7. g.groups = h
  BY DEF h
<1>8. n \in 1 .. n /\ \A i \in 1 .. n : i \in 1 .. n - 1 \/ i = n
  BY <1>3
<1>9. group.parent => \A i \in 1 .. n - 1 : InForce(h[i])
  BY <1>1, <1>6, <1>8 DEF Nested, Innermost
<1>10. ASSUME NEW i \in 1 .. n, h[i].parent, NEW j \in 1 .. i - 1 PROVE InForce(h[j])
  <2>1. j \in 1 .. n - 1
    BY <1>3
  <2>2. CASE i = n
    BY <1>6, <1>9, <1>10, <2>1, <2>2
  <2>3. CASE i \in 1 .. n - 1
    <3>1. f.groups[i].parent
      BY <1>6, <1>10, <2>3
    <3>2. InForce(f.groups[j])
      BY <1>1, <3>1 DEF Nested
    <3> QED
      BY <1>6, <2>1, <3>2
  <2> QED
    BY <1>8, <2>2, <2>3
<1>11. h[1].parent
  <2>1. f.groups[1].parent
    BY <1>1, <1>3 DEF Nested
  <2>2. CASE n = 1
    BY <1>6, <2>1, <2>2 DEF Innermost
  <2>3. CASE n > 1
    <3>1. 1 \in 1 .. n - 1
      BY <1>3, <2>3
    <3> QED
      BY <1>6, <2>1, <3>1
  <2>4. n \in Nat /\ n > 0
    BY <1>3
  <2> HIDE DEF n
  <2>5. n = 1 \/ n > 1
    BY <2>4
  <2> QED
    BY <2>2, <2>3, <2>5
<1>12. \A i \in 1 .. n : GroupFields \subseteq DOMAIN h[i]
  BY <1>1, <1>6, <1>8 DEF Nested
<1>13. g.active => \A i \in 1 .. n : InForce(h[i])
  <2> SUFFICES ASSUME g.active, NEW i \in 1 .. n PROVE InForce(h[i])
    OBVIOUS
  <2>1. InForce(group) /\ group.parent
    BY DEF InForce
  <2> QED
    BY <1>6, <1>8, <1>9, <2>1
<1>14. Nested(g)
  BY <1>3, <1>6, <1>7, <1>10, <1>11, <1>12, <1>13 DEF Nested
<1>15. Len(g.groups) <= MaxDepth /\ Len(g.groups) = n + Turn(files[f.file].lines[f.position])
  BY <1>3, <1>6, <1>7 DEF FrameOK
<1> QED
  BY <1>14, <1>15, FrameAdvances

\* After #endif.
LEMMA FrameCloses ==
    ASSUME NEW files, NEW f, NEW g, FrameOK(files, f),
           Len(files[f.file].lines) \in Nat,
           f.position <= Len(files[f.file].lines),
           Turn(files[f.file].lines[f.position]) = -1,
           f.groups # <<>>,
           FrameFields \subseteq DOMAIN g, g.file = f.file, g.position = f.position + 1,
           g.groups = Front(f.groups), g.active = Innermost(f).parent
    PROVE  FrameOK(files, g)
<1>1. Nested(f)
  BY DEF FrameOK
<1>2. PICK S : f.groups \in Seq(S)
  BY <1>1 DEF Nested
<1> DEFINE n == Len(f.groups)
           h == Front(f.groups)
<1>3. n \in Nat /\ n > 0
  BY <1>2, LenProperties, EmptySeq
<1>4. h \in Seq(S) /\ Len(h) = n - 1 /\ \A i \in 1 .. n - 1 : h[i] = f.groups[i]
  BY <1>2, <1>3, SubSeqProperties DEF Front
<1> HIDE DEF h
<1>5. g.groups = h
  BY DEF h
<1>6. n \in 1 .. n /\ \A i \in 1 .. n - 1 : i \in 1 .. n
  BY <1>3
<1>7. g.active => \A i \in 1 .. n - 1 : InForce(h[i])
  BY <1>1, <1>4, <1>6 DEF Nested, Innermost
<1>8. ASSUME NEW i \in 1 .. n - 1, h[i].parent, NEW j \in 1 .. i - 1 PROVE InForce(h[j])
  <2>1. j \in 1 .. n - 1
    BY <1>3
  <2>2. f.groups[i].parent
    BY <1>4, <1>8
  <2>3. InForce(f.groups[j])
    BY <1>1, <1>6, <2>2 DEF Nested
  <2> QED
    BY <1>4, <2>1, <2>3
<1>9. n - 1 > 0 => h[1].parent
  <2> SUFFICES ASSUME n - 1 > 0 PROVE h[1].parent
    OBVIOUS
  <2>1. 1 \in 1 .. n - 1
    BY <1>3
  <2> QED
    BY <1>1, <1>3, <1>4, <2>1 DEF Nested
<1>10. n - 1 = 0 => g.active
  BY <1>1, <1>3 DEF Nested, Innermost
<1>11. \A i \in 1 .. n - 1 : GroupFields \subseteq DOMAIN h[i]
  BY <1>1, <1>4, <1>6 DEF Nested
<1>12. Nested(g)
  BY <1>4, <1>5, <1>7, <1>8, <1>9, <1>10, <1>11 DEF Nested
<1>13. Len(g.groups) <= MaxDepth /\ Len(g.groups) = n + Turn(files[f.file].lines[f.position])
  BY <1>3, <1>4, <1>5, DepthAssumption DEF FrameOK
<1> QED
  BY <1>12, <1>13, FrameAdvances

-----------------------------------------------------------------------------
(* The stack of files.                                                       *)

\* A set of natural numbers has a least element.
LEMMA LeastNatural ==
  ASSUME NEW S \in SUBSET Nat, S # {}
  PROVE  \E m \in S : \A n \in S : m <= n
<1> DEFINE family == {0 .. n : n \in S}
           R == StrictSubsetOrdering(Nat)
<1>1. IsWellFoundedOn(R, FiniteSubsetsOf(Nat))
  BY FS_StrictSubsetOrderingWellFounded
<1>2. \A n \in S : 0 .. n \in FiniteSubsetsOf(Nat)
  BY FS_Interval DEF FiniteSubsetsOf
<1>3. family \subseteq FiniteSubsetsOf(Nat) /\ family # {}
  BY <1>2
<1> HIDE DEF R
<1>4. \E x \in family : \A y \in family : ~ (<<y, x>> \in R)
  BY <1>1, <1>3, WFMin
<1>5. PICK m \in S : \A n \in S : ~ (<<0 .. n, 0 .. m>> \in R)
  BY <1>4
<1>6. ASSUME NEW n \in S, n < m
      PROVE  FALSE
  <2>1. /\ 0 .. n \in SUBSET Nat /\ 0 .. m \in SUBSET Nat
        /\ 0 .. n \subseteq 0 .. m /\ m \in 0 .. m /\ m \notin 0 .. n
    BY <1>6
  <2>2. <<0 .. n, 0 .. m>> \in R
    BY <2>1 DEF R, StrictSubsetOrdering
  <2> QED
    BY <1>5, <2>2
<1> QED
  BY <1>6

\* A project is lists of files, definitions and roots.
ProjectOK ==
    /\ \E S : project.files \in Seq(S)
    /\ \E S : project.definitions \in Seq(S)
    /\ \E S : project.roots \in Seq(S)
    /\ \A f \in DOMAIN project.files : \E S : project.files[f].lines \in Seq(S)

\* Every file being read is half-way, and each but the innermost waits at a
\* line that is read.
StackOK ==
    /\ ProjectOK /\ index \in Nat \ {0}
    /\ \E S : stack \in Seq(S)
    /\ Len(stack) <= MaxDepth
    /\ \A i \in 1 .. Len(stack) : FrameOK(project.files, stack[i])
    /\ \A i \in 1 .. Len(stack) - 1 : stack[i].active

\* The file and the line at hand.
LEMMA TopFacts ==
    ASSUME StackOK
    PROVE  /\ Len(stack) \in Nat /\ DOMAIN stack = 1 .. Len(stack)
           /\ Len(project.files) \in Nat /\ DOMAIN project.files = 1 .. Len(project.files)
           /\ Len(project.definitions) \in Nat
           /\ stack # <<>> =>
                /\ Len(stack) > 0 /\ FrameOK(project.files, Top)
                /\ Len(project.files[Top.file].lines) \in Nat
                /\ Top.position \in Nat /\ Top.position > 0
<1>1. PICK S : stack \in Seq(S)
  BY DEF StackOK
<1>2. Len(stack) \in Nat /\ DOMAIN stack = 1 .. Len(stack)
  BY <1>1, LenProperties
<1>3. PICK F : project.files \in Seq(F)
  BY DEF StackOK, ProjectOK
<1>4. Len(project.files) \in Nat /\ DOMAIN project.files = 1 .. Len(project.files)
  BY <1>3, LenProperties
<1>5. PICK D : project.definitions \in Seq(D)
  BY DEF StackOK, ProjectOK
<1>6. Len(project.definitions) \in Nat
  BY <1>5, LenProperties
<1>7. ASSUME stack # <<>>
      PROVE  /\ Len(stack) > 0 /\ FrameOK(project.files, Top)
             /\ Len(project.files[Top.file].lines) \in Nat
             /\ Top.position \in Nat /\ Top.position > 0
  <2>1. Len(stack) > 0
    BY <1>1, <1>2, <1>7, EmptySeq
  <2>2. Len(stack) \in 1 .. Len(stack)
    BY <1>2, <2>1
  <2>3. FrameOK(project.files, Top)
    BY <2>2 DEF StackOK, Top
  <2>4. PICK L : project.files[Top.file].lines \in Seq(L)
    BY <2>3 DEF StackOK, ProjectOK, FrameOK
  <2>5. Len(project.files[Top.file].lines) \in Nat
    BY <2>4, LenProperties
  <2>6. Top.position \in Nat /\ Top.position > 0
    BY <2>3, <2>5 DEF FrameOK
  <2> QED
    BY <2>1, <2>3, <2>5, <2>6
<1> QED
  BY <1>2, <1>4, <1>6, <1>7

LEMMA FrontFacts ==
    ASSUME NEW S, NEW s \in Seq(S), s # <<>>
    PROVE  /\ Front(s) \in Seq(S) /\ Len(Front(s)) = Len(s) - 1
           /\ \A i \in 1 .. Len(s) - 1 : Front(s)[i] = s[i]
<1> DEFINE n == Len(s)
<1>1. n \in Nat /\ n > 0 /\ \A i \in 1 .. n : s[i] \in S
  BY LenProperties, EmptySeq, ElementOfSeq
<1> HIDE DEF n
<1>2. n - 1 \in Int /\ \A i \in 1 .. n - 1 : i \in 1 .. n /\ s[i] \in S
  BY <1>1
<1>3. /\ SubSeq(s, 1, n - 1) \in Seq(S)
      /\ Len(SubSeq(s, 1, n - 1)) = IF 1 <= n - 1 THEN n - 1 - 1 + 1 ELSE 0
      /\ \A i \in 1 .. n - 1 - 1 + 1 : SubSeq(s, 1, n - 1)[i] = s[1 + i - 1]
  BY <1>2, SubSeqProperties
<1>4. n - 1 - 1 + 1 = n - 1 /\ (~(1 <= n - 1) => n - 1 = 0) /\ \A i \in 1 .. n - 1 : 1 + i - 1 = i
  BY <1>1
<1>5. /\ Len(SubSeq(s, 1, n - 1)) = n - 1
      /\ \A i \in 1 .. n - 1 : SubSeq(s, 1, n - 1)[i] = s[i]
  BY <1>3, <1>4
<1> QED
  BY <1>3, <1>5 DEF Front, n

LEMMA Below ==
    ASSUME NEW n \in Nat
    PROVE  /\ \A i \in 1 .. n - 1 : i \in 1 .. n /\ i # n
           /\ \A i \in 1 .. n : i \in 1 .. n - 1 \/ i = n
           /\ n > 0 => n \in 1 .. n /\ n - 1 \in Nat
OBVIOUS

\* The innermost frame goes on as g.
LEMMA StackAdvances ==
    ASSUME StackOK, stack # <<>>, NEW g, FrameOK(project.files, g),
           stack' = [stack EXCEPT ![Len(stack)] = g],
           project' = project, index' = index
    PROVE  StackOK'
<1> DEFINE n == Len(stack)
<1>1. n \in Nat /\ n > 0 /\ DOMAIN stack = 1 .. n
  BY TopFacts
<1>2. PICK S : stack \in Seq(S)
  BY DEF StackOK
<1>3. stack \in Seq(S \union {g})
  BY <1>2, SeqMonotonic
<1>4. stack' \in Seq(S \union {g}) /\ Len(stack') = n
  BY <1>1, <1>3, ExceptSeq
<1>5. stack'[n] = g /\ \A i \in 1 .. n : i # n => stack'[i] = stack[i]
  <2>1. n \in DOMAIN stack /\ stack' = [stack EXCEPT ![n] = g]
    BY <1>1, Below
  <2> QED
    BY ONLY <1>1, <2>1
<1>6. n <= MaxDepth /\ \A i \in 1 .. n : FrameOK(project.files, stack'[i])
  BY <1>5 DEF StackOK
<1>7. \A i \in 1 .. n - 1 : i \in 1 .. n /\ i # n
  BY <1>1, Below
<1>8. \A i \in 1 .. n - 1 : stack'[i].active
  BY <1>5, <1>7 DEF StackOK
<1>9. ProjectOK' /\ index' \in Nat \ {0}
  BY DEF StackOK, ProjectOK
<1> QED
  BY <1>4, <1>6, <1>8, <1>9 DEF StackOK

\* A file before its first line.
LEMMA FrameStarts ==
    ASSUME ProjectOK, NEW file \in DOMAIN project.files
    PROVE  FrameOK(project.files, Frame(file)) /\ Frame(file).active
<1> DEFINE g == Frame(file)
           lines == project.files[file].lines
<1>1. /\ g.file = file /\ g.position = 1 /\ g.active = TRUE /\ g.groups = <<>>
      /\ FrameFields \subseteq DOMAIN g
  BY DEF Frame, FrameFields
<1> HIDE DEF g
<1>2. PICK L : lines \in Seq(L)
  BY DEF ProjectOK
<1>3. Len(lines) \in Nat
  BY <1>2, LenProperties
<1>4. g.position \in 1 .. Len(lines) + 1 /\ g.position - 1 = 0
  BY <1>1, <1>3
<1>5. Depth(lines, 0) = 0
  BY DepthSteps
<1>6. Len(g.groups) = 0 /\ g.groups \in Seq({})
  BY <1>1
<1>7. Nested(g)
  BY <1>1, <1>6 DEF Nested
<1>8. \A n \in 0 .. g.position - 1 : Depth(lines, n) >= 0
  BY <1>4, <1>5
<1> QED
  BY <1>1, <1>4, <1>5, <1>6, <1>7, <1>8, DepthAssumption DEF FrameOK, g

\* A file is opened above base, the stack whose innermost line is done.
LEMMA StackGrows ==
    ASSUME ProjectOK, index \in Nat \ {0}, NEW base, \E S : base \in Seq(S),
           Len(base) < MaxDepth,
           \A i \in 1 .. Len(base) : FrameOK(project.files, base[i]) /\ base[i].active,
           NEW file \in DOMAIN project.files,
           stack' = Append(base, Frame(file)),
           project' = project, index' \in Nat \ {0}
    PROVE  StackOK'
<1>1. PICK S : base \in Seq(S)
  OBVIOUS
<1> DEFINE n == Len(base)
<1>2. n \in Nat
  BY <1>1, LenProperties
<1>3. base \in Seq(S \union {Frame(file)})
  BY <1>1, SeqMonotonic
<1>4. /\ stack' \in Seq(S \union {Frame(file)}) /\ Len(stack') = n + 1
      /\ stack'[n + 1] = Frame(file) /\ \A i \in 1 .. n : stack'[i] = base[i]
  BY <1>3, AppendProperties
<1>5. FrameOK(project.files, Frame(file))
  BY FrameStarts
<1>6. \A i \in 1 .. n + 1 : i \in 1 .. n \/ i = n + 1
  BY <1>2
<1>7. \A i \in 1 .. n + 1 : FrameOK(project.files, stack'[i])
  BY <1>4, <1>5, <1>6
<1>8. \A i \in 1 .. (n + 1) - 1 : stack'[i].active
  BY <1>2, <1>4
<1>9. ProjectOK'
  BY DEF ProjectOK
<1>10. n + 1 <= MaxDepth
  BY <1>2, DepthAssumption
<1> QED
  BY <1>4, <1>7, <1>8, <1>9, <1>10 DEF StackOK

\* The end of a file.
LEMMA StackShrinks ==
    ASSUME StackOK, stack # <<>>, stack' = Front(stack), project' = project, index' = index
    PROVE  StackOK'
<1> DEFINE n == Len(stack)
<1>1. n \in Nat /\ n > 0
  BY TopFacts
<1>2. PICK S : stack \in Seq(S)
  BY DEF StackOK
<1>3. /\ stack' \in Seq(S) /\ Len(stack') = n - 1
      /\ \A i \in 1 .. n - 1 : stack'[i] = stack[i]
  BY <1>2, FrontFacts
<1>4. /\ \A i \in 1 .. n - 1 : i \in 1 .. n
      /\ \A i \in 1 .. (n - 1) - 1 : i \in 1 .. n - 1
      /\ n <= MaxDepth => n - 1 <= MaxDepth
  BY <1>1, DepthAssumption
<1>5. ProjectOK' /\ index' \in Nat \ {0} /\ n - 1 <= MaxDepth
  BY <1>4 DEF StackOK, ProjectOK
<1>6. \A i \in 1 .. n - 1 : FrameOK(project.files, stack'[i])
  BY <1>3, <1>4 DEF StackOK
<1>7. \A i \in 1 .. (n - 1) - 1 : stack'[i].active
  BY <1>3, <1>4 DEF StackOK
<1> QED
  BY <1>3, <1>5, <1>6, <1>7 DEF StackOK

LEMMA StackSame ==
    ASSUME StackOK, stack' = stack, project' = project, index' \in Nat \ {0}
    PROVE  StackOK'
BY DEF StackOK, ProjectOK

\* The record of a frame after its line.
LEMMA AfterFacts ==
    ASSUME NEW f, FrameFields \subseteq DOMAIN f, NEW groups, NEW active
    PROVE  /\ LET g == [f EXCEPT !.position = @ + 1]
              IN  /\ FrameFields \subseteq DOMAIN g /\ g.file = f.file
                  /\ g.position = f.position + 1 /\ g.groups = f.groups /\ g.active = f.active
           /\ LET h == [f EXCEPT !.groups = groups, !.active = active]
                  g == [h EXCEPT !.position = @ + 1]
              IN  /\ FrameFields \subseteq DOMAIN g /\ g.file = f.file
                  /\ g.position = f.position + 1 /\ g.groups = groups /\ g.active = active
BY DEF FrameFields

PastLine(frame) == [frame EXCEPT !.position = @ + 1]

\* The line at hand is in the file.
LEMMA LineFacts ==
    ASSUME StackOK, NEW kinds, Read(kinds)
    PROVE  /\ stack # <<>> /\ status = "files"
           /\ FrameOK(project.files, Top) /\ FrameFields \subseteq DOMAIN Top
           /\ Len(project.files[Top.file].lines) \in Nat
           /\ Top.position <= Len(project.files[Top.file].lines)
           /\ Line = project.files[Top.file].lines[Top.position]
           /\ Line.is \in kinds
<1>1. stack # <<>> /\ status = "files" /\ Line.is \in kinds
      /\ Top.position <= Len(project.files[Top.file].lines)
  BY DEF Read
<1>2. /\ FrameOK(project.files, Top)
      /\ Len(project.files[Top.file].lines) \in Nat
  BY <1>1, TopFacts
<1> QED
  BY <1>1, <1>2 DEF FrameOK, Line

LEMMA LineKeepsStack ==
    ASSUME StackOK, stack # <<>>,
           NEW ok, NEW frame, NEW text, LineDone(ok, frame, text),
           ok => FrameOK(project.files, PastLine(frame))
    PROVE  StackOK'
<1>1. CASE stack' = stack /\ project' = project /\ index' = index
  BY <1>1, StackSame DEF StackOK
<1>2. CASE ok /\ stack' = Advanced(frame) /\ project' = project /\ index' = index
  BY <1>2, StackAdvances DEF Advanced, PastLine
<1> QED
  BY <1>1, <1>2 DEF LineDone

\* A line of no conditional directive.
LEMMA PlainLine ==
    ASSUME StackOK, NEW kinds, Read(kinds), kinds \intersect (Openers \union {"endif"}) = {}
    PROVE  FrameOK(project.files, PastLine(Top)) /\ PastLine(Top).active = Top.active
<1> DEFINE g == PastLine(Top)
<1>1. FrameFields \subseteq DOMAIN Top
  BY LineFacts
<1>2. /\ FrameFields \subseteq DOMAIN g /\ g.file = Top.file
      /\ g.position = Top.position + 1 /\ g.groups = Top.groups /\ g.active = Top.active
  BY <1>1, AfterFacts DEF PastLine
<1> HIDE DEF g
<1>3. Turn(Line) = 0
  BY LineFacts DEF Turn
<1>4. FrameOK(project.files, g)
  BY <1>2, <1>3, LineFacts, FrameStays
<1> QED
  BY <1>2, <1>4 DEF g

LEMMA PlainKeepsStack ==
    ASSUME StackOK, NEW kinds, Read(kinds), kinds \intersect (Openers \union {"endif"}) = {},
           NEW ok, NEW text, LineDone(ok, Top, text)
    PROVE  StackOK'
BY LineFacts, PlainLine, LineKeepsStack

LEMMA OpenGroupStep ==
    ASSUME StackOK, OpenGroup
    PROVE  StackOK'
<1>1. /\ Read(Openers) /\ stack # <<>> /\ FrameOK(project.files, Top)
      /\ FrameFields \subseteq DOMAIN Top
      /\ Len(project.files[Top.file].lines) \in Nat
      /\ Top.position <= Len(project.files[Top.file].lines)
      /\ Line = project.files[Top.file].lines[Top.position]
      /\ Line.is \in Openers
  BY LineFacts DEF OpenGroup
<1>2. PICK v, valid :
        LineDone(valid /\ Len(Top.groups) < MaxDepth,
                 [Top EXCEPT !.groups = Append(@, [parent |-> Top.active, taken |-> v,
                                                   seen_else |-> FALSE]),
                             !.active = @ /\ v],
                 <<Newline>>)
  BY DEF OpenGroup, Directive
<1> DEFINE group == [parent |-> Top.active, taken |-> v, seen_else |-> FALSE]
           groups == Append(Top.groups, group)
           active == Top.active /\ v
           frame == [Top EXCEPT !.groups = groups, !.active = active]
           g == PastLine(frame)
<1>3. LineDone(valid /\ Len(Top.groups) < MaxDepth, frame, <<Newline>>)
  BY <1>1, <1>2 DEF FrameFields
<1>4. /\ FrameFields \subseteq DOMAIN g /\ g.file = Top.file
      /\ g.position = Top.position + 1 /\ g.groups = groups /\ g.active = active
  BY <1>1, AfterFacts DEF PastLine
<1>5. GroupFields \subseteq DOMAIN group /\ group.parent = Top.active /\ (active => InForce(group))
  BY DEF GroupFields, InForce
<1>6. Turn(Line) = 1
  BY <1>1 DEF Turn
<1> HIDE DEF g, group, active
<1>7. Len(Top.groups) < MaxDepth => FrameOK(project.files, g)
  BY <1>1, <1>4, <1>5, <1>6, FrameOpens
<1> QED
  BY <1>1, <1>3, <1>7, LineKeepsStack DEF g

\* An #elif or #else leaves the innermost group with another branch.
LEMMA BranchStep ==
    ASSUME StackOK, NEW kinds, Read(kinds), kinds \intersect (Openers \union {"endif"}) = {},
           Top.groups # <<>>,
           NEW group, GroupFields \subseteq DOMAIN group, group.parent = Group.parent,
           NEW active, active => InForce(group),
           NEW ok, LineDone(ok, WithGroup(group, active), <<Newline>>)
    PROVE  StackOK'
<1>1. /\ stack # <<>> /\ FrameOK(project.files, Top) /\ FrameFields \subseteq DOMAIN Top
      /\ Len(project.files[Top.file].lines) \in Nat
      /\ Top.position <= Len(project.files[Top.file].lines)
      /\ Line = project.files[Top.file].lines[Top.position]
      /\ Line.is \in kinds
  BY LineFacts
<1> DEFINE groups == Append(Front(Top.groups), group)
           frame == [Top EXCEPT !.groups = groups, !.active = active]
           g == PastLine(frame)
<1>2. WithGroup(group, active) = frame
  BY <1>1 DEF WithGroup, FrameFields
<1>3. /\ FrameFields \subseteq DOMAIN g /\ g.file = Top.file
      /\ g.position = Top.position + 1 /\ g.groups = groups /\ g.active = active
  BY <1>1, AfterFacts DEF PastLine
<1>4. Turn(Line) = 0
  BY <1>1 DEF Turn
<1>5. group.parent = Innermost(Top).parent
  BY DEF Innermost, Group
<1> HIDE DEF g
<1>6. FrameOK(project.files, g)
  BY <1>1, <1>3, <1>4, <1>5, FrameTurns
<1> QED
  BY <1>1, <1>2, <1>6, LineKeepsStack DEF g

LEMMA GroupFacts ==
    ASSUME StackOK, NEW kinds, Read(kinds), Top.groups # <<>>
    PROVE  GroupFields \subseteq DOMAIN Group
<1>1. Nested(Top)
  BY LineFacts DEF FrameOK
<1>2. PICK S : Top.groups \in Seq(S)
  BY <1>1 DEF Nested
<1>3. Len(Top.groups) \in 1 .. Len(Top.groups)
  BY <1>2, LenProperties, EmptySeq
<1> QED
  BY <1>1, <1>3 DEF Nested, Group

LEMMA ElseIfStep ==
    ASSUME StackOK, ElseIf
    PROVE  StackOK'
<1>1. Read({"elif"}) /\ {"elif"} \intersect (Openers \union {"endif"}) = {}
  BY DEF ElseIf, Openers
<1>2. CASE LineDone(FALSE, Top, <<Newline>>)
  BY <1>1, <1>2, PlainKeepsStack
<1>3. CASE Top.groups # <<>> /\ ~LineDone(FALSE, Top, <<Newline>>)
  <2> DEFINE c == IF Group.parent /\ ~Group.taken THEN Evaluate(macros, Line.text)
                  ELSE [value |-> FALSE, valid |-> TRUE]
             group == [Group EXCEPT !.taken = @ \/ c.value]
  <2>1. LineDone(c.valid, WithGroup(group, c.value), <<Newline>>)
    BY <1>3 DEF ElseIf, Directive
  <2>2. GroupFields \subseteq DOMAIN Group
    BY <1>1, <1>3, GroupFacts
  <2>3. c.value => Group.parent
    OBVIOUS
  <2> HIDE DEF c
  <2>4. GroupFields \subseteq DOMAIN group /\ group.parent = Group.parent
        /\ (c.value => group.taken)
    BY <2>2 DEF GroupFields
  <2>5. c.value => InForce(group)
    BY <2>3, <2>4 DEF InForce
  <2> HIDE DEF group
  <2> QED
    BY <1>1, <1>3, <2>1, <2>4, <2>5, BranchStep
<1> QED
  BY <1>2, <1>3 DEF ElseIf, Directive

LEMMA ElseStep ==
    ASSUME StackOK, Else
    PROVE  StackOK'
<1>1. Read({"else"}) /\ {"else"} \intersect (Openers \union {"endif"}) = {}
  BY DEF Else, Openers
<1>2. CASE LineDone(FALSE, Top, <<Newline>>)
  BY <1>1, <1>2, PlainKeepsStack
<1>3. CASE Top.groups # <<>> /\ ~LineDone(FALSE, Top, <<Newline>>)
  <2> DEFINE group == [Group EXCEPT !.taken = TRUE, !.seen_else = TRUE]
             active == Group.parent /\ ~Group.taken
  <2>1. LineDone(TRUE, WithGroup(group, active), <<Newline>>)
    BY <1>3 DEF Else, Directive
  <2>2. GroupFields \subseteq DOMAIN Group
    BY <1>1, <1>3, GroupFacts
  <2>3. GroupFields \subseteq DOMAIN group /\ group.parent = Group.parent /\ group.taken = TRUE
    BY <2>2 DEF GroupFields
  <2>4. active => InForce(group)
    BY <2>3 DEF InForce
  <2> HIDE DEF group, active
  <2> QED
    BY <1>1, <1>3, <2>1, <2>3, <2>4, BranchStep
<1> QED
  BY <1>2, <1>3 DEF Else, Directive

LEMMA EndIfStep ==
    ASSUME StackOK, EndIf
    PROVE  StackOK'
<1>1. /\ Read({"endif"}) /\ stack # <<>> /\ FrameOK(project.files, Top)
      /\ FrameFields \subseteq DOMAIN Top
      /\ Len(project.files[Top.file].lines) \in Nat
      /\ Top.position <= Len(project.files[Top.file].lines)
      /\ Line = project.files[Top.file].lines[Top.position]
      /\ Line.is = "endif"
  BY LineFacts DEF EndIf
<1>2. CASE LineDone(FALSE, Top, <<Newline>>)
  BY <1>1, <1>2, LineKeepsStack
<1>3. CASE Top.groups # <<>> /\ ~LineDone(FALSE, Top, <<Newline>>)
  <2> DEFINE groups == Front(Top.groups)
             active == Group.parent
             frame == [Top EXCEPT !.groups = groups, !.active = active]
             g == PastLine(frame)
  <2>1. LineDone(TRUE, frame, <<Newline>>)
    <3>1. LineDone(TRUE, [Top EXCEPT !.groups = Front(@), !.active = Group.parent], <<Newline>>)
      BY <1>3 DEF EndIf, Directive
    <3> QED
      BY <1>1, <3>1 DEF FrameFields
  <2>2. /\ FrameFields \subseteq DOMAIN g /\ g.file = Top.file
        /\ g.position = Top.position + 1 /\ g.groups = groups /\ g.active = active
    BY <1>1, AfterFacts DEF PastLine
  <2>3. Turn(Line) = -1
    BY <1>1 DEF Turn, Openers
  <2>4. active = Innermost(Top).parent
    BY DEF Innermost, Group
  <2> HIDE DEF g, active
  <2>5. FrameOK(project.files, g)
    BY <1>1, <1>3, <2>2, <2>3, <2>4, FrameCloses
  <2> QED
    BY <1>1, <2>1, <2>5, LineKeepsStack DEF g
<1> QED
  BY <1>2, <1>3 DEF EndIf, Directive

\* A file that was found is one of the project's.
LEMMA IncludedIsFile ==
    ASSUME StackOK, Found # {}, \E S : Places \in Seq(S)
    PROVE  Included \in DOMAIN project.files
<1>1. DOMAIN project.files \subseteq Nat
  BY TopFacts
<1>2. PICK S : Places \in Seq(S)
  OBVIOUS
<1>3. DOMAIN Places \subseteq Nat
  BY <1>2, LenProperties
<1>4. Found \in SUBSET Nat
  BY <1>3 DEF Found
<1>5. \E m \in Found : \A n \in Found : m <= n
  BY <1>4, LeastNatural
<1>6. Min(Found) \in Found
  BY <1>5 DEF Min
<1> DEFINE files == At(Min(Found))
<1>7. files # {}
  BY <1>6 DEF Found
<1>8. files \subseteq DOMAIN project.files
  BY DEF At
<1> HIDE DEF files
<1>9. files \in SUBSET Nat
  BY <1>1, <1>8
<1>10. \E m \in files : \A n \in files : m <= n
  BY <1>7, <1>9, LeastNatural
<1>11. Min(files) \in files
  BY <1>10 DEF Min
<1> QED
  BY <1>8, <1>11 DEF Included, files

LEMMA PlacesFacts ==
    ASSUME ProjectOK
    PROVE  \E S : Places \in Seq(S)
<1>1. PICK R : project.roots \in Seq(R)
  BY DEF ProjectOK
<1> DEFINE front == Front(project.files[Top.file].path)
           T == R \union {front, <<>>}
           beside == IF Line.quoted THEN <<front>> ELSE <<>>
           last == << <<>> >>
<1>3. project.roots \in Seq(T) /\ front \in T /\ <<>> \in T
  BY <1>1, SeqMonotonic
<1> HIDE DEF T, front
<1>2. beside \in Seq(T) /\ last \in Seq(T)
  BY <1>3
<1>4. Places = beside \o project.roots \o last
  BY DEF Places, front
<1> HIDE DEF beside, last
<1>5. beside \o project.roots \in Seq(T)
  BY <1>2, <1>3, ConcatProperties
<1>6. (beside \o project.roots) \o last \in Seq(T)
  BY <1>2, <1>5, ConcatProperties
<1> QED
  BY <1>4, <1>6

LEMMA IncludeStep ==
    ASSUME StackOK, Include
    PROVE  StackOK'
<1>1. /\ Read({"include"}) /\ Top.active
      /\ {"include"} \intersect (Openers \union {"endif"}) = {}
  BY DEF Include, Active, Openers
<1>2. CASE \E ok : LineDone(ok, Top, <<Newline>>)
  BY <1>1, <1>2, PlainKeepsStack
<1>3. CASE /\ Found # {} /\ ~Refuses(Included)
           /\ stack' = Append(Advanced(Top), Frame(Included))
           /\ UNCHANGED <<project, status, index, output>>
  <2> DEFINE g == PastLine(Top)
             base == [stack EXCEPT ![Len(stack)] = g]
             n == Len(stack)
  <2>1. FrameOK(project.files, g) /\ g.active
    BY <1>1, PlainLine
  <2>2. Advanced(Top) = base
    BY DEF Advanced, PastLine
  <2>3. n \in Nat /\ n > 0 /\ DOMAIN stack = 1 .. n
    BY <1>1, TopFacts, LineFacts
  <2>4. PICK S : stack \in Seq(S)
    BY DEF StackOK
  <2> HIDE DEF g
  <2>5. stack \in Seq(S \union {g})
    BY <2>4, SeqMonotonic
  <2>6. base \in Seq(S \union {g}) /\ Len(base) = n
    BY <2>3, <2>5, ExceptSeq
  <2>7. n \in DOMAIN stack /\ base = [stack EXCEPT ![n] = g]
    BY <2>3, Below
  <2>8. base[n] = g /\ \A i \in 1 .. n : i # n => base[i] = stack[i]
    BY ONLY <2>3, <2>7
  <2> HIDE DEF base
  <2>9. \A i \in 1 .. n : FrameOK(project.files, base[i]) /\ base[i].active
    <3> TAKE i \in 1 .. n
    <3>1. CASE i = n
      BY <2>1, <2>8, <3>1
    <3>2. CASE i # n
      <4>1. i \in 1 .. n - 1
        BY <2>3, <3>2, Below
      <4> QED
        BY <2>8, <3>2, <4>1 DEF StackOK
    <3> QED
      BY <3>1, <3>2
  <2>10. Included \in DOMAIN project.files
    BY <1>3, PlacesFacts, IncludedIsFile DEF StackOK
  <2>11. n < MaxDepth
    BY <1>3, <2>3, DepthAssumption DEF Refuses
  <2> QED
    BY <1>3, <2>2, <2>6, <2>9, <2>10, <2>11, StackGrows DEF StackOK
<1> QED
  BY <1>2, <1>3 DEF Include, Directive

LEMMA NextUnitStep ==
    ASSUME StackOK, NextUnit
    PROVE  StackOK'
<1>1. /\ stack = <<>> /\ index <= Len(project.files) /\ index \in Nat \ {0}
      /\ Len(project.files) \in Nat /\ DOMAIN project.files = 1 .. Len(project.files)
  BY TopFacts DEF NextUnit, StackOK
<1>2. project' = project /\ index' \in Nat \ {0}
  BY <1>1 DEF NextUnit, Fail
<1>3. CASE stack' = stack
  BY <1>2, <1>3, StackSame
<1>4. CASE stack' # stack
  <2>1. stack' = <<Frame(index)>> /\ ~Refuses(index)
    BY <1>1, <1>4 DEF NextUnit, Fail
  <2>2. Len(stack) = 0 /\ stack \in Seq({}) /\ 1 .. Len(stack) = {}
    BY <1>1
  <2>3. Len(stack) < MaxDepth
    BY <2>1, <2>2, DepthAssumption DEF Refuses
  <2>4. stack' = Append(stack, Frame(index))
    BY <1>1, <2>1
  <2>5. index \in DOMAIN project.files
    BY <1>1
  <2> QED
    BY <1>2, <2>2, <2>3, <2>4, <2>5, StackGrows DEF StackOK
<1> QED
  BY <1>3, <1>4

LEMMA StackNext ==
    ASSUME StackOK, [Next]_vars
    PROVE  StackOK'
<1>1. CASE GiveDefinition \/ StartFiles \/ Finish
  <2>1. stack' = stack /\ project' = project
    BY <1>1 DEF GiveDefinition, StartFiles, Finish, Fail
  <2>2. index' \in Nat \ {0}
    BY <1>1 DEF GiveDefinition, StartFiles, Finish, Fail, StackOK
  <2> QED
    BY <2>1, <2>2, StackSame
<1>2. CASE NextUnit
  BY <1>2, NextUnitStep
<1>3. CASE EndOfFile
  BY <1>3, StackSame, StackShrinks DEF EndOfFile, Fail, StackOK
<1>4. CASE OpenGroup
  BY <1>4, OpenGroupStep
<1>5. CASE ElseIf
  BY <1>5, ElseIfStep
<1>6. CASE Else
  BY <1>6, ElseStep
<1>7. CASE EndIf
  BY <1>7, EndIfStep
<1>8. CASE Include
  BY <1>8, IncludeStep
<1> DEFINE Plain == {"define", "undef", "once", "error", "include", "text"}
<1>9. Plain \intersect (Openers \union {"endif"}) = {}
  BY DEF Openers
<1>10. CASE DefineMacro \/ UndefineMacro \/ PragmaOnce \/ Refused \/ Text \/ SkipLine
  <2>1. \E kinds \in SUBSET Plain : Read(kinds)
    BY <1>10 DEF DefineMacro, UndefineMacro, PragmaOnce, Refused, Text, SkipLine, Active
  <2>2. \E ok, text : LineDone(ok, Top, text)
    BY <1>10 DEF DefineMacro, UndefineMacro, PragmaOnce, Refused, Text, SkipLine, Directive
  <2> HIDE DEF Plain
  <2>3. PICK kinds \in SUBSET Plain : Read(kinds)
    BY <2>1
  <2>4. kinds \intersect (Openers \union {"endif"}) = {}
    BY <1>9
  <2> QED
    BY <2>2, <2>3, <2>4, PlainKeepsStack
<1>11. CASE UNCHANGED vars
  BY <1>11, StackSame DEF vars, StackOK
<1> QED
  BY <1>1, <1>2, <1>3, <1>4, <1>5, <1>6, <1>7, <1>8, <1>10, <1>11 DEF Next

LEMMA InitStack == Init => StackOK
<1> SUFFICES ASSUME Init PROVE StackOK
  OBVIOUS
<1>1. ProjectOK
  BY ProjectAssumption DEF Init, ProjectOK
<1>2. stack = <<>> /\ index = 1 /\ Len(stack) = 0 /\ stack \in Seq({})
  BY DEF Init
<1> QED
  BY <1>1, <1>2, DepthAssumption DEF StackOK

\* Whatever the project, the files being read are never nested deeper than
\* the limit, each has open exactly the groups that its lines so far opened
\* and did not close, a branch is in force only inside branches in force, and
\* every file that waits for one it includes waits at a line that is read.
THEOREM FilesStayNested == Spec => []StackOK
  BY InitStack, StackNext, PTL DEF Spec

-----------------------------------------------------------------------------
\* The line at hand, and the files around it, are in no branch passed over.
Reached ==
    \A i \in 1 .. Len(stack) :
        /\ stack[i].active
        /\ \A j \in 1 .. Len(stack[i].groups) : InForce(stack[i].groups[j])

LEMMA ActiveIsReached ==
    ASSUME StackOK, stack # <<>>, Top.active
    PROVE  Reached
<1>1. Len(stack) \in Nat
  BY TopFacts
<1>2. \A i \in 1 .. Len(stack) : stack[i].active
  BY <1>1, Below DEF StackOK, Top
<1>3. \A i \in 1 .. Len(stack) : Nested(stack[i])
  BY DEF StackOK, FrameOK
<1> QED
  BY <1>2, <1>3 DEF Reached, Nested

LEMMA AdvancedLength ==
    ASSUME StackOK, stack # <<>>, NEW frame
    PROVE  /\ Len(Advanced(frame)) = Len(stack)
           /\ \A file : Len(Append(Advanced(frame), file)) = Len(stack) + 1
<1>1. PICK S : stack \in Seq(S)
  BY DEF StackOK
<1> DEFINE g == PastLine(frame)
<1>2. Advanced(frame) = [stack EXCEPT ![Len(stack)] = g]
  BY DEF Advanced, PastLine
<1> HIDE DEF g
<1>3. stack \in Seq(S \union {g}) /\ Len(stack) \in Nat /\ Len(stack) > 0
  BY <1>1, SeqMonotonic, TopFacts
<1>4. Advanced(frame) \in Seq(S \union {g}) /\ Len(Advanced(frame)) = Len(stack)
  BY <1>2, <1>3, ExceptSeq
<1>5. ASSUME NEW file PROVE Len(Append(Advanced(frame), file)) = Len(stack) + 1
  <2>1. Advanced(frame) \in Seq(S \union {g, file})
    BY <1>4, SeqMonotonic
  <2> QED
    BY <1>4, <2>1, AppendProperties
<1> QED
  BY <1>4, <1>5

\* No file is read before the project's definitions are.
DefinitionsFirst == status = "definitions" => stack = <<>>

LEMMA DefinitionsNext ==
    ASSUME DefinitionsFirst, [Next]_vars
    PROVE  DefinitionsFirst'
<1>1. CASE GiveDefinition \/ StartFiles \/ NextUnit \/ Finish \/ EndOfFile \/ UNCHANGED vars
  BY <1>1 DEF DefinitionsFirst, GiveDefinition, StartFiles, NextUnit, Finish, EndOfFile, Fail, vars
<1>2. CASE OpenGroup \/ ElseIf \/ Else \/ EndIf \/ DefineMacro \/ UndefineMacro
  BY <1>2 DEF DefinitionsFirst, OpenGroup, ElseIf, Else, EndIf, DefineMacro, UndefineMacro,
     Active, Read, Directive, LineDone
<1>3. CASE PragmaOnce \/ Refused \/ Include \/ Text \/ SkipLine
  BY <1>3 DEF DefinitionsFirst, PragmaOnce, Refused, Include, Text, SkipLine, Active, Read,
     Directive, LineDone
<1> QED
  BY <1>1, <1>2, <1>3 DEF Next

\* Nothing of a branch that is passed over, nor of a file that such a branch
\* includes, comes into the macro table, the files read once or the output,
\* but for the empty lines that keep the count.
PassedOver ==
    \/ Reached
    \/ /\ UNCHANGED <<macros, once_files>>
       /\ output' = output \/ \E blank \in {<<>>, <<Newline>>} : output' = output \o blank

THEOREM PassedOverCountsForNothing == Spec => [][PassedOver]_vars
<1>1. ASSUME StackOK, DefinitionsFirst, Next
      PROVE  PassedOver
  <2>1. CASE DefineMacro \/ UndefineMacro \/ PragmaOnce \/ Refused \/ Include \/ Text
    <3>1. stack # <<>> /\ Top.active
      BY <2>1 DEF DefineMacro, UndefineMacro, PragmaOnce, Refused, Include, Text, Active, Read
    <3> QED
      BY <1>1, <3>1, ActiveIsReached DEF PassedOver
  <2>2. CASE GiveDefinition
    <3>1. stack = <<>> /\ Len(stack) = 0
      BY <1>1, <2>2 DEF GiveDefinition, DefinitionsFirst
    <3> QED
      BY <3>1 DEF PassedOver, Reached
  <2>3. CASE StartFiles \/ NextUnit \/ Finish \/ EndOfFile
    BY <2>3 DEF StartFiles, NextUnit, Finish, EndOfFile, Fail, PassedOver
  <2>4. CASE OpenGroup \/ ElseIf \/ Else \/ EndIf \/ SkipLine
    <3>1. /\ UNCHANGED <<macros, once_files>>
          /\ \E ok, frame : \E blank \in {<<>>, <<Newline>>} : LineDone(ok, frame, blank)
      BY <2>4 DEF OpenGroup, ElseIf, Else, EndIf, SkipLine, Directive
    <3> QED
      BY <3>1 DEF LineDone, PassedOver
  <2> QED
    BY <1>1, <2>1, <2>2, <2>3, <2>4 DEF Next
<1>2. Spec => []DefinitionsFirst
  <2>1. Init => DefinitionsFirst
    BY DEF Init, DefinitionsFirst
  <2> QED
    BY <2>1, DefinitionsNext, PTL DEF Spec
<1> QED
  BY <1>1, <1>2, FilesStayNested, PTL DEF Spec

-----------------------------------------------------------------------------
\* A file whose groups each end, none before it begins.
Balanced(lines) ==
    /\ \A n \in 0 .. Len(lines) : Depth(lines, n) >= 0
    /\ Depth(lines, Len(lines)) = 0

\* A file is only left, and the one that includes it goes on, when its #if's
\* and #endif's balance: a file that stops inside a group, or closes one that
\* its includer opened, is an error, wherever it is included.
THEOREM OnlyBalancedFilesEnd ==
    Spec => [][Len(stack') < Len(stack) => Balanced(project.files[Top.file].lines)]_vars
<1>1. ASSUME StackOK, Next, Len(stack') < Len(stack)
      PROVE  Balanced(project.files[Top.file].lines)
  <2>1. Len(stack) \in Nat /\ stack' # stack
    BY <1>1, TopFacts
  <2>2. CASE EndOfFile
    <3>1. stack # <<>> /\ Top.groups = <<>> /\ Len(Top.groups) = 0
          /\ Top.position > Len(project.files[Top.file].lines)
      BY <2>1, <2>2 DEF EndOfFile, Fail
    <3>2. FrameOK(project.files, Top) /\ Len(project.files[Top.file].lines) \in Nat
      BY <1>1, <3>1, TopFacts
    <3>3. Top.position = Len(project.files[Top.file].lines) + 1
      BY <3>1, <3>2 DEF FrameOK
    <3>4. Top.position - 1 = Len(project.files[Top.file].lines)
      BY <3>2, <3>3
    <3> QED
      BY <3>1, <3>2, <3>4 DEF FrameOK, Balanced
  <2>3. CASE \E ok, frame, text : LineDone(ok, frame, text)
    BY <1>1, <2>1, <2>3, AdvancedLength DEF LineDone
  <2>4. CASE NextUnit
    <3>1. stack = <<>> /\ Len(stack) = 0
      BY <2>4 DEF NextUnit
    <3>2. stack' = <<Frame(index)>> /\ Len(stack') = 1
      BY <2>1, <2>4, <3>1 DEF NextUnit, Fail
    <3> QED
      BY <1>1, <3>1, <3>2
  <2>5. CASE Include
    <3>1. stack # <<>>
      BY <2>5 DEF Include, Active, Read
    <3>2. CASE stack' = Append(Advanced(Top), Frame(Included))
      BY <1>1, <2>1, <3>1, <3>2, AdvancedLength
    <3> QED
      BY <2>3, <2>5, <3>2 DEF Include, Directive
  <2>6. CASE OpenGroup \/ ElseIf \/ Else \/ EndIf \/ DefineMacro \/ UndefineMacro
    BY <2>3, <2>6 DEF OpenGroup, ElseIf, Else, EndIf, DefineMacro, UndefineMacro, Directive
  <2>7. CASE PragmaOnce \/ Refused \/ Text \/ SkipLine
    BY <2>3, <2>7 DEF PragmaOnce, Refused, Text, SkipLine, Directive
  <2>8. CASE GiveDefinition \/ StartFiles \/ Finish
    BY <2>1, <2>8 DEF GiveDefinition, StartFiles, Finish, Fail
  <2> QED
    BY <1>1, <2>2, <2>4, <2>5, <2>6, <2>7, <2>8 DEF Next
<1> QED
  BY <1>1, FilesStayNested, PTL DEF Spec

-----------------------------------------------------------------------------
(* The macro table.                                                          *)

\* What the table has under a name.
Entries(table, name) == {table[i] : i \in {j \in 1 .. Len(table) : table[j].name = name}}

\* No name twice, none empty.
OneEach(table) ==
    /\ \E S : table \in Seq(S)
    /\ \A i, j \in 1 .. Len(table) : table[i].name = table[j].name => i = j
    /\ \A i \in 1 .. Len(table) : table[i].name # <<>>

TableOK == OneEach(macros) /\ Len(macros) <= TableCapacity

LEMMA TableFacts ==
    ASSUME OneEach(macros)
    PROVE  /\ Len(macros) \in Nat /\ DOMAIN macros = 1 .. Len(macros)
           /\ \A name : Known(name) =>
                Place(name) \in 1 .. Len(macros) /\ macros[Place(name)].name = name
<1>1. PICK S : macros \in Seq(S)
  BY DEF OneEach
<1>2. Len(macros) \in Nat /\ DOMAIN macros = 1 .. Len(macros)
  BY <1>1, LenProperties
<1>3. ASSUME NEW name, Known(name)
      PROVE  Place(name) \in 1 .. Len(macros) /\ macros[Place(name)].name = name
  <2>1. PICK i \in 1 .. Len(macros) : macros[i].name = name
    BY <1>2, <1>3 DEF Known
  <2>2. \A j \in 1 .. i - 1 : macros[j].name # name
    <3> SUFFICES ASSUME NEW j \in 1 .. i - 1, macros[j].name = name PROVE FALSE
      OBVIOUS
    <3>1. j \in 1 .. Len(macros) /\ j # i
      BY <1>2
    <3> QED
      BY <2>1, <3>1 DEF OneEach
  <2>3. \E p \in DOMAIN macros : macros[p].name = name /\ \A j \in 1 .. p - 1 : macros[j].name # name
    BY <1>2, <2>1, <2>2
  <2> QED
    BY <1>2, <2>3 DEF Place
<1> QED
  BY <1>2, <1>3

\* A definition takes the place of the one before, or the end of the table.
LEMMA DefineFacts ==
    ASSUME OneEach(macros), NEW m, m.name # <<>>
    PROVE  /\ OneEach(Define(m))
           /\ Len(Define(m)) = IF Known(m.name) THEN Len(macros) ELSE Len(macros) + 1
           /\ \A name : Entries(Define(m), name)
                          = IF name = m.name THEN {m} ELSE Entries(macros, name)
<1> DEFINE n == Len(macros)
           t == Define(m)
<1>1. PICK S : macros \in Seq(S)
  BY DEF OneEach
<1>2. n \in Nat /\ macros \in Seq(S \union {m}) /\ DOMAIN macros = 1 .. n
  BY <1>1, TableFacts, SeqMonotonic
<1>3. CASE Known(m.name)
  <2> DEFINE p == Place(m.name)
  <2>1. p \in 1 .. n /\ macros[p].name = m.name
    BY <1>3, TableFacts
  <2>2. t = [macros EXCEPT ![p] = m]
    BY <1>3 DEF Define
  <2> HIDE DEF t, p, n
  <2>3. t \in Seq(S \union {m}) /\ Len(t) = n
    BY <1>2, <2>1, <2>2, ExceptSeq DEF n
  <2>4. t[p] = m /\ \A i \in 1 .. n : i # p => t[i] = macros[i]
    BY <1>2, <2>1, <2>2
  <2>5. \A i \in 1 .. n : t[i].name = macros[i].name
    BY <2>1, <2>4
  <2>6. OneEach(t)
    BY <2>3, <2>5 DEF OneEach, n
  <2>7. ASSUME NEW name
        PROVE  Entries(t, name) = IF name = m.name THEN {m} ELSE Entries(macros, name)
    <3>1. CASE name = m.name
      <4>1. \A i \in 1 .. n : t[i].name = name <=> i = p
        BY <2>1, <2>5, <3>1 DEF OneEach, n
      <4>2. {j \in 1 .. Len(t) : t[j].name = name} = {p}
        BY <2>1, <2>3, <4>1
      <4> QED
        BY <2>4, <3>1, <4>2 DEF Entries
    <3>2. CASE name # m.name
      <4>1. \A i \in 1 .. n : t[i].name = name => t[i] = macros[i]
        BY <2>4, <3>2
      <4>2. {j \in 1 .. Len(t) : t[j].name = name} = {j \in 1 .. Len(macros) : macros[j].name = name}
        BY <2>3, <2>5 DEF n
      <4> QED
        BY <2>3, <3>2, <4>1, <4>2 DEF Entries
    <3> QED
      BY <3>1, <3>2
  <2> QED
    BY <1>3, <2>3, <2>6, <2>7 DEF t, n
<1>4. CASE ~Known(m.name)
  <2>1. t = Append(macros, m)
    BY <1>4 DEF Define
  <2>2. \A i \in 1 .. n : macros[i].name # m.name
    BY <1>2, <1>4 DEF Known
  <2> HIDE DEF t
  <2>3. /\ t \in Seq(S \union {m}) /\ Len(t) = n + 1 /\ t[n + 1] = m
        /\ \A i \in 1 .. n : t[i] = macros[i]
    BY <1>2, <2>1, AppendProperties
  <2> HIDE DEF n
  <2>4. \A i \in 1 .. n + 1 : i \in 1 .. n \/ i = n + 1
    BY <1>2
  <2>5. OneEach(t)
    <3>1. \A i, j \in 1 .. n : t[i].name = t[j].name => i = j
      BY <2>3 DEF OneEach, n
    <3>2. \A i \in 1 .. n : t[i].name # t[n + 1].name /\ t[i].name # <<>>
      BY <2>2, <2>3 DEF OneEach, n
    <3>3. \A i, j \in 1 .. n + 1 : t[i].name = t[j].name => i = j
      BY <2>4, <3>1, <3>2
    <3>4. \A i \in 1 .. n + 1 : t[i].name # <<>>
      BY <2>3, <2>4, <3>2
    <3> QED
      BY <2>3, <3>3, <3>4 DEF OneEach
  <2>6. ASSUME NEW name
        PROVE  Entries(t, name) = IF name = m.name THEN {m} ELSE Entries(macros, name)
    <3>1. CASE name = m.name
      <4>1. \A i \in 1 .. n + 1 : t[i].name = name <=> i = n + 1
        BY <2>2, <2>3, <2>4, <3>1
      <4>2. n + 1 \in 1 .. n + 1
        BY <1>2
      <4>3. {j \in 1 .. Len(t) : t[j].name = name} = {n + 1}
        BY <2>3, <4>1, <4>2
      <4> QED
        BY <2>3, <3>1, <4>3 DEF Entries
    <3>2. CASE name # m.name
      <4>1. 1 .. n \subseteq 1 .. n + 1
        BY <1>2
      <4>2. {j \in 1 .. Len(t) : t[j].name = name} = {j \in 1 .. Len(macros) : macros[j].name = name}
        BY <2>3, <2>4, <3>2, <4>1 DEF n
      <4>3. \A j \in 1 .. Len(macros) : t[j] = macros[j]
        BY <2>3 DEF n
      <4> QED
        BY <3>2, <4>2, <4>3 DEF Entries
    <3> QED
      BY <3>1, <3>2
  <2> QED
    BY <1>4, <2>3, <2>5, <2>6 DEF t, n
<1> QED
  BY <1>3, <1>4

LEMMA RemoveFacts ==
    ASSUME NEW S, NEW s \in Seq(S), NEW p \in 1 .. Len(s)
    PROVE  /\ RemoveAt(s, p) \in Seq(S) /\ Len(RemoveAt(s, p)) = Len(s) - 1
           /\ \A i \in 1 .. Len(s) - 1 : RemoveAt(s, p)[i] = s[IF i < p THEN i ELSE i + 1]
<1> DEFINE n == Len(s)
           a == SubSeq(s, 1, p - 1)
           b == SubSeq(s, p + 1, Len(s))
<1>1. n \in Nat /\ \A i \in 1 .. n : s[i] \in S
  BY LenProperties, ElementOfSeq
<1>2. RemoveAt(s, p) = a \o b
  BY DEF RemoveAt
<1>3. n = Len(s) /\ p \in 1 .. n
  OBVIOUS
<1> HIDE DEF n
<1>4. /\ p - 1 \in Int /\ p + 1 \in Int /\ n \in Int
      /\ \A i \in 1 .. p - 1 : s[i] \in S
      /\ \A i \in p + 1 .. n : s[i] \in S
  BY <1>1, <1>3
<1>5. /\ a \in Seq(S) /\ Len(a) = IF 1 <= p - 1 THEN p - 1 - 1 + 1 ELSE 0
      /\ \A i \in 1 .. p - 1 - 1 + 1 : a[i] = s[1 + i - 1]
  BY <1>4, SubSeqProperties
<1>6. /\ b \in Seq(S) /\ Len(b) = IF p + 1 <= n THEN n - (p + 1) + 1 ELSE 0
      /\ \A i \in 1 .. n - (p + 1) + 1 : b[i] = s[p + 1 + i - 1]
  BY <1>3, <1>4, SubSeqProperties
<1> HIDE DEF a, b
<1>7. /\ a \o b \in Seq(S) /\ Len(a \o b) = Len(a) + Len(b)
      /\ \A i \in 1 .. Len(a) + Len(b) : (a \o b)[i] = IF i <= Len(a) THEN a[i] ELSE b[i - Len(a)]
  BY <1>5, <1>6, ConcatProperties
<1>8. Len(a) = p - 1 /\ Len(b) = n - p
  BY <1>1, <1>3, <1>5, <1>6
<1>9. ASSUME NEW i \in 1 .. n - 1 PROVE (a \o b)[i] = s[IF i < p THEN i ELSE i + 1]
  <2>1. i \in 1 .. Len(a) + Len(b)
    BY <1>1, <1>3, <1>8
  <2>2. CASE i < p
    <3>1. i <= Len(a) /\ i \in 1 .. p - 1 - 1 + 1 /\ 1 + i - 1 = i
      BY <1>1, <1>3, <1>8, <2>2
    <3> QED
      BY <1>5, <1>7, <2>1, <2>2, <3>1
  <2>3. CASE ~(i < p)
    <3>1. /\ ~(i <= Len(a)) /\ i - Len(a) \in 1 .. n - (p + 1) + 1
          /\ p + 1 + (i - Len(a)) - 1 = i + 1
      BY <1>1, <1>3, <1>8, <2>3
    <3> QED
      BY <1>6, <1>7, <2>1, <2>3, <3>1
  <2> QED
    BY <2>2, <2>3
<1>10. Len(a) + Len(b) = n - 1
  BY <1>1, <1>3, <1>8
<1> QED
  BY <1>2, <1>3, <1>7, <1>9, <1>10

\* A macro that is undefined leaves the table, the others keep their order.
LEMMA UndefineFacts ==
    ASSUME OneEach(macros), NEW gone
    PROVE  /\ OneEach(Undefine(gone)) /\ Len(Undefine(gone)) \in Nat
           /\ Len(Undefine(gone)) <= Len(macros)
           /\ \A name : Entries(Undefine(gone), name)
                          = IF name = gone THEN {} ELSE Entries(macros, name)
<1> DEFINE n == Len(macros)
           t == Undefine(gone)
<1>1. n \in Nat /\ DOMAIN macros = 1 .. n
  BY TableFacts
<1>2. CASE ~Known(gone)
  <2>1. t = macros
    BY <1>2 DEF Undefine
  <2>2. \A i \in 1 .. n : macros[i].name # gone
    BY <1>1, <1>2 DEF Known
  <2>3. Entries(macros, gone) = {}
    BY <2>2 DEF Entries
  <2> QED
    BY <1>1, <2>1, <2>3
<1>3. CASE Known(gone)
  <2> DEFINE p == Place(gone)
  <2>1. p \in 1 .. n /\ macros[p].name = gone
    BY <1>3, TableFacts
  <2>2. PICK S : macros \in Seq(S)
    BY DEF OneEach
  <2>3. t = RemoveAt(macros, p)
    BY <1>3 DEF Undefine
  <2> HIDE DEF t, p, n
  <2>4. /\ t \in Seq(S) /\ Len(t) = n - 1
        /\ \A i \in 1 .. n - 1 : t[i] = macros[IF i < p THEN i ELSE i + 1]
    BY <2>1, <2>2, <2>3, RemoveFacts DEF n
  <2> DEFINE old(i) == IF i < p THEN i ELSE i + 1
  <2>5. /\ \A i \in 1 .. n - 1 : old(i) \in 1 .. n /\ old(i) # p
        /\ \A i, j \in 1 .. n - 1 : old(i) = old(j) => i = j
        /\ \A k \in 1 .. n : k # p => \E i \in 1 .. n - 1 : old(i) = k
    <3>1. p \in Int
      BY <2>1
    <3>2. ASSUME NEW k \in 1 .. n, k # p PROVE \E i \in 1 .. n - 1 : old(i) = k
      <4>1. CASE k < p
        <5>1. k \in 1 .. n - 1
          BY <1>1, <2>1, <4>1 DEF n
        <5> QED
          BY <4>1, <5>1
      <4>2. CASE k > p
        <5>1. k - 1 \in 1 .. n - 1 /\ ~(k - 1 < p) /\ k - 1 + 1 = k
          BY <1>1, <2>1, <4>2 DEF n
        <5> QED
          BY <5>1
      <4> QED
        BY <3>1, <3>2, <4>1, <4>2
    <3> QED
      BY <1>1, <2>1, <3>2 DEF n
  <2>6. \A i \in 1 .. n - 1 : t[i] = macros[old(i)]
    BY <2>4
  <2> HIDE DEF old
  <2>7. OneEach(t)
    BY <2>4, <2>5, <2>6 DEF OneEach, n
  <2>8. ASSUME NEW name
        PROVE  Entries(t, name) = IF name = gone THEN {} ELSE Entries(macros, name)
    <3>1. CASE name = gone
      <4>1. \A i \in 1 .. n - 1 : t[i].name # gone
        BY <2>1, <2>5, <2>6 DEF OneEach, n
      <4> QED
        BY <2>4, <3>1, <4>1 DEF Entries
    <3>2. CASE name # gone
      <4>1. ASSUME NEW e, e \in Entries(t, name) PROVE e \in Entries(macros, name)
        <5>1. PICK i \in 1 .. n - 1 : t[i].name = name /\ t[i] = e
          BY <2>4, <4>1 DEF Entries
        <5> QED
          BY <2>5, <2>6, <5>1 DEF Entries, n
      <4>2. ASSUME NEW e, e \in Entries(macros, name) PROVE e \in Entries(t, name)
        <5>1. PICK k \in 1 .. n : macros[k].name = name /\ macros[k] = e
          BY <4>2 DEF Entries, n
        <5>2. k # p
          BY <2>1, <3>2, <5>1
        <5>3. PICK i \in 1 .. n - 1 : old(i) = k
          BY <2>5, <5>2
        <5> QED
          BY <2>4, <2>6, <5>1, <5>3 DEF Entries
      <4> QED
        BY <3>2, <4>1, <4>2
    <3> QED
      BY <3>1, <3>2
  <2>9. Len(t) \in Nat /\ Len(t) <= n
    BY <1>1, <2>1, <2>4 DEF n
  <2> QED
    BY <2>7, <2>8, <2>9 DEF t, n
<1> QED
  BY <1>2, <1>3

\* What the steps do to the table.
LEMMA TableSteps ==
    ASSUME Next
    PROVE  /\ project' = project
           /\ \/ macros' = macros
              \/ \E m : HasRoom(m) /\ macros' = Define(m)
              \/ \E name : macros' = Undefine(name)
<1>1. CASE GiveDefinition \/ StartFiles \/ NextUnit \/ Finish \/ EndOfFile
  BY <1>1 DEF GiveDefinition, StartFiles, NextUnit, Finish, EndOfFile, Fail
<1>2. CASE OpenGroup \/ ElseIf \/ Else \/ EndIf \/ PragmaOnce
  BY <1>2 DEF OpenGroup, ElseIf, Else, EndIf, PragmaOnce, Directive, LineDone
<1>3. CASE Refused \/ Include \/ Text \/ SkipLine
  BY <1>3 DEF Refused, Include, Text, SkipLine, Directive, LineDone
<1>4. CASE DefineMacro
  BY <1>4 DEF DefineMacro, Directive, LineDone
<1>5. CASE UndefineMacro
  BY <1>5 DEF UndefineMacro, Directive, LineDone
<1> QED
  BY <1>1, <1>2, <1>3, <1>4, <1>5 DEF Next

LEMMA CapacityFacts ==
    ASSUME ProjectOK
    PROVE  TableCapacity \in Nat
<1>1. PICK F : project.files \in Seq(F)
  BY DEF ProjectOK
<1>2. PICK D : project.definitions \in Seq(D)
  BY DEF ProjectOK
<1>3. Len(project.files) \in Nat /\ Len(project.definitions) \in Nat
  BY <1>1, <1>2, LenProperties
<1>4. \A a, b \in Nat : a * b \in Nat
  OBVIOUS
<1> DEFINE p == Len(project.files) * TablePerFile
<1>5. p \in Nat
  BY <1>3, <1>4, CapacityAssumption
<1>6. TableCapacity = p + Len(project.definitions) + TableSpare
  BY DEF TableCapacity
<1> HIDE DEF p
<1> QED
  BY <1>3, <1>5, <1>6, CapacityAssumption

LEMMA TableNext ==
    ASSUME ProjectOK, TableOK, [Next]_vars
    PROVE  TableOK'
<1>1. TableCapacity \in Nat /\ Len(macros) \in Nat /\ OneEach(macros)
  BY CapacityFacts, TableFacts DEF TableOK
<1>2. project' = project => TableCapacity' = TableCapacity
  BY DEF TableCapacity
<1>3. CASE project' = project /\ macros' = macros
  BY <1>2, <1>3 DEF TableOK
<1>4. ASSUME NEW m, HasRoom(m), macros' = Define(m), project' = project PROVE TableOK'
  <2>1. CASE m.name = <<>>
    BY <1>3, <1>4, <2>1 DEF Define
  <2>2. CASE m.name # <<>>
    <3>1. /\ OneEach(macros')
          /\ Len(macros') = IF Known(m.name) THEN Len(macros) ELSE Len(macros) + 1
      BY <1>1, <1>4, <2>2, DefineFacts
    <3>2. Len(macros') <= TableCapacity
      BY <1>1, <1>4, <2>2, <3>1 DEF HasRoom, TableOK
    <3> QED
      BY <1>2, <1>4, <3>1, <3>2 DEF TableOK
  <2> QED
    BY <2>1, <2>2
<1>5. ASSUME NEW name, macros' = Undefine(name), project' = project PROVE TableOK'
  <2>1. OneEach(macros') /\ Len(macros') \in Nat /\ Len(macros') <= Len(macros)
    BY <1>1, <1>5, UndefineFacts
  <2>2. Len(macros') <= TableCapacity
    BY <1>1, <2>1 DEF TableOK
  <2> QED
    BY <1>2, <1>5, <2>1, <2>2 DEF TableOK
<1>6. CASE UNCHANGED vars
  BY <1>3, <1>6 DEF vars
<1> QED
  BY <1>3, <1>4, <1>5, <1>6, TableSteps

\* The table never holds a name twice, so that the first entry found is the
\* only one, nor more macros than were allocated for the project.
THEOREM TableStaysWhole == Spec => []TableOK
<1>1. Init => TableOK
  <2> SUFFICES ASSUME Init PROVE TableOK
    OBVIOUS
  <2>1. ProjectOK /\ macros = <<>> /\ Len(macros) = 0 /\ macros \in Seq({})
    BY InitStack DEF Init, StackOK
  <2>2. TableCapacity \in Nat
    BY <2>1, CapacityFacts
  <2> QED
    BY <2>1, <2>2 DEF TableOK, OneEach
<1>2. StackOK => ProjectOK
  BY DEF StackOK
<1> QED
  BY <1>1, <1>2, TableNext, FilesStayNested, PTL DEF Spec

\* A name stands for its last definition, until it is undefined; the others
\* stand for what they stood for.
Takes(m) ==
    \A name : Entries(macros', name) = IF name = m.name THEN {m} ELSE Entries(macros, name)
Loses(gone) ==
    \A name : Entries(macros', name) = IF name = gone THEN {} ELSE Entries(macros, name)
LastDefinition ==
    /\ Active({"define"}) /\ Line.macro.name # <<>> =>
          Takes(Line.macro) \/ (status' = "failed" /\ UNCHANGED macros)
    /\ Active({"undef"}) => Loses(Line.name)
    /\ macros' # macros => status = "definitions" \/ Active({"define", "undef"})

THEOREM LastDefinitionHolds == Spec => [][LastDefinition]_vars
<1>1. ASSUME StackOK, TableOK, Next
      PROVE  LastDefinition
  <2>1. OneEach(macros)
    BY <1>1 DEF TableOK
  <2>2. CASE DefineMacro
    <3>1. Active({"define"}) /\ Line.is = "define"
      BY <2>2 DEF DefineMacro, Active, Read
    <3>2. ~Active({"undef"}) /\ Active({"define", "undef"})
      BY <3>1 DEF Active, Read
    <3>3. CASE ~HasRoom(Line.macro)
      <4>1. macros' = macros /\ status' = "failed"
        BY <2>2, <3>3 DEF DefineMacro, Directive, LineDone
      <4> QED
        BY <3>2, <4>1 DEF LastDefinition
    <3>4. CASE HasRoom(Line.macro)
      <4>1. macros' = Define(Line.macro)
        BY <2>2, <3>4 DEF DefineMacro
      <4>2. Line.macro.name # <<>> => Takes(Line.macro)
        BY <2>1, <4>1, DefineFacts DEF Takes
      <4> QED
        BY <3>2, <4>2 DEF LastDefinition
    <3> QED
      BY <3>3, <3>4
  <2>3. CASE UndefineMacro
    <3>1. Active({"undef"}) /\ Line.is = "undef" /\ macros' = Undefine(Line.name)
      BY <2>3 DEF UndefineMacro, Active, Read
    <3>2. ~Active({"define"}) /\ Active({"define", "undef"})
      BY <3>1 DEF Active, Read
    <3>3. Loses(Line.name)
      BY <2>1, <3>1, UndefineFacts DEF Loses
    <3> QED
      BY <3>2, <3>3 DEF LastDefinition
  <2>4. ASSUME NEW kinds, Read(kinds), "define" \notin kinds, "undef" \notin kinds, macros' = macros
        PROVE  LastDefinition
    BY <2>4 DEF LastDefinition, Active, Read
  <2>5. CASE OpenGroup \/ ElseIf \/ Else \/ EndIf
    <3>1. "define" \notin Openers /\ "undef" \notin Openers
      BY DEF Openers
    <3> QED
      BY <2>4, <2>5, <3>1 DEF OpenGroup, ElseIf, Else, EndIf
  <2>6. CASE PragmaOnce \/ Refused \/ Include \/ Text
    BY <2>4, <2>6 DEF PragmaOnce, Refused, Include, Text, Active
  <2>7. CASE SkipLine
    BY <2>7 DEF SkipLine, LastDefinition, Active
  <2>8. CASE StartFiles \/ NextUnit \/ Finish \/ GiveDefinition
    BY <2>8 DEF StartFiles, NextUnit, Finish, GiveDefinition, Fail, LastDefinition, Active, Read
  <2>9. CASE EndOfFile
    <3>1. macros' = macros
      BY <2>9 DEF EndOfFile, Fail
    <3>2. \A kinds : ~Read(kinds)
      <4>1. stack # <<>> /\ Top.position > Len(project.files[Top.file].lines)
        BY <2>9 DEF EndOfFile
      <4>2. /\ Len(project.files[Top.file].lines) \in Nat /\ Top.position \in Nat
        BY <1>1, <4>1, TopFacts
      <4> QED
        BY <4>1, <4>2 DEF Read
    <3> QED
      BY <3>1, <3>2 DEF LastDefinition, Active
  <2> QED
    BY <1>1, <2>2, <2>3, <2>5, <2>6, <2>7, <2>8, <2>9 DEF Next
<1> QED
  BY <1>1, TableStaysWhole, FilesStayNested, PTL DEF Spec

-----------------------------------------------------------------------------
(* The end of it.                                                            *)

\* What is left: the parts of the work, the definitions or files of the part
\* under way, and of each file being read, the outermost first, its lines and
\* its end.
Phase == IF status = "definitions" THEN 0 ELSE IF status = "files" THEN 1 ELSE 2
ListEnd ==
    (IF status = "definitions" THEN Len(project.definitions) ELSE Len(project.files)) + 1
Remaining(i) ==
    IF i <= Len(stack)
    THEN Len(project.files[stack[i].file].lines) + 2 - stack[i].position
    ELSE 0

\* A step opens the next part, takes the next of a part's list, or leaves less
\* of one of the files being read and as much of those around it.
Descends ==
    \/ Phase' > Phase
    \/ Phase' = Phase /\ index' > index /\ index' <= ListEnd
    \/ /\ Phase' = Phase /\ index' = index
       /\ \E i \in 1 .. MaxDepth :
             /\ Remaining(i)' \in Nat /\ Remaining(i)' < Remaining(i)
             /\ \A j \in 1 .. i - 1 : Remaining(j)' = Remaining(j)

\* A line further on leaves less.
LEMMA LessAhead ==
    ASSUME NEW n \in Nat, NEW p \in Nat, p <= n
    PROVE  n + 2 - (p + 1) \in Nat /\ n + 2 - (p + 1) < n + 2 - p
  OBVIOUS

\* The innermost file gets shorter, and what is on top of it is new.
LEMMA LineDescends ==
    ASSUME StackOK, stack # <<>>, NEW g, NEW S, stack' \in Seq(S),
           Top.position <= Len(project.files[Top.file].lines),
           g.file = Top.file, g.position = Top.position + 1,
           Len(stack') >= Len(stack), stack'[Len(stack)] = g,
           \A i \in 1 .. Len(stack) - 1 : stack'[i] = stack[i],
           project' = project, index' = index, status' = status
    PROVE  Descends
<1>1. PICK n \in Nat : n = Len(stack)
  BY TopFacts
<1>2. PICK len \in Nat : len = Len(project.files[Top.file].lines)
  BY TopFacts
<1>3. n > 0 /\ Top.position \in Nat /\ Top = stack[n] /\ Len(stack') \in Nat
  BY <1>1, TopFacts, LenProperties DEF Top
<1>4. Remaining(n) = len + 2 - Top.position
  BY <1>1, <1>2, <1>3 DEF Remaining
<1>5. n <= Len(stack') /\ stack'[n] = g
  BY <1>1
<1>6. Remaining(n)' = len + 2 - (Top.position + 1)
  BY <1>2, <1>5 DEF Remaining
<1>7. ASSUME NEW j \in 1 .. n - 1 PROVE Remaining(j)' = Remaining(j)
  <2>1. j <= n /\ j <= Len(stack')
    BY <1>3, <1>5
  <2>2. stack'[j] = stack[j]
    BY <1>1
  <2> QED
    BY <1>1, <2>1, <2>2 DEF Remaining
<1>8. Remaining(n)' \in Nat /\ Remaining(n)' < Remaining(n)
  <2>1. PICK p \in Nat : p = Top.position
    BY <1>3
  <2>2. p <= len
    BY <1>2, <2>1
  <2>3. len + 2 - (p + 1) \in Nat /\ len + 2 - (p + 1) < len + 2 - p
    BY <2>2, LessAhead
  <2> QED
    BY <1>4, <1>6, <2>1, <2>3
<1>9. n \in 1 .. MaxDepth
  BY <1>1, <1>3, DepthAssumption DEF StackOK
<1>10. Phase' = Phase
  BY DEF Phase
<1> QED
  BY <1>7, <1>8, <1>9, <1>10 DEF Descends

LEMMA FailureDescends ==
    ASSUME status \in {"definitions", "files"}, status' = "failed"
    PROVE  Descends
<1>1. Phase' = 2 /\ Phase \in {0, 1}
  BY DEF Phase
<1> QED
  BY <1>1 DEF Descends

LEMMA LineDoneDescends ==
    ASSUME StackOK, NEW kinds, Read(kinds),
           NEW ok, NEW frame, NEW text, LineDone(ok, frame, text),
           PastLine(frame).file = Top.file, PastLine(frame).position = Top.position + 1
    PROVE  Descends
<1>1. /\ stack # <<>> /\ status = "files"
      /\ Top.position <= Len(project.files[Top.file].lines)
  BY LineFacts
<1>2. CASE status' = "failed"
  BY <1>1, <1>2, FailureDescends
<1>3. CASE stack' = Advanced(frame) /\ UNCHANGED <<project, status, index>>
  <2> DEFINE g == PastLine(frame)
  <2>1. g.file = Top.file /\ g.position = Top.position + 1
    OBVIOUS
  <2>2. stack' = [stack EXCEPT ![Len(stack)] = g]
    BY <1>3 DEF Advanced, PastLine
  <2> HIDE DEF g
  <2>3. PICK S : stack \in Seq(S)
    BY DEF StackOK
  <2>4. stack \in Seq(S \union {g}) /\ Len(stack) \in Nat /\ Len(stack) > 0
        /\ DOMAIN stack = 1 .. Len(stack)
    BY <1>1, <2>3, SeqMonotonic, TopFacts
  <2>5. stack' \in Seq(S \union {g}) /\ Len(stack') = Len(stack)
    BY <2>2, <2>4, ExceptSeq
  <2>6. Len(stack) \in DOMAIN stack /\ \A i \in 1 .. Len(stack) - 1 : i \in DOMAIN stack /\ i # Len(stack)
    BY <2>4, Below
  <2>7. stack'[Len(stack)] = g /\ \A i \in 1 .. Len(stack) - 1 : stack'[i] = stack[i]
    BY ONLY <2>2, <2>6
  <2>8. Len(stack') >= Len(stack)
    BY <2>4, <2>5
  <2> QED
    BY <1>1, <1>3, <2>1, <2>5, <2>7, <2>8, LineDescends
<1> QED
  BY <1>2, <1>3 DEF LineDone

LEMMA PlainDescends ==
    ASSUME StackOK, NEW kinds, Read(kinds), NEW ok, NEW text, LineDone(ok, Top, text)
    PROVE  Descends
<1>1. FrameFields \subseteq DOMAIN Top
  BY LineFacts
<1>2. PastLine(Top).file = Top.file /\ PastLine(Top).position = Top.position + 1
  BY <1>1, AfterFacts DEF PastLine
<1> QED
  BY <1>2, LineDoneDescends

LEMMA GroupDescends ==
    ASSUME StackOK, NEW kinds, Read(kinds), NEW groups, NEW active, NEW ok,
           LineDone(ok, [Top EXCEPT !.groups = groups, !.active = active], <<Newline>>)
    PROVE  Descends
<1> DEFINE frame == [Top EXCEPT !.groups = groups, !.active = active]
<1>1. FrameFields \subseteq DOMAIN Top
  BY LineFacts
<1>2. PastLine(frame).file = Top.file /\ PastLine(frame).position = Top.position + 1
  BY <1>1, AfterFacts DEF PastLine
<1> HIDE DEF frame
<1>3. LineDone(ok, frame, <<Newline>>)
  BY DEF frame
<1> QED
  BY <1>2, <1>3, LineDoneDescends

LEMMA OpenDescends ==
    ASSUME StackOK, OpenGroup
    PROVE  Descends
<1>1. Read(Openers) /\ FrameFields \subseteq DOMAIN Top
  BY LineFacts DEF OpenGroup
<1>2. PICK v, valid :
        LineDone(valid /\ Len(Top.groups) < MaxDepth,
                 [Top EXCEPT !.groups = Append(@, [parent |-> Top.active, taken |-> v,
                                                   seen_else |-> FALSE]),
                             !.active = @ /\ v],
                 <<Newline>>)
  BY DEF OpenGroup, Directive
<1>3. \E ok, groups, active :
        LineDone(ok, [Top EXCEPT !.groups = groups, !.active = active], <<Newline>>)
  BY <1>1, <1>2 DEF FrameFields
<1> QED
  BY <1>1, <1>3, GroupDescends

\* What the other conditional directives leave of the frame.
LEMMA BranchFrames ==
    ASSUME ElseIf \/ Else \/ EndIf
    PROVE  \/ \E ok, text : LineDone(ok, Top, text)
           \/ \E ok, groups, active :
                 LineDone(ok, [Top EXCEPT !.groups = groups, !.active = active], <<Newline>>)
<1>1. \A ok, group, active :
        LineDone(ok, WithGroup(group, active), <<Newline>>) =>
          \E groups : LineDone(ok, [Top EXCEPT !.groups = groups, !.active = active], <<Newline>>)
  BY DEF WithGroup
<1>2. CASE ElseIf
  BY <1>1, <1>2 DEF ElseIf, Directive
<1>3. CASE Else
  BY <1>1, <1>3 DEF Else, Directive
<1>4. CASE EndIf
  BY <1>4 DEF EndIf, Directive
<1> QED
  BY <1>2, <1>3, <1>4

LEMMA IncludeDescends ==
    ASSUME StackOK, Include
    PROVE  Descends
<1>1. Read({"include"})
  BY DEF Include, Active
<1>2. CASE \E ok : LineDone(ok, Top, <<Newline>>)
  BY <1>1, <1>2, PlainDescends
<1>3. CASE /\ stack' = Append(Advanced(Top), Frame(Included))
           /\ UNCHANGED <<project, status, index, output>>
  <2> DEFINE g == PastLine(Top)
             base == Advanced(Top)
  <2>1. FrameFields \subseteq DOMAIN Top /\ stack # <<>>
        /\ Top.position <= Len(project.files[Top.file].lines)
    BY <1>1, LineFacts
  <2>2. g.file = Top.file /\ g.position = Top.position + 1
    BY <2>1, AfterFacts DEF PastLine
  <2>3. base = [stack EXCEPT ![Len(stack)] = g]
    BY DEF Advanced, PastLine
  <2> HIDE DEF g, base
  <2>4. PICK S : stack \in Seq(S)
    BY DEF StackOK
  <2>5. stack \in Seq(S \union {g}) /\ Len(stack) \in Nat /\ Len(stack) > 0
        /\ DOMAIN stack = 1 .. Len(stack)
    BY <2>1, <2>4, SeqMonotonic, TopFacts
  <2>6. base \in Seq(S \union {g}) /\ Len(base) = Len(stack)
    BY <2>3, <2>5, ExceptSeq
  <2>7. Len(stack) \in DOMAIN stack /\ \A i \in 1 .. Len(stack) - 1 : i \in DOMAIN stack /\ i # Len(stack)
    BY <2>5, Below
  <2>8. base[Len(stack)] = g /\ \A i \in 1 .. Len(stack) - 1 : base[i] = stack[i]
    BY ONLY <2>3, <2>7
  <2> DEFINE T == S \union {g, Frame(Included)}
  <2>9. base \in Seq(T)
    BY <2>6, SeqMonotonic
  <2>10. stack' = Append(base, Frame(Included))
    BY <1>3 DEF base
  <2> HIDE DEF T
  <2>11. Frame(Included) \in T
    BY DEF T
  <2>12. /\ stack' \in Seq(T) /\ Len(stack') = Len(stack) + 1
         /\ \A i \in 1 .. Len(stack) : stack'[i] = base[i]
    BY <2>6, <2>9, <2>10, <2>11, AppendProperties
  <2>13. Len(stack) \in 1 .. Len(stack) /\ \A i \in 1 .. Len(stack) - 1 : i \in 1 .. Len(stack)
    BY <2>5, Below
  <2>14. stack'[Len(stack)] = g /\ \A i \in 1 .. Len(stack) - 1 : stack'[i] = stack[i]
    BY <2>8, <2>12, <2>13
  <2>15. Len(stack') >= Len(stack)
    BY <2>5, <2>12
  <2> QED
    BY <1>3, <2>1, <2>2, <2>12, <2>14, <2>15, LineDescends
<1> QED
  BY <1>2, <1>3 DEF Include, Directive

LEMMA EndOfFileDescends ==
    ASSUME StackOK, EndOfFile
    PROVE  Descends
<1>1. stack # <<>> /\ status = "files" /\ Top.position > Len(project.files[Top.file].lines)
  BY DEF EndOfFile
<1>2. CASE Fail
  BY <1>1, <1>2, FailureDescends DEF Fail
<1>3. CASE stack' = Front(stack) /\ UNCHANGED <<project, status, index>>
  <2>1. PICK n \in Nat : n = Len(stack)
    BY TopFacts
  <2>2. PICK len \in Nat : len = Len(project.files[Top.file].lines)
    BY <1>1, TopFacts
  <2>3. n > 0 /\ Top.position \in Nat /\ Top = stack[n]
    BY <1>1, <2>1, TopFacts DEF Top
  <2>4. Top.position = len + 1
    <3>1. Top.position \in 1 .. len + 1
      BY <1>1, <2>2, TopFacts DEF FrameOK
    <3> QED
      BY <1>1, <2>2, <2>3, <3>1
  <2>5. PICK S : stack \in Seq(S)
    BY DEF StackOK
  <2>6. Len(stack') = n - 1 /\ \A i \in 1 .. n - 1 : stack'[i] = stack[i]
    BY <1>1, <1>3, <2>1, <2>5, FrontFacts
  <2>7. Remaining(n) = len + 2 - Top.position
    BY <2>1, <2>2, <2>3 DEF Remaining
  <2>8. Remaining(n)' = 0
    <3>1. ~(n <= n - 1)
      OBVIOUS
    <3> QED
      BY <2>6, <3>1 DEF Remaining
  <2>9. Remaining(n)' \in Nat /\ Remaining(n)' < Remaining(n)
    BY <2>4, <2>7, <2>8
  <2>10. ASSUME NEW j \in 1 .. n - 1 PROVE Remaining(j)' = Remaining(j)
    <3>1. j <= n /\ j <= Len(stack')
      BY <2>6
    <3>2. stack'[j] = stack[j]
      BY <2>6
    <3> QED
      BY <1>3, <2>1, <3>1, <3>2 DEF Remaining
  <2>11. n \in 1 .. MaxDepth
    BY <2>1, <2>3, DepthAssumption DEF StackOK
  <2>12. Phase' = Phase
    BY <1>3 DEF Phase
  <2> QED
    BY <1>3, <2>9, <2>10, <2>11, <2>12 DEF Descends
<1> QED
  BY <1>2, <1>3 DEF EndOfFile

\* Preprocessing ends, however the files of the project include one another:
\* of the phase, the list under way and the files being read, at most as many
\* as the includes may be nested, the first that a step changes gets less.
THEOREM PreprocessingDescends == Spec => [][Descends]_vars
<1>1. ASSUME StackOK, Next
      PROVE  Descends
  <2>1. /\ index \in Nat /\ Len(project.files) \in Nat /\ Len(project.definitions) \in Nat
    BY <1>1, TopFacts DEF StackOK
  <2>2. CASE GiveDefinition
    <3>1. CASE Fail
      BY <2>2, <3>1, FailureDescends DEF GiveDefinition, Fail
    <3>2. CASE ~Fail
      <4>1. /\ status = "definitions" /\ status' = status /\ index' = index + 1
            /\ index <= Len(project.definitions)
        BY <2>2, <3>2 DEF GiveDefinition
      <4>2. index' > index /\ index' <= ListEnd /\ Phase' = Phase
        BY <2>1, <4>1 DEF ListEnd, Phase
      <4> QED
        BY <4>2 DEF Descends
    <3> QED
      BY <3>1, <3>2
  <2>3. CASE StartFiles \/ Finish
    <3>1. Phase' > Phase
      BY <2>3 DEF StartFiles, Finish, Phase
    <3> QED
      BY <3>1 DEF Descends
  <2>4. CASE NextUnit
    <3>1. CASE Fail
      BY <2>4, <3>1, FailureDescends DEF NextUnit, Fail
    <3>2. CASE ~Fail
      <4>1. /\ status = "files" /\ status' = status /\ index' = index + 1
            /\ index <= Len(project.files)
        BY <2>4, <3>2 DEF NextUnit
      <4>2. index' > index /\ index' <= ListEnd /\ Phase' = Phase
        BY <2>1, <4>1 DEF ListEnd, Phase
      <4> QED
        BY <4>2 DEF Descends
    <3> QED
      BY <3>1, <3>2
  <2>5. CASE EndOfFile
    BY <1>1, <2>5, EndOfFileDescends
  <2>6. CASE Include
    BY <1>1, <2>6, IncludeDescends
  <2>7. CASE OpenGroup
    BY <1>1, <2>7, OpenDescends
  <2>8. CASE ElseIf \/ Else \/ EndIf
    <3>1. \E kinds : Read(kinds)
      BY <2>8 DEF ElseIf, Else, EndIf
    <3>2. CASE \E ok, text : LineDone(ok, Top, text)
      BY <1>1, <3>1, <3>2, PlainDescends
    <3>3. CASE \E ok, groups, active :
                 LineDone(ok, [Top EXCEPT !.groups = groups, !.active = active], <<Newline>>)
      BY <1>1, <3>1, <3>3, GroupDescends
    <3> QED
      BY <2>8, <3>2, <3>3, BranchFrames
  <2>9. CASE DefineMacro \/ UndefineMacro \/ PragmaOnce \/ Refused \/ Text \/ SkipLine
    <3>1. \E kinds : Read(kinds)
      BY <2>9 DEF DefineMacro, UndefineMacro, PragmaOnce, Refused, Text, SkipLine, Active
    <3>2. \E ok, text : LineDone(ok, Top, text)
      BY <2>9 DEF DefineMacro, UndefineMacro, PragmaOnce, Refused, Text, SkipLine, Directive
    <3> QED
      BY <1>1, <3>1, <3>2, PlainDescends
  <2> QED
    BY <1>1, <2>2, <2>3, <2>4, <2>5, <2>6, <2>7, <2>8, <2>9 DEF Next
<1> QED
  BY <1>1, FilesStayNested, PTL DEF Spec
=============================================================================
