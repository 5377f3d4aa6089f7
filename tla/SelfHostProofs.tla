--------------------------- MODULE SelfHostProofs ---------------------------
(***************************************************************************)
(* Proofs, for every disk the host prepares and wherever the power fails,  *)
(* that what the self-hosted compiler reports is there, that it stores to  *)
(* its own part of the disk only, that it reads inside the project, that   *)
(* it reads every bundle that the host's decoder does, and of what else    *)
(* only streams framed like one, that what it jumps to is the image it     *)
(* stored, and that a boot ends.                                           *)
(*                                                                         *)
(* The first part is about the reader of ProjectBundle, then come what a   *)
(* store to the disk can change and each action; then the decoder of       *)
(* ProjectBundle, and how the reader follows it, action by action; last,   *)
(* what runs, and what is left of a boot at each step.                     *)
(***************************************************************************)
EXTENDS SelfHost, SequenceTheorems, FiniteSetTheorems, TLAPS

Readers == [address : Nat, length : Nat, position : Nat, error : BOOLEAN]

Spans == [address : Nat, length : Nat]

\* A reader stays at a word of its project, or at its end.
Sound(r) == r \in Readers /\ r.position <= r.length /\ r.position % 4 = 0

\* s is r some fields later.
Advanced(r, s) ==
    /\ Sound(s)
    /\ s.address = r.address /\ s.length = r.length /\ r.position <= s.position

\* A text lies in the project of r, behind its header and a length.
Inside(t, r) ==
    t # NoText =>
      /\ t.address >= r.address + 28
      /\ t.address + t.length <= r.address + r.length

----------------------------------------------------------------------------
(* The reader.                                                              *)

\* The words of an image, or of a padded text.
LEMMA PaddedFacts ==
  ASSUME NEW n \in Nat
  PROVE  /\ Padded(n) \in Nat /\ Padded(n) % 4 = 0
         /\ n <= Padded(n) /\ Padded(n) <= n + 3
         /\ \A i \in Nat : i <= Padded(n) \div 4 - 1 <=> 4 * i < n
<1> DEFINE k == (n + 3) \div 4
<1>1. k \in Nat /\ 4 * k <= n + 3 /\ n < 4 * k + 1
  OBVIOUS
<1>2. Padded(n) = 4 * k /\ (4 * k) \div 4 = k /\ (4 * k) % 4 = 0
  BY <1>1 DEF Padded
<1> HIDE DEF k
<1> QED
  BY <1>1, <1>2

\* An error moves nothing.
LEMMA Marked ==
  ASSUME NEW r, NEW s, Advanced(r, s), NEW e \in BOOLEAN
  PROVE  Advanced(r, [s EXCEPT !.error = e]) /\ [s EXCEPT !.error = e].error = e
<1> DEFINE t == [s EXCEPT !.error = e]
<1>1. s \in Readers
  BY DEF Advanced, Sound
<1>2. /\ t \in Readers /\ t.error = e
      /\ t.address = s.address /\ t.length = s.length /\ t.position = s.position
  BY <1>1 DEF Readers
<1> HIDE DEF t
<1>3. Advanced(r, t)
  BY <1>2 DEF Advanced, Sound
<1> QED
  BY <1>2, <1>3 DEF t

\* dyn_project_u32 stays inside the project.
LEMMA U32Facts ==
  ASSUME NEW r, Sound(r)
  PROVE  /\ Advanced(r, U32(r))
         /\ r.error => U32(r).error
         /\ U32(r).error \/ U32(r).position = r.position + 4
<1>1. r \in Readers
  BY DEF Sound
<1>2. CASE Short(r)
  <2>1. U32(r) = [r EXCEPT !.error = TRUE]
    BY <1>2 DEF U32
  <2>2. U32(r).error
    BY <1>1, <2>1 DEF Readers
  <2>3. Advanced(r, r)
    BY <1>1 DEF Advanced, Sound, Readers
  <2>4. Advanced(r, U32(r))
    BY <2>1, <2>3, Marked
  <2> QED
    BY <2>2, <2>4
<1>3. CASE ~Short(r)
  <2>1. U32(r) = [r EXCEPT !.position = r.position + 4]
    BY <1>1, <1>3 DEF U32, Readers
  <2>2. r.position + 4 <= r.length /\ (r.position + 4) % 4 = 0
    BY <1>1, <1>3 DEF Sound, Short, Readers
  <2> QED
    BY <1>1, <2>1, <2>2 DEF Sound, Advanced, Readers
<1> QED
  BY <1>2, <1>3

\* Reading n words in a row does too.
LEMMA U32sFacts ==
  ASSUME NEW r, Sound(r), NEW n \in Nat
  PROVE  /\ Advanced(r, U32s(r, n))
         /\ U32s(r, n).error \/ U32s(r, n).position = r.position + 4 * n
<1> DEFINE there == (r.length - r.position) \div 4
<1>1. r \in Readers /\ r.position \in Nat /\ r.length \in Nat
  BY DEF Sound, Readers
<1>2. there \in Nat /\ r.position + 4 * there <= r.length
  BY <1>1 DEF Sound
<1>3. \A k \in Nat : (r.position + 4 * k) % 4 = 0
  BY <1>1 DEF Sound
<1> HIDE DEF there
<1>4. CASE n <= there
  <2>1. U32s(r, n) = [r EXCEPT !.position = r.position + 4 * n]
    BY <1>1, <1>4 DEF U32s, Readers, there
  <2> QED
    BY <1>1, <1>2, <1>3, <1>4, <2>1 DEF Advanced, Sound, Readers
<1>5. CASE ~(n <= there)
  <2> DEFINE s == [r EXCEPT !.position = r.position + 4 * there]
  <2>1. U32s(r, n) = [s EXCEPT !.error = TRUE]
    BY <1>1, <1>5 DEF U32s, Readers, there
  <2>2. Advanced(r, s)
    BY <1>1, <1>2, <1>3 DEF Advanced, Sound, Readers
  <2> HIDE DEF s
  <2> QED
    BY <2>1, <2>2, Marked
<1> QED
  BY <1>4, <1>5

\* What the compiler reads from a disk is a word.
LEMMA ValueFacts ==
  ASSUME NEW m, m \in [DOMAIN m -> Words], NEW r
  PROVE  Value(m, r) \in Words
  BY BundleAssumption DEF Value, Load, Words

\* A text that was read lies inside the project, after its length.
LEMMA TextFacts ==
  ASSUME NEW m, m \in [DOMAIN m -> Words], NEW r, Sound(r), NEW room \in BOOLEAN
  PROVE  LET read == Text(m, r, room)
         IN  /\ Advanced(r, read.reader)
             /\ read.text \in Spans
             /\ read.text # NoText =>
                  /\ read.text.address >= r.address + r.position + 4
                  /\ read.text.address + read.text.length <= r.address + r.length
<1> DEFINE size == Value(m, r)
           s == U32(r)
           blob == Blob(m, r)
           read == Text(m, r, room)
<1>1. size \in Nat
  BY ValueFacts, BundleAssumption DEF Words
<1>2. Advanced(r, s) /\ (s.error \/ s.position = r.position + 4)
  BY U32Facts
<1>3. NoText \in Spans
  BY DEF NoText, Spans
<1> HIDE DEF size, s
<1>4. /\ Advanced(r, blob.reader) /\ blob.text \in Spans
      /\ blob.text # NoText =>
           /\ blob.text.address >= r.address + r.position + 4
           /\ blob.text.address + blob.text.length <= r.address + r.length
  <2>1. CASE s.error \/ size > LargestBlob
    <3>1. blob = [reader |-> s, text |-> NoText]
      <4>1. ~(~s.error /\ size <= LargestBlob /\ Overruns(s, size))
        BY <1>1, <2>1, BundleAssumption DEF LargestBlob
      <4> QED
        BY <2>1, <4>1 DEF Blob, s, size
    <3> QED
      BY <1>2, <1>3, <3>1
  <2>2. CASE ~s.error /\ ~(size > LargestBlob) /\ Overruns(s, size)
    <3>1. blob = [reader |-> [s EXCEPT !.error = TRUE], text |-> NoText]
      <4>1. size <= LargestBlob
        BY <1>1, <2>2, BundleAssumption DEF LargestBlob
      <4> QED
        BY <2>2, <4>1 DEF Blob, s, size
    <3>2. Advanced(r, [s EXCEPT !.error = TRUE])
      BY <1>2, Marked
    <3> QED
      BY <1>3, <3>1, <3>2
  <2>3. CASE ~s.error /\ ~(size > LargestBlob) /\ ~Overruns(s, size)
    <3> DEFINE e == [s EXCEPT !.position = s.position + Padded(size)]
               t == [address |-> s.address + s.position, length |-> size]
    <3>1. s \in Readers /\ r \in Readers
      BY <1>2 DEF Advanced, Sound
    <3>2. blob = [reader |-> e, text |-> t]
      BY <2>3, <3>1 DEF Blob, s, size, Readers
    <3>3. /\ Padded(size) \in Nat /\ Padded(size) % 4 = 0 /\ size <= Padded(size)
          /\ s.position + Padded(size) <= s.length
      BY <1>1, <2>3, <3>1, PaddedFacts DEF Overruns, Readers
    <3>4. Advanced(r, e)
      <4>1. /\ s.position \in Nat /\ s.position % 4 = 0 /\ r.position <= s.position
            /\ s.length = r.length /\ s.address = r.address /\ r.position \in Nat
        BY <1>2, <3>1 DEF Advanced, Sound, Readers
      <4>2. (s.position + Padded(size)) % 4 = 0 /\ r.position <= s.position + Padded(size)
        BY <3>3, <4>1
      <4> QED
        BY <3>1, <3>3, <4>1, <4>2 DEF Advanced, Sound, Readers
    <3>5. t \in Spans
      BY <1>1, <3>1 DEF Spans, Readers
    <3>6. /\ t.address >= r.address + r.position + 4
          /\ t.address + t.length <= r.address + r.length
      BY <1>1, <1>2, <2>3, <3>1, <3>3 DEF Advanced, Readers
    <3> QED
      BY <3>2, <3>4, <3>5, <3>6
  <2> QED
    BY <2>1, <2>2, <2>3
<1> HIDE DEF blob
<1>5. CASE blob.text # NoText /\ ~room
  <2>1. read = [reader |-> [blob.reader EXCEPT !.error = TRUE], text |-> NoText]
    BY <1>5 DEF Text, blob
  <2>2. Advanced(r, [blob.reader EXCEPT !.error = TRUE])
    BY <1>4, Marked
  <2> QED
    BY <1>3, <2>1, <2>2
<1>6. CASE ~(blob.text # NoText /\ ~room)
  <2>1. read = blob
    BY <1>6 DEF Text, blob
  <2> QED
    BY <1>4, <2>1
<1> QED
  BY <1>5, <1>6

----------------------------------------------------------------------------
(* The invariant.                                                           *)

Failures == {1, OutOfMemory, ParseError, 5, InvalidProject, OutputTooSmall}

Requests == [size : Words, project : Words, length : Words,
             output : Words, capacity : Words, mode : Words]

Jobs == [reader : Readers, counts : [Arrays -> Words], arrays : SUBSET Arrays,
         texts : Seq(Spans), entry : Nat, sources : Nat, starved : BOOLEAN,
         status : {OK} \cup Failures, position : Words, image : 0 .. MaxImage,
         index : Nat, outputLength : Words]

\* Where main is.
Reads == {"header", "reading", "path", "contents"}
Fails == {"cleanup", "wild", "failZero", "failPosition"}
StoresRecord == {"storeLength", "storeImage"}
Reports == {"reportLength", "reportStatus"}
Compiling == Reads \cup {"preprocess"} \cup Fails \cup StoresRecord \cup Reports
Refusing == {"reject", "rejectStatus"}
Places == Compiling \cup Refusing \cup {"boot", "begin", "copy", "jumped", "halted"}

Types ==
    /\ pc \in Places
    /\ request \in Requests
    /\ job \in Jobs
    /\ cuts \in 0 .. MaxCuts

\* The disk keeps its words, and is as large as it says.
DiskTypes ==
    /\ mem \in [DOMAIN mem -> Words]
    /\ 0 .. 10 \subseteq DOMAIN mem
    /\ {w \in Words : 4 * w < mem[2]} \subseteq DOMAIN mem

\* The reader, and every text read, are inside the project.
ReaderInside ==
    /\ Sound(job.reader)
    /\ \A i \in 1 .. Len(job.texts) : Inside(job.texts[i], job.reader)
    /\ pc \in {"path", "contents"} \/ (pc = "reading" /\ ~job.reader.error) =>
         job.reader.position >= 24

\* main's copies are the control block's while they are used, the status says
\* so while a compilation runs, and a bad request is never compiled.
Controlled ==
    /\ pc \in Compiling \cup {"begin"} => request = Requested /\ Valid(request)
    /\ pc \in Compiling => mem[8] = Running
    /\ pc \in Refusing => ~Valid(Requested)
    /\ pc = "rejectStatus" => mem[9] = 0
    /\ ~Valid(Requested) => mem[8] \in {Pending, InvalidControl}

\* The record holds the size of image and its first n words.
Holds(image, n) ==
    /\ mem[Output] = image
    /\ \A i \in 0 .. n - 1 : mem[Output + 1 + i] = ImageWord(image, i)

HoldsNothing == request.capacity >= 4 => mem[Output] = 0

\* How far the record has come, and what will be reported of it.
Recorded ==
    /\ pc \in Reads \cup {"preprocess"} => job.status = OK /\ job.index = 0
    /\ pc \in Fails => job.status \in Failures /\ job.outputLength = 8
    /\ pc = "failPosition" => HoldsNothing
    /\ pc \in StoresRecord =>
         /\ job.status = OK /\ job.outputLength = RecordLength(job.image)
         /\ job.outputLength <= request.capacity
    /\ pc = "storeLength" => job.index = 0
    /\ pc = "storeImage" => Holds(job.image, job.index)
    /\ pc \in Reports =>
         \/ /\ job.status = OK /\ job.outputLength = RecordLength(job.image)
            /\ job.outputLength <= request.capacity
            /\ Holds(job.image, Padded(job.image) \div 4)
         \/ job.status \in Failures /\ job.outputLength = 8 /\ HoldsNothing
    /\ pc = "reportStatus" => mem[9] = job.outputLength

BootInvariant ==
    /\ Types
    /\ DiskTypes
    /\ ReaderInside
    /\ Controlled
    /\ Recorded
    /\ ReportedIsWhole

----------------------------------------------------------------------------
(* Stores to the disk.                                                      *)

\* The words the compiler may store to.
Home(w) ==
    \/ w \in {8, 9}
    \/ /\ w \in Nat /\ w >= 11
       /\ 4 * w >= mem[6] /\ 4 * w < mem[6] + mem[7]
       /\ ~(4 * w >= mem[3] /\ 4 * w < mem[3] + mem[4])

StoresHome ==
    \E w \in DOMAIN mem, v \in Words : Home(w) /\ mem' = [mem EXCEPT ![w] = v]

\* The control block is made of words.
LEMMA RequestedWords ==
  ASSUME DiskTypes
  PROVE  Requested \in Requests /\ \A w \in 0 .. 10 : w \in DOMAIN mem /\ mem[w] \in Words
<1>1. \A w \in 0 .. 10 : w \in DOMAIN mem /\ mem[w] \in Words
  BY DEF DiskTypes
<1> QED
  BY <1>1 DEF Requested, Requests

\* The words of the output of an accepted request.
LEMMA OutputFacts ==
  ASSUME DiskTypes, request = Requested, Valid(request)
  PROVE  /\ Output \in Nat /\ 11 <= Output /\ Output = Out
         /\ \A k \in Nat : 4 * k + 4 <= request.capacity =>
              Output + k \in DOMAIN mem /\ Home(Output + k)
<1>1. /\ request.size \in Nat /\ request.project \in Nat /\ request.length \in Nat
      /\ request.output \in Nat /\ request.capacity \in Nat /\ request.size < Modulus
      /\ Modulus \in Nat
  BY RequestedWords, BundleAssumption DEF Requests, Words
<1>2. /\ request.size = mem[2] /\ request.project = mem[3] /\ request.length = mem[4]
      /\ request.output = mem[6] /\ request.capacity = mem[7]
  BY DEF Requested
<1>3. /\ request.output % 4 = 0 /\ request.project >= 44
      /\ request.capacity <= request.size - request.output
      /\ request.output >= request.project + request.length
  BY DEF Valid, CapacityFits, Apart
<1>4. Output \in Nat /\ 4 * Output = request.output /\ Output >= 11
  BY <1>1, <1>3 DEF Output
<1>5. ASSUME NEW k \in Nat, 4 * k + 4 <= request.capacity
      PROVE  Output + k \in DOMAIN mem /\ Home(Output + k)
  <2>1. 4 * (Output + k) < request.size /\ Output + k \in Words
    BY <1>1, <1>3, <1>4, <1>5 DEF Words
  <2>2. Output + k \in DOMAIN mem
    BY <1>2, <2>1 DEF DiskTypes
  <2>3. Home(Output + k)
    BY <1>1, <1>2, <1>3, <1>4, <1>5 DEF Home
  <2> QED
    BY <2>2, <2>3
<1> QED
  BY <1>2, <1>4, <1>5 DEF Output, Out

\* A store at home leaves the control block's request as it is.
LEMMA StoreFacts ==
  ASSUME DiskTypes, NEW w \in DOMAIN mem, NEW v \in Words, Home(w),
         mem' = [mem EXCEPT ![w] = v]
  PROVE  /\ DiskTypes' /\ Requested' = Requested /\ DOMAIN mem' = DOMAIN mem
         /\ mem'[w] = v /\ \A x \in DOMAIN mem : x # w => mem'[x] = mem[x]
<1>1. /\ DOMAIN mem' = DOMAIN mem /\ mem'[w] = v
      /\ \A x \in DOMAIN mem : x # w => mem'[x] = mem[x]
      /\ mem' \in [DOMAIN mem -> Words]
  BY DEF DiskTypes
<1>2. \A x \in {0, 1, 2, 3, 4, 5, 6, 7, 10} : x \in DOMAIN mem /\ x # w
  BY DEF Home, DiskTypes
<1>3. Requested' = Requested
  BY <1>1, <1>2 DEF Requested
<1>4. DiskTypes'
  BY <1>1, <1>2 DEF DiskTypes
<1> QED
  BY <1>1, <1>3, <1>4

\* Status words are words, and differ.
LEMMA Statuses ==
  /\ {OK, InvalidControl, Pending, Running, 8, 0} \cup Failures \subseteq Words
  /\ Running \notin {OK, InvalidControl, Pending} \cup Failures
  /\ Pending \notin {OK, InvalidControl} \cup Failures
  /\ InvalidControl \notin {OK} \cup Failures
  /\ OK \notin Failures
BY BundleAssumption, SelfHostAssumption
   DEF OK, OutOfMemory, ParseError, InvalidControl, InvalidProject, OutputTooSmall,
       Pending, Running, Words, Failures

\* What only the disk is about.
LEMMA SameDisk ==
  ASSUME mem' = mem, DiskTypes, ReportedIsWhole
  PROVE  DiskTypes' /\ ReportedIsWhole' /\ Requested' = Requested
BY DEF DiskTypes, ReportedIsWhole, RecordIsWhole, Out, Requested

\* While a compilation runs nothing is reported.
LEMMA Unreported ==
  ASSUME mem[8] \in {Running, Pending}
  PROVE  ReportedIsWhole
BY Statuses DEF ReportedIsWhole, Failures

----------------------------------------------------------------------------
(* The actions.                                                             *)

\* The locals before a compilation.
LEMMA IdleJob == Idle \in Jobs /\ Idle.reader = Reader(0, 0) /\ Idle.texts = <<>>
<1>1. Reader(0, 0) \in Readers
  BY DEF Reader, Readers
<1>2. <<>> \in Seq(Spans)
  BY EmptySeq
<1>3. 0 \in Words /\ NoPosition \in Words /\ 0 \in 0 .. MaxImage
  BY BundleAssumption, SelfHostAssumption DEF Words, NoPosition
<1>4. [a \in Arrays |-> 0] \in [Arrays -> Words]
  BY <1>3
<1> QED
  BY <1>1, <1>2, <1>3, <1>4 DEF Idle, Jobs

LEMMA IdleInside ==
  ASSUME job' = Idle, pc' = "boot"
  PROVE  ReaderInside'
<1>1. job'.reader = Reader(0, 0) /\ job'.texts = <<>>
  BY IdleJob
<1>2. Sound(Reader(0, 0))
  BY DEF Sound, Reader, Readers
<1> QED
  BY <1>1, <1>2, EmptySeq DEF ReaderInside

\* What every step keeps, and where it may store.
Kept == BootInvariant' /\ (mem' = mem \/ StoresHome)

\* A compilation that goes on without storing anything.
LEMMA QuietStep ==
  ASSUME BootInvariant, pc \in Compiling, UNCHANGED <<mem, request, cuts>>,
         pc' \in Compiling, job' \in Jobs, ReaderInside', Recorded'
  PROVE  Kept
<1>1. DiskTypes' /\ ReportedIsWhole' /\ Requested' = Requested
  BY SameDisk DEF BootInvariant
<1>2. Types'
  BY DEF BootInvariant, Types, Places
<1>3. Controlled'
  <2>1. pc \notin Refusing /\ pc' \notin Refusing /\ pc' # "rejectStatus"
    BY DEF Refusing, Compiling, Reads, Fails, StoresRecord, Reports
  <2>2. request' = Requested' /\ Valid(request') /\ mem'[8] = Running /\ Valid(Requested')
    BY <1>1 DEF BootInvariant, Controlled
  <2> QED
    BY <1>1, <2>1, <2>2 DEF Controlled
<1> QED
  BY <1>1, <1>2, <1>3 DEF BootInvariant, Kept

\* A step that leaves the reader alone.
LEMMA SameReader ==
  ASSUME ReaderInside, job'.reader = job.reader, job'.texts = job.texts,
         pc' \notin {"path", "contents", "reading"}
  PROVE  ReaderInside'
BY DEF ReaderInside

\* main finds that the disk is not for it (main.c:30-31).
LEMMA IgnoreStep ==
  ASSUME BootInvariant, Ignore
  PROVE  Kept
<1>1. UNCHANGED <<mem, request, job, cuts>> /\ pc' = "halted"
  BY DEF Ignore
<1>2. DiskTypes' /\ ReportedIsWhole' /\ Requested' = Requested
  BY <1>1, SameDisk DEF BootInvariant
<1>3. Types'
  BY <1>1 DEF BootInvariant, Types, Places
<1>4. ReaderInside'
  BY <1>1, SameReader DEF BootInvariant
<1>5. Controlled' /\ Recorded'
  BY <1>1, <1>2
     DEF BootInvariant, Controlled, Recorded, Refusing, Compiling, Reads, Fails, StoresRecord,
         Reports
<1> QED
  BY <1>1, <1>2, <1>3, <1>4, <1>5 DEF BootInvariant, Kept

\* main copies the request and checks it (main.c:32-51).
LEMMA ReadControlStep ==
  ASSUME BootInvariant, ReadControl
  PROVE  Kept
<1>1. /\ UNCHANGED <<mem, job, cuts>> /\ request' = Requested
      /\ pc' = IF Valid(Requested) THEN "begin" ELSE "reject"
  BY DEF ReadControl
<1>2. DiskTypes' /\ ReportedIsWhole' /\ Requested' = Requested
  BY <1>1, SameDisk DEF BootInvariant
<1>3. Types'
  BY <1>1, RequestedWords DEF BootInvariant, Types, Places, Refusing
<1>4. ReaderInside'
  BY <1>1, SameReader DEF BootInvariant
<1>5. Controlled' /\ Recorded'
  BY <1>1, <1>2
     DEF BootInvariant, Controlled, Recorded, Refusing, Compiling, Reads, Fails, StoresRecord,
         Reports
<1> QED
  BY <1>1, <1>2, <1>3, <1>4, <1>5 DEF BootInvariant, Kept

\* A bad request is answered with a length of zero, then with its status
\* (main.c:52-54).
LEMMA RejectStep ==
  ASSUME BootInvariant, RejectLength \/ RejectStatus
  PROVE  Kept
<1> DEFINE w == IF pc = "reject" THEN 9 ELSE 8
           v == IF pc = "reject" THEN 0 ELSE InvalidControl
<1>1. /\ UNCHANGED <<request, job, cuts>> /\ pc \in Refusing
      /\ mem' = [mem EXCEPT ![w] = v]
      /\ pc' = IF pc = "reject" THEN "rejectStatus" ELSE "halted"
  BY DEF RejectLength, RejectStatus, Refusing
<1>2. w \in DOMAIN mem /\ v \in Words /\ Home(w) /\ w \in {8, 9}
  BY Statuses DEF BootInvariant, DiskTypes, Home
<1>3. /\ DiskTypes' /\ Requested' = Requested /\ DOMAIN mem' = DOMAIN mem
      /\ mem'[w] = v /\ \A x \in DOMAIN mem : x # w => mem'[x] = mem[x]
  BY <1>1, <1>2, StoreFacts DEF BootInvariant
<1>4. Types'
  BY <1>1 DEF BootInvariant, Types, Places, Refusing
<1>5. ReaderInside'
  BY <1>1, SameReader DEF BootInvariant
<1>6. 8 \in DOMAIN mem /\ 9 \in DOMAIN mem
  BY DEF BootInvariant, DiskTypes
<1>7. /\ ~Valid(Requested) /\ mem[8] \in {Pending, InvalidControl}
      /\ mem'[8] \in {Pending, InvalidControl}
      /\ pc = "reject" \/ mem[8] = InvalidControl => mem'[9] = 0
      /\ mem'[8] = InvalidControl => mem'[9] = 0
  <2>1. ~Valid(Requested) /\ mem[8] \in {Pending, InvalidControl}
    BY <1>1 DEF BootInvariant, Controlled
  <2>2. mem[8] = InvalidControl => mem[9] = 0
    BY DEF BootInvariant, ReportedIsWhole
  <2>3. pc = "rejectStatus" => mem[9] = 0
    BY DEF BootInvariant, Controlled
  <2>4. CASE pc = "reject"
    BY <1>3, <1>6, <2>1, <2>4
  <2>5. CASE pc = "rejectStatus"
    BY <1>3, <1>6, <2>1, <2>3, <2>5
  <2> QED
    BY <1>1, <2>4, <2>5 DEF Refusing
<1>8. ReportedIsWhole'
  BY <1>7, Statuses DEF ReportedIsWhole, Failures
<1> HIDE DEF w, v
<1>9. Controlled' /\ Recorded'
  BY <1>1, <1>3, <1>7
     DEF BootInvariant, Controlled, Recorded, Refusing, Compiling, Reads, Fails, StoresRecord,
         Reports
<1> QED
  BY <1>1, <1>2, <1>3, <1>4, <1>5, <1>8, <1>9 DEF BootInvariant, Kept, StoresHome

\* A compilation starts: the status says so (main.c:56-57).
LEMMA BeginStep ==
  ASSUME BootInvariant, Begin
  PROVE  Kept
<1>1. /\ UNCHANGED <<request, cuts>> /\ pc = "begin" /\ pc' = "header"
      /\ mem' = [mem EXCEPT ![8] = Running]
      /\ job' = [Idle EXCEPT !.reader = Reader(request.project, request.length)]
  BY DEF Begin
<1>2. 8 \in DOMAIN mem /\ Running \in Words /\ Home(8)
  BY Statuses DEF BootInvariant, DiskTypes, Home
<1>3. DiskTypes' /\ Requested' = Requested /\ mem'[8] = Running
  BY <1>1, <1>2, StoreFacts DEF BootInvariant
<1>4. /\ job' \in Jobs /\ job'.reader = Reader(request.project, request.length)
      /\ job'.texts = <<>> /\ job'.status = OK /\ job'.index = 0
      /\ Sound(job'.reader)
  <2>1. Reader(request.project, request.length) \in Readers
    BY BundleAssumption DEF BootInvariant, Types, Requests, Words, Reader, Readers
  <2>2. Idle \in Jobs
    BY IdleJob
  <2>3. Sound(Reader(request.project, request.length))
    BY <2>1 DEF Sound, Reader, Readers
  <2> QED
    BY <1>1, <2>1, <2>2, <2>3 DEF Jobs, Idle
<1>5. Types'
  BY <1>1, <1>4 DEF BootInvariant, Types, Places, Compiling, Reads
<1>6. ReaderInside'
  BY <1>1, <1>4, EmptySeq DEF ReaderInside
<1>7. Controlled' /\ Recorded'
  BY <1>1, <1>3, <1>4
     DEF BootInvariant, Controlled, Recorded, Refusing, Compiling, Reads, Fails, StoresRecord,
         Reports
<1>8. ReportedIsWhole'
  BY <1>3, Statuses DEF ReportedIsWhole, Failures
<1> QED
  BY <1>1, <1>2, <1>3, <1>5, <1>6, <1>7, <1>8 DEF BootInvariant, Kept, StoresHome

\* Six words and the tables; calloc may find no memory for some
\* (compiler.c:323-335).
LEMMA ReadHeaderStep ==
  ASSUME BootInvariant, ReadHeader
  PROVE  Kept
<1> DEFINE v == [i \in 0 .. 5 |-> Value(mem, U32s(job.reader, i))]
           counts == [a \in Arrays |-> CASE a = "files" -> v[3] [] a = "roots" -> v[4]
                                         [] a = "definitions" -> v[5]]
           wanted == {a \in Arrays : counts[a] # 0}
           misread == v[0] # BundleMagic \/ v[1] # 1 \/ v[2] # 0
           after == U32s(job.reader, 6)
<1>1. job \in Jobs /\ Sound(job.reader) /\ mem \in [DOMAIN mem -> Words] /\ pc = "header"
  BY DEF BootInvariant, Types, ReaderInside, DiskTypes, ReadHeader
<1>2. PICK got \in SUBSET wanted :
        job' = [job EXCEPT !.counts = counts, !.arrays = got, !.starved = got # wanted,
                  !.reader = [after EXCEPT !.error = after.error \/ misread \/ got # wanted]]
  <2>1. U32s(job.reader, 6) \in Readers
    BY <1>1, U32sFacts DEF Advanced, Sound
  <2> QED
    BY <2>1 DEF ReadHeader, Readers
<1>3. counts \in [Arrays -> Words]
  <2>1. \A i \in 0 .. 5 : v[i] \in Words
    BY <1>1, ValueFacts
  <2> HIDE DEF v
  <2> QED
    BY <2>1 DEF Arrays
<1>4. Advanced(job.reader, after) /\ (after.error \/ after.position = job.reader.position + 24)
  BY <1>1, U32sFacts
<1>5. wanted \subseteq Arrays
  OBVIOUS
<1> HIDE DEF counts, after, misread, wanted
<1> DEFINE e == after.error \/ misread \/ got # wanted
           r == [after EXCEPT !.error = e]
<1>6. Advanced(job.reader, r) /\ r.error = e /\ r.position = after.position
  <2>1. e \in BOOLEAN /\ after \in Readers
    BY <1>4 DEF Advanced, Sound
  <2> HIDE DEF e
  <2> QED
    BY <1>4, <2>1, Marked DEF Readers
<1>7. (got # wanted) \in BOOLEAN
  OBVIOUS
<1> HIDE DEF r
<1>8. /\ job' \in Jobs /\ job'.reader = r /\ job'.texts = job.texts
      /\ job'.status = job.status /\ job'.index = job.index
  <2>1. job' = [job EXCEPT !.counts = counts, !.arrays = got, !.starved = (got # wanted),
                           !.reader = r]
    BY <1>2 DEF r
  <2>2. r \in Readers /\ got \in SUBSET Arrays
    BY <1>5, <1>6 DEF Advanced, Sound
  <2> QED
    BY <1>1, <1>3, <1>7, <2>1, <2>2 DEF Jobs
<1>9. ReaderInside'
  <2>1. Sound(r) /\ r.address = job.reader.address /\ r.length = job.reader.length
    BY <1>6 DEF Advanced
  <2>2. \A i \in 1 .. Len(job.texts) : Inside(job.texts[i], r)
    BY <2>1 DEF BootInvariant, ReaderInside, Inside
  <2>3. ~r.error => r.position >= 24
    <3>1. job.reader.position \in Nat
      BY <1>1 DEF Sound, Readers
    <3>2. ~r.error => ~after.error
      BY <1>6 DEF e
    <3> QED
      BY <1>4, <1>6, <3>1, <3>2
  <2>4. pc' = "reading"
    BY DEF ReadHeader
  <2> QED
    BY <1>8, <2>1, <2>2, <2>3, <2>4 DEF ReaderInside
<1>10. /\ UNCHANGED <<mem, request, cuts>> /\ pc \in Reads /\ pc' \in Reads
       /\ pc' = "reading"
  BY DEF ReadHeader, Reads
<1>11. Recorded'
  BY <1>8, <1>10
     DEF BootInvariant, Recorded, Reads, Fails, StoresRecord, Reports
<1> QED
  BY <1>8, <1>9, <1>10, <1>11, QuietStep DEF Compiling

\* A text that is read stands behind those that were (compiler.c:61-75).
LEMMA ReadOneFacts ==
  ASSUME BootInvariant, NEW done \in Nat, ReadOne(done), job.reader.position >= 24
  PROVE  /\ job' \in Jobs /\ job'.status = job.status /\ job'.index = job.index
         /\ Advanced(job.reader, job'.reader)
         /\ \A i \in 1 .. Len(job'.texts) : Inside(job'.texts[i], job'.reader)
<1>1. job \in Jobs /\ Sound(job.reader) /\ mem \in [DOMAIN mem -> Words]
  BY DEF BootInvariant, Types, ReaderInside, DiskTypes
<1>2. PICK room \in BOOLEAN :
        LET read == Text(mem, job.reader, room)
        IN  job' = [job EXCEPT !.reader = read.reader, !.texts = Append(@, read.text),
                               !.entry = @ + done, !.starved = @ \/ ~room]
  BY DEF ReadOne
<1> DEFINE read == Text(mem, job.reader, room)
           texts == Append(job.texts, read.text)
           starved == job.starved \/ ~room
<1>3. /\ Advanced(job.reader, read.reader) /\ read.text \in Spans
      /\ read.text # NoText =>
           /\ read.text.address >= job.reader.address + job.reader.position + 4
           /\ read.text.address + read.text.length <= job.reader.address + job.reader.length
  BY <1>1, TextFacts
<1>4. starved \in BOOLEAN
  OBVIOUS
<1> HIDE DEF read
<1>5. job.texts \in Seq(Spans) /\ job.entry \in Nat
  BY <1>1 DEF Jobs
<1>6. /\ texts \in Seq(Spans) /\ Len(texts) = Len(job.texts) + 1
      /\ \A i \in 1 .. Len(job.texts) : texts[i] = job.texts[i]
      /\ texts[Len(job.texts) + 1] = read.text
      /\ Len(job.texts) \in Nat
  BY <1>3, <1>5, AppendProperties, LenProperties
<1> HIDE DEF texts, starved
<1>7. /\ job' \in Jobs /\ job'.reader = read.reader /\ job'.texts = texts
      /\ job'.status = job.status /\ job'.index = job.index
  <2>1. job' = [job EXCEPT !.reader = read.reader, !.texts = texts,
                           !.entry = job.entry + done, !.starved = starved]
    BY <1>1, <1>2 DEF read, texts, starved, Jobs
  <2>2. read.reader \in Readers /\ job.entry + done \in Nat
    BY <1>3, <1>5 DEF Advanced, Sound
  <2> QED
    BY <1>1, <1>4, <1>6, <2>1, <2>2 DEF Jobs
<1>8. ASSUME NEW i \in 1 .. Len(texts)
      PROVE  Inside(texts[i], read.reader)
  <2>1. /\ read.reader.address = job.reader.address
        /\ read.reader.length = job.reader.length
    BY <1>3 DEF Advanced
  <2>2. CASE i \in 1 .. Len(job.texts)
    BY <1>6, <2>1, <2>2 DEF BootInvariant, ReaderInside, Inside
  <2>3. CASE i = Len(job.texts) + 1
    <3>1. /\ job.reader.address \in Nat /\ job.reader.position \in Nat
          /\ read.text.address \in Nat
      BY <1>1, <1>3 DEF Sound, Readers, Spans
    <3>2. texts[i] = read.text
      BY <1>6, <2>3
    <3>3. read.text # NoText => read.text.address >= job.reader.address + 28
      BY <1>3, <3>1
    <3> QED
      BY <1>3, <2>1, <3>2, <3>3 DEF Inside
  <2> QED
    BY <1>6, <2>2, <2>3
<1> QED
  BY <1>3, <1>7, <1>8

\* An include root or a definition, a path, or the contents of a file
\* (compiler.c:336-355).
LEMMA ReadTextStep ==
  ASSUME BootInvariant, ReadText \/ ReadPath \/ ReadContents
  PROVE  Kept
<1>1. /\ UNCHANGED <<mem, request, cuts>> /\ pc \in Reads
      /\ pc' \in {"contents", "reading"}
      /\ (pc = "reading" /\ ~job.reader.error) \/ pc \in {"path", "contents"}
      /\ ReadOne(0) \/ ReadOne(1)
  BY DEF ReadText, Reading, ReadPath, ReadContents, Reads
<1>2. job.reader.position >= 24
  BY <1>1 DEF BootInvariant, ReaderInside
<1>3. /\ job' \in Jobs /\ job'.status = job.status /\ job'.index = job.index
      /\ Advanced(job.reader, job'.reader)
      /\ \A i \in 1 .. Len(job'.texts) : Inside(job'.texts[i], job'.reader)
  BY <1>1, <1>2, ReadOneFacts
<1>4. ReaderInside'
  <2>1. job'.reader.position >= 24
    BY <1>2, <1>3 DEF Advanced, Sound, Readers, BootInvariant, ReaderInside
  <2> QED
    BY <1>3, <2>1 DEF ReaderInside, Advanced
<1>5. Recorded' /\ pc' \in Reads
  BY <1>1, <1>3
     DEF BootInvariant, Recorded, Reads, Fails, StoresRecord, Reports
<1> QED
  BY <1>1, <1>3, <1>4, <1>5, QuietStep DEF Compiling

\* The kind of a file (compiler.c:347-350).
LEMMA ReadKindStep ==
  ASSUME BootInvariant, ReadKind
  PROVE  Kept
<1> DEFINE kind == Value(mem, job.reader)
           after == U32(job.reader)
           e == after.error \/ kind \notin {1, 2}
           r == [after EXCEPT !.error = e]
           n == job.sources + (IF kind = 1 THEN 1 ELSE 0)
<1>1. /\ job \in Jobs /\ Sound(job.reader) /\ pc = "reading" /\ ~job.reader.error
      /\ pc' = "path" /\ UNCHANGED <<mem, request, cuts>>
  BY DEF BootInvariant, Types, ReaderInside, ReadKind, Reading
<1>2. Advanced(job.reader, after) /\ after \in Readers
  BY <1>1, U32Facts DEF Advanced, Sound
<1>3. job' = [job EXCEPT !.reader = r, !.sources = n]
  BY <1>1, <1>2 DEF ReadKind, Jobs, Readers
<1>4. e \in BOOLEAN /\ n \in Nat
  BY <1>1 DEF Jobs
<1> HIDE DEF after, e, n
<1>5. Advanced(job.reader, r) /\ r \in Readers
  BY <1>2, <1>4, Marked DEF Advanced, Sound
<1> HIDE DEF r
<1>6. /\ job' \in Jobs /\ job'.reader = r /\ job'.texts = job.texts
      /\ job'.status = job.status /\ job'.index = job.index
  BY <1>1, <1>3, <1>4, <1>5 DEF Jobs
<1>7. ReaderInside'
  <2>1. /\ Sound(r) /\ r.address = job.reader.address /\ r.length = job.reader.length
        /\ job.reader.position <= r.position /\ job.reader.position >= 24
        /\ job.reader.position \in Nat /\ r.position \in Nat
    BY <1>1, <1>5 DEF Advanced, Sound, Readers, BootInvariant, ReaderInside
  <2>2. \A i \in 1 .. Len(job.texts) : Inside(job.texts[i], r)
    BY <2>1 DEF BootInvariant, ReaderInside, Inside
  <2> QED
    BY <1>6, <2>1, <2>2 DEF ReaderInside
<1>8. Recorded' /\ pc' \in Reads /\ pc \in Reads
  BY <1>1, <1>6
     DEF BootInvariant, Recorded, Reads, Fails, StoresRecord, Reports
<1> QED
  BY <1>1, <1>6, <1>7, <1>8, QuietStep DEF Compiling

\* The compilation gives up: what it reports is a failure of length eight.
LEMMA GiveUp ==
  ASSUME BootInvariant, pc \in Compiling, UNCHANGED <<mem, request, cuts>>, pc' = "cleanup",
         job' \in Jobs, job'.reader = job.reader, job'.texts = job.texts,
         job'.status \in Failures, job'.outputLength = 8
  PROVE  Kept
<1>1. ReaderInside'
  BY SameReader DEF BootInvariant
<1>2. Recorded'
  BY DEF Recorded, Reads, Fails, StoresRecord, Reports
<1> QED
  BY <1>1, <1>2, QuietStep DEF Compiling, Fails

\* What was read is compiled if it is a project (compiler.c:356-365).
LEMMA EndReadingStep ==
  ASSUME BootInvariant, EndReading
  PROVE  Kept
<1>1. job \in Jobs /\ UNCHANGED <<mem, request, cuts>> /\ pc \in Compiling /\ pc = "reading"
  BY DEF BootInvariant, Types, EndReading, Compiling, Reads
<1>2. CASE Acceptable
  <2>1. pc' = "preprocess" /\ job' = job
    BY <1>2 DEF EndReading
  <2>2. ReaderInside'
    BY <2>1, SameReader DEF BootInvariant
  <2>3. Recorded'
    BY <1>1, <2>1 DEF BootInvariant, Recorded, Reads, Fails, StoresRecord, Reports
  <2> QED
    BY <1>1, <2>1, <2>2, <2>3, QuietStep DEF Compiling
<1>3. CASE ~Acceptable
  <2>1. /\ job' = [job EXCEPT !.status = InvalidProject, !.outputLength = 8]
        /\ pc' = "cleanup"
    BY <1>3 DEF EndReading, Fail
  <2>2. InvalidProject \in Failures /\ 8 \in Words
    BY Statuses DEF Failures
  <2>3. /\ job' \in Jobs /\ job'.reader = job.reader /\ job'.texts = job.texts
        /\ job'.status = InvalidProject /\ job'.outputLength = 8
    BY <1>1, <2>1, <2>2 DEF Jobs
  <2> QED
    BY <1>1, <2>1, <2>2, <2>3, GiveUp
<1> QED
  BY <1>2, <1>3

\* The lesser of two.
LEMMA LesserFacts ==
  ASSUME NEW a \in Int, NEW b \in Int
  PROVE  Min({a, b}) \in {a, b} /\ Min({a, b}) <= a /\ Min({a, b}) <= b
<1>1. \E m \in {a, b} : \A n \in {a, b} : m <= n
  <2>1. CASE a <= b
    BY <2>1
  <2>2. CASE b <= a
    BY <2>2
  <2> QED
    BY <2>1, <2>2
<1> QED
  BY <1>1 DEF Min

\* The image buffer is not longer than the output has room for.
LEMMA CapacityFacts ==
  ASSUME Types
  PROVE  ImageCapacity \in Nat
<1>1. request.capacity \in Nat /\ Plenty \in Nat
  BY SelfHostAssumption, BundleAssumption DEF Types, Requests, Words
<1>2. CASE request.capacity > 4
  <2>1. request.capacity - 4 \in Nat /\ request.capacity - 4 \in Int /\ Plenty \in Int
    BY <1>1, <1>2
  <2>2. Min({Plenty, request.capacity - 4}) \in {Plenty, request.capacity - 4}
    BY <2>1, LesserFacts
  <2> QED
    BY <1>1, <1>2, <2>1, <2>2 DEF ImageCapacity
<1> QED
  BY <1>1, <1>2 DEF ImageCapacity

\* Preprocessing fails, or there is no memory for the image, or the compiler
\* refuses the source (compiler.c:366-397).
LEMMA CompileFailsStep ==
  ASSUME BootInvariant, PreprocessFails \/ NoImageBuffer \/ BufferFails
  PROVE  Kept
<1>1. /\ job \in Jobs /\ UNCHANGED <<mem, request, cuts>>
      /\ pc \in Compiling /\ pc' = "cleanup"
  BY DEF BootInvariant, Types, PreprocessFails, NoImageBuffer, BufferFails, Fail, Compiling
<1>2. PICK status \in Failures, position \in {0, job.position},
           image \in {job.image} \cup (ImageCapacity + 1 .. MaxImage) :
        job' = [job EXCEPT !.status = status, !.position = position, !.image = image,
                           !.outputLength = 8]
  <2>1. BufferErrors \subseteq Failures /\ {OutOfMemory, ParseError, OutputTooSmall} \subseteq Failures
    BY DEF BufferErrors, Failures
  <2>2. ASSUME NEW status \in Failures, Fail(status)
        PROVE  job' = [job EXCEPT !.status = status, !.position = job.position,
                                  !.image = job.image, !.outputLength = 8]
    BY <1>1, <2>2 DEF Fail, Jobs
  <2>3. CASE PreprocessFails \/ NoImageBuffer
    BY <2>1, <2>2, <2>3 DEF PreprocessFails, NoImageBuffer
  <2>4. ASSUME NEW status \in BufferErrors,
               job' = [job EXCEPT !.status = status, !.outputLength = 8,
                         !.position = IF status = ParseError THEN 0 ELSE @]
        PROVE  job' = [job EXCEPT !.status = status,
                                  !.position = IF status = ParseError THEN 0 ELSE job.position,
                                  !.image = job.image, !.outputLength = 8]
    BY <1>1, <2>4 DEF Jobs
  <2>5. ASSUME NEW image \in ImageCapacity + 1 .. MaxImage,
               job' = [job EXCEPT !.status = OutputTooSmall, !.image = image, !.outputLength = 8]
        PROVE  job' = [job EXCEPT !.status = OutputTooSmall, !.position = job.position,
                                  !.image = image, !.outputLength = 8]
    BY <1>1, <2>5 DEF Jobs
  <2>6. CASE BufferFails
    <3>1. CASE \E status \in BufferErrors :
                 job' = [job EXCEPT !.status = status, !.outputLength = 8,
                           !.position = IF status = ParseError THEN 0 ELSE @]
      <4>1. PICK status \in BufferErrors :
                 job' = [job EXCEPT !.status = status, !.outputLength = 8,
                           !.position = IF status = ParseError THEN 0 ELSE @]
        BY <3>1
      <4>2. job' = [job EXCEPT !.status = status,
                               !.position = IF status = ParseError THEN 0 ELSE job.position,
                               !.image = job.image, !.outputLength = 8]
        BY <2>4, <4>1
      <4>3. (IF status = ParseError THEN 0 ELSE job.position) \in {0, job.position}
        OBVIOUS
      <4> QED
        BY <2>1, <4>2, <4>3
    <3>2. CASE \E image \in ImageCapacity + 1 .. MaxImage :
                 job' = [job EXCEPT !.status = OutputTooSmall, !.image = image,
                                    !.outputLength = 8]
      BY <2>1, <2>5, <3>2
    <3> QED
      BY <2>6, <3>1, <3>2 DEF BufferFails
  <2> QED
    BY <2>3, <2>6
<1>3. ImageCapacity \in Nat
  BY CapacityFacts DEF BootInvariant
<1>4. image \in 0 .. MaxImage /\ position \in Words /\ 8 \in Words
  BY <1>1, <1>3, Statuses, SelfHostAssumption DEF Jobs
<1>5. /\ job' \in Jobs /\ job'.reader = job.reader /\ job'.texts = job.texts
      /\ job'.status = status /\ job'.outputLength = 8
  BY <1>1, <1>2, <1>4 DEF Jobs
<1> QED
  BY <1>1, <1>5, GiveUp

\* The source compiles; the record may not fit (compiler.c:390-397).
LEMMA CompileStep ==
  ASSUME BootInvariant, Compile
  PROVE  Kept
<1>1. /\ job \in Jobs /\ UNCHANGED <<mem, request, cuts>>
      /\ pc \in Compiling /\ pc = "preprocess" /\ request.capacity \in Words
      /\ job.status = OK /\ job.index = 0
  BY DEF BootInvariant, Types, Requests, Compile, Compiling, Recorded
<1>2. PICK image \in 0 .. Min({ImageCapacity, MaxImage}) :
         IF request.capacity < RecordLength(image)
         THEN /\ job' = [job EXCEPT !.status = OutputTooSmall, !.image = image, !.outputLength = 8]
              /\ pc' = "cleanup"
         ELSE /\ job' = [job EXCEPT !.image = image, !.outputLength = RecordLength(image)]
              /\ pc' = "storeLength"
  BY DEF Compile
<1>3. image \in 0 .. MaxImage
  <2>1. ImageCapacity \in Int
    BY CapacityFacts DEF BootInvariant
  <2>2. Min({ImageCapacity, MaxImage}) <= MaxImage /\ Min({ImageCapacity, MaxImage}) \in Int
    BY <2>1, SelfHostAssumption, LesserFacts
  <2> QED
    BY <2>2, SelfHostAssumption
<1>4. CASE request.capacity < RecordLength(image)
  <2>1. /\ job' = [job EXCEPT !.status = OutputTooSmall, !.image = image, !.outputLength = 8]
        /\ pc' = "cleanup"
    BY <1>2, <1>4
  <2>2. OutputTooSmall \in Failures /\ 8 \in Words
    BY Statuses DEF Failures
  <2>3. /\ job' \in Jobs /\ job'.reader = job.reader /\ job'.texts = job.texts
        /\ job'.status = OutputTooSmall /\ job'.outputLength = 8
    BY <1>1, <1>3, <2>1, <2>2 DEF Jobs
  <2> QED
    BY <1>1, <2>1, <2>2, <2>3, GiveUp
<1>5. CASE ~(request.capacity < RecordLength(image))
  <2>1. /\ job' = [job EXCEPT !.image = image, !.outputLength = RecordLength(image)]
        /\ pc' = "storeLength"
    BY <1>2, <1>5
  <2>2. RecordLength(image) \in Words /\ RecordLength(image) <= request.capacity
    <3>1. image \in Nat /\ Modulus \in Nat
      BY <1>3, SelfHostAssumption, BundleAssumption
    <3>2. RecordLength(image) \in Nat
      <4>1. Padded(image) \in Nat
        BY <3>1, PaddedFacts
      <4> QED
        BY <4>1 DEF RecordLength
    <3>3. request.capacity \in Nat /\ request.capacity < Modulus
      BY <1>1, <3>1 DEF Words
    <3> QED
      BY <1>5, <3>1, <3>2, <3>3 DEF Words
  <2>3. /\ job' \in Jobs /\ job'.reader = job.reader /\ job'.texts = job.texts
        /\ job'.status = OK /\ job'.index = 0
        /\ job'.image = image /\ job'.outputLength = RecordLength(image)
    BY <1>1, <1>3, <2>1, <2>2 DEF Jobs
  <2>4. ReaderInside'
    BY <2>1, <2>3, SameReader DEF BootInvariant
  <2>5. Recorded'
    BY <1>1, <2>1, <2>2, <2>3 DEF Recorded, Reads, Fails, StoresRecord, Reports
  <2> QED
    BY <1>1, <2>1, <2>3, <2>4, <2>5, QuietStep DEF Compiling, StoresRecord
<1> QED
  BY <1>4, <1>5

\* What was allocated is freed, or something else is (compiler.c:77-104).
LEMMA CleanupStep ==
  ASSUME BootInvariant, Cleanup \/ CleanupThroughNull
  PROVE  Kept
<1>1. /\ job' = job /\ UNCHANGED <<mem, request, cuts>> /\ pc = "cleanup"
      /\ pc' \in {"failZero", "wild"} /\ job' \in Jobs
  BY DEF BootInvariant, Types, Cleanup, CleanupThroughNull
<1>2. ReaderInside'
  BY <1>1, SameReader DEF BootInvariant
<1>3. Recorded'
  BY <1>1 DEF BootInvariant, Recorded, Reads, Fails, StoresRecord, Reports
<1> QED
  BY <1>1, <1>2, <1>3, QuietStep DEF Compiling, Fails

\* A store while a compilation runs: the disk stays as it is but for a word
\* the compiler may store to, and the status still says that it runs.
LEMMA RunningStore ==
  ASSUME BootInvariant, pc \in Compiling, pc' \in Compiling,
         NEW w \in DOMAIN mem, NEW v \in Words, Home(w), w # 8,
         mem' = [mem EXCEPT ![w] = v], UNCHANGED <<request, cuts>>,
         job' \in Jobs, ReaderInside', Recorded'
  PROVE  Kept
<1>1. /\ DiskTypes' /\ Requested' = Requested
      /\ \A x \in DOMAIN mem : x # w => mem'[x] = mem[x]
  BY StoreFacts DEF BootInvariant
<1>2. mem[8] = Running /\ 8 \in DOMAIN mem
  BY DEF BootInvariant, Controlled, DiskTypes
<1>3. mem'[8] = Running
  BY <1>1, <1>2
<1>4. ReportedIsWhole'
  BY <1>3, Statuses DEF ReportedIsWhole, Failures
<1>5. Types'
  BY DEF BootInvariant, Types, Places
<1>6. Controlled'
  <2>1. pc \notin Refusing /\ pc' \notin Refusing /\ pc' # "rejectStatus"
    BY DEF Refusing, Compiling, Reads, Fails, StoresRecord, Reports
  <2>2. request' = Requested' /\ Valid(request') /\ Valid(Requested')
    BY <1>1 DEF BootInvariant, Controlled
  <2> QED
    BY <1>3, <2>1, <2>2 DEF Controlled
<1>7. StoresHome
  BY DEF StoresHome
<1> QED
  BY <1>1, <1>4, <1>5, <1>6, <1>7 DEF BootInvariant, Kept

\* What holds of the request and its output while a compilation runs.
LEMMA RunningFacts ==
  ASSUME BootInvariant, pc \in Compiling
  PROVE  /\ job \in Jobs /\ request.capacity \in Nat
         /\ DiskTypes /\ request = Requested /\ Valid(request)
         /\ mem[6] = request.output /\ mem[7] = request.capacity
         /\ Output \in Nat /\ 11 <= Output /\ Output = Out
         /\ \A k \in Nat : 4 * k + 4 <= request.capacity =>
              Output + k \in DOMAIN mem /\ Home(Output + k)
<1>1. job \in Jobs /\ request \in Requests /\ DiskTypes /\ request = Requested /\ Valid(request)
  BY DEF BootInvariant, Types, Controlled
<1>2. request.capacity \in Nat /\ mem[6] = request.output /\ mem[7] = request.capacity
  BY <1>1, BundleAssumption DEF Requests, Words, Requested
<1> QED
  BY <1>1, <1>2, OutputFacts

\* A failure record: a zero (compiler.c:145).
LEMMA FailZeroStep ==
  ASSUME BootInvariant, FailZero
  PROVE  Kept
<1>1. /\ pc = "failZero" /\ pc' = "failPosition" /\ UNCHANGED <<request, job, cuts>>
      /\ pc \in Compiling /\ pc' \in Compiling
  BY DEF FailZero, Compiling, Fails
<1>2. job.status \in Failures /\ job.outputLength = 8
  BY <1>1 DEF BootInvariant, Recorded, Fails
<1>3. ReaderInside'
  BY <1>1, SameReader DEF BootInvariant
<1>4. Recorded' <=> HoldsNothing'
  BY <1>1, <1>2 DEF Recorded, Reads, Fails, StoresRecord, Reports
<1>5. CASE request.capacity >= 4
  <2>1. mem' = [mem EXCEPT ![Output] = 0]
    BY <1>5 DEF FailZero
  <2>2. Output + 0 \in DOMAIN mem /\ Home(Output + 0) /\ Output + 0 = Output /\ Output # 8
    BY <1>1, <1>5, RunningFacts
  <2>3. 0 \in Words
    BY Statuses
  <2>4. HoldsNothing'
    BY <1>1, <2>1, <2>2 DEF HoldsNothing, Output
  <2> QED
    BY <1>1, <1>3, <1>4, <2>1, <2>2, <2>3, <2>4, RunningStore, RunningFacts
<1>6. CASE ~(request.capacity >= 4)
  <2>1. mem' = mem /\ HoldsNothing'
    BY <1>1, <1>6 DEF FailZero, HoldsNothing
  <2> QED
    BY <1>1, <1>3, <1>4, <2>1, QuietStep, RunningFacts
<1> QED
  BY <1>5, <1>6

\* And a position (compiler.c:146-147).
LEMMA FailPositionStep ==
  ASSUME BootInvariant, FailPosition
  PROVE  Kept
<1>1. /\ pc = "failPosition" /\ pc' = "reportLength" /\ UNCHANGED <<request, job, cuts>>
      /\ pc \in Compiling /\ pc' \in Compiling
  BY DEF FailPosition, Compiling, Fails, Reports
<1>2. job.status \in Failures /\ job.outputLength = 8 /\ HoldsNothing
  BY <1>1 DEF BootInvariant, Recorded, Fails
<1>3. ReaderInside'
  BY <1>1, SameReader DEF BootInvariant
<1>4. HoldsNothing' => Recorded'
  BY <1>1, <1>2 DEF Recorded, Reads, Fails, StoresRecord, Reports
<1>5. CASE request.capacity >= 8
  <2>1. mem' = [mem EXCEPT ![Output + 1] = job.position]
    BY <1>5 DEF FailPosition
  <2>2. /\ Output + 1 \in DOMAIN mem /\ Home(Output + 1) /\ Output + 1 # 8
        /\ Output + 0 \in DOMAIN mem /\ Output + 0 = Output /\ Output # Output + 1
    BY <1>1, <1>5, RunningFacts
  <2>3. job.position \in Words
    BY <1>1, RunningFacts DEF Jobs
  <2>4. HoldsNothing'
    BY <1>1, <1>2, <2>1, <2>2 DEF HoldsNothing, Output
  <2> QED
    BY <1>1, <1>3, <1>4, <2>1, <2>2, <2>3, <2>4, RunningStore, RunningFacts
<1>6. CASE ~(request.capacity >= 8)
  <2>1. mem' = mem /\ HoldsNothing'
    BY <1>1, <1>2, <1>6 DEF FailPosition, HoldsNothing, Output
  <2> QED
    BY <1>1, <1>3, <1>4, <2>1, QuietStep, RunningFacts
<1> QED
  BY <1>5, <1>6

\* A record has a word for the length and room for the image.
LEMMA RecordFacts ==
  ASSUME NEW n \in 0 .. MaxImage
  PROVE  n \in Nat /\ RecordLength(n) \in Nat /\ RecordLength(n) >= 4 + n
<1>1. n \in Nat
  BY SelfHostAssumption
<1>2. Padded(n) \in Nat /\ n <= Padded(n)
  BY <1>1, PaddedFacts
<1> QED
  BY <1>1, <1>2 DEF RecordLength

\* A word of the image that starts before its end lies in the record.
LEMMA LastWordFits ==
  ASSUME NEW n \in Nat, NEW i \in Nat, 4 * i < n
  PROVE  4 * (1 + i) + 4 <= RecordLength(n)
<1>1. i <= Padded(n) \div 4 - 1 /\ Padded(n) \in Nat /\ Padded(n) % 4 = 0
  BY PaddedFacts
<1>2. 4 * (i + 1) <= Padded(n)
  BY <1>1
<1> QED
  BY <1>1, <1>2 DEF RecordLength

\* What is stored fits what the request allows.
LEMMA StoringFacts ==
  ASSUME BootInvariant, pc \in StoresRecord
  PROVE  /\ job.image \in Nat /\ RecordLength(job.image) >= 4 + job.image
         /\ RecordLength(job.image) \in Nat /\ request.capacity \in Nat
         /\ Output \in Nat /\ Output >= 11
<1>1. pc \in Compiling
  BY DEF Compiling
<1>2. job.image \in 0 .. MaxImage
  BY <1>1, RunningFacts DEF Jobs
<1> QED
  BY <1>1, <1>2, RunningFacts, RecordFacts

\* The record: the length of the image (compiler.c:399).
LEMMA StoreLengthStep ==
  ASSUME BootInvariant, StoreLength
  PROVE  Kept
<1>1. /\ pc = "storeLength" /\ pc' = "storeImage" /\ UNCHANGED <<request, job, cuts>>
      /\ pc \in Compiling /\ pc' \in Compiling /\ mem' = [mem EXCEPT ![Output] = job.image]
  BY DEF StoreLength, Compiling, StoresRecord
<1>2. /\ job.status = OK /\ job.outputLength = RecordLength(job.image)
      /\ job.outputLength <= request.capacity /\ job.index = 0
  BY <1>1 DEF BootInvariant, Recorded, StoresRecord
<1>3. ReaderInside'
  BY <1>1, SameReader DEF BootInvariant
<1>4. /\ job.image \in Nat /\ RecordLength(job.image) >= 4 + job.image
      /\ RecordLength(job.image) \in Nat /\ request.capacity \in Nat
  BY <1>1, StoringFacts DEF StoresRecord
<1>5. Output + 0 \in DOMAIN mem /\ Home(Output + 0) /\ Output + 0 = Output /\ Output # 8
  <2>1. 4 * 0 + 4 <= request.capacity
    BY <1>2, <1>4
  <2> QED
    BY <1>1, <2>1, RunningFacts
<1>6. job.image \in Words
  <2>1. request.capacity < Modulus /\ Modulus \in Nat
    BY BundleAssumption DEF BootInvariant, Types, Requests, Words
  <2> QED
    BY <1>2, <1>4, <2>1 DEF Words
<1>7. mem'[Output] = job.image
  BY <1>1, <1>5
<1>8. Holds(job.image, job.index)'
  BY <1>1, <1>2, <1>7 DEF Holds, Output
<1>9. Recorded'
  BY <1>1, <1>2, <1>8 DEF Recorded, Reads, Fails, StoresRecord, Reports
<1> QED
  BY <1>1, <1>3, <1>5, <1>6, <1>9, RunningStore, RunningFacts

\* The record: word after word of the image (compiler.c:400-407).
LEMMA StoreImageStep ==
  ASSUME BootInvariant, StoreImage
  PROVE  Kept
<1>1. /\ pc = "storeImage" /\ UNCHANGED <<request, cuts>> /\ pc \in Compiling
      /\ job \in Jobs /\ job.index \in Nat
  BY RunningFacts DEF StoreImage, Compiling, StoresRecord, Jobs
<1>2. /\ job.status = OK /\ job.outputLength = RecordLength(job.image)
      /\ job.outputLength <= request.capacity /\ Holds(job.image, job.index)
  BY <1>1 DEF BootInvariant, Recorded, StoresRecord
<1>3. /\ job.image \in Nat /\ RecordLength(job.image) >= 4 + job.image
      /\ RecordLength(job.image) \in Nat /\ request.capacity \in Nat
      /\ Output \in Nat /\ Output >= 11
  BY <1>1, StoringFacts DEF StoresRecord
<1>4. CASE 4 * job.index < job.image
  <2> DEFINE w == Output + (1 + job.index)
             v == ImageWord(job.image, job.index)
  <2>1. /\ mem' = [mem EXCEPT ![Output + 1 + job.index] = v]
        /\ job' = [job EXCEPT !.index = job.index + 1] /\ pc' = "storeImage"
    BY <1>1, <1>4 DEF StoreImage, Jobs
  <2>2. Output + 1 + job.index = w
    BY <1>1, <1>3
  <2>3. w \in DOMAIN mem /\ Home(w) /\ w # 8
    <3>1. 1 + job.index \in Nat /\ 4 * (1 + job.index) + 4 <= request.capacity
      BY <1>1, <1>2, <1>3, <1>4, LastWordFits
    <3> QED
      BY <1>1, <1>3, <3>1, RunningFacts
  <2>4. v \in Words
    BY <1>1, <1>3, BundleAssumption DEF ImageWord, Words
  <2>5. /\ job' \in Jobs /\ job'.reader = job.reader /\ job'.texts = job.texts
        /\ job'.status = OK /\ job'.image = job.image /\ job'.index = job.index + 1
        /\ job'.outputLength = job.outputLength
    BY <1>1, <1>2, <2>1 DEF Jobs
  <2>6. ReaderInside'
    BY <2>1, <2>5, SameReader DEF BootInvariant
  <2>7. Holds(job.image, job.index)'
    <3>1. Output' = Output
      BY <1>1 DEF Output
    <3>2. 4 * 0 + 4 <= request.capacity /\ Output + 0 = Output
      BY <1>2, <1>3
    <3>3. Output \in DOMAIN mem /\ Output # w
      BY <1>1, <1>3, <3>2, RunningFacts
    <3>4. ASSUME NEW i \in 0 .. job.index
          PROVE  mem'[Output + 1 + i] = ImageWord(job.image, i)
      <4>1. CASE i = job.index
        BY <2>1, <2>2, <2>3, <4>1
      <4>2. CASE i # job.index
        <5>1. i \in 0 .. job.index - 1 /\ Output + 1 + i # w
          BY <1>1, <1>3, <4>2
        <5>2. mem[Output + 1 + i] = ImageWord(job.image, i)
          BY <1>2, <5>1 DEF Holds
        <5>3. Output + 1 + i \in DOMAIN mem
          <6>1. 1 + i \in Nat /\ 4 * (1 + i) + 4 <= request.capacity
                /\ Output + (1 + i) = Output + 1 + i
            BY <1>1, <1>2, <1>3, <1>4, <5>1, LastWordFits
          <6> QED
            BY <1>1, <6>1, RunningFacts
        <5> QED
          BY <2>1, <2>2, <5>1, <5>2, <5>3
      <4> QED
        BY <4>1, <4>2
    <3>5. mem'[Output] = job.image
      BY <1>2, <2>1, <2>2, <3>3 DEF Holds
    <3>6. 0 .. (job.index + 1) - 1 = 0 .. job.index
      BY <1>1
    <3> QED
      BY <2>5, <3>1, <3>4, <3>5, <3>6 DEF Holds
  <2>8. Recorded'
    BY <1>1, <1>2, <2>1, <2>5, <2>7 DEF Recorded, Reads, Fails, StoresRecord, Reports
  <2> HIDE DEF w, v
  <2> QED
    BY <1>1, <2>1, <2>2, <2>3, <2>4, <2>5, <2>6, <2>8, RunningStore
<1>5. CASE ~(4 * job.index < job.image)
  <2>1. UNCHANGED <<mem, job>> /\ pc' = "reportLength" /\ pc' \in Compiling
    BY <1>1, <1>5 DEF StoreImage, Compiling, Reports
  <2>2. Holds(job.image, Padded(job.image) \div 4)
    <3>1. \A i \in Nat : i <= Padded(job.image) \div 4 - 1 => i <= job.index - 1
      <4>1. \A i \in Nat : i <= Padded(job.image) \div 4 - 1 => 4 * i < job.image
        BY <1>3, PaddedFacts
      <4> QED
        BY <1>1, <1>3, <1>5, <4>1
    <3>2. Padded(job.image) \div 4 \in Int
      <4>1. Padded(job.image) \in Nat
        BY <1>3, PaddedFacts
      <4> QED
        BY <4>1
    <3>3. 0 .. Padded(job.image) \div 4 - 1 \subseteq 0 .. job.index - 1
      BY <1>1, <3>1, <3>2
    <3> QED
      BY <1>2, <3>3 DEF Holds
  <2>3. Recorded'
    BY <1>1, <1>2, <2>1, <2>2
       DEF Recorded, Reads, Fails, StoresRecord, Reports, Holds, Output
  <2>4. ReaderInside'
    BY <2>1, SameReader DEF BootInvariant
  <2> QED
    BY <1>1, <2>1, <2>3, <2>4, QuietStep
<1> QED
  BY <1>4, <1>5

\* A word of the record.
RecordedWord(k) == 4 * k + 4 <= request.capacity

\* Every word of a whole record lies in it.
LEMMA WholeRecordFits ==
  ASSUME BootInvariant, pc \in Reports, job.status = OK,
         job.outputLength = RecordLength(job.image)
  PROVE  /\ RecordedWord(0)
         /\ \A i \in 0 .. Padded(job.image) \div 4 - 1 : RecordedWord(1 + i)
<1>1. job.image \in 0 .. MaxImage /\ request.capacity \in Nat /\ job.outputLength <= request.capacity
  <2>1. pc \in Compiling
    BY DEF Compiling
  <2> QED
    BY <2>1, RunningFacts, Statuses DEF Jobs, BootInvariant, Recorded
<1>2. job.image \in Nat /\ RecordLength(job.image) \in Nat /\ RecordLength(job.image) >= 4
  BY <1>1, RecordFacts
<1>3. RecordedWord(0)
  BY <1>1, <1>2 DEF RecordedWord
<1>4. ASSUME NEW i \in 0 .. Padded(job.image) \div 4 - 1
      PROVE  RecordedWord(1 + i)
  <2>1. Padded(job.image) \in Nat
    BY <1>2, PaddedFacts
  <2>2. i \in Nat /\ i <= Padded(job.image) \div 4 - 1
    BY <2>1
  <2>3. 4 * i < job.image
    BY <1>2, <2>2, PaddedFacts
  <2> QED
    BY <1>1, <1>2, <2>2, <2>3, LastWordFits DEF RecordedWord
<1> QED
  BY <1>3, <1>4

\* main reports the length (main.c:65).
LEMMA ReportLengthStep ==
  ASSUME BootInvariant, ReportLength
  PROVE  Kept
<1>1. /\ pc = "reportLength" /\ pc' = "reportStatus" /\ UNCHANGED <<request, job, cuts>>
      /\ pc \in Compiling /\ pc' \in Compiling /\ mem' = [mem EXCEPT ![9] = job.outputLength]
  BY DEF ReportLength, Compiling, Reports
<1>2. 9 \in DOMAIN mem /\ Home(9) /\ 9 # 8 /\ job.outputLength \in Words /\ job \in Jobs
  BY DEF BootInvariant, Types, Jobs, DiskTypes, Home
<1>3. ReaderInside'
  BY <1>1, SameReader DEF BootInvariant
<1>4. /\ DOMAIN mem' = DOMAIN mem /\ mem'[9] = job.outputLength
      /\ \A x \in DOMAIN mem : x # 9 => mem'[x] = mem[x]
  BY <1>1, <1>2, StoreFacts DEF BootInvariant
<1>5. /\ Output \in Nat /\ 11 <= Output /\ request.capacity \in Nat
      /\ \A k \in Nat : 4 * k + 4 <= request.capacity => Output + k \in DOMAIN mem
  BY <1>1, RunningFacts
<1>6. CASE job.status = OK
  <2>1. /\ job.outputLength = RecordLength(job.image)
        /\ job.outputLength <= request.capacity
        /\ Holds(job.image, Padded(job.image) \div 4)
    BY <1>1, <1>6, Statuses DEF BootInvariant, Recorded, Reports
  <2>2. RecordedWord(0) /\ \A i \in 0 .. Padded(job.image) \div 4 - 1 : RecordedWord(1 + i)
    BY <1>1, <1>6, <2>1, WholeRecordFits DEF Reports
  <2>3. \A k \in Nat : RecordedWord(k) => mem'[Output + k] = mem[Output + k]
    BY <1>4, <1>5 DEF RecordedWord
  <2>4. Holds(job.image, Padded(job.image) \div 4)'
    <3>1. Output' = Output /\ job' = job /\ Output + 0 = Output
      BY <1>1, <1>5 DEF Output
    <3>2. mem'[Output] = mem[Output]
      BY <1>5, <2>2, <2>3, <3>1
    <3>3. ASSUME NEW i \in 0 .. Padded(job.image) \div 4 - 1
          PROVE  mem'[Output + 1 + i] = mem[Output + 1 + i]
      <4>1. 1 + i \in Nat /\ Output + 1 + i = Output + (1 + i)
        BY <1>5
      <4> QED
        BY <2>2, <2>3, <4>1
    <3> QED
      BY <2>1, <3>1, <3>2, <3>3 DEF Holds
  <2>5. Recorded'
    BY <1>1, <1>4, <1>6, <2>1, <2>4 DEF Recorded, Reads, Fails, StoresRecord, Reports
  <2> QED
    BY <1>1, <1>2, <1>3, <2>5, RunningStore
<1>7. CASE job.status # OK
  <2>1. job.status \in Failures /\ job.outputLength = 8 /\ HoldsNothing
    BY <1>1, <1>7 DEF BootInvariant, Recorded, Reports
  <2>2. HoldsNothing'
    <3>1. Output' = Output
      BY <1>1 DEF Output
    <3>2. CASE request.capacity >= 4
      <4>1. Output + 0 \in DOMAIN mem /\ Output + 0 = Output /\ Output # 9
        BY <1>5, <3>2
      <4> QED
        BY <1>1, <1>4, <2>1, <3>1, <4>1 DEF HoldsNothing
    <3> QED
      BY <1>1, <3>2 DEF HoldsNothing
  <2>3. Recorded'
    BY <1>1, <1>4, <2>1, <2>2 DEF Recorded, Reads, Fails, StoresRecord, Reports
  <2> QED
    BY <1>1, <1>2, <1>3, <2>3, RunningStore
<1> QED
  BY <1>6, <1>7

\* main reports the status, of what is there (main.c:66).
LEMMA ReportStatusStep ==
  ASSUME BootInvariant, ReportStatus
  PROVE  Kept
<1>1. /\ pc = "reportStatus" /\ pc' \in {"copy", "halted"} /\ UNCHANGED <<request, job, cuts>>
      /\ pc \in Compiling /\ mem' = [mem EXCEPT ![8] = job.status]
  BY DEF ReportStatus, Compiling, Reports
<1>2. 8 \in DOMAIN mem /\ 9 \in DOMAIN mem /\ Home(8) /\ job \in Jobs
  BY DEF BootInvariant, Types, Jobs, DiskTypes, Home
<1>3. job.status \in {OK} \cup Failures /\ job.status \in Words
  BY <1>2, Statuses DEF Jobs
<1>4. ReaderInside'
  BY <1>1, SameReader DEF BootInvariant
<1>5. /\ DiskTypes' /\ Requested' = Requested /\ mem'[8] = job.status
      /\ \A x \in DOMAIN mem : x # 8 => mem'[x] = mem[x]
  BY <1>1, <1>2, <1>3, StoreFacts DEF BootInvariant
<1>6. /\ Output \in Nat /\ 11 <= Output /\ Output = Out /\ request.capacity \in Nat
      /\ mem[7] = request.capacity /\ request = Requested /\ Valid(request)
      /\ \A k \in Nat : 4 * k + 4 <= request.capacity => Output + k \in DOMAIN mem
  BY <1>1, RunningFacts
<1>7. mem'[9] = job.outputLength /\ mem'[7] = request.capacity /\ Out' = Output
  <2>1. /\ 6 \in DOMAIN mem /\ 7 \in DOMAIN mem
    BY DEF BootInvariant, DiskTypes
  <2>2. mem[9] = job.outputLength
    BY <1>1 DEF BootInvariant, Recorded
  <2> QED
    BY <1>2, <1>5, <1>6, <2>1, <2>2 DEF Out
<1>8. ReportedIsWhole'
  <2>1. CASE job.status = OK
    <3>1. /\ job.outputLength = RecordLength(job.image)
          /\ Holds(job.image, Padded(job.image) \div 4)
      BY <1>1, <2>1, Statuses DEF BootInvariant, Recorded, Reports
    <3>2. RecordedWord(0) /\ \A i \in 0 .. Padded(job.image) \div 4 - 1 : RecordedWord(1 + i)
      BY <1>1, <2>1, <3>1, WholeRecordFits DEF Reports
    <3>3. \A k \in Nat : RecordedWord(k) => mem'[Output + k] = mem[Output + k]
      BY <1>5, <1>6 DEF RecordedWord
    <3>4. mem'[Output] = job.image
      BY <1>6, <3>1, <3>2, <3>3 DEF Holds
    <3>5. ASSUME NEW i \in 0 .. Padded(job.image) \div 4 - 1
          PROVE  mem'[Output + 1 + i] = ImageWord(job.image, i)
      <4>1. 1 + i \in Nat /\ Output + 1 + i = Output + (1 + i)
        BY <1>6
      <4> QED
        BY <3>1, <3>2, <3>3, <4>1 DEF Holds
    <3>6. job.image \in 0 .. MaxImage
      BY <1>2 DEF Jobs
    <3>7. RecordIsWhole'
      BY <1>7, <3>1, <3>4, <3>5, <3>6 DEF RecordIsWhole, RecordLength
    <3> QED
      BY <1>5, <2>1, <3>7, Statuses DEF ReportedIsWhole, Failures
  <2>2. CASE job.status # OK
    <3>1. job.status \in Failures /\ job.outputLength = 8 /\ HoldsNothing
      BY <1>1, <2>2 DEF BootInvariant, Recorded, Reports
    <3>2. request.capacity >= 4 => mem'[Output] = 0
      <4>1. CASE request.capacity >= 4
        <5>1. Output + 0 \in DOMAIN mem /\ Output + 0 = Output /\ Output # 8
          BY <1>6, <4>1
        <5> QED
          BY <1>5, <3>1, <4>1, <5>1 DEF HoldsNothing
      <4> QED
        BY <4>1
    <3> QED
      BY <1>5, <1>7, <3>1, <3>2, Statuses DEF ReportedIsWhole, Failures
  <2> QED
    BY <2>1, <2>2
<1>9. Types'
  BY <1>1 DEF BootInvariant, Types, Places
<1>10. Controlled' /\ Recorded'
  BY <1>1, <1>5, <1>6
     DEF Controlled, Recorded, Refusing, Compiling, Reads, Fails, StoresRecord, Reports
<1>11. StoresHome
  BY <1>1, <1>2, <1>3 DEF StoresHome
<1> QED
  BY <1>4, <1>5, <1>8, <1>9, <1>10, <1>11 DEF BootInvariant, Kept

\* The image is copied, or what was copied runs (main.c:5-19).
LEMMA CopyImageStep ==
  ASSUME BootInvariant, CopyImage
  PROVE  Kept
<1>1. /\ pc = "copy" /\ pc' \in {"copy", "jumped"} /\ UNCHANGED <<mem, request, job, cuts>>
  BY DEF CopyImage
<1>2. DiskTypes' /\ ReportedIsWhole' /\ Requested' = Requested
  BY <1>1, SameDisk DEF BootInvariant
<1>3. Types' /\ ReaderInside'
  BY <1>1, SameReader DEF BootInvariant, Types, Places
<1>4. Controlled' /\ Recorded'
  BY <1>1, <1>2
     DEF BootInvariant, Controlled, Recorded, Refusing, Compiling, Reads, Fails, StoresRecord,
         Reports
<1> QED
  BY <1>1, <1>2, <1>3, <1>4 DEF BootInvariant, Kept

\* The power fails: everything but the disk is forgotten.
LEMMA PowerCycleStep ==
  ASSUME BootInvariant, PowerCycle
  PROVE  Kept
<1>1. /\ cuts < MaxCuts /\ cuts' = cuts + 1 /\ pc' = "boot" /\ mem' = mem
      /\ request' = NoRequest /\ job' = Idle
  BY DEF PowerCycle
<1>2. DiskTypes' /\ ReportedIsWhole' /\ Requested' = Requested
  BY <1>1, SameDisk DEF BootInvariant
<1>3. Types'
  BY <1>1, IdleJob, Statuses, SelfHostAssumption
     DEF BootInvariant, Types, Places, NoRequest, Requests
<1>4. ReaderInside'
  BY <1>1, IdleInside
<1>5. Controlled' /\ Recorded'
  BY <1>1, <1>2
     DEF BootInvariant, Controlled, Recorded, Refusing, Compiling, Reads, Fails, StoresRecord,
         Reports
<1> QED
  BY <1>1, <1>2, <1>3, <1>4, <1>5 DEF BootInvariant, Kept

----------------------------------------------------------------------------
(* Every step.                                                              *)

\* A disk as the host prepares it.
LEMMA InitInvariant == Init => BootInvariant
<1> SUFFICES ASSUME Init PROVE BootInvariant
  OBVIOUS
<1>1. /\ mem \in [DOMAIN mem -> Words] /\ 0 .. 10 \subseteq DOMAIN mem
      /\ {w \in Words : 4 * w < mem[2]} \subseteq DOMAIN mem /\ mem[8] = Pending
  BY DisksAssumption DEF Init
<1>2. DiskTypes
  BY <1>1 DEF DiskTypes
<1>3. Types
  BY IdleJob, Statuses, SelfHostAssumption DEF Init, Types, Places, NoRequest, Requests
<1>4. ReaderInside
  <2>1. job.reader = Reader(0, 0) /\ job.texts = <<>> /\ pc = "boot"
    BY IdleJob DEF Init
  <2>2. Sound(Reader(0, 0))
    BY DEF Sound, Reader, Readers
  <2> QED
    BY <2>1, <2>2, EmptySeq DEF ReaderInside
<1>5. Controlled /\ Recorded
  BY <1>1
     DEF Init, Controlled, Recorded, Refusing, Compiling, Reads, Fails, StoresRecord, Reports
<1>6. ReportedIsWhole
  BY <1>1, Statuses DEF ReportedIsWhole, Failures
<1> QED
  BY <1>2, <1>3, <1>4, <1>5, <1>6 DEF BootInvariant

\* A step that changes nothing.
LEMMA StutterStep ==
  ASSUME BootInvariant, UNCHANGED vars
  PROVE  Kept
<1>1. UNCHANGED <<mem, pc, request, job, cuts>>
  BY DEF vars
<1>2. DiskTypes' /\ ReportedIsWhole' /\ Requested' = Requested
  BY <1>1, SameDisk DEF BootInvariant
<1>3. Types' /\ ReaderInside' /\ Controlled' /\ Recorded'
  BY <1>1, <1>2
     DEF BootInvariant, Types, ReaderInside, Controlled, Recorded, Holds, HoldsNothing, Output
<1> QED
  BY <1>1, <1>2, <1>3 DEF BootInvariant, Kept

\* One case per action.
LEMMA StepInvariant ==
  ASSUME BootInvariant, [Next]_vars
  PROVE  Kept
<1>1. CASE UNCHANGED vars
  BY <1>1, StutterStep
<1>2. CASE Ignore \/ ReadControl \/ RejectLength \/ RejectStatus \/ Begin
  BY <1>2, IgnoreStep, ReadControlStep, RejectStep, BeginStep
<1>3. CASE ReadHeader \/ ReadText \/ ReadKind \/ ReadPath \/ ReadContents \/ EndReading
  BY <1>3, ReadHeaderStep, ReadTextStep, ReadKindStep, EndReadingStep
<1>4. CASE PreprocessFails \/ NoImageBuffer \/ BufferFails \/ Compile
  BY <1>4, CompileFailsStep, CompileStep
<1>5. CASE Cleanup \/ CleanupThroughNull \/ FailZero \/ FailPosition
  BY <1>5, CleanupStep, FailZeroStep, FailPositionStep
<1>6. CASE StoreLength \/ StoreImage \/ ReportLength \/ ReportStatus \/ CopyImage
  BY <1>6, StoreLengthStep, StoreImageStep, ReportLengthStep, ReportStatusStep, CopyImageStep
<1>7. CASE PowerCycle
  BY <1>7, PowerCycleStep
<1> QED
  BY <1>1, <1>2, <1>3, <1>4, <1>5, <1>6, <1>7 DEF Next, Step

\* The inductive invariant.
THEOREM Invariance == Spec => []BootInvariant
<1>1. BootInvariant /\ [Next]_vars => BootInvariant'
  BY StepInvariant DEF Kept
<1> QED
  BY <1>1, InitInvariant, PTL DEF Spec

\* Type correctness: words stay words and the reader stays at a word.
THEOREM TypeCorrect == Spec => []TypeOK
<1>1. BootInvariant => TypeOK
  <2> SUFFICES ASSUME BootInvariant PROVE TypeOK
    OBVIOUS
  <2>1. job \in Jobs /\ request \in Requests /\ pc \in Places /\ cuts \in 0 .. MaxCuts
    BY DEF BootInvariant, Types
  <2>2. \A w \in DOMAIN mem : mem[w] \in Words
    BY DEF BootInvariant, DiskTypes
  <2>3. \A f \in DOMAIN request : request[f] \in Words
    BY <2>1 DEF Requests
  <2>4. job.reader.position \in Nat /\ job.reader.position % 4 = 0
    BY DEF BootInvariant, ReaderInside, Sound, Readers
  <2>5. /\ job.image \in 0 .. MaxImage /\ job.outputLength \in Words
        /\ job.status \in {OK} \cup Failures
    BY <2>1 DEF Jobs
  <2> QED
    BY <2>1, <2>2, <2>3, <2>4, <2>5
       DEF TypeOK, Places, Compiling, Refusing, Reads, Fails, StoresRecord, Reports, Failures
<1> QED
  BY <1>1, Invariance, PTL

\* What the status promises is there, whenever the power fails and at every
\* step of a later compilation.
THEOREM StatusKeepsItsPromise == Spec => []ReportedIsWhole
<1>1. BootInvariant => ReportedIsWhole
  BY DEF BootInvariant
<1> QED
  BY <1>1, Invariance, PTL

\* No field is read past the end of the project, whatever its counts and
\* lengths say.
THEOREM ReaderStaysInside == Spec => []ReadsInsideProject
<1>1. BootInvariant => ReadsInsideProject
  <2> SUFFICES ASSUME BootInvariant PROVE ReadsInsideProject
    OBVIOUS
  <2>1. DOMAIN job.texts = 1 .. Len(job.texts)
    BY LenProperties DEF BootInvariant, Types, Jobs
  <2> QED
    BY <2>1 DEF BootInvariant, ReaderInside, Sound, Inside, ReadsInsideProject
<1> QED
  BY <1>1, Invariance, PTL

\* The compiler stores to the status, the length and the output range only.
THEOREM OnlyTheOutputIsWritten == Spec => StoresStayHome
<1> DEFINE AtHome == \A w \in DOMAIN mem : mem'[w] # mem[w] =>
                       \/ w \in {8, 9}
                       \/ /\ w >= 11
                          /\ 4 * w >= mem[6] /\ 4 * w < mem[6] + mem[7]
                          /\ ~(4 * w >= mem[3] /\ 4 * w < mem[3] + mem[4])
<1>1. BootInvariant /\ [Next]_vars => [AtHome]_mem
  <2> SUFFICES ASSUME BootInvariant, [Next]_vars, mem' # mem
               PROVE  AtHome
    OBVIOUS
  <2>1. PICK x \in DOMAIN mem, v \in Words : Home(x) /\ mem' = [mem EXCEPT ![x] = v]
    BY StepInvariant DEF Kept, StoresHome
  <2>2. \A w \in DOMAIN mem : w # x => mem'[w] = mem[w]
    BY <2>1
  <2> QED
    BY <2>1, <2>2 DEF Home
<1> HIDE DEF AtHome
<1>2. Spec => [][AtHome]_mem
  BY <1>1, Invariance, PTL DEF Spec
<1> QED
  BY <1>2 DEF StoresStayHome, AtHome

\* A disk of more than 44 bytes whose size is a power of two has 64.
LEMMA DiskSize ==
  ASSUME NEW n \in PowersOfTwo, n > 44
  PROVE  n >= 64
<1> SUFFICES ASSUME n < 64 PROVE FALSE
  BY BundleAssumption DEF PowersOfTwo
<1>1. n \in Nat /\ \A d \in 2 .. n : n % d = 0 => d % 2 = 0
  BY BundleAssumption DEF PowersOfTwo
<1>2. n % 3 # 0 /\ n % 5 # 0 /\ n % 7 # 0
  BY <1>1
<1>3. n % 13 # 0 /\ n % 23 # 0 /\ n % 29 # 0 /\ n % 31 # 0
  BY <1>1
<1>4. n % n = 0 /\ n % 2 = 0
  BY <1>1
<1>5. n \in {46, 48, 50, 52, 54, 56, 58, 60, 62}
  BY <1>1, <1>4
<1> QED
  BY <1>2, <1>3, <1>5

\* main accepts every control block the host tools write.
THEOREM HostIsAccepted == Spec => []HostRequestsAccepted
<1>1. BootInvariant => HostRequestsAccepted
  <2> SUFFICES ASSUME BootInvariant, pc \in Refusing, MadeByHost PROVE FALSE
    BY DEF HostRequestsAccepted, Refusing
  <2>1. ~Valid(Requested)
    BY DEF BootInvariant, Controlled
  <2>2. \A w \in 0 .. 10 : mem[w] \in Nat
    BY RequestedWords, BundleAssumption DEF BootInvariant, Words
  <2>3. mem[2] >= 64
    BY <2>2, DiskSize DEF MadeByHost
  <2>4. Valid(Requested)
    BY <2>2, <2>3 DEF MadeByHost, Valid, Requested, CapacityFits, Apart
  <2> QED
    BY <2>1, <2>4
<1> QED
  BY <1>1, Invariance, PTL

----------------------------------------------------------------------------
(* The host's decoder, field by field.                                     *)

\* A set of natural numbers has a least element.
LEMMA LeastNatural ==
  ASSUME NEW S \in SUBSET Nat, S # {}
  PROVE  \E m \in S : \A n \in S : m <= n
<1> DEFINE family == {0 .. n : n \in S}
           R == StrictSubsetOrdering(Nat)
<1>1. IsWellFoundedOn(R, FiniteSubsetsOf(Nat))
  BY FS_StrictSubsetOrderingWellFounded
<1>2. \A n \in S : 0 .. n \in FiniteSubsetsOf(Nat)
  BY FS_Interval DEF FiniteSubsetsOf
<1>3. family \subseteq FiniteSubsetsOf(Nat) /\ family # {}
  BY <1>2
<1> HIDE DEF R
<1>4. \E x \in family : \A y \in family : ~ (<<y, x>> \in R)
  BY <1>1, <1>3, WFMin
<1>5. PICK m \in S : \A n \in S : ~ (<<0 .. n, 0 .. m>> \in R)
  BY <1>4
<1>6. ASSUME NEW n \in S, n < m
      PROVE  FALSE
  <2>1. /\ 0 .. n \in SUBSET Nat /\ 0 .. m \in SUBSET Nat
        /\ 0 .. n \subseteq 0 .. m /\ m \in 0 .. m /\ m \notin 0 .. n
    BY <1>6
  <2>2. <<0 .. n, 0 .. m>> \in R
    BY <2>1 DEF R, StrictSubsetOrdering
  <2> QED
    BY <1>5, <2>2
<1> QED
  BY <1>6

\* The device holds words.
LEMMA LoadedWord ==
  ASSUME NEW m, m \in [DOMAIN m -> Words], NEW a
  PROVE  Load(m, a) \in Words /\ Load(m, a) \in Nat
  BY BundleAssumption DEF Load, Words

\* A field of the stream ends behind where it starts, or nowhere.
LEMMA AfterFacts ==
  ASSUME NEW m, m \in [DOMAIN m -> Words], NEW address, NEW length \in Nat, NEW p \in Int
  PROVE  /\ AfterWord(length, p) \in Int /\ BlobEnd(m, address, length, p) \in Int
         /\ AfterWord(length, p) # Bad => AfterWord(length, p) = p + 4 /\ p + 4 <= length
         /\ BlobEnd(m, address, length, p) # Bad =>
              /\ AfterWord(length, p) # Bad
              /\ BlobEnd(m, address, length, p) = p + 4 + Padded(Load(m, address + p))
              /\ BlobEnd(m, address, length, p) >= p + 4
              /\ BlobEnd(m, address, length, p) <= length
         /\ BlobEnd(m, address, length, Bad) = Bad
<1>1. Load(m, address + p) \in Nat
  BY LoadedWord
<1>2. Padded(Load(m, address + p)) \in Nat
  BY <1>1, PaddedFacts
<1> QED
  BY <1>2 DEF AfterWord, BlobEnd, Bad

LEMMA EntryEndInt ==
  ASSUME NEW m, m \in [DOMAIN m -> Words], NEW address, NEW length \in Nat, NEW k \in Int,
         NEW p \in Int
  PROVE  EntryEnd(m, address, length, k, p) \in Int
         /\ EntryEnd(m, address, length, k, Bad) = Bad
<1>1. Bad \in Int
  BY DEF Bad
<1>2. AfterWord(length, p) \in Int /\ BlobEnd(m, address, length, p) \in Int
  BY AfterFacts
<1>3. BlobEnd(m, address, length, AfterWord(length, p)) \in Int
  BY <1>2, AfterFacts
<1>4. BlobEnd(m, address, length, BlobEnd(m, address, length, AfterWord(length, p))) \in Int
  BY <1>3, AfterFacts
<1> QED
  BY <1>1, <1>2, <1>4 DEF EntryEnd

\* How many entries a stream says it has.
LEMMA CountFacts ==
  ASSUME NEW m, m \in [DOMAIN m -> Words], NEW address
  PROVE  TextCount(m, address) \in Nat /\ FileCount(m, address) \in Nat
  BY LoadedWord DEF TextCount, FileCount

\* The ends of the entries are what EntryEnd says of the end before.
LEMMA EndsFacts ==
  ASSUME NEW m, m \in [DOMAIN m -> Words], NEW address, NEW length \in Nat,
         NEW n, n = TextCount(m, address) + FileCount(m, address)
  PROVE  LET ends == EntryEnds(m, address, length)
         IN  /\ ends \in [0 .. n -> Int] /\ ends[0] = 24
             /\ \A k \in 1 .. n : ends[k] = EntryEnd(m, address, length, k, ends[k - 1])
<1> DEFINE F(k, p) == EntryEnd(m, address, length, k, p)
           Begins(f, j) == /\ f \in [0 .. j -> Int] /\ f[0] = 24
                           /\ \A k \in 1 .. j : f[k] = F(k, f[k - 1])
           S == {j \in 0 .. n : ~ \E f \in [0 .. j -> Int] : Begins(f, j)}
<1>1. n \in Nat
  BY CountFacts
<1>2. \A k \in Int, p \in Int : F(k, p) \in Int
  BY EntryEndInt
<1> HIDE DEF F
<1>3. S = {}
  <2> SUFFICES ASSUME S # {} PROVE FALSE
    OBVIOUS
  <2>1. S \in SUBSET Nat
    BY <1>1
  <2>2. PICK j \in S : \A i \in S : j <= i
    BY <2>1, LeastNatural
  <2>3. j \in 0 .. n
    OBVIOUS
  <2>4. CASE j = 0
    <3> DEFINE g == [k \in 0 .. 0 |-> 24]
    <3>1. Begins(g, 0)
      OBVIOUS
    <3>2. g \in [0 .. 0 -> Int]
      OBVIOUS
    <3> QED
      BY <2>2, <2>4, <3>1, <3>2
  <2>5. CASE j # 0
    <3>1. j - 1 \in 0 .. n /\ j - 1 \in Nat /\ j - 1 \notin S
      BY <1>1, <2>2, <2>3, <2>5
    <3>2. PICK g \in [0 .. j - 1 -> Int] : Begins(g, j - 1)
      BY <3>1
    <3> DEFINE h == [k \in 0 .. j |-> IF k = j THEN F(j, g[j - 1]) ELSE g[k]]
    <3>3. h \in [0 .. j -> Int]
      BY <1>2, <2>3, <3>1, <3>2
    <3>4. h[0] = 24
      BY <2>3, <2>5, <3>2
    <3>5. ASSUME NEW k \in 1 .. j PROVE h[k] = F(k, h[k - 1])
      <4>1. CASE k = j
        BY <2>3, <3>1, <4>1
      <4>2. CASE k # j
        BY <2>3, <3>1, <3>2, <4>2
      <4> QED
        BY <4>1, <4>2
    <3> HIDE DEF h
    <3> QED
      BY <2>2, <3>3, <3>4, <3>5
  <2> QED
    BY <2>4, <2>5
<1>4. PICK f \in [0 .. n -> Int] : Begins(f, n)
  <2>1. n \in 0 .. n /\ n \notin S
    BY <1>1, <1>3
  <2> QED
    BY <2>1
<1> DEFINE Is(g) == g = [k \in 0 .. n |-> IF k = 0 THEN 24 ELSE F(k, g[k - 1])]
           e == CHOOSE g : Is(g)
<1>5. Is(f)
  <2>1. \A k \in 0 .. n : f[k] = IF k = 0 THEN 24 ELSE F(k, f[k - 1])
    BY <1>1, <1>4
  <2> QED
    BY <1>4, <2>1
<1>6. Is(e)
  BY <1>5
<1>7. EntryEnds(m, address, length) = e
  BY DEF EntryEnds, F
<1> HIDE DEF e
<1>8. /\ DOMAIN e = 0 .. n /\ e[0] = 24
      /\ \A k \in 1 .. n : e[k] = F(k, e[k - 1])
  <2>1. DOMAIN e = 0 .. n /\ \A k \in 0 .. n : e[k] = IF k = 0 THEN 24 ELSE F(k, e[k - 1])
    BY ONLY <1>6
  <2>2. 0 \in 0 .. n /\ \A k \in 1 .. n : k \in 0 .. n /\ k # 0
    BY ONLY <1>1
  <2> QED
    BY ONLY <2>1, <2>2
<1>9. e = f
  <2> DEFINE T == {k \in 0 .. n : e[k] # f[k]}
  <2>1. T = {}
    <3> SUFFICES ASSUME T # {} PROVE FALSE
      OBVIOUS
    <3>1. T \in SUBSET Nat
      BY <1>1
    <3>2. PICK k \in T : \A i \in T : k <= i
      BY <3>1, LeastNatural
    <3>3. k # 0 /\ k \in 0 .. n
      BY <1>4, <1>8
    <3>4. k - 1 \in 0 .. n /\ k - 1 \notin T /\ k \in 1 .. n
      BY <1>1, <3>2, <3>3
    <3> QED
      BY <1>4, <1>8, <3>2, <3>4
  <2> QED
    BY <1>4, <1>6, <2>1
<1> QED
  BY <1>4, <1>7, <1>9 DEF F

\* An entry that ends nowhere leaves no bundle.
LEMMA BadStays ==
  ASSUME NEW m, m \in [DOMAIN m -> Words], NEW address, NEW length \in Nat,
         NEW n, n = TextCount(m, address) + FileCount(m, address),
         NEW k \in 0 .. n, EntryEnds(m, address, length)[k] = Bad
  PROVE  ~Framed(m, address, length)
<1> DEFINE ends == EntryEnds(m, address, length)
           S == {j \in k .. n : ends[j] # Bad}
<1>1. n \in Nat
  BY CountFacts
<1>2. \A j \in 1 .. n : ends[j] = EntryEnd(m, address, length, j, ends[j - 1])
  BY EndsFacts
<1> HIDE DEF ends
<1>3. S = {}
  <2> SUFFICES ASSUME S # {} PROVE FALSE
    OBVIOUS
  <2>1. S \in SUBSET Nat
    BY <1>1
  <2>2. PICK j \in S : \A i \in S : j <= i
    BY <2>1, LeastNatural
  <2>3. j # k
    BY DEF ends
  <2>4. j - 1 \in k .. n /\ j \in 1 .. n /\ ends[j - 1] = Bad
    BY <1>1, <2>2, <2>3
  <2>5. EntryEnd(m, address, length, j, Bad) = Bad
    BY <2>4, EntryEndInt DEF Bad
  <2> QED
    BY <1>2, <2>2, <2>4, <2>5
<1>4. ends[n] = Bad
  BY <1>1, <1>3
<1>5. Bad # length
  BY DEF Bad
<1> QED
  BY <1>4, <1>5 DEF Framed, ends

\* Reading a text of the stream, dyn_project_read_text and _Reader.blob find the
\* same text and the same end; where the host finds none there is no text.
LEMMA TextAgrees ==
  ASSUME NEW m, m \in [DOMAIN m -> Words], NEW r, Sound(r), r.length \in Words,
         NEW room \in BOOLEAN
  PROVE  LET read == Text(m, r, room)
             end == BlobEnd(m, r.address, r.length, r.position)
         IN  /\ r.error => read.reader.error
             /\ ~r.error /\ end # Bad /\ room =>
                  /\ ~read.reader.error /\ read.reader.position = end
                  /\ read.text = [address |-> r.address + r.position + 4,
                                  length |-> Load(m, r.address + r.position)]
             /\ ~r.error /\ (end = Bad \/ ~room) => read.text = NoText
             /\ ~r.error /\ end # Bad /\ ~room => read.reader.error
<1> DEFINE size == Value(m, r)
           s == U32(r)
           blob == Blob(m, r)
           read == Text(m, r, room)
           end == BlobEnd(m, r.address, r.length, r.position)
<1>1. /\ r \in Readers /\ r.position \in Nat /\ r.length \in Nat /\ r.length < Modulus
      /\ r.error \in BOOLEAN /\ r.position <= r.length /\ r.address \in Nat
  BY BundleAssumption DEF Sound, Readers, Words
<1>2. size \in Nat /\ size < Modulus
  BY ValueFacts, BundleAssumption DEF Words
<1>3. Padded(size) \in Nat /\ Padded(size) % 4 = 0 /\ size <= Padded(size)
  BY <1>2, PaddedFacts
<1>4. CASE Short(r)
  <2>1. s = [r EXCEPT !.error = TRUE]
    BY <1>4 DEF U32, s
  <2>2. s.error
    BY <1>1, <2>1 DEF Readers
  <2> HIDE DEF s
  <2>3. blob = [reader |-> s, text |-> NoText]
    BY <2>2 DEF Blob, s
  <2>4. read = blob
    BY <2>3 DEF Text, blob
  <2>5. end = Bad
    BY <1>1, <1>4 DEF Short, BlobEnd, AfterWord
  <2> QED
    BY <2>2, <2>3, <2>4, <2>5
<1>5. CASE ~Short(r)
  <2>1. s = [r EXCEPT !.position = r.position + 4]
    BY <1>1, <1>5 DEF U32, s, Readers
  <2>2. /\ s \in Readers /\ s.error = r.error /\ s.position = r.position + 4
        /\ s.length = r.length /\ s.address = r.address
    BY <1>1, <2>1 DEF Readers
  <2>3. /\ r.position + 4 <= r.length /\ size = Load(m, r.address + r.position)
    BY <1>1, <1>5 DEF Short, Value, size
  <2>4. end = IF r.position + 4 + Padded(size) > r.length THEN Bad
              ELSE r.position + 4 + Padded(size)
    BY <1>1, <2>3 DEF BlobEnd, AfterWord, Bad
  <2> HIDE DEF s, size, end
  <2>5. CASE r.error
    <3>1. blob = [reader |-> s, text |-> NoText]
      BY <2>2, <2>5 DEF Blob, s
    <3>2. read = blob
      BY <3>1 DEF Text, blob
    <3>3. read.reader = s
      BY <3>1, <3>2
    <3>4. s.error
      BY <1>1, <2>2, <2>5
    <3> HIDE DEF read
    <3>5. read.reader.error
      BY <3>3, <3>4
    <3> QED
      BY <1>1, <2>5, <3>5 DEF read
  <2>6. CASE ~r.error /\ size > LargestBlob
    <3>1. blob = [reader |-> s, text |-> NoText]
      <4>1. ~(size <= LargestBlob)
        BY <1>2, <2>6, BundleAssumption DEF LargestBlob
      <4> QED
        BY <2>6, <4>1 DEF Blob, s, size
    <3>2. read = blob
      BY <3>1 DEF Text, blob
    <3>3. Padded(size) >= Modulus
      BY <1>2, <1>3, <2>6, BundleAssumption DEF LargestBlob
    <3>4. end = Bad
      BY <1>1, <1>3, <2>4, <3>3, BundleAssumption
    <3> QED
      BY <1>1, <2>6, <3>1, <3>2, <3>4 DEF end
  <2>7. CASE ~r.error /\ size <= LargestBlob /\ Overruns(s, size)
    <3>1. blob = [reader |-> [s EXCEPT !.error = TRUE], text |-> NoText]
      <4>1. ~(size > LargestBlob)
        BY <1>2, <2>7, BundleAssumption DEF LargestBlob
      <4> QED
        BY <2>2, <2>7, <4>1 DEF Blob, s, size
    <3>2. read = blob
      BY <3>1 DEF Text, blob
    <3>3. end = Bad
      BY <1>1, <1>3, <2>2, <2>3, <2>4, <2>7 DEF Overruns
    <3> QED
      BY <1>1, <2>7, <3>1, <3>2, <3>3 DEF end
  <2>8. CASE ~r.error /\ size <= LargestBlob /\ ~Overruns(s, size)
    <3> DEFINE t == [address |-> r.address + r.position + 4, length |-> size]
               e == [s EXCEPT !.position = s.position + Padded(size)]
    <3>1. blob = [reader |-> e, text |-> t]
      <4>1. ~(size > LargestBlob)
        BY <1>2, <2>8, BundleAssumption DEF LargestBlob
      <4>2. s.address + s.position = r.address + r.position + 4
        BY <1>1, <2>2
      <4>3. blob = [reader |-> e, text |-> [address |-> s.address + s.position, length |-> size]]
        BY <2>2, <2>8, <4>1 DEF Blob, s, size, Readers
      <4> QED
        BY <4>2, <4>3
    <3>2. end = r.position + 4 + Padded(size) /\ end # Bad
      BY <1>1, <1>3, <2>2, <2>3, <2>4, <2>8 DEF Overruns, Bad
    <3>3. e.position = end /\ ~e.error
      BY <1>1, <2>2, <2>8, <3>2 DEF Readers
    <3>4. t # NoText
      BY <1>1 DEF NoText
    <3> HIDE DEF e
    <3>5. CASE room
      <4>1. read = blob
        BY <3>5 DEF Text, blob
      <4>2. /\ ~read.reader.error /\ read.reader.position = end
            /\ read.text = t
        BY <3>1, <3>3, <4>1
      <4> HIDE DEF read
      <4> QED
        BY <1>1, <2>3, <2>8, <3>2, <3>5, <4>2 DEF end, read
    <3>6. CASE ~room
      <4>1. /\ blob.text # NoText /\ blob.reader = e /\ e \in Readers
        BY <1>3, <2>2, <3>1, <3>4 DEF e, Readers
      <4>2. read = [reader |-> [blob.reader EXCEPT !.error = TRUE], text |-> NoText]
        BY <3>6, <4>1 DEF Text, blob
      <4>3. read.text = NoText /\ read.reader.error
        BY <4>1, <4>2 DEF Readers
      <4> HIDE DEF read
      <4> QED
        BY <2>8, <3>6, <4>3 DEF read
    <3> QED
      BY <3>5, <3>6
  <2>9. size <= LargestBlob \/ size > LargestBlob
    BY <1>2, BundleAssumption DEF LargestBlob
  <2> QED
    BY <1>1, <2>5, <2>6, <2>7, <2>8, <2>9
<1> QED
  BY <1>4, <1>5

----------------------------------------------------------------------------
(* A text of a bundle is one of its entries.                                   *)
LEMMA NextOfBoth ==
    ASSUME NEW e \in Nat, NEW t \in Nat, NEW f \in Nat, e + 1 \in 1 .. t
    PROVE  (e + 1) - 1 = e /\ e + 1 \in 1 .. t + f
  OBVIOUS

(* The invariant of the two readers.                                        *)

\* What the host's decoder finds in the project that is being read.
HostTexts == TextCount(mem, request.project)
HostFiles == FileCount(mem, request.project)
HostEnds == EntryEnds(mem, request.project, request.length)
HostWord(p) == Load(mem, request.project + p)
HostAfter(p) == BlobEnd(mem, request.project, request.length, p)
HostText(p) == [address |-> request.project + p + 4, length |-> HostWord(p)]
Decoded == DecodedTexts(mem, request.project, request.length)
HostFrames == Framed(mem, request.project, request.length)

WithinFile == pc \in {"path", "contents"}

\* How many texts n entries have, and how many files the reader has begun.
TextsOf(n) == IF n <= HostTexts THEN n ELSE HostTexts + 2 * (n - HostTexts)
FilesBegun == job.entry - HostTexts + (IF WithinFile THEN 1 ELSE 0)

\* The header is the one the host's decoder asks for.
HeaderAgrees ==
    /\ request.length >= 24
    /\ HostWord(0) = BundleMagic /\ HostWord(4) = 1 /\ HostWord(8) = 0
    /\ job.counts["files"] = HostFiles
    /\ job.counts["roots"] + job.counts["definitions"] = HostTexts

\* The reader is where the decoder is after as many fields.
PlaceAgrees ==
    /\ job.entry \in 0 .. HostTexts + HostFiles
    /\ HostEnds[job.entry] >= 24 + 4 * job.entry
    /\ pc = "reading" => job.reader.position = HostEnds[job.entry]
    /\ pc = "path" => job.reader.position = HostEnds[job.entry] + 4
    /\ pc = "contents" => job.reader.position = HostAfter(HostEnds[job.entry] + 4)
    /\ WithinFile =>
         /\ HostTexts <= job.entry /\ job.entry < HostTexts + HostFiles
         /\ HostEnds[job.entry] + 4 <= request.length
         /\ HostWord(HostEnds[job.entry]) \in {1, 2}

\* The texts read are the decoder's.
TextsAgree ==
    /\ Len(job.texts) = TextsOf(job.entry) + (IF pc = "contents" THEN 1 ELSE 0)
    /\ \A i \in 1 .. Len(job.texts) : job.texts[i] = Decoded[i]

\* A translation unit was counted if a file begun is one.
SourcesAgree ==
    job.sources # 0 <=> \E k \in 1 .. FilesBegun : HostWord(HostEnds[HostTexts + k - 1]) = 1

Agrees == ~job.reader.error /\ HeaderAgrees /\ PlaceAgrees /\ TextsAgree /\ SourcesAgree

\* Or the reader has parted from the decoder: then the project is refused, or
\* a text of it is missing, and without an error its frame is not a bundle's.
Diverged ==
    /\ (job.starved /\ job.reader.error) \/ ~HostFrames
    /\ job.reader.error \/ \E i \in 1 .. Len(job.texts) : job.texts[i] = NoText

ReadersFollow ==
    /\ pc \in Reads =>
         job.reader.address = request.project /\ job.reader.length = request.length
    /\ pc = "header" =>
         /\ job.reader.position = 0 /\ ~job.reader.error
         /\ job.texts = <<>> /\ job.entry = 0 /\ job.sources = 0
    /\ pc \in {"reading", "path", "contents"} => Agrees \/ Diverged
    /\ HostBundlesRead

\* The numbers of the decoder.
LEMMA HostFacts ==
  ASSUME BootInvariant, pc \in Reads
  PROVE  /\ mem \in [DOMAIN mem -> Words] /\ request.length \in Words
         /\ request.length \in Nat /\ request.project \in Nat
         /\ HostTexts \in Nat /\ HostFiles \in Nat
         /\ HostEnds \in [0 .. HostTexts + HostFiles -> Int] /\ HostEnds[0] = 24
         /\ \A k \in 1 .. HostTexts + HostFiles :
              HostEnds[k] = EntryEnd(mem, request.project, request.length, k, HostEnds[k - 1])
<1>1. /\ mem \in [DOMAIN mem -> Words] /\ request.length \in Words
      /\ request.length \in Nat /\ request.project \in Nat
  BY BundleAssumption DEF BootInvariant, Types, DiskTypes, Requests, Words
<1>2. HostTexts \in Nat /\ HostFiles \in Nat
  BY <1>1, CountFacts DEF HostTexts, HostFiles
<1> QED
  BY <1>1, <1>2, EndsFacts DEF HostTexts, HostFiles, HostEnds

\* The texts of the decoder.
LEMMA DecodedFacts ==
  ASSUME HostTexts \in Nat, HostFiles \in Nat
  PROVE  /\ Decoded = [i \in 1 .. HostTexts + 2 * HostFiles |-> Decoded[i]]
         /\ \A i \in 1 .. HostTexts : Decoded[i] = HostText(HostEnds[i - 1])
         /\ \A j \in 0 .. HostFiles - 1 :
              LET path == HostEnds[HostTexts + j] + 4
              IN  /\ Decoded[HostTexts + 2 * j + 1] = HostText(path)
                  /\ Decoded[HostTexts + 2 * j + 2] = HostText(HostAfter(path))
<1> DEFINE Path(i) == HostEnds[HostTexts + (i - HostTexts + 1) \div 2 - 1] + 4
<1>1. Decoded = [i \in 1 .. HostTexts + 2 * HostFiles |->
                   IF i <= HostTexts THEN HostText(HostEnds[i - 1])
                   ELSE IF (i - HostTexts) % 2 = 1 THEN HostText(Path(i))
                   ELSE HostText(HostAfter(Path(i)))]
  BY DEF Decoded, DecodedTexts, HostTexts, HostFiles, HostEnds, HostText, HostAfter, HostWord
<1>2. ASSUME NEW i \in 1 .. HostTexts
      PROVE  Decoded[i] = HostText(HostEnds[i - 1])
  BY <1>1, <1>2
<1>3. ASSUME NEW j \in 0 .. HostFiles - 1
      PROVE  LET path == HostEnds[HostTexts + j] + 4
             IN  /\ Decoded[HostTexts + 2 * j + 1] = HostText(path)
                 /\ Decoded[HostTexts + 2 * j + 2] = HostText(HostAfter(path))
  <2> DEFINE a == HostTexts + 2 * j + 1
             b == HostTexts + 2 * j + 2
  <2>1. /\ a \in 1 .. HostTexts + 2 * HostFiles /\ ~(a <= HostTexts)
        /\ a - HostTexts = 2 * j + 1 /\ (2 * j + 1) % 2 = 1
        /\ (a - HostTexts + 1) \div 2 = j + 1 /\ HostTexts + (j + 1) - 1 = HostTexts + j
    BY <1>3
  <2>2. /\ b \in 1 .. HostTexts + 2 * HostFiles /\ ~(b <= HostTexts)
        /\ b - HostTexts = 2 * j + 2 /\ (2 * j + 2) % 2 # 1
        /\ (b - HostTexts + 1) \div 2 = j + 1
    BY <1>3
  <2> HIDE DEF a, b
  <2>3. Path(a) = HostEnds[HostTexts + j] + 4
    BY <2>1
  <2>4. Path(b) = HostEnds[HostTexts + j] + 4
    BY <2>1, <2>2
  <2>5. (a - HostTexts) % 2 = 1 /\ ~((b - HostTexts) % 2 = 1)
    BY <2>1, <2>2
  <2> HIDE DEF Path
  <2>6. Decoded[a] = HostText(Path(a))
    BY <1>1, <2>1, <2>5
  <2>7. Decoded[b] = HostText(HostAfter(Path(b)))
    BY <1>1, <2>2, <2>5
  <2> QED
    BY <2>3, <2>4, <2>6, <2>7 DEF a, b
<1> QED
  BY <1>1, <1>2, <1>3

\* Nothing of the decoder changes while the project is read.
LEMMA SameHost ==
  ASSUME mem' = mem, request' = request
  PROVE  /\ HostTexts' = HostTexts /\ HostFiles' = HostFiles /\ HostEnds' = HostEnds
         /\ Decoded' = Decoded /\ HostFrames' = HostFrames
         /\ \A p : HostWord(p)' = HostWord(p) /\ HostAfter(p)' = HostAfter(p)
BY DEF HostTexts, HostFiles, HostEnds, Decoded, HostFrames, HostWord, HostAfter

\* The fields of a job as texts are read.
Extends(old, new) ==
    /\ old.starved => new.starved
    /\ old.reader.error => new.reader.error
    /\ Len(old.texts) <= Len(new.texts)
    /\ \A i \in 1 .. Len(old.texts) : new.texts[i] = old.texts[i]

\* Once parted the reader and the decoder never meet.
LEMMA DivergedStays ==
  ASSUME BootInvariant, Diverged, mem' = mem, request' = request, Extends(job, job')
  PROVE  Diverged'
<1>1. HostFrames' = HostFrames
  BY SameHost
<1>2. /\ job \in Jobs /\ Len(job.texts) \in Nat
  BY LenProperties DEF BootInvariant, Types, Jobs
<1>3. job.reader.error \/ \E i \in 1 .. Len(job.texts) : job.texts[i] = NoText
  BY DEF Diverged
<1>4. CASE job.reader.error
  BY <1>1, <1>4 DEF Diverged, Extends
<1>5. CASE \E i \in 1 .. Len(job.texts) : job.texts[i] = NoText
  <2>1. PICK i \in 1 .. Len(job.texts) : job.texts[i] = NoText
    BY <1>5
  <2> QED
    BY <1>1, <1>2, <2>1 DEF Diverged, Extends
<1> QED
  BY <1>3, <1>4, <1>5

----------------------------------------------------------------------------
(* The reader follows the decoder.                                          *)

\* A text of the decoder is not an empty field.
LEMMA HostTextIsText ==
  ASSUME NEW p \in Nat, request.project \in Nat
  PROVE  HostText(p) # NoText
BY DEF HostText, NoText

\* A text is read as the decoder reads it, or is missing.
LEMMA ReadOneAgrees ==
  ASSUME BootInvariant, pc \in Reads, NEW done \in Nat, ReadOne(done),
         job.reader.address = request.project, job.reader.length = request.length
  PROVE  LET p == job.reader.position
             n == Len(job.texts) + 1
         IN  /\ job'.counts = job.counts /\ job'.sources = job.sources
             /\ job'.entry = job.entry + done
             /\ job'.reader.address = job.reader.address
             /\ job'.reader.length = job.reader.length
             /\ Extends(job, job') /\ Len(job'.texts) = n
             /\ ~job.reader.error =>
                  \/ /\ HostAfter(p) # Bad /\ ~job'.reader.error
                     /\ job'.reader.position = HostAfter(p)
                     /\ job'.texts[n] = HostText(p)
                  \/ /\ HostAfter(p) = Bad \/ (job'.starved /\ job'.reader.error)
                     /\ job'.texts[n] = NoText
<1>1. /\ job \in Jobs /\ Sound(job.reader) /\ mem \in [DOMAIN mem -> Words]
      /\ request.length \in Words
  BY HostFacts DEF BootInvariant, Types, ReaderInside
<1>2. PICK room \in BOOLEAN :
        LET read == Text(mem, job.reader, room)
        IN  job' = [job EXCEPT !.reader = read.reader, !.texts = Append(@, read.text),
                               !.entry = @ + done, !.starved = @ \/ ~room]
  BY DEF ReadOne
<1> DEFINE read == Text(mem, job.reader, room)
           texts == Append(job.texts, read.text)
           starved == job.starved \/ ~room
           end == HostAfter(job.reader.position)
<1>3. Advanced(job.reader, read.reader) /\ read.text \in Spans
  BY <1>1, TextFacts
<1>4. /\ job.reader.error => read.reader.error
      /\ ~job.reader.error /\ end # Bad /\ room =>
           /\ ~read.reader.error /\ read.reader.position = end
           /\ read.text = HostText(job.reader.position)
      /\ ~job.reader.error /\ (end = Bad \/ ~room) => read.text = NoText
      /\ ~job.reader.error /\ end # Bad /\ ~room => read.reader.error
  BY <1>1, TextAgrees DEF HostAfter, HostText, HostWord
<1> HIDE DEF read, end
<1>5. /\ Len(texts) = Len(job.texts) + 1 /\ Len(job.texts) \in Nat
      /\ \A i \in 1 .. Len(job.texts) : texts[i] = job.texts[i]
      /\ texts[Len(job.texts) + 1] = read.text
  BY <1>1, <1>3, AppendProperties, LenProperties DEF Jobs
<1>6. job' = [job EXCEPT !.reader = read.reader, !.texts = texts,
                         !.entry = job.entry + done, !.starved = starved]
  BY <1>1, <1>2 DEF read, Jobs
<1> HIDE DEF texts
<1>7. /\ job'.reader = read.reader /\ job'.texts = texts
      /\ job'.counts = job.counts /\ job'.sources = job.sources
      /\ job'.entry = job.entry + done
  BY <1>1, <1>6 DEF Jobs
<1>8. job.starved \/ ~room => job'.starved
  BY <1>1, <1>6 DEF Jobs
<1> HIDE DEF starved
<1>9. Extends(job, job')
  BY <1>4, <1>5, <1>7, <1>8 DEF Extends
<1>10. CASE job.reader.error
  BY <1>3, <1>5, <1>7, <1>9, <1>10 DEF Advanced
<1>11. CASE ~job.reader.error /\ end # Bad /\ room
  BY <1>3, <1>4, <1>5, <1>7, <1>9, <1>11 DEF Advanced, end
<1>12. CASE ~job.reader.error /\ (end = Bad \/ ~room)
  <2>1. end = Bad \/ (job'.starved /\ job'.reader.error)
    BY <1>4, <1>7, <1>8, <1>12
  <2> QED
    BY <1>3, <1>4, <1>5, <1>7, <1>9, <1>12, <2>1 DEF Advanced, end
<1> QED
  BY <1>10, <1>11, <1>12

\* A text that is missing where the decoder finds none, or no memory was found.
LEMMA MissingText ==
  ASSUME BootInvariant, mem' = mem, request' = request,
         Len(job'.texts) \in Nat \ {0}, job'.texts[Len(job'.texts)] = NoText,
         ~HostFrames \/ (job'.starved /\ job'.reader.error)
  PROVE  Diverged'
<1>1. HostFrames' = HostFrames
  BY SameHost
<1>2. Len(job'.texts) \in 1 .. Len(job'.texts)
  OBVIOUS
<1> QED
  BY <1>1, <1>2 DEF Diverged

\* What the decoder asks of the header does not change.
LEMMA SameHeader ==
  ASSUME HeaderAgrees, mem' = mem, request' = request, job'.counts = job.counts
  PROVE  HeaderAgrees'
BY DEF HeaderAgrees, HostWord, HostFiles, HostTexts

\* The texts agree when one more is read and it agrees.
LEMMA MoreTexts ==
  ASSUME mem' = mem, request' = request, Len(job.texts) \in Nat,
         \A i \in 1 .. Len(job.texts) : job.texts[i] = Decoded[i],
         Extends(job, job'), Len(job'.texts) = Len(job.texts) + 1,
         job'.texts[Len(job.texts) + 1] = Decoded[Len(job.texts) + 1]
  PROVE  \A i \in 1 .. Len(job'.texts) : job'.texts[i] = Decoded'[i]
<1>1. Decoded' = Decoded
  BY SameHost
<1> QED
  BY <1>1 DEF Extends

\* A step that goes on reading.
LEMMA ReadOn ==
  ASSUME ReadersFollow, pc \in Reads, pc' \in {"reading", "path", "contents"},
         request' = request, Agrees' \/ Diverged',
         job'.reader.address = job.reader.address, job'.reader.length = job.reader.length
  PROVE  ReadersFollow'
BY DEF ReadersFollow, HostBundlesRead, Reads

\* An entry that ends nowhere leaves no bundle.
LEMMA HostBad ==
  ASSUME BootInvariant, pc \in Reads, NEW k \in 0 .. HostTexts + HostFiles, HostEnds[k] = Bad
  PROVE  ~HostFrames
BY HostFacts, BadStays DEF HostFrames, HostEnds, HostTexts, HostFiles

\* The header is the decoder's, or is refused (compiler.c:323-335).
LEMMA HeaderFollows ==
  ASSUME BootInvariant, ReadersFollow, ReadHeader
  PROVE  ReadersFollow'
<1> DEFINE r == job.reader
           v == [i \in 0 .. 5 |-> Value(mem, U32s(r, i))]
           counts == [a \in Arrays |-> CASE a = "files" -> v[3] [] a = "roots" -> v[4]
                                         [] a = "definitions" -> v[5]]
           wanted == {a \in Arrays : counts[a] # 0}
           misread == v[0] # BundleMagic \/ v[1] # 1 \/ v[2] # 0
           after == U32s(r, 6)
<1>1. /\ pc = "header" /\ pc' = "reading" /\ mem' = mem /\ request' = request
      /\ pc \in Reads /\ job \in Jobs /\ Sound(r)
  BY DEF ReadHeader, Reads, BootInvariant, Types, ReaderInside
<1>2. /\ mem \in [DOMAIN mem -> Words] /\ request.length \in Nat /\ request.project \in Nat
      /\ HostTexts \in Nat /\ HostFiles \in Nat /\ HostEnds[0] = 24
  BY <1>1, HostFacts
<1>3. /\ r.address = request.project /\ r.length = request.length /\ r.position = 0
      /\ ~r.error /\ job.texts = <<>> /\ job.entry = 0 /\ job.sources = 0
      /\ r \in Readers
  BY <1>1 DEF ReadersFollow, Sound
<1>4. PICK got \in SUBSET wanted :
        job' = [job EXCEPT !.counts = counts, !.arrays = got, !.starved = got # wanted,
                  !.reader = [after EXCEPT !.error = after.error \/ misread \/ got # wanted]]
  <2>1. U32s(job.reader, 6) \in Readers
    BY <1>1, U32sFacts DEF Advanced, Sound
  <2> QED
    BY <2>1 DEF ReadHeader, Readers
<1>5. Advanced(r, after) /\ (after.error \/ after.position = 24)
  BY <1>1, <1>3, U32sFacts
<1>6. request.length >= 24 =>
        /\ ~after.error
        /\ \A i \in 0 .. 5 : v[i] = HostWord(4 * i)
  <2> SUFFICES ASSUME request.length >= 24
               PROVE  ~after.error /\ \A i \in 0 .. 5 : v[i] = HostWord(4 * i)
    OBVIOUS
  <2>1. \A i \in 0 .. 6 : i <= (request.length - 0) \div 4
    BY <1>2
  <2>2. \A i \in 0 .. 6 : U32s(r, i) = [r EXCEPT !.position = 4 * i]
    BY <1>2, <1>3, <2>1 DEF U32s, Readers
  <2>3. ~after.error
    BY <1>3, <2>2 DEF Readers
  <2>4. ASSUME NEW i \in 0 .. 5 PROVE v[i] = HostWord(4 * i)
    <3> DEFINE s == [r EXCEPT !.position = 4 * i]
    <3>1. s.position = 4 * i /\ s.length = request.length /\ s.address = request.project
      BY <1>3 DEF Readers
    <3> HIDE DEF s
    <3>2. ~Short(s)
      BY <1>2, <3>1 DEF Short
    <3>3. Value(mem, s) = HostWord(4 * i)
      BY <3>1, <3>2 DEF Value, HostWord
    <3> QED
      BY <2>2, <3>3 DEF s
  <2> QED
    BY <2>3, <2>4
<1>7. request.length < 24 => after.error
  BY <1>2, <1>3 DEF U32s, Readers
<1> HIDE DEF after, v
<1> DEFINE e == after.error \/ misread \/ got # wanted
           s == [after EXCEPT !.error = e]
<1>8. Advanced(r, s) /\ s.error = e /\ s.position = after.position
  <2>1. e \in BOOLEAN /\ after \in Readers
    BY <1>5 DEF Advanced, Sound
  <2> HIDE DEF e
  <2> QED
    BY <1>5, <2>1, Marked DEF Readers
<1>9. job' = [job EXCEPT !.counts = counts, !.arrays = got, !.starved = (got # wanted),
                         !.reader = s]
  BY <1>4
<1> HIDE DEF s, counts, wanted, misread
<1>10. /\ job'.reader = s /\ job'.counts = counts /\ job'.texts = <<>> /\ job'.entry = 0
       /\ job'.sources = 0 /\ job'.starved = (got # wanted)
  BY <1>1, <1>3, <1>9 DEF Jobs
<1>11. CASE e
  <2>1. got # wanted \/ ~HostFrames
    <3>1. CASE request.length < 24
      BY <1>2, <3>1 DEF HostFrames, Framed
    <3>2. CASE request.length >= 24 /\ misread
      <4>1. v[0] = HostWord(0) /\ v[1] = HostWord(4) /\ v[2] = HostWord(8)
        BY <1>6, <3>2
      <4>2. HostWord(0) = Load(mem, request.project)
        BY <1>2 DEF HostWord
      <4> QED
        BY <3>2, <4>1, <4>2 DEF HostFrames, Framed, misread, HostWord
    <3>3. CASE got # wanted
      BY <3>3
    <3> QED
      BY <1>2, <1>6, <1>11, <3>1, <3>2, <3>3
  <2>2. job'.starved \/ ~HostFrames'
    BY <1>1, <1>10, <2>1, SameHost
  <2>3. job'.reader.error
    BY <1>8, <1>10, <1>11
  <2>4. Diverged'
    BY <2>2, <2>3 DEF Diverged
  <2> QED
    BY <1>1, <1>3, <1>8, <1>10, <2>4, ReadOn DEF Advanced
<1>12. CASE ~e
  <2>1. request.length >= 24 /\ \A i \in 0 .. 5 : v[i] = HostWord(4 * i)
    BY <1>2, <1>6, <1>7, <1>12
  <2>2. HeaderAgrees'
    <3>1. HostWord(0) = BundleMagic /\ HostWord(4) = 1 /\ HostWord(8) = 0
      BY <1>12, <2>1 DEF misread
    <3>2. /\ counts["files"] = v[3] /\ counts["roots"] = v[4] /\ counts["definitions"] = v[5]
      BY DEF counts, Arrays
    <3>3. v[3] = HostFiles /\ v[4] + v[5] = HostTexts
      BY <2>1 DEF HostWord, HostFiles, HostTexts, FileCount, TextCount
    <3> QED
      BY <1>1, <1>10, <2>1, <3>1, <3>2, <3>3, SameHost DEF HeaderAgrees
  <2>3. PlaceAgrees'
    BY <1>1, <1>2, <1>5, <1>8, <1>10, <1>12, SameHost DEF PlaceAgrees, WithinFile
  <2>4. TextsAgree'
    BY <1>1, <1>2, <1>10, SameHost, EmptySeq DEF TextsAgree, TextsOf
  <2>5. SourcesAgree'
    BY <1>1, <1>2, <1>10, SameHost DEF SourcesAgree, FilesBegun, WithinFile
  <2>6. Agrees'
    BY <1>8, <1>10, <1>12, <2>2, <2>3, <2>4, <2>5 DEF Agrees
  <2> QED
    BY <1>1, <1>3, <1>8, <1>10, <2>6, ReadOn DEF Advanced
<1> QED
  BY <1>11, <1>12

\* An include root or a definition (compiler.c:336-343).
LEMMA TextFollows ==
  ASSUME BootInvariant, ReadersFollow, ReadText
  PROVE  ReadersFollow'
<1> DEFINE p == HostEnds[job.entry]
           n == Len(job.texts) + 1
<1>1. /\ pc = "reading" /\ pc' = "reading" /\ mem' = mem /\ request' = request /\ pc \in Reads
      /\ ~job.reader.error /\ job.entry < TextEntries /\ ReadOne(1) /\ job \in Jobs
  BY DEF ReadText, Reading, Reads, BootInvariant, Types
<1>2. job.reader.address = request.project /\ job.reader.length = request.length
  BY <1>1 DEF ReadersFollow
<1>3. /\ job'.counts = job.counts /\ job'.sources = job.sources /\ job'.entry = job.entry + 1
      /\ job'.reader.address = job.reader.address /\ job'.reader.length = job.reader.length
      /\ Extends(job, job') /\ Len(job'.texts) = n
      /\ \/ /\ HostAfter(job.reader.position) # Bad /\ ~job'.reader.error
            /\ job'.reader.position = HostAfter(job.reader.position)
            /\ job'.texts[n] = HostText(job.reader.position)
         \/ /\ HostAfter(job.reader.position) = Bad \/ (job'.starved /\ job'.reader.error)
            /\ job'.texts[n] = NoText
  BY <1>1, <1>2, ReadOneAgrees
<1>4. CASE Diverged
  <2>1. Diverged'
    BY <1>1, <1>3, <1>4, DivergedStays
  <2> QED
    BY <1>1, <1>3, <2>1, ReadOn
<1>5. CASE Agrees
  <2>1. /\ mem \in [DOMAIN mem -> Words] /\ request.length \in Nat /\ request.project \in Nat
        /\ HostTexts \in Nat /\ HostFiles \in Nat
        /\ HostEnds \in [0 .. HostTexts + HostFiles -> Int]
        /\ \A k \in 1 .. HostTexts + HostFiles :
             HostEnds[k] = EntryEnd(mem, request.project, request.length, k, HostEnds[k - 1])
    BY <1>1, HostFacts
  <2>2. /\ job.entry \in Nat /\ job.entry + 1 \in 1 .. HostTexts /\ p >= 24 + 4 * job.entry
        /\ p \in Int /\ p # Bad /\ job.reader.position = p /\ Len(job.texts) = job.entry
    <3>1. job.entry \in Nat /\ job.entry < HostTexts
      BY <1>1, <1>5 DEF Agrees, HeaderAgrees, TextEntries, Jobs
    <3> QED
      BY <1>1, <1>5, <2>1, <3>1
         DEF Agrees, PlaceAgrees, TextsAgree, TextsOf, Bad
  <2>3. HostEnds[job.entry + 1] = HostAfter(p)
    <3>1. job.entry \in Nat /\ HostTexts \in Nat /\ HostFiles \in Nat
          /\ job.entry + 1 \in 1 .. HostTexts
      BY <2>1, <2>2
    <3>2. (job.entry + 1) - 1 = job.entry /\ job.entry + 1 \in 1 .. HostTexts + HostFiles
      BY ONLY <3>1, NextOfBoth
    <3> QED
      BY <2>1, <2>2, <3>2 DEF EntryEnd, HostAfter, HostTexts
  <2>4. CASE HostAfter(p) = Bad \/ job'.texts[n] = NoText
    <3>1. p \in Nat
      BY <2>2
    <3>2. job'.texts[n] = NoText
      BY <1>3, <2>2, <2>4
    <3>3. ~HostFrames \/ (job'.starved /\ job'.reader.error)
      <4>1. CASE HostAfter(p) = Bad
        <5>1. job.entry + 1 \in 0 .. HostTexts + HostFiles
          BY <2>1, <2>2
        <5> QED
          BY <1>1, <2>3, <4>1, <5>1, HostBad
      <4>2. CASE HostAfter(p) # Bad
        <5>1. HostText(p) # NoText
          BY <2>1, <3>1, HostTextIsText
        <5> QED
          BY <1>3, <2>2, <3>2, <4>2, <5>1
      <4> QED
        BY <4>1, <4>2
    <3>4. Len(job'.texts) \in Nat \ {0}
      BY <1>3, <2>2
    <3>5. Diverged'
      BY <1>1, <1>3, <3>2, <3>3, <3>4, MissingText
    <3> QED
      BY <1>1, <1>3, <3>5, ReadOn
  <2>5. CASE HostAfter(p) # Bad /\ job'.texts[n] # NoText
    <3>1. /\ ~job'.reader.error /\ job'.reader.position = HostAfter(p)
          /\ job'.texts[n] = HostText(p)
      BY <1>3, <2>2, <2>5
    <3>2. HostAfter(p) >= p + 4
      BY <2>1, <2>2, <2>5, AfterFacts DEF HostAfter
    <3>3. HeaderAgrees'
      BY <1>1, <1>3, <1>5, SameHeader DEF Agrees
    <3>4. PlaceAgrees'
      BY <1>1, <1>3, <2>1, <2>2, <2>3, <3>1, <3>2, SameHost DEF PlaceAgrees, WithinFile
    <3>5. TextsAgree'
      <4>1. Decoded[n] = HostText(p)
        <5>1. n \in 1 .. HostTexts /\ n - 1 = job.entry
          BY <2>2
        <5> QED
          BY <2>1, <5>1, DecodedFacts
      <4>2. \A i \in 1 .. Len(job.texts) : job.texts[i] = Decoded[i]
        BY <1>5 DEF Agrees, TextsAgree
      <4>3. \A i \in 1 .. Len(job'.texts) : job'.texts[i] = Decoded'[i]
        BY <1>1, <1>3, <2>2, <3>1, <4>1, <4>2, MoreTexts
      <4> QED
        BY <1>1, <1>3, <2>2, <4>3, SameHost DEF TextsAgree, TextsOf
    <3>6. SourcesAgree'
      <4>1. HostTexts' = HostTexts
        BY <1>1, SameHost
      <4>2. FilesBegun = job.entry - HostTexts /\ FilesBegun' = job.entry + 1 - HostTexts
        BY <1>1, <1>3, <2>1, <2>2, <4>1 DEF FilesBegun, WithinFile
      <4>3. FilesBegun \in Int /\ FilesBegun <= 0 /\ FilesBegun' \in Int /\ FilesBegun' <= 0
        <5>1. job.entry \in Nat /\ HostTexts \in Nat /\ job.entry + 1 <= HostTexts
          BY <2>1, <2>2
        <5>2. job.entry - HostTexts <= 0 /\ job.entry + 1 - HostTexts <= 0
          BY <5>1
        <5> QED
          BY <4>2, <5>1, <5>2
      <4>4. \A f \in Int : f <= 0 => \A k \in 1 .. f : FALSE
        OBVIOUS
      <4> QED
        BY <1>3, <1>5, <4>3, <4>4 DEF Agrees, SourcesAgree
    <3>7. Agrees'
      BY <3>1, <3>3, <3>4, <3>5, <3>6 DEF Agrees
    <3> QED
      BY <1>1, <1>3, <3>7, ReadOn
  <2> QED
    BY <2>4, <2>5
<1> QED
  BY <1>1, <1>4, <1>5 DEF ReadersFollow

\* Where an entry that is a file ends for the decoder.
LEMMA FileEnds ==
  ASSUME BootInvariant, pc \in Reads, NEW e \in Nat, HostTexts <= e, e < HostTexts + HostFiles,
         HostEnds[e] # Bad
  PROVE  /\ HostEnds[e] + 4 > request.length \/ HostWord(HostEnds[e]) \notin {1, 2} =>
              HostEnds[e + 1] = Bad
         /\ HostEnds[e] + 4 <= request.length /\ HostWord(HostEnds[e]) \in {1, 2} =>
              HostEnds[e + 1] = HostAfter(HostAfter(HostEnds[e] + 4))
<1> DEFINE p == HostEnds[e]
<1>1. /\ mem \in [DOMAIN mem -> Words] /\ request.length \in Nat
      /\ HostTexts \in Nat /\ HostFiles \in Nat
      /\ HostEnds \in [0 .. HostTexts + HostFiles -> Int]
      /\ \A k \in 1 .. HostTexts + HostFiles :
           HostEnds[k] = EntryEnd(mem, request.project, request.length, k, HostEnds[k - 1])
  BY HostFacts
<1>2. p \in Int /\ e + 1 \in 1 .. HostTexts + HostFiles /\ (e + 1) - 1 = e /\ ~(e + 1 <= HostTexts)
  BY <1>1
<1>3. HostEnds[e + 1] = EntryEnd(mem, request.project, request.length, e + 1, p)
  BY <1>1, <1>2
<1> HIDE DEF p
<1>4. HostEnds[e + 1] = IF HostWord(p) \notin {1, 2} THEN Bad
                        ELSE HostAfter(HostAfter(AfterWord(request.length, p)))
  BY <1>2, <1>3 DEF EntryEnd, HostWord, HostAfter, HostTexts, p
<1>5. AfterWord(request.length, p) = IF p + 4 > request.length THEN Bad ELSE p + 4
  BY DEF AfterWord, p
<1>6. HostAfter(HostAfter(Bad)) = Bad
  <2>1. Bad \in Int
    BY DEF Bad
  <2> QED
    BY <1>1, <2>1, AfterFacts DEF HostAfter
<1> QED
  BY <1>1, <1>2, <1>4, <1>5, <1>6 DEF p

\* The kind of a file is the decoder's, or is refused (compiler.c:346-350).
LEMMA KindFollows ==
  ASSUME BootInvariant, ReadersFollow, ReadKind
  PROVE  ReadersFollow'
<1> DEFINE kind == Value(mem, job.reader)
           after == U32(job.reader)
           e == after.error \/ kind \notin {1, 2}
           r == [after EXCEPT !.error = e]
           n == job.sources + (IF kind = 1 THEN 1 ELSE 0)
           p == HostEnds[job.entry]
<1>1. /\ pc = "reading" /\ pc' = "path" /\ mem' = mem /\ request' = request /\ pc \in Reads
      /\ job.entry >= TextEntries /\ job.entry < Entries
      /\ job \in Jobs /\ Sound(job.reader) /\ ~job.reader.error /\ job.reader \in Readers
  BY DEF ReadKind, Reading, Reads, BootInvariant, Types, ReaderInside, Sound
<1>2. job.reader.address = request.project /\ job.reader.length = request.length
  BY <1>1 DEF ReadersFollow
<1>3. /\ Advanced(job.reader, after) /\ after \in Readers
      /\ after.error \/ after.position = job.reader.position + 4
  BY <1>1, U32Facts DEF Advanced, Sound
<1>4. job' = [job EXCEPT !.reader = r, !.sources = n]
  BY <1>1, <1>3 DEF ReadKind, Jobs, Readers
<1>5. after.error <=> Short(job.reader)
  BY <1>1 DEF U32, Readers
<1>6. e \in BOOLEAN /\ n \in Nat /\ job.sources \in Nat
  BY <1>1 DEF Jobs
<1> HIDE DEF after, e, n
<1>7. r.error = e /\ r.position = after.position /\ Advanced(job.reader, r)
  BY <1>3, <1>6, Marked DEF Readers
<1> HIDE DEF r
<1>8. /\ job'.reader = r /\ job'.sources = n /\ job'.texts = job.texts
      /\ job'.entry = job.entry /\ job'.counts = job.counts /\ job'.starved = job.starved
  BY <1>1, <1>4 DEF Jobs
<1>9. /\ job'.reader.address = job.reader.address /\ job'.reader.length = job.reader.length
  BY <1>7, <1>8 DEF Advanced
<1>10. Len(job.texts) \in Nat
  BY <1>1, LenProperties DEF Jobs
<1>11. CASE Diverged
  <2>1. Extends(job, job')
    BY <1>1, <1>8, <1>10 DEF Extends
  <2>2. Diverged'
    BY <1>1, <1>11, <2>1, DivergedStays
  <2> QED
    BY <1>1, <1>9, <2>2, ReadOn
<1>12. CASE Agrees
  <2>1. /\ request.length \in Nat /\ request.project \in Nat
        /\ HostTexts \in Nat /\ HostFiles \in Nat
        /\ HostEnds \in [0 .. HostTexts + HostFiles -> Int]
    BY <1>1, HostFacts
  <2>2. /\ job.entry \in Nat /\ HostTexts <= job.entry /\ job.entry < HostTexts + HostFiles
        /\ p >= 24 + 4 * job.entry /\ p \in Nat /\ p # Bad /\ job.reader.position = p
    <3>1. job.entry \in Nat /\ HostTexts <= job.entry /\ job.entry < HostTexts + HostFiles
      BY <1>1, <1>12, <2>1 DEF Agrees, HeaderAgrees, TextEntries, Entries, Jobs
    <3> QED
      BY <1>1, <1>12, <2>1, <3>1 DEF Agrees, PlaceAgrees, Bad
  <2>3. Short(job.reader) <=> p + 4 > request.length
    BY <1>2, <2>1, <2>2 DEF Short
  <2>4. kind = IF p + 4 > request.length THEN 0 ELSE HostWord(p)
    BY <1>2, <2>2, <2>3 DEF Value, HostWord
  <2> HIDE DEF kind, p
  <2>5. CASE e
    <3>1. p + 4 > request.length \/ HostWord(p) \notin {1, 2}
      BY <1>5, <2>3, <2>4, <2>5 DEF e
    <3>2. HostEnds[job.entry + 1] = Bad
      BY <1>1, <2>2, <3>1, FileEnds DEF p
    <3>3. job.entry + 1 \in 0 .. HostTexts + HostFiles
      BY <2>1, <2>2
    <3>4. ~HostFrames'
      BY <1>1, <3>2, <3>3, HostBad, SameHost
    <3>5. job'.reader.error
      BY <1>7, <1>8, <2>5
    <3>6. Diverged'
      BY <3>4, <3>5 DEF Diverged
    <3> QED
      BY <1>1, <1>9, <3>6, ReadOn
  <2>6. CASE ~e
    <3>1. p + 4 <= request.length /\ HostWord(p) \in {1, 2} /\ kind = HostWord(p)
      BY <1>5, <2>1, <2>2, <2>3, <2>4, <2>6 DEF e
    <3>2. ~job'.reader.error /\ job'.reader.position = p + 4
      BY <1>3, <1>7, <1>8, <2>2, <2>6 DEF e
    <3>3. HeaderAgrees'
      BY <1>1, <1>8, <1>12, SameHeader DEF Agrees
    <3>4. PlaceAgrees'
      BY <1>1, <1>8, <1>12, <2>1, <2>2, <3>1, <3>2, SameHost DEF PlaceAgrees, WithinFile, p
    <3>5. TextsAgree'
      BY <1>1, <1>8, <1>12, SameHost DEF Agrees, TextsAgree, TextsOf
    <3>6. SourcesAgree'
      <4> DEFINE b == job.entry - HostTexts
                 IsSource(k) == HostWord(HostEnds[HostTexts + k - 1]) = 1
      <4>1. HostTexts' = HostTexts /\ b \in Nat /\ HostTexts + (b + 1) - 1 = job.entry
        <5>1. HostTexts' = HostTexts
          BY <1>1, SameHost
        <5> QED
          BY <2>1, <2>2, <5>1
      <4>2. FilesBegun = b /\ FilesBegun' = b + 1
        BY <1>1, <1>8, <4>1 DEF FilesBegun, WithinFile
      <4>3. IsSource(b + 1) <=> kind = 1
        BY <3>1, <4>1 DEF p
      <4>4. job.sources # 0 <=> \E k \in 1 .. b : IsSource(k)
        BY <1>12, <4>2 DEF Agrees, SourcesAgree
      <4>5. SourcesAgree' <=> (n # 0 <=> \E k \in 1 .. b + 1 : IsSource(k))
        <5>1. HostEnds' = HostEnds /\ \A q : HostWord(q)' = HostWord(q)
          BY <1>1, SameHost
        <5> QED
          BY <1>1, <1>8, <4>1, <4>2, <5>1 DEF SourcesAgree, HostWord
      <4>6. n # 0 <=> job.sources # 0 \/ kind = 1
        BY <1>6 DEF n
      <4> HIDE DEF b, IsSource
      <4>7. (\E k \in 1 .. b + 1 : IsSource(k))
              <=> (\E k \in 1 .. b : IsSource(k)) \/ IsSource(b + 1)
        <5>1. \A k : k \in 1 .. b + 1 <=> k \in 1 .. b \/ k = b + 1
          BY <4>1
        <5> QED
          BY <5>1
      <4> QED
        BY <4>3, <4>4, <4>5, <4>6, <4>7
    <3>7. Agrees'
      BY <3>2, <3>3, <3>4, <3>5, <3>6 DEF Agrees
    <3> QED
      BY <1>1, <1>9, <3>7, ReadOn
  <2> QED
    BY <2>5, <2>6
<1> QED
  BY <1>1, <1>11, <1>12 DEF ReadersFollow

\* The decoder goes forward, or nowhere for good.
LEMMA HostAfterFacts ==
  ASSUME BootInvariant, pc \in Reads
  PROVE  /\ \A x \in Int : HostAfter(x) \in Int /\ (HostAfter(x) # Bad => HostAfter(x) >= x + 4)
         /\ HostAfter(Bad) = Bad
<1>1. mem \in [DOMAIN mem -> Words] /\ request.length \in Nat /\ Bad \in Int
  BY HostFacts DEF Bad
<1> QED
  BY <1>1, AfterFacts DEF HostAfter

\* Where the decoder is within a file, and where its texts stand.
LEMMA FileFacts ==
  ASSUME BootInvariant, pc \in Reads, WithinFile, HeaderAgrees, PlaceAgrees, TextsAgree,
         NEW p, p = HostEnds[job.entry] + 4,
         NEW i, i = HostTexts + 2 * (job.entry - HostTexts)
  PROVE  /\ p \in Nat /\ HostAfter(p) \in Int /\ HostAfter(HostAfter(p)) \in Int
         /\ i \in Nat /\ job.entry + 1 \in 0 .. HostTexts + HostFiles
         /\ HostTexts \in Nat /\ job.entry \in Nat /\ HostTexts <= job.entry
         /\ HostEnds[job.entry + 1] = HostAfter(HostAfter(p))
         /\ Decoded[i + 1] = HostText(p) /\ Decoded[i + 2] = HostText(HostAfter(p))
         /\ TextsOf(job.entry) = i /\ TextsOf(job.entry + 1) = i + 2
         /\ HostAfter(HostAfter(p)) # Bad => HostAfter(p) # Bad
         /\ HostAfter(HostAfter(p)) # Bad => HostEnds[job.entry + 1] >= 24 + 4 * (job.entry + 1)
<1> DEFINE e == job.entry
<1>1. /\ mem \in [DOMAIN mem -> Words] /\ request.length \in Nat
      /\ HostTexts \in Nat /\ HostFiles \in Nat
      /\ HostEnds \in [0 .. HostTexts + HostFiles -> Int]
  BY HostFacts
<1>2. /\ e \in Nat /\ HostTexts <= e /\ e < HostTexts + HostFiles
      /\ HostEnds[e] \in Int /\ HostEnds[e] >= 24 + 4 * e
      /\ HostEnds[e] + 4 <= request.length /\ HostWord(HostEnds[e]) \in {1, 2}
  BY <1>1 DEF PlaceAgrees
<1>3. p \in Nat /\ HostEnds[e] # Bad
  BY <1>2 DEF Bad
<1>4. HostAfter(p) \in Int /\ HostAfter(HostAfter(p)) \in Int
  <2>1. \A x \in Int : HostAfter(x) \in Int
    BY HostAfterFacts
  <2>2. p \in Int
    BY <1>3
  <2> QED
    BY <2>1, <2>2
<1>5. HostEnds[e + 1] = HostAfter(HostAfter(p))
  BY <1>2, <1>3, FileEnds
<1>6. Decoded[i + 1] = HostText(p) /\ Decoded[i + 2] = HostText(HostAfter(p))
  <2>1. e - HostTexts \in 0 .. HostFiles - 1 /\ HostTexts + (e - HostTexts) = e
    BY <1>1, <1>2
  <2> QED
    BY <1>1, <2>1, DecodedFacts
<1>7. TextsOf(e) = i /\ TextsOf(e + 1) = i + 2
  BY <1>1, <1>2 DEF TextsOf
<1>8. HostAfter(HostAfter(p)) # Bad =>
        HostAfter(p) # Bad /\ HostAfter(HostAfter(p)) >= HostAfter(p) + 4 /\ HostAfter(p) >= p + 4
  BY <1>3, <1>4, HostAfterFacts
<1>9. HostAfter(HostAfter(p)) # Bad => HostEnds[e + 1] >= 24 + 4 * (e + 1)
  BY <1>2, <1>3, <1>4, <1>5, <1>8
<1>10. i \in Nat /\ e + 1 \in 0 .. HostTexts + HostFiles
  BY <1>1, <1>2
<1> QED
  BY <1>1, <1>2, <1>3, <1>4, <1>5, <1>6, <1>7, <1>8, <1>9, <1>10

\* The path and the contents of a file (compiler.c:351-353).
LEMMA FileFollows ==
  ASSUME BootInvariant, ReadersFollow, ReadPath \/ ReadContents
  PROVE  ReadersFollow'
<1> DEFINE q == job.reader.position
           n == Len(job.texts) + 1
           done == IF pc = "contents" THEN 1 ELSE 0
<1>1. /\ mem' = mem /\ request' = request /\ pc \in Reads /\ WithinFile /\ job \in Jobs
      /\ (pc = "path" /\ pc' = "contents") \/ (pc = "contents" /\ pc' = "reading")
      /\ pc' \in {"reading", "path", "contents"} /\ ReadOne(done) /\ done \in Nat
  <2>1. CASE ReadPath
    BY <2>1 DEF ReadPath, Reads, WithinFile, BootInvariant, Types
  <2>2. CASE ReadContents
    BY <2>2 DEF ReadContents, Reads, WithinFile, BootInvariant, Types
  <2> QED
    BY <2>1, <2>2
<1>2. job.reader.address = request.project /\ job.reader.length = request.length
  BY <1>1 DEF ReadersFollow
<1>3. /\ job'.counts = job.counts /\ job'.sources = job.sources /\ job'.entry = job.entry + done
      /\ job'.reader.address = job.reader.address /\ job'.reader.length = job.reader.length
      /\ Extends(job, job') /\ Len(job'.texts) = n
      /\ ~job.reader.error =>
           \/ /\ HostAfter(q) # Bad /\ ~job'.reader.error
              /\ job'.reader.position = HostAfter(q)
              /\ job'.texts[n] = HostText(q)
           \/ /\ HostAfter(q) = Bad \/ (job'.starved /\ job'.reader.error)
              /\ job'.texts[n] = NoText
  BY <1>1, <1>2, ReadOneAgrees
<1>4. CASE Diverged
  <2>1. Diverged'
    BY <1>1, <1>3, <1>4, DivergedStays
  <2> QED
    BY <1>1, <1>3, <2>1, ReadOn
<1>5. CASE Agrees
  <2> DEFINE p == HostEnds[job.entry] + 4
             i == HostTexts + 2 * (job.entry - HostTexts)
  <2>1. HeaderAgrees /\ PlaceAgrees /\ TextsAgree /\ SourcesAgree /\ ~job.reader.error
    BY <1>5 DEF Agrees
  <2>2. /\ p \in Nat /\ HostAfter(p) \in Int /\ HostAfter(HostAfter(p)) \in Int
        /\ i \in Nat /\ job.entry + 1 \in 0 .. HostTexts + HostFiles
        /\ HostTexts \in Nat /\ job.entry \in Nat /\ HostTexts <= job.entry
        /\ HostEnds[job.entry + 1] = HostAfter(HostAfter(p))
        /\ Decoded[i + 1] = HostText(p) /\ Decoded[i + 2] = HostText(HostAfter(p))
        /\ TextsOf(job.entry) = i /\ TextsOf(job.entry + 1) = i + 2
        /\ HostAfter(HostAfter(p)) # Bad => HostAfter(p) # Bad
        /\ HostAfter(HostAfter(p)) # Bad => HostEnds[job.entry + 1] >= 24 + 4 * (job.entry + 1)
    BY <1>1, <2>1, FileFacts
  <2> HIDE DEF p, i
  <2>3. /\ q = IF pc = "path" THEN p ELSE HostAfter(p)
        /\ q \in Nat
        /\ Len(job.texts) = IF pc = "path" THEN i ELSE i + 1
        /\ n \in Nat \ {0} /\ Len(job.texts) \in Nat
    <3>1. q = IF pc = "path" THEN p ELSE HostAfter(p)
      BY <1>1, <2>1 DEF PlaceAgrees, p
    <3>2. q \in Nat
      BY DEF BootInvariant, ReaderInside, Sound, Readers
    <3>3. Len(job.texts) = IF pc = "path" THEN i ELSE i + 1
      BY <1>1, <2>1, <2>2 DEF TextsAgree
    <3> QED
      BY <2>2, <3>1, <3>2, <3>3
  <2>4. CASE HostAfter(q) = Bad \/ job'.texts[n] = NoText
    <3>1. job'.texts[n] = NoText
      BY <1>3, <2>1, <2>4
    <3>2. ~HostFrames \/ (job'.starved /\ job'.reader.error)
      <4>1. CASE HostAfter(q) = Bad
        <5>1. HostAfter(HostAfter(p)) = Bad
          BY <2>2, <2>3, <4>1
        <5> QED
          BY <1>1, <2>2, <5>1, HostBad
      <4>2. CASE HostAfter(q) # Bad
        <5>1. HostText(q) # NoText
          BY <1>1, <2>3, HostFacts, HostTextIsText
        <5> QED
          BY <1>3, <2>1, <3>1, <4>2, <5>1
      <4> QED
        BY <4>1, <4>2
    <3>3. Diverged'
      BY <1>1, <1>3, <2>3, <3>1, <3>2, MissingText
    <3> QED
      BY <1>1, <1>3, <3>3, ReadOn
  <2>5. CASE HostAfter(q) # Bad /\ job'.texts[n] # NoText
    <3>1. /\ ~job'.reader.error /\ job'.reader.position = HostAfter(q)
          /\ job'.texts[n] = HostText(q)
      BY <1>3, <2>1, <2>5
    <3>2. HeaderAgrees'
      BY <1>1, <1>3, <2>1, SameHeader
    <3>3. /\ HostTexts' = HostTexts /\ HostFiles' = HostFiles /\ HostEnds' = HostEnds
          /\ \A x : HostWord(x)' = HostWord(x) /\ HostAfter(x)' = HostAfter(x)
      BY <1>1, SameHost
    <3>4. \A k \in 1 .. Len(job'.texts) : job'.texts[k] = Decoded'[k]
      <4>1. Decoded[n] = HostText(q)
        BY <1>1, <2>2, <2>3
      <4>2. \A k \in 1 .. Len(job.texts) : job.texts[k] = Decoded[k]
        BY <2>1 DEF TextsAgree
      <4> QED
        BY <1>1, <1>3, <2>3, <3>1, <4>1, <4>2, MoreTexts
    <3>5. CASE pc = "path"
      <4>1. pc' = "contents" /\ done = 0 /\ WithinFile' /\ job'.entry = job.entry
        BY <1>1, <1>3, <2>2, <3>5 DEF WithinFile
      <4>2. PlaceAgrees'
        BY <1>1, <2>1, <2>3, <3>1, <3>3, <3>5, <4>1 DEF PlaceAgrees, p
      <4>3. TextsAgree'
        BY <1>3, <2>2, <2>3, <3>3, <3>4, <3>5, <4>1 DEF TextsAgree, TextsOf
      <4>4. SourcesAgree'
        BY <1>1, <1>3, <2>1, <3>3, <4>1 DEF SourcesAgree, FilesBegun
      <4>5. Agrees'
        BY <3>1, <3>2, <4>2, <4>3, <4>4 DEF Agrees
      <4> QED
        BY <1>1, <1>3, <4>5, ReadOn
    <3>6. CASE pc = "contents"
      <4>1. pc' = "reading" /\ done = 1 /\ ~WithinFile' /\ job'.entry = job.entry + 1
        BY <1>1, <1>3, <3>6 DEF WithinFile
      <4>2. HostEnds[job.entry + 1] = HostAfter(q) /\ HostAfter(HostAfter(p)) # Bad
        BY <2>2, <2>3, <2>5, <3>6
      <4>3. PlaceAgrees'
        <5>1. /\ job'.entry \in 0 .. HostTexts' + HostFiles'
              /\ HostEnds'[job'.entry] >= 24 + 4 * job'.entry
              /\ job'.reader.position = HostEnds'[job'.entry]
          BY <2>2, <3>1, <3>3, <4>1, <4>2
        <5> QED
          BY <4>1, <5>1 DEF PlaceAgrees
      <4>4. TextsAgree'
        <5>1. TextsOf(job.entry + 1) = i + 2
          BY <2>2
        <5>2. TextsOf(job.entry)' = i + 2
          BY <3>3, <4>1, <5>1 DEF TextsOf
        <5> QED
          BY <1>3, <2>2, <2>3, <3>4, <3>6, <4>1, <5>2 DEF TextsAgree
      <4>5. SourcesAgree'
        <5>1. FilesBegun = job.entry - HostTexts + 1 /\ FilesBegun' = job.entry + 1 - HostTexts
          <6>1. HostTexts' = HostTexts
            BY <3>3
          <6> QED
            BY <2>2, <3>6, <4>1, <6>1 DEF FilesBegun, WithinFile
        <5>2. FilesBegun' = FilesBegun
          BY <2>2, <5>1
        <5> QED
          BY <1>3, <2>1, <3>3, <5>2 DEF SourcesAgree
      <4>6. Agrees'
        BY <3>1, <3>2, <4>3, <4>4, <4>5 DEF Agrees
      <4> QED
        BY <1>1, <1>3, <4>6, ReadOn
    <3> QED
      BY <1>1, <3>5, <3>6
  <2> QED
    BY <2>4, <2>5
<1> QED
  BY <1>1, <1>4, <1>5 DEF ReadersFollow, WithinFile

\* The reader has read the whole project as the decoder does.
LEMMA WholeProject ==
  ASSUME BootInvariant, pc = "reading", ~Reading, Agrees
  PROVE  /\ HostFrames <=> job.reader.position = request.length
         /\ job.texts = Decoded
         /\ job.sources # 0 <=> HasSource(mem, request.project, request.length)
<1> DEFINE n == HostTexts + HostFiles
<1>1. /\ mem \in [DOMAIN mem -> Words] /\ request.length \in Nat /\ request.project \in Nat
      /\ HostTexts \in Nat /\ HostFiles \in Nat /\ HostEnds \in [0 .. n -> Int]
      /\ job \in Jobs
  BY HostFacts DEF Reads, BootInvariant, Types
<1>2. HeaderAgrees /\ PlaceAgrees /\ TextsAgree /\ SourcesAgree /\ ~job.reader.error
  BY DEF Agrees
<1>3. Entries = n
  BY <1>2 DEF HeaderAgrees, Entries, TextEntries
<1>4. job.entry = n /\ HostEnds[n] >= 24 + 4 * n /\ job.reader.position = HostEnds[n]
  BY <1>1, <1>2, <1>3 DEF PlaceAgrees, Reading
<1>5. HostFrames <=> job.reader.position = request.length
  <2>1. HostFrames <=> /\ request.length >= 24
                        /\ HostWord(0) = BundleMagic /\ HostWord(4) = 1 /\ HostWord(8) = 0
                        /\ n <= request.length /\ HostEnds[n] = request.length
    BY <1>1 DEF HostFrames, Framed, HostWord, HostEnds, HostTexts, HostFiles
  <2>2. HostEnds[n] = request.length => n <= request.length
    BY <1>1, <1>4
  <2> QED
    BY <1>2, <1>4, <2>1, <2>2 DEF HeaderAgrees
<1>6. job.texts = Decoded
  <2>1. Len(job.texts) = HostTexts + 2 * HostFiles
    BY <1>1, <1>2, <1>4 DEF TextsAgree, TextsOf
  <2>2. job.texts = [i \in 1 .. Len(job.texts) |-> job.texts[i]]
    BY <1>1, LenProperties DEF Jobs
  <2>3. Decoded = [i \in 1 .. HostTexts + 2 * HostFiles |-> Decoded[i]]
    BY <1>1, DecodedFacts
  <2>4. \A i \in 1 .. Len(job.texts) : job.texts[i] = Decoded[i]
    BY <1>2 DEF TextsAgree
  <2> QED
    BY <2>1, <2>2, <2>3, <2>4
<1>7. job.sources # 0 <=> HasSource(mem, request.project, request.length)
  <2>1. FilesBegun = HostFiles
    BY <1>1, <1>4 DEF FilesBegun, WithinFile
  <2>2. HasSource(mem, request.project, request.length) <=>
          \E k \in 1 .. HostFiles : HostWord(HostEnds[HostTexts + k - 1]) = 1
    BY DEF HasSource, HostWord, HostEnds, HostTexts, HostFiles
  <2> QED
    BY <1>2, <2>1, <2>2 DEF SourcesAgree
<1> QED
  BY <1>5, <1>6, <1>7

\* The project is taken or refused as the decoder would (compiler.c:356-365).
LEMMA EndFollows ==
  ASSUME BootInvariant, ReadersFollow, EndReading
  PROVE  ReadersFollow'
<1>1. /\ pc = "reading" /\ ~Reading /\ mem' = mem /\ request' = request /\ job \in Jobs
      /\ job.reader.length = request.length /\ (Agrees \/ Diverged)
  BY DEF EndReading, ReadersFollow, Reads, BootInvariant, Types
<1>2. /\ Framed(mem, request.project, request.length) = HostFrames
      /\ DecodedTexts(mem, request.project, request.length) = Decoded
  BY DEF HostFrames, Decoded
<1>3. CASE Acceptable
  <2>1. pc' = "preprocess" /\ job' = job /\ ~job.reader.error
        /\ job.reader.position = request.length /\ job.sources # 0
    BY <1>1, <1>3 DEF EndReading, Acceptable
  <2>2. CASE Agrees
    <3>1. HostFrames /\ job.texts = Decoded /\ HasSource(mem, request.project, request.length)
      BY <1>1, <2>1, <2>2, WholeProject
    <3> QED
      BY <1>1, <1>2, <2>1, <3>1 DEF ReadersFollow, HostBundlesRead, Reads
  <2>3. CASE Diverged
    <3>1. PICK i \in 1 .. Len(job.texts) : job.texts[i] = NoText
      BY <2>1, <2>3 DEF Diverged
    <3>2. DOMAIN job.texts = 1 .. Len(job.texts)
      BY <1>1, LenProperties DEF Jobs
    <3>3. NoText \in Range(job.texts)
      BY <3>1, <3>2 DEF Range
    <3>4. ~Decodes(mem, request.project, request.length)
      BY <1>2, <2>1, <2>3 DEF Diverged, Decodes
    <3> QED
      BY <1>1, <2>1, <3>3, <3>4 DEF ReadersFollow, HostBundlesRead, Reads
  <2> QED
    BY <1>1, <2>2, <2>3
<1>4. CASE ~Acceptable
  <2>1. job' = [job EXCEPT !.status = InvalidProject, !.outputLength = 8] /\ pc' = "cleanup"
    BY <1>4 DEF EndReading, Fail
  <2>2. job'.starved = job.starved
    BY <1>1, <2>1 DEF Jobs
  <2>3. job.starved \/ ~(HostFrames /\ HasSource(mem, request.project, request.length))
    <3>1. CASE Diverged
      BY <3>1 DEF Diverged
    <3>2. CASE Agrees
      <4>1. ~job.reader.error
        BY <3>2 DEF Agrees
      <4>2. job.reader.position # request.length \/ job.sources = 0
        BY <1>1, <1>4, <4>1 DEF Acceptable
      <4> QED
        BY <1>1, <3>2, <4>2, WholeProject
    <3> QED
      BY <1>1, <3>1, <3>2
  <2> QED
    BY <1>1, <1>2, <2>1, <2>2, <2>3 DEF ReadersFollow, HostBundlesRead, Reads
<1> QED
  BY <1>3, <1>4

\* What follows the reading does not say that the project is invalid.
LEMMA CompilingFollows ==
  ASSUME BootInvariant, PreprocessFails \/ NoImageBuffer \/ BufferFails \/ Compile
  PROVE  ReadersFollow'
<1>1. InvalidProject \notin BufferErrors \cup {ParseError, OutOfMemory, OutputTooSmall}
  BY DEF InvalidProject, BufferErrors, ParseError, OutOfMemory, OutputTooSmall
<1>2. job \in Jobs
  BY DEF BootInvariant, Types
<1>3. /\ pc' \in {"cleanup", "storeLength"}
      /\ pc' = "cleanup" =>
           job'.status \in BufferErrors \cup {ParseError, OutOfMemory, OutputTooSmall}
  BY <1>2 DEF PreprocessFails, NoImageBuffer, BufferFails, Compile, Fail, Jobs
<1> QED
  BY <1>1, <1>3 DEF ReadersFollow, HostBundlesRead, Reads

\* A compilation starts with a new reader.
LEMMA BeginFollows ==
  ASSUME Begin
  PROVE  ReadersFollow'
<1>1. job' = [Idle EXCEPT !.reader = Reader(request.project, request.length)]
      /\ pc' = "header" /\ request' = request
  BY DEF Begin
<1>2. /\ job'.reader = Reader(request.project, request.length)
      /\ job'.texts = <<>> /\ job'.entry = 0 /\ job'.sources = 0
  BY <1>1 DEF Idle
<1> QED
  BY <1>1, <1>2 DEF ReadersFollow, HostBundlesRead, Reads, Reader

\* The reader follows the decoder.
THEOREM ReadersFollowing == Spec => []ReadersFollow
<1>1. Init => ReadersFollow
  BY DEF Init, ReadersFollow, HostBundlesRead, Reads
<1>2. BootInvariant /\ ReadersFollow /\ [Next]_vars => ReadersFollow'
  <2> SUFFICES ASSUME BootInvariant, ReadersFollow, [Next]_vars PROVE ReadersFollow'
    OBVIOUS
  <2>1. CASE UNCHANGED vars
    <3>1. mem' = mem /\ pc' = pc /\ request' = request /\ job' = job
      BY <2>1 DEF vars
    <3> QED
      BY <3>1
         DEF ReadersFollow, HostBundlesRead, Agrees, HeaderAgrees, PlaceAgrees, TextsAgree,
             SourcesAgree, Diverged, HostTexts, HostFiles, HostEnds, HostWord, HostAfter,
             Decoded, HostFrames, WithinFile, TextsOf, FilesBegun
  <2>2. CASE Ignore \/ ReadControl \/ RejectLength \/ RejectStatus
    BY <2>2
       DEF Ignore, ReadControl, RejectLength, RejectStatus, ReadersFollow, HostBundlesRead, Reads
  <2>3. CASE Begin
    BY <2>3, BeginFollows
  <2>4. CASE ReadHeader \/ ReadText \/ ReadKind \/ ReadPath \/ ReadContents \/ EndReading
    BY <2>4, HeaderFollows, TextFollows, KindFollows, FileFollows, EndFollows
  <2>5. CASE PreprocessFails \/ NoImageBuffer \/ BufferFails \/ Compile
    BY <2>5, CompilingFollows
  <2>6. CASE Cleanup \/ CleanupThroughNull \/ FailZero \/ FailPosition
    BY <2>6
       DEF Cleanup, CleanupThroughNull, FailZero, FailPosition, ReadersFollow, HostBundlesRead, Reads
  <2>7. CASE StoreLength \/ StoreImage \/ ReportLength \/ ReportStatus \/ CopyImage
    <3>1. pc' \in {"storeImage", "reportLength", "reportStatus", "copy", "halted", "jumped"}
      BY <2>7 DEF StoreLength, StoreImage, ReportLength, ReportStatus, CopyImage
    <3> QED
      BY <3>1 DEF ReadersFollow, HostBundlesRead, Reads
  <2>8. CASE PowerCycle
    BY <2>8 DEF PowerCycle, ReadersFollow, HostBundlesRead, Reads
  <2> QED
    BY <2>1, <2>2, <2>3, <2>4, <2>5, <2>6, <2>7, <2>8 DEF Next, Step
<1> QED
  BY <1>1, <1>2, Invariance, PTL DEF Spec

\* Every bundle of the host is read to its texts, and what else is taken has a
\* bundle's frame, whatever the project says and whenever memory is short.
THEOREM HostBundlesAreRead == Spec => []HostBundlesRead
<1>1. ReadersFollow => HostBundlesRead
  BY DEF ReadersFollow
<1> QED
  BY <1>1, ReadersFollowing, PTL

----------------------------------------------------------------------------
(* What runs, and that a boot ends.                                         *)

\* The words of the image are copied in order; nothing else is.
Loaded ==
    /\ pc \notin {"copy", "jumped"} => ram = <<>>
    /\ pc \in {"copy", "jumped"} =>
         /\ Holds(job.image, Padded(job.image) \div 4)
         /\ ram \in Seq(Words) /\ Len(ram) <= Padded(job.image) \div 4
         /\ \A i \in 1 .. Len(ram) : ram[i] = ImageWord(job.image, i - 1)
    /\ pc = "jumped" => 4 * Len(ram) >= job.image

\* main ends, or runs what it compiled, with its status stored.
EndsReported ==
    pc \in {"copy", "jumped"} \/ (pc = "halted" /\ request # NoRequest) => Final

\* Both texts of a file are read before it is counted.
FileAwaited == pc \in {"path", "contents"} => job.entry < Entries

\* A boot starts without a request.
Unasked == pc = "boot" => request = NoRequest

BootEnds == Loaded /\ EndsReported /\ FileAwaited /\ Unasked

\* A word of the image is a word.
LEMMA ImageWords ==
  ASSUME NEW n \in Nat, NEW i \in Nat
  PROVE  ImageWord(n, i) \in Words
<1>1. Modulus \in Nat /\ Modulus > 10
  BY BundleAssumption, SelfHostAssumption
<1>2. n * 8 + i + 1 \in Nat
  OBVIOUS
<1>3. (n * 8 + i + 1) % Modulus \in 0 .. Modulus - 1
  BY <1>1, <1>2
<1> QED
  BY <1>3 DEF ImageWord, Words

\* A step that goes nowhere near the copy.
LEMMA ElsewhereEnds ==
  ASSUME BootEnds, pc \notin {"copy", "jumped"}, ram' = ram,
         pc' \notin {"boot", "copy", "jumped", "halted", "path", "contents"}
  PROVE  BootEnds'
BY DEF BootEnds, Loaded, EndsReported, FileAwaited, Unasked

\* How many entries there are stays while they are read.
LEMMA EntryFacts ==
  ASSUME BootInvariant
  PROVE  job \in Jobs /\ TextEntries \in Nat /\ Entries \in Nat /\ job.entry \in Nat
<1>1. job \in Jobs
  BY DEF BootInvariant, Types
<1>2. \A a \in Arrays : job.counts[a] \in Nat
  BY <1>1, BundleAssumption DEF Jobs, Words
<1>3. job.entry \in Nat
  BY <1>1 DEF Jobs
<1> QED
  BY <1>1, <1>2, <1>3 DEF Arrays, TextEntries, Entries

\* Reading a text counts what it is told to.
LEMMA ReadOneCounts ==
  ASSUME BootInvariant, NEW done \in Nat, ReadOne(done)
  PROVE  job'.entry = job.entry + done /\ Entries' = Entries
<1>1. job \in Jobs
  BY EntryFacts
<1>2. job'.entry = job.entry + done /\ job'.counts = job.counts
  BY <1>1 DEF ReadOne, Jobs
<1> QED
  BY <1>2 DEF Entries, TextEntries

\* The kind of a file, and its path.
LEMMA FileEntered ==
  ASSUME BootInvariant, BootEnds, ReadKind \/ ReadPath
  PROVE  BootEnds'
<1>1. /\ pc \in {"reading", "path"} /\ pc' \in {"path", "contents"} /\ ram' = ram
      /\ job'.entry = job.entry /\ Entries' = Entries
  <2>1. CASE ReadKind
    <3>1. job \in Jobs
      BY EntryFacts
    <3>2. job'.entry = job.entry /\ job'.counts = job.counts
      BY <2>1, <3>1 DEF ReadKind, Jobs
    <3> QED
      BY <2>1, <3>2 DEF ReadKind, Reading, Entries, TextEntries
  <2>2. CASE ReadPath
    <3>1. job'.entry = job.entry + 0 /\ Entries' = Entries /\ job.entry \in Nat
      BY <2>2, ReadOneCounts, EntryFacts DEF ReadPath
    <3> QED
      BY <2>2, <3>1 DEF ReadPath
  <2> QED
    BY <2>1, <2>2
<1>2. job.entry < Entries
  BY DEF ReadKind, Reading, ReadPath, BootEnds, FileAwaited
<1>3. Loaded' /\ EndsReported' /\ FileAwaited' /\ Unasked'
  BY <1>1, <1>2 DEF BootEnds, Loaded, EndsReported, FileAwaited, Unasked
<1> QED
  BY <1>3 DEF BootEnds

\* The status is stored last, of a record that is whole.
LEMMA ReportEnds ==
  ASSUME BootInvariant, BootEnds, ReportStatus
  PROVE  BootEnds'
<1>1. /\ pc = "reportStatus" /\ pc' \in {"copy", "halted"} /\ UNCHANGED <<request, job, ram>>
      /\ mem' = [mem EXCEPT ![8] = job.status] /\ (pc' = "copy" => job.status = OK)
      /\ pc \in Compiling /\ pc \in Reports
  BY DEF ReportStatus, RunsAfter, Compiling, Reports
<1>2. job \in Jobs /\ 8 \in DOMAIN mem /\ mem \in [DOMAIN mem -> Words]
  BY <1>1, RunningFacts DEF DiskTypes
<1>3. job.status \in {OK} \cup Failures /\ mem'[8] = job.status
  BY <1>1, <1>2 DEF Jobs
<1>4. Final'
  BY <1>3, Statuses DEF Final
<1>5. ram = <<>> /\ ram' = <<>>
  BY <1>1 DEF BootEnds, Loaded
<1>6. ASSUME pc' = "copy"
      PROVE  Holds(job.image, Padded(job.image) \div 4)'
  <2>1. /\ job.status = OK /\ job.outputLength = RecordLength(job.image)
        /\ Holds(job.image, Padded(job.image) \div 4)
    BY <1>1, <1>6, Statuses DEF BootInvariant, Recorded
  <2>2. RecordedWord(0) /\ \A i \in 0 .. Padded(job.image) \div 4 - 1 : RecordedWord(1 + i)
    BY <1>1, <2>1, WholeRecordFits
  <2>3. /\ Output \in Nat /\ 11 <= Output /\ Output' = Output
        /\ \A k \in Nat : 4 * k + 4 <= request.capacity => Output + k \in DOMAIN mem
    BY <1>1, RunningFacts DEF Output
  <2>4. \A k \in Nat : RecordedWord(k) => mem'[Output + k] = mem[Output + k]
    BY <1>1, <2>3 DEF RecordedWord
  <2>5. mem'[Output] = job.image
    BY <2>1, <2>2, <2>3, <2>4 DEF Holds
  <2>6. ASSUME NEW i \in 0 .. Padded(job.image) \div 4 - 1
        PROVE  mem'[Output + 1 + i] = ImageWord(job.image, i)
    <3>1. 1 + i \in Nat /\ Output + 1 + i = Output + (1 + i)
      BY <2>3
    <3> QED
      BY <2>1, <2>2, <2>4, <3>1 DEF Holds
  <2> QED
    BY <1>1, <2>3, <2>5, <2>6 DEF Holds
<1>7. Loaded'
  <2>1. job.image \in 0 .. MaxImage
    BY <1>2 DEF Jobs
  <2>2. job.image \in Nat
    BY <2>1, RecordFacts
  <2>3. Padded(job.image) \in Nat
    BY <2>2, PaddedFacts
  <2>4. Len(ram') = 0 /\ ram' \in Seq(Words)
    BY <1>5, EmptySeq
  <2>5. Len(ram') <= Padded(job.image) \div 4
    BY <2>3, <2>4
  <2> QED
    BY <1>1, <1>5, <1>6, <2>4, <2>5 DEF Loaded
<1> QED
  BY <1>1, <1>4, <1>7 DEF BootEnds, EndsReported, FileAwaited, Unasked

\* A word is copied, or all are.
LEMMA CopyEnds ==
  ASSUME BootInvariant, BootEnds, CopyImage
  PROVE  BootEnds'
<1>1. pc = "copy" /\ pc' \in {"copy", "jumped"} /\ UNCHANGED <<mem, request, job>>
  BY DEF CopyImage
<1>2. /\ Holds(job.image, Padded(job.image) \div 4) /\ Final
      /\ ram \in Seq(Words) /\ Len(ram) <= Padded(job.image) \div 4
      /\ \A i \in 1 .. Len(ram) : ram[i] = ImageWord(job.image, i - 1)
  BY <1>1 DEF BootEnds, Loaded, EndsReported
<1>3. Final' /\ Output' = Output /\ Holds(job.image, Padded(job.image) \div 4)'
  BY <1>1, <1>2 DEF Final, Output, Holds
<1>4. job.image \in Nat /\ mem[Output] = job.image /\ Len(ram) \in Nat
  <2>1. job.image \in 0 .. MaxImage
    BY EntryFacts DEF Jobs
  <2> QED
    BY <1>2, <2>1, RecordFacts, LenProperties DEF Holds
<1>5. CASE 4 * Len(ram) < job.image
  <2> DEFINE word == mem[Output + 1 + Len(ram)]
  <2>1. ram' = Append(ram, word) /\ pc' = "copy"
    BY <1>1, <1>4, <1>5 DEF CopyImage
  <2>2. Len(ram) <= Padded(job.image) \div 4 - 1 /\ Padded(job.image) \in Nat
    BY <1>4, <1>5, PaddedFacts
  <2>3. Len(ram) \in 0 .. Padded(job.image) \div 4 - 1
    BY <1>4, <2>2
  <2>4. word = ImageWord(job.image, Len(ram))
    BY <1>2, <2>3 DEF Holds
  <2>5. word \in Words
    BY <1>4, <2>4, ImageWords
  <2> HIDE DEF word
  <2>6. /\ ram' \in Seq(Words) /\ Len(ram') = Len(ram) + 1
        /\ ram'[Len(ram) + 1] = word
        /\ \A i \in 1 .. Len(ram) : ram'[i] = ram[i]
    BY <1>2, <2>1, <2>5, AppendProperties
  <2>7. \A i \in 1 .. Len(ram') : ram'[i] = ImageWord(job.image, i - 1)
    <3>1. TAKE i \in 1 .. Len(ram')
    <3>2. i \in 1 .. Len(ram) \/ (i = Len(ram) + 1 /\ i - 1 = Len(ram))
      BY <1>4, <2>6
    <3> QED
      BY <1>2, <2>4, <2>6, <3>2
  <2>8. Len(ram') <= Padded(job.image) \div 4
    BY <1>4, <2>2, <2>6
  <2>9. Loaded'
    BY <1>1, <1>3, <2>1, <2>6, <2>7, <2>8 DEF Loaded
  <2> QED
    BY <1>3, <2>1, <2>9 DEF BootEnds, EndsReported, FileAwaited, Unasked
<1>6. CASE ~(4 * Len(ram) < job.image)
  <2>1. ram' = ram /\ pc' = "jumped"
    BY <1>1, <1>4, <1>6 DEF CopyImage
  <2>2. 4 * Len(ram) >= job.image
    BY <1>4, <1>6
  <2>3. Loaded'
    BY <1>1, <1>2, <1>3, <2>1, <2>2 DEF Loaded
  <2> QED
    BY <1>3, <2>1, <2>3 DEF BootEnds, EndsReported, FileAwaited, Unasked
<1> QED
  BY <1>5, <1>6

\* One case per action.
LEMMA StepEnds ==
  ASSUME BootInvariant, BootEnds, [Next]_vars
  PROVE  BootEnds'
<1>1. CASE UNCHANGED vars
  BY <1>1
     DEF vars, BootEnds, Loaded, EndsReported, FileAwaited, Unasked, Final, Holds, Output,
         Entries, TextEntries
<1>2. CASE Ignore
  <2>1. pc = "boot" /\ pc' = "halted" /\ UNCHANGED <<request, ram>>
    BY <1>2 DEF Ignore
  <2>2. request = NoRequest
    BY <2>1 DEF BootEnds, Unasked
  <2> QED
    BY <2>1, <2>2 DEF BootEnds, Loaded, EndsReported, FileAwaited, Unasked
<1>3. CASE RejectStatus
  <2>1. /\ pc = "rejectStatus" /\ pc' = "halted" /\ ram' = ram
        /\ mem' = [mem EXCEPT ![8] = InvalidControl]
    BY <1>3 DEF RejectStatus
  <2>2. mem'[8] = InvalidControl
    BY <2>1 DEF BootInvariant, DiskTypes
  <2>3. Final'
    BY <2>2, Statuses DEF Final
  <2> QED
    BY <2>1, <2>3 DEF BootEnds, Loaded, EndsReported, FileAwaited, Unasked
<1>4. CASE ReadKind \/ ReadPath
  BY <1>4, FileEntered
<1>5. CASE ReportStatus
  BY <1>5, ReportEnds
<1>6. CASE CopyImage
  BY <1>6, CopyEnds
<1>7. CASE PowerCycle
  BY <1>7 DEF PowerCycle, BootEnds, Loaded, EndsReported, FileAwaited, Unasked
<1>8. CASE ReadControl \/ RejectLength \/ Begin
  BY <1>8, ElsewhereEnds DEF ReadControl, RejectLength, Begin
<1>9. CASE ReadHeader \/ ReadText \/ ReadContents \/ EndReading
  <2>1. /\ pc \in {"header", "reading", "contents"} /\ ram' = ram
        /\ pc' \in {"reading", "preprocess", "cleanup"}
    BY <1>9 DEF ReadHeader, ReadText, Reading, ReadContents, EndReading, Fail
  <2> QED
    BY <2>1, ElsewhereEnds
<1>10. CASE PreprocessFails \/ NoImageBuffer \/ BufferFails \/ Compile
  <2>1. pc = "preprocess" /\ ram' = ram /\ pc' \in {"cleanup", "storeLength"}
    BY <1>10 DEF PreprocessFails, NoImageBuffer, BufferFails, Compile, Fail
  <2> QED
    BY <2>1, ElsewhereEnds
<1>11. CASE Cleanup \/ CleanupThroughNull \/ FailZero \/ FailPosition
  BY <1>11, ElsewhereEnds DEF Cleanup, CleanupThroughNull, FailZero, FailPosition
<1>12. CASE StoreLength \/ StoreImage \/ ReportLength
  BY <1>12, ElsewhereEnds DEF StoreLength, StoreImage, ReportLength
<1> QED
  BY <1>1, <1>2, <1>3, <1>4, <1>5, <1>6, <1>7, <1>8, <1>9, <1>10, <1>11, <1>12 DEF Next, Step

LEMMA EndsInvariance == Spec => []BootEnds
<1>1. Init => BootEnds
  BY DEF Init, BootEnds, Loaded, EndsReported, FileAwaited, Unasked
<1>2. BootInvariant /\ BootEnds /\ [Next]_vars => BootEnds'
  BY StepEnds
<1> QED
  BY <1>1, <1>2, Invariance, PTL DEF Spec

\* A boot that took up a request ends only after a final status is stored:
\* what Reported asks for, but that it ends.
THEOREM EndsAreReported == Spec => []EndsReported
<1>1. BootEnds => EndsReported
  BY DEF BootEnds
<1> QED
  BY <1>1, EndsInvariance, PTL

\* What main jumps to is the image of the record, word by word, all of it and
\* nothing else (dyn_run_compiled_program).
RunsTheImage ==
    pc = "jumped" =>
      /\ mem[Output] = job.image /\ Len(ram) = Padded(job.image) \div 4
      /\ \A i \in 1 .. Len(ram) : ram[i] = ImageWord(job.image, i - 1)

THEOREM WhatRunsIsTheImage == Spec => []RunsTheImage
<1>1. BootInvariant /\ BootEnds => RunsTheImage
  <2> SUFFICES ASSUME BootInvariant, BootEnds, pc = "jumped" PROVE RunsTheImage
    BY DEF RunsTheImage
  <2>1. /\ Holds(job.image, Padded(job.image) \div 4) /\ ram \in Seq(Words)
        /\ Len(ram) <= Padded(job.image) \div 4 /\ 4 * Len(ram) >= job.image
        /\ \A i \in 1 .. Len(ram) : ram[i] = ImageWord(job.image, i - 1)
    BY DEF BootEnds, Loaded
  <2>2. job.image \in 0 .. MaxImage
    BY EntryFacts DEF Jobs
  <2>3. job.image \in Nat /\ Len(ram) \in Nat
    BY <2>1, <2>2, RecordFacts, LenProperties
  <2>4. Padded(job.image) \in Nat /\ Padded(job.image) % 4 = 0
        /\ Padded(job.image) <= job.image + 3
    BY <2>3, PaddedFacts
  <2>5. Len(ram) = Padded(job.image) \div 4
    BY <2>1, <2>3, <2>4
  <2> QED
    BY <2>1, <2>5 DEF RunsTheImage, Holds
<1> QED
  BY <1>1, Invariance, EndsInvariance, PTL

\* The parts of a boot, in the order they come.
Part ==
    CASE pc = "boot" -> 0
      [] pc \in {"reject", "begin"} -> 1
      [] pc \in {"rejectStatus", "header"} -> 2
      [] pc \in {"reading", "path", "contents"} -> 3
      [] pc = "preprocess" -> 4
      [] pc \in {"cleanup", "storeLength"} -> 5
      [] pc = "failZero" -> 6
      [] pc \in {"storeImage", "failPosition"} -> 7
      [] pc = "reportLength" -> 8
      [] pc = "reportStatus" -> 9
      [] pc = "copy" -> 10
      [] pc \in {"jumped", "halted", "wild"} -> 11

\* What is left of a part that repeats: entries to read, words to store, words
\* to copy.
Left ==
    CASE pc = "reading" -> 3 * (Entries - job.entry)
      [] pc = "path" -> 3 * (Entries - job.entry) - 1
      [] pc = "contents" -> 3 * (Entries - job.entry) - 2
      [] pc = "storeImage" -> job.image - job.index
      [] pc = "copy" -> mem[Output] - Len(ram)
      [] OTHER -> 0

Descends == Part' > Part \/ (Part' = Part /\ Left' \in Nat /\ Left' < Left)

\* Reading an entry.
LEMMA ReadingDescends ==
  ASSUME BootInvariant, BootEnds, ReadText \/ ReadKind \/ ReadPath \/ ReadContents
  PROVE  Descends
<1>1. Entries \in Nat /\ job.entry \in Nat /\ job \in Jobs
  BY EntryFacts
<1>2. job.entry < Entries
  BY DEF ReadText, ReadKind, Reading, ReadPath, ReadContents, BootEnds, FileAwaited
<1>3. CASE ReadText
  <2>1. pc = "reading" /\ pc' = "reading" /\ ReadOne(1)
    BY <1>3 DEF ReadText, Reading
  <2>2. job'.entry = job.entry + 1 /\ Entries' = Entries
    BY <2>1, ReadOneCounts
  <2>3. Left = 3 * (Entries - job.entry) /\ Left' = 3 * (Entries - (job.entry + 1))
    BY <2>1, <2>2 DEF Left
  <2>4. Part' = Part
    BY <2>1 DEF Part
  <2> QED
    BY <1>1, <1>2, <2>3, <2>4 DEF Descends
<1>4. CASE ReadKind
  <2>1. pc = "reading" /\ pc' = "path"
    BY <1>4 DEF ReadKind, Reading
  <2>2. job'.entry = job.entry /\ job'.counts = job.counts
    BY <1>1, <1>4 DEF ReadKind, Jobs
  <2>3. Left = 3 * (Entries - job.entry) /\ Left' = 3 * (Entries - job.entry) - 1
    BY <2>1, <2>2 DEF Left, Entries, TextEntries
  <2>4. Part' = Part
    BY <2>1 DEF Part
  <2> QED
    BY <1>1, <1>2, <2>3, <2>4 DEF Descends
<1>5. CASE ReadPath
  <2>1. pc = "path" /\ pc' = "contents" /\ ReadOne(0)
    BY <1>5 DEF ReadPath
  <2>2. job'.entry = job.entry + 0 /\ Entries' = Entries
    BY <2>1, ReadOneCounts
  <2>3. Left = 3 * (Entries - job.entry) - 1 /\ Left' = 3 * (Entries - (job.entry + 0)) - 2
    BY <2>1, <2>2 DEF Left
  <2>4. Part' = Part
    BY <2>1 DEF Part
  <2> QED
    BY <1>1, <1>2, <2>3, <2>4 DEF Descends
<1>6. CASE ReadContents
  <2>1. pc = "contents" /\ pc' = "reading" /\ ReadOne(1)
    BY <1>6 DEF ReadContents
  <2>2. job'.entry = job.entry + 1 /\ Entries' = Entries
    BY <2>1, ReadOneCounts
  <2>3. Left = 3 * (Entries - job.entry) - 2 /\ Left' = 3 * (Entries - (job.entry + 1))
    BY <2>1, <2>2 DEF Left
  <2>4. Part' = Part
    BY <2>1 DEF Part
  <2> QED
    BY <1>1, <1>2, <2>3, <2>4 DEF Descends
<1> QED
  BY <1>3, <1>4, <1>5, <1>6

\* Storing a word of the image.
LEMMA StoringDescends ==
  ASSUME BootInvariant, StoreImage
  PROVE  Descends
<1>1. job \in Jobs /\ pc = "storeImage"
  BY EntryFacts DEF StoreImage
<1>2. job.image \in Nat /\ job.index \in Nat
  <2>1. job.image \in 0 .. MaxImage /\ job.index \in Nat
    BY <1>1 DEF Jobs
  <2> QED
    BY <2>1, RecordFacts
<1>3. CASE 4 * job.index < job.image
  <2>1. job' = [job EXCEPT !.index = job.index + 1] /\ pc' = "storeImage"
    BY <1>1, <1>3 DEF StoreImage
  <2>2. job'.index = job.index + 1 /\ job'.image = job.image
    BY <1>1, <2>1 DEF Jobs
  <2>3. Left = job.image - job.index /\ Left' = job.image - (job.index + 1) /\ Part' = Part
    BY <1>1, <2>1, <2>2 DEF Left, Part
  <2> QED
    BY <1>2, <1>3, <2>3 DEF Descends
<1>4. CASE ~(4 * job.index < job.image)
  <2>1. pc' = "reportLength"
    BY <1>4 DEF StoreImage
  <2> QED
    BY <1>1, <2>1 DEF Descends, Part
<1> QED
  BY <1>3, <1>4

\* Copying a word of it.
LEMMA CopyingDescends ==
  ASSUME BootInvariant, BootEnds, CopyImage
  PROVE  Descends
<1>1. pc = "copy" /\ UNCHANGED <<mem, request, job>>
  BY DEF CopyImage
<1>2. mem[Output] = job.image /\ ram \in Seq(Words)
  BY <1>1 DEF BootEnds, Loaded, Holds
<1>3. job.image \in Nat /\ Len(ram) \in Nat
  <2>1. job.image \in 0 .. MaxImage
    BY EntryFacts DEF Jobs
  <2> QED
    BY <1>2, <2>1, RecordFacts, LenProperties
<1>4. CASE 4 * Len(ram) < job.image
  <2>1. ram' = Append(ram, mem[Output + 1 + Len(ram)]) /\ pc' = "copy"
    BY <1>1, <1>2, <1>4 DEF CopyImage
  <2>2. BootEnds'
    BY CopyEnds
  <2>3. ram' \in Seq(Words) /\ Output' = Output
    BY <1>1, <2>1, <2>2 DEF BootEnds, Loaded, Output
  <2>4. Len(ram') = Len(ram) + 1
    BY <1>2, <2>1, <2>3
  <2>5. Left = job.image - Len(ram) /\ Left' = job.image - (Len(ram) + 1) /\ Part' = Part
    BY <1>1, <1>2, <2>1, <2>3, <2>4 DEF Left, Part
  <2> QED
    BY <1>3, <1>4, <2>5 DEF Descends
<1>5. CASE ~(4 * Len(ram) < job.image)
  <2>1. pc' = "jumped"
    BY <1>1, <1>2, <1>5 DEF CopyImage
  <2> QED
    BY <1>1, <2>1 DEF Descends, Part
<1> QED
  BY <1>4, <1>5

\* A boot ends: whatever the disk says, each step leaves less of it to do, but
\* the power failing, which is counted.
THEOREM BootDescends == Spec => [][cuts' > cuts \/ Descends]_vars
<1>1. BootInvariant /\ BootEnds /\ [Next]_vars => [cuts' > cuts \/ Descends]_vars
  <2> SUFFICES ASSUME BootInvariant, BootEnds, Next PROVE cuts' > cuts \/ Descends
    OBVIOUS
  <2>1. CASE Ignore \/ ReadControl \/ RejectLength \/ RejectStatus \/ Begin \/ ReadHeader
    <3>1. \/ pc = "boot" /\ pc' \in {"halted", "begin", "reject"}
          \/ pc = "reject" /\ pc' = "rejectStatus"
          \/ pc = "rejectStatus" /\ pc' = "halted"
          \/ pc = "begin" /\ pc' = "header"
          \/ pc = "header" /\ pc' = "reading"
      BY <2>1 DEF Ignore, ReadControl, RejectLength, RejectStatus, Begin, ReadHeader
    <3> QED
      BY <3>1 DEF Descends, Part
  <2>2. CASE ReadText \/ ReadKind \/ ReadPath \/ ReadContents
    BY <2>2, ReadingDescends
  <2>3. CASE EndReading \/ PreprocessFails \/ NoImageBuffer \/ BufferFails \/ Compile
    <3>1. \/ pc = "reading" /\ pc' \in {"preprocess", "cleanup"}
          \/ pc = "preprocess" /\ pc' \in {"cleanup", "storeLength"}
      BY <2>3 DEF EndReading, PreprocessFails, NoImageBuffer, BufferFails, Compile, Fail
    <3> QED
      BY <3>1 DEF Descends, Part
  <2>4. CASE Cleanup \/ CleanupThroughNull \/ FailZero \/ FailPosition \/ StoreLength
    <3>1. \/ pc = "cleanup" /\ pc' \in {"failZero", "wild"}
          \/ pc = "failZero" /\ pc' = "failPosition"
          \/ pc = "failPosition" /\ pc' = "reportLength"
          \/ pc = "storeLength" /\ pc' = "storeImage"
      BY <2>4 DEF Cleanup, CleanupThroughNull, FailZero, FailPosition, StoreLength
    <3> QED
      BY <3>1 DEF Descends, Part
  <2>5. CASE ReportLength \/ ReportStatus
    <3>1. \/ pc = "reportLength" /\ pc' = "reportStatus"
          \/ pc = "reportStatus" /\ pc' \in {"copy", "halted"}
      BY <2>5 DEF ReportLength, ReportStatus
    <3> QED
      BY <3>1 DEF Descends, Part
  <2>6. CASE StoreImage
    BY <2>6, StoringDescends
  <2>7. CASE CopyImage
    BY <2>7, CopyingDescends
  <2>8. CASE PowerCycle
    <3>1. cuts' = cuts + 1 /\ cuts \in 0 .. MaxCuts
      BY <2>8 DEF PowerCycle, BootInvariant, Types
    <3> QED
      BY <3>1
  <2> QED
    BY <2>1, <2>2, <2>3, <2>4, <2>5, <2>6, <2>7, <2>8 DEF Next, Step
<1> QED
  BY <1>1, Invariance, EndsInvariance, PTL DEF Spec
=============================================================================
