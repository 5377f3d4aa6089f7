------------------------------ MODULE SelfHost ------------------------------
(***************************************************************************)
(* The self-hosted compiler at boot: main (selfhost/src/main.c) checks the *)
(* DCC1 control block in persistent memory, dyn_compile_project            *)
(* (selfhost/src/compiler.c) reads the DCP1 project, compiles it and       *)
(* stores the executable record, and main reports: the length, then the    *)
(* status.  The power may fail between any two stores; persistent memory   *)
(* keeps what was stored and the machine boots again.                      *)
(*                                                                         *)
(* One action per store to persistent memory, per entry read from the      *)
(* project and per decision; preprocessing and dyn_compile_buffer are one  *)
(* step whose result is any the compiler has.                              *)
(***************************************************************************)
EXTENDS ProjectBundle, FiniteSetsExt

CONSTANTS
    ControlMagic,     \* "DCC1"
    Disks,            \* persistent memories to boot from
    Plenty,           \* source_length * 8 + 4096, for the sources here
    MaxImage,         \* the longest image a source here compiles to, in bytes
    MaxCuts           \* power failures

ASSUME SelfHostAssumption ==
    /\ Modulus > 10
    /\ Plenty \in Nat /\ MaxImage \in Nat /\ MaxCuts \in Nat

VARIABLES
    mem,       \* persistent memory: survives a power failure
    pc,
    request,   \* main's copies of the control fields
    job,       \* the locals of dyn_compile_project
    ram,       \* the words copied to program_load_address
    cuts

vars == <<mem, pc, request, job, ram, cuts>>

OK == 0
OutOfMemory == 2
ParseError == 4
InvalidControl == 6
InvalidProject == 7
OutputTooSmall == 8
\* What dyn_compile_buffer returns whatever the room for the image; that the
\* emitter finds no memory is reported as an output that is too small.
BufferErrors == {1, OutOfMemory, ParseError, 5, OutputTooSmall}

Pending == Modulus - 1
Running == Modulus - 2
NoPosition == Modulus - 1

Words == 0 .. Modulus - 1

\* The memory is as large as its control block says, and nothing has been
\* compiled yet: what make_persistent_image writes, in project.py.
ASSUME DisksAssumption ==
    \A disk \in Disks :
        /\ disk \in [DOMAIN disk -> Words]
        /\ 0 .. 10 \subseteq DOMAIN disk
        /\ {w \in Words : 4 * w < disk[2]} \subseteq DOMAIN disk
        /\ disk[8] = Pending

Arrays == {"files", "roots", "definitions"}

NoRequest == [size |-> 0, project |-> 0, length |-> 0, output |-> 0, capacity |-> 0, mode |-> 0]
Idle == [reader |-> Reader(0, 0), counts |-> [a \in Arrays |-> 0], arrays |-> {},
         texts |-> <<>>, entry |-> 0, sources |-> 0, starved |-> FALSE,
         status |-> OK, position |-> NoPosition, image |-> 0, index |-> 0, outputLength |-> 0]

Init ==
    /\ mem \in Disks
    /\ pc = "boot"
    /\ request = NoRequest
    /\ job = Idle
    /\ ram = <<>>
    /\ cuts = 0

----------------------------------------------------------------------------
(* main, up to the compilation.                                             *)

\* The numbers without an odd divisor but 1: size & (size - 1) is zero.
PowersOfTwo == {n \in 1 .. Modulus - 1 : \A d \in 2 .. n : n % d = 0 => d % 2 = 0}

Requested ==
    [size |-> mem[2], project |-> mem[3], length |-> mem[4],
     output |-> mem[6], capacity |-> mem[7], mode |-> mem[10]]

\* Slip: the last byte of the memory is not to be used.
CapacityFitsBelow(r) == r.capacity < r.size - r.output

CapacityFits(r) == r.capacity <= r.size - r.output

\* Slip: only the start of the project is protected.
ApartFromStart(r) == r.output > r.project

Apart(r) == r.output >= r.project + r.length

Valid(r) ==
    /\ r.size >= 64 /\ r.size \in PowersOfTwo
    /\ r.project % 4 = 0 /\ r.output % 4 = 0
    /\ r.project >= 44 /\ r.project <= r.size
    /\ r.length <= r.size - r.project
    /\ r.output <= r.size
    /\ CapacityFits(r)
    /\ Apart(r)
    /\ r.mode <= 3

NotForUs == mem[0] # ControlMagic \/ mem[1] # 1

\* Not a control block: main returns and stores nothing.
Ignore ==
    /\ pc = "boot" /\ NotForUs
    /\ pc' = "halted"
    /\ UNCHANGED <<mem, request, job, ram, cuts>>

ReadControl ==
    /\ pc = "boot" /\ ~NotForUs
    /\ request' = Requested
    /\ pc' = IF Valid(Requested) THEN "begin" ELSE "reject"
    /\ UNCHANGED <<mem, job, ram, cuts>>

RejectLength ==
    /\ pc = "reject"
    /\ mem' = [mem EXCEPT ![9] = 0]
    /\ pc' = "rejectStatus"
    /\ UNCHANGED <<request, job, ram, cuts>>

RejectStatus ==
    /\ pc = "rejectStatus"
    /\ mem' = [mem EXCEPT ![8] = InvalidControl]
    /\ pc' = "halted"
    /\ UNCHANGED <<request, job, ram, cuts>>

\* Slip: the status of the last compilation stays while this one runs.
BeginQuietly ==
    /\ pc = "begin"
    /\ mem' = mem
    /\ job' = [Idle EXCEPT !.reader = Reader(request.project, request.length)]
    /\ pc' = "header"
    /\ UNCHANGED <<request, ram, cuts>>

\* The status says that a compilation runs before anything else is stored.
Begin ==
    /\ pc = "begin"
    /\ mem' = [mem EXCEPT ![8] = Running]
    /\ job' = [Idle EXCEPT !.reader = Reader(request.project, request.length)]
    /\ pc' = "header"
    /\ UNCHANGED <<request, ram, cuts>>

----------------------------------------------------------------------------
(* dyn_compile_project: reading the project.                                *)

\* Six words, then an array for each count that is not zero; calloc may
\* find no memory for any of them.
ReadHeader ==
    /\ pc = "header"
    /\ LET v == [i \in 0 .. 5 |-> Value(mem, U32s(job.reader, i))]
           counts == [a \in Arrays |-> CASE a = "files" -> v[3] [] a = "roots" -> v[4]
                                         [] a = "definitions" -> v[5]]
           wanted == {a \in Arrays : counts[a] # 0}
           misread == v[0] # BundleMagic \/ v[1] # 1 \/ v[2] # 0
       IN  \E got \in SUBSET wanted :
             job' = [job EXCEPT !.counts = counts, !.arrays = got, !.starved = got # wanted,
                       !.reader = [U32s(job.reader, 6) EXCEPT !.error = @ \/ misread \/ got # wanted]]
    /\ pc' = "reading"
    /\ UNCHANGED <<mem, request, ram, cuts>>

TextEntries == job.counts["roots"] + job.counts["definitions"]
Entries == TextEntries + job.counts["files"]

Reading == pc = "reading" /\ ~job.reader.error /\ job.entry < Entries

ReadOne(done) ==
    \E room \in BOOLEAN :
      LET read == Text(mem, job.reader, room)
      IN  job' = [job EXCEPT !.reader = read.reader, !.texts = Append(@, read.text),
                    !.entry = @ + done, !.starved = @ \/ ~room]

\* One iteration of the loop over include roots, or of that over definitions.
ReadText ==
    /\ Reading /\ job.entry < TextEntries
    /\ ReadOne(1)
    /\ UNCHANGED <<mem, pc, request, ram, cuts>>

\* One iteration of the loop over files: the kind, the path, the contents.
\* An unknown kind is an error, but both texts are still asked for.
ReadKind ==
    /\ Reading /\ job.entry >= TextEntries
    /\ LET kind == Value(mem, job.reader)
       IN  job' = [job EXCEPT !.reader = [U32(job.reader) EXCEPT !.error = @ \/ kind \notin {1, 2}],
                     !.sources = @ + (IF kind = 1 THEN 1 ELSE 0)]
    /\ pc' = "path"
    /\ UNCHANGED <<mem, request, ram, cuts>>

ReadPath ==
    /\ pc = "path"
    /\ ReadOne(0)
    /\ pc' = "contents"
    /\ UNCHANGED <<mem, request, ram, cuts>>

ReadContents ==
    /\ pc = "contents"
    /\ ReadOne(1)
    /\ pc' = "reading"
    /\ UNCHANGED <<mem, request, ram, cuts>>

Fail(status) ==
    /\ job' = [job EXCEPT !.status = status, !.outputLength = 8]
    /\ pc' = "cleanup"

\* Slip: what follows the last entry is not looked at.
AcceptableWithRest == ~job.reader.error /\ job.sources # 0

Acceptable ==
    ~job.reader.error /\ job.reader.position = job.reader.length /\ job.sources # 0

EndReading ==
    /\ pc = "reading" /\ ~Reading
    /\ IF Acceptable
       THEN pc' = "preprocess" /\ job' = job
       ELSE Fail(InvalidProject)
    /\ UNCHANGED <<mem, request, ram, cuts>>

----------------------------------------------------------------------------
(* Compiling.                                                               *)

PreprocessFails ==
    /\ pc = "preprocess"
    /\ Fail(ParseError)
    /\ UNCHANGED <<mem, request, ram, cuts>>

NoImageBuffer ==
    /\ pc = "preprocess"
    /\ Fail(OutOfMemory)
    /\ UNCHANGED <<mem, request, ram, cuts>>

ImageCapacity ==
    IF request.capacity > 4 THEN Min({Plenty, request.capacity - 4}) ELSE Plenty

RecordLength(image) == 4 + Padded(image)

\* dyn_compile_buffer refuses the source, or its image overflows the buffer.
BufferFails ==
    /\ pc = "preprocess"
    /\ \/ \E status \in BufferErrors :
            /\ job' = [job EXCEPT !.status = status, !.outputLength = 8,
                         !.position = IF status = ParseError THEN 0 ELSE @]
            /\ pc' = "cleanup"
       \/ \E image \in ImageCapacity + 1 .. MaxImage :
            /\ job' = [job EXCEPT !.status = OutputTooSmall, !.image = image, !.outputLength = 8]
            /\ pc' = "cleanup"
    /\ UNCHANGED <<mem, request, ram, cuts>>

Compile ==
    /\ pc = "preprocess"
    /\ \E image \in 0 .. Min({ImageCapacity, MaxImage}) :
         IF request.capacity < RecordLength(image)
         THEN /\ job' = [job EXCEPT !.status = OutputTooSmall, !.image = image, !.outputLength = 8]
              /\ pc' = "cleanup"
         ELSE /\ job' = [job EXCEPT !.image = image, !.outputLength = RecordLength(image)]
              /\ pc' = "storeLength"
    /\ UNCHANGED <<mem, request, ram, cuts>>

\* dyn_free_project_texts walks the arrays by their counts.  An array calloc
\* refused is a null pointer: what is found through it may be harmless zeros,
\* or be freed as if malloc had returned it, and the program goes nowhere.
Cleanup ==
    /\ pc = "cleanup"
    /\ pc' = "failZero"
    /\ UNCHANGED <<mem, request, job, ram, cuts>>

CleanupThroughNull ==
    /\ pc = "cleanup"
    /\ \E a \in Arrays \ job.arrays : job.counts[a] # 0
    /\ pc' = "wild"
    /\ UNCHANGED <<mem, request, job, ram, cuts>>

Output == request.output \div 4

\* dyn_write_failure.
FailZero ==
    /\ pc = "failZero"
    /\ mem' = IF request.capacity >= 4 THEN [mem EXCEPT ![Output] = 0] ELSE mem
    /\ pc' = "failPosition"
    /\ UNCHANGED <<request, job, ram, cuts>>

\* The position of a parse error, 0 here, or none.
FailPosition ==
    /\ pc = "failPosition"
    /\ mem' = IF request.capacity >= 8 THEN [mem EXCEPT ![Output + 1] = job.position] ELSE mem
    /\ pc' = "reportLength"
    /\ UNCHANGED <<request, job, ram, cuts>>

StoreLength ==
    /\ pc = "storeLength"
    /\ mem' = [mem EXCEPT ![Output] = job.image]
    /\ pc' = "storeImage"
    /\ UNCHANGED <<request, job, ram, cuts>>

\* Word i of an image of n bytes: words of different images differ.
ImageWord(n, i) == (n * 8 + i + 1) % Modulus

\* Word i is packed from bytes 4 * i and on, zeros after the last.
StoreImage ==
    /\ pc = "storeImage"
    /\ IF 4 * job.index < job.image
       THEN /\ mem' = [mem EXCEPT ![Output + 1 + job.index] = ImageWord(job.image, job.index)]
            /\ job' = [job EXCEPT !.index = @ + 1]
            /\ pc' = pc
       ELSE /\ pc' = "reportLength"
            /\ UNCHANGED <<mem, job>>
    /\ UNCHANGED <<request, ram, cuts>>

----------------------------------------------------------------------------
(* main, after the compilation.                                             *)

ReportLength ==
    /\ pc = "reportLength"
    /\ mem' = [mem EXCEPT ![9] = job.outputLength]
    /\ pc' = "reportStatus"
    /\ UNCHANGED <<request, job, ram, cuts>>

RunsAfter == job.status = OK /\ request.mode % 2 = 1

\* Slip: main halts before it has reported.
ReportNothing ==
    /\ pc = "reportStatus"
    /\ pc' = IF RunsAfter THEN "copy" ELSE "halted"
    /\ UNCHANGED <<mem, request, job, ram, cuts>>

ReportStatus ==
    /\ pc = "reportStatus"
    /\ mem' = [mem EXCEPT ![8] = job.status]
    /\ pc' = IF RunsAfter THEN "copy" ELSE "halted"
    /\ UNCHANGED <<request, job, ram, cuts>>

\* dyn_run_compiled_program: word by word until as many bytes are copied as
\* the record says, then the jump.
CopyImage ==
    /\ pc = "copy"
    /\ IF 4 * Len(ram) < mem[Output]
       THEN ram' = Append(ram, mem[Output + 1 + Len(ram)]) /\ pc' = pc
       ELSE ram' = ram /\ pc' = "jumped"
    /\ UNCHANGED <<mem, request, job, cuts>>

\* The power fails and the machine boots again.
PowerCycle ==
    /\ cuts < MaxCuts
    /\ cuts' = cuts + 1
    /\ pc' = "boot"
    /\ request' = NoRequest
    /\ job' = Idle
    /\ ram' = <<>>
    /\ mem' = mem

Step ==
    \/ Ignore \/ ReadControl \/ RejectLength \/ RejectStatus \/ Begin
    \/ ReadHeader \/ ReadText \/ ReadKind \/ ReadPath \/ ReadContents \/ EndReading
    \/ PreprocessFails \/ NoImageBuffer \/ BufferFails \/ Compile
    \/ Cleanup \/ CleanupThroughNull \/ FailZero \/ FailPosition
    \/ StoreLength \/ StoreImage \/ ReportLength \/ ReportStatus \/ CopyImage

Next == Step \/ PowerCycle

\* The machine runs while it has power, and the power fails MaxCuts times at
\* most.
Spec == Init /\ [][Next]_vars /\ WF_vars(Step)

----------------------------------------------------------------------------
(* Properties.                                                              *)

\* Words stay words and the reader stays at a word of the project.
TypeOK ==
    /\ \A w \in DOMAIN mem : mem[w] \in Words
    /\ pc \in {"boot", "reject", "rejectStatus", "begin", "header", "reading", "path", "contents",
               "preprocess", "cleanup", "wild", "failZero", "failPosition", "storeLength", "storeImage",
               "reportLength", "reportStatus", "copy", "jumped", "halted"}
    /\ \A f \in DOMAIN request : request[f] \in Words
    /\ job.reader.position \in Nat /\ job.reader.position % 4 = 0
    /\ job.status \in {OK, 1, OutOfMemory, ParseError, 5, InvalidProject, OutputTooSmall}
    /\ job.image \in 0 .. MaxImage /\ job.outputLength \in Words
    /\ cuts \in 0 .. MaxCuts

Out == mem[6] \div 4

\* The record at the output address holds an image, all of it, and its size.
RecordIsWhole ==
    \E image \in 0 .. MaxImage :
        /\ mem[9] = 4 + Padded(image)
        /\ mem[Out] = image
        /\ \A i \in 0 .. Padded(image) \div 4 - 1 : mem[Out + 1 + i] = ImageWord(image, i)

\* What the status promises is there, whenever the power fails and at every
\* step of a later compilation: a success has its whole record, a failure a
\* record whose image is empty (main, lines 56-66).
ReportedIsWhole ==
    /\ mem[8] = OK => RecordIsWhole
    /\ mem[8] \in {1, OutOfMemory, ParseError, 5, InvalidProject, OutputTooSmall} =>
         mem[9] = 8 /\ (mem[7] >= 4 => mem[Out] = 0)
    /\ mem[8] = InvalidControl => mem[9] = 0

\* The compiler stores to the status, the length and the output range, and
\* never over the request or the project (the checks of main, lines 39-51).
StoresStayHome ==
    [][\A w \in DOMAIN mem : mem'[w] # mem[w] =>
        \/ w \in {8, 9}
        \/ /\ w >= 11
           /\ 4 * w >= mem[6] /\ 4 * w < mem[6] + mem[7]
           /\ ~(4 * w >= mem[3] /\ 4 * w < mem[3] + mem[4])]_mem

\* No field is read past the end of the project, whatever the counts and the
\* lengths in it say (dyn_project_u32 and dyn_project_skip_blob).
ReadsInsideProject ==
    /\ job.reader.position <= job.reader.length
    /\ \A i \in DOMAIN job.texts : job.texts[i] # NoText =>
         /\ job.texts[i].address >= job.reader.address + 28
         /\ job.texts[i].address + job.texts[i].length <= job.reader.address + job.reader.length

\* Every bundle the host's decoder takes, the compiler takes for the same texts.
\* Of other streams it takes exactly those whose header, counts and lengths fit
\* (a text too large to pad is apart), and so refuses, memory permitting, none
\* that the host decodes.  (What it takes too many: OnlyBundlesCompiled.)
HostBundlesRead ==
    LET framed == Framed(mem, request.project, request.length)
        source == HasSource(mem, request.project, request.length)
    IN  /\ /\ pc = "preprocess"
           /\ \/ NoText \notin Range(job.texts)
              \/ Decodes(mem, request.project, request.length)
           => /\ framed /\ source
              /\ job.texts = DecodedTexts(mem, request.project, request.length)
        /\ pc = "cleanup" /\ job.status = InvalidProject /\ ~job.starved =>
             ~(framed /\ source)

\* make_persistent_image (symphony/project.py): the disks the host prepares.
MadeByHost ==
    /\ ~NotForUs
    /\ mem[2] \in PowersOfTwo /\ mem[2] >= 4
    /\ mem[3] >= 44 /\ mem[3] % 4 = 0 /\ mem[6] % 4 = 0
    /\ Decodes(mem, mem[3], mem[4])
    /\ mem[3] + mem[4] <= mem[6] /\ mem[6] < mem[2]
    /\ mem[7] = mem[2] - mem[6]
    /\ mem[10] <= 3

\* main accepts every control block the host tools write.
HostRequestsAccepted == pc \in {"reject", "rejectStatus"} => ~MadeByHost

Final == mem[8] \notin {Pending, Running}

\* A compilation that starts reports a final status, power failures or not,
\* unless its cleanup went through a null array.
Reported == pc = "begin" ~> Final \/ pc = "wild"

----------------------------------------------------------------------------
(* What selfhost/PROJECT-FORMAT.md says.                                    *)

\* Lines 94-95: the final status is written last; so it is written.
AlwaysReported == pc = "begin" ~> Final

\* Lines 95-96: with too small an output the length is the one required.
RequiredSizeReported ==
    pc = "halted" /\ mem[8] = OutputTooSmall /\ job.image > ImageCapacity =>
        mem[9] = RecordLength(job.image)

\* Lines 127-132: a failure record is a zero and a diagnostic blob.
FailureHasDiagnostic ==
    mem[8] \in {1, OutOfMemory, ParseError, 5, InvalidProject, OutputTooSmall} /\ mem[7] >= 8 =>
        mem[9] = 8 + Padded(mem[Out + 1])

\* Lines 31-34 and 60-62: padding is zero, paths are relative, normalized and
\* unique, text is UTF-8 and lengths stay within the limits, or it is an error;
\* so what is compiled is a bundle.
OnlyBundlesCompiled == pc = "preprocess" => Decodes(mem, request.project, request.length)
=============================================================================
