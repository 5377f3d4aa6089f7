# Verification of the Dynphony C compiler

TLA+ models, TLC runs and TLAPS proofs for the C compiler, the runtime library,
the emulators and the self-hosted compiler of this repository. Paths below are
relative to the repository root; line numbers are those of the modelled commit.

- [The system](#the-system)
- [Modules](#modules)
- [Runs](#runs): what is checked, on which bounds
- [Fairness](#fairness)
- [Proofs](#proofs)
- [What the models found](#what-the-models-found)
- [What is not modelled](#what-is-not-modelled)
- [Plan](#plan)

## The system

A C program goes through a Python compiler (`symphony/`) to an image for one of
two instruction sets, Dynphony (instructions of one to four bytes) and Symphony
(four bytes each). Images run on an emulator, in Python or in C. A second
compiler, written in C for that machine (`selfhost/`), is compiled by the first
and then compiles projects it finds in persistent memory.

| Component | State | Operations | What makes it correct |
|---|---|---|---|
| Runtime heap, `selfhost/src/runtime.c` (and its twin in `symphony/runtime/helpers.py:52-174`) | head of the free list, heap end, headers and links in the same RAM as the data | `malloc`, `calloc`, `realloc`, `free` | blocks tile the heap and never overlap, the free list threads exactly the free blocks, data survives, walks end |
| Self-hosted preprocessor, `selfhost/src/frontend/preprocessor.c` | macro table, stacks of groups and of includes, files seen | one per directive, expansion of a line, evaluation of a condition | the text C's rules give, or an error; includes end |
| Self-hosted lexer and parser, `lexer.c`, `parser.c` | position; tables of objects, functions, types, constants, each with an active flag; the tree | a token; a rule of the grammar; closing a block | the program's structure, with every name meaning the innermost declaration; everything else refused |
| Self-hosted semantics, lowering, back end, `sema.c`, `lower.c`, `backend.c` | position in the image, lists of jumps, calls and addresses to patch | a node of the tree, a function, the objects | the image does what the source means, wherever it is loaded |
| Self-host protocol, `selfhost/src/main.c`, `compiler.c`, `symphony/project.py` | control block, project and output record in persistent memory | boot, read, compile, store, report, run | a final status stands only over a complete record, nothing else is written |
| Dynamic stack, `symphony/middle/ir.py:295-402`, `backend.py:782-818` | stack pointer, one marker per scope with arrays | declare, leave a scope, `break`, `continue`, `return` | arrays stay apart, above the stack pointer, and are released on the way out |
| Call sequence, `symphony/targets/symphony/backend.py:380-460`, `632-760`, `1050-1060` | registers, flags, stack | place arguments, prologue, epilogue | every argument arrives, the caller gets its registers and its stack back |
| Register homes, `backend.py:503-630` | home of every value | choose homes; run | a read finds the last write |
| Assembler and layout, `assembler.py`, `backend.py:1062-1117` | code, labels, fixups, sizes chosen | emit, relax, append data, patch | labels name what they label, sizes fit final targets, the search ends |
| Emulators, `symphony/emulator/` | registers, memory, devices; in the native engine a decode cache and a chunk limit | step, run, chunk | the native engine does what the reference does, also for code that rewrites itself |
| Middle end, `symphony/middle/passes/` | the module being rewritten | some twenty passes, to a fixed point | same behaviour, termination |
| Python preprocessor and C front end, `symphony/frontends/c/` | macros; the tree | the language of the self-hosted ones | conformance |
| Software arithmetic and printf, `helpers.py:176-`, `runtime/intrinsics.py` | cursor and frame buffer | multiply, divide, put | exact arithmetic, no write past the buffer |
| Encodings, command line, packer, GCC port | little or none | functions of their input | conformance |

How they interact. In the Python compiler the lowerer marks dynamic scopes and
the back end turns the marks into code that compares the stack pointer with the
heap end of the runtime; the register allocator decides where values live, and
the call sequence moves them according to that decision and relies on the
convention the callee's prologue keeps; the assembler patches what the back end
emitted. The self-hosted compiler reads the project through `DynProjectReader`,
preprocesses it into one text, parses that into tables in the heap, and walks
the tree into the output buffer; `main` stores that buffer into persistent memory
and may run it. The emulator runs the bytes, including those the program writes
over its own code. Host tools and self-hosted compiler share only a persistent
memory and its format.

What is hard here, and hardly met by a test: long sequences of allocator calls;
permutations of homes and argument registers that form cycles; control flow that
goes back past a call; every way out of nested scopes and loops; operators under
every other operator, with operands that clobber each other's registers; names
that shadow names of another kind; chains of conditional groups and headers that
include each other; stores over cached code and across the end of RAM; sizes that
depend on addresses that depend on sizes; a power failure between two stores;
malformed streams. `PROJECT.json` lists these hazards at their lines. Those of
the parts not modelled are: passes that undo each other
(`symphony/middle/passes/manager.py:23`), constants met over the edges found
executable so far (`pipeline.py:345`), inlining from bodies being rewritten
(`pipeline.py:679`), the carry of software division (`helpers.py:189`), and the
cursor at the end of the frame buffer (`intrinsics.py:47`).

## Modules

One address unit is one word in `Heap`, `DynStack` and `CallFrame` (the code
keeps these addresses multiples of four) and one byte elsewhere.

| Module | Models | State and actions against the code |
|---|---|---|
| `Heap` | runtime heap | `mem` holds headers, links and data together; `EnterTakeFree`, `TakeAdvance`, `TakeSplit`, `TakeWhole` are the loop of `__dyn_heap_take_free`, `Bump` the growth in `malloc`, `FreeAdvance` and `FreeLink` the loop and the merges of `free`, `MallocReturn`, `CallocReturn`, `ReallocInPlace`, `ReallocMove`, `ReallocFailed` the ends of the calls. `Fill` and `StackMove` are the program between calls. `want`, `chain` are auxiliary |
| `Allocator` | what a program may rely on: a partial map from pointers to the owner's data | refined by `Heap` (`ImplementsAllocator`) |
| `Preprocessor` | `dyn_preprocess_project` and below | one action per directive, unit and end of file; `stack` holds the calls of `dyn_process_file` with their groups |
| `Condition`, `Expansion` | `dyn_condition`, `dyn_expand_line` | pure operators, given to `Preprocessor` as parameters |
| `PreprocessorReference` | the meaning C gives: groups as trees, expressions over tokens, tokens that remember the names they came from | nothing of the code |
| `Words`, `Lexer`, `SyntaxTree` | words; `lexer.c`; nodes, `sema.c` and `lower.c` | pure operators; a token is a record, `Skip`, `Punctuator`, ... are the parts of `dyn_lexer_next` |
| `Parser`, `Declarations` | `parser.c`, expressions and then the rest | every operator takes the parser (position, tables, depth, frame, error) to the parser behind what it read, as the functions change `program` and `lexer` |
| `CodeGenerator` | `backend.c` | the same for the emitter: code, fixups, open loops |
| `Execution` | the machine that runs the result | `Machine.step` over records |
| `SelfCompiler` | the compiler at work on a file, then its image at work | `Scan`, `ParseNext` (one external declaration), `EndParse`, `LowerConstant` or `Lower`, `EmitNext` (one function), `Finish` (objects and patches), `Run` (to the next jump) |
| `CReference` | what a program means from its structure; how it is written | nothing of the code: an interpreter of the structure |
| `ParallelMove` | the loop at `backend.py:404-424` (and its twin at `714-734`) | one action per emitted move; `Break` copies a source to flags |
| `CallSequence` | `place_call_arguments` and the fetch of an indirect target; extends `ParallelMove` | one action per instruction emitted, for the three routes: moves, direct loads, staging through the stack |
| `CallFrame` | prologue and epilogue of `Backend.function`; extends `CallSequence` | one action per push, store, move, pop; enters where the caller's sequence jumps, on its stack |
| `RegisterHomes` | homes of `prepare_frame`; a function that runs over them | `FirstUse`, `CrossesCall`, ... translate the choice; `Assign`, `Call`, `Branch` run the list |
| `DynStack` | scopes of `Lowerer.statement`, `stack_alloc` of `Backend.function` | one action per statement kind; `scopes` is both the lowerer's list and the nesting of the running program |
| `Machine` | `Machine.step` and `run` of `machine.py` | `Step`, one arm per instruction class |
| `NativeEmulator` | `native_emulator.c` and the chunk loop of `native.py`; extends `Machine` | `EnterChunk`, one action per executed instruction with the lookup of the next, `sync_state`; refines `Machine` (`MatchesReference`) |
| `ImageLayout` | `Assembler.emit/branch/call/address/relax_controls/finish`, `Backend.build` | an action per emitted item, per control looked at in a pass, per rebuilt image |
| `ProjectBundle` | `DynProjectReader` of `compiler.c`, `decode_project` of `project.py` | pure operators, one per function; the decoder is the frame of counts and lengths (`Framed`) and what it asks of the texts (`Decodes`): zero padding, UTF-8, valid paths in ascending order |
| `SelfHost` | `main` and `dyn_compile_project` | one action per store to persistent memory and per entry read; `PowerCycle` anywhere |
| `*Proofs` | theorems | see [Proofs](#proofs) |
| `MC*` | instances | definitions of programs, disks, projects, opcode maps; the properties that compare with a reference |

Definitions whose comment starts with *Slip* are variations of a neighbouring
definition, each a plausible mistake in the code; `PROJECT.json` pairs every
checked property with one that breaks it.

### Abstractions

- Data is a few values. `Heap` keeps what the program stored because `realloc`
  and the merges could lose it; `CallSequence` and `RegisterHomes` name a
  content after the operand or value it belongs to.
- Widths are scaled, never dropped: `Wrap`, `WORD`, `Modulus`, `WordBits` and
  `RamSize` wrap as 2^32 and the RAM size do. `Machine` scales register numbers,
  bytes and words together, so that two register numbers still share a byte.
  `Words` makes bytes a quarter and immediates half of a word.
- `ParallelMove` takes any safe move where the code takes the first, so it
  covers both places that use the algorithm.
- A file of `Preprocessor` is lines already cut into directive and argument;
  texts are sequences of characters, with the names of the instance as one each.
- `Lexer` to `CodeGenerator` keep every step and abstract storage: a tree is
  nested records instead of node numbers, an instruction a record at the byte
  address its encoding has. The sources are real texts.
- The parser, the emitter, conditions and expansion are parameters of the modules
  that drive them (`Parsed`, `Emitted`, `Evaluate`, `Expand`); the `MC` modules
  give them their definitions.
- `SelfHost` makes preprocessing and `dyn_compile_buffer` one step with any
  result they can return; an image is a length and words that depend on it. Which
  bytes are well-formed UTF-8 is a parameter (`Utf8`); of the four values a byte
  has in `MCSelfHost`, one never is. A
  walk through a null table in the cleanup may be harmless or may end anywhere
  (`wild`); nothing is claimed after it.
- `Heap`'s program obeys the contract: it writes where it owns and frees what
  it got. The stack pointer moves between any of `StackTops` that leave the heap
  in place, as calls and dynamic arrays do.

## Runs

Passing runs (states as found by TLC):

| Run | Shows | Bounds and why they are enough |
|---|---|---|
| `heap` (115 thousand) | the inductive invariant (tiling, list, room for what is asked), blocks apart, nothing lost, neighbours merged, failure only when full, every call returns, refinement of `Allocator` | 12 words of heap, so three minimal blocks; sizes below, at and above a block, one that overflows; two stack tops: split, whole reuse, merges left, right and both, growth, refusal by list, stack and overflow all occur |
| `preprocessor` (397 thousand) | no file read inside itself; conditions, expansion and the whole output are what C says, or refused when C has none or the table or the output is full | 51 thousand projects: every sequence of four group lines and longer chains, every order of table changes with one place too few, three files that include each other, headers under every root, every condition of four characters and every pair of operators, every line of four over macros that name one another; depth three, four-bit words |
| `self_compile` (72 thousand) | what is compiled outputs and returns what the source means, exactly the programs of the language are accepted, every jump of the image lands, objects are apart, compiler and program end | see below |
| `calls` (1.3 million) | arguments arrive whichever route was taken, move lists are simultaneous, flags is free when a cycle must be broken, parameters reach their homes, everything is restored, calls return | the seven argument registers, with `r3` to `r6` as caller homes and two preserved ones: `r3` to `r6` filled from one another in every way, in the caller and in the callee, so that two rings occur and an earlier broken ring may still wait in flags; every call of up to four arguments from homes, slot and constant; up to nine, so two on the stack; callees with every combination of up to four homes, slots and dead parameters, and longer ones (`HomeLists`) |
| `register_homes` (547 thousand) | no value is lost before a branch goes back, none in a preserved home ever | every function of four instructions over three values; one home of each kind, so values compete |
| `dyn_stack` (1.5 million) | arrays are released, apart, above the stack pointer; traps only when needed | four scopes, two loops; three sizes and zero in ten words |
| `native_emulator` (118 thousand) | cache coherence, same instruction as memory, refinement of `Machine`, to its end | every two-instruction program of the family in eight bytes of RAM, loaded at the start and just below the end of the address space; nine steps in chunks of four |
| `image_layout` (232 thousand) | labels follow what they belong to, short forms reach their final targets and are taken wherever they do; relaxation ends | every program of three code items over seven labels, loads that put the limit before, in and after the code, both instruction sets |
| `self_host` (1.8 million) | see below | 2577 disks of 32 words: 161 streams cut or extended, 180 whose texts only the host's decoder minds (every pair of twelve names as the paths of two files, every name as root, definition and contents), requests around a good project, one power failure anywhere (after a first compilation too). The streams of 793 disks are framed like a bundle and those of 623 decode |

`self_compile` runs the whole self-hosted compiler on 1657 sources. They are
families of programs given by their structure (every two binary operators around
each other in both groupings; every operator between operands of every form,
among them operands that write to the other one; every compound assignment;
constant programs; a loop of each kind in a loop of each kind with every jump in
either; blocks in a block that shadow a parameter, an object of the file and each
other in every combination; calls of one to ten parameters with calls among the
arguments; recursion; objects of each width), written with the fewest
parentheses and no blanks or with all of them and comments; twenty programs over
arrays, pointers, structures, strings, statics, enumerations and typedefs with
their results; and 45 texts that must be refused. They are compiled for load
addresses 0, 7 and 300 and for both instruction sets. Words have twelve bits, so
bytes have three, immediates six and addresses reach 4095, which every image fits;
division takes twelve rounds. `ComputesMeaning` is violated by the first wrong
output, whatever follows. The code evaluates the arguments after the seventh first, the last before the
others, which C leaves open; the sources have effects in arguments of one of the two
groups only, so their meaning does not depend on it.

`self_host` checks that a final status always stands over a complete record,
also while a later boot compiles again; that only status, length and output are
stored to, whatever the request; that reading stays inside the project; that
the C reader accepts every bundle that the Python decoder accepts, finds the same
texts, and accepts no stream that is not framed like a bundle;
that requests made by `make_persistent_image` are never refused; and that
compilations report.

Violation runs: `target_arrives`, `loop_homes` and `continue_leak`, see
[What the models found](#what-the-models-found).

Some properties are stated where the code keeps them, and
[What the models found](#what-the-models-found) says where it does not.
`DynStack`'s passing run excludes programs that `continue` from the block that is
a plain loop's body (`DirectContinue`), and sizes beyond the stack pointer;
`RegisterHomes`' passing property stops at the first backward branch for values
in caller homes; `NativeEmulator`'s run is for the Dynphony instruction set;
`SelfHost`'s `HostBundlesRead` does not claim that the compiler takes only bundles,
and its frame leaves out texts of a size near 2^32 (both are `OnlyBundlesCompiled`);
`PlainCondition` and `PlainText` of `MCPreprocessor` name the conditions and
lines that are compared; the sources of `MCSelfCompiler` avoid the constructs
listed there.

Each module with state also has a type invariant or has its states described
where its variables are declared. Where a proof needs it, it is part of the
inductive invariant; the runs spend their properties on the rest.

Deadlock is checked for `SelfCompiler`, which says when it has ended. The other
models are of something that finishes, and it is not checked.

## Fairness

Every liveness property assumes only that the single thread of control goes on:
`WF(Step)` where `Step` is the disjunction of the code's own actions, never of
the environment's. `Heap` does not assume that the program makes calls, `SelfHost`
not that power fails or returns (its failures are bounded by `MaxCuts`, so the
machine is eventually left alone, which is what reporting needs). `SelfCompiler`
writes the weak fairness of its `Next` out, `[]<>Ended \/ []<><<TRUE>>_vars`: some
step other than `Done` is possible until `Ended` holds, and each changes the state,
so either it has ended again and again or steps are taken again and again.
`MatchesReference` includes that a run ends: the reference does by its step limit.

## Proofs

| Theorem | Statement | Argument |
|---|---|---|
| `HeapProofs!Invariance`, with `TypeCorrect`, `BlocksDisjoint`, `FreeListSound`, `RoomForRequest`, `NoWordLost`, `FreeBlocksMerged`, `FailureMeansFull`, `Refinement` | `Spec => []HeapInvariant` and its parts; `NothingLost`, `Coalesced`, `FailsOnlyWhenFull`; `Heap` implements `Allocator` (`ImplementsAllocator`) | `HeapInvariant` adds to the checked properties where the cursors of a walk stand (`CursorsSound`) and what a pending call has in hand (`CallSound`): without them a step in the middle of a walk says nothing about the list. Lemmas on tilings and threaded lists (`TiledAgree`, `RemoveThreaded`, `ReplaceThreaded`, `InsertThreaded`, ...) are stated over sets of blocks, not over the memory's history, and each action's lemma chooses the one that applies. For the refinement every action of the code is a step or a stutter of `Allocator` under the blocks the program holds |
| `HeapProofs!CallsDescend` | a call takes at most `2 * RamWords + 3` steps | each step leaves less of `LeftOfCall`: the memory ahead of the cursor of a walk and, for malloc, the walk of the free that ends a realloc. A walk cannot circle because the list is threaded in address order (`ListSound`), through memory the program may write next to it |
| `CallProofs!MoveInvariance`, `OneSpareRegisterSuffices`, `MovesAreParallel` | reachable values, flags free when a cycle must be broken, a finished list is a parallel assignment | every value still wanted is in its source or in flags; that flags is free follows by counting: when all targets are blocked, each is the source of another, and as many sources as targets leave none for flags |
| `CallProofs!MovesDescend`, `CallsDescend` | every step of a move list, and of a call to its return, leaves less to do | a move read from flags counts one, any other two, since it may have to be broken first; around the lists, the parts of a call in order and what their loops have left |
| `CallProofs!RingsTakeFlags`, `RingsTakeTarget` | what the spare register held is lost exactly by lists with a ring; an indirect call jumps to its target exactly if `MovesInARing` does not hold, and to one of its arguments otherwise | a ring is a set of targets each of which another of them reads; none of its moves is safe until one is broken, so a list without a ring never breaks one, and a list with one cannot end before it has. The counterpart of the run `target_arrives`: which calls it is about |
| `RegisterHomesProofs!HomesInvariance`, `SavedHomesAreSafe`, `CallerHomesAreSafeForward` | `SavedHomesReadBack` always, `ReadsLastWriteForward` until a branch goes back | homes of live values are apart; a value lost from a caller home has a call after a definition of it, which the choice of homes excludes for later uses in list order |
| `NativeEmulatorProofs!NativeTypes`, `NativeCoherence`, `NativeDispatch` | type correctness, `CacheCoherent`, `DispatchesMemory` | the conjunction with "a chunk has steps left" is inductive; the core is that an entry whose bytes a store touches starts at most three bytes before it, modulo the RAM size |
| `NativeEmulatorProofs!EnginesPartAtShortJumps`, `DynphonySamePath` | `SamePath` holds exactly when no taken branch lands one to three bytes after itself on the fixed-width ISA; on Dynphony, always | from the same invariant; the case where a branch lands four bytes on, as falling through does, is modular arithmetic around the end of memory |
| `NativeEmulatorProofs!NativeImplementsReference`, `DynphonyImplementsReference` | `Reference!Spec`: what native execution does is a run of `Machine`, as long as the paths agree, and so for every Dynphony program | each dispatched instruction is the action of `Machine` of its name; entering and leaving a chunk are stutters, except that `sync_state` at the halt address is `Halt`; a conjunct says that a chunk runs only while the machine does, and ends at the halt address only with steps left |
| `PreprocessorProofs!IncludesNeverReenter` | `NeverInsideItself` | the files on the stack are pairwise different and are those marked active; inductive once frames are known to be records with a file, since replacing the innermost frame must keep it |
| `PreprocessorProofs!FilesStayNested`, with `PassedOverCountsForNothing`, `OnlyBalancedFilesEnd` | `StackOK`: every file being read has open as many groups as its lines so far opened and did not close (`Depth`); nothing passed over changes macros, files read once or output; a file that ends is `Balanced` | `StackOK` is inductive once it says that a group in force lies in groups in force only, and that every file but the innermost waits at a line that is read: `#endif` takes the state around a group from its `parent` flag, which is then the right one |
| `PreprocessorProofs!TableStaysWhole`, `LastDefinitionHolds` | `TableOK`: no name twice, no more macros than allocated; a `#define` makes its name stand for it or fails, `#undef` for nothing, and no other line changes either | a definition replaces the entry found, which is the only one; what a name stands for is said of the set of its entries, so that shifting the table on `#undef` does not show |
| `PreprocessorProofs!PreprocessingDescends` | every step leaves less to do: the phases, the list under way, then the lines of each file on the stack from the outermost in | an include opens a file at the end of a stack that is bounded by `MaxDepth`, and makes the one around it shorter, so the order is well-founded however files include one another |
| `DynStackProofs!Invariance`, with `TypeCorrect`, `ArraysStayApart`, `StorageReleased`, `TrapMeansFull` | `ArraysApart`, `ReleasedOnExit`, `TrapsOnlyWhenFull` | the markers and the arrays of the open scopes descend from the frame to the stack pointer without overlap; a statement that leaves scopes restores the marker of the outermost one it leaves, above which nothing of theirs lies. Two hypotheses, each the negation of a behaviour under [What the models found](#what-the-models-found): `RequestsBelowWrap` (no size is larger than the static data, which lies under every stack pointer; `backend.py:794`) and `~DirectContinue` (`ir.py:399`) |
| `SelfHostProofs!Invariance`, with `TypeCorrect`, `StatusKeepsItsPromise`, `ReaderStaysInside`, `OnlyTheOutputIsWritten`, `HostIsAccepted`, `HostBundlesAreRead` | `ReportedIsWhole`, `ReadsInsideProject`, `StoresStayHome`, `HostRequestsAccepted`, `HostBundlesRead` | what is in persistent memory at every store of the compiler, so that power may fail between any two: the project is never written, and a success status follows the whole record. The C reader takes what the Python one takes because both check, entry after entry, that a length fits in what is left, and what the host checks besides only makes it take less |
| `SelfHostProofs!EndsAreReported`, `WhatRunsIsTheImage`, `BootDescends` | a request taken up ends only with a final status stored; what main jumps to is the record's image and all of it; every step of a boot leaves less of it, or the power fails | `BootEnds` adds to the boot's invariant that a copy has so far the first words of the record, which `ReportStatus` has just vouched for, and that a file being read is not counted yet |
| `CallProofs!CallInvariance`, with `CallerDelivers`, `CalleeReceives`, `CallRestores`, `ListsMoveInParallel` | `ArgumentsArrive`, `ParametersArrive`, `Restored`, and `MovesParallel` for the lists of a call | the words of the stack are named from its top down (arguments, link, saved registers, frame pointer, staged word), with the registers that still hold what the caller left and the parameters that are home already; the moves are used through their own invariant; saved registers are told apart by their place in an increasing enumeration |
| `ImageLayoutProofs!ImageInvariance`, with `LabelsReachHome`, `FormsFitTargets`, `ConstantsPatchedInPlace` | what each byte of the image is, `LabelsPointHome`, `ShortWhereItReaches`, and that address constants are written over their own bytes | an unrelaxed image is its controls and the gaps between them; the rebuilt one is their concatenation with every gap moved by what the controls before it save, which is how `Translated` moves labels. A pass without a change has found every size as its target wants it, so the forms copied are those of the final addresses |
| `ImageLayoutProofs!NoSizeGrowsBack`, `AssemblyDescends` | a form chosen short reaches its target ever after, so choices only shrink; every step of the assembler leaves less to do, which ends `relax_controls`' `while True` | shortening moves targets nearer: `Translated` maps any two places to places no further apart (`TargetsComeNearer`). Then a pass that changes something leaves fewer long controls, and one that does not is the last |

They hold for every value of the constants that satisfies the assumptions named
in the modules (`HeapAssumption`, `MoveAssumption`, `HomesAssumption`,
`MachineAssumption`, ...): any RAM size, requests, number of registers, function
length, opcode map, program. Where an assumption says more than a type:

- `FrameAssumption`: the stack has room for one frame, since only dynamic arrays
  check it (`backend.py:794`); no home is the zero register.
- `DisksAssumption`: a disk has the words its control block claims and starts with
  the pending status, as `make_persistent_image` writes it; what is in them is open.
- `CapacityAssumption`, `ProjectAssumption`: the capacities of the macro table are
  natural numbers; files, definitions, roots and lines are sequences, of anything.
- `ProgramsAssumption`: every item of a program has a byte, as a label put on no
  code is one with the label after it, and reservations come last, as `build`
  places them.

Every inductive invariant was first an invariant of a run. Those of the longer
proofs are what a reader should start from: they are stated at the head of each
`*Proofs` module, followed by one lemma per action.

A theorem whose name ends in `Descend` or `Descends` says that a measure, a number
or a tuple compared from the left, falls with every step: no loop of that part goes
on for ever. What is left to TLC in the liveness properties is that the program, as
long as it is not at its end, has a step to take, and takes it (`ENABLED`, `WF_`).

Only model-checked: the liveness properties as such (`Returns`, `CallsReturn`,
`Halts`, `Finishes`, `Reported`), and the liveness half of `MatchesReference`, whose
safety half is `DynphonyImplementsReference`. The safety they rest on is proved:
`CallsDescend` for `CallsReturn` and for `Returns`, `AssemblyDescends` for `Finishes`,
`BootDescends` and `EndsAreReported` for `Reported`.

What `Preprocessor` says against its reference (`ConditionsMeanC`, `ExpansionsMeanC`,
`OutputMeansC`) and everything in `SelfCompiler` (`ComputesMeaning`, `RejectsExactly`,
`JumpsLand`, `ObjectsApart`) compares recursive operators: readers of conditions,
parser, emitter and evaluators. The theorems about `Preprocessor` hold for every
meaning of conditions and expansions instead, and so for these.
Liveness under fairness, inductions over data and recursive operators are outside
what the installed provers can do.

## What the models found

Three runs expect a violation:

| Run | The code | The repository says |
|---|---|---|
| `target_arrives` | the target of an indirect call waits in flags, which the argument moves use to break a cycle (`backend.py:942`, `420`) | the target is preserved (`backend.py:940`, `docs/design.md:61`) |
| `loop_homes` | a caller home is given by list order, so a back edge carries the value past a call (`backend.py:602`) | backedges remain safe (`docs/design.md:56`, `backend.py:546`) |
| `continue_leak` | `continue` in a loop without a marker of its own skips the body's marker (`ir.py:399`) | storage is released on `continue` (`docs/c-language-support.md:70`) |

How far the first goes is proved: `RingsTakeTarget` says of every call whether its
target is lost (those whose arguments are all in registers and move round in a ring, and no other).
The second needs a back edge (`CallerHomesAreSafeForward`), the third a `continue`
from the very block that is a plain loop's body (`StorageReleased`).

The models show the following disagreements too. They have no run of their own;
to see one, give the property to TLC in the place of those of the named
configuration, with the constants mentioned.

| Property, configuration | The code | The repository says |
|---|---|---|
| `ArraysApart`, `DynStack.cfg` with `Sizes = {6, 12}` | a size above the stack pointer wraps to the top of RAM and passes the check (`backend.py:794`) | overflowing allocations trap (`docs/c-language-support.md:132`, `147`) |
| `SamePath`, `NativeEmulator.cfg` with `Symphony = TRUE` | the reference takes a branch one to three bytes ahead for a fall-through (`machine.py:207`) | the engines match (`tests/test_integration.py:118`) |
| `StaticDataAligned`, `ImageLayout.cfg` | padding is computed before relaxation moves the data (`backend.py:1076`) | natural alignment (`README.md:155`) |
| `RequiredSizeReported`, `SelfHost.cfg` | every failure reports length 8 (`compiler.c:144`) | the required size is reported (`selfhost/PROJECT-FORMAT.md:95`) |
| `FailureHasDiagnostic`, `SelfHost.cfg` | the failure record's second word is a position (`compiler.c:147`) | it is the length of a diagnostic (`PROJECT-FORMAT.md:127`) |
| `OnlyBundlesCompiled`, `SelfHost.cfg` | the compiler takes any stream whose counts and lengths fit: with a length near 2^32 (its text counts as empty, `compiler.c:46`), nonzero padding, invalid, duplicate or unsorted paths, malformed UTF-8 (`compiler.c:357`) | padding is zero, and such paths, texts and lengths are errors (`selfhost/PROJECT-FORMAT.md:31-34`, `60-61`), which `project.py` refuses |
| `AlwaysReported`, `SelfHost.cfg` | the cleanup walks a table calloc refused (`compiler.c:86`) | the final status is written last (`PROJECT-FORMAT.md:93`) |

Nothing that is a bundle suffers from `OnlyBundlesCompiled`: `HostBundlesAreRead`
proves that the compiler reads all of those as the host does. Both ask less than the
format in one place: `a//b` and `./a`, not normalized, are decoded by the host, which
makes them `a/b` and `a`, while the compiler keeps the bytes.

`ComputesMeaning` and `RejectsExactly` fail on the following sources of the
self-hosted compiler, so `MCSelfCompiler` leaves them out (to see one, add the text
to `ObjectPrograms` or `Rejected`). `selfhost/C-SUPPORT.md` documents that casts do
not narrow, that comparisons are unsigned and that expressions nested too deep are
refused; those are not counted.

| Source | What happens |
|---|---|
| `struct S{int x;}; struct S *p; int main(void){return p->x;}` | `dyn_contains_call` visits the arrow flag of a member as a node number (`backend.c:242`); when that is one of the file's first two nodes around the same member it never returns, and neither does `SearchCall` find an end |
| a static local named like an object of the file | it is entered in the table of the file's objects, which later uses find first, though `C-SUPPORT.md:64` says independent (`parser.c:1456`) |
| a static local array of two dimensions | the inner dimension alone is reserved, so the next object overlaps it (`parser.c:1504`; `C-SUPPORT.md:64`, `105`) |
| `++` on a `_Bool` holding 1 | yields 2: no conversion on increments (`parser.c:603`) |
| `*(p+1)`, `*p++` with `char *p` | load a whole word; `p[1]` loads a byte |
| `*f() += 1` | the place is evaluated twice (`parser.c:1299`) |
| a subscripted cast pointer, `p - t` of pointers to twelve-byte structures deep in an expression, `*(int *)16` | an element size from elsewhere, or refused |
| `"\0"` in a string | the digit, since strings have their own escapes (`parser.c:367`) |
| `sizeof a` of a local array of fixed size | the element's size |
| two `for (int i ...)` in one block; `int a[]` as a parameter; `typedef struct N Node;` before the definition; `k++` on an object of the file; an empty statement | refused |
| `char s[] = "..."` locals | zeros |
| `jE`, `eN`, `ioS` as names | keywords: only a key of the spelling is compared (`lexer.c:34`) |
| `08` | two tokens |
| `1 / 0` | refused when constant, 0 when computed (`README.md:249`) |

And the preprocessor, against the C rules (`PlainCondition`, `PlainText` and the
projects of `MCPreprocessor` leave these out). In conditions: a macro's value is
computed on its own (`#define A 1+1`, `A*2`), a macro that names itself adds up to
the depth limit, `1++1` is accepted, function-like macros are not expanded, and a
division by zero is an error even where `&&` or `||` would not reach it. In lines:
comments are not removed, so an apostrophe in one stops expansion; commas and
parentheses inside literals count; an invocation must end on its line; function-like
macros in a replacement or in their own argument, and an object-like replacement
together with what follows it, are not scanned again; pasted texts can join into one
token (`-E` with `E` as `-1`); letters after digits are a macro's name. In
directives: blanks after the name of `#ifdef` and `#undef` belong to the name, a
trailing comma in a parameter list is accepted, `F( )` does not match zero parameters,
`#define` alone is ignored, and a nameless function-like `#define` writes before the
table.

## What is not modelled

- Python preprocessor and C front end (the language of the self-hosted ones, with a
  tree and types of its own), middle end, leaf register allocator, software
  arithmetic and legalization, printf.
- Instruction encodings, command line, packer, build scripts, the GCC port: pure
  input and output, or tables.
- Within modelled parts: the self-hosted intrinsics besides `input` and `output`
  (keyboard, time, screen, persistent storage, heap limits, `jump`), the capacities
  of its tables and of its output; in the emulators keyboard, screen and time
  instructions (the shape of others that are modelled), the arithmetic codes besides
  add, sub and cmp, failures inside the Python C API; PIC images, widths of parameters
  and the encoding of large offsets, the image layout's final size
  checks, the `Project` the decoder returns (paths in normal form; only their order
  is modelled).

## Plan

Done: runtime heap, call sequence with its callee, homes, dynamic stack, emulators,
layout, self-host protocol, preprocessor, and the self-hosted compiler from text to
the run of its image, with the proofs above: every safety property of a passing run
that does not compare recursive operators is a theorem (two of the dynamic stack under
the hypotheses named above), and of the loops of heap,
calls, assembler, boot and preprocessor it is proved that they end.

Next, in this order:

1. Middle end: blocks and edges, constant propagation and the other rewriting passes
   against an interpreter of the intermediate code over every small function;
   inlining and tail calls; the fixed-point manager.
2. Capacities: the tables of the self-hosted compiler and its output at their limits,
   as `Preprocessor` has them.
3. Software arithmetic over a small word; the text screen's cursor and buffer; the
   leaf register allocator (`backend.py:41-262`) on top of `RegisterHomes`' idea of a
   file; the Python front end against `CReference`.
