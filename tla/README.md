# A verification project for the 64-bit RISC-V emulator

TLA+ modules for the emulator's own logic, TLC configurations that check them
on small instances, and TLAPS proofs of the properties that matter most. Paths
and lines refer to the repository; `PROJECT.json` maps every definition to the
lines it stands for.

    tlc -config EmulatorInvariants.cfg MCEmulator.tla     # any run of PROJECT.json
    tlapm EmulatorProofs.tla                           # any module of proofs

## 1. The system

One process, one thread. SDL calls `SDL_AppInit` once, then `SDL_AppIterate`
once per frame and `SDL_AppEvent` for every input event, and `SDL_AppQuit` at
the end (`main.cpp`). All state lives in one `App`.

| Component | State | Operations | Talks to |
|---|---|---|---|
| App (`app.cpp`, `main.cpp`) | options, emulator, main thread, renderer, framebuffer span, key queue | constructor, `tick`, `handleKey`, the four callbacks | everything below |
| Options (`options.cpp`) | none | `parse` | argparse |
| Renderer (`renderer.cpp`) | window, renderer, texture | constructor, destructor, `presentEmptyFrame`, `presentFramebuffer` | SDL |
| ELF loader (`elf.cpp`) | none across calls | `loadElf`: header, segment headers, sort, validate, map data, map code | Arena, decoder, `setInstructions` |
| Arena (`arena.hpp`) | `storage`, `freeSpace` | `allocate` (object, array), `getFreeOffset`, `getFreeOffsetAlignedTo` | `std::align` |
| Decoder (`instruction.cpp`) | none across calls | `decodeInstructions`, one function per opcode class | bit and byte utilities |
| Utilities (`bits.hpp`, `memory.hpp`) | none | bit fields, sign extension, little-endian loads and stores | |
| Execution loop (`emulator.cpp`, `base.hpp`) | `Thread`: registers, program counter, cycle counter; `Emulator`: instructions | `run`, `setInstructions` | called by `App::tick` |
| Float CSR (`base.cpp`) | rounding mode, exception flags | four accessors | no caller yet |
| System calls (`emulator.hpp`, `app.cpp`) | map of handlers | register, unregister, perform | no caller yet |

What makes the code hard although it is sequential:

* the guest program is arbitrary, so register values, jumps and their order
  are; the program counter is a byte pointer that is divided by 4 on use;
* all arithmetic is modulo 2^64, with `int32_t` operands sign-extended into it;
* the loop's `continue` and `break` both run the increment of its `for`;
* `std::align` updates `freeSpace` through a reference, and padding depends on
  the address of the storage;
* the decoder has about 160 labels over nested bit fields;
* start-up can fail in many places, after some resources have been taken;
* `run()` is called on the thread that also handles events, every frame, also
  after the guest has finished or while it loops.

What each part has to satisfy:

* *Execution loop*: behaves as a RISC-V hart; never executes from the middle
  of an instruction; gives control back for programs that end.
* *Arena*: objects lie in the storage, aligned, apart from each other and
  before the free offset; throws exactly if there is no room; announces the
  offset it will give.
* *Decoder*: every RV64G word becomes its instruction with its fields, at its
  place; nothing else is accepted; failures are exceptions a caller can catch.
* *ELF loader*: what it accepts is copied within the bounds of the file, the
  arena and the code buffer; segments do not overlap.
* *App*: no callback works on an application that was not built; what is
  released and what is reported agree; the frame is read from the framebuffer;
  the recorded keys say which keys are down; a request to quit is served.

`PROJECT.json` lists the hazards line by line, with the properties that cover
them and, for those not covered, why.

## 2. Modules

| Module | Models |
|---|---|
| `Emulator` | `Emulator::run`, `Thread`, `RegisterFile`, the calls of `App::tick` |
| `Rv64Control` | abstract: the control flow of RV64 as the ISA describes it |
| `EmulatorProperties` | properties of `Emulator`; the refinement mappings to `Rv64Control` |
| `MCEmulator` | small programs for TLC |
| `EmulatorProofs` | TLAPS proofs about `Emulator` |
| `Arena` | `arena.hpp` and its properties |
| `MCArena`, `ArenaProofs` | instance for TLC; TLAPS proofs |
| `MachineWords` | `bits.hpp` and `memory.hpp`: a word is the set of its 1 bits |
| `Decoder` | `instruction.cpp` |
| `Rv64gEncoding` | reference: the instruction listing and the immediate formats of the ISA |
| `DecoderProperties`, `MCDecoder` | properties of `Decoder`; words and programs for TLC |
| `DecoderProofs` | TLAPS proofs about `Decoder`: the loop, the immediates of jumps |
| `EncodingProofs`, `ListingProofs` | TLAPS proofs that compare `Decoder` with `Rv64gEncoding`: fields and immediates; the instructions |
| `ElfLoader` | `elf.cpp`; instantiates `Arena` for the guest memory |
| `ElfImage` | abstract: which files are accepted and where every byte comes from, over sets of segments and addresses |
| `ElfLoaderProperties`, `MCElfLoader` | properties of `ElfLoader` and the mapping to `ElfImage`; files for TLC |
| `ElfLoaderProofs`, `ElfMappingProofs` | TLAPS proofs about `ElfLoader`: reading and validating; mapping and the refinement |
| `App` | `main.cpp`, `app.cpp`, `options.cpp`, `renderer.cpp`; instantiates `Arena` for the guest memory |
| `AppProperties`, `MCApp` | properties of `App`; command lines and files for TLC |
| `AppProofs` | TLAPS proofs about `App` |

The parts meet as in the code. `ElfLoader` and `App` take guest memory with the
actions of `Arena`. What `Emulator` assumes of the instructions is what
`DecoderProofs` proves of the decoder. `App` knows `loadElf` by its requests to
the arena and by how it ends (loaded, rejected, aborted by a pointer, or
undefined for a file whose 64-bit sums wrap), which `ElfLoader` details, and
`run()` by how it ends, which `Emulator` details.

### Emulator

| Model | Code |
|---|---|
| `registers`, `programCounter`, `cycleCounter` | members of `Thread` (`base.hpp:123-164`) |
| `instructions` | `Emulator::instructions` |
| `phase` | where the host thread is: before `setInstructions`, between calls of `run`, inside, or after it has thrown |
| `ExecuteLUI` ... `ExecuteBranch`, `ThrowUnsupported` | one iteration: cycle counter, fetch, one label of the switch, the increment of the `for` |
| `ReturnFromRun` | the condition of the `for` is false |
| `SetInstructions` | the loader's call, once |
| `CallRun` | `App::tick`; the thread keeps its state |

An iteration is one step: nothing else runs on the thread or writes to it.
`Modulus` stands for 2^64. Registers are numbers; `Wrap` adds or takes off one
modulus, which is enough because one operand of every sum is an `int32_t` or 4
(that this is so is what `TypeCorrect` proves). The types `run` does not
execute yet are one value, `OTHER`. Programs are arbitrary sequences of
instructions whose B- and J-immediates are even, as the decoder makes them
(`ProgramsAssumption`; proved of the decoder as `OffsetsAreEven`).

`Rv64Control` is the abstract specification: each instruction has an effect on
`x` and `pc` that is stated as a function of the state before it, and a hart
stops outside the program or at an instruction it does not support. It is
instantiated twice: on the program itself (`ImplementsIsa`, which the code
violates: a taken jump lands 4 bytes late) and on the *relocated* program, all
of whose jumps are 4 bytes longer (`ImplementsRelocatedIsa`, which it
satisfies). So the refinement states exactly what the loop computes.

### Arena

`blocks` is a history of what callers were given. `StorageAddress` is where
the vector happens to be: `std::vector<uint8_t>` promises no alignment, so the
instance uses an odd one; with the allocators of today's desktop systems the
storage is 16-aligned and no allocation pads. `std::align` is modelled from
its contract: it takes the padding, and *not* the object, from the space. That
`freeSpace` therefore never accounts for objects is the content of the run
`ArenaOverlap`; all other properties of the arena hold and are stated so that
they remain right when the subtraction is added.

### Decoder

Each `decodeX` is the function of that name as an operator from the word to an
instruction or an exception; its labels are tables. `decodeInstructions` is a
state machine with the loop variable, the vector and the outcome. Its programs
are arbitrary sequences of bytes (`ProgramsAssumption`). The union of
`immediate` and `floatOp` is one word. Error texts are left out.

`Rv64gEncoding` does not come from the code: it is the listing of the ISA in
its own terms (per instruction a format and the fixed bits; per immediate
format the source of every bit), so that the comparison means something. The
places where the decoder differs from it are named in `DecoderProperties`
(`Misplaced`, `WithoutCsrNumber`, `UntestedBits`), each with its lines; outside
of them the two agree. `DecoderSquareRoot` and `DecoderCsr` show the first two;
the third is what `OnlyUntestedBitsIgnored` allows for reserved words.

### ElfLoader

| Model | Code |
|---|---|
| `file` | the bytes of the executable: the fields of its header, its size and its table of segments |
| `phase`, `next` | the function of `elf.cpp` that is being executed and the variable of its loop |
| `dataHeaders`, `codeHeaders` | the two vectors, as indices of the table |
| `memory`, `freeSpace`, `blocks`, `thrown` | the guest memory, through `Arena` |
| `codeMemory`, `instructions` | the local vector of the code, and what the emulator is given |
| `ReadElfHeader` ... `SetDecodedInstructions` | one step per function, and one per iteration of its loop |

A byte is known by its origin, the position of the file it was copied from;
`Zero` is a byte that was only cleared. So the model tells apart every wrong
copy without any content. All sums wrap at `SizeModulus`; the code subtracts
nothing. The magic numbers of the header are one Boolean. A read
or copy outside its buffer leads to the phase `undefined`. `std::sort` may give
any order that is sorted by start address, since the sort is not stable.

`ElfImage` says what loading means with sets alone: the files that are
well-formed (segments in the file, pairwise apart, code without gaps from
address 0), and the origin of every byte of the guest. `ImplementsElfImage`
maps the loader to it: nothing happens until `loadElf` ends, and then it has
accepted exactly the well-formed files, with exactly that image. A rejected
file leaves the guest memory as it was, unless the instructions themselves are
rejected (`RejectCode`). For files whose sums exceed 64 bits the abstract
specification promises nothing, and TLC does reach `undefined` there.

### App

| Model | Code |
|---|---|
| `phase` | the statement of `SDL_AppInit`, `SDL_AppIterate` or `SDL_AppQuit` that comes next; `dispatch` is SDL's own loop |
| `options`, `framebuffer`, `keyEvents` | members of `App` |
| `handles` | window, renderer, texture: created and not destroyed |
| `freeSpace`, `blocks`, `thrown` | `emulator.memory`, through `Arena` |
| `program` | the file, reduced to the size of its data and what becomes of its code |
| `app` | whether the global `unique_ptr` holds an `App` |
| `error`, `result` | the exception that was reported; the `SDL_AppResult` of the latest callback |
| `events`, `held`, `posted` | SDL (external): its queue, the keys that are down, the number of events so far |
| `quitTaken` | SDL (external): whether it has given a request to quit to `SDL_AppEvent`, whatever that returned |

The start is one step per thing that may fail. `ParseOptions` has the two
checks and the product in `size_t`, which wraps: 2^54 KiB pass the check for
zero and give an emulator without memory. That is harmless further on, as
`CallbacksDefined` shows (the framebuffer then finds no room). `CreateWindow`,
`CreateRenderer` and `CreateTexture` are the constructor of `Renderer`; if one
throws, its destructor does not run, so `UnwindStart` keeps the handles.
`FramebufferReadable` is what `SDL_UpdateTexture` reads with the `int` pitch of
`presentFramebuffer`. The exception that is a pointer (`instruction.cpp:913`)
passes the handler and aborts. A file of code `wraps` is one of those whose
sums exceed 64 bits: any ending of `loadElf` may become of it, and
`LoadOutOfBounds` is the undefined one. `CallbacksDefined` is about the
callbacks and SDL, so it does not exclude that phase.

## 3. Runs

| Run | Shows | Bounds |
|---|---|---|
| `EmulatorInvariants` | `TypeOK`, `PcEven`, `PcAligned`, `RegistersAligned`, `RunTimeBounded`, `ForwardProgramsReturn` | all programs of up to 2 instructions over 29 with aligned immediates and over 30 with odd ones; up to 3 over 10 without JALR |
| `EmulatorRefinement` | `ImplementsRelocatedIsa` | up to 2 over the aligned ones that keep their base, up to 3 over 14 |
| `EmulatorJumpTarget` | violated `ImplementsIsa`: README.md:4 "full RV64G architecture" | up to 3 JALs |
| `EmulatorJalrBase` | violated `JalrUsesOldBase`: README.md:4 | up to 2 LUI or JALR |
| `ArenaAllocation` | `TypeOK`, `BlocksUsable`, `ThrowsOnlyWhenFull`, `AnnouncedOffsetKept`, `FreeOffsetMonotone` | 6 types, 4 counts, 4 allocations, 43 bytes at address 3 |
| `ArenaOverlap` | violated `AllocatedBeforeFree`: arena.hpp:34, emulator.hpp:36 | 2 allocations |
| `DecoderRv64g` | `TypeOK`, `Rv64gDecoded`, `Rv64gAccepted`, `OnlyUntestedBitsIgnored`, `OffsetsEven` | about 4500 programs |
| `ElfLoading` | `TypeOK`, `LoadingDefined`, `NothingTakenFromBadFiles`, `BytesLoadedOnce`, `ImplementsElfImage`, `LoadingEnds` | every arrangement of up to 3 data segments over 12 places, of up to 3 code segments over 9, and about 130 files at the edges of the checks; 7 bytes of guest memory, sums modulo 1024 |
| `AppLifecycle` | `TypeOK`, `CallbacksDefined`, `KeyboardReplayed`, `EndsConsistently`, `QuitEndsProcess` | 5 memory sizes, 7 framebuffer sizes, 8 programs, 3 keys, 4 events; `int` of 8 bits, `size_t` of 16 |
| `DecoderSquareRoot` | violated `AllRv64gDecoded`: README.md:17, instruction.hpp:33 "This contains all RV64G instructions" | the words of the label of FDIV |
| `DecoderCsr` | violated `CsrNumberKept`: README.md:17 | Zicsr words |
| `DecoderThrowNew` | violated `ExceptionsCatchable`: main.cpp:25-28 | move and classify words |

Why the bounds are enough. *Emulator*: with `Modulus = 32` every sum the code
forms wraps in both directions, the four comparison labels can be told apart
(-8 against 8), jumps go backward, forward, out of the program at both ends and
wrap back in, and two instructions suffice to build a base and jump through it;
the third lets a jump skip something and a link be used. The cycle counter
wraps at `Modulus`, so the state space is finite without another bound. The
invariants are proved for all values; the runs are there to find mistakes
early. *Arena*: 43 bytes at address 3 make padding and size compete for the
last bytes for every alignment up to 16. `MaxBlocks` is the only bound of the
model; all properties of the arena are proved for every value of it.
*Decoder*: the words vary the opcode, funct3, funct7 and rs2 over the values
that labels test and their neighbours, and additionally every single bit of
every opcode, so each bit of each immediate moves alone; programs of up to
three words and cut-off words cover the loop.

*ElfLoader*: three segments are the fewest for which comparing neighbours could
differ from comparing all (one over two others); the places make segments
touch, overlap by one byte, start together, be empty, contain each other and
end at or behind the end of memory. The other files put each number of a
two-segment file just below, at and above its check and its overflow. *App*:
the widths are small enough for the products of the command line to wrap
(16 x 17 pixels in a product of `int` width, 64 and 65 KiB in `size_t`) while
textures stay below them, as SDL's are below a gigabyte. Four events are enough
for a press, a repeat, a release and a request to quit in any order;
`MaxEvents` is the only bound of the model, and the theorems hold for every
value of it.

Deadlock is not checked in any run: `run()` may have thrown, and
`decodeInstructions`, `loadElf` and the process end; in `Arena` the bound ends
the run.

*Fairness.* `Emulator`'s `FairSpec` assumes weak fairness of `RunStep` alone:
`run()` is straight-line host code without blocking calls, so once inside it
takes its next step. Nothing is assumed about `CallRun` (SDL may stop calling)
or about the loader. `ElfLoader`'s assumes it of `Next`: `loadElf` does not
wait for anything. `App`'s assumes it of `Callbacks`: SDL calls them in a loop.
Nobody is assumed to press a key or to close the window, and `run()` may also
never return (`RunNeverReturns`), in which case a request to quit is not
served; `QuitEndsProcess` says that this is the only case.

## 4. Proofs

`EmulatorProofs`, for every modulus that is a multiple of 4 and larger than two
immediates, every number of registers and every set of decoded programs:

* `TypeCorrect`: `Spec => []TypeOK`. `TypeOK` is inductive. The content is that
  `Wrap`, which adds or subtracts the modulus at most once, always lands in
  the range of a register (lemmas on `Wrap`, `NextProgramCounter`,
  `SetRegister`).
* `ProgramCounterEven`: `Spec => []PcEven`. Needs `TypeOK` and, for odd values
  in registers, that `ClearLowestBit` is applied after the addition; for
  branches and JAL, the assumption that offsets are even.
* `AlignmentKept`: `Spec => [](PcAligned /\ RegistersAligned)`. `PcAligned` is
  not inductive: JALR takes its target from a register. `RegistersAligned` is
  the strengthening: LUI, AUIPC and the links only ever put multiples of 4 into
  registers, because the modulus is one. Both speak of the program that is
  loaded, so the invariant also says that none is before `setInstructions`.
* `RunRefinesRelocatedIsa`: `Spec => ImplementsRelocatedIsa`, assuming
  `AlignedPrograms` and `BaseKeptPrograms`. One step of the proof per action:
  each iteration maps to one abstract instruction, `CallRun` to the abstract
  resumption. It uses alignment for the index of the fetched instruction (the
  ISA fetches at the counter itself, the code divides by 4).
* `RunTime`: `Spec => []RunTimeBounded`, assuming that the programs are short
  enough for forward jumps not to wrap (`ProgramsFit`). The invariant
  `CyclesPaid` says that the cycles spent never exceed the instructions the
  counter has passed. `ForwardOnly` asks for jumps of at least one instruction:
  a jump to itself ends in today's code only because jumps land 4 bytes late,
  and the property is to remain right when they no longer do.

`ArenaProofs`, for every capacity, storage address and set of types with the
alignments of fundamental types:

* `BlocksStayUsable`: `Spec => [](TypeOK /\ BlocksUsable)`. The lemmas say that
  padding is less than the alignment and makes the address a multiple of it.
* `ThrowsExactlyWhenFull`: `Spec => ThrowsOnlyWhenFull`; it needs that no
  aligned offset lies between the free offset and the padded one.
* `AnnouncementKept`: `Spec => AnnouncedOffsetKept`, and
  `FreeOffsetMovesForward`: `Spec => FreeOffsetMonotone`; both follow from
  `TypeOK` and the lemmas on padding.

`ArenaTypeCorrect` is the type invariant by itself, and `RegistersStayAligned`
(in `EmulatorProofs`) the second half of `AlignmentKept`.

`DecoderProofs`, for every set of byte sequences:

* `DecodingInvariant`: `Spec => []DecodingInv`: the offset is four times the
  length of the vector, and each instruction is what its word means.
* `OffsetsAreEven`: `Spec => []OffsetsEven`, from it and `DecodedFine`, which
  goes through the functions of the decoder one by one: each of them throws,
  gives a type that is no jump and no U-type, or takes the immediate from one
  of the three functions that clear the low bits. This discharges
  `ProgramsAssumption` of `Emulator`.

`ListingProofs`, for every set of byte sequences. TLC decodes about 4500
programs; these theorems are about all 2^32 words, at any place of any program:

* `ListedIsDecoded`: `Spec => []Rv64gDecoded`, and `ListedIsAccepted`:
  `Spec => []Rv64gAccepted`. Both rest on the lemma `ListedDecoded`: a word that
  matches a row of the listing is decoded as the row means, or the row is one
  of the misplaced ones. `EncodingProofs` supplies the ground: a field of fixed
  value in the listing holds exactly if the accessor of that field returns the
  value (`FieldValue` and its instances; a number of 7 bits is determined by
  its bits), and each immediate put together with shifts has, bit by bit, the
  source the ISA's figure gives it (`FormatImmediates`, `FlagImmediates`,
  `ShiftImmediates`). On it, the rows are identified with the labels of the
  switches (`BaseRows`, `FloatRows`, ...), `decodeInstruction` is evaluated
  opcode by opcode (`LoadSwitch` ... `FloatDecoded`), and each kind of row is
  compared (`IRowAgrees` ... `DivisionRowAgrees`).
* `UnlistedIsUntested`: `Spec => []OnlyUntestedBitsIgnored`, the other
  direction: `AcceptedKnown` goes through the labels and finds the row of each
  in the listing, for the word itself or for the word without the bits that are
  not tested (`MaskedFields`, `TestedBits`).
* `DecoderTypes`: `Spec => []TypeOK`. That the offset does not pass the end of
  the program needs that only programs of whole words are decoded
  (`OffsetInv`); the types of the fields follow from the same evaluation of
  `decodeInstruction`.

All three invariants are consequences of `DecodingInv`; `Rv64gAccepted`, which
speaks of the word that was rejected, needs `RejectedInv` beside it: what was
thrown is what `decodeInstruction` throws at the current word.

`ElfLoaderProofs` and `ElfMappingProofs`, for every set of files, every width
of `size_t`, every size and address of the guest memory (also the size 0 that
`options.cpp:46` gives for 2^54 KiB); what they say of what is loaded is about
the files whose sums fit:

* `LoaderTypeCorrect`: `Spec => []TypeOK`.
* `LoadingIsDefined`, `BadFilesTakeNothing`, `NoByteLoadedTwice`: the two
  invariants and the action property of the run.
* `LoaderImplementsImage`: `Spec => ImplementsElfImage`.

All but the first rest on one inductive invariant, `LoaderInv`: if the sums of
the file fit, then `Established` says, phase by phase, what has been validated
so far (`HeadersEstablished`: every entry before `next` is in the file and in
its vector exactly once; `DataEstablished`, `CodeEstablished`: the vector is
sorted and its neighbours are apart or touch up to `next`) and what has been
copied (`MappingEstablished`: the origin of every byte of the segments before
`next`, zero elsewhere). The step from neighbours to all pairs, and from
touching neighbours to no gap, is an induction over the loop, so it is carried
by the invariant and needs no induction over data.

`AppProofs`, for all widths of `int` and `size_t` that `WidthsAssumption`
admits, all command lines, files, keys and numbers of events:

* `AppTypeCorrect`, `CallbacksAreDefined`, `KeyboardIsReplayed`,
  `ProcessEndsConsistently`: the four invariants of the run. The last says that
  the process reports success exactly if a request to quit was taken.

They follow from `AppInvariant`: their conjunction with `Established`, which
ties the phase to what exists in it (the options are positive behind `parse`,
the span has as many pixels as the window and lies in the guest memory behind
`framebuffer`, an `App` exists in the loop and nowhere before it, no request to
quit has been taken in either) and `error` to the handles that are left. That
the products do not wrap is `PixelsFit`.
`KeyboardReplayed` is inductive beside the types: taking an event moves it from
the queue to the vector without changing the history, and posting one changes
both the history and `held`.

Assumptions are named where the constants are declared and evaluated by TLC on
the runs of their modules: `ModulusAssumption`, `RegisterCountAssumption`,
`ProgramsAssumption` (one of `Emulator`, one of `Decoder`), `StorageAssumption`, `ItemTypesAssumption`,
`CountsAssumption`, `SizesAssumption`, `FilesAssumption`, `WidthsAssumption`,
`ArgumentsAssumption`, `SDLAssumption`.

Every invariant, action property and refinement of the passing runs is a
theorem. Only model-checked: `ForwardProgramsReturn`, `LoadingEnds` and
`QuitEndsProcess` (liveness under fairness is outside what TLAPS supports
here). Nothing proves the listing itself: `Rv64gEncoding` is the reference, and
a mistake in it would show as a disagreement with the code. The violated
properties are counterexamples, not theorems.

## 5. Not modelled

* argparse, SDL and the drawing itself, reading the file (pure I/O); the
  guest's own runtime and the build files; `getTime` (a clock read nobody
  uses). The unit tests were read as evidence.
* The table of system call handlers (`emulator.hpp:129-160`) and the four
  accessors of the float control and status register (`base.cpp`): no code of
  the repository calls them (`app.cpp:71` is a TODO), so there is no behaviour
  of the program to model. Two things are worth knowing before somebody does:
  the guard of `registerCustomSyscallHandler` (133) rejects the numbers its
  documentation (129-130) asks for, and `performCustomSyscall` (158) drops the
  status that is meant to interrupt `run()` (17-23).
* Float registers, loads, stores and arithmetic of the guest: `run()` throws at
  them (`ThrowUnsupported`).
* `setBit`, which only the accessors of `base.cpp` call, and the stores of
  `memory.hpp`, which nothing calls.
* The contents of the framebuffer: no store of the guest is executed yet. That
  allocating it clears loaded data is a consequence of the overlap that
  `ArenaOverlap` shows.

When the code grows, the models that have to grow with it are `Emulator` (the
labels of `run()` that follow `emulator.cpp:99`, system calls among them),
`App` (`ReadKey` drains `keyEvents`; `PresentFrame`), and a module for the
table of handlers.
