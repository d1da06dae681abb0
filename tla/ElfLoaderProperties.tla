------------------------ MODULE ElfLoaderProperties ------------------------
(***************************************************************************)
(* What loadElf guarantees.                                                *)
(***************************************************************************)
EXTENDS ElfLoader

(***************************************************************************)
(* The meaning of the file; what loadElf has written shows when it ends.   *)
(***************************************************************************)
Ended == phase \in {"loaded", "rejected", "undefined"}

Image == INSTANCE ElfImage
           WITH outcome <- IF Ended THEN phase ELSE "loading",
                memory <- IF Ended THEN memory ELSE [a \in DOMAIN memory |-> Zero],
                code <- instructions

LoopLength ==
  IF phase = "segments" THEN Len(file.segments)
  ELSE IF phase \in {"dataOverlap", "copyData"} THEN Len(dataHeaders)
  ELSE IF phase \in {"codeContiguous", "copyCode"} THEN Len(codeHeaders)
  ELSE 0

\* Types of loadElf's state; no loop variable leaves its range
\* (elf.cpp:134, 173, 198, 210).
TypeOK ==
  /\ file \in ElfFile /\ Len(file.segments) * EntrySize < SizeModulus
  /\ phase \in Phases
  /\ next \in Nat \ {0}
  /\ phase \notin {"rejected", "undefined"} => next =< LoopLength + 1
  /\ dataHeaders \in Seq(DOMAIN file.segments)
  /\ codeHeaders \in Seq(DOMAIN file.segments)
  /\ Memory!TypeOK
  /\ memory \in [0 .. MemorySize - 1 -> Int]

\* loadElf reads its headers and copies its segments within the file, the
\* guest memory and the code buffer (elf.cpp:110-120, 206-218), whatever the
\* order, the gaps and the sizes of the segments are, if no sum of the file's
\* numbers exceeds 64 bits: the validated neighbours bound every segment.
LoadingDefined == Image!SumsFit(file) => phase # "undefined"

\* Until every header has been validated (elf.cpp:265-271), the emulator is
\* as it was: no guest memory is taken, and the instructions are only set
\* when all of the data is in memory.
NothingTakenFromBadFiles ==
  Image!SumsFit(file) =>
    /\ blocks # << >> => Image!WellFormed(file)
    /\ instructions # << >> => memory = Image!MemoryImage(file)

\* No byte of the guest is loaded twice (elf.cpp:206-218): what one segment
\* has brought is not overwritten by another one, although validation only
\* compares neighbours in the order of their start addresses.
BytesLoadedOnce ==
  [][Image!SumsFit(file) =>
       /\ \A a \in DOMAIN memory : memory[a] # Zero => memory'[a] = memory[a]
       /\ \A a \in DOMAIN codeMemory :
            codeMemory[a] # Zero => codeMemory'[a] = codeMemory[a]]_vars

\* loadElf implements the image: it accepts exactly the files whose segments
\* are in the file, apart from each other and, for code, without gaps; every
\* byte of the guest has the origin the headers give it; a file that is
\* rejected for its headers leaves the guest memory untouched.
ImplementsElfImage == Image!Spec

\* Every call of loadElf ends: it returns or throws.
LoadingEnds == <>Ended
=============================================================================
