----------------------------- MODULE ElfLoader -----------------------------
(***************************************************************************)
(* loadElf (src/riscv/elf.cpp): one call, for a program that has not been  *)
(* loaded before and an emulator that was just constructed, as App::App    *)
(* calls it (app.cpp:51-57).                                               *)
(*                                                                         *)
(* The vectors of headers hold the indices of the program header table the *)
(* headers were read from.  Every loop that changes state, or whose checks *)
(* compare neighbours, is one step per iteration; `next' is its variable,  *)
(* counted from 1.  The bytes of the file, the guest memory and the code   *)
(* buffer are known by their origin (see ElfImage).                        *)
(***************************************************************************)
EXTENDS Integers, Sequences, Functions

CONSTANTS
  Files,           \* contents of executable files
  MemorySize,      \* bytes of guest memory, Arena's Capacity
  StorageAddress,  \* where the vector of the arena is
  SizeModulus      \* 2^64, the number of values of size_t

ElfHeaderSize == 64
EntrySize == 56
FieldsSize == 48     \* SegmentHeader::read looks at this much of an entry
Zero == -1

Size == 0 .. SizeModulus - 1

SegmentHeader ==
  [load : BOOLEAN,          \* type == typeLoad
   executable : BOOLEAN,    \* flags & flagExecutable
   sourceStart : Size, destinationStart : Size,
   sourceSize : Size, destinationSize : Size]

ElfFile ==
  [size : Size,
   identified : BOOLEAN,    \* the fields from magic to programHeaderEntrySize
                            \* are the ones validate() asks for
   entry : Size,
   tableOffset : Size,                \* programHeaderOffset
   segments : Seq(SegmentHeader)]     \* as many as programHeaderEntryCount

ASSUME SizesAssumption ==
  /\ SizeModulus \in Nat /\ MemorySize \in Size /\ StorageAddress \in Nat
  /\ ElfHeaderSize < SizeModulus

\* The entry count is 16 bits wide: the size of the table does not wrap.
ASSUME FilesAssumption ==
  \A f \in Files : f \in ElfFile /\ Len(f.segments) * EntrySize < SizeModulus

VARIABLES
  file,          \* source
  phase,         \* the part of loadElf that is being executed
  next,          \* the variable of its loop
  dataHeaders, codeHeaders,
  freeSpace, blocks, thrown,   \* emulator.memory, see Arena
  memory,        \* its bytes: address -> origin
  codeMemory,    \* the local vector of mapCodeSegments
  instructions   \* the bytes emulator.instructions were decoded from

arena == <<freeSpace, blocks, thrown>>
headers == <<dataHeaders, codeHeaders>>
results == <<memory, codeMemory, instructions>>
vars == <<file, phase, next, dataHeaders, codeHeaders, freeSpace, blocks,
          thrown, memory, codeMemory, instructions>>

\* uint8_t
Byte == [size |-> 1, alignment |-> 1]

Memory == INSTANCE Arena
            WITH Capacity <- MemorySize, ItemTypes <- {Byte}, Counts <- Size,
                 MaxBlocks <- 1

Phases ==
  {"header", "segments", "sort", "dataSizes", "dataOverlap", "codeSizes",
   "codeContiguous", "mapData", "copyData", "mapCode", "copyCode", "decode",
   "loaded", "rejected", "undefined"}

-----------------------------------------------------------------------------
\* The sum of two values of size_t
Wrap(n) == IF n < SizeModulus THEN n ELSE n - SizeModulus

SourceEnd(s) == Wrap(s.sourceStart + s.sourceSize)
DestinationEnd(s) == Wrap(s.destinationStart + s.destinationSize)

Segment(i) == file.segments[i]

\* for (...) with a phase of its own; leaving one loop for the next
Enter(p) == phase' = p /\ next' = 1
Continue == next' = next + 1 /\ UNCHANGED phase

\* throw std::runtime_error, or an exception that passes through
Throw == phase' = "rejected" /\ UNCHANGED next

\* An access outside a buffer: the language does not say what follows.
Undefined == phase' = "undefined" /\ UNCHANGED next

Init ==
  /\ file \in Files
  /\ phase = "header" /\ next = 1
  /\ dataHeaders = << >> /\ codeHeaders = << >>
  /\ Memory!Init
  /\ memory = [a \in 0 .. MemorySize - 1 |-> Zero]
  /\ codeMemory = << >>
  /\ instructions = << >>

-----------------------------------------------------------------------------
\* ElfHeader::validate, after the size was checked in ElfHeader::read
HeaderValid ==
  /\ file.size >= ElfHeaderSize
  /\ file.identified
  /\ file.entry = 0
  /\ Wrap(file.tableOffset + Len(file.segments) * EntrySize) =< file.size

\* ElfHeader::read
ReadElfHeader ==
  /\ phase = "header"
  /\ \/ HeaderValid /\ Enter("segments")
     \/ ~HeaderValid /\ Throw
  /\ UNCHANGED <<file, headers, arena, results>>

-----------------------------------------------------------------------------
\* The entry lies in the file
EntryInFile(i) ==
  Wrap(file.tableOffset + (i - 1) * EntrySize) + FieldsSize =< file.size

Skipped(s) == ~s.load \/ (s.sourceSize = 0 /\ s.destinationSize = 0)

\* mutant: the sum that bounds a segment is not formed
StartPastFile(s) == s.sourceStart > file.size

PastFile(s) == SourceEnd(s) > file.size

\* mutant: a skipped entry is left by `continue' without the increment
SkipWithoutIncrement == UNCHANGED <<next, phase>>

\* mutant: a skipped entry takes the one behind it along
SkipTwo == next' = next + 2 /\ UNCHANGED phase

Skip == Continue

\* One iteration of readSegmentHeaders
ReadSegmentHeader ==
  /\ phase = "segments" /\ next =< Len(file.segments)
  /\ LET s == Segment(next)
     IN  \/ /\ ~EntryInFile(next)
            /\ Undefined /\ UNCHANGED headers
         \/ /\ EntryInFile(next) /\ Skipped(s)
            /\ Skip /\ UNCHANGED headers
         \/ /\ EntryInFile(next) /\ ~Skipped(s) /\ PastFile(s)
            /\ Throw /\ UNCHANGED headers
         \/ /\ EntryInFile(next) /\ ~Skipped(s) /\ ~PastFile(s) /\ s.executable
            /\ codeHeaders' = Append(codeHeaders, next)
            /\ Continue /\ UNCHANGED dataHeaders
         \/ /\ EntryInFile(next) /\ ~Skipped(s) /\ ~PastFile(s) /\ ~s.executable
            /\ dataHeaders' = Append(dataHeaders, next)
            /\ Continue /\ UNCHANGED codeHeaders
  /\ UNCHANGED <<file, arena, results>>

SegmentHeadersRead ==
  /\ phase = "segments" /\ next > Len(file.segments)
  /\ Enter("sort")
  /\ UNCHANGED <<file, headers, arena, results>>

-----------------------------------------------------------------------------
StartsBefore(i, j) == Segment(i).destinationStart < Segment(j).destinationStart

\* The results std::sort may have: equal starts come in any order
Sorted(s) ==
  {t \in {[i \in DOMAIN s |-> s[p[i]]] : p \in Bijection(DOMAIN s, DOMAIN s)} :
     \A i, j \in DOMAIN s : i < j => ~StartsBefore(t[j], t[i])}

\* sortHeadersBySegmentAddresses, for both vectors
SortHeaders ==
  /\ phase = "sort"
  /\ dataHeaders' \in Sorted(dataHeaders)
  /\ codeHeaders' \in Sorted(codeHeaders)
  /\ Enter("dataSizes")
  /\ UNCHANGED <<file, arena, results>>

-----------------------------------------------------------------------------
Truncated(s) == s.sourceSize > s.destinationSize

\* The first loop of validateDataHeaders
ValidateDataSizes ==
  /\ phase = "dataSizes"
  /\ \/ (\E i \in DOMAIN dataHeaders : Truncated(Segment(dataHeaders[i]))) /\ Throw
     \/ /\ \A i \in DOMAIN dataHeaders : ~Truncated(Segment(dataHeaders[i]))
        /\ Enter("dataOverlap")
  /\ UNCHANGED <<file, headers, arena, results>>

\* mutant: segments that touch count as overlapping
Touches(s, t) == DestinationEnd(s) >= t.destinationStart

\* mutant: the end address is taken for the last byte
OverlapsBehindEnd(s, t) == DestinationEnd(s) > t.destinationStart + 1

Overlaps(s, t) == DestinationEnd(s) > t.destinationStart

\* The second one: headers[next - 1] against headers[next], counted from 0
ValidateDataOverlap ==
  /\ phase = "dataOverlap"
  /\ \/ /\ next < Len(dataHeaders)
        /\ LET overlap == Overlaps(Segment(dataHeaders[next]),
                                   Segment(dataHeaders[next + 1]))
           IN  (overlap /\ Throw) \/ (~overlap /\ Continue)
     \/ next >= Len(dataHeaders) /\ Enter("codeSizes")
  /\ UNCHANGED <<file, headers, arena, results>>

\* mutant: the start address of the code is not checked
CodeHeadersOfAnyStart ==
  /\ codeHeaders # << >>
  /\ \A i \in DOMAIN codeHeaders :
       Segment(codeHeaders[i]).destinationSize = Segment(codeHeaders[i]).sourceSize

CodeHeadersFit ==
  /\ codeHeaders # << >>
  /\ \A i \in DOMAIN codeHeaders :
       Segment(codeHeaders[i]).destinationSize = Segment(codeHeaders[i]).sourceSize
  /\ Segment(codeHeaders[1]).destinationStart = 0

\* validateCodeHeaders up to its last loop
ValidateCodeSizes ==
  /\ phase = "codeSizes"
  /\ \/ CodeHeadersFit /\ Enter("codeContiguous")
     \/ ~CodeHeadersFit /\ Throw
  /\ UNCHANGED <<file, headers, arena, results>>

\* The last loop of validateCodeHeaders
ValidateCodeContiguous ==
  /\ phase = "codeContiguous"
  /\ \/ /\ next < Len(codeHeaders)
        /\ LET contiguous == DestinationEnd(Segment(codeHeaders[next]))
                               = Segment(codeHeaders[next + 1]).destinationStart
           IN  (contiguous /\ Continue) \/ (~contiguous /\ Throw)
     \/ next >= Len(codeHeaders) /\ Enter("mapData")
  /\ UNCHANGED <<file, headers, arena, results>>

-----------------------------------------------------------------------------
\* headers.back().destinationEnd()
Total(indices) == DestinationEnd(Segment(indices[Len(indices)]))

\* The array is value-initialized: its bytes are set to 0
Cleared(bytes, block) ==
  [a \in DOMAIN bytes |->
     IF a \in block.offset .. block.offset + block.size - 1 THEN Zero ELSE bytes[a]]

\* mapDataSegments up to copySegments: without data segments there is no
\* allocation; std::bad_alloc becomes a std::runtime_error.
AllocateDataMemory ==
  /\ phase = "mapData"
  /\ \/ /\ dataHeaders = << >>
        /\ Enter("mapCode")
        /\ UNCHANGED <<arena, memory>>
     \/ /\ dataHeaders # << >>
        /\ Memory!AllocateArray(Byte, Total(dataHeaders))
        /\ \/ thrown' /\ Throw /\ UNCHANGED memory
           \/ /\ ~thrown' /\ Enter("copyData")
              /\ memory' = Cleared(memory, blocks'[1])
  /\ UNCHANGED <<file, headers, codeMemory, instructions>>

\* memcpy of a segment into a buffer that starts at `base' of the bytes
CopyInBounds(s, bufferSize) ==
  /\ s.sourceStart + s.sourceSize =< file.size
  /\ s.destinationStart + s.sourceSize =< bufferSize

Copied(bytes, base, s) ==
  [a \in DOMAIN bytes |->
     LET distance == a - (base + s.destinationStart)
     IN  IF distance \in 0 .. s.sourceSize - 1
         THEN s.sourceStart + distance ELSE bytes[a]]

\* One iteration of copySegments for the data segments
CopyDataSegment ==
  /\ phase = "copyData" /\ next =< Len(dataHeaders)
  /\ LET s == Segment(dataHeaders[next])
         inBounds == CopyInBounds(s, blocks[1].size)
     IN  \/ inBounds /\ Continue /\ memory' = Copied(memory, blocks[1].offset, s)
         \/ ~inBounds /\ Undefined /\ UNCHANGED memory
  /\ UNCHANGED <<file, headers, arena, codeMemory, instructions>>

DataSegmentsCopied ==
  /\ phase = "copyData" /\ next > Len(dataHeaders)
  /\ Enter("mapCode")
  /\ UNCHANGED <<file, headers, arena, results>>

\* The vector of mapCodeSegments: zeros, unless the host has no room for it
AllocateCodeMemory ==
  /\ phase = "mapCode"
  /\ \/ /\ codeMemory' = [a \in 0 .. Total(codeHeaders) - 1 |-> Zero]
        /\ Enter("copyCode")
     \/ UNCHANGED codeMemory /\ Throw
  /\ UNCHANGED <<file, headers, arena, memory, instructions>>

\* One iteration of copySegments for the code segments
CopyCodeSegment ==
  /\ phase = "copyCode" /\ next =< Len(codeHeaders)
  /\ LET s == Segment(codeHeaders[next])
         inBounds == CopyInBounds(s, Total(codeHeaders))
     IN  \/ inBounds /\ Continue /\ codeMemory' = Copied(codeMemory, 0, s)
         \/ ~inBounds /\ Undefined /\ UNCHANGED codeMemory
  /\ UNCHANGED <<file, headers, arena, memory, instructions>>

CodeSegmentsCopied ==
  /\ phase = "copyCode" /\ next > Len(codeHeaders)
  /\ Enter("decode")
  /\ UNCHANGED <<file, headers, arena, results>>

\* decodeInstructions throws for a size that is no multiple of 4 and for some
\* words (see Decoder); otherwise its result goes to setInstructions.
SetDecodedInstructions ==
  /\ phase = "decode"
  /\ \/ /\ Total(codeHeaders) % 4 = 0
        /\ instructions' = codeMemory
        /\ Enter("loaded")
     \/ UNCHANGED instructions /\ Throw
  /\ UNCHANGED <<file, headers, arena, memory, codeMemory>>

Next ==
  \/ ReadElfHeader \/ ReadSegmentHeader \/ SegmentHeadersRead
  \/ SortHeaders
  \/ ValidateDataSizes \/ ValidateDataOverlap
  \/ ValidateCodeSizes \/ ValidateCodeContiguous
  \/ AllocateDataMemory \/ CopyDataSegment \/ DataSegmentsCopied
  \/ AllocateCodeMemory \/ CopyCodeSegment \/ CodeSegmentsCopied
  \/ SetDecodedInstructions

Spec == Init /\ [][Next]_vars

\* Straight-line host code: loadElf takes its next step.
FairSpec == Spec /\ WF_vars(Next)
=============================================================================
