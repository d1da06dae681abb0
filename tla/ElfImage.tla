------------------------------ MODULE ElfImage ------------------------------
(***************************************************************************)
(* What loading an ELF executable means, without any order of work: which  *)
(* files are accepted and where every byte of the guest comes from.  It is *)
(* stated over sets of segments and sets of addresses; ElfLoader, which    *)
(* sorts and scans, implements it.                                         *)
(*                                                                         *)
(* A file is [size, identified, entry, tableOffset, segments]; a segment   *)
(* is the entry of the program header table with its index.  The byte of a *)
(* file is known by its position, and a byte of the guest by the position  *)
(* it was loaded from; Zero marks a byte that was not loaded.              *)
(***************************************************************************)
EXTENDS Integers, Sequences

CONSTANTS
  Files,        \* contents of executable files
  MemorySize,   \* bytes of guest memory
  SizeModulus   \* 2^64, the number of values of size_t

ElfHeaderSize == 64
EntrySize == 56
Zero == -1

VARIABLES
  file,     \* the file that is loaded
  outcome,  \* "loading", "loaded", "rejected", or "undefined"
  memory,   \* the guest memory: address -> origin
  code      \* the bytes the instructions were decoded from: address -> origin

vars == <<file, outcome, memory, code>>

-----------------------------------------------------------------------------
LoadSegments(f) ==
  {i \in DOMAIN f.segments :
     /\ f.segments[i].load
     /\ f.segments[i].sourceSize > 0 \/ f.segments[i].destinationSize > 0}

CodeSegments(f) == {i \in LoadSegments(f) : f.segments[i].executable}
DataSegments(f) == LoadSegments(f) \ CodeSegments(f)

Range(start, size) == start .. start + size - 1
Destination(s) == Range(s.destinationStart, s.destinationSize)
Loaded(s) == Range(s.destinationStart, s.sourceSize)

Disjoint(f, indices) ==
  \A i, j \in indices :
    i # j => Destination(f.segments[i]) \intersect Destination(f.segments[j]) = {}

ValidHeader(f) ==
  /\ f.size >= ElfHeaderSize
  /\ f.identified
  /\ f.entry = 0
  /\ f.tableOffset + Len(f.segments) * EntrySize =< f.size

InFile(f) ==
  \A i \in LoadSegments(f) :
    f.segments[i].sourceStart + f.segments[i].sourceSize =< f.size

\* Data may be followed by zeros in memory; it stays apart and fits.
ValidData(f) ==
  /\ \A i \in DataSegments(f) :
       /\ f.segments[i].sourceSize =< f.segments[i].destinationSize
       /\ f.segments[i].destinationStart + f.segments[i].destinationSize =< MemorySize
  /\ Disjoint(f, DataSegments(f))

\* Code has no gap from address 0 on and is not padded.
ValidCode(f) ==
  /\ CodeSegments(f) # {}
  /\ \A i \in CodeSegments(f) :
       f.segments[i].sourceSize = f.segments[i].destinationSize
  /\ Disjoint(f, CodeSegments(f))
  /\ \A i \in CodeSegments(f) : \A a \in 0 .. f.segments[i].destinationStart - 1 :
       \E j \in CodeSegments(f) : a \in Destination(f.segments[j])

WellFormed(f) == ValidHeader(f) /\ InFile(f) /\ ValidData(f) /\ ValidCode(f)

\* No sum of two numbers of the file exceeds 64 bits.
SumsFit(f) ==
  /\ f.tableOffset + Len(f.segments) * EntrySize < SizeModulus
  /\ \A i \in LoadSegments(f) :
       /\ f.segments[i].sourceStart + f.segments[i].sourceSize < SizeModulus
       /\ f.segments[i].destinationStart + f.segments[i].destinationSize < SizeModulus

-----------------------------------------------------------------------------
\* The position in the file that the byte at address a is loaded from
Origin(f, indices, a) ==
  IF \E i \in indices : a \in Loaded(f.segments[i])
  THEN LET s == f.segments[CHOOSE i \in indices : a \in Loaded(f.segments[i])]
       IN  s.sourceStart + (a - s.destinationStart)
  ELSE Zero

MemoryImage(f) == [a \in 0 .. MemorySize - 1 |-> Origin(f, DataSegments(f), a)]

CodeImage(f) ==
  [a \in UNION {Destination(f.segments[i]) : i \in CodeSegments(f)}
     |-> Origin(f, CodeSegments(f), a)]

EmptyMemory == [a \in 0 .. MemorySize - 1 |-> Zero]

Init ==
  /\ file \in Files
  /\ outcome = "loading"
  /\ memory = EmptyMemory
  /\ code = << >>

Accept ==
  /\ WellFormed(file)
  /\ outcome' = "loaded"
  /\ memory' = MemoryImage(file)
  /\ code' = CodeImage(file)

\* A file that is not well-formed leaves the guest as it was.
RejectFile ==
  /\ ~WellFormed(file)
  /\ outcome' = "rejected"
  /\ UNCHANGED <<memory, code>>

\* The instructions of a well-formed file may still be rejected; its data is
\* in memory then.
RejectCode ==
  /\ WellFormed(file)
  /\ outcome' = "rejected"
  /\ memory' = MemoryImage(file)
  /\ UNCHANGED code

\* Nothing is promised of files whose numbers do not add up in 64 bits.
Unspecified ==
  /\ ~SumsFit(file)
  /\ outcome' \in {"loaded", "rejected", "undefined"}

Next ==
  /\ outcome = "loading"
  /\ Accept \/ RejectFile \/ RejectCode \/ Unspecified
  /\ UNCHANGED file

Spec == Init /\ [][Next]_vars
=============================================================================
