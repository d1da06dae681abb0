------------------------------- MODULE Arena -------------------------------
(***************************************************************************)
(* The bump allocator that owns the guest memory (class Arena,             *)
(* src/riscv/utils/arena.hpp), with the objects it has handed out.  Nothing*)
(* is ever freed.                                                          *)
(*                                                                         *)
(* Its callers are mapDataSegments (elf.cpp:233, bytes) and App::App       *)
(* (app.cpp:62, pixels); the unit tests allocate single objects too.       *)
(***************************************************************************)
EXTENDS Integers, Sequences

CONSTANTS
  Capacity,        \* storage.size()
  StorageAddress,  \* storage.data(), as a number; a vector of bytes promises
                   \* no alignment of it
  SizeModulus,     \* 2^64, the number of values of size_t
  ItemTypes,       \* C++ types that are allocated: [size, alignment]
  Counts,          \* item counts asked for by the callers
  MaxBlocks        \* bound of the model: allocations that succeed

ASSUME StorageAssumption ==
  /\ Capacity \in Nat /\ StorageAddress \in Nat /\ SizeModulus \in Nat
  /\ Capacity < SizeModulus
  /\ MaxBlocks \in Nat

\* The alignments of fundamental types; sizeof is a multiple of alignof.
ASSUME ItemTypesAssumption ==
  \A t \in ItemTypes : /\ t.alignment \in {1, 2, 4, 8, 16}
                       /\ t.size \in Nat \ {0} /\ t.size % t.alignment = 0
                       /\ t.size < SizeModulus

(***************************************************************************)
(* The byte size of no requested array wraps: mapDataSegments asks for     *)
(* one-byte items, App::App for 4-byte items in a number that is the       *)
(* product of two positive int32_t.                                        *)
(***************************************************************************)
ASSUME CountsAssumption ==
  /\ Counts \subseteq Nat
  /\ \A t \in ItemTypes : \A n \in Counts : t.size * n < SizeModulus

VARIABLES
  freeSpace,  \* Arena::freeSpace
  blocks,     \* what callers were given, in order: [offset, size, alignment]
  thrown      \* whether the latest call threw std::bad_alloc

vars == <<freeSpace, blocks, thrown>>

Block == [offset : Nat, size : Nat, alignment : {1, 2, 4, 8, 16}]

-----------------------------------------------------------------------------
\* Arena::getFreeOffset
FreeOffset == Capacity - freeSpace

\* The distance from an address to the next multiple of alignment
Padding(address, alignment) ==
  (alignment - (address % alignment)) % alignment

(***************************************************************************)
(* std::align(alignment, size, ptr, space) of the C++ library: it fails    *)
(* with nullptr and changes nothing if the object does not fit behind its  *)
(* padding; otherwise it moves ptr over the padding and takes the padding, *)
(* but not the object, from the space.                                     *)
(***************************************************************************)
AlignFits(alignment, size, address, space) ==
  /\ size =< space
  /\ Padding(address, alignment) =< space - size

AlignedSpace(alignment, address, space) == space - Padding(address, alignment)

FreeAddress == StorageAddress + FreeOffset

\* mutant: aligns the offset, not the address
OffsetAligned(t) ==
  IF AlignFits(t.alignment, t.size, FreeOffset, freeSpace)
  THEN FreeOffset + Padding(FreeOffset, t.alignment)
  ELSE Capacity

\* Arena::getFreeOffsetAlignedTo<t>
FreeOffsetAlignedTo(t) ==
  IF AlignFits(t.alignment, t.size, FreeAddress, freeSpace)
  THEN FreeOffset + Padding(FreeAddress, t.alignment)
  ELSE Capacity

\* Multiplication of two size_t values
WrapSize(n) == IF n < SizeModulus THEN n ELSE n % SizeModulus

-----------------------------------------------------------------------------
Init ==
  /\ freeSpace = Capacity
  /\ blocks = << >>
  /\ thrown = FALSE

\* The caller constructs an object of `used' bytes at the offset.
Construct(offset, used, alignment) ==
  /\ blocks' = Append(blocks, [offset |-> offset, size |-> used,
                               alignment |-> alignment])
  /\ thrown' = FALSE

\* throw std::bad_alloc
ThrowBadAlloc == thrown' = TRUE /\ UNCHANGED blocks

\* mutant: freeSpace is passed on although std::align has failed
TakeSpaceFirst(size, alignment, used) ==
  /\ freeSpace' = IF Padding(FreeAddress, alignment) =< freeSpace
                  THEN AlignedSpace(alignment, FreeAddress, freeSpace) ELSE 0
  /\ \/ /\ AlignFits(alignment, size, FreeAddress, freeSpace)
        /\ Construct(Capacity - freeSpace', used, alignment)
     \/ /\ ~AlignFits(alignment, size, FreeAddress, freeSpace)
        /\ ThrowBadAlloc

\* mutant: the object is charged before std::align is asked
ChargeFirst(size, alignment, used) ==
  /\ freeSpace' = AlignedSpace(alignment, FreeAddress, freeSpace) - size
  /\ \/ /\ AlignFits(alignment, size, FreeAddress, freeSpace)
        /\ Construct(Capacity - freeSpace' - size, used, alignment)
     \/ /\ ~AlignFits(alignment, size, FreeAddress, freeSpace)
        /\ ThrowBadAlloc

\* mutant: the pointer is used as it was before the alignment
UseUnalignedPointer(size, alignment, used) ==
  \/ /\ AlignFits(alignment, size, FreeAddress, freeSpace)
     /\ freeSpace' = AlignedSpace(alignment, FreeAddress, freeSpace)
     /\ Construct(FreeOffset, used, alignment)
  \/ /\ ~AlignFits(alignment, size, FreeAddress, freeSpace)
     /\ ThrowBadAlloc
     /\ UNCHANGED freeSpace

\* mutant: asks for room for the worst padding as well
ReserveWorstPadding(size, alignment, used) ==
  \/ /\ AlignFits(alignment, size + alignment, FreeAddress, freeSpace)
     /\ freeSpace' = AlignedSpace(alignment, FreeAddress, freeSpace)
     /\ Construct(Capacity - freeSpace', used, alignment)
  \/ /\ ~AlignFits(alignment, size + alignment, FreeAddress, freeSpace)
     /\ ThrowBadAlloc
     /\ UNCHANGED freeSpace

\* Arena::allocateRaw(size, alignment), for an object of `used' bytes that
\* the caller constructs there.
AllocateRaw(size, alignment, used) ==
  \/ /\ AlignFits(alignment, size, FreeAddress, freeSpace)
     /\ freeSpace' = AlignedSpace(alignment, FreeAddress, freeSpace)
     /\ Construct(Capacity - freeSpace', used, alignment)
  \/ /\ ~AlignFits(alignment, size, FreeAddress, freeSpace)
     /\ ThrowBadAlloc
     /\ UNCHANGED freeSpace

\* Arena::allocate<Object>
AllocateObject(t) ==
  /\ Len(blocks) < MaxBlocks
  /\ AllocateRaw(t.size, t.alignment, t.size)

\* Arena::allocate<Item[]>
AllocateArray(t, count) ==
  /\ Len(blocks) < MaxBlocks
  /\ AllocateRaw(WrapSize(t.size * count), t.alignment, t.size * count)

Next ==
  \E t \in ItemTypes : \/ AllocateObject(t)
                       \/ \E count \in Counts : AllocateArray(t, count)

Spec == Init /\ [][Next]_vars

-----------------------------------------------------------------------------
\* Types of the arena's state.
TypeOK ==
  /\ freeSpace \in 0 .. Capacity
  /\ blocks \in Seq(Block)
  /\ thrown \in BOOLEAN

\* Every object the arena has handed out lies in the storage at an address
\* its type allows (arena.hpp:57-106), although the padding depends on where
\* the storage itself is.
BlocksUsable ==
  \A i \in 1 .. Len(blocks) :
    /\ blocks[i].offset + blocks[i].size =< Capacity
    /\ (StorageAddress + blocks[i].offset) % blocks[i].alignment = 0

\* Whether an object of type t and of so many bytes could be placed behind the
\* free offset
RoomFor(t, bytes) ==
  \E offset \in FreeOffset .. Capacity :
    /\ (StorageAddress + offset) % t.alignment = 0
    /\ offset + bytes =< Capacity

\* Both forms of allocate throw exactly if no suitably aligned room is left
\* behind the free offset (arena.hpp:57-58 and 67-68, "If there is not enough
\* free space, throws `std::bad_alloc`").
ThrowsOnlyWhenFull ==
  [][\A t \in ItemTypes :
       /\ AllocateObject(t) => (thrown' <=> ~RoomFor(t, t.size))
       /\ \A count \in Counts :
            AllocateArray(t, count)
              => (thrown' <=> ~RoomFor(t, t.size * count))]_vars

\* getFreeOffsetAlignedTo says where the next object of the type goes
\* (arena.hpp:41-42 and the test AllocateAligned): the object is given the
\* offset that was announced before the call, and "no offset" is announced
\* only if the call throws.
AnnouncedOffsetKept ==
  [][\A t \in ItemTypes : AllocateObject(t) =>
       IF thrown' THEN FreeOffsetAlignedTo(t) = Capacity
       ELSE blocks'[Len(blocks')].offset = FreeOffsetAlignedTo(t)]_vars

\* The free offset, which the guest is told to treat as the start of its
\* heap (emulator.hpp:34-40), never moves backward, and a call that throws
\* does not move it.
FreeOffsetMonotone ==
  [][/\ freeSpace' =< freeSpace
     /\ thrown' => UNCHANGED freeSpace]_vars

\* emulator.hpp:36: "Memory regions before this pointer are allocated by the
\* host", hence what the host allocates is before it; arena.hpp:34: "the
\* offset of the first free byte".
AllocatedBeforeFree ==
  \A i \in 1 .. Len(blocks) : blocks[i].offset + blocks[i].size =< FreeOffset
=============================================================================
