---------------------------- MODULE ArenaProofs ----------------------------
(***************************************************************************)
(* Proofs about the arena for every capacity, every address of the         *)
(* storage and every set of item types.                                    *)
(***************************************************************************)
EXTENDS Arena, SequenceTheorems, TLAPS

Alignments == {1, 2, 4, 8, 16}

(***************************************************************************)
(* The padding leads to the first multiple of the alignment that is not    *)
(* below the address.                                                      *)
(***************************************************************************)
LEMMA PaddingFacts ==
  ASSUME NEW address \in Nat, NEW alignment \in Alignments
  PROVE  /\ Padding(address, alignment) \in 0 .. alignment - 1
         /\ (address + Padding(address, alignment)) % alignment = 0
         /\ \A later \in Nat :
              later >= address /\ later % alignment = 0
                => later >= address + Padding(address, alignment)
<1>1. CASE alignment = 1
  BY <1>1 DEF Padding
<1>2. CASE alignment = 2
  BY <1>2 DEF Padding
<1>3. CASE alignment = 4
  BY <1>3 DEF Padding
<1>4. CASE alignment = 8
  BY <1>4 DEF Padding
<1>5. CASE alignment = 16
  BY <1>5 DEF Padding
<1>. QED  BY <1>1, <1>2, <1>3, <1>4, <1>5 DEF Alignments

(***************************************************************************)
(* What a successful std::align leaves: enough space, an aligned offset    *)
(* and room for the object behind it.                                      *)
(***************************************************************************)
LEMMA AlignFacts ==
  ASSUME TypeOK, NEW alignment \in Alignments, NEW size \in Nat,
         AlignFits(alignment, size, FreeAddress, freeSpace)
  PROVE  LET space == AlignedSpace(alignment, FreeAddress, freeSpace)
         IN  /\ space \in 0 .. freeSpace
             /\ Capacity - space \in Nat
             /\ (Capacity - space) + size =< Capacity
             /\ (StorageAddress + (Capacity - space)) % alignment = 0
<1> DEFINE padding == Padding(FreeAddress, alignment)
<1>1. FreeAddress \in Nat /\ freeSpace \in 0 .. Capacity /\ Capacity \in Nat
  BY StorageAssumption DEF TypeOK, FreeAddress, FreeOffset
<1>2. /\ padding \in 0 .. alignment - 1
      /\ (FreeAddress + padding) % alignment = 0
  BY <1>1, PaddingFacts
<1>3. size =< freeSpace /\ padding =< freeSpace - size
  BY DEF AlignFits
<1>4. StorageAddress + (Capacity - (freeSpace - padding)) = FreeAddress + padding
  BY <1>1, <1>2, StorageAssumption DEF FreeAddress, FreeOffset, Alignments
<1> HIDE DEF padding
<1>. QED
  BY <1>1, <1>2, <1>3, <1>4, StorageAssumption DEF AlignedSpace, Alignments, padding

(***************************************************************************)
(* allocateRaw keeps the invariant if the caller uses no more bytes than   *)
(* it asked for.                                                           *)
(***************************************************************************)
LEMMA AllocateRawFacts ==
  ASSUME TypeOK, BlocksUsable, NEW alignment \in Alignments, NEW size \in Nat,
         AllocateRaw(size, alignment, size)
  PROVE  TypeOK' /\ BlocksUsable'
<1>1. CASE AlignFits(alignment, size, FreeAddress, freeSpace)
  <2> DEFINE space == AlignedSpace(alignment, FreeAddress, freeSpace)
             block == [offset |-> Capacity - space, size |-> size,
                       alignment |-> alignment]
  <2>1. /\ space \in 0 .. freeSpace
        /\ Capacity - space \in Nat
        /\ (Capacity - space) + size =< Capacity
        /\ (StorageAddress + (Capacity - space)) % alignment = 0
    BY <1>1, AlignFacts
  <2>2. freeSpace' = space /\ thrown' = FALSE /\ blocks' = Append(blocks, block)
    BY <1>1 DEF AllocateRaw, Construct
  <2> HIDE DEF space
  <2>3. block \in Block /\ blocks \in Seq(Block)
    <3>1. block \in Block
      BY <2>1 DEF Block, Alignments
    <3>. QED  BY <3>1 DEF TypeOK
  <2>4. TypeOK'
    <3>1. blocks' \in Seq(Block)
      BY <2>2, <2>3, AppendProperties
    <3>2. freeSpace' \in 0 .. Capacity
      BY <2>1, <2>2, StorageAssumption DEF TypeOK
    <3>. QED  BY <2>2, <3>1, <3>2 DEF TypeOK
  <2>5. ASSUME NEW i \in 1 .. Len(blocks')
        PROVE  /\ blocks'[i].offset + blocks'[i].size =< Capacity
               /\ (StorageAddress + blocks'[i].offset) % blocks'[i].alignment = 0
    <3>1. CASE i = Len(blocks')
      <4>1. blocks'[i] = block
        BY <2>2, <2>3, <3>1
      <4>. QED  BY <2>1, <4>1
    <3>2. CASE i # Len(blocks')
      <4>1. i \in 1 .. Len(blocks) /\ blocks'[i] = blocks[i]
        BY <2>2, <2>3, <3>2
      <4>. QED  BY <4>1 DEF BlocksUsable
    <3>. QED  BY <3>1, <3>2
  <2>. QED  BY <2>4, <2>5 DEF BlocksUsable
<1>2. CASE ~AlignFits(alignment, size, FreeAddress, freeSpace)
  BY <1>2 DEF AllocateRaw, ThrowBadAlloc, TypeOK, BlocksUsable
<1>. QED  BY <1>1, <1>2

(***************************************************************************)
(* A call of either form of allocate asks allocateRaw for exactly the      *)
(* bytes that it then constructs.                                          *)
(***************************************************************************)
LEMMA CallFacts ==
  ASSUME NEW t \in ItemTypes
  PROVE  /\ t.alignment \in Alignments /\ t.size \in Nat
         /\ AllocateObject(t) => AllocateRaw(t.size, t.alignment, t.size)
         /\ \A count \in Counts :
              /\ t.size * count \in Nat
              /\ AllocateArray(t, count)
                   => AllocateRaw(t.size * count, t.alignment, t.size * count)
<1>1. t.alignment \in Alignments /\ t.size \in Nat
  BY ItemTypesAssumption DEF Alignments
<1>2. ASSUME NEW count \in Counts
      PROVE  t.size * count \in Nat /\ WrapSize(t.size * count) = t.size * count
  <2>1. count \in Nat /\ t.size * count < SizeModulus
    BY <1>2, CountsAssumption
  <2>2. \A a, b \in Nat : a * b \in Nat
    OBVIOUS
  <2>. QED  BY <1>1, <2>1, <2>2 DEF WrapSize
<1>. QED  BY <1>1, <1>2 DEF AllocateObject, AllocateArray

(***************************************************************************)
(* What the arena hands out lies within the storage and is aligned.        *)
(***************************************************************************)
THEOREM BlocksStayUsable == Spec => [](TypeOK /\ BlocksUsable)
<1>1. Init => TypeOK /\ BlocksUsable
  <2>1. << >> \in Seq(Block)
    OBVIOUS
  <2>2. Init => BlocksUsable
    BY DEF Init, BlocksUsable
  <2>3. Init => TypeOK
    <3> SUFFICES ASSUME Init PROVE TypeOK
      OBVIOUS
    <3>1. freeSpace \in 0 .. Capacity
      BY StorageAssumption DEF Init
    <3>2. thrown \in BOOLEAN
      BY Zenon DEF Init
    <3>3. blocks \in Seq(Block)
      BY <2>1, Zenon DEF Init
    <3>. QED  BY <3>1, <3>2, <3>3 DEF TypeOK
  <2>. QED  BY <2>2, <2>3
<1>2. TypeOK /\ BlocksUsable /\ [Next]_vars => TypeOK' /\ BlocksUsable'
  <2> SUFFICES ASSUME TypeOK, BlocksUsable, [Next]_vars
               PROVE  TypeOK' /\ BlocksUsable'
    OBVIOUS
  <2>1. ASSUME NEW t \in ItemTypes, AllocateObject(t)
        PROVE  TypeOK' /\ BlocksUsable'
    BY <2>1, CallFacts, AllocateRawFacts
  <2>2. ASSUME NEW t \in ItemTypes, NEW count \in Counts, AllocateArray(t, count)
        PROVE  TypeOK' /\ BlocksUsable'
    BY <2>2, CallFacts, AllocateRawFacts
  <2>3. CASE UNCHANGED vars
    BY <2>3 DEF vars, TypeOK, BlocksUsable
  <2>. QED  BY <2>1, <2>2, <2>3 DEF Next
<1>. QED  BY <1>1, <1>2, PTL DEF Spec

-----------------------------------------------------------------------------
(***************************************************************************)
(* std::align finds room exactly if there is any.                          *)
(***************************************************************************)
LEMMA FitsIffRoom ==
  ASSUME TypeOK, NEW alignment \in Alignments, NEW size \in Nat
  PROVE  AlignFits(alignment, size, FreeAddress, freeSpace)
           <=> \E offset \in FreeOffset .. Capacity :
                 /\ (StorageAddress + offset) % alignment = 0
                 /\ offset + size =< Capacity
<1> DEFINE padding == Padding(FreeAddress, alignment)
<1>1. /\ FreeAddress \in Nat /\ FreeOffset \in 0 .. Capacity
      /\ Capacity \in Nat /\ StorageAddress \in Nat
      /\ FreeAddress = StorageAddress + FreeOffset
      /\ freeSpace = Capacity - FreeOffset
  BY StorageAssumption DEF TypeOK, FreeAddress, FreeOffset
<1>2. /\ padding \in Nat
      /\ (FreeAddress + padding) % alignment = 0
      /\ \A later \in Nat :
           later >= FreeAddress /\ later % alignment = 0
             => later >= FreeAddress + padding
  <2>1. /\ padding \in 0 .. alignment - 1
        /\ (FreeAddress + padding) % alignment = 0
        /\ \A later \in Nat :
             later >= FreeAddress /\ later % alignment = 0
               => later >= FreeAddress + padding
    BY <1>1, PaddingFacts
  <2>2. alignment \in Nat
    BY DEF Alignments
  <2>. HIDE DEF padding
  <2>. QED  BY <2>1, <2>2
<1> HIDE DEF padding
<1>3. AlignFits(alignment, size, FreeAddress, freeSpace)
        <=> FreeOffset + padding + size =< Capacity
  <2>1. AlignFits(alignment, size, FreeAddress, freeSpace)
          <=> size =< freeSpace /\ padding =< freeSpace - size
    BY DEF AlignFits, padding
  <2>. QED  BY <1>1, <1>2, <2>1
<1>4. ASSUME FreeOffset + padding + size =< Capacity
      PROVE  \E offset \in FreeOffset .. Capacity :
               /\ (StorageAddress + offset) % alignment = 0
               /\ offset + size =< Capacity
  <2>1. FreeOffset + padding \in FreeOffset .. Capacity
    BY <1>1, <1>2, <1>4
  <2>2. StorageAddress + (FreeOffset + padding) = FreeAddress + padding
    BY <1>1, <1>2
  <2>3. WITNESS FreeOffset + padding \in FreeOffset .. Capacity
  <2>. QED  BY <1>2, <1>4, <2>1, <2>2
<1>5. ASSUME NEW offset \in FreeOffset .. Capacity,
             (StorageAddress + offset) % alignment = 0,
             offset + size =< Capacity
      PROVE  FreeOffset + padding + size =< Capacity
  <2>1. StorageAddress + offset >= FreeAddress + padding
    BY <1>1, <1>2, <1>5
  <2>. QED  BY <1>1, <1>2, <1>5, <2>1
<1>. QED  BY <1>3, <1>4, <1>5

(***************************************************************************)
(* Both forms of allocate throw exactly if no aligned room is left         *)
(* (arena.hpp:57-58 and 67-68).                                            *)
(***************************************************************************)
THEOREM ThrowsExactlyWhenFull == Spec => ThrowsOnlyWhenFull
<1>1. ASSUME TypeOK, NEW t \in ItemTypes, NEW size \in Nat,
             AllocateRaw(size, t.alignment, size)
      PROVE  thrown' <=> ~RoomFor(t, size)
  <2>1. AlignFits(t.alignment, size, FreeAddress, freeSpace) <=> RoomFor(t, size)
    BY <1>1, CallFacts, FitsIffRoom DEF RoomFor
  <2>. QED  BY <1>1, <2>1 DEF AllocateRaw, Construct, ThrowBadAlloc
<1>2. TypeOK /\ [Next]_vars =>
        [\A t \in ItemTypes :
           /\ AllocateObject(t) => (thrown' <=> ~RoomFor(t, t.size))
           /\ \A count \in Counts :
                AllocateArray(t, count)
                  => (thrown' <=> ~RoomFor(t, t.size * count))]_vars
  BY <1>1, CallFacts
<1>. QED  BY <1>2, BlocksStayUsable, PTL DEF Spec, ThrowsOnlyWhenFull

(***************************************************************************)
(* getFreeOffsetAlignedTo announces where the next object of its type is   *)
(* put, and announces nothing only if there is no room (arena.hpp:41-65).  *)
(***************************************************************************)
THEOREM AnnouncementKept == Spec => AnnouncedOffsetKept
<1>1. ASSUME TypeOK, NEW t \in ItemTypes, AllocateObject(t)
      PROVE  IF thrown' THEN FreeOffsetAlignedTo(t) = Capacity
             ELSE blocks'[Len(blocks')].offset = FreeOffsetAlignedTo(t)
  <2>1. AllocateRaw(t.size, t.alignment, t.size)
    BY <1>1, CallFacts
  <2>2. CASE AlignFits(t.alignment, t.size, FreeAddress, freeSpace)
    <3> DEFINE space == AlignedSpace(t.alignment, FreeAddress, freeSpace)
               block == [offset |-> Capacity - space, size |-> t.size,
                         alignment |-> t.alignment]
    <3>1. thrown' = FALSE /\ blocks' = Append(blocks, block)
      BY <2>1, <2>2 DEF AllocateRaw, Construct
    <3>2. blocks'[Len(blocks')] = block
      BY <1>1, <3>1 DEF TypeOK
    <3>3. Capacity - space = FreeOffset + Padding(FreeAddress, t.alignment)
      <4>1. FreeAddress \in Nat /\ t.alignment \in Alignments
        BY <1>1, CallFacts, StorageAssumption DEF TypeOK, FreeAddress, FreeOffset
      <4>2. Padding(FreeAddress, t.alignment) \in Int
        <5> DEFINE padding == Padding(FreeAddress, t.alignment)
        <5>1. padding \in 0 .. t.alignment - 1
          BY <4>1, PaddingFacts
        <5> HIDE DEF padding
        <5>2. padding \in Int
          BY <5>1
        <5>. QED  BY <5>2 DEF padding
      <4>. QED
        BY <1>1, <4>2, StorageAssumption DEF TypeOK, FreeOffset, AlignedSpace
    <3>. QED  BY <2>2, <3>1, <3>2, <3>3 DEF FreeOffsetAlignedTo
  <2>3. CASE ~AlignFits(t.alignment, t.size, FreeAddress, freeSpace)
    BY <2>1, <2>3 DEF AllocateRaw, ThrowBadAlloc, FreeOffsetAlignedTo
  <2>. QED  BY <2>2, <2>3
<1>2. TypeOK /\ [Next]_vars =>
        [\A t \in ItemTypes : AllocateObject(t) =>
           IF thrown' THEN FreeOffsetAlignedTo(t) = Capacity
           ELSE blocks'[Len(blocks')].offset = FreeOffsetAlignedTo(t)]_vars
  BY <1>1
<1>. QED  BY <1>2, BlocksStayUsable, PTL DEF Spec, AnnouncedOffsetKept

(***************************************************************************)
(* The free space never exceeds the storage: what std::align takes from it *)
(* is at most what is there (arena.hpp:98-106).                            *)
(***************************************************************************)
THEOREM ArenaTypeCorrect == Spec => []TypeOK
BY BlocksStayUsable, PTL

(***************************************************************************)
(* The free offset never moves backward, and not at all if a call throws   *)
(* (arena.hpp:98-106).                                                     *)
(***************************************************************************)
THEOREM FreeOffsetMovesForward == Spec => FreeOffsetMonotone
<1>1. ASSUME TypeOK, NEW alignment \in Alignments, NEW size \in Nat,
             AllocateRaw(size, alignment, size)
      PROVE  freeSpace' =< freeSpace /\ (thrown' => UNCHANGED freeSpace)
  <2>1. CASE AlignFits(alignment, size, FreeAddress, freeSpace)
    <3>1. freeSpace' \in 0 .. freeSpace /\ thrown' = FALSE
      BY <1>1, <2>1, AlignFacts DEF AllocateRaw, Construct
    <3>. QED  BY <1>1, <3>1, StorageAssumption DEF TypeOK
  <2>2. CASE ~AlignFits(alignment, size, FreeAddress, freeSpace)
    BY <1>1, <2>2, StorageAssumption DEF AllocateRaw, TypeOK
  <2>. QED  BY <2>1, <2>2
<1>2. ASSUME TypeOK, Next
      PROVE  freeSpace' =< freeSpace /\ (thrown' => UNCHANGED freeSpace)
  BY <1>1, <1>2, CallFacts DEF Next
<1>. QED  BY <1>2, BlocksStayUsable, PTL DEF Spec, FreeOffsetMonotone
=============================================================================
