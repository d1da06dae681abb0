-------------------------- MODULE ElfMappingProofs --------------------------
(***************************************************************************)
(* Proofs about loadElf, second part: what the mapping makes of validated  *)
(* headers, and the theorems.                                              *)
(***************************************************************************)
EXTENDS ElfLoaderProofs

(***************************************************************************)
(* What holds of the headers when they have been validated.                *)
(***************************************************************************)
LEMMA ValidatedHeaders ==
  ASSUME TypeOK, Image!SumsFit(file), Established, phase \in AfterCodeContiguous
  PROVE  /\ phase \in AfterReading
         /\ NotTruncated(file, dataHeaders) /\ NotTruncated(file, codeHeaders)
         /\ Apart(file, dataHeaders, Len(dataHeaders))
         /\ Apart(file, codeHeaders, Len(codeHeaders))
         /\ Covered(file, codeHeaders, Len(codeHeaders))
         /\ CodeFits(file, codeHeaders)
         /\ Len(codeHeaders) \in 1 .. Len(codeHeaders)
<1> USE DEF AfterReading, AfterSorting, AfterDataSizes, AfterDataOverlap, AfterCodeSizes
<1>1. phase \in AfterReading
  OBVIOUS
<1>2. /\ NotTruncated(file, dataHeaders)
      /\ Apart(file, dataHeaders, Len(dataHeaders))
      /\ Apart(file, codeHeaders, Len(codeHeaders))
      /\ Covered(file, codeHeaders, Len(codeHeaders))
      /\ CodeFits(file, codeHeaders)
  BY DEF Established, DataEstablished, CodeEstablished
<1>3. \A i \in 1 .. Len(codeHeaders) : file.segments[codeHeaders[i]] \in SegmentHeader
  BY <1>1, CollectedHeaders, CollectedFacts
<1>4. NotTruncated(file, codeHeaders)
  BY <1>2, <1>3, HeaderFacts DEF NotTruncated, CodeFits
<1>5. Len(codeHeaders) \in 1 .. Len(codeHeaders)
  BY <1>1, <1>2, CollectedHeaders, CollectedFacts DEF CodeFits
<1>. QED  BY <1>1, <1>2, <1>4, <1>5

(***************************************************************************)
(* Validated files are well-formed if their data fits into the memory.     *)
(***************************************************************************)
LEMMA ValidatedFile ==
  ASSUME TypeOK, Image!SumsFit(file), Established, phase \in AfterCodeContiguous
  PROVE  /\ Image!ValidCode(file)
         /\ Image!WellFormed(file)
              <=> \A x \in Image!DataSegments(file) :
                    End(file.segments[x]) =< MemorySize
<1> DEFINE D == Image!DataSegments(file)
           C == Image!CodeSegments(file)
           m == Len(codeHeaders)
<1>1. /\ phase \in AfterReading
      /\ NotTruncated(file, dataHeaders)
      /\ Apart(file, dataHeaders, Len(dataHeaders))
      /\ Apart(file, codeHeaders, m) /\ Covered(file, codeHeaders, m)
      /\ CodeFits(file, codeHeaders) /\ m \in 1 .. m
  BY ValidatedHeaders
<1>2. /\ file \in ElfFile
      /\ D \in SUBSET Image!LoadSegments(file) /\ C \in SUBSET Image!LoadSegments(file)
      /\ Collected(dataHeaders, D) /\ Collected(codeHeaders, C)
      /\ Image!ValidHeader(file) /\ Image!InFile(file)
  BY <1>1, CollectedHeaders
<1>3. Image!Disjoint(file, D) /\ Image!Disjoint(file, C)
  BY <1>1, <1>2, ApartIsDisjoint
<1>4. \A x \in C : /\ file.segments[x].sourceSize = file.segments[x].destinationSize
                   /\ \E i \in 1 .. m : codeHeaders[i] = x
  <2>1. \A x \in C : \E i \in 1 .. m : codeHeaders[i] = x
    BY <1>2 DEF Collected
  <2>2. \A i \in 1 .. m : file.segments[codeHeaders[i]].sourceSize
                           = file.segments[codeHeaders[i]].destinationSize
    BY <1>1 DEF CodeFits
  <2>. QED  BY <2>1, <2>2
<1>5. ASSUME NEW x \in C, NEW a \in 0 .. file.segments[x].destinationStart - 1
      PROVE  \E y \in C : a \in Image!Destination(file.segments[y])
  <2>1. PICK i \in 1 .. m : codeHeaders[i] = x
    BY <1>4
  <2>2. i =< m
    BY <1>1
  <2>3. PICK j \in 1 .. m : a \in Image!Destination(file.segments[codeHeaders[j]])
    BY <1>1, <2>1, <2>2 DEF Covered
  <2>4. codeHeaders[j] \in C
    BY <1>2, CollectedFacts
  <2>. QED  BY <2>3, <2>4
<1>6. C # {}
  BY <1>1, <1>2, CollectedFacts DEF CodeFits
<1>7. Image!ValidCode(file)
  BY <1>3, <1>4, <1>5, <1>6 DEF Image!ValidCode
<1>8. \A x \in D : file.segments[x].sourceSize =< file.segments[x].destinationSize
  <2> SUFFICES ASSUME NEW x \in D
               PROVE  file.segments[x].sourceSize =< file.segments[x].destinationSize
    OBVIOUS
  <2>1. PICK i \in 1 .. Len(dataHeaders) : dataHeaders[i] = x
    BY <1>2 DEF Collected
  <2>. QED  BY <1>1, <2>1 DEF NotTruncated
<1>. QED
  BY <1>2, <1>3, <1>7, <1>8 DEF Image!WellFormed, Image!ValidData, End

(***************************************************************************)
(* The array that is allocated ends where the last data segment does, and  *)
(* so it is large enough for all of them.                                  *)
(***************************************************************************)
LEMMA DataSize ==
  ASSUME TypeOK, Image!SumsFit(file), Established, phase \in AfterCodeContiguous,
         dataHeaders # << >>
  PROVE  LET last == file.segments[dataHeaders[Len(dataHeaders)]]
         IN  /\ Total(dataHeaders) = End(last)
             /\ Total(dataHeaders) \in Size
             /\ Image!WellFormed(file) <=> End(last) =< MemorySize
             /\ \A i \in 1 .. Len(dataHeaders) :
                  End(file.segments[dataHeaders[i]]) =< End(last)
<1> DEFINE D == Image!DataSegments(file)
           n == Len(dataHeaders)
           last == file.segments[dataHeaders[n]]
<1>1. /\ phase \in AfterReading
      /\ NotTruncated(file, dataHeaders) /\ Apart(file, dataHeaders, n)
  BY ValidatedHeaders
<1>2. /\ file \in ElfFile /\ D \in SUBSET Image!LoadSegments(file)
      /\ Collected(dataHeaders, D)
  BY <1>1, CollectedHeaders
<1>3. n \in 1 .. n /\ dataHeaders[n] \in D /\ n \in Nat
  BY <1>2, CollectedFacts
<1>4. Total(dataHeaders) = End(last) /\ Total(dataHeaders) \in Size
  BY <1>2, <1>3, EndFacts, TotalFacts DEF Total, TypeOK
<1>5. \A i \in 1 .. n : End(file.segments[dataHeaders[i]]) =< End(last)
  BY <1>1, <1>2, <1>3, LastEndsLast
<1>6. ASSUME End(last) =< MemorySize, NEW x \in D
      PROVE  End(file.segments[x]) =< MemorySize
  <2>1. PICK i \in 1 .. n : dataHeaders[i] = x
    BY <1>2 DEF Collected
  <2>2. End(file.segments[x]) =< End(last)
    BY <1>5, <2>1
  <2>3. file.segments[x] \in SegmentHeader /\ last \in SegmentHeader
    BY <1>2, <1>3, <2>1, CollectedFacts
  <2>. QED  BY <1>6, <2>2, <2>3, HeaderFacts, SizesAssumption DEF Size
<1>7. Image!WellFormed(file) <=> End(last) =< MemorySize
  BY <1>3, <1>6, ValidatedFile
<1>. QED  BY <1>4, <1>5, <1>7

(***************************************************************************)
(* Without data the memory stays empty.                                    *)
(***************************************************************************)
LEMMA NoData ==
  ASSUME TypeOK, Image!SumsFit(file), Established, phase \in AfterCodeContiguous,
         dataHeaders = << >>
  PROVE  Image!WellFormed(file) /\ Image!MemoryImage(file) = Image!EmptyMemory
<1>1. Image!DataSegments(file) = {}
  BY ValidatedHeaders, CollectedHeaders, CollectedFacts
<1>. QED
  BY <1>1, ValidatedFile DEF Image!MemoryImage, Image!EmptyMemory, Image!Origin

(***************************************************************************)
(* A copy into a buffer that reaches to the end of the last segment stays  *)
(* within the file and the buffer.                                         *)
(***************************************************************************)
LEMMA CopyDefined ==
  ASSUME TypeOK, Image!SumsFit(file), Established, phase \in AfterCodeContiguous,
         NEW S \in SUBSET Image!LoadSegments(file), NEW h, Collected(h, S),
         NotTruncated(file, h), Apart(file, h, Len(h)), NEW n \in 1 .. Len(h)
  PROVE  CopyInBounds(Segment(h[n]), End(file.segments[h[Len(h)]]))
<1> DEFINE s == file.segments[h[n]]
           last == file.segments[h[Len(h)]]
<1>1. file \in ElfFile /\ Image!InFile(file)
  BY ValidatedHeaders, CollectedHeaders
<1>2. Len(h) \in Nat /\ Len(h) \in 1 .. Len(h) /\ h[n] \in S
  BY <1>1, CollectedFacts
<1>3. s \in SegmentHeader /\ last \in SegmentHeader
  BY <1>1, <1>2, CollectedFacts
<1>4. s.sourceStart + s.sourceSize =< file.size
  BY <1>1, <1>2 DEF Image!InFile
<1>5. End(s) =< End(last)
  BY <1>1, <1>2, LastEndsLast
<1>6. s.sourceSize =< s.destinationSize
  BY DEF NotTruncated
<1> HIDE DEF s, last
<1>7. s.destinationStart + s.sourceSize =< End(last)
  BY <1>3, <1>5, <1>6, HeaderFacts DEF End
<1>. QED  BY <1>4, <1>7 DEF CopyInBounds, Segment, s, last

-----------------------------------------------------------------------------
(***************************************************************************)
(* What the steps of the mapping leave alone.                              *)
(***************************************************************************)
LEMMA SameHeaders ==
  ASSUME Established, phase \in AfterCodeContiguous,
         phase' \in AfterCodeContiguous, UNCHANGED <<file, headers>>
  PROVE  HeadersEstablished' /\ DataEstablished' /\ CodeEstablished'
<1> USE DEF AfterCopyCode, AfterAllocateCode, AfterCopyData, AfterCodeContiguous,
      AfterCodeSizes, AfterDataOverlap, AfterDataSizes, AfterSorting,
      AfterReading, AfterHeader
<1>1. file' = file /\ dataHeaders' = dataHeaders /\ codeHeaders' = codeHeaders
  BY DEF headers
<1>2. HeadersEstablished /\ DataEstablished /\ CodeEstablished
  BY DEF Established
<1>3. HeadersEstablished'
  BY <1>1, <1>2 DEF HeadersEstablished
<1>4. DataEstablished'
  BY <1>1, <1>2 DEF DataEstablished
<1>5. CodeEstablished'
  BY <1>1, <1>2 DEF CodeEstablished
<1>. QED  BY <1>3, <1>4, <1>5

(***************************************************************************)
(* An exception while the program is mapped                                *)
(***************************************************************************)
LEMMA ThrownWhileMapping ==
  ASSUME phase' = "rejected", instructions' = << >>,
         (blocks # << >>)' => Image!WellFormed(file)'
  PROVE  Established'
BY DEF Established, HeadersEstablished, DataEstablished, CodeEstablished,
       MappingEstablished, AfterCopyCode, AfterAllocateCode,
       AfterCopyData, AfterCodeContiguous, AfterCodeSizes, AfterDataOverlap,
       AfterDataSizes, AfterSorting, AfterReading, AfterHeader

LEMMA AllocateDataStep ==
  ASSUME TypeOK, Image!SumsFit(file), Established, AllocateDataMemory
  PROVE  Established'
<1> DEFINE last == file.segments[dataHeaders[Len(dataHeaders)]]
<1>1. phase = "mapData" /\ UNCHANGED <<file, headers, codeMemory, instructions>>
  BY DEF AllocateDataMemory
<1>2. phase \in AfterCodeContiguous
  BY <1>1 DEF AfterCodeContiguous
<1>3. /\ freeSpace = MemorySize /\ blocks = << >> /\ memory = Image!EmptyMemory
      /\ codeMemory = << >> /\ instructions = << >>
  BY <1>1, NothingMappedYet
  DEF NothingMapped, AfterCopyCode, AfterAllocateCode, AfterCopyData
<1>4. file' = file /\ dataHeaders' = dataHeaders /\ codeHeaders' = codeHeaders
  BY <1>1 DEF headers
<1>5. CASE dataHeaders = << >>
  <2>1. phase' = "mapCode" /\ UNCHANGED <<arena, memory>>
    BY <1>5 DEF AllocateDataMemory, Enter
  <2>2. Image!WellFormed(file) /\ Image!MemoryImage(file) = Image!EmptyMemory
    BY <1>2, <1>5, NoData
  <2>3. HeadersEstablished' /\ DataEstablished' /\ CodeEstablished'
    BY <1>1, <1>2, <2>1, SameHeaders DEF AfterCodeContiguous, AfterCopyData
  <2>4. MappingEstablished'
    BY <1>1, <1>3, <1>4, <2>1, <2>2
    DEF MappingEstablished, arena, AfterCopyData, AfterAllocateCode, AfterCopyCode
  <2>. QED  BY <2>1, <2>3, <2>4 DEF Established
<1>6. CASE dataHeaders # << >>
  <2>1. /\ Total(dataHeaders) = End(last) /\ Total(dataHeaders) \in Size
        /\ Image!WellFormed(file) <=> End(last) =< MemorySize
    BY <1>2, <1>6, DataSize
  <2>2. Memory!AllocateArray(Byte, Total(dataHeaders))
    BY <1>6 DEF AllocateDataMemory
  <2>3. /\ thrown' <=> Total(dataHeaders) > MemorySize
        /\ thrown' => blocks' = blocks
        /\ ~thrown' => /\ Len(blocks') = 1
                       /\ blocks'[1].offset = MemorySize - MemorySize
                       /\ blocks'[1].size = Total(dataHeaders)
    BY <1>3, <2>1, <2>2, AllocateFacts
  <2>4. CASE thrown'
    <3>1. phase' = "rejected" /\ instructions' = << >> /\ blocks' = << >>
      BY <1>1, <1>3, <1>6, <2>3, <2>4 DEF AllocateDataMemory, Throw
    <3>. QED  BY <3>1, ThrownWhileMapping
  <2>5. CASE ~thrown'
    <3>1. /\ phase' = "copyData" /\ next' = 1
          /\ memory' = Cleared(memory, blocks'[1])
      BY <1>6, <2>5 DEF AllocateDataMemory, Enter
    <3>2. Image!WellFormed(file)
      BY <2>1, <2>3, <2>5, SizesAssumption DEF Size
    <3>3. blocks'[1].offset = 0
      BY <2>3, <2>5, SizesAssumption DEF Size
    <3>4. CopiedBefore(memory', file, dataHeaders, 1)
      <4>1. \A a \in DOMAIN memory' : memory'[a] = Zero
        BY <1>3, <3>1 DEF Cleared, Image!EmptyMemory, Image!Zero, Zero
      <4>. QED  BY <4>1, NothingCopied
    <3>5. HeadersEstablished' /\ DataEstablished' /\ CodeEstablished'
      BY <1>1, <1>2, <3>1, SameHeaders DEF AfterCodeContiguous
    <3>6. MappingEstablished'
      BY <1>1, <1>3, <1>4, <1>6, <2>1, <2>3, <2>5, <3>1, <3>2, <3>3, <3>4
      DEF MappingEstablished, AfterCopyData, AfterAllocateCode, AfterCopyCode
    <3>. QED  BY <3>1, <3>5, <3>6 DEF Established
  <2>. QED  BY <2>4, <2>5
<1>. QED  BY <1>5, <1>6

(***************************************************************************)
(* Copying the data; the second conclusion says that nothing is copied     *)
(* twice.                                                                  *)
(***************************************************************************)
LEMMA CopyDataFacts ==
  ASSUME TypeOK, Image!SumsFit(file), Established, CopyDataSegment
  PROVE  /\ phase = "copyData" /\ phase' = "copyData" /\ next' = next + 1
         /\ CopiedBefore(memory', file, dataHeaders, next + 1)
         /\ DOMAIN memory' = DOMAIN memory
         /\ \A a \in DOMAIN memory : memory[a] # Zero => memory'[a] = memory[a]
<1> DEFINE D == Image!DataSegments(file)
           n == Len(dataHeaders)
           s == Segment(dataHeaders[next])
<1>1. phase = "copyData" /\ phase \in AfterCodeContiguous /\ next =< n
  BY DEF CopyDataSegment, AfterCodeContiguous
<1>2. /\ dataHeaders # << >>
      /\ blocks[1].offset = 0
      /\ blocks[1].size = End(file.segments[dataHeaders[n]])
      /\ CopiedBefore(memory, file, dataHeaders, next)
  BY <1>1 DEF Established, MappingEstablished
<1>3. /\ NotTruncated(file, dataHeaders) /\ Apart(file, dataHeaders, n)
      /\ file \in ElfFile /\ D \in SUBSET Image!LoadSegments(file)
      /\ Collected(dataHeaders, D)
  BY <1>1, ValidatedHeaders, CollectedHeaders
<1>4. next \in 1 .. n
  BY <1>1, FileFacts DEF TypeOK
<1>5. CopyInBounds(s, blocks[1].size)
  BY <1>1, <1>2, <1>3, <1>4, CopyDefined
<1>6. /\ memory' = Copied(memory, 0, file.segments[dataHeaders[next]])
      /\ phase' = "copyData" /\ next' = next + 1
  BY <1>1, <1>2, <1>5 DEF CopyDataSegment, Continue, Segment
<1>7. DOMAIN memory \subseteq Nat
  BY SizesAssumption DEF TypeOK, Size
<1>8. DOMAIN memory' = DOMAIN memory
  BY <1>6 DEF Copied
<1>9. /\ CopiedBefore(memory', file, dataHeaders, next + 1)
      /\ \A a \in DOMAIN memory : memory[a] # Zero => memory'[a] = memory[a]
  BY <1>2, <1>3, <1>4, <1>6, <1>7, CopyStep
<1>. QED  BY <1>1, <1>6, <1>8, <1>9

LEMMA CopyDataStep ==
  ASSUME TypeOK, Image!SumsFit(file), Established,
         CopyDataSegment \/ DataSegmentsCopied
  PROVE  Established'
<1>1. /\ phase = "copyData" /\ phase \in AfterCodeContiguous
      /\ UNCHANGED <<file, headers, arena, codeMemory, instructions>>
  BY DEF CopyDataSegment, DataSegmentsCopied, AfterCodeContiguous, results
<1>2. /\ Len(blocks) = 1 /\ dataHeaders # << >>
      /\ blocks[1].offset = 0
      /\ blocks[1].size = End(file.segments[dataHeaders[Len(dataHeaders)]])
      /\ CopiedBefore(memory, file, dataHeaders, next)
      /\ codeMemory = << >> /\ instructions = << >>
  BY <1>1
  DEF Established, MappingEstablished, AfterCopyData, AfterAllocateCode, AfterCopyCode
<1>3. file' = file /\ dataHeaders' = dataHeaders /\ codeHeaders' = codeHeaders
        /\ blocks' = blocks
  BY <1>1 DEF headers, arena
<1>4. Image!WellFormed(file)
  <2>1. blocks # << >>
    BY <1>2
  <2>. QED  BY <2>1 DEF Established, MappingEstablished
<1>5. CASE CopyDataSegment
  <2>1. /\ phase' = "copyData" /\ next' = next + 1
        /\ CopiedBefore(memory', file, dataHeaders, next + 1)
    BY <1>5, CopyDataFacts
  <2>2. HeadersEstablished' /\ DataEstablished' /\ CodeEstablished'
    BY <1>1, <2>1, SameHeaders
  <2>3. MappingEstablished'
    BY <1>1, <1>2, <1>3, <1>4, <2>1
    DEF MappingEstablished, AfterCopyData, AfterAllocateCode, AfterCopyCode
  <2>. QED  BY <2>1, <2>2, <2>3 DEF Established
<1>6. CASE DataSegmentsCopied
  <2>1. phase' = "mapCode" /\ memory' = memory /\ next > Len(dataHeaders)
    BY <1>6 DEF DataSegmentsCopied, Enter, results
  <2>2. memory = Image!MemoryImage(file)
    <3>1. \A a \in DOMAIN memory :
            memory[a] = Image!Origin(file, Image!DataSegments(file), a)
      BY <1>1, <1>2, <2>1, ValidatedHeaders, CollectedHeaders, AllCopied, FileFacts
    <3>2. memory \in [0 .. MemorySize - 1 -> Int]
      BY DEF TypeOK
    <3>. QED  BY <3>1, <3>2 DEF Image!MemoryImage
  <2>3. HeadersEstablished' /\ DataEstablished' /\ CodeEstablished'
    BY <1>1, <2>1, SameHeaders DEF AfterCodeContiguous, AfterCopyData
  <2>4. MappingEstablished'
    BY <1>1, <1>2, <1>3, <1>4, <2>1, <2>2
    DEF MappingEstablished, AfterCopyData, AfterAllocateCode, AfterCopyCode
  <2>. QED  BY <2>1, <2>3, <2>4 DEF Established
<1>. QED  BY <1>5, <1>6

-----------------------------------------------------------------------------
(***************************************************************************)
(* What holds when the data has been mapped.                               *)
(***************************************************************************)
LEMMA MappedData ==
  ASSUME TypeOK, Image!SumsFit(file), Established, phase \in AfterCopyData
  PROVE  /\ phase \in AfterCodeContiguous
         /\ Image!WellFormed(file) /\ memory = Image!MemoryImage(file)
         /\ file \in ElfFile
         /\ Image!CodeSegments(file) \in SUBSET Image!LoadSegments(file)
         /\ Collected(codeHeaders, Image!CodeSegments(file))
         /\ codeHeaders # << >>
         /\ Total(codeHeaders) = End(file.segments[codeHeaders[Len(codeHeaders)]])
<1>1. phase \in AfterCodeContiguous
  BY DEF AfterCodeContiguous
<1>2. /\ file \in ElfFile
      /\ Image!CodeSegments(file) \in SUBSET Image!LoadSegments(file)
      /\ Collected(codeHeaders, Image!CodeSegments(file))
      /\ codeHeaders # << >> /\ Len(codeHeaders) \in 1 .. Len(codeHeaders)
  BY <1>1, ValidatedHeaders, CollectedHeaders DEF CodeFits
<1>3. Total(codeHeaders) = End(file.segments[codeHeaders[Len(codeHeaders)]])
  BY <1>2, EndFacts DEF Total
<1>. QED  BY <1>1, <1>2, <1>3 DEF Established, MappingEstablished

\* The part of MappingEstablished that the mapping of the code works on
CodeMapped ==
  /\ phase = "copyCode" =>
       /\ codeMemory \in
            [0 .. End(file.segments[codeHeaders[Len(codeHeaders)]]) - 1 -> Int]
       /\ CopiedBefore(codeMemory, file, codeHeaders, next)
  /\ phase \in AfterCopyCode => codeMemory = Image!CodeImage(file)
  /\ phase # "loaded" => instructions = << >>

LEMMA CodeStep ==
  ASSUME TypeOK, Image!SumsFit(file), Established, phase \in AfterCopyData,
         UNCHANGED <<file, headers, arena, memory>>,
         phase' \in AfterAllocateCode, CodeMapped'
  PROVE  Established'
<1>1. phase \in AfterCodeContiguous /\ phase' \in AfterCodeContiguous
  BY DEF AfterCodeContiguous, AfterCopyData
<1>2. HeadersEstablished' /\ DataEstablished' /\ CodeEstablished'
  BY <1>1, SameHeaders
<1>3. Image!WellFormed(file) /\ memory = Image!MemoryImage(file)
  BY MappedData
<1>4. file' = file /\ memory' = memory
  OBVIOUS
<1>5. MappingEstablished'
  BY <1>3, <1>4
  DEF MappingEstablished, CodeMapped, AfterCopyData, AfterAllocateCode, AfterCopyCode
<1>6. phase' # "undefined"
  BY DEF AfterAllocateCode, AfterCopyCode
<1>. QED  BY <1>2, <1>5, <1>6 DEF Established

LEMMA ThrownWhileMappingCode ==
  ASSUME TypeOK, Image!SumsFit(file), Established, phase \in AfterCopyData,
         UNCHANGED file, phase' = "rejected", instructions' = instructions,
         phase # "loaded"
  PROVE  Established'
<1>1. Image!WellFormed(file)' /\ instructions' = << >>
  BY MappedData DEF Established, MappingEstablished
<1>. QED  BY <1>1, ThrownWhileMapping

LEMMA AllocateCodeStep ==
  ASSUME TypeOK, Image!SumsFit(file), Established, AllocateCodeMemory
  PROVE  Established'
<1> DEFINE size == End(file.segments[codeHeaders[Len(codeHeaders)]])
           fresh == [a \in 0 .. Total(codeHeaders) - 1 |-> Zero]
<1>1. /\ phase = "mapCode" /\ phase \in AfterCopyData
      /\ UNCHANGED <<file, headers, arena, memory, instructions>>
  BY DEF AllocateCodeMemory, AfterCopyData
<1>2. Total(codeHeaders) = size
  BY <1>1, MappedData
<1>3. instructions = << >>
  BY <1>1 DEF Established, MappingEstablished
<1>4. CASE phase' = "rejected"
  BY <1>1, <1>4, ThrownWhileMappingCode
<1>5. CASE phase' # "rejected"
  <2>1. phase' = "copyCode" /\ next' = 1 /\ codeMemory' = fresh
    BY <1>5 DEF AllocateCodeMemory, Enter, Throw
  <2>2. fresh \in [0 .. size - 1 -> Int]
    BY <1>2 DEF Zero
  <2>3. CopiedBefore(fresh, file, codeHeaders, 1)
    BY NothingCopied
  <2>4. CodeMapped'
    BY <1>1, <1>3, <2>1, <2>2, <2>3 DEF CodeMapped, headers, AfterCopyCode
  <2>. QED  BY <1>1, <2>1, <2>4, CodeStep DEF AfterAllocateCode
<1>. QED  BY <1>4, <1>5

(***************************************************************************)
(* Copying the code                                                        *)
(***************************************************************************)
LEMMA CopyCodeFacts ==
  ASSUME TypeOK, Image!SumsFit(file), Established, CopyCodeSegment
  PROVE  /\ phase = "copyCode" /\ phase' = "copyCode" /\ next' = next + 1
         /\ CopiedBefore(codeMemory', file, codeHeaders, next + 1)
         /\ codeMemory' \in
              [0 .. End(file.segments[codeHeaders[Len(codeHeaders)]]) - 1 -> Int]
         /\ \A a \in DOMAIN codeMemory :
              codeMemory[a] # Zero => codeMemory'[a] = codeMemory[a]
<1> DEFINE C == Image!CodeSegments(file)
           n == Len(codeHeaders)
           size == End(file.segments[codeHeaders[n]])
           s == Segment(codeHeaders[next])
<1>1. phase = "copyCode" /\ phase \in AfterCopyData /\ next =< n
  BY DEF CopyCodeSegment, AfterCopyData, AfterAllocateCode
<1>2. /\ codeMemory \in [0 .. size - 1 -> Int]
      /\ CopiedBefore(codeMemory, file, codeHeaders, next)
  BY <1>1 DEF Established, MappingEstablished
<1>3. /\ phase \in AfterCodeContiguous
      /\ file \in ElfFile /\ C \in SUBSET Image!LoadSegments(file)
      /\ Collected(codeHeaders, C) /\ Total(codeHeaders) = size
      /\ NotTruncated(file, codeHeaders) /\ Apart(file, codeHeaders, n)
  BY <1>1, MappedData, ValidatedHeaders
<1>4. next \in 1 .. n
  BY <1>1, FileFacts DEF TypeOK
<1>5. CopyInBounds(s, Total(codeHeaders))
  BY <1>1, <1>3, <1>4, CopyDefined
<1>6. /\ codeMemory' = Copied(codeMemory, 0, file.segments[codeHeaders[next]])
      /\ phase' = "copyCode" /\ next' = next + 1
  BY <1>1, <1>5 DEF CopyCodeSegment, Continue, Segment
<1>7. DOMAIN codeMemory \subseteq Nat
  <2>1. DOMAIN codeMemory = 0 .. size - 1
    BY <1>2
  <2>2. file.segments[codeHeaders[n]] \in SegmentHeader
    BY <1>3, ValidatedHeaders, CollectedFacts
  <2>3. size \in Nat
    BY <2>2, HeaderFacts
  <2>. QED  BY <2>1, <2>3
<1>8. codeMemory' \in [0 .. size - 1 -> Int]
  <2>1. file.segments[codeHeaders[next]] \in SegmentHeader
    BY <1>3, <1>4, CollectedFacts
  <2>. QED  BY <1>2, <1>6, <2>1, CopiedIsInt
<1> HIDE DEF size, C
<1>9. /\ CopiedBefore(codeMemory', file, codeHeaders, next + 1)
      /\ \A a \in DOMAIN codeMemory :
           codeMemory[a] # Zero => codeMemory'[a] = codeMemory[a]
  <2>1. CopiedBefore(codeMemory, file, codeHeaders, next)
    BY <1>2
  <2>. QED  BY <1>3, <1>4, <1>6, <1>7, <2>1, CopyStep
<1>. QED  BY <1>1, <1>6, <1>8, <1>9 DEF size

LEMMA CopyCodeStep ==
  ASSUME TypeOK, Image!SumsFit(file), Established,
         CopyCodeSegment \/ CodeSegmentsCopied
  PROVE  Established'
<1> DEFINE C == Image!CodeSegments(file)
           n == Len(codeHeaders)
           size == End(file.segments[codeHeaders[n]])
<1>1. /\ phase = "copyCode" /\ phase \in AfterCopyData
      /\ UNCHANGED <<file, headers, arena, memory, instructions>>
  BY DEF CopyCodeSegment, CodeSegmentsCopied, AfterCopyData, AfterAllocateCode, results
<1>2. /\ codeMemory \in [0 .. size - 1 -> Int]
      /\ CopiedBefore(codeMemory, file, codeHeaders, next)
      /\ instructions = << >>
  BY <1>1 DEF Established, MappingEstablished
<1>3. file' = file /\ codeHeaders' = codeHeaders
  BY <1>1 DEF headers
<1>4. CASE CopyCodeSegment
  <2>1. /\ phase' = "copyCode" /\ next' = next + 1
        /\ CopiedBefore(codeMemory', file, codeHeaders, next + 1)
        /\ codeMemory' \in [0 .. size - 1 -> Int]
    BY <1>4, CopyCodeFacts
  <2>2. CodeMapped'
    BY <1>1, <1>2, <1>3, <2>1 DEF CodeMapped, AfterCopyCode
  <2>. QED  BY <1>1, <2>1, <2>2, CodeStep DEF AfterAllocateCode
<1>5. CASE CodeSegmentsCopied
  <2>1. phase' = "decode" /\ codeMemory' = codeMemory /\ next > n
    BY <1>5 DEF CodeSegmentsCopied, Enter, results
  <2>2. codeMemory = Image!CodeImage(file)
    <3>1. /\ file \in ElfFile /\ C \in SUBSET Image!LoadSegments(file)
          /\ Collected(codeHeaders, C) /\ codeHeaders # << >>
          /\ NotTruncated(file, codeHeaders)
          /\ Apart(file, codeHeaders, n) /\ Covered(file, codeHeaders, n)
      BY <1>1, MappedData, ValidatedHeaders
    <3>2. \A a \in DOMAIN codeMemory : codeMemory[a] = Image!Origin(file, C, a)
      <4> HIDE DEF size, C
      <4>1. next \in Nat
        BY FileFacts
      <4>2. CopiedBefore(codeMemory, file, codeHeaders, next)
        BY <1>2
      <4>. QED  BY <2>1, <3>1, <4>1, <4>2, AllCopied
    <3>3. UNION {Image!Destination(file.segments[x]) : x \in C} = 0 .. size - 1
      BY <3>1, CodeAddresses
    <3>. QED  BY <1>2, <3>2, <3>3 DEF Image!CodeImage
  <2>3. CodeMapped'
    BY <1>1, <1>2, <1>3, <2>1, <2>2 DEF CodeMapped
  <2>. QED  BY <1>1, <2>1, <2>3, CodeStep DEF AfterAllocateCode, AfterCopyCode
<1>. QED  BY <1>4, <1>5

LEMMA SetInstructionsStep ==
  ASSUME TypeOK, Image!SumsFit(file), Established, SetDecodedInstructions
  PROVE  /\ Established'
         /\ phase' = "loaded" => instructions' = Image!CodeImage(file)
<1>1. /\ phase = "decode" /\ phase \in AfterCopyData
      /\ UNCHANGED <<file, headers, arena, memory, codeMemory>>
  BY DEF SetDecodedInstructions, AfterCopyData, AfterAllocateCode, AfterCopyCode
<1>2. codeMemory = Image!CodeImage(file)
  BY <1>1 DEF Established, MappingEstablished, AfterCopyCode
<1>3. CASE phase' = "rejected"
  <2>1. instructions' = instructions
    BY <1>3 DEF SetDecodedInstructions, Enter
  <2>. QED  BY <1>1, <1>3, <2>1, ThrownWhileMappingCode
<1>4. CASE phase' # "rejected"
  <2>1. phase' = "loaded" /\ instructions' = codeMemory
    BY <1>4 DEF SetDecodedInstructions, Enter, Throw
  <2>2. CodeMapped'
    BY <1>1, <1>2, <2>1 DEF CodeMapped
  <2>. QED  BY <1>1, <1>2, <2>1, <2>2, CodeStep DEF AfterAllocateCode, AfterCopyCode
<1>. QED  BY <1>3, <1>4

-----------------------------------------------------------------------------
(***************************************************************************)
(* The invariant is inductive.                                             *)
(***************************************************************************)
LEMMA LoaderInvInit == ASSUME Init PROVE LoaderInv
BY TypeInit, EstablishedInit DEF LoaderInv

LEMMA LoaderInvStep ==
  ASSUME LoaderInv, [Next]_vars
  PROVE  LoaderInv'
<1>1. TypeOK /\ TypeOK'
  BY TypeStep DEF LoaderInv
<1>2. file' = file
  BY DEF Next, vars, ReadElfHeader, ReadSegmentHeader, SegmentHeadersRead, SortHeaders,
         ValidateDataSizes, ValidateDataOverlap, ValidateCodeSizes,
         ValidateCodeContiguous, AllocateDataMemory, CopyDataSegment,
         DataSegmentsCopied, AllocateCodeMemory, CopyCodeSegment,
         CodeSegmentsCopied, SetDecodedInstructions
<1>3. ASSUME Image!SumsFit(file) PROVE Established'
  <2>1. Established
    BY <1>3 DEF LoaderInv
  <2>2. CASE ReadElfHeader \/ ReadSegmentHeader \/ SegmentHeadersRead
    BY <1>1, <1>3, <2>1, <2>2, ReadingStep
  <2>3. CASE SortHeaders
    BY <1>1, <1>3, <2>1, <2>3, SortStep
  <2>4. CASE ValidateDataSizes \/ ValidateDataOverlap
    BY <1>1, <1>3, <2>1, <2>4, ValidateDataStep
  <2>5. CASE ValidateCodeSizes \/ ValidateCodeContiguous
    BY <1>1, <1>3, <2>1, <2>5, ValidateCodeStep
  <2>6. CASE AllocateDataMemory
    BY <1>1, <1>3, <2>1, <2>6, AllocateDataStep
  <2>7. CASE CopyDataSegment \/ DataSegmentsCopied
    BY <1>1, <1>3, <2>1, <2>7, CopyDataStep
  <2>8. CASE AllocateCodeMemory
    BY <1>1, <1>3, <2>1, <2>8, AllocateCodeStep
  <2>9. CASE CopyCodeSegment \/ CodeSegmentsCopied
    BY <1>1, <1>3, <2>1, <2>9, CopyCodeStep
  <2>10. CASE SetDecodedInstructions
    BY <1>1, <1>3, <2>1, <2>10, SetInstructionsStep
  <2>11. CASE UNCHANGED vars
    BY <2>1, <2>11
    DEF vars, Established, HeadersEstablished, DataEstablished, CodeEstablished,
        MappingEstablished
  <2>. QED
    BY <2>2, <2>3, <2>4, <2>5, <2>6, <2>7, <2>8, <2>9, <2>10, <2>11 DEF Next
<1>. QED  BY <1>1, <1>2, <1>3 DEF LoaderInv

LEMMA LoaderInvariant == Spec => []LoaderInv
BY LoaderInvInit, LoaderInvStep, PTL DEF Spec

(***************************************************************************)
(* loadElf does not read or write outside a buffer.                        *)
(***************************************************************************)
THEOREM LoadingIsDefined == Spec => []LoadingDefined
<1>1. LoaderInv => LoadingDefined
  BY DEF LoaderInv, Established, LoadingDefined
<1>. QED  BY <1>1, LoaderInvariant, PTL

(***************************************************************************)
(* Nothing of the emulator changes for the sake of a file that is not      *)
(* well-formed.                                                            *)
(***************************************************************************)
THEOREM BadFilesTakeNothing == Spec => []NothingTakenFromBadFiles
<1>1. LoaderInv => NothingTakenFromBadFiles
  BY DEF LoaderInv, Established, MappingEstablished, NothingTakenFromBadFiles,
         AfterCopyData, AfterAllocateCode, AfterCopyCode
<1>. QED  BY <1>1, LoaderInvariant, PTL

(***************************************************************************)
(* Every byte is loaded at most once.                                      *)
(***************************************************************************)
THEOREM NoByteLoadedTwice == Spec => BytesLoadedOnce
<1> DEFINE Kept ==
      /\ \A a \in DOMAIN memory : memory[a] # Zero => memory'[a] = memory[a]
      /\ \A a \in DOMAIN codeMemory :
           codeMemory[a] # Zero => codeMemory'[a] = codeMemory[a]
<1>1. ASSUME LoaderInv, Image!SumsFit(file), [Next]_vars PROVE Kept
  <2>1. TypeOK /\ Established
    BY <1>1 DEF LoaderInv
  <2>2. CASE memory' = memory /\ codeMemory' = codeMemory
    BY <2>2
  <2>3. CASE AllocateDataMemory
    <3>1. memory = Image!EmptyMemory /\ codeMemory' = codeMemory
      BY <2>1, <2>3, NothingMappedYet
      DEF AllocateDataMemory, NothingMapped, AfterCopyData, AfterAllocateCode, AfterCopyCode
    <3>2. \A a \in DOMAIN memory : memory[a] = Zero
      BY <3>1 DEF Image!EmptyMemory, Image!Zero, Zero
    <3>. QED  BY <3>1, <3>2
  <2>4. CASE CopyDataSegment
    <3>1. codeMemory' = codeMemory
      BY <2>4 DEF CopyDataSegment
    <3>. QED  BY <1>1, <2>1, <2>4, <3>1, CopyDataFacts
  <2>5. CASE AllocateCodeMemory
    <3>1. codeMemory = << >> /\ memory' = memory
      BY <2>1, <2>5
      DEF AllocateCodeMemory, Established, MappingEstablished, AfterAllocateCode, AfterCopyCode
    <3>2. DOMAIN codeMemory = {}
      BY <3>1
    <3>. QED  BY <3>1, <3>2
  <2>6. CASE CopyCodeSegment
    <3>1. memory' = memory
      BY <2>6 DEF CopyCodeSegment
    <3>. QED  BY <1>1, <2>1, <2>6, <3>1, CopyCodeFacts
  <2>. QED
    BY <1>1, <2>2, <2>3, <2>4, <2>5, <2>6
    DEF Next, vars, results, ReadElfHeader, ReadSegmentHeader, SegmentHeadersRead,
        SortHeaders, ValidateDataSizes, ValidateDataOverlap, ValidateCodeSizes,
        ValidateCodeContiguous, DataSegmentsCopied, CodeSegmentsCopied,
        SetDecodedInstructions
<1>2. LoaderInv /\ [Next]_vars => [Image!SumsFit(file) => Kept]_vars
  BY <1>1
<1>. QED  BY <1>2, LoaderInvariant, PTL DEF Spec, BytesLoadedOnce

-----------------------------------------------------------------------------
(***************************************************************************)
(* Refinement.  The checks reject only files that are not well-formed:     *)
(* what a comparison of neighbours finds is an overlap, or a gap, of the   *)
(* sets of addresses.                                                      *)
(***************************************************************************)
LEMMA DataChecksComplete ==
  ASSUME TypeOK, Image!SumsFit(file), Established, phase' = "rejected",
         ValidateDataSizes \/ ValidateDataOverlap
  PROVE  ~Image!ValidData(file)
<1> DEFINE D == Image!DataSegments(file)
           n == Len(dataHeaders)
<1>1. phase \in AfterReading /\ phase \in AfterSorting
  BY DEF ValidateDataSizes, ValidateDataOverlap, AfterReading, AfterSorting, AfterDataSizes
<1>2. /\ file \in ElfFile /\ D \in SUBSET Image!LoadSegments(file)
      /\ Collected(dataHeaders, D)
      /\ n \in Nat /\ DOMAIN dataHeaders = 1 .. n
      /\ Ascending(file, dataHeaders)
  BY <1>1, CollectedHeaders, FileFacts DEF Established, HeadersEstablished
<1>3. CASE ValidateDataSizes
  <2>1. PICK i \in 1 .. n : Truncated(Segment(dataHeaders[i]))
    BY <1>2, <1>3 DEF ValidateDataSizes, Enter
  <2>2. /\ dataHeaders[i] \in D
        /\ Segment(dataHeaders[i]) = file.segments[dataHeaders[i]]
        /\ Segment(dataHeaders[i]) \in SegmentHeader
    BY <1>2, CollectedFacts, EndFacts
  <2>3. ~(file.segments[dataHeaders[i]].sourceSize
            =< file.segments[dataHeaders[i]].destinationSize)
    BY <2>1, <2>2, HeaderFacts DEF Truncated
  <2>. QED  BY <2>2, <2>3 DEF Image!ValidData
<1>4. CASE ValidateDataOverlap
  <2> DEFINE s == file.segments[dataHeaders[next]]
             t == file.segments[dataHeaders[next + 1]]
  <2>1. /\ phase = "dataOverlap" /\ next < n
        /\ Overlaps(Segment(dataHeaders[next]), Segment(dataHeaders[next + 1]))
    BY <1>4 DEF ValidateDataOverlap, Continue, Enter
  <2>2. next \in 1 .. n - 1 /\ next \in 1 .. n /\ next + 1 \in 1 .. n
    BY <1>2, <2>1 DEF TypeOK
  <2>3. NotTruncated(file, dataHeaders)
    BY <2>1 DEF Established, DataEstablished, AfterDataSizes
  <2>4. End(s) > t.destinationStart
    BY <1>2, <2>1, <2>2, EndFacts DEF Overlaps
  <2>5. ~Image!Disjoint(file, D)
    BY <1>2, <2>2, <2>3, <2>4, OverlapIsNotDisjoint
  <2>. QED  BY <2>5 DEF Image!ValidData
<1>. QED  BY <1>3, <1>4

LEMMA CodeChecksComplete ==
  ASSUME TypeOK, Image!SumsFit(file), Established, phase' = "rejected",
         ValidateCodeSizes \/ ValidateCodeContiguous
  PROVE  ~Image!ValidCode(file)
<1> DEFINE C == Image!CodeSegments(file)
           n == Len(codeHeaders)
<1>1. phase \in AfterReading /\ phase \in AfterSorting
  BY DEF ValidateCodeSizes, ValidateCodeContiguous, AfterReading, AfterSorting,
         AfterDataSizes, AfterDataOverlap, AfterCodeSizes
<1>2. /\ file \in ElfFile /\ C \in SUBSET Image!LoadSegments(file)
      /\ Collected(codeHeaders, C)
      /\ n \in Nat /\ DOMAIN codeHeaders = 1 .. n
      /\ Ascending(file, codeHeaders)
  BY <1>1, CollectedHeaders, FileFacts DEF Established, HeadersEstablished
<1>3. \A i \in 1 .. n :
        /\ codeHeaders[i] \in C
        /\ Segment(codeHeaders[i]) = file.segments[codeHeaders[i]]
        /\ file.segments[codeHeaders[i]] \in SegmentHeader
  BY <1>2, CollectedFacts, EndFacts
<1> SUFFICES ASSUME Image!ValidCode(file) PROVE FALSE
  OBVIOUS
<1>4. /\ C # {}
      /\ \A x \in C : file.segments[x].sourceSize = file.segments[x].destinationSize
      /\ Image!Disjoint(file, C)
      /\ \A x \in C : \A a \in 0 .. file.segments[x].destinationStart - 1 :
           \E y \in C : a \in Image!Destination(file.segments[y])
  BY DEF Image!ValidCode
<1>5. CASE ValidateCodeSizes
  <2> DEFINE first == file.segments[codeHeaders[1]]
  <2>1. codeHeaders # << >> /\ 1 \in 1 .. n
    <3>1. codeHeaders # << >> /\ n > 0
      BY <1>2, <1>4, CollectedFacts
    <3>. QED  BY <1>2, <3>1
  <2>2. ~CodeHeadersFit
    BY <1>5 DEF ValidateCodeSizes, Enter
  <2>3. first.destinationStart # 0
    BY <1>2, <1>3, <1>4, <2>1, <2>2 DEF CodeHeadersFit
  <2>4. first \in SegmentHeader /\ codeHeaders[1] \in C
    BY <1>3, <2>1
  <2>5. 0 \in 0 .. first.destinationStart - 1
    BY <2>3, <2>4, HeaderFacts
  <2>6. PICK y \in C : 0 \in Image!Destination(file.segments[y])
    BY <1>4, <2>4, <2>5
  <2>7. PICK k \in 1 .. n : codeHeaders[k] = y
    BY <1>2 DEF Collected
  <2>8. file.segments[y] \in SegmentHeader
    BY <1>3, <2>7
  <2>9. file.segments[y].destinationStart = 0
    BY <2>6, <2>8, HeaderFacts
  <2>10. k # 1
    BY <2>3, <2>7, <2>9
  <2>11. first.destinationStart =< file.segments[y].destinationStart
    <3>1. 1 < k
      BY <1>2, <2>10
    <3>. QED  BY <1>2, <2>1, <2>7, <3>1 DEF Ascending
  <2>. QED  BY <2>3, <2>4, <2>9, <2>11, HeaderFacts
<1>6. CASE ValidateCodeContiguous
  <2> DEFINE s == file.segments[codeHeaders[next]]
             t == file.segments[codeHeaders[next + 1]]
  <2>1. /\ phase = "codeContiguous" /\ next < n
        /\ DestinationEnd(Segment(codeHeaders[next]))
             # Segment(codeHeaders[next + 1]).destinationStart
    BY <1>6 DEF ValidateCodeContiguous, Continue, Enter
  <2>2. next \in 1 .. n - 1 /\ next \in 1 .. n /\ next + 1 \in 1 .. n
    BY <1>2, <2>1 DEF TypeOK
  <2>3. s \in SegmentHeader /\ t \in SegmentHeader /\ codeHeaders[next + 1] \in C
    BY <1>3, <2>2
  <2>4. End(s) # t.destinationStart
    <3>1. DestinationEnd(Segment(codeHeaders[next])) = End(s)
      BY <1>2, <2>2, EndFacts
    <3>. QED  BY <1>3, <2>1, <2>2, <3>1
  <2>5. NotTruncated(file, codeHeaders) /\ Apart(file, codeHeaders, next)
    <3>1. CodeFits(file, codeHeaders) /\ Apart(file, codeHeaders, next)
      BY <2>1 DEF Established, CodeEstablished, AfterCodeSizes
    <3>. QED  BY <1>3, <3>1, HeaderFacts DEF CodeFits, NotTruncated
  <2>6. CASE End(s) > t.destinationStart
    BY <1>2, <1>4, <2>2, <2>5, <2>6, OverlapIsNotDisjoint
  <2>7. CASE End(s) < t.destinationStart
    <3>1. End(s) \in 0 .. t.destinationStart - 1
      BY <2>3, <2>7, HeaderFacts
    <3>2. PICK y \in C : End(s) \in Image!Destination(file.segments[y])
      BY <1>4, <2>3, <3>1
    <3>3. End(s) \notin Image!Destination(file.segments[y])
      BY <1>2, <2>2, <2>5, <2>7, GapIsNotCovered
    <3>. QED  BY <3>2, <3>3
  <2>. QED  BY <2>3, <2>4, <2>6, <2>7, HeaderFacts
<1>. QED  BY <1>5, <1>6

LEMMA RejectedFile ==
  ASSUME TypeOK, Image!SumsFit(file), Established, phase' = "rejected",
         \/ ReadElfHeader \/ ReadSegmentHeader \/ ValidateDataSizes
         \/ ValidateDataOverlap \/ ValidateCodeSizes \/ ValidateCodeContiguous
         \/ AllocateDataMemory
  PROVE  /\ ~Image!WellFormed(file)
         /\ memory = Image!EmptyMemory /\ UNCHANGED <<file, memory, instructions>>
<1>1. phase \notin AfterCopyData \union {"copyData", "rejected"}
  BY DEF ReadElfHeader, ReadSegmentHeader, ValidateDataSizes, ValidateDataOverlap,
         ValidateCodeSizes, ValidateCodeContiguous, AllocateDataMemory,
         AfterCopyData, AfterAllocateCode, AfterCopyCode
<1>2. memory = Image!EmptyMemory
  BY <1>1, NothingMappedYet DEF NothingMapped
<1>3. UNCHANGED <<file, memory, instructions>>
  BY DEF ReadElfHeader, ReadSegmentHeader, ValidateDataSizes, ValidateDataOverlap,
         ValidateCodeSizes, ValidateCodeContiguous, AllocateDataMemory, results, Enter
<1>4. CASE ReadElfHeader
  <2>1. ~HeaderValid
    BY <1>4 DEF ReadElfHeader, Enter
  <2>. QED  BY <1>2, <1>3, <2>1, SumFacts DEF Image!WellFormed
<1>5. CASE ReadSegmentHeader
  <2> DEFINE s == Segment(next)
  <2>1. /\ phase = "segments" /\ next \in DOMAIN file.segments
        /\ ~Skipped(s) /\ PastFile(s)
    BY <1>5, FileFacts DEF ReadSegmentHeader, TypeOK, Skip, Continue, Undefined
  <2>2. next \in Image!LoadSegments(file)
    BY <2>1, SumFacts
  <2>3. s \in SegmentHeader /\ SourceEnd(s) = s.sourceStart + s.sourceSize
    BY <2>2, SumFacts
  <2>4. ~(s.sourceStart + s.sourceSize =< file.size)
    BY <2>1, <2>3, FileFacts, HeaderFacts, SizesAssumption DEF PastFile, ElfFile, Size
  <2>. QED  BY <1>2, <1>3, <2>2, <2>4 DEF Image!WellFormed, Image!InFile, Segment
<1>6. CASE ValidateDataSizes \/ ValidateDataOverlap
  BY <1>2, <1>3, <1>6, DataChecksComplete DEF Image!WellFormed
<1>7. CASE ValidateCodeSizes \/ ValidateCodeContiguous
  BY <1>2, <1>3, <1>7, CodeChecksComplete DEF Image!WellFormed
<1>8. CASE AllocateDataMemory
  <2>1. phase = "mapData" /\ phase \in AfterCodeContiguous
    BY <1>8 DEF AllocateDataMemory, AfterCodeContiguous
  <2>2. /\ dataHeaders # << >> /\ thrown'
        /\ Memory!AllocateArray(Byte, Total(dataHeaders))
    BY <1>8 DEF AllocateDataMemory, Enter
  <2>3. /\ Total(dataHeaders) \in Size
        /\ Image!WellFormed(file) <=> Total(dataHeaders) =< MemorySize
    BY <2>1, <2>2, DataSize
  <2>4. freeSpace = MemorySize
    BY <1>1, NothingMappedYet DEF NothingMapped
  <2>5. Total(dataHeaders) > MemorySize
    BY <2>2, <2>3, <2>4, AllocateFacts
  <2>. QED  BY <1>2, <1>3, <2>3, <2>5, SizesAssumption DEF Size
<1>. QED  BY <1>4, <1>5, <1>6, <1>7, <1>8

LEMMA RejectedCode ==
  ASSUME TypeOK, Image!SumsFit(file), Established, phase' = "rejected",
         AllocateCodeMemory \/ SetDecodedInstructions
  PROVE  /\ Image!WellFormed(file)
         /\ memory' = Image!MemoryImage(file) /\ UNCHANGED <<file, instructions>>
<1>1. phase \in AfterCopyData
  BY DEF AllocateCodeMemory, SetDecodedInstructions, AfterCopyData,
         AfterAllocateCode, AfterCopyCode
<1>. QED
  BY <1>1, MappedData DEF AllocateCodeMemory, SetDecodedInstructions, Enter

LEMMA ImageStep ==
  ASSUME LoaderInv, [Next]_vars
  PROVE  [Image!Next]_(Image!vars)
<1> DEFINE hidden == [a \in DOMAIN memory |-> Zero]
<1>1. TypeOK /\ TypeOK' /\ LoaderInv'
  BY LoaderInvStep DEF LoaderInv
<1>2. hidden = Image!EmptyMemory /\ hidden' = hidden
  BY <1>1 DEF TypeOK, Image!EmptyMemory, Image!Zero, Zero
<1>3. CASE UNCHANGED vars
  BY <1>3 DEF vars, Image!vars, Ended
<1>4. CASE Next
  <2>1. file' = file /\ ~Ended
    BY <1>4 DEF Next, Ended, ReadElfHeader, ReadSegmentHeader, SegmentHeadersRead,
         SortHeaders, ValidateDataSizes, ValidateDataOverlap, ValidateCodeSizes,
         ValidateCodeContiguous, AllocateDataMemory, CopyDataSegment,
         DataSegmentsCopied, AllocateCodeMemory, CopyCodeSegment,
         CodeSegmentsCopied, SetDecodedInstructions
  <2>2. CASE ~Ended'
    <3>1. instructions' = instructions
      BY <1>4, <2>2 DEF Next, Ended, ReadElfHeader, ReadSegmentHeader, SegmentHeadersRead,
           SortHeaders, ValidateDataSizes, ValidateDataOverlap, ValidateCodeSizes,
           ValidateCodeContiguous, AllocateDataMemory, CopyDataSegment,
           DataSegmentsCopied, AllocateCodeMemory, CopyCodeSegment,
           CodeSegmentsCopied, SetDecodedInstructions, results, Enter
    <3>. QED  BY <1>2, <2>1, <2>2, <3>1 DEF Image!vars
  <2>3. CASE Ended' /\ ~Image!SumsFit(file)
    <3>1. phase' \in {"loaded", "rejected", "undefined"}
      BY <2>3 DEF Ended
    <3>. QED  BY <2>1, <2>3, <3>1 DEF Image!Next, Image!Unspecified
  <2>4. CASE Ended' /\ Image!SumsFit(file)
    <3>1. Established /\ Established'
      BY <1>1, <2>1, <2>4 DEF LoaderInv
    <3>2. phase' = "loaded" \/ phase' = "rejected"
      BY <2>4, <3>1 DEF Ended, Established
    <3>3. CASE phase' = "loaded"
      <4>1. SetDecodedInstructions
        BY <1>4, <3>3 DEF Next, ReadElfHeader, ReadSegmentHeader, SegmentHeadersRead,
           SortHeaders, ValidateDataSizes, ValidateDataOverlap, ValidateCodeSizes,
           ValidateCodeContiguous, AllocateDataMemory, CopyDataSegment,
           DataSegmentsCopied, AllocateCodeMemory, CopyCodeSegment,
           CodeSegmentsCopied, Enter, Throw, Undefined, Continue, Skip
      <4>2. instructions' = Image!CodeImage(file)
        BY <1>1, <2>4, <3>1, <3>3, <4>1, SetInstructionsStep
      <4>3. Image!WellFormed(file) /\ memory' = Image!MemoryImage(file)
        <5>1. phase \in AfterCopyData /\ memory' = memory
          BY <4>1 DEF SetDecodedInstructions, AfterCopyData, AfterAllocateCode, AfterCopyCode
        <5>. QED  BY <1>1, <2>4, <3>1, <5>1, MappedData
      <4>. QED  BY <2>1, <2>4, <3>3, <4>2, <4>3 DEF Image!Next, Image!Accept
    <3>4. CASE phase' = "rejected"
      <4>1. CASE \/ ReadElfHeader \/ ReadSegmentHeader \/ ValidateDataSizes
                 \/ ValidateDataOverlap \/ ValidateCodeSizes \/ ValidateCodeContiguous
                 \/ AllocateDataMemory
        <5>1. /\ ~Image!WellFormed(file)
              /\ memory = Image!EmptyMemory /\ UNCHANGED <<file, memory, instructions>>
          BY <1>1, <2>4, <3>1, <3>4, <4>1, RejectedFile
        <5>. QED  BY <1>2, <2>1, <2>4, <3>4, <5>1 DEF Image!Next, Image!RejectFile
      <4>2. CASE AllocateCodeMemory \/ SetDecodedInstructions
        <5>1. /\ Image!WellFormed(file)
              /\ memory' = Image!MemoryImage(file) /\ UNCHANGED <<file, instructions>>
          BY <1>1, <2>4, <3>1, <3>4, <4>2, RejectedCode
        <5>. QED  BY <2>1, <2>4, <3>4, <5>1 DEF Image!Next, Image!RejectCode
      <4>3. CASE CopyDataSegment
        BY <1>1, <2>4, <3>1, <3>4, <4>3, CopyDataFacts
      <4>4. CASE CopyCodeSegment
        BY <1>1, <2>4, <3>1, <3>4, <4>4, CopyCodeFacts
      <4>5. CASE SegmentHeadersRead \/ SortHeaders \/ DataSegmentsCopied \/ CodeSegmentsCopied
        BY <3>4, <4>5 DEF SegmentHeadersRead, SortHeaders, DataSegmentsCopied,
             CodeSegmentsCopied, Enter
      <4>. QED  BY <1>4, <4>1, <4>2, <4>3, <4>4, <4>5 DEF Next
    <3>. QED  BY <3>2, <3>3, <3>4
  <2>. QED  BY <2>2, <2>3, <2>4
<1>. QED  BY <1>3, <1>4

LEMMA ImageInit ==
  ASSUME Init
  PROVE  Image!Init
<1>1. file \in Files /\ ~Ended /\ instructions = << >>
  BY DEF Init, Ended
<1>2. [a \in DOMAIN memory |-> Zero] = Image!EmptyMemory
  BY DEF Init, Image!EmptyMemory, Image!Zero, Zero
<1>. QED  BY <1>1, <1>2 DEF Image!Init

(***************************************************************************)
(* loadElf implements ElfImage: sorting, comparing neighbours and copying  *)
(* in order amounts to what the sets of addresses say, for every file.     *)
(***************************************************************************)
THEOREM LoaderImplementsImage == Spec => ImplementsElfImage
<1>1. Init => Image!Init
  BY ImageInit
<1>2. LoaderInv /\ [Next]_vars => [Image!Next]_(Image!vars)
  BY ImageStep
<1>. QED  BY <1>1, <1>2, LoaderInvariant, PTL DEF Spec, Image!Spec, ImplementsElfImage
=============================================================================
