---------------------------- MODULE MCElfLoader ----------------------------
(***************************************************************************)
(* Files for ElfLoader: all arrangements of up to three data or three code *)
(* segments around each other, and files that are at the edge of a check.  *)
(***************************************************************************)
EXTENDS ElfLoaderProperties

\* A kind of segment, and the address and sizes it has
Place(executable, start, sourceSize, destinationSize) ==
  [executable |-> executable, start |-> start, sourceSize |-> sourceSize,
   destinationSize |-> destinationSize]

Places(executable, starts, sizes) ==
  {Place(executable, p[1], p[2][1], p[2][2]) : p \in starts \X sizes}

\* The place as an entry of the table, loaded from a position of the file
Placed(place, sourceStart) ==
  [load |-> TRUE, executable |-> place.executable, sourceStart |-> sourceStart,
   destinationStart |-> place.start, sourceSize |-> place.sourceSize,
   destinationSize |-> place.destinationSize]

FileOf(segments) ==
  [size |-> ElfHeaderSize + EntrySize * Len(segments), identified |-> TRUE,
   entry |-> 0, tableOffset |-> ElfHeaderSize, segments |-> segments]

\* Every segment comes from positions of its own.
Arranged(places) == FileOf([i \in 1 .. Len(places) |-> Placed(places[i], 50 + 5 * i)])

UpToThree(S) == {<< >>} \union (S \X S \X S) \union (S \X S) \union {<<s>> : s \in S}

DataPlaces == Places(FALSE, {0, 2, 3}, {<<0, 2>>, <<2, 2>>, <<1, 3>>, <<3, 2>>})
CodePlaces == Places(TRUE, {0, 2, 4}, {<<2, 2>>, <<4, 4>>, <<2, 4>>})
GoodCode == Place(TRUE, 0, 4, 4)
GoodData == Place(FALSE, 1, 1, 4)

Arrangements ==
  {Arranged(<<GoodCode>> \o places) : places \in UpToThree(DataPlaces)}
    \union {Arranged(places \o <<GoodData>>) : places \in UpToThree(CodePlaces)}

Base == Arranged(<<GoodCode, GoodData>>)

\* Files whose header is at the edge of a check
Headers ==
  {[Base EXCEPT !.size = size, !.tableOffset = offset] :
     size \in {0, 63, 64, 175, 176, 177}, offset \in {0, 63, 64, 65, 911, 912, 960, 1000}}
    \union {[Base EXCEPT !.identified = FALSE], [Base EXCEPT !.entry = 4]}

\* Segments that end at the end of the file or behind it, that end at the top
\* of the address space or behind it, and entries that are skipped
Edges ==
  {[Base EXCEPT !.segments[i].sourceStart = start] :
     i \in {1, 2}, start \in {0, 171, 172, 173, 174, 175, 176, 177, 1020, 1022, 1023}}
    \union {[Base EXCEPT !.segments[i].destinationStart = start] :
              i \in {1, 2}, start \in {0, 3, 4, 5, 1019, 1020, 1021, 1023}}
    \union {[Base EXCEPT !.segments[i].sourceSize = sourceSize,
                         !.segments[i].destinationSize = destinationSize] :
              i \in {1, 2}, sourceSize \in {0, 1, 8, 1020}, destinationSize \in {0, 6, 7, 8, 1023}}
    \union {[Base EXCEPT !.segments[i].load = FALSE] : i \in {1, 2}}

MCFiles == Arrangements \union Headers \union Edges
=============================================================================
