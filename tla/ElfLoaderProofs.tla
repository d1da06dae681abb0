-------------------------- MODULE ElfLoaderProofs --------------------------
(***************************************************************************)
(* Proofs about loadElf for all files, every size of the guest memory and  *)
(* every width of size_t.                                                  *)
(*                                                                         *)
(* The first part is about sequences h of indices of segments of a file f, *)
(* as the vectors of headers are: what the loops have established when     *)
(* they are at their n-th iteration, and that in the end it amounts to     *)
(* what ElfImage says with sets.                                           *)
(***************************************************************************)
EXTENDS ElfLoaderProperties, SequenceTheorems, TLAPS

End(s) == s.destinationStart + s.destinationSize

\* The headers h are the segments of S, each once.
Collected(h, S) ==
  /\ h \in Seq(S)
  /\ \A i, j \in 1 .. Len(h) : h[i] = h[j] => i = j
  /\ \A x \in S : \E i \in 1 .. Len(h) : h[i] = x

Before(S, n) == {i \in S : i < n}

InFileBefore(f, n) ==
  \A i \in Before(Image!LoadSegments(f), n) :
    f.segments[i].sourceStart + f.segments[i].sourceSize =< f.size

Ascending(f, h) ==
  \A i, j \in 1 .. Len(h) :
    i < j => f.segments[h[i]].destinationStart =< f.segments[h[j]].destinationStart

NotTruncated(f, h) ==
  \A i \in 1 .. Len(h) :
    f.segments[h[i]].sourceSize =< f.segments[h[i]].destinationSize

\* Every segment up to the n-th starts behind the ones before it.
Apart(f, h, n) ==
  \A i, j \in 1 .. Len(h) :
    i < j /\ j =< n => End(f.segments[h[i]]) =< f.segments[h[j]].destinationStart

\* No address before the start of one of the first n segments is left out.
Covered(f, h, n) ==
  \A i \in 1 .. Len(h) : i =< n =>
    \A a \in 0 .. f.segments[h[i]].destinationStart - 1 :
      \E j \in 1 .. Len(h) : a \in Image!Destination(f.segments[h[j]])

CodeFits(f, h) ==
  /\ h # << >>
  /\ \A i \in 1 .. Len(h) :
       f.segments[h[i]].sourceSize = f.segments[h[i]].destinationSize
  /\ f.segments[h[1]].destinationStart = 0

\* The first n - 1 segments have been copied, and nothing else.
CopiedBefore(bytes, f, h, n) ==
  \A a \in DOMAIN bytes :
    /\ \A i \in 1 .. Len(h) :
         i < n /\ a \in Image!Loaded(f.segments[h[i]])
           => bytes[a] = f.segments[h[i]].sourceStart
                           + (a - f.segments[h[i]].destinationStart)
    /\ (\A i \in 1 .. Len(h) : i < n => a \notin Image!Loaded(f.segments[h[i]]))
         => bytes[a] = Zero

-----------------------------------------------------------------------------
(***************************************************************************)
(* Segments that are loaded are segments of the file, and take at least    *)
(* one byte of the file or the memory.                                     *)
(***************************************************************************)
LEMMA SegmentFacts ==
  ASSUME NEW f \in ElfFile
  PROVE  /\ DOMAIN f.segments = 1 .. Len(f.segments) /\ Len(f.segments) \in Nat
         /\ \A i \in DOMAIN f.segments : f.segments[i] \in SegmentHeader
         /\ Image!LoadSegments(f) \subseteq DOMAIN f.segments
         /\ Image!DataSegments(f) \subseteq Image!LoadSegments(f)
         /\ Image!CodeSegments(f) \subseteq Image!LoadSegments(f)
         /\ Image!LoadSegments(f) = Image!DataSegments(f) \union Image!CodeSegments(f)
BY DEF ElfFile, Image!LoadSegments, Image!DataSegments, Image!CodeSegments

(***************************************************************************)
(* The members of a segment header are natural numbers.                    *)
(***************************************************************************)
LEMMA HeaderFacts ==
  ASSUME NEW s \in SegmentHeader
  PROVE  /\ s.sourceStart \in Nat /\ s.sourceSize \in Nat
         /\ s.destinationStart \in Nat /\ s.destinationSize \in Nat
         /\ s.sourceStart \in Size /\ s.sourceSize \in Size
         /\ s.destinationStart \in Size /\ s.destinationSize \in Size
         /\ s.load \in BOOLEAN /\ s.executable \in BOOLEAN
         /\ End(s) \in Nat
         /\ End(s) >= s.destinationStart
         /\ \A a : a \in Image!Destination(s)
                    <=> a \in Int /\ s.destinationStart =< a /\ a < End(s)
         /\ \A a : a \in Image!Loaded(s)
                    <=> a \in Int /\ s.destinationStart =< a
                          /\ a < s.destinationStart + s.sourceSize
BY SizesAssumption
DEF SegmentHeader, Size, End, Image!Destination, Image!Loaded, Image!Range

(***************************************************************************)
(* The members of the headers that were collected.                         *)
(***************************************************************************)
LEMMA CollectedFacts ==
  ASSUME NEW f \in ElfFile, NEW S \in SUBSET Image!LoadSegments(f),
         NEW h, Collected(h, S)
  PROVE  /\ Len(h) \in Nat /\ DOMAIN h = 1 .. Len(h)
         /\ \A i \in 1 .. Len(h) :
              /\ h[i] \in S
              /\ f.segments[h[i]] \in SegmentHeader
              /\ f.segments[h[i]].sourceSize > 0 \/ f.segments[h[i]].destinationSize > 0
         /\ S # {} <=> h # << >>
         /\ h # << >> <=> Len(h) > 0
<1>1. h \in Seq(S) /\ Len(h) \in Nat /\ DOMAIN h = 1 .. Len(h)
  BY DEF Collected
<1>2. \A i \in 1 .. Len(h) : h[i] \in S
  BY <1>1
<1>3. \A x \in S : /\ f.segments[x] \in SegmentHeader
                   /\ f.segments[x].sourceSize > 0 \/ f.segments[x].destinationSize > 0
  BY SegmentFacts DEF Image!LoadSegments
<1>4. h # << >> <=> Len(h) > 0
  BY <1>1
<1>5. S # {} <=> h # << >>
  <2>1. ASSUME h # << >> PROVE S # {}
    BY <1>1, <1>2, <1>4, <2>1
  <2>2. ASSUME S # {} PROVE h # << >>
    <3>1. PICK i \in 1 .. Len(h) : TRUE
      BY <2>2 DEF Collected
    <3>. QED  BY <3>1, <1>1, <1>4
  <2>. QED  BY <2>1, <2>2
<1>. QED  BY <1>1, <1>2, <1>3, <1>4, <1>5

(***************************************************************************)
(* Neighbours that do not overlap, in order, are pairwise disjoint.        *)
(***************************************************************************)
LEMMA ApartIsDisjoint ==
  ASSUME NEW f \in ElfFile, NEW S \in SUBSET Image!LoadSegments(f),
         NEW h, Collected(h, S), Apart(f, h, Len(h))
  PROVE  Image!Disjoint(f, S)
<1> SUFFICES ASSUME NEW x \in S, NEW y \in S, x # y,
                    NEW a \in Image!Destination(f.segments[x]),
                    a \in Image!Destination(f.segments[y])
             PROVE  FALSE
  BY DEF Image!Disjoint
<1>1. PICK i \in 1 .. Len(h), j \in 1 .. Len(h) : h[i] = x /\ h[j] = y
  BY DEF Collected
<1>2. i \in Nat /\ j \in Nat /\ i # j /\ Len(h) \in Nat
  BY <1>1, CollectedFacts
<1>3. f.segments[x] \in SegmentHeader /\ f.segments[y] \in SegmentHeader
  BY <1>1, CollectedFacts
<1>4. /\ f.segments[x].destinationStart =< a /\ a < End(f.segments[x])
      /\ f.segments[y].destinationStart =< a /\ a < End(f.segments[y])
      /\ a \in Int
  BY <1>3, HeaderFacts
<1>5. CASE i < j
  <2>1. End(f.segments[x]) =< f.segments[y].destinationStart
    BY <1>1, <1>2, <1>5 DEF Apart
  <2>. QED  BY <2>1, <1>3, <1>4, HeaderFacts
<1>6. CASE j < i
  <2>1. End(f.segments[y]) =< f.segments[x].destinationStart
    BY <1>1, <1>2, <1>6 DEF Apart
  <2>. QED  BY <2>1, <1>3, <1>4, HeaderFacts
<1>. QED  BY <1>2, <1>5, <1>6

(***************************************************************************)
(* A segment that reaches into the next one overlaps it.                   *)
(***************************************************************************)
LEMMA OverlapIsNotDisjoint ==
  ASSUME NEW f \in ElfFile, NEW S \in SUBSET Image!LoadSegments(f),
         NEW h, Collected(h, S), Ascending(f, h), NotTruncated(f, h),
         NEW n \in 1 .. Len(h) - 1,
         End(f.segments[h[n]]) > f.segments[h[n + 1]].destinationStart
  PROVE  ~Image!Disjoint(f, S)
<1> DEFINE s == f.segments[h[n]]
           t == f.segments[h[n + 1]]
<1>1. n \in 1 .. Len(h) /\ n + 1 \in 1 .. Len(h) /\ n < n + 1 /\ n # n + 1
  BY CollectedFacts
<1>2. s \in SegmentHeader /\ t \in SegmentHeader /\ h[n] \in S /\ h[n + 1] \in S
  BY <1>1, CollectedFacts
<1>3. h[n] # h[n + 1]
  BY <1>1 DEF Collected
<1>4. t.destinationSize > 0
  <2>1. t.sourceSize > 0 \/ t.destinationSize > 0
    BY <1>1, CollectedFacts
  <2>2. t.sourceSize =< t.destinationSize
    BY <1>1 DEF NotTruncated
  <2>. QED  BY <2>1, <2>2, <1>2, HeaderFacts
<1>5. s.destinationStart =< t.destinationStart /\ t.destinationStart < End(s)
  BY <1>1, <1>2, HeaderFacts DEF Ascending
<1> HIDE DEF s, t
<1>6. t.destinationStart \in Int /\ t.destinationStart < End(t)
  BY <1>2, <1>4, HeaderFacts DEF End
<1>7. /\ t.destinationStart \in Image!Destination(s)
      /\ t.destinationStart \in Image!Destination(t)
  BY <1>2, <1>5, <1>6, HeaderFacts
<1>. QED  BY <1>2, <1>3, <1>7 DEF Image!Disjoint, s, t

(***************************************************************************)
(* No segment reaches behind the last one.                                 *)
(***************************************************************************)
LEMMA LastEndsLast ==
  ASSUME NEW f \in ElfFile, NEW S \in SUBSET Image!LoadSegments(f),
         NEW h, Collected(h, S), NEW n \in 1 .. Len(h), Apart(f, h, n),
         NEW i \in 1 .. n
  PROVE  End(f.segments[h[i]]) =< End(f.segments[h[n]])
<1>1. i \in 1 .. Len(h) /\ Len(h) \in Nat
  BY CollectedFacts
<1>2. f.segments[h[i]] \in SegmentHeader /\ f.segments[h[n]] \in SegmentHeader
  BY <1>1, CollectedFacts
<1>3. CASE i = n
  BY <1>2, <1>3, HeaderFacts
<1>4. CASE i < n
  <2>1. End(f.segments[h[i]]) =< f.segments[h[n]].destinationStart
    BY <1>1, <1>4 DEF Apart
  <2>. QED  BY <2>1, <1>2, HeaderFacts
<1>. QED  BY <1>1, <1>3, <1>4

(***************************************************************************)
(* Copying the n-th segment leaves what the ones before it have brought.   *)
(***************************************************************************)
LEMMA CopyStep ==
  ASSUME NEW f \in ElfFile, NEW S \in SUBSET Image!LoadSegments(f),
         NEW h, Collected(h, S), NotTruncated(f, h), Apart(f, h, Len(h)),
         NEW n \in 1 .. Len(h), NEW bytes, DOMAIN bytes \subseteq Nat,
         CopiedBefore(bytes, f, h, n)
  PROVE  /\ CopiedBefore(Copied(bytes, 0, f.segments[h[n]]), f, h, n + 1)
         /\ \A a \in DOMAIN bytes :
              bytes[a] # Zero => Copied(bytes, 0, f.segments[h[n]])[a] = bytes[a]
<1> DEFINE s == f.segments[h[n]]
           copy == Copied(bytes, 0, s)
<1>1. s \in SegmentHeader /\ Len(h) \in Nat
  BY CollectedFacts
<1>2. DOMAIN copy = DOMAIN bytes
  BY DEF Copied
<1>3. \A a \in DOMAIN bytes :
        /\ a \in Image!Loaded(s) => copy[a] = s.sourceStart + (a - s.destinationStart)
        /\ a \notin Image!Loaded(s) => copy[a] = bytes[a]
  <2> SUFFICES ASSUME NEW a \in DOMAIN bytes
               PROVE  /\ a \in Image!Loaded(s)
                           => copy[a] = s.sourceStart + (a - s.destinationStart)
                      /\ a \notin Image!Loaded(s) => copy[a] = bytes[a]
    OBVIOUS
  <2> DEFINE distance == a - (0 + s.destinationStart)
  <2>1. copy[a] = IF distance \in 0 .. s.sourceSize - 1
                  THEN s.sourceStart + distance ELSE bytes[a]
    BY DEF Copied
  <2> HIDE DEF copy, s
  <2>2. distance \in 0 .. s.sourceSize - 1 <=> a \in Image!Loaded(s)
    BY <1>1, HeaderFacts
  <2>3. distance = a - s.destinationStart
    BY <1>1, HeaderFacts
  <2>. QED  BY <2>1, <2>2, <2>3
<1>4. \A a \in DOMAIN bytes, i \in 1 .. Len(h) :
        i < n /\ a \in Image!Loaded(f.segments[h[i]]) => a \notin Image!Loaded(s)
  <2> SUFFICES ASSUME NEW a \in DOMAIN bytes, NEW i \in 1 .. Len(h), i < n,
                      a \in Image!Loaded(f.segments[h[i]])
               PROVE  a \notin Image!Loaded(s)
    OBVIOUS
  <2>1. /\ f.segments[h[i]] \in SegmentHeader
        /\ f.segments[h[i]].sourceSize =< f.segments[h[i]].destinationSize
        /\ End(f.segments[h[i]]) =< s.destinationStart
    <3>1. n =< Len(h)
      BY <1>1
    <3>. QED  BY <1>1, <3>1, CollectedFacts DEF NotTruncated, Apart
  <2>2. a < End(f.segments[h[i]]) /\ a \in Int
    BY <2>1, HeaderFacts DEF End
  <2>. QED  BY <1>1, <2>1, <2>2, HeaderFacts
<1> HIDE DEF copy
<1>5. ASSUME NEW a \in DOMAIN bytes, NEW i \in 1 .. Len(h), i < n + 1,
             a \in Image!Loaded(f.segments[h[i]])
      PROVE  copy[a] = f.segments[h[i]].sourceStart
                         + (a - f.segments[h[i]].destinationStart)
  <2>1. CASE i = n
    BY <1>3, <1>5, <2>1
  <2>2. CASE i < n
    <3>1. a \notin Image!Loaded(s)
      BY <1>4, <1>5, <2>2
    <3>. QED  BY <1>3, <1>5, <2>2, <3>1 DEF CopiedBefore
  <2>. QED  BY <1>1, <1>5, <2>1, <2>2
<1>6. ASSUME NEW a \in DOMAIN bytes,
             \A i \in 1 .. Len(h) : i < n + 1 => a \notin Image!Loaded(f.segments[h[i]])
      PROVE  copy[a] = Zero
  <2>1. a \notin Image!Loaded(s) /\ n < n + 1
    BY <1>1, <1>6
  <2>2. \A i \in 1 .. Len(h) : i < n => a \notin Image!Loaded(f.segments[h[i]])
    BY <1>1, <1>6
  <2>3. bytes[a] = Zero
    BY <2>2 DEF CopiedBefore
  <2>. QED  BY <1>3, <2>1, <2>3
<1>7. CopiedBefore(copy, f, h, n + 1)
  BY <1>2, <1>5, <1>6 DEF CopiedBefore
<1>8. ASSUME NEW a \in DOMAIN bytes, bytes[a] # Zero PROVE copy[a] = bytes[a]
  <2>1. PICK i \in 1 .. Len(h) : i < n /\ a \in Image!Loaded(f.segments[h[i]])
    BY <1>8 DEF CopiedBefore
  <2>. QED  BY <1>3, <1>4, <2>1
<1>. QED  BY <1>7, <1>8 DEF copy

(***************************************************************************)
(* Nothing has been copied into fresh memory.                              *)
(***************************************************************************)
LEMMA NothingCopied ==
  ASSUME NEW f, NEW h, NEW bytes, \A a \in DOMAIN bytes : bytes[a] = Zero
  PROVE  CopiedBefore(bytes, f, h, 1)
BY DEF CopiedBefore

(***************************************************************************)
(* When all segments are copied, every byte has the origin that the        *)
(* headers give it.                                                        *)
(***************************************************************************)
LEMMA AllCopied ==
  ASSUME NEW f \in ElfFile, NEW S \in SUBSET Image!LoadSegments(f),
         NEW h, Collected(h, S), NotTruncated(f, h), Apart(f, h, Len(h)),
         NEW n \in Nat, n > Len(h),
         NEW bytes, CopiedBefore(bytes, f, h, n)
  PROVE  \A a \in DOMAIN bytes : bytes[a] = Image!Origin(f, S, a)
<1> SUFFICES ASSUME NEW a \in DOMAIN bytes PROVE bytes[a] = Image!Origin(f, S, a)
  OBVIOUS
<1>1. \A i \in 1 .. Len(h) : i < n /\ h[i] \in S
  BY CollectedFacts
<1>2. CASE \E x \in S : a \in Image!Loaded(f.segments[x])
  <2> DEFINE x == CHOOSE y \in S : a \in Image!Loaded(f.segments[y])
  <2>1. x \in S /\ a \in Image!Loaded(f.segments[x])
    BY <1>2
  <2>2. Image!Origin(f, S, a)
          = f.segments[x].sourceStart + (a - f.segments[x].destinationStart)
    BY <1>2 DEF Image!Origin
  <2> HIDE DEF x
  <2>3. PICK i \in 1 .. Len(h) : h[i] = x
    BY <2>1 DEF Collected
  <2>. QED  BY <1>1, <2>1, <2>2, <2>3 DEF CopiedBefore
<1>3. CASE ~\E x \in S : a \in Image!Loaded(f.segments[x])
  <2>1. Image!Origin(f, S, a) = Zero
    BY <1>3 DEF Image!Origin, Image!Zero, Zero
  <2>2. \A i \in 1 .. Len(h) : a \notin Image!Loaded(f.segments[h[i]])
    BY <1>1, <1>3
  <2>. QED  BY <2>1, <2>2 DEF CopiedBefore
<1>. QED  BY <1>2, <1>3

-----------------------------------------------------------------------------
(***************************************************************************)
(* One more segment behind the last one is apart from all before it.       *)
(***************************************************************************)
LEMMA ApartStep ==
  ASSUME NEW f \in ElfFile, NEW S \in SUBSET Image!LoadSegments(f),
         NEW h, Collected(h, S), NEW n \in 1 .. Len(h), n + 1 \in 1 .. Len(h),
         Apart(f, h, n),
         End(f.segments[h[n]]) =< f.segments[h[n + 1]].destinationStart
  PROVE  Apart(f, h, n + 1)
<1>1. Len(h) \in Nat
  BY CollectedFacts
<1> SUFFICES ASSUME NEW i \in 1 .. Len(h), NEW j \in 1 .. Len(h), i < j, j =< n + 1
             PROVE  End(f.segments[h[i]]) =< f.segments[h[j]].destinationStart
  BY DEF Apart
<1>2. CASE j =< n
  BY <1>2 DEF Apart
<1>3. CASE j = n + 1
  <2>1. i \in 1 .. n
    BY <1>1, <1>3
  <2>2. End(f.segments[h[i]]) =< End(f.segments[h[n]])
    BY <1>1, <2>1, LastEndsLast
  <2>3. /\ f.segments[h[i]] \in SegmentHeader /\ f.segments[h[n]] \in SegmentHeader
        /\ f.segments[h[j]] \in SegmentHeader
    BY CollectedFacts
  <2>. QED  BY <1>3, <2>2, <2>3, HeaderFacts
<1>. QED  BY <1>1, <1>2, <1>3

(***************************************************************************)
(* Code segments that follow each other without a gap leave no address     *)
(* out.                                                                    *)
(***************************************************************************)
LEMMA CoveredStep ==
  ASSUME NEW f \in ElfFile, NEW S \in SUBSET Image!LoadSegments(f),
         NEW h, Collected(h, S), NEW n \in 1 .. Len(h) - 1,
         Apart(f, h, n), Covered(f, h, n),
         End(f.segments[h[n]]) = f.segments[h[n + 1]].destinationStart
  PROVE  Apart(f, h, n + 1) /\ Covered(f, h, n + 1)
<1>1. Len(h) \in Nat /\ n \in 1 .. Len(h) /\ n + 1 \in 1 .. Len(h)
  BY CollectedFacts
<1>2. Apart(f, h, n + 1)
  <2>1. f.segments[h[n]] \in SegmentHeader
    BY <1>1, CollectedFacts
  <2>2. End(f.segments[h[n]]) =< f.segments[h[n + 1]].destinationStart
    BY <2>1, HeaderFacts
  <2>. QED  BY <1>1, <2>2, ApartStep
<1>3. Covered(f, h, n + 1)
  <2> SUFFICES ASSUME NEW i \in 1 .. Len(h), i =< n + 1,
                      NEW a \in 0 .. f.segments[h[i]].destinationStart - 1
               PROVE  \E j \in 1 .. Len(h) : a \in Image!Destination(f.segments[h[j]])
    BY DEF Covered
  <2>1. CASE i =< n
    BY <2>1 DEF Covered
  <2>2. CASE i = n + 1
    <3>1. f.segments[h[n]] \in SegmentHeader
      BY <1>1, CollectedFacts
    <3>2. a \in Int /\ a >= 0 /\ a < End(f.segments[h[n]])
      BY <2>2, <3>1, HeaderFacts
    <3>3. CASE a < f.segments[h[n]].destinationStart
      <4>1. a \in 0 .. f.segments[h[n]].destinationStart - 1
        BY <3>1, <3>2, <3>3, HeaderFacts
      <4>. QED  BY <1>1, <4>1 DEF Covered
    <3>4. CASE a >= f.segments[h[n]].destinationStart
      BY <1>1, <3>1, <3>2, <3>4, HeaderFacts
    <3>. QED  BY <3>1, <3>2, <3>3, <3>4, HeaderFacts
  <2>. QED  BY <1>1, <2>1, <2>2
<1>. QED  BY <1>2, <1>3

(***************************************************************************)
(* Between segments that are apart, a gap in the order of the headers is   *)
(* an address that no segment covers.                                      *)
(***************************************************************************)
LEMMA GapIsNotCovered ==
  ASSUME NEW f \in ElfFile, NEW S \in SUBSET Image!LoadSegments(f),
         NEW h, Collected(h, S), Ascending(f, h),
         NEW n \in 1 .. Len(h) - 1, Apart(f, h, n),
         End(f.segments[h[n]]) < f.segments[h[n + 1]].destinationStart,
         NEW x \in S
  PROVE  End(f.segments[h[n]]) \notin Image!Destination(f.segments[x])
<1>1. Len(h) \in Nat /\ n \in 1 .. Len(h) /\ n + 1 \in 1 .. Len(h)
  BY CollectedFacts
<1>2. PICK i \in 1 .. Len(h) : h[i] = x
  BY DEF Collected
<1>3. /\ f.segments[x] \in SegmentHeader /\ f.segments[h[n]] \in SegmentHeader
      /\ f.segments[h[n + 1]] \in SegmentHeader
  BY <1>1, <1>2, CollectedFacts
<1>4. CASE i =< n
  <2>1. i \in 1 .. n
    BY <1>1, <1>4
  <2>2. End(f.segments[x]) =< End(f.segments[h[n]])
    BY <1>1, <1>2, <2>1, LastEndsLast
  <2>. QED  BY <1>3, <2>2, HeaderFacts
<1>5. CASE i >= n + 1
  <2>1. f.segments[h[n + 1]].destinationStart =< f.segments[x].destinationStart
    <3>1. CASE i = n + 1
      BY <1>2, <1>3, <3>1, HeaderFacts
    <3>2. CASE i > n + 1
      BY <1>1, <1>2, <3>2 DEF Ascending
    <3>. QED  BY <1>1, <1>5, <3>1, <3>2
  <2>. QED  BY <1>3, <2>1, HeaderFacts
<1>. QED  BY <1>1, <1>4, <1>5

(***************************************************************************)
(* The addresses of contiguous code are those before its end.              *)
(***************************************************************************)
LEMMA CodeAddresses ==
  ASSUME NEW f \in ElfFile, NEW h, Collected(h, Image!CodeSegments(f)),
         h # << >>, Apart(f, h, Len(h)), Covered(f, h, Len(h))
  PROVE  UNION {Image!Destination(f.segments[x]) : x \in Image!CodeSegments(f)}
           = 0 .. End(f.segments[h[Len(h)]]) - 1
<1> DEFINE S == Image!CodeSegments(f)
           last == f.segments[h[Len(h)]]
<1>1. S \in SUBSET Image!LoadSegments(f)
  BY SegmentFacts
<1>2. Len(h) \in Nat /\ Len(h) \in 1 .. Len(h)
  BY <1>1, CollectedFacts
<1>3. last \in SegmentHeader
  BY <1>1, <1>2, CollectedFacts
<1>4. ASSUME NEW x \in S, NEW a \in Image!Destination(f.segments[x])
      PROVE  a \in 0 .. End(last) - 1
  <2>1. PICK i \in 1 .. Len(h) : h[i] = x
    BY DEF Collected
  <2>2. End(f.segments[x]) =< End(last)
    BY <1>1, <1>2, <2>1, LastEndsLast
  <2>3. f.segments[x] \in SegmentHeader
    BY <1>1, <2>1, CollectedFacts
  <2>. QED  BY <1>3, <1>4, <2>2, <2>3, HeaderFacts
<1>5. ASSUME NEW a \in 0 .. End(last) - 1
      PROVE  \E x \in S : a \in Image!Destination(f.segments[x])
  <2>1. a \in Int /\ a >= 0 /\ a < End(last)
    BY <1>3, HeaderFacts
  <2>2. \E j \in 1 .. Len(h) : a \in Image!Destination(f.segments[h[j]])
    <3>1. CASE a < last.destinationStart
      <4>1. a \in 0 .. last.destinationStart - 1
        BY <1>3, <2>1, <3>1, HeaderFacts
      <4>. QED  BY <1>2, <4>1 DEF Covered
    <3>2. CASE a >= last.destinationStart
      BY <1>2, <1>3, <2>1, <3>2, HeaderFacts
    <3>. QED  BY <1>3, <2>1, <3>1, <3>2, HeaderFacts
  <2>. QED  BY <1>1, <2>2, CollectedFacts
<1>. QED  BY <1>4, <1>5

-----------------------------------------------------------------------------
(***************************************************************************)
(* The invariant: what has been established when loadElf is at a phase.    *)
(***************************************************************************)
AfterCopyCode == {"decode", "loaded"}
AfterAllocateCode == AfterCopyCode \union {"copyCode"}
AfterCopyData == AfterAllocateCode \union {"mapCode"}
AfterCodeContiguous == AfterCopyData \union {"mapData", "copyData"}
AfterCodeSizes == AfterCodeContiguous \union {"codeContiguous"}
AfterDataOverlap == AfterCodeSizes \union {"codeSizes"}
AfterDataSizes == AfterDataOverlap \union {"dataOverlap"}
AfterSorting == AfterDataSizes \union {"dataSizes"}
AfterReading == AfterSorting \union {"sort"}
AfterHeader == AfterReading \union {"segments"}

HeadersEstablished ==
  /\ phase = "header" => dataHeaders = << >> /\ codeHeaders = << >>
  /\ phase \in AfterHeader => Image!ValidHeader(file)
  /\ phase = "segments" =>
       /\ Collected(dataHeaders, Before(Image!DataSegments(file), next))
       /\ Collected(codeHeaders, Before(Image!CodeSegments(file), next))
       /\ InFileBefore(file, next)
  /\ phase \in AfterReading =>
       /\ Collected(dataHeaders, Image!DataSegments(file))
       /\ Collected(codeHeaders, Image!CodeSegments(file))
       /\ Image!InFile(file)
  /\ phase \in AfterSorting =>
       Ascending(file, dataHeaders) /\ Ascending(file, codeHeaders)

DataEstablished ==
  /\ phase \in AfterDataSizes => NotTruncated(file, dataHeaders)
  /\ phase = "dataOverlap" => Apart(file, dataHeaders, next)
  /\ phase \in AfterDataOverlap => Apart(file, dataHeaders, Len(dataHeaders))

CodeEstablished ==
  /\ phase \in AfterCodeSizes => CodeFits(file, codeHeaders)
  /\ phase = "codeContiguous" =>
       Apart(file, codeHeaders, next) /\ Covered(file, codeHeaders, next)
  /\ phase \in AfterCodeContiguous =>
       /\ Apart(file, codeHeaders, Len(codeHeaders))
       /\ Covered(file, codeHeaders, Len(codeHeaders))

\* The segments are as ElfImage asks for, except that the data may not fit.
MappingEstablished ==
  /\ phase \notin AfterCopyData \union {"copyData", "rejected"} =>
       freeSpace = MemorySize /\ blocks = << >> /\ memory = Image!EmptyMemory
  /\ phase = "copyData" =>
       /\ Len(blocks) = 1 /\ dataHeaders # << >>
       /\ blocks[1].offset = 0
       /\ blocks[1].size = End(file.segments[dataHeaders[Len(dataHeaders)]])
       /\ CopiedBefore(memory, file, dataHeaders, next)
  /\ blocks # << >> \/ phase \in AfterCopyData => Image!WellFormed(file)
  /\ phase \in AfterCopyData => memory = Image!MemoryImage(file)
  /\ phase = "copyCode" =>
       /\ codeMemory \in
            [0 .. End(file.segments[codeHeaders[Len(codeHeaders)]]) - 1 -> Int]
       /\ CopiedBefore(codeMemory, file, codeHeaders, next)
  /\ phase \in AfterCopyCode => codeMemory = Image!CodeImage(file)
  /\ phase \notin AfterAllocateCode \union {"rejected"} => codeMemory = << >>
  /\ phase # "loaded" => instructions = << >>

Established ==
  /\ phase # "undefined"
  /\ HeadersEstablished /\ DataEstablished /\ CodeEstablished /\ MappingEstablished

LoaderInv == TypeOK /\ (Image!SumsFit(file) => Established)

-----------------------------------------------------------------------------
(***************************************************************************)
(* The file of a well-typed state.                                         *)
(***************************************************************************)
LEMMA FileFacts ==
  ASSUME TypeOK
  PROVE  /\ file \in ElfFile
         /\ Len(file.segments) \in Nat
         /\ DOMAIN file.segments = 1 .. Len(file.segments)
         /\ \A i \in DOMAIN file.segments : Segment(i) \in SegmentHeader
         /\ next \in Nat
         /\ Len(dataHeaders) \in Nat /\ DOMAIN dataHeaders = 1 .. Len(dataHeaders)
         /\ Len(codeHeaders) \in Nat /\ DOMAIN codeHeaders = 1 .. Len(codeHeaders)
         /\ \A k \in DOMAIN dataHeaders : dataHeaders[k] \in DOMAIN file.segments
         /\ \A k \in DOMAIN codeHeaders : codeHeaders[k] \in DOMAIN file.segments
<1>1. file \in ElfFile /\ file.segments \in Seq(SegmentHeader)
  BY DEF TypeOK, ElfFile
<1>. QED  BY <1>1 DEF TypeOK, Segment

(***************************************************************************)
(* Sums of two sizes are sizes again.                                      *)
(***************************************************************************)
LEMMA WrapFacts ==
  ASSUME NEW m \in Size, NEW n \in Size
  PROVE  /\ Wrap(m + n) \in Size
         /\ m + n < SizeModulus => Wrap(m + n) = m + n
BY SizesAssumption DEF Size, Wrap

(***************************************************************************)
(* A function on 1 .. n is a sequence.                                     *)
(***************************************************************************)
LEMMA FunctionIsSeq ==
  ASSUME NEW T, NEW n \in Nat, NEW t \in [1 .. n -> T]
  PROVE  t \in Seq(T) /\ Len(t) = n
OBVIOUS

(***************************************************************************)
(* std::sort permutes a vector so that no element starts before the one    *)
(* in front of it.                                                         *)
(***************************************************************************)
LEMMA SortedFacts ==
  ASSUME NEW S, NEW s \in Seq(S), NEW t \in Sorted(s)
  PROVE  /\ t \in Seq(S) /\ Len(t) = Len(s)
         /\ \A i, j \in 1 .. Len(t) : i < j => ~StartsBefore(t[j], t[i])
         /\ \A T : Collected(s, T) => Collected(t, T)
<1>1. PICK p \in Bijection(DOMAIN s, DOMAIN s) : t = [i \in DOMAIN s |-> s[p[i]]]
  BY DEF Sorted
<1>2. \A i, j \in DOMAIN s : i < j => ~StartsBefore(t[j], t[i])
  BY DEF Sorted
<1>3. Len(s) \in Nat /\ DOMAIN s = 1 .. Len(s)
  OBVIOUS
<1>4. /\ p \in [1 .. Len(s) -> 1 .. Len(s)]
      /\ \A i, j \in 1 .. Len(s) : p[i] = p[j] => i = j
      /\ \A k \in 1 .. Len(s) : \E i \in 1 .. Len(s) : p[i] = k
  BY <1>3 DEF Bijection, Injection, Surjection, IsInjective
<1>5. t \in [1 .. Len(s) -> S]
  BY <1>1, <1>3, <1>4
<1>6. t \in Seq(S) /\ Len(t) = Len(s)
  BY <1>3, <1>5
<1>7. ASSUME NEW T, Collected(s, T) PROVE Collected(t, T)
  <2>1. t \in Seq(T)
    <3>1. s \in Seq(T) /\ \A k \in 1 .. Len(s) : s[k] \in T
      BY <1>7 DEF Collected
    <3>2. \A i \in 1 .. Len(s) : t[i] \in T
      BY <1>1, <1>3, <1>4, <3>1
    <3>3. t \in [1 .. Len(s) -> T]
      BY <1>1, <1>3, <3>2
    <3>. QED  BY <1>3, <3>3, FunctionIsSeq
  <2>2. ASSUME NEW i \in 1 .. Len(t), NEW j \in 1 .. Len(t), t[i] = t[j]
        PROVE  i = j
    <3>1. i \in 1 .. Len(s) /\ j \in 1 .. Len(s) /\ s[p[i]] = s[p[j]]
      BY <1>1, <1>3, <1>6, <2>2
    <3>2. p[i] \in 1 .. Len(s) /\ p[j] \in 1 .. Len(s)
      BY <1>4, <3>1
    <3>3. p[i] = p[j]
      BY <1>7, <3>1, <3>2 DEF Collected
    <3>. QED  BY <1>4, <3>1, <3>3
  <2>3. ASSUME NEW x \in T PROVE \E i \in 1 .. Len(t) : t[i] = x
    <3>1. PICK k \in 1 .. Len(s) : s[k] = x
      BY <1>7 DEF Collected
    <3>2. PICK i \in 1 .. Len(s) : p[i] = k
      BY <1>4
    <3>. QED  BY <1>1, <1>3, <1>6, <3>1, <3>2
  <2>. QED  BY <2>1, <2>2, <2>3 DEF Collected
<1>. QED  BY <1>2, <1>3, <1>6, <1>7

-----------------------------------------------------------------------------
(***************************************************************************)
(* The last header of a non-empty vector ends at a size.                   *)
(***************************************************************************)
LEMMA TotalFacts ==
  ASSUME TypeOK, NEW h \in Seq(DOMAIN file.segments), h # << >>
  PROVE  Len(h) \in 1 .. Len(h) /\ Segment(h[Len(h)]) \in SegmentHeader /\ Total(h) \in Size
<1>1. Len(h) \in 1 .. Len(h) /\ h[Len(h)] \in DOMAIN file.segments
  OBVIOUS
<1>2. Segment(h[Len(h)]) \in SegmentHeader
  BY <1>1, FileFacts
<1>. QED  BY <1>1, <1>2, HeaderFacts, WrapFacts DEF Total, DestinationEnd

(***************************************************************************)
(* What std::align does for bytes: there is never padding.                 *)
(***************************************************************************)
LEMMA AllocateFacts ==
  ASSUME TypeOK, NEW count \in Size, Memory!AllocateArray(Byte, count)
  PROVE  /\ Memory!TypeOK'
         /\ blocks = << >> /\ freeSpace' = freeSpace
         /\ thrown' <=> count > freeSpace
         /\ thrown' => blocks' = blocks
         /\ ~thrown' => /\ Len(blocks') = 1
                        /\ blocks'[1].offset = MemorySize - freeSpace
                        /\ blocks'[1].size = count
                        /\ blocks'[1].offset + count =< MemorySize
<1>1. freeSpace \in 0 .. MemorySize /\ MemorySize \in Nat /\ count \in Nat
  BY SizesAssumption DEF TypeOK, Memory!TypeOK, Size
<1>2. Memory!FreeAddress \in Nat
  BY <1>1, SizesAssumption DEF Memory!FreeAddress, Memory!FreeOffset
<1>3. Memory!Padding(Memory!FreeAddress, 1) = 0
  BY <1>2 DEF Memory!Padding
<1>4. Memory!WrapSize(Byte.size * count) = count /\ Byte.size * count = count
  BY <1>1, SizesAssumption DEF Byte, Memory!WrapSize, Size
<1>5. Memory!AllocateRaw(count, 1, count) /\ Len(blocks) < 1
  BY <1>4 DEF Memory!AllocateArray, Byte
<1>6. blocks \in Seq(Memory!Block) /\ blocks = << >>
  BY <1>5 DEF TypeOK, Memory!TypeOK
<1>7. CASE count =< freeSpace
  <2> DEFINE block == [offset |-> MemorySize - freeSpace, size |-> count, alignment |-> 1]
  <2>1. Memory!AlignFits(1, count, Memory!FreeAddress, freeSpace)
    BY <1>1, <1>3, <1>7 DEF Memory!AlignFits
  <2>2. freeSpace' = freeSpace
    BY <1>1, <1>3, <1>5, <2>1 DEF Memory!AllocateRaw, Memory!AlignedSpace
  <2>3. blocks' = Append(blocks, block) /\ thrown' = FALSE
    BY <1>5, <2>1, <2>2 DEF Memory!AllocateRaw, Memory!Construct
  <2>4. block \in Memory!Block
    BY <1>1 DEF Memory!Block
  <2> HIDE DEF block
  <2>5. blocks' \in Seq(Memory!Block) /\ Len(blocks') = 1 /\ blocks'[1] = block
    BY <1>6, <2>3, <2>4, AppendProperties
  <2>6. block.offset = MemorySize - freeSpace /\ block.size = count
    BY DEF block
  <2>7. Memory!TypeOK'
    BY <1>1, <2>2, <2>3, <2>5 DEF Memory!TypeOK
  <2>8. ~thrown' /\ ~(count > freeSpace)
    BY <1>1, <1>7, <2>3
  <2>. QED  BY <1>1, <1>6, <1>7, <2>2, <2>5, <2>6, <2>7, <2>8
<1>8. CASE count > freeSpace
  <2>1. ~Memory!AlignFits(1, count, Memory!FreeAddress, freeSpace)
    BY <1>1, <1>8 DEF Memory!AlignFits
  <2>2. freeSpace' = freeSpace /\ blocks' = blocks /\ thrown' = TRUE
    BY <1>5, <2>1 DEF Memory!AllocateRaw, Memory!ThrowBadAlloc
  <2>3. Memory!TypeOK'
    BY <2>2 DEF TypeOK, Memory!TypeOK
  <2>. QED  BY <1>6, <1>8, <2>2, <2>3
<1>. QED  BY <1>1, <1>7, <1>8

(***************************************************************************)
(* Types: the loop variables stay in their ranges, and copying moves       *)
(* origins.                                                                *)
(***************************************************************************)
LEMMA TypeInit == ASSUME Init PROVE TypeOK
<1>1. file \in ElfFile /\ Len(file.segments) * EntrySize < SizeModulus
  BY FilesAssumption DEF Init
<1>2. Len(file.segments) \in Nat
  BY <1>1 DEF ElfFile
<1>3. phase \in Phases /\ next \in Nat \ {0} /\ next =< LoopLength + 1
  BY <1>2 DEF Init, Phases, LoopLength
<1>4. dataHeaders \in Seq(DOMAIN file.segments) /\ codeHeaders \in Seq(DOMAIN file.segments)
  BY DEF Init
<1>5. Memory!TypeOK
  <2>1. << >> \in Seq(Memory!Block)
    OBVIOUS
  <2>2. MemorySize \in 0 .. MemorySize
    BY SizesAssumption DEF Size
  <2>. QED  BY <2>1, <2>2 DEF Init, Memory!Init, Memory!TypeOK
<1>6. memory \in [0 .. MemorySize - 1 -> Int]
  BY DEF Init, Zero
<1>. QED  BY <1>1, <1>3, <1>4, <1>5, <1>6 DEF TypeOK

\* What TypeOK says of the phase and its loop
LoopOK ==
  /\ phase \in Phases
  /\ next \in Nat \ {0}
  /\ phase \notin {"rejected", "undefined"} => next =< LoopLength + 1

LEMMA LoopFacts ==
  ASSUME TypeOK, UNCHANGED file,
         Len(dataHeaders') \in Nat, Len(codeHeaders') \in Nat
  PROVE  /\ \A p \in Phases : Enter(p) => LoopOK'
         /\ Throw \/ Undefined => LoopOK'
         /\ UNCHANGED headers /\ Continue /\ next =< LoopLength => LoopOK'
         /\ phase = "segments" /\ Continue /\ next =< LoopLength => LoopOK'
<1> USE FileFacts
<1>1. LoopLength \in Nat /\ LoopLength' \in Nat
  BY DEF LoopLength
<1>2. ASSUME NEW p \in Phases, Enter(p) PROVE LoopOK'
  <2>1. phase' \in Phases /\ next' = 1
    BY <1>2 DEF Enter
  <2>2. \A m \in Nat : 1 =< m + 1
    OBVIOUS
  <2>3. next' \in Nat \ {0}
    BY <2>1
  <2>4. 1 =< LoopLength' + 1
    BY <1>1, <2>2
  <2>5. next' =< LoopLength' + 1
    BY <2>1, <2>4
  <2>. QED  BY <2>1, <2>3, <2>5 DEF LoopOK
<1>3. ASSUME Throw \/ Undefined PROVE LoopOK'
  BY <1>3 DEF TypeOK, Throw, Undefined, Phases, LoopOK
<1>4. ASSUME UNCHANGED headers \/ phase = "segments", Continue, next =< LoopLength
      PROVE  LoopOK'
  <2>1. LoopLength' = LoopLength
    BY <1>4 DEF Continue, headers, LoopLength
  <2>. QED  BY <1>1, <1>4, <2>1 DEF Continue, TypeOK, LoopOK
<1>. QED  BY <1>2, <1>3, <1>4

(***************************************************************************)
(* memcpy copies bytes.                                                    *)
(***************************************************************************)
LEMMA CopiedIsInt ==
  ASSUME NEW D, NEW bytes \in [D -> Int], NEW base, NEW s \in SegmentHeader
  PROVE  Copied(bytes, base, s) \in [D -> Int]
BY HeaderFacts DEF Copied

LEMMA TypeStep == ASSUME TypeOK, [Next]_vars PROVE TypeOK'
<1> USE FileFacts
<1>1. ASSUME UNCHANGED <<file, headers, arena, results>>, LoopOK' PROVE TypeOK'
  BY <1>1 DEF TypeOK, Memory!TypeOK, headers, arena, results, LoopOK
<1>2. CASE ReadElfHeader
  BY <1>1, <1>2, LoopFacts DEF ReadElfHeader, Phases, headers
<1>3. CASE ReadSegmentHeader
  <2>1. next \in 1 .. Len(file.segments) /\ LoopLength = Len(file.segments)
    BY <1>3 DEF ReadSegmentHeader, TypeOK, LoopLength
  <2>2. /\ dataHeaders' \in Seq(DOMAIN file.segments)
        /\ codeHeaders' \in Seq(DOMAIN file.segments)
    <3>1. /\ dataHeaders' = dataHeaders \/ dataHeaders' = Append(dataHeaders, next)
          /\ codeHeaders' = codeHeaders \/ codeHeaders' = Append(codeHeaders, next)
      BY <1>3 DEF ReadSegmentHeader, headers
    <3>2. next \in DOMAIN file.segments
      BY <2>1
    <3>3. /\ Append(dataHeaders, next) \in Seq(DOMAIN file.segments)
          /\ Append(codeHeaders, next) \in Seq(DOMAIN file.segments)
      BY <3>2, AppendProperties DEF TypeOK
    <3>. QED  BY <3>1, <3>3 DEF TypeOK
  <2>3. UNCHANGED <<file, arena, results>> /\ (Continue \/ Throw \/ Undefined)
    BY <1>3 DEF ReadSegmentHeader, Skip
  <2>4. LoopOK'
    BY <1>3, <2>1, <2>2, <2>3, LoopFacts DEF ReadSegmentHeader
  <2>. QED
    BY <2>2, <2>3, <2>4 DEF TypeOK, Memory!TypeOK, arena, results, LoopOK
<1>4. CASE SegmentHeadersRead
  BY <1>1, <1>4, LoopFacts DEF SegmentHeadersRead, Phases, headers
<1>5. CASE SortHeaders
  <2>1. /\ dataHeaders' \in Seq(DOMAIN file.segments)
        /\ codeHeaders' \in Seq(DOMAIN file.segments)
    BY <1>5, SortedFacts DEF SortHeaders, TypeOK
  <2>2. UNCHANGED <<file, arena, results>> /\ Enter("dataSizes")
    BY <1>5 DEF SortHeaders
  <2>3. LoopOK'
    BY <2>1, <2>2, LoopFacts DEF Phases
  <2>. QED
    BY <2>1, <2>2, <2>3 DEF TypeOK, Memory!TypeOK, arena, results, LoopOK
<1>6. CASE ValidateDataSizes
  BY <1>1, <1>6, LoopFacts DEF ValidateDataSizes, Phases, headers
<1>7. CASE ValidateDataOverlap
  BY <1>1, <1>7, LoopFacts DEF ValidateDataOverlap, Phases, headers, LoopLength, TypeOK
<1>8. CASE ValidateCodeSizes
  BY <1>1, <1>8, LoopFacts DEF ValidateCodeSizes, Phases, headers
<1>9. CASE ValidateCodeContiguous
  BY <1>1, <1>9, LoopFacts DEF ValidateCodeContiguous, Phases, headers, LoopLength, TypeOK
<1>10. CASE AllocateDataMemory
  <2>1. UNCHANGED <<file, headers>> /\ LoopOK'
    BY <1>10, LoopFacts DEF AllocateDataMemory, Phases, headers
  <2>2. CASE dataHeaders = << >>
    BY <1>10, <2>1, <2>2
    DEF AllocateDataMemory, TypeOK, Memory!TypeOK, arena, headers, LoopOK
  <2>3. CASE dataHeaders # << >>
    <3>1. Total(dataHeaders) \in Size
      BY <2>3, TotalFacts DEF TypeOK
    <3>2. Memory!AllocateArray(Byte, Total(dataHeaders))
      BY <1>10, <2>3 DEF AllocateDataMemory
    <3>3. Memory!TypeOK'
      BY <3>1, <3>2, AllocateFacts
    <3>4. memory' = memory \/ memory' = Cleared(memory, blocks'[1])
      BY <1>10, <2>3 DEF AllocateDataMemory
    <3>5. memory' \in [0 .. MemorySize - 1 -> Int]
      <4>1. CASE memory' = memory
        BY <4>1 DEF TypeOK
      <4>2. CASE memory' = Cleared(memory, blocks'[1])
        BY <4>2 DEF Cleared, Zero, TypeOK
      <4>. QED  BY <3>4, <4>1, <4>2
    <3>. QED  BY <2>1, <3>3, <3>5 DEF TypeOK, headers, LoopOK
  <2>. QED  BY <2>2, <2>3
<1>11. CASE CopyDataSegment
  <2> DEFINE s == Segment(dataHeaders[next])
  <2>1. LoopLength = Len(dataHeaders) /\ s \in SegmentHeader
    BY <1>11 DEF CopyDataSegment, TypeOK, LoopLength
  <2>2. UNCHANGED <<file, headers, arena>> /\ LoopOK'
    BY <1>11, <2>1, LoopFacts DEF CopyDataSegment, Phases, headers
  <2>3. memory' = memory \/ memory' = Copied(memory, blocks[1].offset, s)
    BY <1>11 DEF CopyDataSegment
  <2>4. memory' \in [0 .. MemorySize - 1 -> Int]
    <3>1. memory \in [0 .. MemorySize - 1 -> Int]
      BY DEF TypeOK
    <3>2. Copied(memory, blocks[1].offset, s) \in [0 .. MemorySize - 1 -> Int]
      BY <2>1, <3>1, CopiedIsInt
    <3>. QED  BY <2>3, <3>1, <3>2
  <2>. QED  BY <1>11, <2>2, <2>4 DEF CopyDataSegment, TypeOK, Memory!TypeOK, arena, headers, LoopOK
<1>12. CASE DataSegmentsCopied
  BY <1>1, <1>12, LoopFacts DEF DataSegmentsCopied, Phases, headers
<1>13. CASE AllocateCodeMemory
  <2>1. UNCHANGED <<file, headers, arena, memory>> /\ LoopOK'
    BY <1>13, LoopFacts DEF AllocateCodeMemory, Phases, headers
  <2>. QED  BY <2>1 DEF TypeOK, Memory!TypeOK, arena, headers, LoopOK
<1>14. CASE CopyCodeSegment
  <2>1. LoopLength = Len(codeHeaders)
    BY <1>14 DEF CopyCodeSegment, LoopLength
  <2>2. UNCHANGED <<file, headers, arena, memory>> /\ LoopOK'
    BY <1>14, <2>1, LoopFacts DEF CopyCodeSegment, Phases, headers
  <2>. QED  BY <2>2 DEF TypeOK, Memory!TypeOK, arena, headers, LoopOK
<1>15. CASE CodeSegmentsCopied
  BY <1>1, <1>15, LoopFacts DEF CodeSegmentsCopied, Phases, headers
<1>16. CASE SetDecodedInstructions
  <2>1. UNCHANGED <<file, headers, arena, memory>> /\ LoopOK'
    BY <1>16, LoopFacts DEF SetDecodedInstructions, Phases, headers
  <2>. QED  BY <2>1 DEF TypeOK, Memory!TypeOK, arena, headers, LoopOK
<1>17. CASE UNCHANGED vars
  BY <1>17 DEF vars, TypeOK, Memory!TypeOK, LoopLength
<1>. QED
  BY <1>2, <1>3, <1>4, <1>5, <1>6, <1>7, <1>8, <1>9, <1>10, <1>11, <1>12, <1>13,
     <1>14, <1>15, <1>16, <1>17 DEF Next

(***************************************************************************)
(* Types of loadElf, for every file.                                       *)
(***************************************************************************)
THEOREM LoaderTypeCorrect == Spec => []TypeOK
BY TypeInit, TypeStep, PTL DEF Spec

-----------------------------------------------------------------------------
(***************************************************************************)
(* Where no sum wraps, the code computes with the numbers of the file.     *)
(***************************************************************************)
LEMMA SumFacts ==
  ASSUME TypeOK, Image!SumsFit(file)
  PROVE  /\ HeaderValid <=> Image!ValidHeader(file)
         /\ \A i \in DOMAIN file.segments : Image!ValidHeader(file) => EntryInFile(i)
         /\ \A i \in Image!LoadSegments(file) :
              /\ Segment(i) \in SegmentHeader
              /\ SourceEnd(Segment(i)) = Segment(i).sourceStart + Segment(i).sourceSize
              /\ DestinationEnd(Segment(i)) = End(Segment(i))
         /\ \A i \in DOMAIN file.segments :
              i \in Image!LoadSegments(file) <=> ~Skipped(Segment(i))
<1> DEFINE n == Len(file.segments)
           offset == file.tableOffset
<1>1. /\ n \in Nat /\ offset \in Nat /\ offset + n * 56 < SizeModulus
      /\ file.size \in Nat /\ file.identified \in BOOLEAN /\ SizeModulus \in Nat
  BY FileFacts, SizesAssumption DEF ElfFile, Size, Image!SumsFit, Image!EntrySize
<1>2. HeaderValid <=> Image!ValidHeader(file)
  BY <1>1 DEF HeaderValid, Image!ValidHeader, Wrap, EntrySize, ElfHeaderSize,
              Image!EntrySize, Image!ElfHeaderSize
<1>3. ASSUME NEW i \in DOMAIN file.segments, Image!ValidHeader(file)
      PROVE  EntryInFile(i)
  <2>1. i \in 1 .. n
    BY FileFacts
  <2>2. offset + n * 56 =< file.size
    BY <1>3 DEF Image!ValidHeader, Image!EntrySize
  <2> HIDE DEF n, offset
  <2>3. offset + (i - 1) * 56 + 56 =< offset + n * 56 /\ offset + (i - 1) * 56 \in Nat
    BY <1>1, <2>1
  <2>4. Wrap(offset + (i - 1) * 56) = offset + (i - 1) * 56
    BY <1>1, <2>3 DEF Wrap
  <2>. QED  BY <1>1, <2>2, <2>3, <2>4 DEF EntryInFile, EntrySize, FieldsSize, offset
<1>4. ASSUME NEW i \in Image!LoadSegments(file)
      PROVE  /\ Segment(i) \in SegmentHeader
             /\ SourceEnd(Segment(i)) = Segment(i).sourceStart + Segment(i).sourceSize
             /\ DestinationEnd(Segment(i)) = End(Segment(i))
  <2>1. Segment(i) \in SegmentHeader /\ Segment(i) = file.segments[i]
    BY FileFacts, SegmentFacts DEF Segment
  <2>2. /\ Segment(i).sourceStart + Segment(i).sourceSize < SizeModulus
        /\ Segment(i).destinationStart + Segment(i).destinationSize < SizeModulus
    BY <2>1 DEF Image!SumsFit
  <2>. QED  BY <2>1, <2>2, HeaderFacts, WrapFacts DEF SourceEnd, DestinationEnd, End
<1>5. ASSUME NEW i \in DOMAIN file.segments
      PROVE  i \in Image!LoadSegments(file) <=> ~Skipped(Segment(i))
  <2>1. Segment(i) \in SegmentHeader
    BY FileFacts
  <2>. QED  BY <2>1, HeaderFacts DEF Skipped, Image!LoadSegments, Segment
<1>. QED  BY <1>2, <1>3, <1>4, <1>5

(***************************************************************************)
(* Pushing the next index collects it; an index that is not of interest    *)
(* changes nothing.                                                        *)
(***************************************************************************)
LEMMA CollectNext ==
  ASSUME NEW S \in SUBSET Nat, NEW n \in Nat, NEW h, Collected(h, Before(S, n))
  PROVE  /\ n \in S => Collected(Append(h, n), Before(S, n + 1))
         /\ n \notin S => Collected(h, Before(S, n + 1))
<1>0. \A i \in S : /\ i < n + 1 <=> i < n \/ i = n
                  /\ ~(n < n)
  <2>1. \A i \in Nat : (i < n + 1 <=> i < n \/ i = n) /\ ~(n < n)
    OBVIOUS
  <2>. QED  BY <2>1
<1>1. CASE n \in S
  <2> DEFINE t == Append(h, n)
             T == Before(S, n + 1)
  <2>1. /\ T = Before(S, n) \union {n}
        /\ n \notin Before(S, n)
    BY <1>0, <1>1, Zenon DEF Before
  <2>2. h \in Seq(T) /\ n \in T
    BY <2>1 DEF Collected
  <2>3. /\ t \in Seq(T) /\ Len(t) = Len(h) + 1 /\ Len(h) \in Nat
        /\ \A i \in 1 .. Len(h) : t[i] = h[i]
        /\ t[Len(h) + 1] = n
    BY <2>2, AppendProperties
  <2> HIDE DEF t, T
  <2>4. \A i \in 1 .. Len(h) : h[i] \in Before(S, n)
    BY DEF Collected
  <2>5. ASSUME NEW i \in 1 .. Len(t), NEW j \in 1 .. Len(t), t[i] = t[j] PROVE i = j
    <3>1. CASE i \in 1 .. Len(h) /\ j \in 1 .. Len(h)
      BY <2>3, <2>5, <3>1 DEF Collected
    <3>2. CASE i = Len(h) + 1 /\ j \in 1 .. Len(h)
      BY <2>1, <2>3, <2>4, <2>5, <3>2
    <3>3. CASE i \in 1 .. Len(h) /\ j = Len(h) + 1
      BY <2>1, <2>3, <2>4, <2>5, <3>3
    <3>. QED  BY <2>3, <3>1, <3>2, <3>3
  <2>6. ASSUME NEW x \in T PROVE \E i \in 1 .. Len(t) : t[i] = x
    <3>1. CASE x = n
      BY <2>3, <3>1
    <3>2. CASE x \in Before(S, n)
      <4>1. PICK i \in 1 .. Len(h) : h[i] = x
        BY <3>2 DEF Collected
      <4>. QED  BY <2>3, <4>1
    <3>. QED  BY <2>1, <3>1, <3>2
  <2>7. Collected(t, T)
    BY <2>3, <2>5, <2>6 DEF Collected
  <2>. QED  BY <1>1, <2>7 DEF t, T
<1>2. CASE n \notin S
  <2>1. Before(S, n + 1) = Before(S, n)
    BY <1>0, <1>2, Zenon DEF Before
  <2>. QED  BY <1>2, <2>1
<1>. QED  BY <1>1, <1>2

(***************************************************************************)
(* Before the first index there is nothing, before the end everything.     *)
(***************************************************************************)
LEMMA BeforeFacts ==
  ASSUME NEW m \in Nat, NEW S \in SUBSET (1 .. m), NEW n \in Nat
  PROVE  /\ Collected(<< >>, Before(S, 1))
         /\ n > m => Before(S, n) = S
<1>1. Before(S, 1) = {}
  <2>1. \A i \in S : ~(i < 1)
    OBVIOUS
  <2>. QED  BY <2>1, Zenon DEF Before
<1>2. Collected(<< >>, {})
  <2>1. << >> \in Seq({}) /\ Len(<< >>) = 0
    OBVIOUS
  <2>. QED  BY <2>1 DEF Collected
<1>3. ASSUME n > m PROVE Before(S, n) = S
  <2>1. \A i \in S : i < n
    BY <1>3
  <2>. QED  BY <2>1, Zenon DEF Before
<1>. QED  BY <1>1, <1>2, <1>3

-----------------------------------------------------------------------------
(***************************************************************************)
(* Reading the headers collects the segments that are loaded.              *)
(***************************************************************************)
LEMMA EstablishedInit ==
  ASSUME Init PROVE Established
<1>1. phase = "header" /\ blocks = << >> /\ freeSpace = MemorySize
  BY DEF Init, Memory!Init
<1>2. memory = Image!EmptyMemory /\ codeMemory = << >> /\ instructions = << >>
  BY DEF Init, Image!EmptyMemory, Image!Zero, Zero
<1>3. dataHeaders = << >> /\ codeHeaders = << >>
  BY DEF Init
<1>. QED
  BY <1>1, <1>2, <1>3
  DEF Established, HeadersEstablished, DataEstablished, CodeEstablished,
      MappingEstablished, AfterCopyCode, AfterAllocateCode, AfterCopyData,
      AfterCodeContiguous, AfterCodeSizes, AfterDataOverlap, AfterDataSizes,
      AfterSorting, AfterReading, AfterHeader

\* What a phase before the mapping leaves to say of it
NothingMapped ==
  /\ freeSpace = MemorySize /\ blocks = << >> /\ memory = Image!EmptyMemory
  /\ codeMemory = << >> /\ instructions = << >>

LEMMA NothingMappedYet ==
  ASSUME Established, phase \notin AfterCopyData \union {"copyData", "rejected"}
  PROVE  NothingMapped
BY DEF Established, MappingEstablished, NothingMapped, AfterCopyCode,
       AfterAllocateCode, AfterCopyData

\* An exception before the mapping
LEMMA ThrownBeforeMapping ==
  ASSUME phase' = "rejected", NothingMapped'
  PROVE  Established'
BY DEF Established, HeadersEstablished, DataEstablished, CodeEstablished,
       MappingEstablished, NothingMapped, AfterCopyCode, AfterAllocateCode,
       AfterCopyData, AfterCodeContiguous, AfterCodeSizes, AfterDataOverlap,
       AfterDataSizes, AfterSorting, AfterReading, AfterHeader

LEMMA NothingMappedStep ==
  ASSUME NothingMapped, UNCHANGED <<arena, results>>
  PROVE  NothingMapped'
BY DEF NothingMapped, arena, results

LEMMA ReadingStep ==
  ASSUME TypeOK, Image!SumsFit(file), Established,
         ReadElfHeader \/ ReadSegmentHeader \/ SegmentHeadersRead
  PROVE  Established'
<1> DEFINE m == Len(file.segments)
           D == Image!DataSegments(file)
           C == Image!CodeSegments(file)
           L == Image!LoadSegments(file)
<1>1. /\ m \in Nat /\ D \in SUBSET (1 .. m) /\ C \in SUBSET (1 .. m) /\ L \in SUBSET (1 .. m)
      /\ D \in SUBSET Nat /\ C \in SUBSET Nat /\ L \in SUBSET Nat
      /\ DOMAIN file.segments = 1 .. m /\ file \in ElfFile
  BY FileFacts, SegmentFacts
<1>2. UNCHANGED <<file, arena, results>>
  BY DEF ReadElfHeader, ReadSegmentHeader, SegmentHeadersRead
<1>3. NothingMapped /\ NothingMapped'
  <2>1. phase \in {"header", "segments"}
    BY DEF ReadElfHeader, ReadSegmentHeader, SegmentHeadersRead
  <2>2. NothingMapped
    BY <2>1, NothingMappedYet DEF AfterCopyCode, AfterAllocateCode, AfterCopyData
  <2>. QED  BY <1>2, <2>2, NothingMappedStep
<1>4. ASSUME phase' = "rejected" PROVE Established'
  BY <1>3, <1>4, ThrownBeforeMapping
<1>5. ASSUME phase' = "segments", Image!ValidHeader(file),
             Collected(dataHeaders', Before(D, next')),
             Collected(codeHeaders', Before(C, next')),
             InFileBefore(file, next')
      PROVE  Established'
  <2> USE DEF AfterCopyCode, AfterAllocateCode, AfterCopyData, AfterCodeContiguous,
        AfterCodeSizes, AfterDataOverlap, AfterDataSizes, AfterSorting,
        AfterReading, AfterHeader
  <2>1. file' = file
    BY <1>2
  <2>2. HeadersEstablished'
    BY <1>5, <2>1 DEF HeadersEstablished
  <2>3. DataEstablished' /\ CodeEstablished'
    BY <1>5 DEF DataEstablished, CodeEstablished
  <2>4. MappingEstablished'
    BY <1>3, <1>5 DEF MappingEstablished, NothingMapped
  <2>. QED  BY <1>5, <2>2, <2>3, <2>4 DEF Established
<1>6. CASE ReadElfHeader
  <2>1. CASE HeaderValid
    <3>1. Image!ValidHeader(file)
      BY <2>1, SumFacts
    <3>2. phase' = "segments" /\ next' = 1
      BY <1>6, <2>1 DEF ReadElfHeader, Enter
    <3>3. dataHeaders' = << >> /\ codeHeaders' = << >>
      BY <1>6 DEF ReadElfHeader, Established, HeadersEstablished, headers
    <3>4. InFileBefore(file, 1)
      <4>1. \A i \in L : ~(i < 1)
        BY <1>1
      <4>. QED  BY <4>1 DEF InFileBefore, Before
    <3>. QED  BY <1>1, <1>5, <3>1, <3>2, <3>3, <3>4, BeforeFacts
  <2>2. CASE ~HeaderValid
    BY <1>4, <1>6, <2>2 DEF ReadElfHeader, Throw
  <2>. QED  BY <2>1, <2>2
<1>7. CASE ReadSegmentHeader
  <2> DEFINE s == Segment(next)
  <2>1. /\ phase = "segments" /\ next \in 1 .. m /\ next \in Nat
    BY <1>7 DEF ReadSegmentHeader, TypeOK
  <2>2. /\ Image!ValidHeader(file) /\ InFileBefore(file, next)
        /\ Collected(dataHeaders, Before(D, next))
        /\ Collected(codeHeaders, Before(C, next))
    BY <2>1 DEF Established, HeadersEstablished, AfterHeader
  <2>3. EntryInFile(next)
    BY <1>1, <2>1, <2>2, SumFacts
  <2>4. ASSUME next \in L => ~PastFile(s) PROVE InFileBefore(file, next + 1)
    <3> SUFFICES ASSUME NEW i \in L, i < next + 1
                 PROVE  file.segments[i].sourceStart + file.segments[i].sourceSize =< file.size
      BY DEF InFileBefore, Before
    <3>1. CASE i = next
      <4>1. /\ SourceEnd(s) = file.segments[i].sourceStart + file.segments[i].sourceSize
            /\ SourceEnd(s) \in Nat /\ file.size \in Nat
        BY <1>1, <3>1, SumFacts, HeaderFacts, SizesAssumption DEF Segment, ElfFile, Size
      <4>. QED  BY <2>4, <3>1, <4>1 DEF PastFile
    <3>2. CASE i < next
      BY <2>2, <3>2 DEF InFileBefore, Before
    <3>. QED  BY <1>1, <2>1, <3>1, <3>2
  <2>5. CASE Skipped(s)
    <3>1. next \notin L /\ next \notin D /\ next \notin C
      BY <1>1, <2>1, <2>5, SumFacts, SegmentFacts
    <3>2. phase' = "segments" /\ next' = next + 1 /\ UNCHANGED headers
      BY <1>7, <2>1, <2>3, <2>5 DEF ReadSegmentHeader, Skip, Continue
    <3>3. /\ Collected(dataHeaders, Before(D, next + 1))
          /\ Collected(codeHeaders, Before(C, next + 1))
      BY <1>1, <2>1, <2>2, <3>1, CollectNext
    <3>. QED  BY <1>5, <2>2, <2>4, <3>1, <3>2, <3>3 DEF headers
  <2>6. CASE ~Skipped(s) /\ PastFile(s)
    BY <1>4, <1>7, <2>3, <2>6 DEF ReadSegmentHeader, Throw
  <2>7. CASE ~Skipped(s) /\ ~PastFile(s)
    <3>1. next \in L
      BY <1>1, <2>1, <2>7, SumFacts
    <3>2. phase' = "segments" /\ next' = next + 1
      BY <1>7, <2>1, <2>3, <2>7 DEF ReadSegmentHeader, Continue
    <3>3. CASE s.executable
      <4>1. next \in C /\ next \notin D
        BY <3>1, <3>3 DEF Image!CodeSegments, Image!DataSegments, Segment
      <4>2. codeHeaders' = Append(codeHeaders, next) /\ dataHeaders' = dataHeaders
        BY <1>7, <2>3, <2>7, <3>3 DEF ReadSegmentHeader
      <4>3. /\ Collected(dataHeaders, Before(D, next + 1))
            /\ Collected(Append(codeHeaders, next), Before(C, next + 1))
        BY <1>1, <2>1, <2>2, <4>1, CollectNext
      <4>. QED  BY <1>5, <2>2, <2>4, <2>7, <3>2, <4>2, <4>3
    <3>4. CASE ~s.executable
      <4>1. next \in D /\ next \notin C
        BY <3>1, <3>4 DEF Image!CodeSegments, Image!DataSegments, Segment
      <4>2. dataHeaders' = Append(dataHeaders, next) /\ codeHeaders' = codeHeaders
        BY <1>7, <2>3, <2>7, <3>4 DEF ReadSegmentHeader
      <4>3. /\ Collected(Append(dataHeaders, next), Before(D, next + 1))
            /\ Collected(codeHeaders, Before(C, next + 1))
        BY <1>1, <2>1, <2>2, <4>1, CollectNext
      <4>. QED  BY <1>5, <2>2, <2>4, <2>7, <3>2, <4>2, <4>3
    <3>. QED  BY <3>3, <3>4
  <2>. QED  BY <2>5, <2>6, <2>7
<1>8. CASE SegmentHeadersRead
  <2>1. phase = "segments" /\ next > m /\ phase' = "sort" /\ UNCHANGED headers
    BY <1>8 DEF SegmentHeadersRead, Enter
  <2>2. next \in Nat
    BY FileFacts
  <2>3. Before(D, next) = D /\ Before(C, next) = C /\ Before(L, next) = L
    BY <1>1, <2>1, <2>2, BeforeFacts
  <2>4. Image!ValidHeader(file) /\ Image!InFile(file)
    BY <2>1, <2>3
    DEF Established, HeadersEstablished, AfterHeader, InFileBefore, Image!InFile
  <2>5. Collected(dataHeaders, D) /\ Collected(codeHeaders, C)
    BY <2>1, <2>3 DEF Established, HeadersEstablished
  <2>. QED
    BY <1>2, <1>3, <2>1, <2>4, <2>5
    DEF headers, Established, HeadersEstablished, DataEstablished, CodeEstablished,
        MappingEstablished, NothingMapped, AfterCopyCode, AfterAllocateCode,
        AfterCopyData, AfterCodeContiguous, AfterCodeSizes, AfterDataOverlap,
        AfterDataSizes, AfterSorting, AfterReading, AfterHeader
<1>. QED  BY <1>6, <1>7, <1>8

(***************************************************************************)
(* The collected headers, as the later phases use them.                    *)
(***************************************************************************)
LEMMA CollectedHeaders ==
  ASSUME TypeOK, Established, phase \in AfterReading
  PROVE  /\ file \in ElfFile
         /\ Image!DataSegments(file) \in SUBSET Image!LoadSegments(file)
         /\ Image!CodeSegments(file) \in SUBSET Image!LoadSegments(file)
         /\ Collected(dataHeaders, Image!DataSegments(file))
         /\ Collected(codeHeaders, Image!CodeSegments(file))
         /\ Image!ValidHeader(file) /\ Image!InFile(file)
BY FileFacts, SegmentFacts DEF Established, HeadersEstablished, AfterHeader

LEMMA EndFacts ==
  ASSUME TypeOK, Image!SumsFit(file), NEW S \in SUBSET Image!LoadSegments(file),
         NEW h, Collected(h, S), NEW i \in 1 .. Len(h)
  PROVE  /\ Segment(h[i]) = file.segments[h[i]]
         /\ Segment(h[i]) \in SegmentHeader
         /\ DestinationEnd(Segment(h[i])) = End(file.segments[h[i]])
<1>1. h[i] \in Image!LoadSegments(file)
  BY FileFacts, CollectedFacts
<1>. QED  BY <1>1, SumFacts DEF Segment

LEMMA SortStep ==
  ASSUME TypeOK, Image!SumsFit(file), Established, SortHeaders
  PROVE  Established'
<1>1. phase = "sort" /\ phase' = "dataSizes" /\ UNCHANGED <<file, arena, results>>
  BY DEF SortHeaders, Enter
<1>2. NothingMapped'
  BY <1>1, NothingMappedYet, NothingMappedStep DEF AfterCopyCode, AfterAllocateCode, AfterCopyData
<1>3. phase \in AfterReading
  BY <1>1 DEF AfterReading
<1>4. /\ dataHeaders \in Seq(DOMAIN file.segments) /\ dataHeaders' \in Sorted(dataHeaders)
      /\ codeHeaders \in Seq(DOMAIN file.segments) /\ codeHeaders' \in Sorted(codeHeaders)
  BY DEF TypeOK, SortHeaders
<1>5. /\ Collected(dataHeaders', Image!DataSegments(file))
      /\ Collected(codeHeaders', Image!CodeSegments(file))
  BY <1>3, <1>4, SortedFacts, CollectedHeaders
<1>6. ASSUME NEW h, NEW t, h \in Seq(DOMAIN file.segments), t \in Sorted(h)
      PROVE  Ascending(file, t)
  <2>1. /\ t \in Seq(DOMAIN file.segments) /\ Len(t) \in Nat
        /\ \A i, j \in 1 .. Len(t) : i < j => ~StartsBefore(t[j], t[i])
    BY <1>6, SortedFacts
  <2> SUFFICES ASSUME NEW i \in 1 .. Len(t), NEW j \in 1 .. Len(t), i < j
               PROVE  file.segments[t[i]].destinationStart
                        =< file.segments[t[j]].destinationStart
    BY DEF Ascending
  <2>2. Segment(t[i]) \in SegmentHeader /\ Segment(t[j]) \in SegmentHeader
    BY <2>1, FileFacts
  <2>3. ~StartsBefore(t[j], t[i])
    BY <2>1
  <2>. QED  BY <2>2, <2>3, HeaderFacts DEF StartsBefore, Segment
<1>7. Ascending(file, dataHeaders') /\ Ascending(file, codeHeaders')
  BY <1>4, <1>6
<1>8. Image!ValidHeader(file) /\ Image!InFile(file)
  BY <1>3, CollectedHeaders
<1> USE DEF AfterCopyCode, AfterAllocateCode, AfterCopyData, AfterCodeContiguous,
      AfterCodeSizes, AfterDataOverlap, AfterDataSizes, AfterSorting,
      AfterReading, AfterHeader
<1>9. file' = file
  BY <1>1
<1>10. HeadersEstablished'
  BY <1>1, <1>5, <1>7, <1>8, <1>9 DEF HeadersEstablished
<1>11. DataEstablished' /\ CodeEstablished'
  BY <1>1 DEF DataEstablished, CodeEstablished
<1>12. MappingEstablished'
  BY <1>1, <1>2 DEF MappingEstablished, NothingMapped
<1>. QED  BY <1>1, <1>10, <1>11, <1>12 DEF Established

(***************************************************************************)
(* The checks of the data headers leave them validated, or throw.          *)
(***************************************************************************)
LEMMA ValidateDataStep ==
  ASSUME TypeOK, Image!SumsFit(file), Established,
         ValidateDataSizes \/ ValidateDataOverlap
  PROVE  Established'
<1>1. /\ phase \in {"dataSizes", "dataOverlap"}
      /\ UNCHANGED <<file, headers, arena, results>>
  BY DEF ValidateDataSizes, ValidateDataOverlap
<1>2. NothingMapped'
  BY <1>1, NothingMappedYet, NothingMappedStep DEF AfterCopyCode, AfterAllocateCode, AfterCopyData
<1>3. phase \in AfterReading /\ phase \in AfterSorting
  BY <1>1 DEF AfterReading, AfterSorting, AfterDataSizes
<1>4. ASSUME phase' = "rejected" PROVE Established'
  BY <1>2, <1>4, ThrownBeforeMapping
<1>5. file' = file /\ dataHeaders' = dataHeaders /\ codeHeaders' = codeHeaders
  BY <1>1 DEF headers
<1>6. ASSUME phase' \in {"dataOverlap", "codeSizes"},
             NotTruncated(file, dataHeaders),
             phase' = "dataOverlap" => Apart(file, dataHeaders, next'),
             phase' = "codeSizes" => Apart(file, dataHeaders, Len(dataHeaders))
      PROVE  Established'
  <2> USE DEF AfterCopyCode, AfterAllocateCode, AfterCopyData, AfterCodeContiguous,
        AfterCodeSizes, AfterDataOverlap, AfterDataSizes, AfterSorting,
        AfterReading, AfterHeader
  <2>1. HeadersEstablished
    BY DEF Established
  <2>2. HeadersEstablished'
    BY <1>3, <1>5, <1>6, <2>1 DEF HeadersEstablished
  <2>3. DataEstablished' /\ CodeEstablished'
    BY <1>5, <1>6 DEF DataEstablished, CodeEstablished
  <2>4. MappingEstablished'
    BY <1>2, <1>6 DEF MappingEstablished, NothingMapped
  <2>. QED  BY <1>6, <2>2, <2>3, <2>4 DEF Established
<1> DEFINE D == Image!DataSegments(file)
<1>7. /\ file \in ElfFile /\ D \in SUBSET Image!LoadSegments(file)
      /\ Collected(dataHeaders, D)
      /\ Len(dataHeaders) \in Nat /\ DOMAIN dataHeaders = 1 .. Len(dataHeaders)
  BY <1>3, CollectedHeaders, FileFacts
<1>8. CASE ValidateDataSizes
  <2>1. CASE \E i \in DOMAIN dataHeaders : Truncated(Segment(dataHeaders[i]))
    BY <1>4, <1>8, <2>1 DEF ValidateDataSizes, Throw
  <2>2. CASE \A i \in DOMAIN dataHeaders : ~Truncated(Segment(dataHeaders[i]))
    <3>1. NotTruncated(file, dataHeaders)
      <4> SUFFICES ASSUME NEW i \in 1 .. Len(dataHeaders)
                   PROVE  file.segments[dataHeaders[i]].sourceSize
                            =< file.segments[dataHeaders[i]].destinationSize
        BY DEF NotTruncated
      <4>1. Segment(dataHeaders[i]) \in SegmentHeader /\ ~Truncated(Segment(dataHeaders[i]))
        BY <1>7, <2>2, EndFacts
      <4>. QED  BY <4>1, HeaderFacts DEF Truncated, Segment
    <3>2. Apart(file, dataHeaders, 1)
      <4>1. \A i, j \in 1 .. Len(dataHeaders) : ~(i < j /\ j =< 1)
        BY <1>7
      <4>. QED  BY <4>1 DEF Apart
    <3>3. phase' = "dataOverlap" /\ next' = 1
      BY <1>8, <2>2 DEF ValidateDataSizes, Enter
    <3>. QED  BY <1>6, <3>1, <3>2, <3>3
  <2>. QED  BY <2>1, <2>2
<1>9. CASE ValidateDataOverlap
  <2>1. /\ phase = "dataOverlap" /\ next \in Nat \ {0}
        /\ NotTruncated(file, dataHeaders) /\ Apart(file, dataHeaders, next)
        /\ Ascending(file, dataHeaders)
    BY <1>3, <1>9
    DEF ValidateDataOverlap, TypeOK, Established, HeadersEstablished, DataEstablished, AfterDataSizes
  <2>2. CASE next >= Len(dataHeaders)
    <3>1. Apart(file, dataHeaders, Len(dataHeaders))
      <4>1. \A j \in 1 .. Len(dataHeaders) : j =< next
        BY <1>7, <2>1, <2>2
      <4>. QED  BY <2>1, <4>1 DEF Apart
    <3>2. phase' = "codeSizes"
      BY <1>7, <1>9, <2>1, <2>2 DEF ValidateDataOverlap, Enter
    <3>. QED  BY <1>6, <2>1, <3>1, <3>2
  <2>3. CASE next < Len(dataHeaders)
    <3> DEFINE s == file.segments[dataHeaders[next]]
               t == file.segments[dataHeaders[next + 1]]
    <3>1. next \in 1 .. Len(dataHeaders) /\ next + 1 \in 1 .. Len(dataHeaders)
      BY <1>7, <2>1, <2>3
    <3>2. /\ Overlaps(Segment(dataHeaders[next]), Segment(dataHeaders[next + 1]))
               <=> End(s) > t.destinationStart
          /\ s \in SegmentHeader /\ t \in SegmentHeader
      BY <1>7, <3>1, EndFacts DEF Overlaps
    <3>3. CASE End(s) > t.destinationStart
      <4>1. phase' = "rejected"
        BY <1>9, <2>3, <3>2, <3>3, <1>7, <2>1 DEF ValidateDataOverlap, Throw
      <4>. QED  BY <1>4, <4>1
    <3>4. CASE ~(End(s) > t.destinationStart)
      <4>1. phase' = "dataOverlap" /\ next' = next + 1
        BY <1>9, <2>1, <2>3, <3>2, <3>4, <1>7 DEF ValidateDataOverlap, Continue
      <4>2. End(s) =< t.destinationStart
        BY <3>2, <3>4, HeaderFacts
      <4>3. Apart(file, dataHeaders, next + 1)
        BY <1>7, <2>1, <3>1, <4>2, ApartStep
      <4>. QED  BY <1>6, <2>1, <4>1, <4>3
    <3>. QED  BY <3>3, <3>4
  <2>. QED  BY <1>7, <2>1, <2>2, <2>3
<1>. QED  BY <1>8, <1>9

(***************************************************************************)
(* The checks of the code headers leave them without a gap, or throw.      *)
(***************************************************************************)
LEMMA ValidateCodeStep ==
  ASSUME TypeOK, Image!SumsFit(file), Established,
         ValidateCodeSizes \/ ValidateCodeContiguous
  PROVE  Established'
<1>1. /\ phase \in {"codeSizes", "codeContiguous"}
      /\ UNCHANGED <<file, headers, arena, results>>
  BY DEF ValidateCodeSizes, ValidateCodeContiguous
<1>2. NothingMapped'
  BY <1>1, NothingMappedYet, NothingMappedStep DEF AfterCopyCode, AfterAllocateCode, AfterCopyData
<1>3. phase \in AfterReading /\ phase \in AfterSorting /\ phase \in AfterDataSizes
        /\ phase \in AfterDataOverlap
  BY <1>1 DEF AfterReading, AfterSorting, AfterDataSizes, AfterDataOverlap, AfterCodeSizes
<1>4. ASSUME phase' = "rejected" PROVE Established'
  BY <1>2, <1>4, ThrownBeforeMapping
<1>5. file' = file /\ dataHeaders' = dataHeaders /\ codeHeaders' = codeHeaders
  BY <1>1 DEF headers
<1>6. ASSUME phase' = "codeContiguous" \/ phase' = "mapData",
             CodeFits(file, codeHeaders),
             phase' = "codeContiguous" =>
               Apart(file, codeHeaders, next') /\ Covered(file, codeHeaders, next'),
             phase' = "mapData" =>
               /\ Apart(file, codeHeaders, Len(codeHeaders))
               /\ Covered(file, codeHeaders, Len(codeHeaders))
      PROVE  Established'
  <2> USE DEF AfterCopyCode, AfterAllocateCode, AfterCopyData, AfterCodeContiguous,
        AfterCodeSizes, AfterDataOverlap, AfterDataSizes, AfterSorting,
        AfterReading, AfterHeader
  <2>1. HeadersEstablished /\ DataEstablished
    BY DEF Established
  <2>2. HeadersEstablished'
    BY <1>3, <1>5, <1>6, <2>1 DEF HeadersEstablished
  <2>3. DataEstablished'
    BY <1>3, <1>5, <1>6, <2>1 DEF DataEstablished
  <2>4. CodeEstablished'
    BY <1>5, <1>6 DEF CodeEstablished
  <2>5. MappingEstablished'
    BY <1>2, <1>6 DEF MappingEstablished, NothingMapped
  <2>. QED  BY <1>6, <2>2, <2>3, <2>4, <2>5 DEF Established
<1> DEFINE C == Image!CodeSegments(file)
           n == Len(codeHeaders)
<1>7. /\ file \in ElfFile /\ C \in SUBSET Image!LoadSegments(file)
      /\ Collected(codeHeaders, C)
      /\ n \in Nat /\ DOMAIN codeHeaders = 1 .. n
      /\ \A i \in 1 .. n : Segment(codeHeaders[i]) = file.segments[codeHeaders[i]]
      /\ \A i \in 1 .. n : file.segments[codeHeaders[i]] \in SegmentHeader
  BY <1>3, CollectedHeaders, FileFacts, EndFacts
<1>8. CASE ValidateCodeSizes
  <2>1. CASE ~CodeHeadersFit
    BY <1>4, <1>8, <2>1 DEF ValidateCodeSizes, Throw
  <2>2. CASE CodeHeadersFit
    <3>1. codeHeaders # << >> /\ 1 \in 1 .. n
      BY <1>7, <2>2, CollectedFacts DEF CodeHeadersFit
    <3>2. CodeFits(file, codeHeaders)
      BY <1>7, <2>2, <3>1 DEF CodeHeadersFit, CodeFits
    <3>3. \A i \in 1 .. n : i =< 1 => i = 1
      BY <1>7
    <3>4. Apart(file, codeHeaders, 1)
      <4>1. \A i, j \in 1 .. n : ~(i < j /\ j =< 1)
        BY <1>7
      <4>. QED  BY <4>1 DEF Apart
    <3>5. Covered(file, codeHeaders, 1)
      <4>1. \A a \in 0 .. 0 - 1 : FALSE
        OBVIOUS
      <4>. QED  BY <3>2, <3>3, <4>1 DEF Covered, CodeFits
    <3>6. phase' = "codeContiguous" /\ next' = 1
      BY <1>8, <2>2 DEF ValidateCodeSizes, Enter
    <3>. QED  BY <1>6, <3>2, <3>4, <3>5, <3>6
  <2>. QED  BY <2>1, <2>2
<1>9. CASE ValidateCodeContiguous
  <2>1. /\ phase = "codeContiguous" /\ next \in Nat \ {0}
        /\ CodeFits(file, codeHeaders)
        /\ Apart(file, codeHeaders, next) /\ Covered(file, codeHeaders, next)
    BY <1>9
    DEF ValidateCodeContiguous, TypeOK, Established, CodeEstablished, AfterCodeSizes
  <2>2. CASE next >= n
    <3>1. \A j \in 1 .. n : j =< next /\ j =< n
      BY <1>7, <2>1, <2>2
    <3>2. /\ Apart(file, codeHeaders, Len(codeHeaders))
          /\ Covered(file, codeHeaders, Len(codeHeaders))
      BY <2>1, <3>1 DEF Apart, Covered
    <3>3. phase' = "mapData"
      BY <1>7, <1>9, <2>1, <2>2 DEF ValidateCodeContiguous, Enter
    <3>. QED  BY <1>6, <2>1, <3>2, <3>3
  <2>3. CASE next < n
    <3> DEFINE s == file.segments[codeHeaders[next]]
               t == file.segments[codeHeaders[next + 1]]
    <3>1. next \in 1 .. n - 1 /\ next \in 1 .. n /\ next + 1 \in 1 .. n
      BY <1>7, <2>1, <2>3
    <3>2. /\ DestinationEnd(Segment(codeHeaders[next])) = End(s)
          /\ Segment(codeHeaders[next + 1]) = t
      BY <1>7, <3>1, EndFacts
    <3>3. CASE End(s) # t.destinationStart
      <4>1. phase' = "rejected"
        BY <1>7, <1>9, <2>1, <2>3, <3>2, <3>3 DEF ValidateCodeContiguous, Throw
      <4>. QED  BY <1>4, <4>1
    <3>4. CASE End(s) = t.destinationStart
      <4>1. phase' = "codeContiguous" /\ next' = next + 1
        BY <1>7, <1>9, <2>1, <2>3, <3>2, <3>4 DEF ValidateCodeContiguous, Continue
      <4>2. Apart(file, codeHeaders, next + 1) /\ Covered(file, codeHeaders, next + 1)
        BY <1>7, <2>1, <3>1, <3>4, CoveredStep
      <4>. QED  BY <1>6, <2>1, <4>1, <4>2
    <3>. QED  BY <3>3, <3>4
  <2>. QED  BY <1>7, <2>1, <2>2, <2>3
<1>. QED  BY <1>8, <1>9
=============================================================================
