----------------------------- MODULE AppProofs -----------------------------
(***************************************************************************)
(* Theorems about the process, for all command lines, files and widths of  *)
(* the integers.                                                           *)
(***************************************************************************)
EXTENDS AppProperties, TLAPS

\* The sizes of the options are those that were parsed.
Parsed ==
  \/ options = NoOptions
  \/ /\ options.memorySize \in {MemoryBytes(k) : k \in MemoryArguments}
     /\ options.framebufferWidth > 0 /\ options.framebufferHeight > 0

BeforeWindow == {"initSubSystem", "parse", "emulator", "window"}
WithTexture == {"program", "headers", "mapData", "mapCode", "framebuffer"}
WithFramebuffer == {"presentEmpty"} \union Looping

\* What each part of the start has left behind for the next
FramebufferEstablished ==
  /\ phase \in (Starting \ {"initSubSystem", "parse", "unwind"}) \union Looping
       => options # NoOptions
  /\ phase \in WithTexture \union WithFramebuffer
       => options.framebufferWidth =< MaxTextureSize
  /\ phase \in WithFramebuffer
       => /\ framebuffer.count = FramebufferPixels
          /\ framebuffer.offset + framebuffer.count * Pixel.size =< options.memorySize

AppEstablished ==
  /\ phase \in Looping => app
  /\ app => phase \in Looping \union {"quit", "stuck"}

ProgramEstablished ==
  phase \in {"headers", "mapData", "mapCode", "framebuffer", "presentEmpty"}
              \union Looping
    => program \in Programs

HandlesEstablished ==
  /\ phase \in BeforeWindow => handles = {}
  /\ phase = "renderer" => handles = {"window"}
  /\ phase = "texture" => handles = {"window", "renderer"}
  /\ phase = "unwind" /\ ~RendererComplete
       => (handles # {} <=> error \in {"renderer", "texture"})

ErrorEstablished ==
  /\ phase \in (Starting \ {"unwind"}) \union Looping => error = "none"
  /\ phase = "unwind" => error \notin {"none", "emulation"}
  /\ phase \in {"initSubSystem", "parse"} => freeSpace = 0 /\ blocks = << >>

\* The callbacks go on until a request to quit is taken.
AskedEstablished ==
  phase \in Starting \union Looping \union {"stuck"} => ~quitTaken

\* What SDL_AppQuit finds
QuitEstablished ==
  phase = "quit" =>
    /\ result \in {"success", "failure"}
    /\ result = "success" <=> quitTaken
    /\ quitTaken => app /\ error = "none" /\ program \in Programs
    /\ app => error \in {"none", "emulation"}
    /\ ~app => /\ freeSpace = 0 /\ blocks = << >>
               /\ handles # {} <=> error \in {"renderer", "texture"}

Established ==
  /\ Parsed /\ FramebufferEstablished /\ AppEstablished /\ ProgramEstablished
  /\ HandlesEstablished /\ ErrorEstablished /\ AskedEstablished /\ QuitEstablished

AppInv ==
  /\ TypeOK /\ CallbacksDefined /\ KeyboardReplayed /\ EndsConsistently /\ Established

-----------------------------------------------------------------------------
LEMMA Widths ==
  /\ IntModulus \in Nat /\ SizeModulus \in Nat \ {0} /\ MaxInt \in Nat
  /\ MaxInt + MaxInt + 2 = IntModulus
  /\ IntModulus * IntModulus =< SizeModulus
<1>1. MaxInt + 1 = IntModulus \div 2 /\ MaxInt \in Int
  BY WidthsAssumption DEF MaxInt
<1>2. IntModulus \div 2 + IntModulus \div 2 = IntModulus
  BY WidthsAssumption
<1>3. IntModulus * IntModulus >= 1
  BY WidthsAssumption
<1>. QED  BY <1>1, <1>2, <1>3, WidthsAssumption

LEMMA MemoryBytesInSize ==
  \A k \in MemoryArguments : MemoryBytes(k) \in Size
<1> SUFFICES ASSUME NEW k \in MemoryArguments PROVE MemoryBytes(k) \in Size
  OBVIOUS
<1>1. k \in Nat
  BY ArgumentsAssumption, Widths DEF Size
<1>2. k * KiB \in Nat
  BY <1>1 DEF KiB
<1>. QED  BY <1>2, Widths DEF MemoryBytes, Size

LEMMA Products ==
  ASSUME NEW a \in Nat, NEW b \in Nat, NEW c \in Nat, a =< c, b =< c
  PROVE  a * b \in Nat /\ a * b =< c * c
<1>1. a * b \in Nat /\ c * b \in Nat /\ c * c \in Nat
  OBVIOUS
<1>2. a * b =< c * b
  <2>1. (c - a) * b >= 0
    OBVIOUS
  <2>. QED  BY <2>1
<1>3. c * b =< c * c
  <2>1. c * (c - b) >= 0
    OBVIOUS
  <2>. QED  BY <2>1
<1>. QED  BY <1>1, <1>2, <1>3

(***************************************************************************)
(* The byte size of the framebuffer does not wrap: the product of two      *)
(* positive ints times 4 fits into size_t.                                 *)
(***************************************************************************)
LEMMA PixelsFit ==
  ASSUME TypeOK
  PROVE  FramebufferPixels \in Nat /\ Pixel.size * FramebufferPixels < SizeModulus
<1> DEFINE w == options.framebufferWidth
           h == options.framebufferHeight
<1>1. w \in 0 .. MaxInt /\ h \in 0 .. MaxInt
  BY DEF TypeOK
<1>2. w * h \in Nat /\ w * h =< MaxInt * MaxInt
  BY <1>1, Widths, Products
<1>3. 4 * (MaxInt * MaxInt) < IntModulus * IntModulus
  <2>1. IntModulus = 2 * MaxInt + 2
    BY Widths
  <2>2. IntModulus * IntModulus = 4 * (MaxInt * MaxInt) + 8 * MaxInt + 4
    BY <2>1, Widths
  <2>. QED  BY <2>2, Widths
<1> HIDE DEF w, h
<1>4. MaxInt * MaxInt \in Nat /\ IntModulus * IntModulus \in Nat
  BY Widths
<1>5. 4 * (w * h) < SizeModulus
  BY <1>2, <1>3, <1>4, Widths
<1>. QED  BY <1>2, <1>5 DEF FramebufferPixels, Pixel, w, h

LEMMA PaddingInAlignment ==
  ASSUME NEW item \in {Byte, Pixel}, NEW address \in Nat
  PROVE  (item.alignment - (address % item.alignment)) % item.alignment \in 0 .. 3
<1>1. CASE item = Byte
  BY <1>1 DEF Byte
<1>2. CASE item = Pixel
  BY <1>2 DEF Pixel
<1>. QED  BY <1>1, <1>2

(***************************************************************************)
(* What the arena of the process does with a request whose size does not   *)
(* wrap.                                                                   *)
(***************************************************************************)
LEMMA AllocateFacts ==
  ASSUME TypeOK, Parsed, NEW item \in {Byte, Pixel}, NEW count \in Nat,
         item.size * count < SizeModulus,
         NEW next, NEW e, AllocateArray(item, count, next, e)
  PROVE  \/ /\ thrown' = TRUE /\ phase' = "unwind" /\ error' = e
            /\ UNCHANGED <<freeSpace, blocks, result>>
         \/ /\ thrown' = FALSE /\ phase' = next /\ UNCHANGED <<error, result>>
            /\ freeSpace' \in 0 .. options.memorySize
            /\ item.size * count =< freeSpace'
            /\ blocks' = Append(blocks, [offset |-> options.memorySize - freeSpace',
                                        size |-> item.size * count,
                                        alignment |-> item.alignment])
<1>1. PICK capacity \in {MemoryBytes(k) : k \in MemoryArguments} :
        capacity = options.memorySize /\ Memory(capacity)!AllocateArray(item, count)
  BY DEF AllocateArray
<1> DEFINE bytes == item.size * count
           padding == Memory(capacity)!Padding(Memory(capacity)!FreeAddress, item.alignment)
           fits == Memory(capacity)!AlignFits(item.alignment, bytes,
                                              Memory(capacity)!FreeAddress, freeSpace)
<1>2. bytes \in Nat
  BY DEF Byte, Pixel
<1>3. /\ capacity \in Nat /\ freeSpace \in 0 .. capacity
      /\ capacity = options.memorySize
  BY <1>1 DEF TypeOK, Size
<1>4. Memory(capacity)!WrapSize(bytes) = bytes
  BY <1>2 DEF Memory!WrapSize
<1>5. padding \in 0 .. 3
  BY <1>3, PaddingInAlignment, WidthsAssumption
  DEF Memory!Padding, Memory!FreeAddress, Memory!FreeOffset
<1>6. fits <=> bytes =< freeSpace /\ padding =< freeSpace - bytes
  BY DEF Memory!AlignFits
<1>7. Memory(capacity)!AllocateRaw(bytes, item.alignment, bytes)
  BY <1>1, <1>4 DEF Memory!AllocateArray
<1>8. (thrown' /\ Throw(e)) \/ (~thrown' /\ Enter(next))
  BY DEF AllocateArray
<1>9. CASE fits
  <2>1. /\ freeSpace' = freeSpace - padding
        /\ blocks' = Append(blocks, [offset |-> capacity - freeSpace',
                                    size |-> bytes, alignment |-> item.alignment])
        /\ thrown' = FALSE
    BY <1>7, <1>9 DEF Memory!AllocateRaw, Memory!AlignedSpace, Memory!Construct
  <2>2. freeSpace' \in 0 .. capacity /\ bytes =< freeSpace'
    <3> HIDE DEF padding, bytes
    <3>. QED  BY <2>1, <1>2, <1>3, <1>5, <1>6, <1>9
  <2>3. Enter(next)
    BY <2>1, <1>8
  <2>. QED  BY <2>1, <2>2, <2>3, <1>3 DEF Enter
<1>10. CASE ~fits
  <2>1. thrown' = TRUE /\ UNCHANGED <<freeSpace, blocks>>
    BY <1>7, <1>10 DEF Memory!AllocateRaw, Memory!ThrowBadAlloc
  <2>. QED  BY <2>1, <1>8 DEF Throw
<1>. QED  BY <1>9, <1>10

-----------------------------------------------------------------------------
LEMMA KeyboardUnchanged ==
  ASSUME KeyboardReplayed, UNCHANGED <<keyEvents, events, held>>,
         phase' \notin Over => phase \notin Over
  PROVE  KeyboardReplayed'
<1>1. HistoryIndices' = HistoryIndices /\ \A i : History(i)' = History(i)
  BY DEF HistoryIndices, History, Code
<1>2. \A key : PressedLast(key)' <=> PressedLast(key)
  BY <1>1 DEF PressedLast
<1>. QED  BY <1>2 DEF KeyboardReplayed

LEMMA KeyIsInt ==
  Keys \subseteq Nat /\ \A key \in Keys : key =< MaxInt
BY SDLAssumption, Widths

LEMMA EventKeyIsNat ==
  \A event \in Event : event.key \in Nat
<1> SUFFICES ASSUME NEW event \in Event PROVE event.key \in Nat
  OBVIOUS
<1>1. event.key \in Keys \union {SDLK_UNKNOWN}
  BY DEF Event
<1>2. SDLK_UNKNOWN \in Nat
  BY DEF SDLK_UNKNOWN
<1>. QED  BY <1>1, <1>2, KeyIsInt

LEMMA HistoryIsInt ==
  ASSUME TypeOK, NEW i \in HistoryIndices
  PROVE  History(i) \in Int
<1>1. CASE i =< Len(keyEvents)
  BY <1>1, Widths DEF TypeOK, HistoryIndices, History
<1>2. CASE ~(i =< Len(keyEvents))
  <2>1. i - Len(keyEvents) \in 1 .. Len(events)
    BY <1>2 DEF TypeOK, HistoryIndices
  <2>2. events[i - Len(keyEvents)] \in Event
    BY <2>1 DEF TypeOK
  <2>3. Code(events[i - Len(keyEvents)]) \in Int
    BY <2>2, KeyIsInt DEF Code, Event, SDLK_UNKNOWN
  <2>. QED  BY <1>2, <2>3 DEF History
<1>. QED  BY <1>1, <1>2

(***************************************************************************)
(* An event that is posted follows the history, which stays as it was.     *)
(***************************************************************************)
LEMMA PostedHistory ==
  ASSUME TypeOK, NEW event \in Event, Post(event)
  PROVE  \E last \in Nat \ {0} :
           /\ HistoryIndices = 1 .. last - 1 /\ HistoryIndices' = 1 .. last
           /\ \A i \in HistoryIndices : History(i)' = History(i)
           /\ History(last)' = Code(event)
<1>. PICK last \in Nat \ {0} : last = Len(keyEvents) + Len(events) + 1
  BY DEF TypeOK
<1>1. /\ keyEvents' = keyEvents /\ events' = Append(events, event)
      /\ Len(keyEvents) \in Nat /\ Len(events) \in Nat /\ events \in Seq(Event)
  BY DEF Post, TypeOK
<1>2. Len(events') = Len(events) + 1
  BY <1>1
<1>3. HistoryIndices = 1 .. last - 1 /\ HistoryIndices' = 1 .. last
  BY <1>1, <1>2 DEF HistoryIndices
<1>4. ASSUME NEW i \in HistoryIndices PROVE History(i)' = History(i)
  <2>1. CASE i =< Len(keyEvents)
    BY <1>1, <2>1 DEF History
  <2>2. CASE ~(i =< Len(keyEvents))
    <3>1. i - Len(keyEvents) \in 1 .. Len(events)
      BY <1>1, <1>3, <2>2
    <3>2. events'[i - Len(keyEvents)] = events[i - Len(keyEvents)]
      BY <1>1, <3>1
    <3>. QED  BY <1>1, <2>2, <3>2 DEF History, Code
  <2>. QED  BY <2>1, <2>2
<1>5. History(last)' = Code(event)
  <2>1. ~(last =< Len(keyEvents)) /\ last - Len(keyEvents) = Len(events) + 1
    BY <1>1
  <2>2. events'[Len(events) + 1] = event
    BY <1>1
  <2>. QED  BY <1>1, <2>1, <2>2 DEF History, Code
<1>. QED  BY <1>3, <1>4, <1>5

LEMMA KeyboardPosted ==
  ASSUME TypeOK, KeyboardReplayed, NEW event \in Event, Post(event),
         \/ event.type = "keyDown" /\ held' = held \union {event.key}
         \/ event.type = "keyUp" /\ held' = held \ {event.key}
         \/ event.type = "quit" /\ held' = held
  PROVE  KeyboardReplayed'
<1>1. PICK last \in Nat \ {0} :
      /\ HistoryIndices = 1 .. last - 1 /\ HistoryIndices' = 1 .. last
      /\ \A i \in HistoryIndices : History(i)' = History(i)
      /\ History(last)' = Code(event)
  BY PostedHistory
<1>2. phase \notin Over
  BY DEF Post
<1> SUFFICES ASSUME NEW key \in Keys \ {SDLK_UNKNOWN}
             PROVE  key \in held' <=> PressedLast(key)'
  BY DEF KeyboardReplayed
<1>3. key \in Nat /\ key > 0 /\ event.key \in Nat
  <2>1. key \in Keys /\ key # 0
    BY DEF SDLK_UNKNOWN
  <2>. QED  BY <2>1, EventKeyIsNat, KeyIsInt
<1>4. key \in held <=> PressedLast(key)
  BY <1>2 DEF KeyboardReplayed
<1>5. CASE Code(event) = key
  <2>1. key \in held'
    BY <1>3, <1>5 DEF Code
  <2>2. PressedLast(key)'
    BY <1>1, <1>5 DEF PressedLast
  <2>. QED  BY <2>1, <2>2
<1>6. CASE Code(event) = -key
  <2>1. key \notin held'
    BY <1>3, <1>6 DEF Code
  <2>2. ~PressedLast(key)'
    BY <1>1, <1>3, <1>6 DEF PressedLast
  <2>. QED  BY <2>1, <2>2
<1>7. CASE Code(event) # key /\ Code(event) # -key
  <2>1. key \in held' <=> key \in held
    BY <1>3, <1>7 DEF Code
  <2>2. PressedLast(key)' <=> PressedLast(key)
    BY <1>1, <1>7 DEF PressedLast
  <2>. QED  BY <1>4, <2>1, <2>2
<1>. QED  BY <1>5, <1>6, <1>7

(***************************************************************************)
(* An event that SDL_AppEvent takes either moves from the queue to the     *)
(* keyEvents or drops out of the history, in which it was no key's.        *)
(***************************************************************************)
LEMMA TakenHistory ==
  ASSUME TypeOK, events # << >>, events' = Tail(events),
         \/ keyEvents' = Append(keyEvents, Code(Head(events)))
         \/ keyEvents' = keyEvents /\ Code(Head(events)) = 0
  PROVE  LET taken == Len(keyEvents) + 1 IN
         \/ /\ HistoryIndices' = HistoryIndices
            /\ \A i \in HistoryIndices : History(i)' = History(i)
         \/ \E n \in Nat :
              /\ HistoryIndices = 1 .. n + 1 /\ HistoryIndices' = 1 .. n
              /\ taken \in 1 .. n + 1 /\ History(taken) = 0
              /\ \A i \in 1 .. n : History(i)' = History(IF i < taken THEN i ELSE i + 1)
<1> DEFINE k == Len(keyEvents)
           m == Len(events)
<1>1. /\ keyEvents \in Seq(Int) /\ events \in Seq(Event)
      /\ k \in Nat /\ m \in Nat \ {0}
  BY Widths DEF TypeOK
<1>2. /\ Len(events') = m - 1 /\ Head(events) = events[1]
      /\ \A i \in 1 .. m - 1 : events'[i] = events[i + 1]
  BY <1>1
<1>3. HistoryIndices = 1 .. k + m
  BY DEF HistoryIndices
<1>4. CASE keyEvents' = Append(keyEvents, Code(Head(events)))
  <2>1. /\ Len(keyEvents') = k + 1 /\ keyEvents'[k + 1] = Code(Head(events))
        /\ \A i \in 1 .. k : keyEvents'[i] = keyEvents[i]
    BY <1>1, <1>4
  <2>2. HistoryIndices' = HistoryIndices
    BY <1>1, <1>2, <1>3, <2>1 DEF HistoryIndices
  <2>3. ASSUME NEW i \in HistoryIndices PROVE History(i)' = History(i)
    <3>1. CASE i =< k
      BY <1>1, <1>3, <2>1, <3>1 DEF History
    <3>2. CASE i = k + 1
      BY <1>1, <1>2, <2>1, <3>2 DEF History
    <3>3. CASE i > k + 1
      <4>1. i - (k + 1) \in 1 .. m - 1 /\ (i - (k + 1)) + 1 = i - k
        BY <1>1, <1>3, <3>3
      <4>2. events'[i - (k + 1)] = events[i - k]
        BY <1>2, <4>1
      <4>3. History(i) = Code(events[i - k])
        BY <1>1, <1>3, <3>3 DEF History
      <4>4. History(i)' = Code(events'[i - (k + 1)])
        BY <1>1, <1>3, <2>1, <3>3 DEF History, Code
      <4>. QED  BY <4>2, <4>3, <4>4
    <3>. QED  BY <3>1, <3>2, <3>3, <1>1, <1>3
  <2>. QED  BY <2>2, <2>3
<1>5. CASE keyEvents' = keyEvents /\ Code(Head(events)) = 0
  <2> DEFINE n == k + m - 1
  <2>1. n \in Nat /\ n + 1 = k + m /\ k + 1 \in 1 .. n + 1
    BY <1>1
  <2>2. HistoryIndices = 1 .. n + 1 /\ HistoryIndices' = 1 .. n
    BY <1>1, <1>2, <1>3, <1>5, <2>1 DEF HistoryIndices
  <2>3. History(k + 1) = 0
    BY <1>1, <1>2, <1>5 DEF History
  <2>4. ASSUME NEW i \in 1 .. n
        PROVE  History(i)' = History(IF i < k + 1 THEN i ELSE i + 1)
    <3>1. CASE i < k + 1
      BY <1>1, <1>5, <3>1 DEF History
    <3>2. CASE ~(i < k + 1)
      <4>1. i - k \in 1 .. m - 1 /\ (i + 1) - k = (i - k) + 1
        BY <1>1, <3>2
      <4>2. events'[i - k] = events[(i + 1) - k]
        BY <1>2, <4>1
      <4>3. History(i + 1) = Code(events[(i + 1) - k])
        BY <1>1, <3>2 DEF History
      <4>4. History(i)' = Code(events'[i - k])
        BY <1>1, <1>5, <3>2 DEF History, Code
      <4>. QED  BY <3>2, <4>2, <4>3, <4>4
    <3>. QED  BY <3>1, <3>2
  <2> HIDE DEF n
  <2>. QED  BY <2>1, <2>2, <2>3, <2>4
<1>. QED  BY <1>4, <1>5

LEMMA KeyboardTaken ==
  ASSUME TypeOK, KeyboardReplayed, phase \notin Over,
         events # << >>, events' = Tail(events), held' = held,
         \/ keyEvents' = Append(keyEvents, Code(Head(events)))
         \/ keyEvents' = keyEvents /\ Code(Head(events)) = 0
  PROVE  KeyboardReplayed'
<1> DEFINE taken == Len(keyEvents) + 1
<1> SUFFICES ASSUME NEW key \in Keys \ {SDLK_UNKNOWN}
             PROVE  PressedLast(key)' <=> PressedLast(key)
  BY DEF KeyboardReplayed
<1>1. key \in Nat /\ key > 0
  BY KeyIsInt DEF SDLK_UNKNOWN
<1>2. CASE /\ HistoryIndices' = HistoryIndices
           /\ \A i \in HistoryIndices : History(i)' = History(i)
  BY <1>2 DEF PressedLast
<1>3. CASE \E n \in Nat :
             /\ HistoryIndices = 1 .. n + 1 /\ HistoryIndices' = 1 .. n
             /\ taken \in 1 .. n + 1 /\ History(taken) = 0
             /\ \A i \in 1 .. n : History(i)' = History(IF i < taken THEN i ELSE i + 1)
  <2> HIDE DEF taken
  <2>1. PICK n \in Nat :
             /\ HistoryIndices = 1 .. n + 1 /\ HistoryIndices' = 1 .. n
             /\ taken \in 1 .. n + 1 /\ History(taken) = 0
             /\ \A i \in 1 .. n : History(i)' = History(IF i < taken THEN i ELSE i + 1)
    BY <1>3
  <2>2. ASSUME PressedLast(key) PROVE PressedLast(key)'
    <3>1. PICK i \in 1 .. n + 1 :
            /\ History(i) = key
            /\ \A j \in 1 .. n + 1 : j > i => History(j) # -key
      BY <2>1, <2>2 DEF PressedLast
    <3>2. i # taken
      BY <1>1, <2>1, <3>1
    <3>3. PICK p \in 1 .. n : i = IF p < taken THEN p ELSE p + 1
      <4>1. CASE i < taken
        BY <2>1, <4>1
      <4>2. CASE i > taken
        <5>1. i - 1 \in 1 .. n /\ ~(i - 1 < taken) /\ i = (i - 1) + 1
          BY <2>1, <4>2
        <5>. QED  BY <5>1
      <4>. QED  BY <2>1, <3>2, <4>1, <4>2
    <3>4. History(p)' = key
      BY <2>1, <3>1, <3>3
    <3>5. ASSUME NEW j \in 1 .. n, j > p PROVE History(j)' # -key
      <4>1. (IF j < taken THEN j ELSE j + 1) \in 1 .. n + 1
        BY <2>1
      <4>2. (IF j < taken THEN j ELSE j + 1) > i
        BY <2>1, <3>3, <3>5
      <4>. QED  BY <2>1, <3>1, <4>1, <4>2
    <3>. QED  BY <2>1, <3>4, <3>5 DEF PressedLast
  <2>3. ASSUME PressedLast(key)' PROVE PressedLast(key)
    <3>1. PICK p \in 1 .. n :
            /\ History(p)' = key
            /\ \A j \in 1 .. n : j > p => History(j)' # -key
      BY <2>1, <2>3 DEF PressedLast
    <3> DEFINE i == IF p < taken THEN p ELSE p + 1
    <3>2. i \in 1 .. n + 1 /\ History(i) = key
      BY <2>1, <3>1
    <3>3. ASSUME NEW j \in 1 .. n + 1, j > i PROVE History(j) # -key
      <4>1. CASE j = taken
        BY <1>1, <2>1, <4>1
      <4>2. CASE j < taken
        <5>1. j \in 1 .. n /\ j > p
          BY <2>1, <3>3, <4>2
        <5>. QED  BY <2>1, <3>1, <4>2, <5>1
      <4>3. CASE j > taken
        <5>1. j - 1 \in 1 .. n /\ j - 1 > p /\ ~(j - 1 < taken) /\ (j - 1) + 1 = j
          BY <2>1, <3>3, <4>3
        <5>. QED  BY <2>1, <3>1, <5>1
      <4>. QED  BY <2>1, <4>1, <4>2, <4>3
    <3> HIDE DEF i
    <3>. QED  BY <2>1, <3>2, <3>3 DEF PressedLast
  <2>. QED  BY <2>2, <2>3
<1>. QED  BY <1>2, <1>3, TakenHistory

-----------------------------------------------------------------------------
(***************************************************************************)
(* Steps that change more than the phase                                   *)
(***************************************************************************)
LEMMA MemorySizeIsNat ==
  ASSUME TypeOK
  PROVE  options.memorySize \in Nat /\ freeSpace \in Nat /\ freeSpace =< options.memorySize
BY DEF TypeOK, Size

LEMMA HeadIsEvent ==
  ASSUME TypeOK, events # << >>
  PROVE  Head(events) \in Event /\ Tail(events) \in Seq(Event)
BY DEF TypeOK

LEMMA ModOfSmaller ==
  \A n, m \in Nat : n < m => n % m = n
OBVIOUS

LEMMA ToIntOfKey ==
  \A k \in Keys \union {SDLK_UNKNOWN} : ToInt(k) = k /\ k \in 0 .. MaxInt
<1> SUFFICES ASSUME NEW k \in Keys \union {SDLK_UNKNOWN}
             PROVE  ToInt(k) = k /\ k \in 0 .. MaxInt
  OBVIOUS
<1>1. k \in 0 .. MaxInt
  BY SDLAssumption, Widths DEF SDLK_UNKNOWN
<1>2. k \in Nat /\ k =< MaxInt /\ k < IntModulus
  BY <1>1, Widths
<1>3. k % IntModulus = k
  BY <1>2, Widths, ModOfSmaller
<1>. QED  BY <1>1, <1>2, <1>3, Widths DEF ToInt

(***************************************************************************)
(* A key event finds the App, which records the key with its sign.         *)
(***************************************************************************)
LEMMA KeyEventRecorded ==
  ASSUME TypeOK, Established,
         NEW type \in {"keyDown", "keyUp"}, KeyEvent(type, type = "keyDown")
  PROVE  /\ app /\ phase = "dispatch" /\ Enter("dispatch")
         /\ events # << >> /\ events' = Tail(events)
         /\ UNCHANGED <<start, handles, arena, app, held, posted, quitTaken>>
         /\ \/ /\ keyEvents' = Append(keyEvents, Code(Head(events)))
               /\ Code(Head(events)) \in (-MaxInt .. MaxInt) \ {0}
            \/ keyEvents' = keyEvents /\ Code(Head(events)) = 0
<1> DEFINE event == Head(events)
<1>1. /\ phase = "dispatch" /\ events # << >> /\ event.type = type
      /\ events' = Tail(events)
      /\ UNCHANGED <<start, handles, arena, app, held, posted, quitTaken>>
  <2>1. quitTaken' = (quitTaken \/ type = "quit") /\ type # "quit"
    BY DEF KeyEvent, TakeEvent
  <2>2. quitTaken' = quitTaken
    BY <2>1, Zenon DEF TypeOK
  <2>. QED  BY <2>2 DEF KeyEvent, TakeEvent
<1>2. app
  BY <1>1 DEF Established, AppEstablished, Looping
<1>3. handleKey(event.key, type = "keyDown") /\ Enter("dispatch")
  BY <1>2 DEF KeyEvent
<1>4. event.key \in Keys \union {SDLK_UNKNOWN}
  BY <1>1, HeadIsEvent DEF Event
<1>5. ToInt(event.key) = event.key /\ event.key \in 0 .. MaxInt
  BY <1>4, ToIntOfKey
<1>6. Code(event) = IF type = "keyDown" THEN event.key ELSE -event.key
  BY <1>1 DEF Code
<1> HIDE DEF event
<1>7. CASE event.key = SDLK_UNKNOWN
  <2>1. keyEvents' = keyEvents
    BY <1>3, <1>7 DEF handleKey
  <2>2. Code(event) = 0
    <3>1. event.key = 0 /\ (Code(event) = event.key \/ Code(event) = -event.key)
      BY <1>6, <1>7 DEF SDLK_UNKNOWN
    <3>. QED  BY <3>1
  <2>. QED  BY <1>1, <1>2, <1>3, <2>1, <2>2 DEF event
<1>8. CASE event.key # SDLK_UNKNOWN
  <2>1. keyEvents' = Append(keyEvents, Code(event))
    BY <1>3, <1>5, <1>6, <1>8 DEF handleKey
  <2>2. Code(event) \in (-MaxInt .. MaxInt) \ {0}
    BY <1>5, <1>6, <1>8, Widths DEF SDLK_UNKNOWN
  <2>. QED  BY <1>1, <1>2, <1>3, <2>1, <2>2 DEF event
<1>. QED  BY <1>7, <1>8

(***************************************************************************)
(* A frame that is presented is in the framebuffer, and the framebuffer in *)
(* the guest memory.                                                       *)
(***************************************************************************)
LEMMA FrameIsReadable ==
  ASSUME TypeOK, Established, phase = "present"
  PROVE  FramebufferReadable
<1> DEFINE w == options.framebufferWidth
           h == options.framebufferHeight
<1>1. /\ w \in Nat /\ h \in Nat /\ w =< MaxTextureSize
      /\ framebuffer.count = w * h
      /\ framebuffer.offset + framebuffer.count * Pixel.size =< options.memorySize
  BY DEF TypeOK, Established, FramebufferEstablished, WithFramebuffer, Looping,
         FramebufferPixels
<1> HIDE DEF w, h
<1>2. w * 4 \in 0 .. MaxInt
  BY <1>1, SDLAssumption, Widths DEF Pixel
<1>3. ToInt(w * 4) = w * 4
  <2>1. (w * 4) % IntModulus = w * 4
    BY <1>2, Widths
  <2>. QED  BY <1>2, <2>1, Widths DEF ToInt
<1>4. (h - 1) * (w * 4) + w * 4 = (w * h) * 4
  BY <1>1
<1>. QED  BY <1>1, <1>2, <1>3, <1>4 DEF FramebufferReadable, BytesRead, Pixel, w, h

LEMMA MapDataFacts ==
  ASSUME TypeOK, Established, MapDataSegments
  PROVE  /\ \/ phase' = "mapCode" /\ UNCHANGED <<error, result>>
            \/ phase' = "unwind" /\ error' = "elf" /\ UNCHANGED result
         /\ freeSpace' \in 0 .. options.memorySize /\ thrown' \in BOOLEAN
         /\ blocks' \in Seq([offset : Nat, size : Nat, alignment : {1, 4}])
<1>1. program \in Programs /\ freeSpace \in 0 .. options.memorySize
  BY DEF TypeOK, MapDataSegments, Established, ProgramEstablished
<1>2. CASE program.dataSize = 0 /\ Enter("mapCode") /\ UNCHANGED arena
  BY <1>2 DEF TypeOK, Enter, arena
<1>3. CASE AllocateArray(Byte, program.dataSize, "mapCode", "elf")
  <2>1. program.dataSize \in Nat /\ Byte.size * program.dataSize < SizeModulus
    BY <1>1, ArgumentsAssumption, Widths DEF Size, Byte
  <2>2. Byte \in {Byte, Pixel} /\ Parsed
    BY DEF Established
  <2>3. CASE thrown' = TRUE /\ phase' = "unwind" /\ error' = "elf"
               /\ UNCHANGED <<freeSpace, blocks, result>>
    BY <2>3 DEF TypeOK
  <2>4. CASE /\ thrown' = FALSE /\ phase' = "mapCode" /\ UNCHANGED <<error, result>>
             /\ freeSpace' \in 0 .. options.memorySize
             /\ blocks' = Append(blocks, [offset |-> options.memorySize - freeSpace',
                                         size |-> Byte.size * program.dataSize,
                                         alignment |-> Byte.alignment])
    <3> DEFINE block == [offset |-> options.memorySize - freeSpace',
                         size |-> Byte.size * program.dataSize,
                         alignment |-> Byte.alignment]
    <3>1. options.memorySize - freeSpace' \in Nat
      BY <2>4, MemorySizeIsNat
    <3>2. block \in [offset : Nat, size : Nat, alignment : {1, 4}]
      BY <2>1, <3>1 DEF Byte
    <3> HIDE DEF block
    <3>3. blocks' \in Seq([offset : Nat, size : Nat, alignment : {1, 4}])
      BY <2>4, <3>2 DEF TypeOK, block
    <3>. QED  BY <2>4, <3>3
  <2>. QED  BY <1>3, <2>1, <2>2, <2>3, <2>4, AllocateFacts
<1>. QED  BY <1>2, <1>3 DEF MapDataSegments

LEMMA FramebufferFacts ==
  ASSUME TypeOK, Established, AllocateFramebuffer
  PROVE  /\ freeSpace' \in 0 .. options.memorySize /\ thrown' \in BOOLEAN
         /\ blocks' \in Seq([offset : Nat, size : Nat, alignment : {1, 4}])
         /\ framebuffer' \in [offset : Nat, count : Nat]
         /\ \/ phase' = "unwind" /\ error' = "framebuffer" /\ UNCHANGED result
            \/ /\ phase' = "presentEmpty" /\ UNCHANGED <<error, result>>
               /\ framebuffer'.count = FramebufferPixels
               /\ framebuffer'.offset + framebuffer'.count * Pixel.size
                    =< options.memorySize
<1> DEFINE bytes == Pixel.size * FramebufferPixels
<1>1. FramebufferPixels \in Nat /\ bytes < SizeModulus /\ bytes \in Nat
      /\ bytes = FramebufferPixels * Pixel.size
  BY PixelsFit DEF Pixel
<1>2. Pixel \in {Byte, Pixel} /\ Parsed
  BY DEF Established
<1>3. AllocateArray(Pixel, FramebufferPixels, "presentEmpty", "framebuffer")
  BY DEF AllocateFramebuffer
<1>4. framebuffer' = IF thrown' THEN framebuffer
                     ELSE [offset |-> blocks'[Len(blocks')].offset,
                           count |-> FramebufferPixels]
  BY DEF AllocateFramebuffer
<1>5. CASE thrown' = TRUE /\ phase' = "unwind" /\ error' = "framebuffer"
             /\ UNCHANGED <<freeSpace, blocks, result>>
  BY <1>4, <1>5 DEF TypeOK
<1>6. CASE /\ thrown' = FALSE /\ phase' = "presentEmpty" /\ UNCHANGED <<error, result>>
           /\ freeSpace' \in 0 .. options.memorySize
           /\ bytes =< freeSpace'
           /\ blocks' = Append(blocks, [offset |-> options.memorySize - freeSpace',
                                       size |-> bytes, alignment |-> Pixel.alignment])
  <2> DEFINE offset == options.memorySize - freeSpace'
             block == [offset |-> offset, size |-> bytes, alignment |-> Pixel.alignment]
  <2>1. offset \in Nat /\ offset + bytes =< options.memorySize
    BY <1>1, <1>6, MemorySizeIsNat
  <2>2. block \in [offset : Nat, size : Nat, alignment : {1, 4}] /\ block.offset = offset
    BY <1>1, <2>1 DEF Pixel
  <2> HIDE DEF block
  <2>3. /\ blocks' \in Seq([offset : Nat, size : Nat, alignment : {1, 4}])
        /\ blocks'[Len(blocks')] = block
    BY <1>6, <2>2 DEF TypeOK, block
  <2>4. framebuffer' = [offset |-> offset, count |-> FramebufferPixels]
    BY <1>4, <1>6, <2>2, <2>3
  <2> HIDE DEF offset, bytes
  <2>. QED  BY <1>1, <1>6, <2>1, <2>3, <2>4
<1>. QED  BY <1>1, <1>2, <1>3, <1>5, <1>6, AllocateFacts

-----------------------------------------------------------------------------
(***************************************************************************)
(* Every step keeps the types.                                             *)
(***************************************************************************)
LEMMA TypeStep ==
  ASSUME TypeOK, Established, [Next]_vars
  PROVE  TypeOK'
<1>1. CASE ParseOptions
  <2>1. freeSpace = 0 /\ \A m \in Size : freeSpace \in 0 .. m
    BY <1>1 DEF ParseOptions, Established, ErrorEstablished, Size
  <2>2. CASE phase' = "exited" /\ UNCHANGED <<options, error, result>>
    BY <1>1, <2>2 DEF ParseOptions, arena, environment, TypeOK, Phases, Over
  <2>3. CASE Throw("options") /\ UNCHANGED options
    BY <1>1, <2>3 DEF ParseOptions, arena, environment, TypeOK, Throw, Phases, Starting,
      Errors
  <2>4. ASSUME NEW memorySizeKiB \in MemoryArguments, NEW size \in SizeArguments,
               size[1] > 0, size[2] > 0, Enter("emulator"),
               options' = [memorySize |-> MemoryBytes(memorySizeKiB),
                           framebufferWidth |-> size[1], framebufferHeight |-> size[2]]
        PROVE  TypeOK'
    <3>1. size[1] \in 0 .. MaxInt /\ size[2] \in 0 .. MaxInt
      BY <2>4, ArgumentsAssumption, Widths
    <3>2. MemoryBytes(memorySizeKiB) \in Size
      BY MemoryBytesInSize
    <3>3. options' \in [memorySize : Size, framebufferWidth : 0 .. MaxInt,
                        framebufferHeight : 0 .. MaxInt]
      BY <2>4, <3>1, <3>2
    <3>4. freeSpace' = freeSpace /\ options'.memorySize \in Size
      BY <1>1, <3>3 DEF ParseOptions, arena
    <3>. QED
      BY <1>1, <2>1, <2>4, <3>3, <3>4 DEF ParseOptions, arena, environment, TypeOK, Enter,
        Phases, Starting
  <2>. QED  BY <1>1, <2>2, <2>3, <2>4 DEF ParseOptions
<1> USE DEF TypeOK, Established, AppEstablished, ErrorEstablished, Errors, Phases,
            Starting, Looping, Over
<1>2. CASE InitSubSystem
  BY <1>2 DEF InitSubSystem, start, arena, environment, Enter, Return
<1>3. CASE ConstructEmulator
  BY <1>3, MemorySizeIsNat DEF ConstructEmulator, start, environment, Enter, Throw
<1>4. CASE CreateWindow
  BY <1>4 DEF CreateWindow, Create, Handles, start, arena, environment, Enter, Throw
<1>5. CASE CreateRenderer
  BY <1>5 DEF CreateRenderer, Create, Handles, start, arena, environment, Enter, Throw
<1>6. CASE CreateTexture
  BY <1>6 DEF CreateTexture, Create, Handles, start, arena, environment, Enter, Throw
<1>7. CASE ReadProgramFile
  BY <1>7 DEF ReadProgramFile, arena, environment, Enter, Throw
<1>8. CASE ValidateHeaders
  BY <1>8 DEF ValidateHeaders, start, arena, environment, Enter, Throw
<1>9. CASE MapDataSegments
  BY <1>9, MapDataFacts DEF MapDataSegments, start, environment
<1>10. CASE MapCodeSegments
  BY <1>10 DEF MapCodeSegments, start, arena, environment, Enter, Throw
<1>11. CASE AllocateFramebuffer
  BY <1>11, FramebufferFacts DEF AllocateFramebuffer, environment
<1>12. CASE PresentEmptyFrame
  BY <1>12 DEF PresentEmptyFrame, start, arena, environment, Enter
<1>13. CASE UnwindStart
  <2>1. 0 \in 0 .. options.memorySize
    BY MemorySizeIsNat
  <2>2. << >> \in Seq([offset : Nat, size : Nat, alignment : {1, 4}])
    OBVIOUS
  <2>3. handles' \subseteq Handles
    BY <1>13 DEF UnwindStart
  <2>. QED
    BY <1>13, <2>1, <2>2, <2>3 DEF UnwindStart, start, environment, Return
<1>14. CASE QuitEvent
  BY <1>14, HeadIsEvent DEF QuitEvent, TakeEvent, start, arena, Return
<1>15. CASE KeyDownEvent
  <2> HIDE DEF TypeOK, Established
  <2>1. KeyEvent("keyDown", "keyDown" = "keyDown")
    BY <1>15 DEF KeyDownEvent
  <2>2. keyEvents' \in Seq((-MaxInt .. MaxInt) \ {0})
    <3>1. keyEvents \in Seq((-MaxInt .. MaxInt) \ {0})
      BY DEF TypeOK
    <3>2. \/ keyEvents' = keyEvents
          \/ \E c \in (-MaxInt .. MaxInt) \ {0} : keyEvents' = Append(keyEvents, c)
      BY <2>1, KeyEventRecorded
    <3>. QED  BY <3>1, <3>2
  <2>3. events' \in Seq(Event)
    BY <2>1, KeyEventRecorded, HeadIsEvent
  <2>. QED
    BY <2>1, <2>2, <2>3, KeyEventRecorded DEF TypeOK, start, arena, Enter
<1>16. CASE KeyUpEvent
  <2> HIDE DEF TypeOK, Established
  <2>1. KeyEvent("keyUp", "keyUp" = "keyDown")
    BY <1>16 DEF KeyUpEvent
  <2>2. keyEvents' \in Seq((-MaxInt .. MaxInt) \ {0})
    <3>1. keyEvents \in Seq((-MaxInt .. MaxInt) \ {0})
      BY DEF TypeOK
    <3>2. \/ keyEvents' = keyEvents
          \/ \E c \in (-MaxInt .. MaxInt) \ {0} : keyEvents' = Append(keyEvents, c)
      BY <2>1, KeyEventRecorded
    <3>. QED  BY <3>1, <3>2
  <2>3. events' \in Seq(Event)
    BY <2>1, KeyEventRecorded, HeadIsEvent
  <2>. QED
    BY <2>1, <2>2, <2>3, KeyEventRecorded DEF TypeOK, start, arena, Enter
<1>17. CASE Iterate
  BY <1>17 DEF Iterate, LoopStep, Undefined, start, arena, environment, Enter
<1>18. CASE RunReturns
  BY <1>18 DEF RunReturns, LoopStep, start, arena, environment, Enter
<1>19. CASE RunThrows
  BY <1>19 DEF RunThrows, LoopStep, start, arena, environment, Return
<1>20. CASE RunNeverReturns
  BY <1>20 DEF RunNeverReturns, LoopStep, start, arena, environment, Enter
<1>21. CASE PresentFramebuffer
  BY <1>21, FrameIsReadable
  DEF PresentFramebuffer, LoopStep, start, arena, environment, Enter
<1>22. CASE AppQuit
  <2>1. 0 \in 0 .. options.memorySize
    BY MemorySizeIsNat
  <2>2. << >> \in Seq([offset : Nat, size : Nat, alignment : {1, 4}])
    OBVIOUS
  <2>3. /\ handles' \subseteq Handles /\ freeSpace' \in 0 .. options.memorySize
        /\ blocks' \in Seq([offset : Nat, size : Nat, alignment : {1, 4}])
    BY <1>22, <2>1, <2>2 DEF AppQuit
  <2>. QED
    BY <1>22, <2>3 DEF AppQuit, start, environment, Enter
<1>23. ASSUME NEW event \in Event, Post(event), held' \subseteq Keys
      PROVE  TypeOK'
  <2>1. events' \in Seq(Event)
    BY <1>23 DEF Post
  <2>2. posted' \in 0 .. MaxEvents
    BY <1>23, WidthsAssumption DEF Post
  <2>. QED  BY <1>23, <2>1, <2>2 DEF Post, start, arena
<1>24. ASSUME NEW key \in Keys, PostKeyDown(key) PROVE TypeOK'
  <2>1. [type |-> "keyDown", key |-> key] \in Event
    BY DEF Event
  <2>2. held' \subseteq Keys
    BY <1>24 DEF PostKeyDown
  <2>. QED  BY <1>23, <1>24, <2>1, <2>2 DEF PostKeyDown
<1>25. ASSUME NEW key \in Keys, PostKeyUp(key) PROVE TypeOK'
  <2>1. [type |-> "keyUp", key |-> key] \in Event
    BY DEF Event
  <2>2. held' \subseteq Keys
    BY <1>25 DEF PostKeyUp
  <2>. QED  BY <1>23, <1>25, <2>1, <2>2 DEF PostKeyUp
<1>26. CASE PostQuit
  <2>1. [type |-> "quit", key |-> SDLK_UNKNOWN] \in Event
    BY DEF Event
  <2>2. held' \subseteq Keys
    BY <1>26 DEF PostQuit
  <2>. QED  BY <1>23, <1>26, <2>1, <2>2 DEF PostQuit
<1>27. CASE UNCHANGED vars
  BY <1>27 DEF vars, start, arena, environment
<1>28. CASE LoadOutOfBounds
  BY <1>28 DEF LoadOutOfBounds, start, arena, environment, Enter
<1>. QED
  BY <1>1, <1>2, <1>3, <1>4, <1>5, <1>6, <1>7, <1>8, <1>9, <1>10, <1>11, <1>12,
     <1>13, <1>14, <1>15, <1>16, <1>17, <1>18, <1>19, <1>20, <1>21, <1>22, <1>24,
     <1>25, <1>26, <1>27, <1>28
  DEF Next, Callbacks, AppInit, AppEvent, AppIterate

(***************************************************************************)
(* Every step leaves behind what the next part of main.cpp needs.          *)
(***************************************************************************)
LEMMA EstablishedStep ==
  ASSUME TypeOK, Established, EndsConsistently, CallbacksDefined, [Next]_vars
  PROVE  Established' /\ EndsConsistently' /\ CallbacksDefined'
<1>1. CASE ParseOptions
  <2>1. phase = "parse" /\ error = "none" /\ ~app /\ handles = {}
    BY <1>1 DEF ParseOptions, Established, AppEstablished, HandlesEstablished,
      ErrorEstablished, BeforeWindow, Starting, Looping
  <2>2. Parsed'
    <3>1. CASE UNCHANGED options
      BY <3>1 DEF Established, Parsed
    <3>2. ASSUME NEW memorySizeKiB \in MemoryArguments, NEW size \in SizeArguments,
                 size[1] > 0, size[2] > 0,
                 options' = [memorySize |-> MemoryBytes(memorySizeKiB),
                             framebufferWidth |-> size[1], framebufferHeight |-> size[2]]
          PROVE  Parsed'
      BY <3>2 DEF Parsed
    <3>. QED  BY <1>1, <3>1, <3>2 DEF ParseOptions
  <2>3. phase' = "emulator" => options' # NoOptions
    <3>1. SUFFICES ASSUME phase' = "emulator" PROVE options' # NoOptions
      OBVIOUS
    <3>2. options'.framebufferWidth > 0
      BY <1>1, <3>1 DEF ParseOptions, Throw
    <3>. QED  BY <3>2 DEF NoOptions
  <2>4. /\ phase' \in {"exited", "unwind", "emulator"}
        /\ phase' = "emulator" => error' = "none"
        /\ phase' = "unwind" => error' = "options"
        /\ UNCHANGED <<handles, app, quitTaken>>
    BY <1>1, <2>1 DEF ParseOptions, Throw, Enter, environment
  <2>. QED
    BY <2>1, <2>2, <2>3, <2>4
    DEF Established, FramebufferEstablished, AppEstablished, ProgramEstablished,
        HandlesEstablished, ErrorEstablished, AskedEstablished, QuitEstablished,
        EndsConsistently, CallbacksDefined, RendererComplete, BeforeWindow, WithTexture, WithFramebuffer,
        Starting, Looping
<1> USE DEF TypeOK, Established, Parsed, FramebufferEstablished, AppEstablished,
            ProgramEstablished, HandlesEstablished, ErrorEstablished,
            AskedEstablished, QuitEstablished, EndsConsistently, CallbacksDefined,
            RendererComplete,
            BeforeWindow, WithTexture, WithFramebuffer, FramebufferPixels, NoOptions,
            Starting, Looping
<1>2. CASE InitSubSystem
  BY <1>2 DEF InitSubSystem, start, arena, environment, Enter, Return
<1>3. CASE ConstructEmulator
  BY <1>3, MemorySizeIsNat DEF ConstructEmulator, start, environment, Enter, Throw
<1>4. CASE CreateWindow
  BY <1>4 DEF CreateWindow, Create, Handles, start, arena, environment, Enter, Throw
<1>5. CASE CreateRenderer
  BY <1>5 DEF CreateRenderer, Create, Handles, start, arena, environment, Enter, Throw
<1>6. CASE CreateTexture
  BY <1>6 DEF CreateTexture, Create, Handles, start, arena, environment, Enter, Throw
<1>7. CASE ReadProgramFile
  BY <1>7 DEF ReadProgramFile, arena, environment, Enter, Throw
<1>8. CASE ValidateHeaders
  BY <1>8 DEF ValidateHeaders, start, arena, environment, Enter, Throw
<1>9. CASE MapDataSegments
  BY <1>9, MapDataFacts DEF MapDataSegments, start, environment
<1>10. CASE MapCodeSegments
  BY <1>10 DEF MapCodeSegments, start, arena, environment, Enter, Throw
<1>11. CASE AllocateFramebuffer
  BY <1>11, FramebufferFacts DEF AllocateFramebuffer, environment
<1>12. CASE PresentEmptyFrame
  BY <1>12 DEF PresentEmptyFrame, start, arena, environment, Enter
<1>13. CASE UnwindStart
  BY <1>13, MemorySizeIsNat DEF UnwindStart, start, environment, Return
<1>14. CASE QuitEvent
  BY <1>14, HeadIsEvent DEF QuitEvent, TakeEvent, start, arena, Return
<1>15. CASE KeyDownEvent
  <2>1. KeyEvent("keyDown", "keyDown" = "keyDown")
    BY <1>15 DEF KeyDownEvent
  <2>. QED
    BY <2>1, KeyEventRecorded, HeadIsEvent DEF start, arena, Enter
<1>16. CASE KeyUpEvent
  <2>1. KeyEvent("keyUp", "keyUp" = "keyDown")
    BY <1>16 DEF KeyUpEvent
  <2>. QED
    BY <2>1, KeyEventRecorded, HeadIsEvent DEF start, arena, Enter
<1>17. CASE Iterate
  BY <1>17 DEF Iterate, LoopStep, Undefined, start, arena, environment, Enter
<1>18. CASE RunReturns
  BY <1>18 DEF RunReturns, LoopStep, start, arena, environment, Enter
<1>19. CASE RunThrows
  BY <1>19 DEF RunThrows, LoopStep, start, arena, environment, Return
<1>20. CASE RunNeverReturns
  BY <1>20 DEF RunNeverReturns, LoopStep, start, arena, environment, Enter
<1>21. CASE PresentFramebuffer
  BY <1>21, FrameIsReadable
  DEF PresentFramebuffer, LoopStep, start, arena, environment, Enter
<1>22. CASE AppQuit
  BY <1>22, MemorySizeIsNat DEF AppQuit, start, environment, Enter
<1>23. ASSUME UNCHANGED <<phase, start, handles, arena, app, error, result, quitTaken>>
      PROVE  Established' /\ EndsConsistently' /\ CallbacksDefined'
  BY <1>23 DEF start, arena
<1>24. CASE UNCHANGED vars
  BY <1>23, <1>24 DEF vars, start, arena
<1>25. CASE (\E key \in Keys : PostKeyDown(key) \/ PostKeyUp(key)) \/ PostQuit
  BY <1>23, <1>25 DEF PostKeyDown, PostKeyUp, PostQuit, Post
<1>26. CASE LoadOutOfBounds
  BY <1>26 DEF LoadOutOfBounds, start, arena, environment, Enter
<1>. QED
  BY <1>1, <1>2, <1>3, <1>4, <1>5, <1>6, <1>7, <1>8, <1>9, <1>10, <1>11, <1>12,
     <1>13, <1>14, <1>15, <1>16, <1>17, <1>18, <1>19, <1>20, <1>21, <1>22, <1>24,
     <1>25, <1>26
  DEF Next, Callbacks, AppInit, AppEvent, AppIterate

(***************************************************************************)
(* Every step keeps what the history of the keys says.                     *)
(***************************************************************************)
LEMMA KeyboardStep ==
  ASSUME TypeOK, Established, KeyboardReplayed, [Next]_vars
  PROVE  KeyboardReplayed'
<1>1. CASE AppInit \/ AppIterate \/ AppQuit
  <2>1. UNCHANGED <<keyEvents, events, held>> /\ phase \notin Over
    BY <1>1 DEF AppInit, InitSubSystem, ParseOptions, ConstructEmulator, CreateWindow,
      CreateRenderer, CreateTexture, Create, ReadProgramFile, ValidateHeaders,
      MapDataSegments, MapCodeSegments, LoadOutOfBounds, AllocateFramebuffer,
      PresentEmptyFrame, UnwindStart, AppIterate, Iterate, RunReturns, RunThrows, RunNeverReturns,
      PresentFramebuffer, LoopStep, AppQuit, environment, Over
  <2>. QED  BY <2>1, KeyboardUnchanged
<1>2. CASE QuitEvent
  <2>1. /\ phase \notin Over /\ events # << >> /\ events' = Tail(events)
        /\ held' = held /\ keyEvents' = keyEvents /\ Code(Head(events)) = 0
    BY <1>2 DEF QuitEvent, TakeEvent, Code, Over
  <2>. QED  BY <2>1, KeyboardTaken
<1>3. ASSUME NEW type \in {"keyDown", "keyUp"}, KeyEvent(type, type = "keyDown")
      PROVE  KeyboardReplayed'
  <2>1. /\ phase \notin Over /\ events # << >> /\ events' = Tail(events)
        /\ held' = held
        /\ \/ keyEvents' = Append(keyEvents, Code(Head(events)))
           \/ keyEvents' = keyEvents /\ Code(Head(events)) = 0
    BY <1>3, KeyEventRecorded DEF Over
  <2>. QED  BY <2>1, KeyboardTaken
<1>4. CASE KeyDownEvent \/ KeyUpEvent
  BY <1>3, <1>4 DEF KeyDownEvent, KeyUpEvent
<1>5. ASSUME NEW key \in Keys, PostKeyDown(key) PROVE KeyboardReplayed'
  <2> DEFINE event == [type |-> "keyDown", key |-> key]
  <2>1. event \in Event /\ event.type = "keyDown" /\ event.key = key
    BY DEF Event
  <2>2. Post(event) /\ held' = held \union {key}
    BY <1>5 DEF PostKeyDown
  <2> HIDE DEF event
  <2>. QED  BY <2>1, <2>2, KeyboardPosted
<1>6. ASSUME NEW key \in Keys, PostKeyUp(key) PROVE KeyboardReplayed'
  <2> DEFINE event == [type |-> "keyUp", key |-> key]
  <2>1. event \in Event /\ event.type = "keyUp" /\ event.key = key
    BY DEF Event
  <2>2. Post(event) /\ held' = held \ {key}
    BY <1>6 DEF PostKeyUp
  <2> HIDE DEF event
  <2>. QED  BY <2>1, <2>2, KeyboardPosted
<1>7. CASE PostQuit
  <2> DEFINE event == [type |-> "quit", key |-> SDLK_UNKNOWN]
  <2>1. event \in Event /\ event.type = "quit"
    BY DEF Event
  <2>2. Post(event) /\ held' = held
    BY <1>7 DEF PostQuit
  <2> HIDE DEF event
  <2>. QED  BY <2>1, <2>2, KeyboardPosted
<1>8. CASE UNCHANGED vars
  BY <1>8, KeyboardUnchanged DEF vars
<1>. QED
  BY <1>1, <1>2, <1>4, <1>5, <1>6, <1>7, <1>8 DEF Next, Callbacks, AppEvent

LEMMA InitInv ==
  ASSUME Init PROVE AppInv
<1>1. TypeOK
  <2>1. NoOptions \in [memorySize : Size, framebufferWidth : 0 .. MaxInt,
                        framebufferHeight : 0 .. MaxInt]
    BY Widths DEF NoOptions, Size
  <2>2. freeSpace \in 0 .. options.memorySize /\ 0 \in 0 .. MaxEvents
    BY WidthsAssumption DEF Init, NoOptions
  <2>3. /\ blocks \in Seq([offset : Nat, size : Nat, alignment : {1, 4}])
        /\ keyEvents \in Seq((-MaxInt .. MaxInt) \ {0}) /\ events \in Seq(Event)
    BY DEF Init
  <2>. QED  BY <2>1, <2>2, <2>3 DEF Init, TypeOK, Phases, Starting, Errors
<1>2. KeyboardReplayed
  BY DEF Init, KeyboardReplayed, PressedLast, HistoryIndices
<1>3. CallbacksDefined /\ EndsConsistently
  BY DEF Init, CallbacksDefined, EndsConsistently
<1>4. Established
  BY DEF Init, Established, Parsed, FramebufferEstablished, AppEstablished,
    ProgramEstablished, HandlesEstablished, ErrorEstablished, AskedEstablished,
    QuitEstablished, BeforeWindow, WithTexture, WithFramebuffer, Starting, Looping
<1>. QED  BY <1>1, <1>2, <1>3, <1>4 DEF AppInv

(***************************************************************************)
(* The invariant from which the others follow: every part of the start and *)
(* of the loop finds what the parts before it have left (main.cpp:16-71).  *)
(***************************************************************************)
THEOREM AppInvariant == Spec => []AppInv
<1>1. Init => AppInv
  BY InitInv
<1>2. AppInv /\ [Next]_vars => AppInv'
  BY TypeStep, EstablishedStep, KeyboardStep DEF AppInv
<1>. QED  BY <1>1, <1>2, PTL DEF Spec

-----------------------------------------------------------------------------
(***************************************************************************)
(* The state of the process stays in its types; no queued event makes      *)
(* handleKey record the 0 that ReadKey keeps for "none left".              *)
(***************************************************************************)
THEOREM AppTypeCorrect == Spec => []TypeOK
<1>1. AppInv => TypeOK
  BY DEF AppInv
<1>. QED  BY <1>1, AppInvariant, PTL

(***************************************************************************)
(* For every command line and every file, no callback uses an App that is  *)
(* not there, and every frame is read from inside the guest memory.  (The  *)
(* accesses of loadElf itself are LoadingIsDefined's subject.)             *)
(***************************************************************************)
THEOREM CallbacksAreDefined == Spec => []CallbacksDefined
<1>1. AppInv => CallbacksDefined
  BY DEF AppInv
<1>. QED  BY <1>1, AppInvariant, PTL

(***************************************************************************)
(* keyEvents and the queue of SDL tell which keys are down.                *)
(***************************************************************************)
THEOREM KeyboardIsReplayed == Spec => []KeyboardReplayed
<1>1. AppInv => KeyboardReplayed
  BY DEF AppInv
<1>. QED  BY <1>1, AppInvariant, PTL

(***************************************************************************)
(* However the process ends behind SDL_AppQuit, it reports success exactly *)
(* if SDL_AppEvent was given a request to quit, everything that was built  *)
(* is destroyed, and a window is left exactly by a Renderer that threw     *)
(* behind it (main.cpp:16-71).                                             *)
(***************************************************************************)
THEOREM ProcessEndsConsistently == Spec => []EndsConsistently
<1>1. AppInv => EndsConsistently
  BY DEF AppInv
<1>. QED  BY <1>1, AppInvariant, PTL
=============================================================================
