-------------------------------- MODULE App --------------------------------
(***************************************************************************)
(* The process around the emulator: the callbacks of main.cpp, as SDL      *)
(* calls them, with App, Options and Renderer.  The start is one step per  *)
(* thing that may fail, because every failure leaves something else        *)
(* behind.                                                                 *)
(*                                                                         *)
(* Arena is the guest memory.  loadElf is known by what it asks of the     *)
(* arena and how it ends (ElfLoader), run() by how it ends (Emulator).     *)
(* SDL's part of the contract is external: the order of the callbacks,     *)
(* the queue of events, and what it can make textures of.                  *)
(***************************************************************************)
EXTENDS Integers, Sequences

CONSTANTS
  MemoryArguments,    \* values of --memory-size
  SizeArguments,      \* values of --framebuffer-size: <<width, height>>
  Programs,           \* files: [dataSize, code]
  Keys,               \* values of SDL_Keycode
  StorageAddress,     \* where the vector of the arena is
  IntModulus,         \* 2^32, the number of values of int and uint32_t
  SizeModulus,        \* 2^64, the number of values of size_t
  MaxTextureSize,     \* the largest width and height SDL makes textures of
  MaxEvents           \* bound of the model: events that are posted

SDLK_UNKNOWN == 0
KiB == 1024

Pixel == [size |-> 4, alignment |-> 4]   \* uint32_t
Byte == [size |-> 1, alignment |-> 1]

Size == 0 .. SizeModulus - 1
MaxInt == (IntModulus \div 2) - 1

\* What becomes of the code of a file: it is decoded, or one of the headers,
\* the code, or an instruction whose exception is a pointer stops loadElf.  If
\* sums of its headers wrap, any of this may become of it, and loadElf may
\* also leave a buffer (ElfLoader's phase "undefined").
Codes == {"decoded", "badHeaders", "badCode", "badPointer", "wraps"}

ASSUME WidthsAssumption ==
  /\ IntModulus \in Nat /\ SizeModulus \in Nat
  /\ IntModulus >= 4 /\ IntModulus % 2 = 0
  /\ IntModulus * IntModulus =< SizeModulus
  /\ StorageAddress \in Nat /\ MaxEvents \in Nat

ASSUME ArgumentsAssumption ==
  /\ MemoryArguments \subseteq Size
  /\ SizeArguments \subseteq (-MaxInt - 1 .. MaxInt) \X (-MaxInt - 1 .. MaxInt)
  /\ \A p \in Programs : p.dataSize \in Size /\ p.code \in Codes

\* SDL: no bit of a keycode is above SDLK_SCANCODE_MASK, and a texture is
\* smaller than a gigabyte.
ASSUME SDLAssumption ==
  /\ Keys \subseteq 0 .. MaxInt
  /\ MaxTextureSize \in Nat /\ Pixel.size * MaxTextureSize =< MaxInt

VARIABLES
  phase,         \* the part of main.cpp that is being executed
  options,       \* Options
  handles,       \* what SDL has created and not destroyed
  freeSpace, blocks, thrown,   \* emulator.memory, see Arena
  program,       \* the file that is loaded
  framebuffer,   \* std::span: [offset, count]
  app,           \* whether the unique_ptr holds an App
  keyEvents,
  error,         \* where the exception that was reported came from
  result,        \* SDL_AppResult of the latest callback
  events, held, posted,  \* SDL: its queue, the keys that are down, how many
  quitTaken              \* events there have been, and whether it has given a
                         \* request to quit to SDL_AppEvent

arena == <<freeSpace, blocks, thrown>>
environment == <<events, held, posted, quitTaken>>
start == <<options, program, framebuffer>>
vars == <<phase, options, handles, freeSpace, blocks, thrown, program,
          framebuffer, app, keyEvents, error, result, events, held, posted,
          quitTaken>>

\* The arena of an emulator with so many bytes of memory
Memory(capacity) ==
  INSTANCE Arena WITH Capacity <- capacity, ItemTypes <- {Byte, Pixel},
                      Counts <- Size, MaxBlocks <- 2

NoOptions == [memorySize |-> 0, framebufferWidth |-> 0, framebufferHeight |-> 0]
NoProgram == [dataSize |-> 0, code |-> "badHeaders"]

Handles == {"window", "renderer", "texture"}

Starting ==
  {"initSubSystem", "parse", "emulator", "window", "renderer", "texture",
   "program", "headers", "mapData", "mapCode", "framebuffer", "presentEmpty",
   "unwind"}
Looping == {"dispatch", "iterate", "run", "present"}
Over == {"ended", "exited", "aborted", "undefined", "outOfBounds"}
Phases == Starting \union Looping \union Over \union {"quit", "stuck"}

-----------------------------------------------------------------------------
Enter(p) == phase' = p /\ UNCHANGED <<error, result>>

\* throw std::runtime_error on the way to SDL_AppInit's handler
Throw(e) == phase' = "unwind" /\ error' = e /\ UNCHANGED result

\* A callback returns something else than SDL_APP_CONTINUE.
Return(r) == phase' = "quit" /\ result' = r

\* The language does not say what follows.
Undefined == phase' = "undefined" /\ UNCHANGED <<error, result>>

Init ==
  /\ phase = "initSubSystem"
  /\ options = NoOptions /\ program = NoProgram
  /\ framebuffer = [offset |-> 0, count |-> 0]
  /\ handles = {} /\ app = FALSE /\ keyEvents = << >>
  /\ freeSpace = 0 /\ blocks = << >> /\ thrown = FALSE
  /\ error = "none" /\ result = "continue"
  /\ events = << >> /\ held = {} /\ posted = 0 /\ quitTaken = FALSE

-----------------------------------------------------------------------------
\* SDL_AppInit up to its try block
InitSubSystem ==
  /\ phase = "initSubSystem"
  /\ Enter("parse") \/ (Return("failure") /\ UNCHANGED error)
  /\ UNCHANGED <<start, handles, arena, app, keyEvents, environment>>

\* memorySizeKiB * 1024, in size_t
MemoryBytes(kibibytes) == (kibibytes * KiB) % SizeModulus

\* Options::parse.  The parser throws for what it cannot read, and its own
\* --help and --version end the process.
ParseOptions ==
  /\ phase = "parse"
  /\ \/ phase' = "exited" /\ UNCHANGED <<options, error, result>>
     \/ Throw("options") /\ UNCHANGED options
     \/ \E memorySizeKiB \in MemoryArguments, framebufferSize \in SizeArguments :
          \/ /\ \/ memorySizeKiB = 0
                \/ framebufferSize[1] =< 0 \/ framebufferSize[2] =< 0
             /\ Throw("options") /\ UNCHANGED options
          \/ /\ memorySizeKiB # 0
             /\ framebufferSize[1] > 0 /\ framebufferSize[2] > 0
             /\ options' = [memorySize |-> MemoryBytes(memorySizeKiB),
                            framebufferWidth |-> framebufferSize[1],
                            framebufferHeight |-> framebufferSize[2]]
             /\ Enter("emulator")
  /\ UNCHANGED <<program, framebuffer, handles, arena, app, keyEvents, environment>>

\* Emulator::Emulator: the host may have no room for the vector of the arena.
ConstructEmulator ==
  /\ phase = "emulator"
  /\ \/ freeSpace' = options.memorySize /\ Enter("window")
     \/ UNCHANGED freeSpace /\ Throw("memory")
  /\ UNCHANGED <<start, handles, blocks, thrown, app, keyEvents, environment>>

\* One of the objects Renderer::Renderer asks SDL for
Create(handle, next) ==
  /\ phase = handle
  /\ \/ handles' = handles \union {handle} /\ Enter(next)
     \/ UNCHANGED handles /\ Throw(handle)
  /\ UNCHANGED <<start, arena, app, keyEvents, environment>>

CreateWindow == Create("window", "renderer")
CreateRenderer == Create("renderer", "texture")

CreateTexture ==
  /\ Create("texture", "program")
  /\ handles' # handles => /\ options.framebufferWidth =< MaxTextureSize
                           /\ options.framebufferHeight =< MaxTextureSize

-----------------------------------------------------------------------------
\* readProgramFile
ReadProgramFile ==
  /\ phase = "program"
  /\ \/ program' \in Programs /\ Enter("headers")
     \/ UNCHANGED program /\ Throw("program")
  /\ UNCHANGED <<options, framebuffer, handles, arena, app, keyEvents, environment>>

\* loadElf: the validation of the headers
ValidateHeaders ==
  /\ phase = "headers"
  /\ \/ program.code \in {"badHeaders", "wraps"} /\ Throw("elf")
     \/ program.code # "badHeaders" /\ Enter("mapData")
  /\ UNCHANGED <<start, handles, arena, app, keyEvents, environment>>

\* The arena is asked for an array: it may throw, and its bad_alloc becomes
\* a std::runtime_error.
AllocateArray(item, count, next, e) ==
  /\ \E capacity \in {MemoryBytes(k) : k \in MemoryArguments} :
       /\ capacity = options.memorySize
       /\ Memory(capacity)!AllocateArray(item, count)
  /\ (thrown' /\ Throw(e)) \/ (~thrown' /\ Enter(next))

\* mapDataSegments.  Only a sum that wraps gives data segments a size of 0.
MapDataSegments ==
  /\ phase = "mapData"
  /\ \/ program.dataSize = 0 /\ Enter("mapCode") /\ UNCHANGED arena
     \/ /\ program.dataSize # 0 \/ program.code = "wraps"
        /\ AllocateArray(Byte, program.dataSize, "mapCode", "elf")
  /\ UNCHANGED <<start, handles, app, keyEvents, environment>>

\* mapCodeSegments; no handler catches a pointer, so that the process aborts.
MapCodeSegments ==
  /\ phase = "mapCode"
  /\ \/ program.code \in {"badCode", "wraps"} /\ Throw("elf")
     \/ program.code \in {"badPointer", "wraps"} /\ Enter("aborted")
     \/ program.code \in {"decoded", "wraps"} /\ Enter("framebuffer")
  /\ UNCHANGED <<start, handles, arena, app, keyEvents, environment>>

\* A sum that wraps has passed the bounds checks: SegmentHeader::read leaves
\* the file, or copySegments the file, the data memory or the code memory.
LoadOutOfBounds ==
  /\ phase \in {"headers", "mapCode"} /\ program.code = "wraps"
  /\ Enter("outOfBounds")
  /\ UNCHANGED <<start, handles, arena, app, keyEvents, environment>>

\* mutant: the product is formed in uint32_t
FramebufferPixels32 ==
  (options.framebufferWidth * options.framebufferHeight) % IntModulus

\* (size_t) options.framebufferWidth * options.framebufferHeight
FramebufferPixels == options.framebufferWidth * options.framebufferHeight

\* The try block of App::App
AllocateFramebuffer ==
  /\ phase = "framebuffer"
  /\ AllocateArray(Pixel, FramebufferPixels, "presentEmpty", "framebuffer")
  /\ framebuffer' = IF thrown' THEN framebuffer
                    ELSE [offset |-> blocks'[Len(blocks')].offset,
                          count |-> FramebufferPixels]
  /\ UNCHANGED <<options, program, handles, app, keyEvents, environment>>

\* The rest of App::App, and SDL_AppInit stores what was built.
PresentEmptyFrame ==
  /\ phase = "presentEmpty"
  /\ app' = TRUE
  /\ Enter("dispatch")
  /\ UNCHANGED <<start, handles, arena, keyEvents, environment>>

\* Only members that are complete are destroyed: the handles are released by
\* the destructor of a Renderer whose constructor has returned.
RendererComplete == error \in {"program", "elf", "framebuffer"}

\* The exception leaves App::App and is caught in SDL_AppInit.
UnwindStart ==
  /\ phase = "unwind"
  /\ handles' = IF RendererComplete THEN {} ELSE handles
  /\ freeSpace' = 0 /\ blocks' = << >> /\ thrown' = FALSE
  /\ Return("failure")
  /\ UNCHANGED <<start, app, keyEvents, error, environment>>

-----------------------------------------------------------------------------
\* static_cast<int> of an unsigned integer
ToInt(n) ==
  IF n % IntModulus > MaxInt THEN (n % IntModulus) - IntModulus ELSE n % IntModulus

\* mutant: SDLK_UNKNOWN is recorded like any other key
RecordEveryKey(keyCode, isKeyDown) ==
  keyEvents' = Append(keyEvents, IF isKeyDown THEN ToInt(keyCode) ELSE -ToInt(keyCode))

\* App::handleKey
handleKey(keyCode, isKeyDown) ==
  IF keyCode = SDLK_UNKNOWN
  THEN UNCHANGED keyEvents
  ELSE keyEvents' = Append(keyEvents,
                           IF isKeyDown THEN ToInt(keyCode) ELSE -ToInt(keyCode))

\* SDL_AppEvent takes the oldest event of the queue.
TakeEvent(type) ==
  /\ phase = "dispatch"
  /\ events # << >> /\ Head(events).type = type
  /\ events' = Tail(events) /\ quitTaken' = (quitTaken \/ type = "quit")
  /\ UNCHANGED <<start, handles, arena, app, held, posted>>

\* mutant: the case breaks like the others
ContinueOnQuit ==
  TakeEvent("quit") /\ Enter("dispatch") /\ UNCHANGED keyEvents

\* mutant: the request is reported like an error
QuitAsFailure ==
  TakeEvent("quit") /\ Return("failure") /\ UNCHANGED <<error, keyEvents>>

QuitEvent ==
  TakeEvent("quit") /\ Return("success") /\ UNCHANGED <<error, keyEvents>>

KeyEvent(type, isKeyDown) ==
  /\ TakeEvent(type)
  /\ IF app THEN handleKey(Head(events).key, isKeyDown) /\ Enter("dispatch")
            ELSE UNCHANGED keyEvents /\ Undefined

KeyDownEvent == KeyEvent("keyDown", TRUE)

\* mutant: the argument of the other case
KeyUpAsDown == KeyEvent("keyUp", TRUE)

KeyUpEvent == KeyEvent("keyUp", FALSE)

-----------------------------------------------------------------------------
\* A step of the loop that leaves all the objects as they are
LoopStep(p) ==
  /\ phase = p
  /\ UNCHANGED <<start, handles, arena, app, keyEvents, environment>>

\* SDL has given all events to SDL_AppEvent and calls SDL_AppIterate.
Iterate ==
  /\ LoopStep("dispatch")
  /\ events = << >>
  /\ IF app THEN Enter("run") ELSE Undefined

\* Emulator::run in App::tick: it returns, throws, or does neither.
RunReturns == LoopStep("run") /\ Enter("present")

RunThrows == LoopStep("run") /\ Return("failure") /\ error' = "emulation"

RunNeverReturns == LoopStep("run") /\ Enter("stuck")

\* Bytes that SDL_UpdateTexture reads of rows that are `pitch' bytes apart
BytesRead(pitch) ==
  (options.framebufferHeight - 1) * pitch + options.framebufferWidth * Pixel.size

\* SDL_UpdateTexture stays in the span, and the span in the guest memory.
FramebufferReadable ==
  LET pitch == ToInt(options.framebufferWidth * Pixel.size) IN
  /\ pitch >= options.framebufferWidth * Pixel.size
  /\ BytesRead(pitch) =< framebuffer.count * Pixel.size
  /\ framebuffer.offset + framebuffer.count * Pixel.size =< options.memorySize

\* Renderer::presentFramebuffer
PresentFramebuffer ==
  /\ LoopStep("present")
  /\ IF FramebufferReadable THEN Enter("dispatch") ELSE Undefined

-----------------------------------------------------------------------------
\* mutant: release() instead of reset()
ReleaseApp ==
  /\ phase = "quit"
  /\ app' = FALSE
  /\ Enter("ended")
  /\ UNCHANGED <<start, handles, arena, keyEvents, environment>>

\* SDL_AppQuit destroys the App, if there is one.
AppQuit ==
  /\ phase = "quit"
  /\ app' = FALSE
  /\ IF app THEN handles' = {} /\ freeSpace' = 0 /\ blocks' = << >>
            ELSE UNCHANGED <<handles, freeSpace, blocks>>
  /\ Enter("ended")
  /\ UNCHANGED <<start, thrown, keyEvents, environment>>

-----------------------------------------------------------------------------
\* SDL puts an event in its queue: keys once there is a window, a request to
\* quit at any time.
Post(event) ==
  /\ phase \notin Over \union {"initSubSystem"}
  /\ posted < MaxEvents
  /\ event.type # "quit" => "window" \in handles
  /\ events' = Append(events, event) /\ posted' = posted + 1
  /\ UNCHANGED <<phase, start, handles, arena, app, keyEvents, error, result, quitTaken>>

\* A key that is held is reported again and again.
PostKeyDown(key) == Post([type |-> "keyDown", key |-> key]) /\ held' = held \union {key}

PostKeyUp(key) ==
  key \in held /\ Post([type |-> "keyUp", key |-> key]) /\ held' = held \ {key}

PostQuit == Post([type |-> "quit", key |-> SDLK_UNKNOWN]) /\ UNCHANGED held

AppInit ==
  \/ InitSubSystem \/ ParseOptions \/ ConstructEmulator
  \/ CreateWindow \/ CreateRenderer \/ CreateTexture
  \/ ReadProgramFile \/ ValidateHeaders \/ MapDataSegments \/ MapCodeSegments
  \/ LoadOutOfBounds \/ AllocateFramebuffer \/ PresentEmptyFrame \/ UnwindStart

AppEvent == QuitEvent \/ KeyDownEvent \/ KeyUpEvent

AppIterate ==
  \/ Iterate \/ RunReturns \/ RunThrows \/ RunNeverReturns \/ PresentFramebuffer

Callbacks == AppInit \/ AppEvent \/ AppIterate \/ AppQuit

Next ==
  \/ Callbacks
  \/ \E key \in Keys : PostKeyDown(key) \/ PostKeyUp(key)
  \/ PostQuit

Spec == Init /\ [][Next]_vars

\* SDL calls the callbacks in a loop and each of them goes on.  Nobody has to
\* press a key or to close the window.
FairSpec == Spec /\ WF_vars(Callbacks)
=============================================================================
