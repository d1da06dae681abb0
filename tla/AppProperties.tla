--------------------------- MODULE AppProperties ---------------------------
(***************************************************************************)
(* What the callbacks of main.cpp keep to, whenever the start fails and    *)
(* whatever the user does.                                                 *)
(***************************************************************************)
EXTENDS App

Event == [type : {"quit", "keyDown", "keyUp"}, key : Keys \union {SDLK_UNKNOWN}]

Errors ==
  {"none", "options", "memory", "window", "renderer", "texture", "program",
   "elf", "framebuffer", "emulation"}

\* Types of the process.  keyEvents holds no 0, which ReadKey keeps for "none
\* left" (app.cpp:24-28).
TypeOK ==
  /\ phase \in Phases
  /\ options \in [memorySize : Size, framebufferWidth : 0 .. MaxInt,
                  framebufferHeight : 0 .. MaxInt]
  /\ handles \subseteq Handles
  /\ freeSpace \in 0 .. options.memorySize /\ thrown \in BOOLEAN
  /\ blocks \in Seq([offset : Nat, size : Nat, alignment : {1, 4}])
  /\ program \in Programs \union {NoProgram}
  /\ framebuffer \in [offset : Nat, count : Nat]
  /\ app \in BOOLEAN
  /\ keyEvents \in Seq((-MaxInt .. MaxInt) \ {0})
  /\ error \in Errors /\ result \in {"continue", "success", "failure"}
  /\ events \in Seq(Event) /\ held \subseteq Keys /\ posted \in 0 .. MaxEvents
  /\ quitTaken \in BOOLEAN

\* No callback dereferences the empty unique_ptr (main.cpp:38, 57, 61), and
\* SDL_UpdateTexture reads the framebuffer only (renderer.cpp:53-54), which is
\* in the guest memory, whatever of the sizes of the command line wraps.  What
\* loadElf does inside the start to files whose own sums wrap ("outOfBounds")
\* is ElfLoader's subject and not excluded here.
CallbacksDefined == phase # "undefined"

\* What ReadKey says of an event, with 0 for one that is no key's
Code(e) ==
  CASE e.type = "keyDown" -> e.key
    [] e.type = "keyUp" -> -e.key
    [] OTHER -> 0

\* What has happened to the keys: the events in the App, then those in the queue
History(i) ==
  IF i =< Len(keyEvents) THEN keyEvents[i] ELSE Code(events[i - Len(keyEvents)])

HistoryIndices == 1 .. Len(keyEvents) + Len(events)

\* Pressed, and not released since
PressedLast(key) ==
  \E i \in HistoryIndices :
    History(i) = key /\ \A j \in HistoryIndices : j > i => History(j) # -key

\* The keyEvents of the App (app.hpp:32-33) and the events that are still
\* queued tell which keys are down.
KeyboardReplayed ==
  phase \notin Over =>
    \A key \in Keys \ {SDLK_UNKNOWN} : key \in held <=> PressedLast(key)

\* However the process ends behind SDL_AppQuit, it has destroyed what it has
\* built; a window is only left by a Renderer whose constructor threw after it
\* had made it (renderer.cpp:23-30).  It says success exactly if SDL_AppEvent
\* was given a request to quit (main.cpp:53-54), and then a program was loaded
\* and nothing was reported.
EndsConsistently ==
  phase = "ended" =>
    /\ ~app /\ freeSpace = 0 /\ blocks = << >>
    /\ handles # {} <=> error \in {"renderer", "texture"}
    /\ result \in {"success", "failure"}
    /\ result = "success" <=> quitTaken
    /\ quitTaken => error = "none" /\ program \in Programs

\* A request to quit that SDL has queued ends the process (main.cpp:53-54),
\* unless the guest never gives control back.
QuitEndsProcess ==
  (\E i \in 1 .. Len(events) : events[i].type = "quit")
    ~> phase \in Over \union {"stuck"}
=============================================================================
