------------------------- MODULE EmulatorProperties -------------------------
(***************************************************************************)
(* Properties of Emulator::run, and its relation to the RISC-V ISA.        *)
(***************************************************************************)
EXTENDS Emulator

\* No immediate of p moves the program counter or a register off a multiple
\* of 4.  U-type immediates are multiples of 4096 by decoding; of JAL, JALR
\* and branch immediates it is what a compiler emits without the compressed
\* extension.
AlignedProgram(p) ==
  \A i \in 1 .. Len(p) : p[i].type # "OTHER" => p[i].imm % 4 = 0

AlignedPrograms == \A p \in Programs : AlignedProgram(p)

\* No JALR overwrites its own base register.
BaseKeptPrograms ==
  \A p \in Programs : \A i \in 1 .. Len(p) :
    p[i].type = "JALR" => p[i].rd = 0 \/ p[i].rd # p[i].rs1

\* Every jump and branch of p goes forward, by an instruction at least, and none
\* goes through a register.  (A jump to itself ends today, because it lands 4
\* bytes late; see Relocated.  The properties do not count on that.)
ForwardOnly(p) ==
  \A i \in 1 .. Len(p) :
    /\ p[i].type # "JALR"
    /\ p[i].type \in Branches \union {"JAL"} => p[i].imm >= 4

-----------------------------------------------------------------------------
\* The program counter is always even, whatever odd values JALR adds up:
\* `programCounter &= ~0b1' and the even B- and J-immediates together keep
\* bit 0 clear (emulator.cpp:44-45 with instruction.cpp:107-127).
PcEven == programCounter % 2 = 0

\* If the immediates of the program are multiples of 4, run() never executes
\* from the middle of an instruction: getInstructionIndex (base.hpp:155) drops
\* the low bits of the program counter without a check, and JALR may jump to
\* any value a program has built in a register with LUI, AUIPC and links.
PcAligned == AlignedProgram(instructions) => programCounter % 4 = 0

\* The registers that make PcAligned inductive.
RegistersAligned ==
  AlignedProgram(instructions) => \A r \in RegisterIndex : registers[r] % 4 = 0

\* A program that jumps forward only (ForwardOnly) costs the host at most one
\* iteration per instruction, over all the calls of run() that App::tick
\* makes, once per frame and for ever: jumps only skip instructions, and a
\* thread that has left its program stays outside (base.hpp:129-163).
RunTimeBounded ==
  ForwardOnly(instructions) => cycleCounter =< Len(instructions)

\* A program that jumps forward only (ForwardOnly) gives control back to the
\* host (run() returns or throws), so that the window is drawn and events
\* are handled.
ForwardProgramsReturn ==
  (phase = "running" /\ ForwardOnly(instructions)) ~> (phase # "running")

-----------------------------------------------------------------------------
(***************************************************************************)
(* Because `continue' runs the increment of the for statement, a taken     *)
(* jump lands 4 bytes after its target.  So run() behaves on a program as  *)
(* a RISC-V hart behaves on the program below, every jump of which is 4    *)
(* bytes longer.                                                           *)
(***************************************************************************)
Relocated(p) ==
  [i \in 1 .. Len(p) |->
     IF p[i].type \in Branches \union {"JAL", "JALR"}
     THEN [p[i] EXCEPT !.imm = @ + 4] ELSE p[i]]

RelocatedIsa == INSTANCE Rv64Control
  WITH x <- registers, pc <- programCounter, mode <- phase,
       program <- Relocated(instructions)

Rv64 == INSTANCE Rv64Control
  WITH x <- registers, pc <- programCounter, mode <- phase,
       program <- instructions

\* run() executes a program as a RISC-V hart executes the relocated program:
\* same registers, same program counter, same stops after every instruction
\* (emulator.cpp:15-103).
ImplementsRelocatedIsa == RelocatedIsa!Spec

\* run() executes a program as a RISC-V hart does: README.md:4 says "full
\* RV64G architecture".
ImplementsIsa == Rv64!Spec

\* JALR jumps relative to the value its base register has when the
\* instruction starts, up to the 4 bytes of the relocation
\* (emulator.cpp:41-47); README.md:4 says "full RV64G architecture".
JalrUsesOldBase ==
  [][phase = "running" /\ LoopCondition /\ Fetched.type = "JALR"
       => LET target == ClearLowestBit(Wrap(registers[Fetched.rs1] + Fetched.imm))
          IN  programCounter' \in {target, NextProgramCounter(target)}]_vars
=============================================================================
