------------------------------ MODULE Emulator ------------------------------
(***************************************************************************)
(* Emulator::run (src/riscv/emulator.cpp) and the hart state it works on   *)
(* (Thread and RegisterFile, src/riscv/base.hpp).                          *)
(*                                                                         *)
(* A register is a number in 0 .. Modulus - 1; Modulus stands for 2^64.    *)
(* run() executes ten of the instruction types; all others end in the      *)
(* `default' label of its switch and are represented by the type "OTHER".  *)
(*                                                                         *)
(* The host is src/app.cpp: it sets the instructions once (App::App, via   *)
(* loadElf) and then calls run() from every App::tick.                     *)
(***************************************************************************)
EXTENDS Integers, Sequences

CONSTANTS
  Modulus,         \* 2^64, the number of values of Register
  RegisterCount,   \* registerCount, 32
  ImmediateLimit,  \* 2^31: immediates are int32_t
  Programs         \* the decoded programs the loader may hand over

RegisterIndex == 0 .. RegisterCount - 1

Register == 0 .. Modulus - 1

Branches == {"BEQ", "BNE", "BLT", "BGE", "BLTU", "BGEU"}

Types == {"LUI", "AUIPC", "JAL", "JALR", "OTHER"} \union Branches

Instruction ==
  [type : Types, rd : RegisterIndex, rs1 : RegisterIndex, rs2 : RegisterIndex,
   imm : -ImmediateLimit .. ImmediateLimit - 1]

(***************************************************************************)
(* 2^64 is a multiple of 4 far larger than any immediate.                  *)
(***************************************************************************)
ASSUME ModulusAssumption ==
  /\ Modulus \in Nat /\ Modulus % 4 = 0
  /\ ImmediateLimit \in Nat /\ 2 * ImmediateLimit + 8 =< Modulus

ASSUME RegisterCountAssumption == RegisterCount \in Nat \ {0}

(***************************************************************************)
(* Programs come from decodeInstructions: getImmediateB and getImmediateJ  *)
(* leave bit 0 of the immediate clear.                                     *)
(***************************************************************************)
ASSUME ProgramsAssumption ==
  /\ Programs \subseteq Seq(Instruction)
  /\ \A p \in Programs : \A i \in 1 .. Len(p) :
       p[i].type \in Branches \union {"JAL"} => p[i].imm % 2 = 0

VARIABLES
  registers,       \* Thread::registers
  programCounter,  \* Thread::programCounter
  cycleCounter,    \* Thread::cycleCounter
  instructions,    \* Emulator::instructions
  phase            \* where the host thread is: "unloaded" before
                   \* setInstructions, "idle" between calls of run(),
                   \* "running" inside it, "failed" once it has thrown

vars == <<registers, programCounter, cycleCounter, instructions, phase>>

-----------------------------------------------------------------------------
(***************************************************************************)
(* 64-bit arithmetic.  The operands here are a register and a              *)
(* sign-extended int32_t or 4, so that the sum wraps at most once.         *)
(***************************************************************************)
WrapOverflowOnly(n) == IF n >= Modulus THEN n - Modulus ELSE n  \* mutant

Wrap(n) == IF n >= Modulus THEN n - Modulus
           ELSE IF n < 0 THEN n + Modulus ELSE n

\* static_cast<int64_t>(r)
Signed(r) == IF 2 * r < Modulus THEN r ELSE r - Modulus

KeepLowestBit(r) == r  \* mutant

\* r & ~0b1
ClearLowestBit(r) == r - (r % 2)

\* Thread::getInstructionIndex
InstructionIndex == programCounter \div 4

NextHalfword(pc) == Wrap(pc + 2)  \* mutant

\* Thread::getNextProgramCounter, of a thread whose counter is pc
NextProgramCounter(pc) == Wrap(pc + 4)

\* RegisterFile::set: writes to x0 are dropped
SetRegister(regs, index, value) ==
  IF index = 0 THEN regs ELSE [regs EXCEPT ![index] = value]

\* mutant: BLT and BGE compare unsigned
BranchTakenUnsigned(i, regs) ==
  LET a == regs[i.rs1]
      b == regs[i.rs2]
  IN  \/ i.type = "BEQ"  /\ a = b
      \/ i.type = "BNE"  /\ a # b
      \/ i.type \in {"BLT", "BLTU"} /\ a < b
      \/ i.type \in {"BGE", "BGEU"} /\ a >= b

\* The conditions of the six branch labels of the switch in run()
BranchTaken(i, regs) ==
  LET a == regs[i.rs1]
      b == regs[i.rs2]
  IN  \/ i.type = "BEQ"  /\ a = b
      \/ i.type = "BNE"  /\ a # b
      \/ i.type = "BLT"  /\ Signed(a) < Signed(b)
      \/ i.type = "BGE"  /\ Signed(a) >= Signed(b)
      \/ i.type = "BLTU" /\ a < b
      \/ i.type = "BGEU" /\ a >= b

-----------------------------------------------------------------------------
Init ==
  /\ registers = [r \in RegisterIndex |-> 0]
  /\ programCounter = 0
  /\ cycleCounter = 0
  /\ instructions = << >>
  /\ phase = "unloaded"

\* The condition of the for statement in run()
LoopCondition == InstructionIndex < Len(instructions)

\* The instruction an iteration works on
Fetched == instructions[InstructionIndex + 1]

\* What every iteration starts with: the condition holds, the cycle counter
\* is incremented before the switch, and the instructions stay as they are.
Iteration ==
  /\ phase = "running"
  /\ LoopCondition
  /\ cycleCounter' = Wrap(cycleCounter + 1)
  /\ UNCHANGED instructions

\* mutant: a while loop without the increment expression
ContinueWithoutIncrement(pc) ==
  /\ programCounter' = pc
  /\ UNCHANGED phase

\* The end of an iteration: `break' and `continue' both lead to the
\* increment expression of the for statement, which adds 4 to whatever the
\* body has left in the program counter.
ContinueLoopFrom(pc) ==
  /\ programCounter' = NextProgramCounter(pc)
  /\ UNCHANGED phase

ExecuteLUI ==
  /\ Iteration
  /\ Fetched.type = "LUI"
  /\ registers' = SetRegister(registers, Fetched.rd, Wrap(Fetched.imm))
  /\ ContinueLoopFrom(programCounter)

ExecuteAUIPC ==
  /\ Iteration
  /\ Fetched.type = "AUIPC"
  /\ registers' = SetRegister(registers, Fetched.rd,
                              Wrap(programCounter + Fetched.imm))
  /\ ContinueLoopFrom(programCounter)

\* mutant: links past a compressed instruction
LinkHalfwordJAL ==
  /\ Iteration
  /\ Fetched.type = "JAL"
  /\ registers' = SetRegister(registers, Fetched.rd, NextHalfword(programCounter))
  /\ ContinueLoopFrom(Wrap(programCounter + Fetched.imm))

ExecuteJAL ==
  /\ Iteration
  /\ Fetched.type = "JAL"
  /\ registers' = SetRegister(registers, Fetched.rd,
                              NextProgramCounter(programCounter))
  /\ ContinueLoopFrom(Wrap(programCounter + Fetched.imm))

\* The link register is written before the base register is read.
ExecuteJALR ==
  /\ Iteration
  /\ Fetched.type = "JALR"
  /\ registers' = SetRegister(registers, Fetched.rd,
                              NextProgramCounter(programCounter))
  /\ LET base == registers'[Fetched.rs1]
     IN  ContinueLoopFrom(ClearLowestBit(Wrap(base + Fetched.imm)))

ExecuteBranch ==
  /\ Iteration
  /\ Fetched.type \in Branches
  /\ UNCHANGED registers
  /\ \/ /\ BranchTaken(Fetched, registers)
        /\ ContinueLoopFrom(Wrap(programCounter + Fetched.imm))
     \/ /\ ~BranchTaken(Fetched, registers)
        /\ ContinueLoopFrom(programCounter)

\* throw std::runtime_error("Unsupported instruction"); the exception ends
\* the host's main loop (SDL_AppIterate returns SDL_APP_FAILURE).
ThrowUnsupported ==
  /\ Iteration
  /\ Fetched.type = "OTHER"
  /\ phase' = "failed"
  /\ UNCHANGED <<registers, programCounter>>

\* The for statement ends and run() returns to App::tick.
ReturnFromRun ==
  /\ phase = "running"
  /\ ~LoopCondition
  /\ phase' = "idle"
  /\ UNCHANGED <<registers, programCounter, cycleCounter, instructions>>

\* Emulator::setInstructions, called once by the loader
SetInstructions(p) ==
  /\ phase = "unloaded"
  /\ instructions' = p
  /\ phase' = "idle"
  /\ UNCHANGED <<registers, programCounter, cycleCounter>>

\* mutant: every call starts the program again
RestartRun ==
  /\ phase = "idle"
  /\ phase' = "running"
  /\ programCounter' = 0
  /\ UNCHANGED <<registers, cycleCounter, instructions>>

\* App::tick calls run(mainThread); the thread keeps its state between calls.
CallRun ==
  /\ phase = "idle"
  /\ phase' = "running"
  /\ UNCHANGED <<registers, programCounter, cycleCounter, instructions>>

RunStep ==
  \/ ExecuteLUI
  \/ ExecuteAUIPC
  \/ ExecuteJAL
  \/ ExecuteJALR
  \/ ExecuteBranch
  \/ ThrowUnsupported
  \/ ReturnFromRun

Next == (\E p \in Programs : SetInstructions(p)) \/ CallRun \/ RunStep

Spec == Init /\ [][Next]_vars

(***************************************************************************)
(* run() is straight-line host code: once inside, it keeps taking steps.   *)
(***************************************************************************)
FairSpec == Spec /\ WF_vars(RunStep)

-----------------------------------------------------------------------------
\* Types of the hart state and of the program it runs.
TypeOK ==
  /\ registers \in [RegisterIndex -> Register]
  /\ programCounter \in Register
  /\ cycleCounter \in Register
  /\ instructions \in Programs \union {<< >>}
  /\ phase \in {"unloaded", "idle", "running", "failed"}
=============================================================================
