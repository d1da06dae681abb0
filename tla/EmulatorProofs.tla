--------------------------- MODULE EmulatorProofs ---------------------------
(***************************************************************************)
(* Proofs about Emulator::run for every register width, every number of    *)
(* registers and every set of programs.                                    *)
(***************************************************************************)
EXTENDS EmulatorProperties, TLAPS

(***************************************************************************)
(* Wrapping the sum of a register and a short offset is 64-bit addition:   *)
(* the result is a register, and a common factor of 2 or 4 survives.       *)
(***************************************************************************)
LEMMA WrapFacts ==
  ASSUME NEW r \in Register,
         NEW d \in -ImmediateLimit .. ImmediateLimit + 4
  PROVE  /\ Wrap(r + d) \in Register
         /\ r % 2 = 0 /\ d % 2 = 0 => Wrap(r + d) % 2 = 0
         /\ r % 4 = 0 /\ d % 4 = 0 => Wrap(r + d) % 4 = 0
BY ModulusAssumption, SMTT(30) DEF Register, Wrap

(***************************************************************************)
(* An immediate by itself converts to a register the same way.             *)
(***************************************************************************)
LEMMA WrapImmediate ==
  ASSUME NEW d \in -ImmediateLimit .. ImmediateLimit - 1
  PROVE  /\ Wrap(d) \in Register
         /\ d % 4 = 0 => Wrap(d) % 4 = 0
BY ModulusAssumption DEF Register, Wrap

(***************************************************************************)
(* getNextProgramCounter yields a register, even or aligned like its       *)
(* argument.                                                               *)
(***************************************************************************)
LEMMA NextCounterFacts ==
  ASSUME NEW pc \in Register
  PROVE  /\ NextProgramCounter(pc) \in Register
         /\ pc % 2 = 0 => NextProgramCounter(pc) % 2 = 0
         /\ pc % 4 = 0 => NextProgramCounter(pc) % 4 = 0
BY ModulusAssumption DEF Register, Wrap, NextProgramCounter

(***************************************************************************)
(* Masking with ~0b1 yields an even register and keeps multiples of 4.     *)
(***************************************************************************)
LEMMA ClearLowestBitFacts ==
  ASSUME NEW r \in Register
  PROVE  /\ ClearLowestBit(r) \in Register
         /\ ClearLowestBit(r) % 2 = 0
         /\ r % 4 = 0 => ClearLowestBit(r) = r
BY ModulusAssumption DEF Register, ClearLowestBit

(***************************************************************************)
(* RegisterFile::set keeps the register file a register file, and returns  *)
(* the value written or the old one at every index.                        *)
(***************************************************************************)
LEMMA SetRegisterFacts ==
  ASSUME NEW regs \in [RegisterIndex -> Register],
         NEW index \in RegisterIndex, NEW value \in Register
  PROVE  /\ SetRegister(regs, index, value) \in [RegisterIndex -> Register]
         /\ \A r \in RegisterIndex :
              SetRegister(regs, index, value)[r]
                = IF r = index /\ r # 0 THEN value ELSE regs[r]
BY DEF SetRegister

(***************************************************************************)
(* What an iteration fetches is an instruction of one of the programs.     *)
(***************************************************************************)
LEMMA FetchedFacts ==
  ASSUME TypeOK, LoopCondition
  PROVE  /\ Fetched \in Instruction
         /\ Fetched.imm \in -ImmediateLimit .. ImmediateLimit - 1
         /\ Fetched.type \in Branches \union {"JAL"} => Fetched.imm % 2 = 0
         /\ AlignedProgram(instructions) /\ Fetched.type # "OTHER" => Fetched.imm % 4 = 0
         /\ BaseKeptPrograms /\ Fetched.type = "JALR"
              => Fetched.rd = 0 \/ Fetched.rd # Fetched.rs1
<1> DEFINE index == InstructionIndex + 1
<1>1. instructions \in Programs /\ instructions \in Seq(Instruction)
  <2>1. InstructionIndex >= 0
    BY DEF TypeOK, Register, InstructionIndex
  <2>2. instructions # << >>
    BY <2>1 DEF LoopCondition, TypeOK, Register, InstructionIndex
  <2>. QED  BY <2>2, ProgramsAssumption DEF TypeOK
<1>2. index \in 1 .. Len(instructions)
  BY <1>1, ModulusAssumption DEF LoopCondition, TypeOK, Register, InstructionIndex
<1>3. Fetched \in Instruction /\ Fetched = instructions[index]
  BY <1>1, <1>2 DEF Fetched
<1>4. Fetched.imm \in -ImmediateLimit .. ImmediateLimit - 1
  BY <1>3 DEF Instruction
<1>. QED
  BY <1>1, <1>2, <1>3, <1>4, ProgramsAssumption
  DEF AlignedProgram, BaseKeptPrograms

(***************************************************************************)
(* Where the body of an iteration may leave the program counter.           *)
(***************************************************************************)
LEMMA JumpFacts ==
  ASSUME TypeOK, LoopCondition, NEW base \in Register
  PROVE  LET sum == Wrap(base + Fetched.imm)
         IN  /\ sum \in Register
             /\ base % 2 = 0 /\ Fetched.imm % 2 = 0 => sum % 2 = 0
             /\ base % 4 = 0 /\ Fetched.imm % 4 = 0 => sum % 4 = 0
             /\ ClearLowestBit(sum) \in Register
             /\ ClearLowestBit(sum) % 2 = 0
             /\ sum % 4 = 0 => ClearLowestBit(sum) = sum
<1> DEFINE sum == Wrap(base + Fetched.imm)
<1>1. Fetched.imm \in -ImmediateLimit .. ImmediateLimit + 4
  BY FetchedFacts, ModulusAssumption
<1>2. /\ sum \in Register
      /\ base % 2 = 0 /\ Fetched.imm % 2 = 0 => sum % 2 = 0
      /\ base % 4 = 0 /\ Fetched.imm % 4 = 0 => sum % 4 = 0
  BY <1>1, WrapFacts
<1> HIDE DEF sum
<1>3. /\ ClearLowestBit(sum) \in Register
      /\ ClearLowestBit(sum) % 2 = 0
      /\ sum % 4 = 0 => ClearLowestBit(sum) = sum
  BY <1>2, ClearLowestBitFacts
<1>. QED  BY <1>2, <1>3 DEF sum

(***************************************************************************)
(* An iteration leaves the parts of the state it shares with every other   *)
(* iteration well typed.                                                   *)
(***************************************************************************)
LEMMA IterationFacts ==
  ASSUME TypeOK, Iteration
  PROVE  /\ LoopCondition
         /\ Fetched.rd \in RegisterIndex /\ Fetched.rs1 \in RegisterIndex
         /\ cycleCounter' \in Register
         /\ instructions' \in Programs \union {<< >>}
         /\ NextProgramCounter(programCounter) \in Register
<1>1. LoopCondition
  BY DEF Iteration
<1>2. Fetched.rd \in RegisterIndex /\ Fetched.rs1 \in RegisterIndex
  BY <1>1, FetchedFacts DEF Instruction
<1>3. Wrap(cycleCounter + 1) \in Register
  BY WrapFacts, ModulusAssumption DEF TypeOK
<1>4. NextProgramCounter(programCounter) \in Register
  BY NextCounterFacts DEF TypeOK
<1>. QED  BY <1>1, <1>2, <1>3, <1>4 DEF Iteration, TypeOK

-----------------------------------------------------------------------------
(***************************************************************************)
(* Every instruction leaves registers that fit 64 bits and a program       *)
(* counter that is a register value (Emulator::run, all its cases).        *)
(***************************************************************************)
THEOREM TypeCorrect == Spec => []TypeOK
<1>1. Init => TypeOK
  BY ModulusAssumption, RegisterCountAssumption
  DEF Init, TypeOK, Register, RegisterIndex
<1>2. TypeOK /\ [Next]_vars => TypeOK'
  <2> SUFFICES ASSUME TypeOK, [Next]_vars PROVE TypeOK'
    OBVIOUS
  <2>1. CASE ExecuteLUI
    <3>1. Wrap(Fetched.imm) \in Register
      BY <2>1, IterationFacts, FetchedFacts, WrapImmediate DEF ExecuteLUI
    <3>. QED
      BY <2>1, <3>1, IterationFacts, SetRegisterFacts, NextCounterFacts
      DEF ExecuteLUI, ContinueLoopFrom, TypeOK
  <2>2. CASE ExecuteAUIPC
    <3>1. Wrap(programCounter + Fetched.imm) \in Register
      BY <2>2, IterationFacts, JumpFacts DEF ExecuteAUIPC, TypeOK
    <3>. QED
      BY <2>2, <3>1, IterationFacts, SetRegisterFacts, NextCounterFacts
      DEF ExecuteAUIPC, ContinueLoopFrom, TypeOK
  <2>3. CASE ExecuteJAL
    <3>1. Wrap(programCounter + Fetched.imm) \in Register
      BY <2>3, IterationFacts, JumpFacts DEF ExecuteJAL, TypeOK
    <3>. QED
      BY <2>3, <3>1, IterationFacts, SetRegisterFacts, NextCounterFacts
      DEF ExecuteJAL, ContinueLoopFrom, TypeOK
  <2>4. CASE ExecuteJALR
    <3>1. registers' \in [RegisterIndex -> Register]
      BY <2>4, IterationFacts, SetRegisterFacts DEF ExecuteJALR, TypeOK
    <3>2. registers'[Fetched.rs1] \in Register
      BY <2>4, <3>1, IterationFacts DEF ExecuteJALR
    <3>3. ClearLowestBit(Wrap(registers'[Fetched.rs1] + Fetched.imm)) \in Register
      BY <2>4, <3>2, IterationFacts, JumpFacts DEF ExecuteJALR
    <3>. QED
      BY <2>4, <3>1, <3>3, IterationFacts, NextCounterFacts
      DEF ExecuteJALR, ContinueLoopFrom, TypeOK
  <2>5. CASE ExecuteBranch
    <3>1. Wrap(programCounter + Fetched.imm) \in Register
      BY <2>5, IterationFacts, JumpFacts DEF ExecuteBranch, TypeOK
    <3>. QED
      BY <2>5, <3>1, IterationFacts, NextCounterFacts
      DEF ExecuteBranch, ContinueLoopFrom, TypeOK
  <2>6. CASE ThrowUnsupported
    BY <2>6, IterationFacts DEF ThrowUnsupported, TypeOK
  <2>7. CASE ReturnFromRun
    BY <2>7 DEF ReturnFromRun, TypeOK
  <2>8. ASSUME NEW p \in Programs, SetInstructions(p) PROVE TypeOK'
    BY <2>8 DEF SetInstructions, TypeOK
  <2>9. CASE CallRun
    BY <2>9 DEF CallRun, TypeOK
  <2>10. CASE UNCHANGED vars
    BY <2>10 DEF vars, TypeOK
  <2>. QED
    BY <2>1, <2>2, <2>3, <2>4, <2>5, <2>6, <2>7, <2>8, <2>9, <2>10
    DEF Next, RunStep
<1>. QED  BY <1>1, <1>2, PTL DEF Spec

(***************************************************************************)
(* The program counter is always even: JALR clears bit 0, and the          *)
(* immediates of JAL and the branches have it clear (emulator.cpp:36-97).  *)
(***************************************************************************)
THEOREM ProgramCounterEven == Spec => []PcEven
<1>1. Init => PcEven
  BY DEF Init, PcEven
<1>2. TypeOK /\ PcEven /\ [Next]_vars => PcEven'
  <2> SUFFICES ASSUME TypeOK, PcEven, [Next]_vars PROVE PcEven'
    OBVIOUS
  <2>1. programCounter \in Register /\ programCounter % 2 = 0
    BY DEF TypeOK, PcEven
  <2>2. ASSUME NEW pc \in Register, pc % 2 = 0, ContinueLoopFrom(pc)
        PROVE  PcEven'
    BY <2>2, NextCounterFacts DEF ContinueLoopFrom, PcEven
  <2>3. CASE ExecuteLUI \/ ExecuteAUIPC
    BY <2>3, <2>1, <2>2 DEF ExecuteLUI, ExecuteAUIPC
  <2>4. CASE ExecuteJAL
    <3>1. Fetched.imm % 2 = 0
      BY <2>4, IterationFacts, FetchedFacts DEF ExecuteJAL
    <3>2. /\ Wrap(programCounter + Fetched.imm) \in Register
          /\ Wrap(programCounter + Fetched.imm) % 2 = 0
      BY <2>4, <2>1, <3>1, IterationFacts, JumpFacts DEF ExecuteJAL
    <3>. QED  BY <2>4, <2>2, <3>2 DEF ExecuteJAL
  <2>5. CASE ExecuteJALR
    <3>0. registers' \in [RegisterIndex -> Register]
      BY <2>5, IterationFacts, SetRegisterFacts DEF ExecuteJALR, TypeOK
    <3>1. registers'[Fetched.rs1] \in Register
      BY <2>5, <3>0, IterationFacts DEF ExecuteJALR
    <3>2. LET target == ClearLowestBit(Wrap(registers'[Fetched.rs1] + Fetched.imm))
          IN  target \in Register /\ target % 2 = 0
      BY <2>5, <3>1, IterationFacts, JumpFacts DEF ExecuteJALR
    <3>. QED  BY <2>5, <2>2, <3>2 DEF ExecuteJALR
  <2>6. CASE ExecuteBranch
    <3>1. Fetched.imm % 2 = 0
      BY <2>6, IterationFacts, FetchedFacts DEF ExecuteBranch
    <3>2. /\ Wrap(programCounter + Fetched.imm) \in Register
          /\ Wrap(programCounter + Fetched.imm) % 2 = 0
      BY <2>6, <2>1, <3>1, IterationFacts, JumpFacts DEF ExecuteBranch
    <3>. QED  BY <2>6, <2>1, <2>2, <3>2 DEF ExecuteBranch
  <2>7. CASE UNCHANGED programCounter
    BY <2>7 DEF PcEven
  <2>. QED
    BY <2>3, <2>4, <2>5, <2>6, <2>7
    DEF Next, RunStep, vars, ThrowUnsupported, ReturnFromRun, SetInstructions,
        CallRun
<1>. QED  BY <1>1, <1>2, TypeCorrect, PTL DEF Spec

-----------------------------------------------------------------------------
(***************************************************************************)
(* Programs with 4-aligned immediates stay on instruction boundaries.      *)
(* PcAligned alone is not inductive: JALR jumps to what is in a register,  *)
(* so the registers have to be multiples of 4 as well.                     *)
(***************************************************************************)
Aligned ==
  /\ phase = "unloaded" => instructions = << >>
  /\ PcAligned
  /\ RegistersAligned

LEMMA AllAligned ==
  ASSUME AlignedPrograms, NEW p \in Programs \union {<< >>}
  PROVE  AlignedProgram(p)
BY DEF AlignedPrograms, AlignedProgram

LEMMA AlignedStep == TypeOK /\ Aligned /\ [Next]_vars => Aligned'
<1> SUFFICES ASSUME TypeOK, Aligned, [Next]_vars PROVE Aligned'
  OBVIOUS
<1>a. (phase = "unloaded" => instructions = << >>)'
  BY DEF Aligned, Next, RunStep, vars, SetInstructions, CallRun, ReturnFromRun,
         ThrowUnsupported, Iteration, ExecuteLUI, ExecuteAUIPC, ExecuteJAL,
         ExecuteJALR, ExecuteBranch, ContinueLoopFrom
<1>b. CASE \E p \in Programs : SetInstructions(p)
  <2>1. AlignedProgram(instructions)
    BY <1>b DEF SetInstructions, Aligned, AlignedProgram
  <2>. QED
    BY <1>a, <1>b, <2>1 DEF SetInstructions, Aligned, PcAligned, RegistersAligned
<1>c. CASE UNCHANGED instructions /\ ~AlignedProgram(instructions)
  BY <1>a, <1>c DEF Aligned, PcAligned, RegistersAligned, AlignedProgram
<1>d. ASSUME [Next]_vars, ~(\E p \in Programs : SetInstructions(p))
      PROVE  UNCHANGED instructions
  BY <1>d DEF Next, RunStep, vars, CallRun, ReturnFromRun, ThrowUnsupported,
              Iteration, ExecuteLUI, ExecuteAUIPC, ExecuteJAL, ExecuteJALR,
              ExecuteBranch
<1> SUFFICES ASSUME AlignedProgram(instructions), UNCHANGED instructions,
                    ~(\E p \in Programs : SetInstructions(p))
             PROVE  /\ programCounter' % 4 = 0
                    /\ \A r \in RegisterIndex : registers'[r] % 4 = 0
  BY <1>a, <1>b, <1>c, <1>d DEF Aligned, PcAligned, RegistersAligned
<1>1. /\ programCounter \in Register /\ programCounter % 4 = 0
      /\ registers \in [RegisterIndex -> Register]
      /\ \A r \in RegisterIndex : registers[r] % 4 = 0
  BY DEF TypeOK, Aligned, PcAligned, RegistersAligned
<1>2. ASSUME NEW pc \in Register, pc % 4 = 0, ContinueLoopFrom(pc)
      PROVE  programCounter' % 4 = 0
  BY <1>2, NextCounterFacts DEF ContinueLoopFrom
<1>3. ASSUME NEW value \in Register, value % 4 = 0,
             NEW index \in RegisterIndex,
             registers' = SetRegister(registers, index, value)
      PROVE  /\ registers' \in [RegisterIndex -> Register]
             /\ \A r \in RegisterIndex : registers'[r] % 4 = 0
  <2>1. /\ registers' \in [RegisterIndex -> Register]
        /\ \A r \in RegisterIndex :
             registers'[r] = IF r = index /\ r # 0 THEN value ELSE registers[r]
    BY <1>1, <1>3, SetRegisterFacts
  <2>. QED  BY <1>1, <1>3, <2>1
<1>4. ASSUME Iteration, Fetched.type # "OTHER"
      PROVE  Fetched.imm % 4 = 0
  BY <1>4, IterationFacts, FetchedFacts
<1>5. ASSUME Iteration, Fetched.type # "OTHER", NEW base \in Register, base % 4 = 0
      PROVE  /\ Wrap(base + Fetched.imm) \in Register
             /\ Wrap(base + Fetched.imm) % 4 = 0
             /\ ClearLowestBit(Wrap(base + Fetched.imm)) = Wrap(base + Fetched.imm)
  BY <1>4, <1>5, IterationFacts, JumpFacts
<1>6. /\ NextProgramCounter(programCounter) \in Register
      /\ NextProgramCounter(programCounter) % 4 = 0
  BY <1>1, NextCounterFacts
<1>7. CASE ExecuteLUI
  <2>1. Wrap(Fetched.imm) \in Register /\ Wrap(Fetched.imm) % 4 = 0
    BY <1>4, <1>7, IterationFacts, FetchedFacts, WrapImmediate DEF ExecuteLUI
  <2>. QED  BY <1>1, <1>2, <1>3, <1>7, <2>1, IterationFacts DEF ExecuteLUI
<1>8. CASE ExecuteAUIPC
  BY <1>1, <1>2, <1>3, <1>5, <1>8, IterationFacts DEF ExecuteAUIPC
<1>9. CASE ExecuteJAL
  BY <1>1, <1>2, <1>3, <1>5, <1>6, <1>9, IterationFacts DEF ExecuteJAL
<1>10. CASE ExecuteJALR
  <2>1. /\ registers' \in [RegisterIndex -> Register]
        /\ \A r \in RegisterIndex : registers'[r] % 4 = 0
    BY <1>3, <1>6, <1>10, IterationFacts DEF ExecuteJALR
  <2>2. registers'[Fetched.rs1] \in Register /\ registers'[Fetched.rs1] % 4 = 0
    BY <1>10, <2>1, IterationFacts DEF ExecuteJALR
  <2>. QED  BY <1>2, <1>5, <1>10, <2>1, <2>2 DEF ExecuteJALR
<1>11. CASE ExecuteBranch
  BY <1>1, <1>2, <1>5, <1>11 DEF ExecuteBranch, Branches
<1>12. CASE UNCHANGED <<programCounter, registers>>
  BY <1>1, <1>12
<1>. QED
  BY <1>7, <1>8, <1>9, <1>10, <1>11, <1>12
  DEF Next, RunStep, vars, ThrowUnsupported, ReturnFromRun, CallRun

LEMMA AlignedAlways == Spec => []Aligned
<1>1. Init => Aligned
  BY DEF Init, Aligned, PcAligned, RegistersAligned
<1>. QED  BY <1>1, AlignedStep, TypeCorrect, PTL DEF Spec

(***************************************************************************)
(* run() never fetches from the middle of an instruction if the immediates *)
(* of the program are multiples of 4 (base.hpp:155-163).                   *)
(***************************************************************************)
THEOREM AlignmentKept == Spec => [](PcAligned /\ RegistersAligned)
BY AlignedAlways, PTL DEF Aligned

(***************************************************************************)
(* Every register holds a multiple of 4, the links and the results of LUI  *)
(* and AUIPC included, if the immediates do (emulator.cpp:28-47).          *)
(***************************************************************************)
THEOREM RegistersStayAligned == Spec => []RegistersAligned
BY AlignmentKept, PTL

-----------------------------------------------------------------------------
(***************************************************************************)
(* The relocated program has the instruction of every iteration at the     *)
(* same place, with an offset that is 4 larger if it may jump.             *)
(***************************************************************************)
Jumps == Branches \union {"JAL", "JALR"}

LEMMA RelocatedLength ==
  ASSUME TypeOK
  PROVE  /\ instructions \in Seq(Instruction)
         /\ Len(Relocated(instructions)) = Len(instructions)
         /\ RelocatedIsa!InProgram <=> LoopCondition
<1>1. instructions \in Seq(Instruction)
  <2>1. << >> \in Seq(Instruction)
    OBVIOUS
  <2>2. instructions \in Programs \/ instructions = << >>
    BY DEF TypeOK
  <2>. QED  BY <2>1, <2>2, ProgramsAssumption
<1>2. Len(Relocated(instructions)) = Len(instructions)
  BY <1>1 DEF Relocated
<1>. QED
  BY <1>1, <1>2 DEF RelocatedIsa!InProgram, LoopCondition, InstructionIndex

LEMMA RelocatedCurrent ==
  ASSUME TypeOK, LoopCondition
  PROVE  LET current == RelocatedIsa!Current
         IN  /\ current.type = Fetched.type /\ current.rd = Fetched.rd
             /\ current.rs1 = Fetched.rs1 /\ current.rs2 = Fetched.rs2
             /\ current.imm = IF Fetched.type \in Jumps THEN Fetched.imm + 4
                                                      ELSE Fetched.imm
<1>1. instructions \in Seq(Instruction)
  BY RelocatedLength
<1>2. InstructionIndex + 1 \in 1 .. Len(instructions)
  BY <1>1, ModulusAssumption
  DEF LoopCondition, TypeOK, Register, InstructionIndex
<1>3. RelocatedIsa!Current
        = IF Fetched.type \in Jumps THEN [Fetched EXCEPT !.imm = @ + 4] ELSE Fetched
  BY <1>2 DEF RelocatedIsa!Current, Relocated, Fetched, InstructionIndex, Jumps
<1>4. Fetched \in Instruction
  BY FetchedFacts
<1>. QED  BY <1>3, <1>4 DEF Instruction

(***************************************************************************)
(* Adding the offset and then 4 is adding the relocated offset.            *)
(***************************************************************************)
LEMMA WrapTwice ==
  ASSUME NEW r \in Register, NEW d \in -ImmediateLimit .. ImmediateLimit - 1
  PROVE  NextProgramCounter(Wrap(r + d)) = RelocatedIsa!Reduce(r + (d + 4))
BY ModulusAssumption
DEF Register, Wrap, NextProgramCounter, RelocatedIsa!Reduce

(***************************************************************************)
(* RegisterFile::set does what the ISA says of a write to a register.      *)
(***************************************************************************)
LEMMA SetRegisterIsWritten ==
  ASSUME registers \in [RegisterIndex -> Register],
         NEW index \in RegisterIndex, NEW value \in Register
  PROVE  SetRegister(registers, index, value) = RelocatedIsa!Written(index, value)
BY SetRegisterFacts DEF RelocatedIsa!Written, RegisterIndex

(***************************************************************************)
(* An iteration of run() is a step of the ISA on the relocated program.    *)
(***************************************************************************)
LEMMA ExecuteFacts ==
  ASSUME TypeOK, Iteration, Fetched.type \in RelocatedIsa!Supported,
         registers' = RelocatedIsa!Result,
         programCounter' = RelocatedIsa!Target, programCounter' % 4 = 0,
         UNCHANGED phase
  PROVE  RelocatedIsa!Execute
<1>1. LoopCondition /\ phase = "running" /\ UNCHANGED instructions
  BY DEF Iteration
<1>2. UNCHANGED Relocated(instructions)
  BY <1>1 DEF Relocated
<1>. QED
  BY <1>1, <1>2, RelocatedLength, RelocatedCurrent
  DEF RelocatedIsa!Execute, RelocatedIsa!Executable

LEMMA RefinementStep ==
  ASSUME TypeOK, TypeOK', Aligned, Aligned', [Next]_vars,
         AlignedPrograms, BaseKeptPrograms
  PROVE  [RelocatedIsa!Next]_(RelocatedIsa!vars)
<1> USE DEF RelocatedIsa!Next
<1>1. /\ programCounter \in Register /\ registers \in [RegisterIndex -> Register]
      /\ programCounter' % 4 = 0
      /\ AlignedProgram(instructions)
  BY AllAligned DEF TypeOK, Aligned, PcAligned
<1>2. ASSUME Iteration
      PROVE  /\ LoopCondition /\ Fetched \in Instruction
             /\ Fetched.imm \in -ImmediateLimit .. ImmediateLimit - 1
             /\ Fetched.rd \in RegisterIndex /\ Fetched.rs1 \in RegisterIndex
  BY <1>2, IterationFacts, FetchedFacts
<1>3. NextProgramCounter(programCounter) = RelocatedIsa!Reduce(programCounter + 4)
  BY DEF NextProgramCounter, Wrap, RelocatedIsa!Reduce
<1>4. ASSUME NEW value \in Register, NEW index \in RegisterIndex
      PROVE  SetRegister(registers, index, value) = RelocatedIsa!Written(index, value)
  BY <1>1, SetRegisterIsWritten
<1>5. CASE ExecuteLUI
  <2>1. registers' = RelocatedIsa!Written(Fetched.rd, RelocatedIsa!Reduce(Fetched.imm))
    <3>1. Wrap(Fetched.imm) \in Register
      BY <1>2, <1>5, WrapImmediate DEF ExecuteLUI
    <3>. QED
      BY <1>2, <1>4, <1>5, <3>1 DEF ExecuteLUI, Wrap, RelocatedIsa!Reduce
  <2>2. programCounter' = RelocatedIsa!Reduce(programCounter + 4) /\ UNCHANGED phase
    BY <1>3, <1>5 DEF ExecuteLUI, ContinueLoopFrom
  <2>3. registers' = RelocatedIsa!Result /\ programCounter' = RelocatedIsa!Target
    BY <1>2, <1>5, <2>1, <2>2, RelocatedCurrent
    DEF ExecuteLUI, Jumps, Branches, RelocatedIsa!Result, RelocatedIsa!Target,
        RelocatedIsa!BranchNames
  <2>. QED
    BY <1>1, <1>5, <2>2, <2>3, ExecuteFacts DEF ExecuteLUI, RelocatedIsa!Supported
<1>6. CASE ExecuteAUIPC
  <2>1. registers' = RelocatedIsa!Written(Fetched.rd,
                       RelocatedIsa!Reduce(programCounter + Fetched.imm))
    <3>1. Wrap(programCounter + Fetched.imm) \in Register
      BY <1>1, <1>2, <1>6, JumpFacts DEF ExecuteAUIPC
    <3>. QED
      BY <1>2, <1>4, <1>6, <3>1 DEF ExecuteAUIPC, Wrap, RelocatedIsa!Reduce
  <2>2. programCounter' = RelocatedIsa!Reduce(programCounter + 4) /\ UNCHANGED phase
    BY <1>3, <1>6 DEF ExecuteAUIPC, ContinueLoopFrom
  <2>3. registers' = RelocatedIsa!Result /\ programCounter' = RelocatedIsa!Target
    BY <1>2, <1>6, <2>1, <2>2, RelocatedCurrent
    DEF ExecuteAUIPC, Jumps, Branches, RelocatedIsa!Result, RelocatedIsa!Target,
        RelocatedIsa!BranchNames
  <2>. QED
    BY <1>1, <1>6, <2>2, <2>3, ExecuteFacts DEF ExecuteAUIPC, RelocatedIsa!Supported
<1>7. CASE ExecuteJAL
  <2>1. registers' = RelocatedIsa!Written(Fetched.rd,
                       RelocatedIsa!Reduce(programCounter + 4))
    BY <1>1, <1>2, <1>3, <1>4, <1>7, NextCounterFacts DEF ExecuteJAL
  <2>2. /\ programCounter' = RelocatedIsa!Reduce(programCounter + (Fetched.imm + 4))
        /\ UNCHANGED phase
    BY <1>1, <1>2, <1>7, WrapTwice DEF ExecuteJAL, ContinueLoopFrom
  <2>3. registers' = RelocatedIsa!Result /\ programCounter' = RelocatedIsa!Target
    BY <1>2, <1>7, <2>1, <2>2, RelocatedCurrent
    DEF ExecuteJAL, Jumps, RelocatedIsa!Result, RelocatedIsa!Target
  <2>. QED
    BY <1>1, <1>7, <2>2, <2>3, ExecuteFacts DEF ExecuteJAL, RelocatedIsa!Supported
<1>8. CASE ExecuteJALR
  <2> DEFINE base == registers[Fetched.rs1]
             sum == RelocatedIsa!Reduce(base + (Fetched.imm + 4))
  <2>1. registers' = RelocatedIsa!Written(Fetched.rd,
                       RelocatedIsa!Reduce(programCounter + 4))
    BY <1>1, <1>2, <1>3, <1>4, <1>8, NextCounterFacts DEF ExecuteJALR
  <2>2. registers'[Fetched.rs1] = base
    <3>1. Fetched.rd = 0 \/ Fetched.rd # Fetched.rs1
      BY <1>2, <1>8, FetchedFacts DEF ExecuteJALR
    <3>2. NextProgramCounter(programCounter) \in Register
      BY <1>1, NextCounterFacts
    <3>3. \A r \in RegisterIndex :
            registers'[r] = IF r = Fetched.rd /\ r # 0
                            THEN NextProgramCounter(programCounter) ELSE registers[r]
      BY <1>1, <1>2, <1>8, <3>2, SetRegisterFacts DEF ExecuteJALR
    <3>. QED  BY <1>2, <1>8, <3>1, <3>3 DEF ExecuteJALR
  <2>3. base \in Register /\ base % 4 = 0 /\ Fetched.imm % 4 = 0
    BY <1>1, <1>2, <1>8, FetchedFacts DEF ExecuteJALR, Aligned, RegistersAligned
  <2> HIDE DEF base
  <2>4. ClearLowestBit(Wrap(base + Fetched.imm)) = Wrap(base + Fetched.imm)
    BY <1>2, <1>8, <2>3, JumpFacts DEF ExecuteJALR
  <2>5. programCounter' = sum /\ UNCHANGED phase
    BY <1>2, <1>8, <2>2, <2>3, <2>4, WrapTwice DEF ExecuteJALR, ContinueLoopFrom
  <2>6. sum - (sum % 2) = sum
    <3>1. sum \in Register
      BY <2>5 DEF TypeOK
    <3>. QED  BY <1>1, <2>5, <3>1, ModulusAssumption DEF Register
  <2>7. registers' = RelocatedIsa!Result /\ programCounter' = RelocatedIsa!Target
    BY <1>2, <1>8, <2>1, <2>5, <2>6, RelocatedCurrent
    DEF ExecuteJALR, Jumps, RelocatedIsa!Result, RelocatedIsa!Target, base
  <2>. QED
    BY <1>1, <1>8, <2>5, <2>7, ExecuteFacts DEF ExecuteJALR, RelocatedIsa!Supported
<1>9. CASE ExecuteBranch
  <2>1. UNCHANGED <<registers, phase>> /\ Fetched.type \in Branches
    BY <1>9 DEF ExecuteBranch, ContinueLoopFrom
  <2>2. programCounter' =
          IF BranchTaken(Fetched, registers)
          THEN RelocatedIsa!Reduce(programCounter + (Fetched.imm + 4))
          ELSE RelocatedIsa!Reduce(programCounter + 4)
    BY <1>1, <1>2, <1>3, <1>9, WrapTwice DEF ExecuteBranch, ContinueLoopFrom
  <2>3. BranchTaken(Fetched, registers)
          <=> RelocatedIsa!BranchHolds(Fetched.type, registers[Fetched.rs1],
                                       registers[Fetched.rs2])
    BY DEF BranchTaken, RelocatedIsa!BranchHolds, Signed, RelocatedIsa!AsSigned
  <2>4. registers' = RelocatedIsa!Result /\ programCounter' = RelocatedIsa!Target
    BY <1>2, <1>9, <2>1, <2>2, <2>3, RelocatedCurrent
    DEF ExecuteBranch, Jumps, Branches, RelocatedIsa!Result, RelocatedIsa!Target,
        RelocatedIsa!BranchNames
  <2>. QED
    BY <1>1, <1>9, <2>1, <2>4, ExecuteFacts
    DEF ExecuteBranch, Branches, RelocatedIsa!Supported, RelocatedIsa!BranchNames
<1>10. CASE ThrowUnsupported
  <2>1. /\ LoopCondition /\ phase = "running" /\ phase' = "failed"
        /\ UNCHANGED <<registers, programCounter, Relocated(instructions)>>
        /\ Fetched.type = "OTHER"
    BY <1>10 DEF ThrowUnsupported, Iteration, Relocated
  <2>2. RelocatedIsa!Current.type = "OTHER"
    BY <2>1, RelocatedCurrent
  <2>. QED
    BY <2>1, <2>2, RelocatedLength
    DEF RelocatedIsa!Trap, RelocatedIsa!Executable, RelocatedIsa!Supported,
        RelocatedIsa!BranchNames
<1>11. CASE ReturnFromRun
  BY <1>11, RelocatedLength DEF ReturnFromRun, Relocated, RelocatedIsa!Halt
<1>12. ASSUME NEW p \in Programs, SetInstructions(p) PROVE RelocatedIsa!Load
  BY <1>12 DEF SetInstructions, RelocatedIsa!Load
<1>13. CASE CallRun
  BY <1>13 DEF CallRun, Relocated, RelocatedIsa!Start
<1>14. CASE UNCHANGED vars
  BY <1>14 DEF vars, Relocated, RelocatedIsa!vars
<1>. QED
  BY <1>5, <1>6, <1>7, <1>8, <1>9, <1>10, <1>11, <1>12, <1>13, <1>14
  DEF Next, RunStep

(***************************************************************************)
(* On programs whose immediates are multiples of 4 and whose JALRs keep    *)
(* their base register, run() is a RISC-V hart executing the relocated     *)
(* program (emulator.cpp:15-103).                                          *)
(***************************************************************************)
THEOREM RunRefinesRelocatedIsa ==
  ASSUME AlignedPrograms, BaseKeptPrograms
  PROVE  Spec => ImplementsRelocatedIsa
<1>1. Init => RelocatedIsa!Init
  BY DEF Init, RelocatedIsa!Init, Relocated, RegisterIndex
<1>2. TypeOK /\ TypeOK' /\ Aligned /\ Aligned' /\ [Next]_vars
        => [RelocatedIsa!Next]_(RelocatedIsa!vars)
  BY RefinementStep
<1>3. Spec => [](TypeOK /\ Aligned)
  BY TypeCorrect, AlignedAlways, PTL
<1>. QED
  BY <1>1, <1>2, <1>3, PTL DEF Spec, ImplementsRelocatedIsa, RelocatedIsa!Spec

-----------------------------------------------------------------------------
(***************************************************************************)
(* The bound on the run time.  The program counter of a forward program    *)
(* has moved by at least 4 for every iteration that did not throw; that    *)
(* holds only while it does not wrap, so the program must end well below   *)
(* 2^64.                                                                   *)
(***************************************************************************)
ProgramsFit ==
  \A p \in Programs : 4 * Len(p) + ImmediateLimit + 4 =< Modulus

CyclesPaid ==
  /\ phase = "unloaded" => instructions = << >>
  /\ ForwardOnly(instructions) =>
       /\ cycleCounter =< Len(instructions)
       /\ phase # "failed" => 4 * cycleCounter =< programCounter

LEMMA IterationFits ==
  ASSUME TypeOK, ProgramsFit, LoopCondition
  PROVE  /\ Len(instructions) \in Nat
         /\ 4 * Len(instructions) + ImmediateLimit + 4 =< Modulus
         /\ programCounter < 4 * Len(instructions)
<1>1. instructions \in Seq(Instruction)
  BY RelocatedLength
<1>2. InstructionIndex >= 0 /\ programCounter < 4 * (InstructionIndex + 1)
  BY ModulusAssumption DEF TypeOK, Register, InstructionIndex
<1>3. instructions # << >>
  BY <1>2 DEF LoopCondition, TypeOK, Register, InstructionIndex
<1>4. instructions \in Programs
  BY <1>3 DEF TypeOK
<1>5. InstructionIndex + 1 =< Len(instructions) /\ Len(instructions) \in Nat
  BY <1>1, <1>2, ModulusAssumption
  DEF LoopCondition, TypeOK, Register, InstructionIndex
<1>. QED  BY <1>1, <1>2, <1>4, <1>5, ModulusAssumption
          DEF ProgramsFit, InstructionIndex, TypeOK, Register

LEMMA CyclesPaidStep ==
  ASSUME TypeOK, CyclesPaid, ProgramsFit, [Next]_vars
  PROVE  CyclesPaid'
<1>1. /\ programCounter \in Register /\ cycleCounter \in Register
  BY DEF TypeOK
<1>2. ASSUME Iteration, ForwardOnly(instructions)
      PROVE  /\ LoopCondition /\ phase = "running" /\ UNCHANGED instructions
             /\ cycleCounter' = cycleCounter + 1
             /\ cycleCounter + 1 =< Len(instructions)
             /\ 4 * cycleCounter =< programCounter
             /\ Fetched.imm \in -ImmediateLimit .. ImmediateLimit - 1
             /\ Fetched.type # "JALR"
             /\ Fetched.type \in Branches \union {"JAL"} => Fetched.imm >= 0
  <2>1. LoopCondition /\ phase = "running" /\ UNCHANGED instructions
    BY <1>2 DEF Iteration
  <2>2. 4 * cycleCounter =< programCounter
    BY <1>2, <2>1 DEF CyclesPaid
  <2>3. cycleCounter + 1 =< Len(instructions) /\ cycleCounter + 1 < Modulus
    BY <1>1, <2>1, <2>2, IterationFits, ModulusAssumption DEF Register
  <2>4. cycleCounter' = cycleCounter + 1
    BY <1>1, <1>2, <2>3, ModulusAssumption DEF Iteration, Wrap, Register
  <2>5. InstructionIndex + 1 \in 1 .. Len(instructions)
    BY <2>1, RelocatedLength, ModulusAssumption
    DEF LoopCondition, TypeOK, Register, InstructionIndex
  <2>6. /\ Fetched.type # "JALR"
        /\ Fetched.type \in Branches \union {"JAL"} => Fetched.imm >= 0
    <3>1. Fetched.type \in Branches \union {"JAL"} => Fetched.imm >= 4
      BY <1>2, <2>5 DEF ForwardOnly, Fetched
    <3>2. Fetched.type # "JALR"
      BY <1>2, <2>5 DEF ForwardOnly, Fetched
    <3>. QED  BY <2>1, <3>1, <3>2, FetchedFacts
  <2>. QED  BY <2>1, <2>2, <2>3, <2>4, <2>6, FetchedFacts
<1>3. ASSUME Iteration, NEW pc \in Int, ContinueLoopFrom(pc),
             ForwardOnly(instructions) => /\ programCounter =< pc
                                          /\ pc < programCounter + ImmediateLimit + 1
      PROVE  CyclesPaid'
  <2>1. phase' = "running"
    BY <1>3 DEF Iteration, ContinueLoopFrom
  <2>2. CASE ~ForwardOnly(instructions)
    BY <1>3, <2>1, <2>2 DEF CyclesPaid, ForwardOnly, Iteration
  <2>3. CASE ForwardOnly(instructions)
    <3>1. programCounter' = pc + 4
      BY <1>1, <1>2, <1>3, <2>3, IterationFits, ModulusAssumption
      DEF ContinueLoopFrom, NextProgramCounter, Wrap, Register
    <3>. QED  BY <1>1, <1>2, <1>3, <2>1, <2>3, <3>1 DEF CyclesPaid, Register
  <2>. QED  BY <2>2, <2>3
<1>4. ASSUME Iteration, ForwardOnly(instructions), Fetched.imm >= 0
      PROVE  Wrap(programCounter + Fetched.imm) = programCounter + Fetched.imm
  BY <1>1, <1>2, <1>4, IterationFits, ModulusAssumption DEF Wrap, Register
<1>5. ASSUME Iteration
      PROVE  Wrap(programCounter + Fetched.imm) \in Int
  BY <1>1, <1>5, IterationFacts, JumpFacts DEF Register
<1>6. CASE ExecuteLUI \/ ExecuteAUIPC
  BY <1>1, <1>3, <1>6, ModulusAssumption DEF ExecuteLUI, ExecuteAUIPC, Register
<1>7. CASE ExecuteJAL
  BY <1>1, <1>2, <1>3, <1>4, <1>5, <1>7, ModulusAssumption DEF ExecuteJAL, Register
<1>8. CASE ExecuteJALR
  <2>1. ~ForwardOnly(instructions) /\ Iteration /\ UNCHANGED phase
    BY <1>2, <1>8 DEF ExecuteJALR, ContinueLoopFrom
  <2>. QED  BY <2>1 DEF CyclesPaid, ForwardOnly, Iteration
<1>9. CASE ExecuteBranch
  <2>1. CASE BranchTaken(Fetched, registers)
    BY <1>1, <1>2, <1>3, <1>4, <1>5, <1>9, <2>1, ModulusAssumption
    DEF ExecuteBranch, Register
  <2>2. CASE ~BranchTaken(Fetched, registers)
    BY <1>1, <1>3, <1>9, <2>2, ModulusAssumption DEF ExecuteBranch, Register
  <2>. QED  BY <2>1, <2>2
<1>10. CASE ThrowUnsupported
  BY <1>2, <1>10 DEF ThrowUnsupported, Iteration, CyclesPaid, ForwardOnly
<1>11. CASE ReturnFromRun
  BY <1>11 DEF ReturnFromRun, CyclesPaid, ForwardOnly
<1>12. ASSUME NEW p \in Programs, SetInstructions(p) PROVE CyclesPaid'
  <2>1. cycleCounter =< 0 /\ 4 * cycleCounter =< programCounter
    BY <1>1, <1>12 DEF SetInstructions, CyclesPaid, ForwardOnly, Register
  <2>2. Len(p) \in Nat
    BY <1>12, ProgramsAssumption
  <2>. QED  BY <1>1, <1>12, <2>1, <2>2 DEF SetInstructions, CyclesPaid, Register
<1>13. CASE CallRun
  BY <1>13 DEF CallRun, CyclesPaid, ForwardOnly
<1>14. CASE UNCHANGED vars
  BY <1>14 DEF vars, CyclesPaid, ForwardOnly
<1>. QED
  BY <1>6, <1>7, <1>8, <1>9, <1>10, <1>11, <1>12, <1>13, <1>14
  DEF Next, RunStep

(***************************************************************************)
(* A program that jumps forward only, and not through registers, costs at  *)
(* most one iteration per instruction, over all the calls of run().        *)
(***************************************************************************)
THEOREM RunTime ==
  ASSUME ProgramsFit
  PROVE  Spec => []RunTimeBounded
<1>1. Init => CyclesPaid
  BY DEF Init, CyclesPaid
<1>2. TypeOK /\ CyclesPaid /\ [Next]_vars => CyclesPaid'
  BY CyclesPaidStep
<1>3. CyclesPaid => RunTimeBounded
  BY DEF CyclesPaid, RunTimeBounded
<1>. QED  BY <1>1, <1>2, <1>3, TypeCorrect, PTL DEF Spec
=============================================================================
