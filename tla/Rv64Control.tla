---------------------------- MODULE Rv64Control ----------------------------
(***************************************************************************)
(* What the RISC-V unprivileged ISA requires of the ten instructions that  *)
(* Emulator::run executes (LUI, AUIPC, JAL, JALR and the six conditional   *)
(* branches) on a hart without the compressed extension.  This is the      *)
(* abstract specification the interpreter is compared with; it is not a    *)
(* translation of any source file.                                         *)
(*                                                                         *)
(* A register holds a number in 0 .. Modulus - 1, Modulus being 2^64.      *)
(***************************************************************************)
EXTENDS Integers, Sequences

CONSTANTS
  Modulus,        \* 2^XLEN
  RegisterCount   \* number of integer registers

VARIABLES
  x,        \* the integer registers
  pc,       \* the program counter, a byte address
  program,  \* the instructions, one per 4 bytes of code
  mode      \* "unloaded", "idle" (host has control), "running", "failed"

vars == <<x, pc, program, mode>>

\* Reduction modulo 2^XLEN of the sum of a register and a short offset.
Reduce(n) == IF n >= Modulus THEN n - Modulus
             ELSE IF n < 0 THEN n + Modulus ELSE n

\* The two's complement reading of a register.
AsSigned(r) == IF 2 * r < Modulus THEN r ELSE r - Modulus

InProgram == pc \div 4 < Len(program)

Current == program[pc \div 4 + 1]

\* Register 0 is hard-wired to zero.
Written(rd, value) == [r \in 0 .. RegisterCount - 1 |->
                         IF r = rd /\ r # 0 THEN value ELSE x[r]]

BranchHolds(type, a, b) ==
  \/ type = "BEQ"  /\ a = b
  \/ type = "BNE"  /\ a # b
  \/ type = "BLT"  /\ AsSigned(a) < AsSigned(b)
  \/ type = "BGE"  /\ AsSigned(a) >= AsSigned(b)
  \/ type = "BLTU" /\ a < b
  \/ type = "BGEU" /\ a >= b

BranchNames == {"BEQ", "BNE", "BLT", "BGE", "BLTU", "BGEU"}

Supported == {"LUI", "AUIPC", "JAL", "JALR"} \union BranchNames

\* Where control goes after the current instruction.  JALR reads its base
\* register before the link is written and clears the lowest bit of the sum.
Target ==
  LET i == Current
      sum == Reduce(x[i.rs1] + i.imm)
  IN  IF i.type = "JAL" THEN Reduce(pc + i.imm)
      ELSE IF i.type = "JALR" THEN sum - (sum % 2)
      ELSE IF i.type \in BranchNames /\ BranchHolds(i.type, x[i.rs1], x[i.rs2])
           THEN Reduce(pc + i.imm)
      ELSE Reduce(pc + 4)

\* The registers after the current instruction.
Result ==
  LET i == Current
  IN  IF i.type = "LUI" THEN Written(i.rd, Reduce(i.imm))
      ELSE IF i.type = "AUIPC" THEN Written(i.rd, Reduce(pc + i.imm))
      ELSE IF i.type \in {"JAL", "JALR"} THEN Written(i.rd, Reduce(pc + 4))
      ELSE x

\* Without compressed instructions a transfer of control to an address that
\* is not a multiple of 4 is an exception.
Executable == Current.type \in Supported /\ Target % 4 = 0

Execute ==
  /\ mode = "running" /\ InProgram
  /\ Executable
  /\ x' = Result
  /\ pc' = Target
  /\ UNCHANGED <<program, mode>>

Trap ==
  /\ mode = "running" /\ InProgram
  /\ ~Executable
  /\ mode' = "failed"
  /\ UNCHANGED <<x, pc, program>>

\* The loader hands over some program.
Load == mode = "unloaded" /\ mode' = "idle" /\ UNCHANGED <<x, pc>>

Start == mode = "idle" /\ mode' = "running" /\ UNCHANGED <<x, pc, program>>

\* Control leaves the program: the host gets it back.
Halt ==
  /\ mode = "running" /\ ~InProgram
  /\ mode' = "idle"
  /\ UNCHANGED <<x, pc, program>>

Init ==
  /\ x = [r \in 0 .. RegisterCount - 1 |-> 0]
  /\ pc = 0
  /\ program = << >>
  /\ mode = "unloaded"

Next == Load \/ Start \/ Execute \/ Trap \/ Halt

Spec == Init /\ [][Next]_vars

=============================================================================
