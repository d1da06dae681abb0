------------------------- MODULE DecoderProperties -------------------------
(***************************************************************************)
(* What decodeInstructions makes of RV64G programs, compared with the      *)
(* listing of the ISA.                                                     *)
(***************************************************************************)
EXTENDS Decoder

Rv64g == INSTANCE Rv64gEncoding

\* The i-th word of the program
WordAt(i) == loadU(program, 4 * (i - 1) + 1, 4)

Rejected == outcome \in {Unknown.type, UnknownPointer.type}

(***************************************************************************)
(* Where the decoder is known to differ: FSQRT is expected under the       *)
(* funct7 of FDIV and with rs2 = 0, so FSQRT is unknown and a division by  *)
(* f0 becomes a square root (instruction.cpp:829-834); FCVT.D.S is         *)
(* expected with the rs2 of FCVT.S.D (instruction.cpp:869-879).            *)
(***************************************************************************)
Misplaced(row, word) ==
  \/ row.type \in {"FSQRTS", "FSQRTD", "FCVTDS"}
  \/ row.type \in {"FDIVS", "FDIVD"} /\ Rv64g!RegisterAt(word, 20) = 0

\* decodeSystem drops the CSR number (instruction.cpp:552-553).
WithoutCsrNumber(row, instr) ==
  IF row.format = "Csr" THEN [instr EXCEPT !.immediate = {}] ELSE instr

-----------------------------------------------------------------------------
\* Types of the decoder's state.
TypeOK ==
  /\ programOffset \in 0 .. Len(program) /\ programOffset % 4 = 0
  /\ Len(instructions) = programOffset \div 4
  /\ \A i \in 1 .. Len(instructions) :
       /\ instructions[i].immediate \in Immediate
       /\ {instructions[i].rd, instructions[i].rs1, instructions[i].rs2} \subseteq 0 .. 31

\* Every word of the program that the listing knows becomes, at its place in
\* the vector, the instruction the listing says, with its registers,
\* immediate, rounding mode and ordering bits; the misplaced instructions and
\* CSR numbers excepted (instruction.cpp:93-1064).
Rv64gDecoded ==
  \A i \in 1 .. Len(instructions) :
    \A row \in Rv64g!Encodes(WordAt(i)) :
      Misplaced(row, WordAt(i))
        \/ instructions[i] = WithoutCsrNumber(row, Rv64g!Meaning(row, WordAt(i)))

\* No word that the listing knows is rejected, the misplaced ones excepted
\* (the default labels of instruction.cpp:182-1063).
Rv64gAccepted ==
  Rejected => \A row \in Rv64g!Encodes(CurrentWord) : Misplaced(row, CurrentWord)

(***************************************************************************)
(* Words outside the listing that are accepted all the same, because the   *)
(* switches test fewer bits than the listing fixes.                        *)
(***************************************************************************)
UntestedBits(type) ==
  CASE type = "JALR" -> 12 .. 14                          \* funct3
    [] type \in {"SLLI", "SRLI", "SRAI"} -> (26 .. 31) \ {30}
    [] type \in {"SLLIW", "SRLIW", "SRAIW"} -> (25 .. 31) \ {30}
    [] type \in {"ECALL", "EBREAK"} -> 7 .. 19 \ (12 .. 14)
    [] type \in {"LRW", "LRD", "FCLASSS", "FCLASSD", "FMVXW", "FMVXD",
                 "FMVWX", "FMVDX", "FCVTDS"} -> 20 .. 24   \* rs2
    [] OTHER -> {}

\* A word outside the listing is decoded only as the listed instruction that
\* differs from it in the bits the decoder does not test; for a left shift
\* bit 30 is one of them.
OnlyUntestedBitsIgnored ==
  \A i \in 1 .. Len(instructions) :
    LET type == instructions[i].type
        tested == (0 .. 31) \ (UntestedBits(type)
                     \union IF type \in {"SLLI", "SLLIW"} THEN {30} ELSE {})
    IN  \/ Rv64g!Encodes(WordAt(i)) # {}
        \/ \E row \in Rv64g!Encodes(WordAt(i) \intersect tested) : row.type = type

\* The offsets of branches and JAL are even, which is what keeps the program
\* counter even in run() (Emulator: ProgramsAssumption), and the immediates
\* of LUI and AUIPC are multiples of 4096 (instruction.cpp:105-128).
OffsetsEven ==
  \A i \in 1 .. Len(instructions) :
    /\ instructions[i].type \in {"JAL", "BEQ", "BNE", "BLT", "BGE", "BLTU", "BGEU"}
         => 0 \notin instructions[i].immediate
    /\ instructions[i].type \in {"LUI", "AUIPC"}
         => instructions[i].immediate \intersect (0 .. 11) = {}

-----------------------------------------------------------------------------
\* "This contains all RV64G instructions" (instruction.hpp:33) and
\* "[X] Instruction decoding" (README.md:17): no word of the listing is
\* rejected or decoded as another instruction.
AllRv64gDecoded ==
  /\ Rejected => Rv64g!Encodes(CurrentWord) = {}
  /\ \A i \in 1 .. Len(instructions) :
       \A row \in Rv64g!Encodes(WordAt(i)) :
         instructions[i].type = Rv64g!Meaning(row, WordAt(i)).type

\* A Zicsr instruction keeps the number of the register it accesses
\* (README.md:17, "[X] Instruction decoding").
CsrNumberKept ==
  \A i \in 1 .. Len(instructions) :
    \A row \in Rv64g!Encodes(WordAt(i)) :
      row.format = "Csr"
        => instructions[i].immediate = Rv64g!ImmediateOf("Csr", WordAt(i))

\* What leaves decodeInstructions is an exception that SDL_AppInit catches
\* and reports as "Error on startup" (main.cpp:25-28).
ExceptionsCatchable == outcome # UnknownPointer.type
=============================================================================
