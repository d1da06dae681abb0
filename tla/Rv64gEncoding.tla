---------------------------- MODULE Rv64gEncoding ----------------------------
(***************************************************************************)
(* The instruction encodings of RV64G as the RISC-V unprivileged ISA       *)
(* manual lists them.  This is the reference the decoder is compared with; *)
(* it is not a translation of any source file.  Instructions have the      *)
(* names of Instruction::Type.                                             *)
(*                                                                         *)
(* A word is the set of the positions of its 1 bits.  A row of the listing *)
(* is a name, a format and the fields of fixed value: <<first, last,       *)
(* value>>.                                                                *)
(***************************************************************************)
EXTENDS Integers

Row(type, format, fixed) == [type |-> type, format |-> format, fixed |-> fixed]

Op(value) == <<0, 6, value>>
Funct3(value) == <<12, 14, value>>
Funct7(value) == <<25, 31, value>>
Rs2(value) == <<20, 24, value>>

U(type, op) == Row(type, "U", {Op(op)})
J(type, op) == Row(type, "J", {Op(op)})
I(type, op, funct3) == Row(type, "I", {Op(op), Funct3(funct3)})
S(type, op, funct3) == Row(type, "S", {Op(op), Funct3(funct3)})
B(type, funct3) == Row(type, "B", {Op(99), Funct3(funct3)})
R(type, op, funct3, funct7) ==
  Row(type, "R", {Op(op), Funct3(funct3), Funct7(funct7)})
\* Shifts by an immediate: 6 bits of amount in OP-IMM, 5 in OP-IMM-32
Shift6(type, funct3, funct6) ==
  Row(type, "Shift6", {Op(19), Funct3(funct3), <<26, 31, funct6>>})
Shift5(type, funct3, funct7) ==
  Row(type, "Shift5", {Op(27), Funct3(funct3), Funct7(funct7)})
Fence(type, funct3) == Row(type, "Fence", {Op(15), Funct3(funct3)})
Env(type, number) == Row(type, "Env", {<<0, 19, 115>>, <<20, 31, number>>})
Csr(type, funct3) == Row(type, "Csr", {Op(115), Funct3(funct3)})
\* Atomic operations carry acquire and release bits; LR has no second source.
A(type, funct5, funct3) ==
  Row(type, "A", {Op(47), Funct3(funct3), <<27, 31, funct5>>}
                   \union (IF funct5 = 2 THEN {Rs2(0)} ELSE {}))
\* Floating point: with three sources; with a rounding mode; with a funct3;
\* with a rounding mode and one source; with a funct3 and one source
FR4(type, op, format) == Row(type, "R4", {Op(op), <<25, 26, format>>})
FR(type, funct7) == Row(type, "FR", {Op(83), Funct7(funct7)})
FR3(type, funct7, funct3) ==
  Row(type, "FR", {Op(83), Funct7(funct7), Funct3(funct3)})
FR1(type, funct7, rs2) ==
  Row(type, "FR", {Op(83), Funct7(funct7), Rs2(rs2)})
FRU(type, funct7, funct3) ==
  Row(type, "FR", {Op(83), Funct7(funct7), Funct3(funct3), Rs2(0)})

-----------------------------------------------------------------------------
BaseInstructions ==
  {U("LUI", 55), U("AUIPC", 23), J("JAL", 111), I("JALR", 103, 0),
   B("BEQ", 0), B("BNE", 1), B("BLT", 4), B("BGE", 5), B("BLTU", 6),
   B("BGEU", 7), I("LB", 3, 0), I("LH", 3, 1), I("LW", 3, 2),
   I("LD", 3, 3), I("LBU", 3, 4), I("LHU", 3, 5), I("LWU", 3, 6),
   S("SB", 35, 0), S("SH", 35, 1), S("SW", 35, 2), S("SD", 35, 3),
   I("ADDI", 19, 0), I("SLTI", 19, 2), I("SLTIU", 19, 3),
   I("XORI", 19, 4), I("ORI", 19, 6), I("ANDI", 19, 7),
   Shift6("SLLI", 1, 0), Shift6("SRLI", 5, 0), Shift6("SRAI", 5, 16),
   I("ADDIW", 27, 0), Shift5("SLLIW", 1, 0), Shift5("SRLIW", 5, 0),
   Shift5("SRAIW", 5, 32), R("ADD", 51, 0, 0), R("SUB", 51, 0, 32),
   R("SLL", 51, 1, 0), R("SLT", 51, 2, 0), R("SLTU", 51, 3, 0),
   R("XOR", 51, 4, 0), R("SRL", 51, 5, 0), R("SRA", 51, 5, 32),
   R("OR", 51, 6, 0), R("AND", 51, 7, 0), R("ADDW", 59, 0, 0),
   R("SUBW", 59, 0, 32), R("SLLW", 59, 1, 0), R("SRLW", 59, 5, 0),
   R("SRAW", 59, 5, 32), Fence("FENCE", 0), Env("ECALL", 0),
   Env("EBREAK", 1), I("FENCEI", 15, 1), Csr("CSRRW", 1), Csr("CSRRS", 2),
   Csr("CSRRC", 3), Csr("CSRRWI", 5), Csr("CSRRSI", 6), Csr("CSRRCI", 7)}

MultiplyInstructions ==
  {R("MUL", 51, 0, 1), R("MULH", 51, 1, 1), R("MULHSU", 51, 2, 1),
   R("MULHU", 51, 3, 1), R("DIV", 51, 4, 1), R("DIVU", 51, 5, 1),
   R("REM", 51, 6, 1), R("REMU", 51, 7, 1), R("MULW", 59, 0, 1),
   R("DIVW", 59, 4, 1), R("DIVUW", 59, 5, 1), R("REMW", 59, 6, 1),
   R("REMUW", 59, 7, 1)}

AtomicInstructions ==
  {A("LRW", 2, 2), A("SCW", 3, 2), A("AMOSWAPW", 1, 2),
   A("AMOADDW", 0, 2), A("AMOXORW", 4, 2), A("AMOANDW", 12, 2),
   A("AMOORW", 8, 2), A("AMOMINW", 16, 2), A("AMOMAXW", 20, 2),
   A("AMOMINUW", 24, 2), A("AMOMAXUW", 28, 2), A("LRD", 2, 3),
   A("SCD", 3, 3), A("AMOSWAPD", 1, 3), A("AMOADDD", 0, 3),
   A("AMOXORD", 4, 3), A("AMOANDD", 12, 3), A("AMOORD", 8, 3),
   A("AMOMIND", 16, 3), A("AMOMAXD", 20, 3), A("AMOMINUD", 24, 3),
   A("AMOMAXUD", 28, 3)}

SingleInstructions ==
  {I("FLW", 7, 2), S("FSW", 39, 2), FR4("FMADDS", 67, 0),
   FR4("FMSUBS", 71, 0), FR4("FNMSUBS", 75, 0), FR4("FNMADDS", 79, 0),
   FR("FADDS", 0), FR("FSUBS", 4), FR("FMULS", 8), FR("FDIVS", 12),
   FR1("FSQRTS", 44, 0), FR3("FSGNJS", 16, 0), FR3("FSGNJNS", 16, 1),
   FR3("FSGNJXS", 16, 2), FR3("FMINS", 20, 0), FR3("FMAXS", 20, 1),
   FR3("FEQS", 80, 2), FR3("FLTS", 80, 1), FR3("FLES", 80, 0),
   FRU("FCLASSS", 112, 1), FR1("FCVTWS", 96, 0), FR1("FCVTSW", 104, 0),
   FR1("FCVTWUS", 96, 1), FR1("FCVTSWU", 104, 1), FR1("FCVTLS", 96, 2),
   FR1("FCVTSL", 104, 2), FR1("FCVTLUS", 96, 3), FR1("FCVTSLU", 104, 3),
   FRU("FMVXW", 112, 0), FRU("FMVWX", 120, 0), FR1("FCVTSD", 32, 1)}

DoubleInstructions ==
  {I("FLD", 7, 3), S("FSD", 39, 3), FR4("FMADDD", 67, 1),
   FR4("FMSUBD", 71, 1), FR4("FNMSUBD", 75, 1), FR4("FNMADDD", 79, 1),
   FR("FADDD", 1), FR("FSUBD", 5), FR("FMULD", 9), FR("FDIVD", 13),
   FR1("FSQRTD", 45, 0), FR3("FSGNJD", 17, 0), FR3("FSGNJND", 17, 1),
   FR3("FSGNJXD", 17, 2), FR3("FMIND", 21, 0), FR3("FMAXD", 21, 1),
   FR3("FEQD", 81, 2), FR3("FLTD", 81, 1), FR3("FLED", 81, 0),
   FRU("FCLASSD", 113, 1), FR1("FCVTWD", 97, 0), FR1("FCVTDW", 105, 0),
   FR1("FCVTWUD", 97, 1), FR1("FCVTDWU", 105, 1), FR1("FCVTLD", 97, 2),
   FR1("FCVTDL", 105, 2), FR1("FCVTLUD", 97, 3), FR1("FCVTDLU", 105, 3),
   FRU("FMVXD", 113, 0), FRU("FMVDX", 121, 0), FR1("FCVTDS", 33, 0)}


Listing ==
  UNION {BaseInstructions, MultiplyInstructions, AtomicInstructions,
         SingleInstructions, DoubleInstructions}

-----------------------------------------------------------------------------
Bit(value, b) == (value \div 2 ^ b) % 2

FieldIs(word, field) ==
  \A b \in field[1] .. field[2] :
    b \in word <=> Bit(field[3], b - field[1]) = 1

Matches(word, row) == \A field \in row.fixed : FieldIs(word, field)

\* The instructions a word encodes, at most one: FENCE.TSO and PAUSE are
\* particular FENCEs.
Encodes(word) == {row \in Listing : Matches(word, row)}

\* The register number in the five bits from first on
RegisterAt(word, first) ==
  CHOOSE value \in 0 .. 31 : FieldIs(word, <<first, first + 4, value>>)

(***************************************************************************)
(* The figure of the immediates: which bit of the word bit b of the        *)
(* immediate is; -1 if it is 0.                                            *)
(***************************************************************************)
ImmediateBit(format, b) ==
  CASE format = "I" -> IF b =< 10 THEN b + 20 ELSE 31
    [] format = "S" -> IF b =< 4 THEN b + 7 ELSE IF b =< 10 THEN b + 20 ELSE 31
    [] format = "B" -> IF b = 0 THEN -1 ELSE IF b =< 4 THEN b + 7
                       ELSE IF b =< 10 THEN b + 20 ELSE IF b = 11 THEN 7 ELSE 31
    [] format = "U" -> IF b =< 11 THEN -1 ELSE b
    [] format = "J" -> IF b = 0 THEN -1 ELSE IF b =< 10 THEN b + 20
                       ELSE IF b = 11 THEN 20 ELSE IF b =< 19 THEN b ELSE 31
    [] format \in {"Csr", "Fence"} -> IF b =< 11 THEN b + 20 ELSE -1
    [] format = "Shift6" -> IF b =< 5 THEN b + 20 ELSE -1
    [] format = "Shift5" -> IF b =< 4 THEN b + 20 ELSE -1
    [] format = "A"  -> IF b =< 1 THEN b + 25 ELSE -1
    [] format = "FR" -> IF b =< 2 THEN b + 12 ELSE -1
    [] format = "R4" -> IF b =< 2 THEN b + 12
                        ELSE IF b \in 8 .. 12 THEN b + 19 ELSE -1
    [] OTHER -> -1

\* The immediate; for floating point the rounding mode and, from bit 8, the
\* third source register.
ImmediateOf(format, word) == {b \in 0 .. 31 : ImmediateBit(format, b) \in word}

HasDestination(format) == format \notin {"S", "B", "Env"}
HasSource1(format) == format \notin {"U", "J", "Env"}
HasSource2(format) == format \in {"R", "S", "B", "A", "FR", "R4"}

\* Two FENCEs have names of their own.
FenceType(word) ==
  LET fence == ImmediateOf("Fence", word)
  IN  CASE fence = {11} \union {5, 4} \union {1, 0} -> "FENCETSO"
        [] fence = {4} -> "PAUSE"
        [] OTHER -> "FENCE"

\* The instruction the listing says word is.
Meaning(row, word) ==
  [type |-> IF row.format = "Fence" THEN FenceType(word) ELSE row.type,
   immediate |-> ImmediateOf(row.format, word),
   rd  |-> IF HasDestination(row.format) THEN RegisterAt(word, 7) ELSE 0,
   rs1 |-> IF HasSource1(row.format) THEN RegisterAt(word, 15) ELSE 0,
   rs2 |-> IF HasSource2(row.format) THEN RegisterAt(word, 20) ELSE 0]
=============================================================================
