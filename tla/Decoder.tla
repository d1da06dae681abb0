------------------------------ MODULE Decoder ------------------------------
(***************************************************************************)
(* decodeInstructions (src/riscv/instruction.cpp): from the bytes of the   *)
(* code segments to the vector of instructions that Emulator::run executes.*)
(*                                                                         *)
(* Each decodeX below is the C++ function of that name as a function of    *)
(* the encoded word; its switch statements are tables from the value of a  *)
(* field to the instruction type.  A value that is in no table reaches a   *)
(* `default' label, which throws.                                          *)
(***************************************************************************)
EXTENDS MachineWords, Sequences

CONSTANT Programs  \* byte sequences given to decodeInstructions

ASSUME ProgramsAssumption == Programs \subseteq Seq(Byte)

(***************************************************************************)
(* struct Instruction.  The union of `immediate' and `floatOp' is one word:*)
(* roundingMode is its lowest byte, sourceRegister3 the next one.          *)
(***************************************************************************)
NewInstruction ==
  [type |-> "LUI", immediate |-> {}, rd |-> 0, rs1 |-> 0, rs2 |-> 0]

Immediate == Word(32)

\* The number a field of at most 7 bits stands for
Number == [field \in Word(7) |->
  LET Digit(b) == IF b \in field THEN 2 ^ b ELSE 0
  IN  Digit(0) + Digit(1) + Digit(2) + Digit(3) + Digit(4) + Digit(5) + Digit(6)]

Bits(encoded, firstBit, lastBit) == getBits(encoded, firstBit, lastBit, 32)

getOpcode(encoded) == Number[Bits(encoded, 0, 6)]
getFunct3(encoded) == Number[Bits(encoded, 12, 14)]
getFunct7(encoded) == Number[Bits(encoded, 25, 31)]
getDestinationRegister(encoded) == Number[Bits(encoded, 7, 11)]
getSourceRegister1(encoded) == Number[Bits(encoded, 15, 19)]
getSourceRegister2(encoded) == Number[Bits(encoded, 20, 24)]

-----------------------------------------------------------------------------
\* Immediates

Shifted(value, amount) == ShiftLeft(value, amount, 32)

getImmediateI(encoded) == signExtend(Bits(encoded, 20, 31), 11, 32)

getImmediateS(encoded) ==
  signExtend(Bits(encoded, 7, 11) \union Shifted(Bits(encoded, 25, 31), 5), 11, 32)

\* mutant: bits 7 and 31 swapped
ImmediateBSwapped(encoded) ==
  signExtend(Shifted(Bits(encoded, 8, 11), 1)
               \union Shifted(Bits(encoded, 25, 30), 5)
               \union Shifted(Bits(encoded, 31, 31), 11)
               \union Shifted(Bits(encoded, 7, 7), 12), 12, 32)

getImmediateB(encoded) ==
  signExtend(Shifted(Bits(encoded, 8, 11), 1)
               \union Shifted(Bits(encoded, 25, 30), 5)
               \union Shifted(Bits(encoded, 7, 7), 11)
               \union Shifted(Bits(encoded, 31, 31), 12), 12, 32)

getImmediateU(encoded) == Shifted(Bits(encoded, 12, 31), 12)

\* mutant: the field is not moved over bit 0
ImmediateJUnshifted(encoded) ==
  signExtend(Bits(encoded, 21, 30)
               \union Shifted(Bits(encoded, 20, 20), 11)
               \union Shifted(Bits(encoded, 12, 19), 12)
               \union Shifted(Bits(encoded, 31, 31), 20), 20, 32)

getImmediateJ(encoded) ==
  signExtend(Shifted(Bits(encoded, 21, 30), 1)
               \union Shifted(Bits(encoded, 20, 20), 11)
               \union Shifted(Bits(encoded, 12, 19), 12)
               \union Shifted(Bits(encoded, 31, 31), 20), 20, 32)

-----------------------------------------------------------------------------
\* The fields of the formats, in an instruction that is new otherwise

readFieldsR(encoded) ==
  [NewInstruction EXCEPT !.rs1 = getSourceRegister1(encoded),
                         !.rs2 = getSourceRegister2(encoded),
                         !.rd = getDestinationRegister(encoded)]

readFieldsI(encoded) ==
  [NewInstruction EXCEPT !.rs1 = getSourceRegister1(encoded),
                         !.rd = getDestinationRegister(encoded),
                         !.immediate = getImmediateI(encoded)]

readFieldsS(encoded) ==
  [NewInstruction EXCEPT !.rs1 = getSourceRegister1(encoded),
                         !.rs2 = getSourceRegister2(encoded),
                         !.immediate = getImmediateS(encoded)]

readFieldsB(encoded) ==
  [NewInstruction EXCEPT !.rs1 = getSourceRegister1(encoded),
                         !.rs2 = getSourceRegister2(encoded),
                         !.immediate = getImmediateB(encoded)]

readFieldsU(encoded) ==
  [NewInstruction EXCEPT !.rd = getDestinationRegister(encoded),
                         !.immediate = getImmediateU(encoded)]

readFieldsJ(encoded) ==
  [NewInstruction EXCEPT !.rd = getDestinationRegister(encoded),
                         !.immediate = getImmediateJ(encoded)]

-----------------------------------------------------------------------------
(***************************************************************************)
(* Outcomes other than an instruction.  `throw UnknownInstructionException'*)
(* throws the exception; one place throws a pointer to it (throw new).     *)
(***************************************************************************)
Unknown == [type |-> "UnknownInstructionException"]
UnknownPointer == [type |-> "UnknownInstructionException *"]
Exceptions == {Unknown, UnknownPointer}

\* A switch over a field value whose first labels are types[1], types[2] ...;
\* "-" where the value has no label.
Labelled(types, value) == value + 1 \in DOMAIN types /\ types[value + 1] # "-"

Switch(types, value, instr, default) ==
  IF Labelled(types, value) THEN [instr EXCEPT !.type = types[value + 1]]
                            ELSE default

decodeBranch(encoded) ==
  Switch(<<"BEQ", "BNE", "-", "-", "BLT", "BGE", "BLTU", "BGEU">>,
         getFunct3(encoded), readFieldsB(encoded), Unknown)

\* mutant: no label 0b110
LoadWithoutLWU(encoded) ==
  Switch(<<"LB", "LH", "LW", "LD", "LBU", "LHU">>,
         getFunct3(encoded), readFieldsI(encoded), Unknown)

decodeLoad(encoded) ==
  Switch(<<"LB", "LH", "LW", "LD", "LBU", "LHU", "LWU">>,
         getFunct3(encoded), readFieldsI(encoded), Unknown)

\* mutant: the highest bit of funct3 is not tested
StoreFunct3LowBits(encoded) ==
  Switch(<<"SB", "SH", "SW", "SD">>,
         getFunct3(encoded) % 4, readFieldsS(encoded), Unknown)

decodeStore(encoded) ==
  Switch(<<"SB", "SH", "SW", "SD">>,
         getFunct3(encoded), readFieldsS(encoded), Unknown)

\* Label 0b101 of OP-IMM and OP-IMM-32: bit 10 tells the shifts apart and is
\* not part of the shift amount.
RightShift(instr, arithmetic, logical) ==
  IF hasBit(instr.immediate, 10)
  THEN [instr EXCEPT !.immediate = clearBit(@, 10), !.type = arithmetic]
  ELSE [instr EXCEPT !.type = logical]

decodeOpImm(encoded) ==
  LET funct3 == getFunct3(encoded)
      instr  == readFieldsI(encoded)
  IN  IF funct3 = 5 THEN RightShift(instr, "SRAI", "SRLI")
      ELSE Switch(<<"ADDI", "SLLI", "SLTI", "SLTIU", "XORI", "-", "ORI", "ANDI">>,
                  funct3, instr, Unknown)

decodeOpImm32(encoded) ==
  LET funct3 == getFunct3(encoded)
      instr  == readFieldsI(encoded)
  IN  IF funct3 = 5 THEN RightShift(instr, "SRAIW", "SRLIW")
      ELSE Switch(<<"ADDIW", "SLLIW">>, funct3, instr, Unknown)

\* Switches whose cases are switches again: a table has a row for each case,
\* which starts with the value of the label.
HasCase(table, value) == \E row \in table : row[1] = value
CaseOf(table, value) == CHOOSE row \in table : row[1] = value

\* A switch over funct7 whose cases are switches over funct3
SwitchFunct7(table, encoded) ==
  LET funct7 == getFunct7(encoded)
  IN  IF HasCase(table, funct7)
      THEN Switch(CaseOf(table, funct7)[2], getFunct3(encoded), readFieldsR(encoded),
                  Unknown)
      ELSE Unknown

OpTypes ==
  {<<0,  <<"ADD", "SLL", "SLT", "SLTU", "XOR", "SRL", "OR", "AND">>>>,
   <<32, <<"SUB", "-", "-", "-", "-", "SRA">>>>,
   <<1,  <<"MUL", "MULH", "MULHSU", "MULHU", "DIV", "DIVU", "REM", "REMU">>>>}

decodeOp(encoded) == SwitchFunct7(OpTypes, encoded)

Op32Types ==
  {<<0,  <<"ADDW", "SLLW", "-", "-", "-", "SRLW">>>>,
   <<32, <<"SUBW", "-", "-", "-", "-", "SRAW">>>>,
   <<1,  <<"MULW", "-", "-", "-", "DIVW", "DIVUW", "REMW", "REMUW">>>>}

decodeOp32(encoded) == SwitchFunct7(Op32Types, encoded)

decodeMiscMem(encoded) ==
  LET funct3 == getFunct3(encoded)
      fields == readFieldsI(encoded)
      instr  == [fields EXCEPT !.immediate = @ \intersect oneBits(12)]
  IN  IF funct3 = 0
      THEN [instr EXCEPT !.type = CASE instr.immediate = {0, 1, 4, 5, 11} -> "FENCETSO"
                                    [] instr.immediate = {4} -> "PAUSE"
                                    [] OTHER -> "FENCE"]
      ELSE Switch(<<"-", "FENCEI">>, funct3, fields, Unknown)

\* The immediate is set to 0 before the switch.
decodeSystem(encoded) ==
  LET funct3    == getFunct3(encoded)
      immediate == getImmediateI(encoded)
      instr     == [readFieldsI(encoded) EXCEPT !.immediate = {}]
  IN  IF funct3 = 0
      THEN CASE immediate = {}  -> [instr EXCEPT !.type = "ECALL"]
             [] immediate = {0} -> [instr EXCEPT !.type = "EBREAK"]
             [] OTHER -> Unknown
      ELSE Switch(<<"-", "CSRRW", "CSRRS", "CSRRC", "-", "CSRRWI", "CSRRSI", "CSRRCI">>,
                  funct3, instr, Unknown)

\* The operations of decodeAMO by funct5; the word (W) and doubleword (D)
\* variant of each.
AmoTypes ==
  {<<0, "AMOADDW", "AMOADDD">>, <<1, "AMOSWAPW", "AMOSWAPD">>,
   <<2, "LRW", "LRD">>, <<3, "SCW", "SCD">>, <<4, "AMOXORW", "AMOXORD">>,
   <<8, "AMOORW", "AMOORD">>, <<12, "AMOANDW", "AMOANDD">>,
   <<16, "AMOMINW", "AMOMIND">>, <<20, "AMOMAXW", "AMOMAXD">>,
   <<24, "AMOMINUW", "AMOMINUD">>, <<28, "AMOMAXUW", "AMOMAXUD">>}

\* The immediate holds the acquire and release flags.
decodeAMO(encoded) ==
  LET funct3 == getFunct3(encoded)
      funct5 == getFunct7(encoded) \div 4
      instr  == [readFieldsR(encoded) EXCEPT !.immediate = Bits(encoded, 25, 26)]
      row    == CaseOf(AmoTypes, funct5)
  IN  IF HasCase(AmoTypes, funct5)
      THEN Switch(<<"-", "-", row[2], row[3]>>, funct3, instr, Unknown)
      ELSE Unknown

decodeLoadFP(encoded) ==
  Switch(<<"-", "-", "FLW", "FLD">>, getFunct3(encoded), readFieldsI(encoded), Unknown)

decodeStoreFP(encoded) ==
  Switch(<<"-", "-", "FSW", "FSD">>, getFunct3(encoded), readFieldsS(encoded), Unknown)

FusedTypes ==
  {<<67, "FMADDS", "FMADDD">>, <<71, "FMSUBS", "FMSUBD">>,
   <<79, "FNMADDS", "FNMADDD">>, <<75, "FNMSUBS", "FNMSUBD">>}

\* instr.floatOp.roundingMode = funct3; instr.floatOp.sourceRegister3 = register3
FloatOp(instr, encoded, register3) ==
  [instr EXCEPT !.immediate = Bits(encoded, 12, 14) \union Shifted(register3, 8)]

decodeFPFusedMultiplyAdd(encoded, opcode) ==
  LET funct2 == Number[Bits(encoded, 25, 26)]
      instr  == FloatOp(readFieldsR(encoded), encoded, Bits(encoded, 27, 31))
      row    == CaseOf(FusedTypes, opcode)
  IN  Switch(<<row[2], row[3]>>, funct2, instr, Unknown)

-----------------------------------------------------------------------------
\* OP-FP.  The rows have the types for single and for double precision.

FloatArithmetic ==
  {<<0, "FADDS", "FADDD">>, <<4, "FSUBS", "FSUBD">>, <<8, "FMULS", "FMULD">>}

\* The cases of the switch over funct7 (bit 0 cleared) that switch over
\* funct3: by funct7 and funct3 ...
FloatByFunct3 ==
  {<<<<16, 0>>, "FSGNJS", "FSGNJD">>, <<<<16, 1>>, "FSGNJNS", "FSGNJND">>,
   <<<<16, 2>>, "FSGNJXS", "FSGNJXD">>, <<<<20, 0>>, "FMINS", "FMIND">>,
   <<<<20, 1>>, "FMAXS", "FMAXD">>, <<<<112, 0>>, "FMVXW", "FMVXD">>,
   <<<<112, 1>>, "FCLASSS", "FCLASSD">>, <<<<80, 0>>, "FLES", "FLED">>,
   <<<<80, 1>>, "FLTS", "FLTD">>, <<<<80, 2>>, "FEQS", "FEQD">>,
   <<<<120, 0>>, "FMVWX", "FMVDX">>}

\* ... and those that switch over sourceRegister2
FloatBySource2 ==
  {<<<<32, 1>>, "FCVTSD", "FCVTDS">>, <<<<96, 0>>, "FCVTWS", "FCVTWD">>,
   <<<<96, 1>>, "FCVTWUS", "FCVTWUD">>, <<<<96, 2>>, "FCVTLS", "FCVTLD">>,
   <<<<96, 3>>, "FCVTLUS", "FCVTLUD">>, <<<<104, 0>>, "FCVTSW", "FCVTDW">>,
   <<<<104, 1>>, "FCVTSWU", "FCVTDWU">>, <<<<104, 2>>, "FCVTSL", "FCVTDL">>,
   <<<<104, 3>>, "FCVTSLU", "FCVTDLU">>}

\* isSingle as an index of the rows: bit 0 of funct7 is clear
Precision(encoded) == IF hasBit(encoded, 25) THEN 3 ELSE 2

decodeOpFP(encoded) ==
  LET funct7    == Number[clearBit(Bits(encoded, 25, 31), 0)]
      instr     == FloatOp(readFieldsR(encoded), encoded, {})
      byFunct3  == <<funct7, getFunct3(encoded)>>
      bySource2 == <<funct7, instr.rs2>>
      Type(row) == [instr EXCEPT !.type = row[Precision(encoded)]]
  IN  CASE HasCase(FloatArithmetic, funct7) -> Type(CaseOf(FloatArithmetic, funct7))
        [] funct7 = 12 /\ instr.rs2 = 0 -> Type(<<funct7, "FSQRTS", "FSQRTD">>)
        [] funct7 = 12 /\ instr.rs2 # 0 -> Type(<<funct7, "FDIVS", "FDIVD">>)
        [] HasCase(FloatByFunct3, byFunct3) -> Type(CaseOf(FloatByFunct3, byFunct3))
        [] HasCase(FloatBySource2, bySource2) -> Type(CaseOf(FloatBySource2, bySource2))
        [] funct7 = 112 /\ ~HasCase(FloatByFunct3, byFunct3) -> UnknownPointer
        [] OTHER -> Unknown

decodeInstruction(encoded) ==
  LET opcode == getOpcode(encoded)
      As(type, instr) == [instr EXCEPT !.type = type]
  IN  CASE opcode = 55  -> As("LUI", readFieldsU(encoded))
        [] opcode = 23  -> As("AUIPC", readFieldsU(encoded))
        [] opcode = 111 -> As("JAL", readFieldsJ(encoded))
        [] opcode = 103 -> As("JALR", readFieldsI(encoded))
        [] opcode = 99  -> decodeBranch(encoded)
        [] opcode = 3   -> decodeLoad(encoded)
        [] opcode = 35  -> decodeStore(encoded)
        [] opcode = 19  -> decodeOpImm(encoded)
        [] opcode = 27  -> decodeOpImm32(encoded)
        [] opcode = 51  -> decodeOp(encoded)
        [] opcode = 59  -> decodeOp32(encoded)
        [] opcode = 15  -> decodeMiscMem(encoded)
        [] opcode = 115 -> decodeSystem(encoded)
        [] opcode = 47  -> decodeAMO(encoded)
        [] opcode = 7   -> decodeLoadFP(encoded)
        [] opcode = 39  -> decodeStoreFP(encoded)
        [] HasCase(FusedTypes, opcode) -> decodeFPFusedMultiplyAdd(encoded, opcode)
        [] opcode = 83  -> decodeOpFP(encoded)
        [] OTHER -> Unknown

-----------------------------------------------------------------------------
(***************************************************************************)
(* decodeInstructions.  Either it returns the vector of instructions or an *)
(* exception leaves it; the vector is lost then.                           *)
(***************************************************************************)
VARIABLES
  program,        \* the parameter: a sequence of bytes
  programOffset,  \* the loop variable
  instructions,   \* the vector
  outcome         \* "decoding", "returned" or the exception

vars == <<program, programOffset, instructions, outcome>>

Init ==
  /\ program \in Programs
  /\ programOffset = 0
  /\ instructions = << >>
  /\ outcome = "decoding"

isEncodingCompressed(offset) == program[offset + 1] \intersect {0, 1} # {0, 1}

SizeOK == Len(program) % 4 = 0

\* The word at programOffset: loadU32(program.data() + programOffset)
CurrentWord == loadU(program, programOffset + 1, 4)

LoopCondition == programOffset < Len(program)

\* The loop reaches decodeInstruction.
AtWord ==
  /\ outcome = "decoding" /\ SizeOK /\ LoopCondition
  /\ ~isEncodingCompressed(programOffset)

ThrowSize ==
  /\ outcome = "decoding" /\ ~SizeOK
  /\ outcome' = "Program size not divisible by 4"
  /\ UNCHANGED <<program, programOffset, instructions>>

ThrowCompressed ==
  /\ outcome = "decoding" /\ SizeOK /\ LoopCondition
  /\ isEncodingCompressed(programOffset)
  /\ outcome' = "Compressed instructions are not supported"
  /\ UNCHANGED <<program, programOffset, instructions>>

ThrowUnknown ==
  /\ AtWord
  /\ decodeInstruction(CurrentWord) \in Exceptions
  /\ outcome' = decodeInstruction(CurrentWord).type
  /\ UNCHANGED <<program, programOffset, instructions>>

\* mutant: the offset moves on by the size of a compressed instruction
AdvanceHalfword ==
  /\ AtWord
  /\ decodeInstruction(CurrentWord) \notin Exceptions
  /\ instructions' = Append(instructions, decodeInstruction(CurrentWord))
  /\ programOffset' = programOffset + 2
  /\ UNCHANGED <<program, outcome>>

DecodeNext ==
  /\ AtWord
  /\ decodeInstruction(CurrentWord) \notin Exceptions
  /\ instructions' = Append(instructions, decodeInstruction(CurrentWord))
  /\ programOffset' = programOffset + 4
  /\ UNCHANGED <<program, outcome>>

Return ==
  /\ outcome = "decoding" /\ SizeOK /\ ~LoopCondition
  /\ outcome' = "returned"
  /\ UNCHANGED <<program, programOffset, instructions>>

Next == ThrowSize \/ ThrowCompressed \/ ThrowUnknown \/ DecodeNext \/ Return

Spec == Init /\ [][Next]_vars
=============================================================================
