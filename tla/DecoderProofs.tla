--------------------------- MODULE DecoderProofs ---------------------------
(***************************************************************************)
(* What the decoder promises to the execution loop, for every program.     *)
(***************************************************************************)
EXTENDS DecoderProperties, TLAPS

Jumps == {"JAL", "BEQ", "BNE", "BLT", "BGE", "BLTU", "BGEU"}
Uppers == {"LUI", "AUIPC"}

\* The types of whose immediates something is promised
Special == Jumps \union Uppers

\* What OffsetsEven says of one instruction
OffsetEven(instr) ==
  /\ instr.type \in Jumps => 0 \notin instr.immediate
  /\ instr.type \in Uppers => instr.immediate \intersect (0 .. 11) = {}

\* What a function of the decoder may return
Fine(result) == result \in Exceptions \/ OffsetEven(result)

\* The labels of a switch have no special types.
Plain(types) == \A i \in DOMAIN types : types[i] \notin Special

LEMMA PlainFine ==
  ASSUME NEW instr, instr.type \notin Special
  PROVE  Fine(instr)
BY DEF Fine, OffsetEven, Special

LEMMA ExceptionFine == Fine(Unknown) /\ Fine(UnknownPointer)
BY DEF Fine, Exceptions

-----------------------------------------------------------------------------
(***************************************************************************)
(* The immediates of every word: bit 0 of the offsets of branches and JAL  *)
(* is clear (instruction.cpp:105-112 and 121-128), and so are the low 12   *)
(* bits of the U-immediate (115-118).                                      *)
(***************************************************************************)
LEMMA ImmediateBEven ==
  ASSUME NEW encoded PROVE 0 \notin getImmediateB(encoded)
BY DEF getImmediateB, signExtend, ShiftRightSigned, ShiftRight, ShiftLeft, Shifted

LEMMA ImmediateJEven ==
  ASSUME NEW encoded PROVE 0 \notin getImmediateJ(encoded)
BY DEF getImmediateJ, signExtend, ShiftRightSigned, ShiftRight, ShiftLeft, Shifted

LEMMA ImmediateUUpper ==
  ASSUME NEW encoded PROVE getImmediateU(encoded) \intersect (0 .. 11) = {}
BY DEF getImmediateU, ShiftLeft, Shifted

-----------------------------------------------------------------------------
(***************************************************************************)
(* The tables of labels                                                    *)
(***************************************************************************)
LEMMA PlainTuple2 ==
  ASSUME NEW a, NEW b,
         {a, b} \intersect Special = {}
  PROVE  Plain(<<a, b>>)
<1>1. <<a, b>> \in Seq({a, b})
  OBVIOUS
<1>. QED  BY <1>1 DEF Plain

LEMMA PlainTuple4 ==
  ASSUME NEW a, NEW b, NEW c, NEW d,
         {a, b, c, d} \intersect Special = {}
  PROVE  Plain(<<a, b, c, d>>)
<1>1. <<a, b, c, d>> \in Seq({a, b, c, d})
  OBVIOUS
<1>. QED  BY <1>1 DEF Plain

LEMMA PlainTuple6 ==
  ASSUME NEW a, NEW b, NEW c, NEW d, NEW e, NEW f,
         {a, b, c, d, e, f} \intersect Special = {}
  PROVE  Plain(<<a, b, c, d, e, f>>)
<1>1. <<a, b, c, d, e, f>> \in Seq({a, b, c, d, e, f})
  OBVIOUS
<1>. QED  BY <1>1 DEF Plain

LEMMA PlainTuple7 ==
  ASSUME NEW a, NEW b, NEW c, NEW d, NEW e, NEW f, NEW g,
         {a, b, c, d, e, f, g} \intersect Special = {}
  PROVE  Plain(<<a, b, c, d, e, f, g>>)
<1>1. <<a, b, c, d, e, f, g>> \in Seq({a, b, c, d, e, f, g})
  OBVIOUS
<1>. QED  BY <1>1 DEF Plain

LEMMA PlainTuple8 ==
  ASSUME NEW a, NEW b, NEW c, NEW d, NEW e, NEW f, NEW g, NEW h,
         {a, b, c, d, e, f, g, h} \intersect Special = {}
  PROVE  Plain(<<a, b, c, d, e, f, g, h>>)
<1>1. <<a, b, c, d, e, f, g, h>> \in Seq({a, b, c, d, e, f, g, h})
  OBVIOUS
<1>. QED  BY <1>1 DEF Plain

LEMMA PlainSwitch ==
  ASSUME NEW types, NEW value, NEW instr, "type" \in DOMAIN instr, Plain(types)
  PROVE  Fine(Switch(types, value, instr, Unknown))
<1>1. CASE Labelled(types, value)
  <2> DEFINE result == [instr EXCEPT !.type = types[value + 1]]
  <2>1. types[value + 1] \notin Special
    BY <1>1 DEF Labelled, Plain
  <2>2. result.type = types[value + 1]
    OBVIOUS
  <2>3. Switch(types, value, instr, Unknown) = result
    BY <1>1 DEF Switch
  <2> HIDE DEF result
  <2>. QED  BY <2>1, <2>2, <2>3, PlainFine
<1>2. CASE ~Labelled(types, value)
  BY <1>2, ExceptionFine DEF Switch
<1>. QED  BY <1>1, <1>2

LEMMA CaseInTable ==
  ASSUME NEW table, NEW value, HasCase(table, value)
  PROVE  CaseOf(table, value) \in table
BY DEF HasCase, CaseOf

LEMMA FieldsPresent ==
  ASSUME NEW encoded
  PROVE  /\ "type" \in DOMAIN readFieldsR(encoded)
         /\ "type" \in DOMAIN readFieldsI(encoded)
         /\ "type" \in DOMAIN readFieldsS(encoded)
BY DEF readFieldsR, readFieldsI, readFieldsS, NewInstruction

LEMMA PlainSwitchFunct7 ==
  ASSUME NEW table, NEW encoded, \A row \in table : Plain(row[2])
  PROVE  Fine(SwitchFunct7(table, encoded))
<1> DEFINE funct7 == getFunct7(encoded)
<1>1. CASE HasCase(table, funct7)
  <2>1. Plain(CaseOf(table, funct7)[2])
    BY <1>1, CaseInTable
  <2>. QED  BY <1>1, <2>1, PlainSwitch, FieldsPresent DEF SwitchFunct7
<1>2. CASE ~HasCase(table, funct7)
  BY <1>2, ExceptionFine DEF SwitchFunct7
<1>. QED  BY <1>1, <1>2

-----------------------------------------------------------------------------
(***************************************************************************)
(* The functions of the decoder, one by one                                *)
(***************************************************************************)
LEMMA ElementInSet ==
  ASSUME NEW S, NEW seq \in Seq(S), NEW i \in DOMAIN seq
  PROVE  seq[i] \in S
OBVIOUS

LEMMA BranchFine ==
  ASSUME NEW encoded PROVE Fine(decodeBranch(encoded))
<1> DEFINE names == {"BEQ", "BNE", "-", "BLT", "BGE", "BLTU", "BGEU"}
           types == <<"BEQ", "BNE", "-", "-", "BLT", "BGE", "BLTU", "BGEU">>
           instr == readFieldsB(encoded)
           value == getFunct3(encoded)
<1>1. instr.immediate = getImmediateB(encoded) /\ "type" \in DOMAIN instr
  BY DEF readFieldsB, NewInstruction
<1>2. types \in Seq(names) /\ names \intersect Uppers = {}
  BY DEF Uppers
<1> HIDE DEF types, instr, names
<1>3. CASE Labelled(types, value)
  <2> DEFINE result == [instr EXCEPT !.type = types[value + 1]]
  <2>1. result.type = types[value + 1] /\ result.immediate = getImmediateB(encoded)
    BY <1>1
  <2>2. types[value + 1] \in names
    <3>1. value + 1 \in DOMAIN types
      BY <1>3 DEF Labelled
    <3>. QED  BY <1>2, <3>1, ElementInSet
  <2>3. decodeBranch(encoded) = result
    BY <1>3 DEF decodeBranch, Switch, types, instr
  <2> HIDE DEF result
  <2>. QED  BY <1>2, <2>1, <2>2, <2>3, ImmediateBEven DEF Fine, OffsetEven
<1>4. CASE ~Labelled(types, value)
  BY <1>4, ExceptionFine DEF decodeBranch, Switch, types
<1>. QED  BY <1>3, <1>4

LEMMA LoadStoreFine ==
  ASSUME NEW encoded
  PROVE  /\ Fine(decodeLoad(encoded)) /\ Fine(decodeStore(encoded))
         /\ Fine(decodeLoadFP(encoded)) /\ Fine(decodeStoreFP(encoded))
<1>1. Plain(<<"LB", "LH", "LW", "LD", "LBU", "LHU", "LWU">>)
  BY PlainTuple7 DEF Special, Jumps, Uppers
<1>2. Plain(<<"SB", "SH", "SW", "SD">>)
  BY PlainTuple4 DEF Special, Jumps, Uppers
<1>3. Plain(<<"-", "-", "FLW", "FLD">>)
  BY PlainTuple4 DEF Special, Jumps, Uppers
<1>4. Plain(<<"-", "-", "FSW", "FSD">>)
  BY PlainTuple4 DEF Special, Jumps, Uppers
<1>. QED
  BY <1>1, <1>2, <1>3, <1>4, FieldsPresent, PlainSwitch
  DEF decodeLoad, decodeStore, decodeLoadFP, decodeStoreFP

LEMMA RightShiftFine ==
  ASSUME NEW instr, "type" \in DOMAIN instr, "immediate" \in DOMAIN instr,
         NEW arithmetic, NEW logical, arithmetic \notin Special, logical \notin Special
  PROVE  Fine(RightShift(instr, arithmetic, logical))
<1>1. RightShift(instr, arithmetic, logical).type \in {arithmetic, logical}
  BY DEF RightShift
<1>. QED  BY <1>1, PlainFine

LEMMA OpImmFine ==
  ASSUME NEW encoded
  PROVE  Fine(decodeOpImm(encoded)) /\ Fine(decodeOpImm32(encoded))
<1> DEFINE instr == readFieldsI(encoded)
<1>1. "type" \in DOMAIN instr /\ "immediate" \in DOMAIN instr
  BY DEF readFieldsI, NewInstruction
<1>2. Plain(<<"ADDI", "SLLI", "SLTI", "SLTIU", "XORI", "-", "ORI", "ANDI">>)
  BY PlainTuple8 DEF Special, Jumps, Uppers
<1>3. Plain(<<"ADDIW", "SLLIW">>)
  BY PlainTuple2 DEF Special, Jumps, Uppers
<1>4. "SRAI" \notin Special /\ "SRLI" \notin Special
      /\ "SRAIW" \notin Special /\ "SRLIW" \notin Special
  BY DEF Special, Jumps, Uppers
<1> HIDE DEF instr
<1>5. Fine(RightShift(instr, "SRAI", "SRLI")) /\ Fine(RightShift(instr, "SRAIW", "SRLIW"))
  BY <1>1, <1>4, RightShiftFine
<1>6. \A value :
        /\ Fine(Switch(<<"ADDI", "SLLI", "SLTI", "SLTIU", "XORI", "-", "ORI", "ANDI">>,
                       value, instr, Unknown))
        /\ Fine(Switch(<<"ADDIW", "SLLIW">>, value, instr, Unknown))
  BY <1>1, <1>2, <1>3, PlainSwitch
<1>. QED  BY <1>5, <1>6 DEF decodeOpImm, decodeOpImm32, instr

LEMMA OpFine ==
  ASSUME NEW encoded
  PROVE  Fine(decodeOp(encoded)) /\ Fine(decodeOp32(encoded))
<1>1. /\ Plain(<<"ADD", "SLL", "SLT", "SLTU", "XOR", "SRL", "OR", "AND">>)
      /\ Plain(<<"SUB", "-", "-", "-", "-", "SRA">>)
      /\ Plain(<<"MUL", "MULH", "MULHSU", "MULHU", "DIV", "DIVU", "REM", "REMU">>)
  BY PlainTuple6, PlainTuple8 DEF Special, Jumps, Uppers
<1>2. /\ Plain(<<"ADDW", "SLLW", "-", "-", "-", "SRLW">>)
      /\ Plain(<<"SUBW", "-", "-", "-", "-", "SRAW">>)
      /\ Plain(<<"MULW", "-", "-", "-", "DIVW", "DIVUW", "REMW", "REMUW">>)
  BY PlainTuple6, PlainTuple8 DEF Special, Jumps, Uppers
<1>3. ASSUME NEW row \in OpTypes PROVE Plain(row[2])
  <2>1. CASE row = <<0, <<"ADD", "SLL", "SLT", "SLTU", "XOR", "SRL", "OR", "AND">>>>
    BY <1>1, <2>1
  <2>2. CASE row = <<32, <<"SUB", "-", "-", "-", "-", "SRA">>>>
    BY <1>1, <2>2
  <2>3. CASE row = <<1, <<"MUL", "MULH", "MULHSU", "MULHU", "DIV", "DIVU", "REM", "REMU">>>>
    BY <1>1, <2>3
  <2>. QED  BY <2>1, <2>2, <2>3 DEF OpTypes
<1>4. ASSUME NEW row \in Op32Types PROVE Plain(row[2])
  <2>1. CASE row = <<0, <<"ADDW", "SLLW", "-", "-", "-", "SRLW">>>>
    BY <1>2, <2>1
  <2>2. CASE row = <<32, <<"SUBW", "-", "-", "-", "-", "SRAW">>>>
    BY <1>2, <2>2
  <2>3. CASE row = <<1, <<"MULW", "-", "-", "-", "DIVW", "DIVUW", "REMW", "REMUW">>>>
    BY <1>2, <2>3
  <2>. QED  BY <2>1, <2>2, <2>3 DEF Op32Types
<1>. QED  BY <1>3, <1>4, PlainSwitchFunct7 DEF decodeOp, decodeOp32

LEMMA MiscMemFine ==
  ASSUME NEW encoded PROVE Fine(decodeMiscMem(encoded))
<1> DEFINE fields == readFieldsI(encoded)
           instr == [fields EXCEPT !.immediate = @ \intersect oneBits(12)]
<1>1. "type" \in DOMAIN instr /\ "type" \in DOMAIN fields
  BY FieldsPresent
<1>2. /\ "FENCETSO" \notin Special /\ "PAUSE" \notin Special /\ "FENCE" \notin Special
      /\ Plain(<<"-", "FENCEI">>)
  BY PlainTuple2 DEF Special, Jumps, Uppers
<1>3. CASE getFunct3(encoded) = 0
  <2> DEFINE type == CASE instr.immediate = {0, 1, 4, 5, 11} -> "FENCETSO"
                       [] instr.immediate = {4} -> "PAUSE"
                       [] OTHER -> "FENCE"
  <2>1. type \notin Special
    BY <1>2
  <2>2. decodeMiscMem(encoded) = [instr EXCEPT !.type = type]
    BY <1>3 DEF decodeMiscMem
  <2> HIDE DEF type, instr
  <2>3. [instr EXCEPT !.type = type].type = type
    BY <1>1
  <2>. QED  BY <2>1, <2>2, <2>3, PlainFine
<1>4. CASE getFunct3(encoded) # 0
  BY <1>1, <1>2, <1>4, PlainSwitch DEF decodeMiscMem
<1>. QED  BY <1>3, <1>4

LEMMA SystemFine ==
  ASSUME NEW encoded PROVE Fine(decodeSystem(encoded))
<1> DEFINE instr == [readFieldsI(encoded) EXCEPT !.immediate = {}]
<1>1. "type" \in DOMAIN instr
  BY FieldsPresent
<1>2. /\ "ECALL" \notin Special /\ "EBREAK" \notin Special
      /\ Plain(<<"-", "CSRRW", "CSRRS", "CSRRC", "-", "CSRRWI", "CSRRSI", "CSRRCI">>)
  BY PlainTuple8 DEF Special, Jumps, Uppers
<1> HIDE DEF instr
<1>3. /\ [instr EXCEPT !.type = "ECALL"].type = "ECALL"
      /\ [instr EXCEPT !.type = "EBREAK"].type = "EBREAK"
  BY <1>1
<1>4. /\ Fine([instr EXCEPT !.type = "ECALL"]) /\ Fine([instr EXCEPT !.type = "EBREAK"])
      /\ Fine(Unknown)
  BY <1>2, <1>3, PlainFine, ExceptionFine
<1>5. \A value : Fine(Switch(<<"-", "CSRRW", "CSRRS", "CSRRC", "-", "CSRRWI", "CSRRSI",
                               "CSRRCI">>, value, instr, Unknown))
  BY <1>1, <1>2, PlainSwitch
<1>6. decodeSystem(encoded) =
        IF getFunct3(encoded) = 0
        THEN CASE getImmediateI(encoded) = {}  -> [instr EXCEPT !.type = "ECALL"]
               [] getImmediateI(encoded) = {0} -> [instr EXCEPT !.type = "EBREAK"]
               [] OTHER -> Unknown
        ELSE Switch(<<"-", "CSRRW", "CSRRS", "CSRRC", "-", "CSRRWI", "CSRRSI", "CSRRCI">>,
                    getFunct3(encoded), instr, Unknown)
  BY DEF decodeSystem, instr
<1>. QED  BY <1>4, <1>5, <1>6

LEMMA AmoFine ==
  ASSUME NEW encoded PROVE Fine(decodeAMO(encoded))
<1> DEFINE funct5 == getFunct7(encoded) \div 4
           instr == [readFieldsR(encoded) EXCEPT !.immediate = Bits(encoded, 25, 26)]
           row == CaseOf(AmoTypes, funct5)
<1>1. "type" \in DOMAIN instr
  BY FieldsPresent
<1>2. \A r \in AmoTypes : r[2] \notin Special /\ r[3] \notin Special
  BY DEF AmoTypes, Special, Jumps, Uppers
<1> HIDE DEF instr
<1>3. CASE HasCase(AmoTypes, funct5)
  <2>1. row \in AmoTypes
    BY <1>3, CaseInTable
  <2>2. {"-", "-", row[2], row[3]} \intersect Special = {}
    BY <1>2, <2>1 DEF Special, Jumps, Uppers
  <2>3. Plain(<<"-", "-", row[2], row[3]>>)
    BY <2>2, PlainTuple4
  <2>4. decodeAMO(encoded) =
          Switch(<<"-", "-", row[2], row[3]>>, getFunct3(encoded), instr, Unknown)
    BY <1>3 DEF decodeAMO, instr
  <2>. QED  BY <1>1, <2>3, <2>4, PlainSwitch
<1>4. CASE ~HasCase(AmoTypes, funct5)
  BY <1>4, ExceptionFine DEF decodeAMO
<1>. QED  BY <1>3, <1>4

LEMMA FusedFine ==
  ASSUME NEW encoded, NEW opcode, HasCase(FusedTypes, opcode)
  PROVE  Fine(decodeFPFusedMultiplyAdd(encoded, opcode))
<1> DEFINE instr == FloatOp(readFieldsR(encoded), encoded, Bits(encoded, 27, 31))
           row == CaseOf(FusedTypes, opcode)
<1>1. "type" \in DOMAIN instr
  BY FieldsPresent DEF FloatOp
<1>2. \A r \in FusedTypes : r[2] \notin Special /\ r[3] \notin Special
  BY DEF FusedTypes, Special, Jumps, Uppers
<1>3. row \in FusedTypes
  BY CaseInTable
<1>4. {row[2], row[3]} \intersect Special = {}
  BY <1>2, <1>3
<1>5. Plain(<<row[2], row[3]>>)
  BY <1>4, PlainTuple2
<1> HIDE DEF instr
<1>6. decodeFPFusedMultiplyAdd(encoded, opcode) =
        Switch(<<row[2], row[3]>>, Number[Bits(encoded, 25, 26)], instr, Unknown)
  BY DEF decodeFPFusedMultiplyAdd, instr
<1>. QED  BY <1>1, <1>5, <1>6, PlainSwitch

LEMMA OpFPFine ==
  ASSUME NEW encoded PROVE Fine(decodeOpFP(encoded))
<1> DEFINE funct7 == Number[clearBit(Bits(encoded, 25, 31), 0)]
           instr == FloatOp(readFieldsR(encoded), encoded, {})
           byFunct3 == <<funct7, getFunct3(encoded)>>
           bySource2 == <<funct7, instr.rs2>>
           Type(row) == [instr EXCEPT !.type = row[Precision(encoded)]]
<1>1. "type" \in DOMAIN instr
  BY FieldsPresent DEF FloatOp
<1>2. \A row \in FloatArithmetic : row[2] \notin Special /\ row[3] \notin Special
  BY DEF FloatArithmetic, Special, Jumps, Uppers
<1>3. \A row \in FloatByFunct3 : row[2] \notin Special /\ row[3] \notin Special
  BY DEF FloatByFunct3, Special, Jumps, Uppers
<1>4. \A row \in FloatBySource2 : row[2] \notin Special /\ row[3] \notin Special
  BY DEF FloatBySource2, Special, Jumps, Uppers
<1>5. /\ "FSQRTS" \notin Special /\ "FSQRTD" \notin Special
      /\ "FDIVS" \notin Special /\ "FDIVD" \notin Special
  BY DEF Special, Jumps, Uppers
<1> HIDE DEF instr
<1>6. ASSUME NEW row, row[2] \notin Special, row[3] \notin Special
      PROVE  Fine(Type(row))
  <2>1. Type(row).type = row[2] \/ Type(row).type = row[3]
    BY <1>1 DEF Precision
  <2> HIDE DEF Type
  <2>. QED  BY <1>6, <2>1, PlainFine
<1>7. /\ Fine(Type(<<funct7, "FSQRTS", "FSQRTD">>))
      /\ Fine(Type(<<funct7, "FDIVS", "FDIVD">>))
  <2> HIDE DEF Type, funct7
  <2>1. /\ <<funct7, "FSQRTS", "FSQRTD">>[2] = "FSQRTS"
        /\ <<funct7, "FSQRTS", "FSQRTD">>[3] = "FSQRTD"
        /\ <<funct7, "FDIVS", "FDIVD">>[2] = "FDIVS"
        /\ <<funct7, "FDIVS", "FDIVD">>[3] = "FDIVD"
    OBVIOUS
  <2>. QED  BY <1>5, <1>6, <2>1
<1>8. /\ \A value : HasCase(FloatArithmetic, value)
                       => Fine(Type(CaseOf(FloatArithmetic, value)))
      /\ \A value : HasCase(FloatByFunct3, value)
                       => Fine(Type(CaseOf(FloatByFunct3, value)))
      /\ \A value : HasCase(FloatBySource2, value)
                       => Fine(Type(CaseOf(FloatBySource2, value)))
  <2> HIDE DEF Type
  <2>. QED  BY <1>2, <1>3, <1>4, <1>6, CaseInTable
<1>9. decodeOpFP(encoded) =
        CASE HasCase(FloatArithmetic, funct7) -> Type(CaseOf(FloatArithmetic, funct7))
          [] funct7 = 12 /\ instr.rs2 = 0 -> Type(<<funct7, "FSQRTS", "FSQRTD">>)
          [] funct7 = 12 /\ instr.rs2 # 0 -> Type(<<funct7, "FDIVS", "FDIVD">>)
          [] HasCase(FloatByFunct3, byFunct3) -> Type(CaseOf(FloatByFunct3, byFunct3))
          [] HasCase(FloatBySource2, bySource2) -> Type(CaseOf(FloatBySource2, bySource2))
          [] funct7 = 112 /\ ~HasCase(FloatByFunct3, byFunct3) -> UnknownPointer
          [] OTHER -> Unknown
  BY DEF decodeOpFP, instr
<1> HIDE DEF Type, byFunct3, bySource2, funct7
<1>. QED  BY <1>7, <1>8, <1>9, ExceptionFine

LEMMA JumpAndUpperFine ==
  ASSUME NEW encoded
  PROVE  /\ Fine([readFieldsU(encoded) EXCEPT !.type = "LUI"])
         /\ Fine([readFieldsU(encoded) EXCEPT !.type = "AUIPC"])
         /\ Fine([readFieldsJ(encoded) EXCEPT !.type = "JAL"])
         /\ Fine([readFieldsI(encoded) EXCEPT !.type = "JALR"])
<1>1. /\ "type" \in DOMAIN readFieldsU(encoded)
      /\ "type" \in DOMAIN readFieldsJ(encoded)
      /\ "type" \in DOMAIN readFieldsI(encoded)
      /\ readFieldsU(encoded).immediate = getImmediateU(encoded)
      /\ readFieldsJ(encoded).immediate = getImmediateJ(encoded)
  BY DEF readFieldsU, readFieldsJ, readFieldsI, NewInstruction
<1>2. /\ [readFieldsU(encoded) EXCEPT !.type = "LUI"].type = "LUI"
      /\ [readFieldsU(encoded) EXCEPT !.type = "AUIPC"].type = "AUIPC"
      /\ [readFieldsJ(encoded) EXCEPT !.type = "JAL"].type = "JAL"
      /\ [readFieldsI(encoded) EXCEPT !.type = "JALR"].type = "JALR"
  BY <1>1
<1>3. /\ [readFieldsU(encoded) EXCEPT !.type = "LUI"].immediate = getImmediateU(encoded)
      /\ [readFieldsU(encoded) EXCEPT !.type = "AUIPC"].immediate = getImmediateU(encoded)
      /\ [readFieldsJ(encoded) EXCEPT !.type = "JAL"].immediate = getImmediateJ(encoded)
  BY <1>1
<1>. QED
  BY <1>2, <1>3, ImmediateUUpper, ImmediateJEven DEF Fine, OffsetEven, Jumps, Uppers

\* Every word is rejected or becomes an instruction OffsetsEven allows.
LEMMA DecodedFine ==
  ASSUME NEW encoded PROVE Fine(decodeInstruction(encoded))
BY JumpAndUpperFine, BranchFine, LoadStoreFine, OpImmFine, OpFine, MiscMemFine, SystemFine,
   AmoFine, FusedFine, OpFPFine, ExceptionFine
DEF decodeInstruction

-----------------------------------------------------------------------------
(***************************************************************************)
(* The loop of decodeInstructions                                          *)
(***************************************************************************)
Decoded == {decodeInstruction(word) : word \in SUBSET (0 .. 31)} \ Exceptions

\* The i-th instruction is what the i-th word means: the loop neither skips a
\* word nor decodes one twice, which is what lets Emulator::run find the
\* instruction of an address by dividing it by 4.
DecodingInv ==
  /\ instructions \in Seq(Decoded)
  /\ programOffset = 4 * Len(instructions)
  /\ \A i \in 1 .. Len(instructions) : instructions[i] = decodeInstruction(WordAt(i))

LEMMA InitDecoding == Init => DecodingInv
BY DEF Init, DecodingInv

LEMMA DecodeNextKeeps ==
  ASSUME DecodingInv, DecodeNext
  PROVE  DecodingInv'
<1> DEFINE instr == decodeInstruction(CurrentWord)
           count == Len(instructions)
<1>1. /\ instructions' = Append(instructions, instr)
      /\ programOffset' = programOffset + 4
      /\ program' = program /\ instr \notin Exceptions
  BY DEF DecodeNext
<1>2. CurrentWord = WordAt(count + 1) /\ CurrentWord \in SUBSET (0 .. 31)
  <2>1. programOffset + 1 = 4 * ((count + 1) - 1) + 1
    BY DEF DecodingInv
  <2>2. CurrentWord = WordAt(count + 1)
    BY <2>1 DEF CurrentWord, WordAt
  <2>. QED  BY <2>2 DEF CurrentWord, loadU
<1>3. instr \in Decoded
  BY <1>1, <1>2 DEF Decoded
<1> HIDE DEF instr
<1>4. instructions' \in Seq(Decoded) /\ Len(instructions') = count + 1
  BY <1>1, <1>3 DEF DecodingInv
<1>5. programOffset' = 4 * Len(instructions')
  BY <1>1, <1>4 DEF DecodingInv
<1>6. ASSUME NEW i \in 1 .. Len(instructions')
      PROVE  instructions'[i] = decodeInstruction(WordAt(i)')
  <2>1. WordAt(i)' = WordAt(i)
    BY <1>1 DEF WordAt
  <2>2. CASE i = count + 1
    BY <1>1, <1>2, <2>1, <2>2 DEF DecodingInv, instr
  <2>3. CASE i \in 1 .. count
    BY <1>1, <2>1, <2>3 DEF DecodingInv
  <2>. QED  BY <1>4, <2>2, <2>3 DEF DecodingInv
<1>. QED  BY <1>4, <1>5, <1>6 DEF DecodingInv, decodeInstruction

LEMMA NextDecoding ==
  ASSUME DecodingInv, [Next]_vars
  PROVE  DecodingInv'
<1>1. CASE DecodeNext
  BY <1>1, DecodeNextKeeps
<1>2. CASE UNCHANGED <<program, programOffset, instructions>>
  BY <1>2 DEF DecodingInv, WordAt
<1>. QED
  BY <1>1, <1>2 DEF Next, vars, ThrowSize, ThrowCompressed, ThrowUnknown, Return

LEMMA DecodingGivesEvenOffsets == DecodingInv => OffsetsEven
<1> SUFFICES ASSUME DecodingInv, NEW i \in 1 .. Len(instructions)
             PROVE  OffsetEven(instructions[i])
  BY DEF OffsetsEven, OffsetEven, Jumps, Uppers
<1>1. instructions[i] \in Decoded
  BY DEF DecodingInv
<1>2. PICK word : instructions[i] = decodeInstruction(word) /\ instructions[i] \notin Exceptions
  BY <1>1 DEF Decoded
<1>. QED  BY <1>2, DecodedFine DEF Fine

\* The vector of instructions stays in step with the words of the program, for
\* every program (instruction.cpp:1067-1093).
THEOREM DecodingInvariant == Spec => []DecodingInv
<1>. QED  BY InitDecoding, NextDecoding, PTL DEF Spec

\* Whatever the bytes of a program are, the offsets of its branches and jumps
\* are even and its U-immediates are multiples of 4096 (instruction.cpp:105-128).
THEOREM OffsetsAreEven == Spec => []OffsetsEven
<1>. QED  BY DecodingInvariant, DecodingGivesEvenOffsets, PTL
=============================================================================
