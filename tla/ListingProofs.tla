--------------------------- MODULE ListingProofs ---------------------------
(***************************************************************************)
(* The decoder against the listing of the ISA, for every word of 32 bits:  *)
(* a listed instruction is decoded as the listing says, and what is        *)
(* decoded is listed, up to the bits the switches do not test.             *)
(*                                                                         *)
(* First the rows are identified with the labels of the switches, and      *)
(* decodeInstruction is evaluated opcode by opcode.  From that follow that *)
(* each kind of row is decoded as it means (... RowAgrees, ListedDecoded), *)
(* that what is accepted is a row (... Known, AcceptedKnown), and the      *)
(* types of the result (DecodedTyped).                                     *)
(***************************************************************************)
EXTENDS DecoderProofs, EncodingProofs

-----------------------------------------------------------------------------
(***************************************************************************)
(* Instructions, by the registers their formats have                       *)
(***************************************************************************)
Instr(type, immediate, rd, rs1, rs2) ==
  [type |-> type, immediate |-> immediate, rd |-> rd, rs1 |-> rs1, rs2 |-> rs2]

InstrR(type, immediate, word) ==
  Instr(type, immediate, getDestinationRegister(word), getSourceRegister1(word),
        getSourceRegister2(word))

InstrI(type, immediate, word) ==
  Instr(type, immediate, getDestinationRegister(word), getSourceRegister1(word), 0)

InstrS(type, immediate, word) ==
  Instr(type, immediate, 0, getSourceRegister1(word), getSourceRegister2(word))

InstrU(type, immediate, word) ==
  Instr(type, immediate, getDestinationRegister(word), 0, 0)

LEMMA Updated ==
  ASSUME NEW t, NEW i, NEW d, NEW s1, NEW s2,
         NEW type, NEW immediate, NEW rd, NEW rs1, NEW rs2
  PROVE  /\ [Instr(t, i, d, s1, s2) EXCEPT !.type = type] = Instr(type, i, d, s1, s2)
         /\ [Instr(t, i, d, s1, s2) EXCEPT !.immediate = immediate]
              = Instr(t, immediate, d, s1, s2)
         /\ [Instr(t, i, d, s1, s2) EXCEPT !.rd = rd] = Instr(t, i, rd, s1, s2)
         /\ [Instr(t, i, d, s1, s2) EXCEPT !.rs1 = rs1] = Instr(t, i, d, rs1, s2)
         /\ [Instr(t, i, d, s1, s2) EXCEPT !.rs2 = rs2] = Instr(t, i, d, s1, rs2)
         /\ Instr(t, i, d, s1, s2).immediate = i
         /\ Instr(t, i, d, s1, s2).rs2 = s2
         /\ Instr(t, i, d, s1, s2).type = t
BY DEF Instr

LEMMA NotException ==
  ASSUME NEW type, NEW immediate, NEW rd, NEW rs1, NEW rs2
  PROVE  Instr(type, immediate, rd, rs1, rs2) \notin Exceptions
<1>1. "rd" \in DOMAIN Instr(type, immediate, rd, rs1, rs2)
  BY DEF Instr
<1>2. "rd" \notin DOMAIN Unknown /\ "rd" \notin DOMAIN UnknownPointer
  BY DEF Unknown, UnknownPointer
<1>. QED  BY <1>1, <1>2 DEF Exceptions

\* What the functions readFieldsX return (instruction.cpp:130-177)
LEMMA Fields ==
  ASSUME NEW word \in Word(32)
  PROVE  /\ readFieldsR(word) = InstrR("LUI", {}, word)
         /\ readFieldsI(word) = InstrI("LUI", Rv64g!ImmediateOf("I", word), word)
         /\ readFieldsS(word) = InstrS("LUI", Rv64g!ImmediateOf("S", word), word)
         /\ readFieldsB(word) = InstrS("LUI", Rv64g!ImmediateOf("B", word), word)
         /\ readFieldsU(word) = InstrU("LUI", Rv64g!ImmediateOf("U", word), word)
         /\ readFieldsJ(word) = InstrU("LUI", Rv64g!ImmediateOf("J", word), word)
<1> DEFINE rd == getDestinationRegister(word)
           rs1 == getSourceRegister1(word)
           rs2 == getSourceRegister2(word)
<1>1. NewInstruction = Instr("LUI", {}, 0, 0, 0)
  BY DEF NewInstruction, Instr
<1>2. ASSUME NEW immediate
      PROVE  /\ [NewInstruction EXCEPT !.rs1 = rs1, !.rs2 = rs2, !.rd = rd]
                  = InstrR("LUI", {}, word)
             /\ [NewInstruction EXCEPT !.rs1 = rs1, !.rd = rd, !.immediate = immediate]
                  = InstrI("LUI", immediate, word)
             /\ [NewInstruction EXCEPT !.rs1 = rs1, !.rs2 = rs2, !.immediate = immediate]
                  = InstrS("LUI", immediate, word)
             /\ [NewInstruction EXCEPT !.rd = rd, !.immediate = immediate]
                  = InstrU("LUI", immediate, word)
  <2>1. [NewInstruction EXCEPT !.rs1 = rs1] = Instr("LUI", {}, 0, rs1, 0)
    BY <1>1, Updated
  <2>2. /\ [Instr("LUI", {}, 0, rs1, 0) EXCEPT !.rs2 = rs2] = Instr("LUI", {}, 0, rs1, rs2)
        /\ [Instr("LUI", {}, 0, rs1, 0) EXCEPT !.rd = rd] = Instr("LUI", {}, rd, rs1, 0)
        /\ [NewInstruction EXCEPT !.rd = rd] = Instr("LUI", {}, rd, 0, 0)
    BY <1>1, Updated
  <2>3. /\ [Instr("LUI", {}, 0, rs1, rs2) EXCEPT !.rd = rd] = Instr("LUI", {}, rd, rs1, rs2)
        /\ [Instr("LUI", {}, rd, rs1, 0) EXCEPT !.immediate = immediate]
             = Instr("LUI", immediate, rd, rs1, 0)
        /\ [Instr("LUI", {}, 0, rs1, rs2) EXCEPT !.immediate = immediate]
             = Instr("LUI", immediate, 0, rs1, rs2)
        /\ [Instr("LUI", {}, rd, 0, 0) EXCEPT !.immediate = immediate]
             = Instr("LUI", immediate, rd, 0, 0)
    BY Updated
  <2>. QED  BY <2>1, <2>2, <2>3 DEF InstrR, InstrI, InstrS, InstrU
<1>. QED
  BY <1>2, FormatImmediates
  DEF readFieldsR, readFieldsI, readFieldsS, readFieldsB, readFieldsU, readFieldsJ

LEMMA SwitchLabel ==
  ASSUME NEW types, NEW value, NEW t, NEW i, NEW d, NEW s1, NEW s2, NEW default,
         Labelled(types, value)
  PROVE  Switch(types, value, Instr(t, i, d, s1, s2), default)
           = Instr(types[value + 1], i, d, s1, s2)
BY Updated DEF Switch

LEMMA SwitchDefault ==
  ASSUME NEW types, NEW value, NEW instr, ~Labelled(types, value)
  PROVE  Switch(types, value, instr, Unknown) \in Exceptions
BY DEF Switch, Exceptions

-----------------------------------------------------------------------------
(***************************************************************************)
(* When a word matches a row of the listing, by the fields the decoder     *)
(* reads                                                                   *)
(***************************************************************************)
LEMMA MatchesOpcode ==
  ASSUME NEW word, NEW type, NEW op \in Nat, op =< 127
  PROVE  /\ Rv64g!Matches(word, Rv64g!U(type, op)) <=> getOpcode(word) = op
         /\ Rv64g!Matches(word, Rv64g!J(type, op)) <=> getOpcode(word) = op
BY OpcodeField DEF Rv64g!Matches, Rv64g!U, Rv64g!J, Rv64g!Row

LEMMA MatchesFunct3 ==
  ASSUME NEW word, NEW type, NEW op \in Nat, op =< 127, NEW funct3 \in Nat, funct3 =< 7
  PROVE  /\ Rv64g!Matches(word, Rv64g!I(type, op, funct3))
              <=> getOpcode(word) = op /\ getFunct3(word) = funct3
         /\ Rv64g!Matches(word, Rv64g!S(type, op, funct3))
              <=> getOpcode(word) = op /\ getFunct3(word) = funct3
         /\ Rv64g!Matches(word, Rv64g!B(type, funct3))
              <=> getOpcode(word) = 99 /\ getFunct3(word) = funct3
         /\ Rv64g!Matches(word, Rv64g!Fence(type, funct3))
              <=> getOpcode(word) = 15 /\ getFunct3(word) = funct3
         /\ Rv64g!Matches(word, Rv64g!Csr(type, funct3))
              <=> getOpcode(word) = 115 /\ getFunct3(word) = funct3
BY OpcodeField, Funct3Field
DEF Rv64g!Matches, Rv64g!I, Rv64g!S, Rv64g!B, Rv64g!Fence, Rv64g!Csr, Rv64g!Row

LEMMA MatchesFunct7 ==
  ASSUME NEW word, NEW type, NEW op \in Nat, op =< 127, NEW funct3 \in Nat, funct3 =< 7,
         NEW funct7 \in Nat, funct7 =< 127
  PROVE  Rv64g!Matches(word, Rv64g!R(type, op, funct3, funct7))
           <=> /\ getOpcode(word) = op
               /\ getFunct3(word) = funct3 /\ getFunct7(word) = funct7
BY OpcodeField, Funct3Field, Funct7Field DEF Rv64g!Matches, Rv64g!R, Rv64g!Row

LEMMA MatchesFloat ==
  ASSUME NEW word, NEW type, NEW funct7 \in Nat, funct7 =< 127
  PROVE  Rv64g!Matches(word, Rv64g!FR(type, funct7))
           <=> getOpcode(word) = 83 /\ getFunct7(word) = funct7
BY OpcodeField, Funct7Field DEF Rv64g!Matches, Rv64g!FR, Rv64g!Row

LEMMA MatchesFloat3 ==
  ASSUME NEW word, NEW type, NEW funct3 \in Nat, funct3 =< 7, NEW funct7 \in Nat, funct7 =< 127
  PROVE  /\ Rv64g!Matches(word, Rv64g!FR3(type, funct7, funct3))
              <=> /\ getOpcode(word) = 83
                  /\ getFunct3(word) = funct3 /\ getFunct7(word) = funct7
         /\ Rv64g!Matches(word, Rv64g!FRU(type, funct7, funct3))
              <=> /\ getOpcode(word) = 83 /\ getSourceRegister2(word) = 0
                  /\ getFunct3(word) = funct3 /\ getFunct7(word) = funct7
BY OpcodeField, Funct3Field, Funct7Field, Rs2Field
DEF Rv64g!Matches, Rv64g!FR3, Rv64g!FRU, Rv64g!Row

LEMMA MatchesSource2 ==
  ASSUME NEW word, NEW type, NEW funct7 \in Nat, funct7 =< 127, NEW rs2 \in Nat, rs2 =< 31
  PROVE  Rv64g!Matches(word, Rv64g!FR1(type, funct7, rs2))
           <=> /\ getOpcode(word) = 83
               /\ getFunct7(word) = funct7 /\ getSourceRegister2(word) = rs2
BY OpcodeField, Funct7Field, Rs2Field DEF Rv64g!Matches, Rv64g!FR1, Rv64g!Row

LEMMA MatchesShift ==
  ASSUME NEW word, NEW type, NEW funct3 \in Nat, funct3 =< 7
  PROVE  /\ Rv64g!Matches(word, Rv64g!Shift6(type, funct3, 0))
              <=> /\ getOpcode(word) = 19 /\ getFunct3(word) = funct3
                  /\ word \intersect (26 .. 31) = {}
         /\ Rv64g!Matches(word, Rv64g!Shift6(type, funct3, 16))
              <=> /\ getOpcode(word) = 19 /\ getFunct3(word) = funct3
                  /\ word \intersect (26 .. 31) = {30}
         /\ Rv64g!Matches(word, Rv64g!Shift5(type, funct3, 0))
              <=> /\ getOpcode(word) = 27 /\ getFunct3(word) = funct3
                  /\ word \intersect (25 .. 31) = {}
         /\ Rv64g!Matches(word, Rv64g!Shift5(type, funct3, 32))
              <=> /\ getOpcode(word) = 27 /\ getFunct3(word) = funct3
                  /\ word \intersect (25 .. 31) = {30}
BY OpcodeField, Funct3Field, ShiftFields
DEF Rv64g!Matches, Rv64g!Shift6, Rv64g!Shift5, Rv64g!Row

LEMMA MatchesEnv ==
  ASSUME NEW word \in Word(32), NEW type
  PROVE  /\ Rv64g!Matches(word, Rv64g!Env(type, 0))
              <=> /\ getOpcode(word) = 115 /\ getFunct3(word) = 0
                  /\ getDestinationRegister(word) = 0 /\ getSourceRegister1(word) = 0
                  /\ getImmediateI(word) = {}
         /\ Rv64g!Matches(word, Rv64g!Env(type, 1))
              <=> /\ getOpcode(word) = 115 /\ getFunct3(word) = 0
                  /\ getDestinationRegister(word) = 0 /\ getSourceRegister1(word) = 0
                  /\ getImmediateI(word) = {0}
BY EnvFields DEF Rv64g!Matches, Rv64g!Env, Rv64g!Row

LEMMA MatchesAmo ==
  ASSUME NEW word, NEW type, NEW funct5 \in Nat, funct5 =< 31, NEW funct3 \in Nat, funct3 =< 7
  PROVE  Rv64g!Matches(word, Rv64g!A(type, funct5, funct3))
           <=> /\ getOpcode(word) = 47 /\ getFunct3(word) = funct3
               /\ getFunct7(word) \div 4 = funct5
               /\ funct5 = 2 => getSourceRegister2(word) = 0
<1> DEFINE upper == <<27, 31, funct5>>
<1>1. Rv64g!FieldIs(word, upper) <=> getFunct7(word) \div 4 = funct5
  BY Funct5Field
<1>2. Rv64g!A(type, funct5, funct3).fixed
        = {Rv64g!Op(47), Rv64g!Funct3(funct3), upper}
            \union (IF funct5 = 2 THEN {Rv64g!Rs2(0)} ELSE {})
  BY DEF Rv64g!A, Rv64g!Row
<1> HIDE DEF upper
<1>. QED  BY <1>1, <1>2, OpcodeField, Funct3Field, Rs2Field DEF Rv64g!Matches

LEMMA MatchesFused ==
  ASSUME NEW word, NEW type, NEW op \in Nat, op =< 127, NEW format \in Nat, format =< 3
  PROVE  Rv64g!Matches(word, Rv64g!FR4(type, op, format))
           <=> getOpcode(word) = op /\ Number[Bits(word, 25, 26)] = format
BY OpcodeField, Funct2Field DEF Rv64g!Matches, Rv64g!FR4, Rv64g!Row

-----------------------------------------------------------------------------
(***************************************************************************)
(* What the listing says a word is                                         *)
(***************************************************************************)
LEMMA MeaningByFormat ==
  ASSUME NEW word \in Word(32), NEW row,
         NEW type, NEW format, NEW fixed, row = Rv64g!Row(type, format, fixed)
  PROVE  /\ format \in {"R", "A", "FR", "R4"}
              => Rv64g!Meaning(row, word)
                   = InstrR(type, Rv64g!ImmediateOf(format, word), word)
         /\ format \in {"I", "Shift6", "Shift5", "Csr"}
              => Rv64g!Meaning(row, word)
                   = InstrI(type, Rv64g!ImmediateOf(format, word), word)
         /\ format = "Fence"
              => Rv64g!Meaning(row, word)
                   = InstrI(Rv64g!FenceType(word), Rv64g!ImmediateOf(format, word), word)
         /\ format \in {"S", "B"}
              => Rv64g!Meaning(row, word)
                   = InstrS(type, Rv64g!ImmediateOf(format, word), word)
         /\ format \in {"U", "J"}
              => Rv64g!Meaning(row, word)
                   = InstrU(type, Rv64g!ImmediateOf(format, word), word)
         /\ format = "Env"
              => Rv64g!Meaning(row, word)
                   = Instr(type, Rv64g!ImmediateOf(format, word), 0, 0, 0)
<1>1. row.type = type /\ row.format = format
  BY DEF Rv64g!Row
<1>. QED
  BY <1>1, Registers
  DEF Rv64g!Meaning, Rv64g!HasDestination, Rv64g!HasSource1, Rv64g!HasSource2,
      InstrR, InstrI, InstrS, InstrU, Instr

-----------------------------------------------------------------------------
(***************************************************************************)
(* The rows of the listing as labels of the switches                       *)
(***************************************************************************)

\* The labels of the switches over funct3, by opcode: I-, S- and B-format
IOpcodes == {3, 7, 15, 19, 27, 103}
ITypes(op) ==
  CASE op = 3   -> <<"LB", "LH", "LW", "LD", "LBU", "LHU", "LWU">>
    [] op = 7   -> <<"-", "-", "FLW", "FLD">>
    [] op = 15  -> <<"-", "FENCEI">>
    [] op = 19  -> <<"ADDI", "-", "SLTI", "SLTIU", "XORI", "-", "ORI", "ANDI">>
    [] op = 27  -> <<"ADDIW">>
    [] op = 103 -> <<"JALR">>

SOpcodes == {35, 39}
STypes(op) ==
  CASE op = 35 -> <<"SB", "SH", "SW", "SD">>
    [] op = 39 -> <<"-", "-", "FSW", "FSD">>

BTypes == <<"BEQ", "BNE", "-", "-", "BLT", "BGE", "BLTU", "BGEU">>

CsrTypes == <<"-", "CSRRW", "CSRRS", "CSRRC", "-", "CSRRWI", "CSRRSI", "CSRRCI">>

\* R-format: by opcode and funct7
ROpcodes == {51, 59}
RFunct7s == {0, 1, 32}
RTypes(op, funct7) ==
  CASE op = 51 /\ funct7 = 0  -> <<"ADD", "SLL", "SLT", "SLTU", "XOR", "SRL", "OR", "AND">>
    [] op = 51 /\ funct7 = 32 -> <<"SUB", "-", "-", "-", "-", "SRA">>
    [] op = 51 /\ funct7 = 1  -> <<"MUL", "MULH", "MULHSU", "MULHU", "DIV", "DIVU", "REM",
                                   "REMU">>
    [] op = 59 /\ funct7 = 0  -> <<"ADDW", "SLLW", "-", "-", "-", "SRLW">>
    [] op = 59 /\ funct7 = 32 -> <<"SUBW", "-", "-", "-", "-", "SRAW">>
    [] op = 59 /\ funct7 = 1  -> <<"MULW", "-", "-", "-", "DIVW", "DIVUW", "REMW", "REMUW">>

IRow(row, op, funct3) ==
  Labelled(ITypes(op), funct3) /\ row = Rv64g!I(ITypes(op)[funct3 + 1], op, funct3)
SRow(row, op, funct3) ==
  Labelled(STypes(op), funct3) /\ row = Rv64g!S(STypes(op)[funct3 + 1], op, funct3)
BRow(row, funct3) ==
  Labelled(BTypes, funct3) /\ row = Rv64g!B(BTypes[funct3 + 1], funct3)
CsrRow(row, funct3) ==
  Labelled(CsrTypes, funct3) /\ row = Rv64g!Csr(CsrTypes[funct3 + 1], funct3)
RRow(row, op, funct3, funct7) ==
  /\ Labelled(RTypes(op, funct7), funct3)
  /\ row = Rv64g!R(RTypes(op, funct7)[funct3 + 1], op, funct3, funct7)

SpecialRows ==
  {Rv64g!U("LUI", 55), Rv64g!U("AUIPC", 23), Rv64g!J("JAL", 111),
   Rv64g!Shift6("SLLI", 1, 0), Rv64g!Shift6("SRLI", 5, 0), Rv64g!Shift6("SRAI", 5, 16),
   Rv64g!Shift5("SLLIW", 1, 0), Rv64g!Shift5("SRLIW", 5, 0), Rv64g!Shift5("SRAIW", 5, 32),
   Rv64g!Fence("FENCE", 0), Rv64g!Env("ECALL", 0), Rv64g!Env("EBREAK", 1)}

LEMMA ListingParts ==
  /\ Rv64g!BaseInstructions \subseteq Rv64g!Listing
  /\ Rv64g!MultiplyInstructions \subseteq Rv64g!Listing
  /\ Rv64g!AtomicInstructions \subseteq Rv64g!Listing
  /\ Rv64g!SingleInstructions \subseteq Rv64g!Listing
  /\ Rv64g!DoubleInstructions \subseteq Rv64g!Listing
  /\ \A row \in Rv64g!Listing :
       \/ row \in Rv64g!BaseInstructions \/ row \in Rv64g!MultiplyInstructions
       \/ row \in Rv64g!AtomicInstructions \/ row \in Rv64g!SingleInstructions
       \/ row \in Rv64g!DoubleInstructions
BY DEF Rv64g!Listing

\* P of every value of funct3
Octally(P(_)) == P(0) /\ P(1) /\ P(2) /\ P(3) /\ P(4) /\ P(5) /\ P(6) /\ P(7)

LEMMA Octal ==
  ASSUME NEW n \in Nat, n =< 7
  PROVE  n = 0 \/ n = 1 \/ n = 2 \/ n = 3 \/ n = 4 \/ n = 5 \/ n = 6 \/ n = 7
OBVIOUS

\* Every label is in the listing ...
LEMMA ILabels ==
  ASSUME NEW row, NEW op \in IOpcodes, NEW funct3 \in Nat, funct3 =< 7, IRow(row, op, funct3)
  PROVE  row \in Rv64g!Listing
<1>1. CASE op = 3
  <2> DEFINE P(f3) ==
        Labelled(ITypes(3), f3)
          => Rv64g!I(ITypes(3)[f3 + 1], 3, f3) \in Rv64g!BaseInstructions
  <2>1. Octally(P)
    BY DEF Octally, Labelled, ITypes, Rv64g!BaseInstructions
  <2>2. P(funct3)
    BY <2>1, Octal DEF Octally
  <2>. QED  BY <1>1, <2>2, ListingParts DEF IRow
<1>2. CASE op = 7
  <2> DEFINE P(f3) ==
        Labelled(ITypes(7), f3)
          => \/ Rv64g!I(ITypes(7)[f3 + 1], 7, f3) \in Rv64g!SingleInstructions
             \/ Rv64g!I(ITypes(7)[f3 + 1], 7, f3) \in Rv64g!DoubleInstructions
  <2>1. Octally(P)
    BY DEF Octally, Labelled, ITypes, Rv64g!SingleInstructions, Rv64g!DoubleInstructions
  <2>2. P(funct3)
    BY <2>1, Octal DEF Octally
  <2>. QED  BY <1>2, <2>2, ListingParts DEF IRow
<1>3. CASE op = 15
  <2> DEFINE P(f3) ==
        Labelled(ITypes(15), f3)
          => Rv64g!I(ITypes(15)[f3 + 1], 15, f3) \in Rv64g!BaseInstructions
  <2>1. Octally(P)
    BY DEF Octally, Labelled, ITypes, Rv64g!BaseInstructions
  <2>2. P(funct3)
    BY <2>1, Octal DEF Octally
  <2>. QED  BY <1>3, <2>2, ListingParts DEF IRow
<1>4. CASE op = 19
  <2> DEFINE P(f3) ==
        Labelled(ITypes(19), f3)
          => Rv64g!I(ITypes(19)[f3 + 1], 19, f3) \in Rv64g!BaseInstructions
  <2>1. Octally(P)
    BY DEF Octally, Labelled, ITypes, Rv64g!BaseInstructions
  <2>2. P(funct3)
    BY <2>1, Octal DEF Octally
  <2>. QED  BY <1>4, <2>2, ListingParts DEF IRow
<1>5. CASE op = 27
  <2> DEFINE P(f3) ==
        Labelled(ITypes(27), f3)
          => Rv64g!I(ITypes(27)[f3 + 1], 27, f3) \in Rv64g!BaseInstructions
  <2>1. Octally(P)
    BY DEF Octally, Labelled, ITypes, Rv64g!BaseInstructions
  <2>2. P(funct3)
    BY <2>1, Octal DEF Octally
  <2>. QED  BY <1>5, <2>2, ListingParts DEF IRow
<1>6. CASE op = 103
  <2> DEFINE P(f3) ==
        Labelled(ITypes(103), f3)
          => Rv64g!I(ITypes(103)[f3 + 1], 103, f3) \in Rv64g!BaseInstructions
  <2>1. Octally(P)
    BY DEF Octally, Labelled, ITypes, Rv64g!BaseInstructions
  <2>2. P(funct3)
    BY <2>1, Octal DEF Octally
  <2>. QED  BY <1>6, <2>2, ListingParts DEF IRow
<1>. QED  BY <1>1, <1>2, <1>3, <1>4, <1>5, <1>6 DEF IOpcodes

LEMMA SLabels ==
  ASSUME NEW row, NEW op \in SOpcodes, NEW funct3 \in Nat, funct3 =< 7, SRow(row, op, funct3)
  PROVE  row \in Rv64g!Listing
<1>1. CASE op = 35
  <2> DEFINE P(f3) ==
        Labelled(STypes(35), f3)
          => Rv64g!S(STypes(35)[f3 + 1], 35, f3) \in Rv64g!BaseInstructions
  <2>1. Octally(P)
    BY DEF Octally, Labelled, STypes, Rv64g!BaseInstructions
  <2>2. P(funct3)
    BY <2>1, Octal DEF Octally
  <2>. QED  BY <1>1, <2>2, ListingParts DEF SRow
<1>2. CASE op = 39
  <2> DEFINE P(f3) ==
        Labelled(STypes(39), f3)
          => \/ Rv64g!S(STypes(39)[f3 + 1], 39, f3) \in Rv64g!SingleInstructions
             \/ Rv64g!S(STypes(39)[f3 + 1], 39, f3) \in Rv64g!DoubleInstructions
  <2>1. Octally(P)
    BY DEF Octally, Labelled, STypes, Rv64g!SingleInstructions, Rv64g!DoubleInstructions
  <2>2. P(funct3)
    BY <2>1, Octal DEF Octally
  <2>. QED  BY <1>2, <2>2, ListingParts DEF SRow
<1>. QED  BY <1>1, <1>2 DEF SOpcodes

LEMMA BLabels ==
  ASSUME NEW row, NEW funct3 \in Nat, funct3 =< 7, BRow(row, funct3)
  PROVE  row \in Rv64g!Listing
<1> DEFINE P(f3) == Labelled(BTypes, f3) => Rv64g!B(BTypes[f3 + 1], f3) \in Rv64g!BaseInstructions
<1>1. Octally(P)
  BY DEF Octally, Labelled, BTypes, Rv64g!BaseInstructions
<1>2. P(funct3)
  BY <1>1, Octal DEF Octally
<1>. QED  BY <1>2, ListingParts DEF BRow

LEMMA CsrLabels ==
  ASSUME NEW row, NEW funct3 \in Nat, funct3 =< 7, CsrRow(row, funct3)
  PROVE  row \in Rv64g!Listing
<1> DEFINE P(f3) ==
      Labelled(CsrTypes, f3) => Rv64g!Csr(CsrTypes[f3 + 1], f3) \in Rv64g!BaseInstructions
<1>1. Octally(P)
  BY DEF Octally, Labelled, CsrTypes, Rv64g!BaseInstructions
<1>2. P(funct3)
  BY <1>1, Octal DEF Octally
<1>. QED  BY <1>2, ListingParts DEF CsrRow

LEMMA RLabels ==
  ASSUME NEW row, NEW op \in ROpcodes, NEW funct3 \in Nat, funct3 =< 7,
         NEW funct7 \in RFunct7s, RRow(row, op, funct3, funct7)
  PROVE  row \in Rv64g!Listing
<1> DEFINE InListing(f3, o, f7, part) ==
             Labelled(RTypes(o, f7), f3) => Rv64g!R(RTypes(o, f7)[f3 + 1], o, f3, f7) \in part
           P(f3) ==
             /\ InListing(f3, 51, 0, Rv64g!BaseInstructions)
             /\ InListing(f3, 51, 32, Rv64g!BaseInstructions)
             /\ InListing(f3, 51, 1, Rv64g!MultiplyInstructions)
           Q(f3) ==
             /\ InListing(f3, 59, 0, Rv64g!BaseInstructions)
             /\ InListing(f3, 59, 32, Rv64g!BaseInstructions)
             /\ InListing(f3, 59, 1, Rv64g!MultiplyInstructions)
<1>1. Octally(P)
  BY DEF Octally, Labelled, RTypes, Rv64g!BaseInstructions, Rv64g!MultiplyInstructions
<1>2. Octally(Q)
  BY DEF Octally, Labelled, RTypes, Rv64g!BaseInstructions, Rv64g!MultiplyInstructions
<1>3. P(funct3) /\ Q(funct3)
  BY <1>1, <1>2, Octal DEF Octally
<1>. QED  BY <1>3, ListingParts DEF RRow, ROpcodes, RFunct7s

\* ... and every other row has a label or is one of the special ones.
LEMMA BaseRows ==
  ASSUME NEW row \in Rv64g!BaseInstructions
  PROVE  \/ \E op \in IOpcodes, funct3 \in 0 .. 7 : IRow(row, op, funct3)
         \/ \E op \in SOpcodes, funct3 \in 0 .. 7 : SRow(row, op, funct3)
         \/ \E funct3 \in 0 .. 7 : BRow(row, funct3)
         \/ \E funct3 \in 0 .. 7 : CsrRow(row, funct3)
         \/ \E op \in ROpcodes, funct3 \in 0 .. 7, funct7 \in RFunct7s :
              RRow(row, op, funct3, funct7)
         \/ row \in SpecialRows
BY DEF IOpcodes, ITypes, SOpcodes, STypes, BTypes, CsrTypes, ROpcodes, RFunct7s, RTypes,
       IRow, SRow, BRow, CsrRow, RRow, SpecialRows, Labelled, Rv64g!BaseInstructions

LEMMA MultiplyRows ==
  ASSUME NEW row \in Rv64g!MultiplyInstructions
  PROVE  \E op \in ROpcodes, funct3 \in 0 .. 7, funct7 \in RFunct7s :
           RRow(row, op, funct3, funct7)
BY DEF ROpcodes, RFunct7s, RTypes, RRow, Labelled, Rv64g!MultiplyInstructions

\* Of a case of the decoder, the row of the listing for its single (word) and
\* for its double (doubleword) variant
AmoRow(row, case) ==
  \/ row = Rv64g!A(case[2], case[1], 2)
  \/ row = Rv64g!A(case[3], case[1], 3)
FusedRow(row, case) ==
  \/ row = Rv64g!FR4(case[2], case[1], 0)
  \/ row = Rv64g!FR4(case[3], case[1], 1)
ArithmeticRow(row, case) ==
  \/ row = Rv64g!FR(case[2], case[1])
  \/ row = Rv64g!FR(case[3], case[1] + 1)
ByFunct3Row(row, case) ==
  LET key == case[1]
  IN  IF key[1] \in {112, 120}
      THEN \/ row = Rv64g!FRU(case[2], key[1], key[2])
           \/ row = Rv64g!FRU(case[3], key[1] + 1, key[2])
      ELSE \/ row = Rv64g!FR3(case[2], key[1], key[2])
           \/ row = Rv64g!FR3(case[3], key[1] + 1, key[2])
\* FCVT.D.S is not where the decoder looks for it.
BySource2Row(row, case) ==
  LET key == case[1]
  IN  \/ row = Rv64g!FR1(case[2], key[1], key[2])
      \/ case[3] # "FCVTDS" /\ row = Rv64g!FR1(case[3], key[1] + 1, key[2])

DivisionRows == {Rv64g!FR("FDIVS", 12), Rv64g!FR("FDIVD", 13)}
MisplacedRows ==
  {Rv64g!FR1("FSQRTS", 44, 0), Rv64g!FR1("FSQRTD", 45, 0), Rv64g!FR1("FCVTDS", 33, 0)}

LEMMA AtomicRows ==
  /\ \A row \in Rv64g!AtomicInstructions : \E case \in AmoTypes : AmoRow(row, case)
  /\ \A case \in AmoTypes :
       /\ Rv64g!A(case[2], case[1], 2) \in Rv64g!Listing
       /\ Rv64g!A(case[3], case[1], 3) \in Rv64g!Listing
<1>1. \A case \in AmoTypes :
        /\ Rv64g!A(case[2], case[1], 2) \in Rv64g!AtomicInstructions
        /\ Rv64g!A(case[3], case[1], 3) \in Rv64g!AtomicInstructions
  BY DEF AmoTypes, Rv64g!AtomicInstructions
<1>2. \A row \in Rv64g!AtomicInstructions : \E case \in AmoTypes : AmoRow(row, case)
  BY DEF AmoTypes, AmoRow, Rv64g!AtomicInstructions
<1>. QED  BY <1>1, <1>2, ListingParts

\* The cases of the decoder are in the listing.
LEMMA FloatCases ==
  /\ \A case \in FusedTypes :
       /\ Rv64g!FR4(case[2], case[1], 0) \in Rv64g!Listing
       /\ Rv64g!FR4(case[3], case[1], 1) \in Rv64g!Listing
  /\ \A case \in FloatArithmetic :
       /\ Rv64g!FR(case[2], case[1]) \in Rv64g!Listing
       /\ Rv64g!FR(case[3], case[1] + 1) \in Rv64g!Listing
  /\ \A case \in FloatByFunct3 :
       IF case[1][1] \in {112, 120}
       THEN /\ Rv64g!FRU(case[2], case[1][1], case[1][2]) \in Rv64g!Listing
            /\ Rv64g!FRU(case[3], case[1][1] + 1, case[1][2]) \in Rv64g!Listing
       ELSE /\ Rv64g!FR3(case[2], case[1][1], case[1][2]) \in Rv64g!Listing
            /\ Rv64g!FR3(case[3], case[1][1] + 1, case[1][2]) \in Rv64g!Listing
  /\ \A case \in FloatBySource2 :
       /\ Rv64g!FR1(case[2], case[1][1], case[1][2]) \in Rv64g!Listing
       /\ case[3] # "FCVTDS"
            => Rv64g!FR1(case[3], case[1][1] + 1, case[1][2]) \in Rv64g!Listing
  /\ DivisionRows \subseteq Rv64g!Listing /\ MisplacedRows \subseteq Rv64g!Listing
<1>. USE DEF Rv64g!SingleInstructions, Rv64g!DoubleInstructions
<1>1. \A case \in FusedTypes :
        /\ Rv64g!FR4(case[2], case[1], 0) \in Rv64g!SingleInstructions
        /\ Rv64g!FR4(case[3], case[1], 1) \in Rv64g!DoubleInstructions
  BY DEF FusedTypes
<1>2. \A case \in FloatArithmetic :
        /\ Rv64g!FR(case[2], case[1]) \in Rv64g!SingleInstructions
        /\ Rv64g!FR(case[3], case[1] + 1) \in Rv64g!DoubleInstructions
  BY DEF FloatArithmetic
<1>3. \A case \in FloatByFunct3 :
        IF case[1][1] \in {112, 120}
        THEN /\ Rv64g!FRU(case[2], case[1][1], case[1][2]) \in Rv64g!SingleInstructions
             /\ Rv64g!FRU(case[3], case[1][1] + 1, case[1][2]) \in Rv64g!DoubleInstructions
        ELSE /\ Rv64g!FR3(case[2], case[1][1], case[1][2]) \in Rv64g!SingleInstructions
             /\ Rv64g!FR3(case[3], case[1][1] + 1, case[1][2]) \in Rv64g!DoubleInstructions
  BY DEF FloatByFunct3
<1>4. \A case \in FloatBySource2 :
        /\ Rv64g!FR1(case[2], case[1][1], case[1][2]) \in Rv64g!SingleInstructions
        /\ case[3] # "FCVTDS"
             => Rv64g!FR1(case[3], case[1][1] + 1, case[1][2]) \in Rv64g!DoubleInstructions
  BY DEF FloatBySource2
<1>5. \A row \in DivisionRows \union MisplacedRows :
        row \in Rv64g!SingleInstructions \/ row \in Rv64g!DoubleInstructions
  BY DEF DivisionRows, MisplacedRows
<1>. HIDE DEF Rv64g!SingleInstructions, Rv64g!DoubleInstructions
<1>. QED  BY <1>1, <1>2, <1>3, <1>4, <1>5, ListingParts

\* What the rows of the floating point extensions are
FloatRow(row) ==
  \/ \E op \in IOpcodes, funct3 \in 0 .. 7 : IRow(row, op, funct3)
  \/ \E op \in SOpcodes, funct3 \in 0 .. 7 : SRow(row, op, funct3)
  \/ \E case \in FusedTypes : FusedRow(row, case)
  \/ \E case \in FloatArithmetic : ArithmeticRow(row, case)
  \/ \E case \in FloatByFunct3 : ByFunct3Row(row, case)
  \/ \E case \in FloatBySource2 : BySource2Row(row, case)
  \/ row \in DivisionRows \union MisplacedRows

LEMMA FloatRows ==
  \A row \in Rv64g!SingleInstructions \union Rv64g!DoubleInstructions : FloatRow(row)
<1>. USE DEF FloatRow, IOpcodes, ITypes, SOpcodes, STypes, IRow, SRow, Labelled,
             FusedTypes, FusedRow, FloatArithmetic, ArithmeticRow, FloatByFunct3, ByFunct3Row,
             FloatBySource2, BySource2Row, DivisionRows, MisplacedRows
<1>1. ASSUME NEW row \in Rv64g!SingleInstructions PROVE FloatRow(row)
  BY DEF Rv64g!SingleInstructions
<1>2. ASSUME NEW row \in Rv64g!DoubleInstructions PROVE FloatRow(row)
  BY DEF Rv64g!DoubleInstructions
<1>. HIDE DEF FloatRow
<1>. QED  BY <1>1, <1>2

-----------------------------------------------------------------------------
(***************************************************************************)
(* decodeInstruction, opcode by opcode                                     *)
(***************************************************************************)
LEMMA CaseIs ==
  ASSUME NEW table, NEW case \in table, \A other \in table : other[1] = case[1] => other = case
  PROVE  HasCase(table, case[1]) /\ CaseOf(table, case[1]) = case
BY DEF HasCase, CaseOf

FusedOpcodes == {67, 71, 75, 79}

LEMMA FusedCases ==
  ASSUME NEW op \in Nat
  PROVE  HasCase(FusedTypes, op) <=> op \in FusedOpcodes
BY DEF HasCase, FusedTypes, FusedOpcodes

Opcodes == {3, 7, 15, 19, 23, 27, 35, 39, 47, 51, 55, 59, 83, 99, 103, 111, 115} \union FusedOpcodes

LEMMA ByOpcode ==
  ASSUME NEW word \in Word(32)
  PROVE  /\ getOpcode(word) = 55
              => decodeInstruction(word) = [readFieldsU(word) EXCEPT !.type = "LUI"]
         /\ getOpcode(word) = 23
              => decodeInstruction(word) = [readFieldsU(word) EXCEPT !.type = "AUIPC"]
         /\ getOpcode(word) = 111
              => decodeInstruction(word) = [readFieldsJ(word) EXCEPT !.type = "JAL"]
         /\ getOpcode(word) = 103
              => decodeInstruction(word) = [readFieldsI(word) EXCEPT !.type = "JALR"]
         /\ getOpcode(word) = 99  => decodeInstruction(word) = decodeBranch(word)
         /\ getOpcode(word) = 3   => decodeInstruction(word) = decodeLoad(word)
         /\ getOpcode(word) = 35  => decodeInstruction(word) = decodeStore(word)
         /\ getOpcode(word) = 19  => decodeInstruction(word) = decodeOpImm(word)
         /\ getOpcode(word) = 27  => decodeInstruction(word) = decodeOpImm32(word)
         /\ getOpcode(word) = 51  => decodeInstruction(word) = decodeOp(word)
         /\ getOpcode(word) = 59  => decodeInstruction(word) = decodeOp32(word)
         /\ getOpcode(word) = 15  => decodeInstruction(word) = decodeMiscMem(word)
         /\ getOpcode(word) = 115 => decodeInstruction(word) = decodeSystem(word)
         /\ getOpcode(word) = 47  => decodeInstruction(word) = decodeAMO(word)
         /\ getOpcode(word) = 7   => decodeInstruction(word) = decodeLoadFP(word)
         /\ getOpcode(word) = 39  => decodeInstruction(word) = decodeStoreFP(word)
         /\ getOpcode(word) \in FusedOpcodes
              => decodeInstruction(word) = decodeFPFusedMultiplyAdd(word, getOpcode(word))
         /\ getOpcode(word) = 83  => decodeInstruction(word) = decodeOpFP(word)
         /\ getOpcode(word) \notin Opcodes => decodeInstruction(word) = Unknown
<1>1. HasCase(FusedTypes, getOpcode(word)) <=> getOpcode(word) \in FusedOpcodes
  BY FusedCases, FieldRanges
<1>. QED  BY <1>1 DEF decodeInstruction, FusedOpcodes, Opcodes

LEMMA UpperAndJump ==
  ASSUME NEW word \in Word(32)
  PROVE  /\ getOpcode(word) = 55
              => decodeInstruction(word) = InstrU("LUI", Rv64g!ImmediateOf("U", word), word)
         /\ getOpcode(word) = 23
              => decodeInstruction(word) = InstrU("AUIPC", Rv64g!ImmediateOf("U", word), word)
         /\ getOpcode(word) = 111
              => decodeInstruction(word) = InstrU("JAL", Rv64g!ImmediateOf("J", word), word)
         /\ getOpcode(word) = 103
              => decodeInstruction(word) = InstrI("JALR", Rv64g!ImmediateOf("I", word), word)
<1>1. ASSUME NEW type, NEW immediate
      PROVE  /\ [InstrU("LUI", immediate, word) EXCEPT !.type = type]
                  = InstrU(type, immediate, word)
             /\ [InstrI("LUI", immediate, word) EXCEPT !.type = type]
                  = InstrI(type, immediate, word)
  BY Updated DEF InstrU, InstrI
<1>2. /\ [readFieldsU(word) EXCEPT !.type = "LUI"]
           = InstrU("LUI", Rv64g!ImmediateOf("U", word), word)
      /\ [readFieldsU(word) EXCEPT !.type = "AUIPC"]
           = InstrU("AUIPC", Rv64g!ImmediateOf("U", word), word)
      /\ [readFieldsJ(word) EXCEPT !.type = "JAL"]
           = InstrU("JAL", Rv64g!ImmediateOf("J", word), word)
      /\ [readFieldsI(word) EXCEPT !.type = "JALR"]
           = InstrI("JALR", Rv64g!ImmediateOf("I", word), word)
  BY <1>1, Fields
<1>. QED  BY <1>2, ByOpcode

LEMMA LoadSwitch ==
  ASSUME NEW word \in Word(32), NEW op \in {3, 7}, getOpcode(word) = op
  PROVE  decodeInstruction(word) =
           Switch(ITypes(op), getFunct3(word),
                  InstrI("LUI", Rv64g!ImmediateOf("I", word), word), Unknown)
<1>1. /\ decodeLoad(word) = Switch(ITypes(3), getFunct3(word), readFieldsI(word), Unknown)
      /\ decodeLoadFP(word) = Switch(ITypes(7), getFunct3(word), readFieldsI(word), Unknown)
  BY DEF decodeLoad, decodeLoadFP, ITypes
<1>. QED  BY <1>1, ByOpcode, Fields

LEMMA StoreSwitch ==
  ASSUME NEW word \in Word(32), NEW op \in SOpcodes, getOpcode(word) = op
  PROVE  decodeInstruction(word) =
           Switch(STypes(op), getFunct3(word),
                  InstrS("LUI", Rv64g!ImmediateOf("S", word), word), Unknown)
BY ByOpcode, Fields DEF decodeStore, decodeStoreFP, STypes, SOpcodes

LEMMA BranchSwitch ==
  ASSUME NEW word \in Word(32), getOpcode(word) = 99
  PROVE  decodeInstruction(word) =
           Switch(BTypes, getFunct3(word),
                  InstrS("LUI", Rv64g!ImmediateOf("B", word), word), Unknown)
BY ByOpcode, Fields DEF decodeBranch, BTypes

LEMMA OpSwitch ==
  ASSUME NEW word \in Word(32), NEW op \in ROpcodes, getOpcode(word) = op
  PROVE  /\ getFunct7(word) \in RFunct7s
              => decodeInstruction(word) =
                   Switch(RTypes(op, getFunct7(word)), getFunct3(word),
                          InstrR("LUI", {}, word), Unknown)
         /\ getFunct7(word) \notin RFunct7s => decodeInstruction(word) = Unknown
<1>1. ASSUME NEW funct7
      PROVE  /\ HasCase(OpTypes, funct7) <=> funct7 \in RFunct7s
             /\ HasCase(Op32Types, funct7) <=> funct7 \in RFunct7s
  BY DEF HasCase, OpTypes, Op32Types, RFunct7s
<1>2. ASSUME NEW funct7 \in RFunct7s
      PROVE  /\ CaseOf(OpTypes, funct7)[2] = RTypes(51, funct7)
             /\ CaseOf(Op32Types, funct7)[2] = RTypes(59, funct7)
  <2>1. /\ CaseOf(OpTypes, funct7) \in OpTypes /\ CaseOf(OpTypes, funct7)[1] = funct7
        /\ CaseOf(Op32Types, funct7) \in Op32Types /\ CaseOf(Op32Types, funct7)[1] = funct7
    BY <1>1 DEF HasCase, CaseOf
  <2>2. /\ OpTypes = {<<0, RTypes(51, 0)>>, <<32, RTypes(51, 32)>>, <<1, RTypes(51, 1)>>}
        /\ Op32Types = {<<0, RTypes(59, 0)>>, <<32, RTypes(59, 32)>>, <<1, RTypes(59, 1)>>}
    BY DEF OpTypes, Op32Types, RTypes
  <2>3. /\ \A case \in OpTypes : case[2] = RTypes(51, case[1])
        /\ \A case \in Op32Types : case[2] = RTypes(59, case[1])
    BY <2>2
  <2>. QED  BY <2>1, <2>2, <2>3
<1>. QED
  BY <1>1, <1>2, ByOpcode, Fields DEF decodeOp, decodeOp32, SwitchFunct7, ROpcodes

\* Two switches with the same label for a value
LEMMA SameLabel ==
  ASSUME NEW types, NEW others, NEW value, NEW instr,
         Labelled(types, value) <=> Labelled(others, value),
         Labelled(types, value) => types[value + 1] = others[value + 1]
  PROVE  Switch(types, value, instr, Unknown) = Switch(others, value, instr, Unknown)
BY DEF Switch

LEMMA FenceSwitch ==
  ASSUME NEW word \in Word(32), getOpcode(word) = 15, getFunct3(word) # 0
  PROVE  decodeInstruction(word) =
           Switch(ITypes(15), getFunct3(word),
                  InstrI("LUI", Rv64g!ImmediateOf("I", word), word), Unknown)
<1>1. Switch(<<"-", "FENCEI">>, getFunct3(word), readFieldsI(word), Unknown)
        = Switch(ITypes(15), getFunct3(word), readFieldsI(word), Unknown)
  BY DEF ITypes
<1>2. decodeMiscMem(word) = Switch(<<"-", "FENCEI">>, getFunct3(word), readFieldsI(word), Unknown)
  BY DEF decodeMiscMem
<1>. QED  BY <1>1, <1>2, ByOpcode, Fields

LEMMA ImmediateSwitch ==
  ASSUME NEW word \in Word(32), NEW op \in {19, 27}, getOpcode(word) = op,
         getFunct3(word) # 1, getFunct3(word) # 5
  PROVE  decodeInstruction(word) =
           Switch(ITypes(op), getFunct3(word),
                  InstrI("LUI", Rv64g!ImmediateOf("I", word), word), Unknown)
<1> DEFINE funct3 == getFunct3(word)
           fields == readFieldsI(word)
           types == <<"ADDI", "SLLI", "SLTI", "SLTIU", "XORI", "-", "ORI", "ANDI">>
           types32 == <<"ADDIW", "SLLIW">>
           Same(list, others, f3) ==
             /\ Labelled(list, f3) <=> Labelled(others, f3)
             /\ Labelled(list, f3) => list[f3 + 1] = others[f3 + 1]
           P(f3) == f3 # 1 /\ f3 # 5 => /\ Same(types, ITypes(19), f3)
                                        /\ Same(types32, ITypes(27), f3)
<1>1. Octally(P)
  BY DEF Octally, ITypes, Labelled
<1>2. funct3 \in Nat /\ funct3 =< 7
  BY FieldRanges
<1>3. op = 19 => decodeInstruction(word) = Switch(types, funct3, fields, Unknown)
  BY ByOpcode DEF decodeOpImm
<1>4. op = 27 => decodeInstruction(word) = Switch(types32, funct3, fields, Unknown)
  BY ByOpcode DEF decodeOpImm32
<1> HIDE DEF types, types32, fields, Same
<1>5. Same(types, ITypes(19), funct3) /\ Same(types32, ITypes(27), funct3)
  BY <1>1, <1>2, Octal DEF Octally
<1>6. decodeInstruction(word) = Switch(ITypes(op), funct3, fields, Unknown)
  BY <1>3, <1>4, <1>5, SameLabel DEF Same
<1>. QED  BY <1>6, Fields DEF fields

\* Label 1 of OP-IMM and OP-IMM-32 is a shift of any immediate; at label 5
\* bit 30 of the word tells the two right shifts apart.
LEMMA ShiftDecoded ==
  ASSUME NEW word \in Word(32), NEW op \in {19, 27}, getOpcode(word) = op
  PROVE  /\ getFunct3(word) = 1
              => decodeInstruction(word) =
                   InstrI(IF op = 19 THEN "SLLI" ELSE "SLLIW", Rv64g!ImmediateOf("I", word), word)
         /\ getFunct3(word) = 5 /\ 30 \notin word
              => decodeInstruction(word) =
                   InstrI(IF op = 19 THEN "SRLI" ELSE "SRLIW", Rv64g!ImmediateOf("I", word), word)
         /\ getFunct3(word) = 5 /\ 30 \in word
              => decodeInstruction(word) =
                   InstrI(IF op = 19 THEN "SRAI" ELSE "SRAIW",
                          clearBit(getImmediateI(word), 10), word)
<1> DEFINE immediate == getImmediateI(word)
           instr == InstrI("LUI", immediate, word)
<1>1. readFieldsI(word) = instr /\ immediate = Rv64g!ImmediateOf("I", word)
  BY Fields, FormatImmediates
<1>2. \A type : [instr EXCEPT !.type = type] = InstrI(type, immediate, word)
  BY Updated DEF InstrI
<1>3. \A type : [instr EXCEPT !.immediate = clearBit(@, 10), !.type = type]
                  = InstrI(type, clearBit(immediate, 10), word)
  <2>1. instr.immediate = immediate
    BY Updated DEF InstrI
  <2>2. \A value : [instr EXCEPT !.immediate = value] = InstrI("LUI", value, word)
    BY Updated DEF InstrI
  <2>3. \A value, type : [InstrI("LUI", value, word) EXCEPT !.type = type]
                            = InstrI(type, value, word)
    BY Updated DEF InstrI
  <2> HIDE DEF instr, immediate
  <2>. TAKE type
  <2>4. [InstrI("LUI", clearBit(immediate, 10), word) EXCEPT !.type = type]
          = InstrI(type, clearBit(immediate, 10), word)
    BY <2>3
  <2>. QED  BY <2>1, <2>2, <2>4
<1>4. instr.immediate = immediate
  BY Updated DEF InstrI
<1>5. hasBit(immediate, 10) <=> 30 \in word
  BY ShiftImmediates
<1> HIDE DEF instr, immediate
<1>6. \A arithmetic, logical :
        RightShift(instr, arithmetic, logical) =
          IF 30 \in word THEN InstrI(arithmetic, clearBit(immediate, 10), word)
          ELSE InstrI(logical, immediate, word)
  BY <1>2, <1>3, <1>4, <1>5 DEF RightShift
<1>7. ASSUME getFunct3(word) = 5
      PROVE  /\ op = 19 => decodeInstruction(word) = RightShift(instr, "SRAI", "SRLI")
             /\ op = 27 => decodeInstruction(word) = RightShift(instr, "SRAIW", "SRLIW")
  BY <1>1, <1>7, ByOpcode DEF decodeOpImm, decodeOpImm32
<1>8. ASSUME getFunct3(word) = 1
      PROVE  /\ op = 19 => decodeInstruction(word) = [instr EXCEPT !.type = "SLLI"]
             /\ op = 27 => decodeInstruction(word) = [instr EXCEPT !.type = "SLLIW"]
  <2>1. /\ Switch(<<"ADDI", "SLLI", "SLTI", "SLTIU", "XORI", "-", "ORI", "ANDI">>, 1, instr,
                  Unknown) = [instr EXCEPT !.type = "SLLI"]
        /\ Switch(<<"ADDIW", "SLLIW">>, 1, instr, Unknown) = [instr EXCEPT !.type = "SLLIW"]
    BY DEF Labelled, Switch
  <2>2. /\ decodeOpImm(word) =
             Switch(<<"ADDI", "SLLI", "SLTI", "SLTIU", "XORI", "-", "ORI", "ANDI">>, 1, instr,
                    Unknown)
        /\ decodeOpImm32(word) = Switch(<<"ADDIW", "SLLIW">>, 1, instr, Unknown)
    BY <1>1, <1>8 DEF decodeOpImm, decodeOpImm32
  <2>. QED  BY <2>1, <2>2, ByOpcode
<1>. QED  BY <1>1, <1>2, <1>6, <1>7, <1>8 DEF immediate

LEMMA FenceDecoded ==
  ASSUME NEW word \in Word(32), getOpcode(word) = 15, getFunct3(word) = 0
  PROVE  decodeInstruction(word)
           = InstrI(Rv64g!FenceType(word), Rv64g!ImmediateOf("Fence", word), word)
<1> DEFINE fields == InstrI("LUI", getImmediateI(word), word)
           fence == Rv64g!ImmediateOf("Fence", word)
           instr == [fields EXCEPT !.immediate = @ \intersect oneBits(12)]
<1>1. readFieldsI(word) = fields
  BY Fields, FormatImmediates
<1>2. instr = InstrI("LUI", fence, word)
  <2>1. fields.immediate = getImmediateI(word)
    BY Updated DEF InstrI
  <2>2. [fields EXCEPT !.immediate = fence] = InstrI("LUI", fence, word)
    BY Updated DEF InstrI
  <2>3. getImmediateI(word) \intersect oneBits(12) = fence
    BY FlagImmediates
  <2> HIDE DEF fence
  <2>4. instr = [fields EXCEPT !.immediate = fence]
    BY <2>1, <2>3
  <2>. QED  BY <2>2, <2>4
<1>3. decodeInstruction(word) =
        [instr EXCEPT !.type = CASE instr.immediate = {0, 1, 4, 5, 11} -> "FENCETSO"
                                 [] instr.immediate = {4} -> "PAUSE"
                                 [] OTHER -> "FENCE"]
  BY <1>1, ByOpcode DEF decodeMiscMem
<1> HIDE DEF instr
<1>4. instr.immediate = fence
  BY <1>2, Updated DEF InstrI
<1>5. Rv64g!FenceType(word) = CASE fence = {0, 1, 4, 5, 11} -> "FENCETSO"
                                [] fence = {4} -> "PAUSE"
                                [] OTHER -> "FENCE"
  <2>1. {11} \union {5, 4} \union {1, 0} = {0, 1, 4, 5, 11}
    OBVIOUS
  <2>. QED  BY <2>1 DEF Rv64g!FenceType
<1> HIDE DEF fence
<1>6. decodeInstruction(word) = [instr EXCEPT !.type = Rv64g!FenceType(word)]
  BY <1>3, <1>4, <1>5
<1>7. \A type : [instr EXCEPT !.type = type] = InstrI(type, fence, word)
  BY <1>2, Updated DEF InstrI
<1>. QED  BY <1>6, <1>7 DEF fence

LEMMA SystemDecoded ==
  ASSUME NEW word \in Word(32), getOpcode(word) = 115
  PROVE  IF getFunct3(word) = 0
         THEN decodeInstruction(word) =
                CASE getImmediateI(word) = {}  -> InstrI("ECALL", {}, word)
                  [] getImmediateI(word) = {0} -> InstrI("EBREAK", {}, word)
                  [] OTHER -> Unknown
         ELSE decodeInstruction(word) =
                Switch(CsrTypes, getFunct3(word), InstrI("LUI", {}, word), Unknown)
<1> DEFINE fields == InstrI("LUI", getImmediateI(word), word)
           instr == InstrI("LUI", {}, word)
<1>1. readFieldsI(word) = fields
  BY Fields, FormatImmediates
<1>2. [fields EXCEPT !.immediate = {}] = instr
  BY Updated DEF InstrI
<1>3. \A type : [instr EXCEPT !.type = type] = InstrI(type, {}, word)
  BY Updated DEF InstrI
<1> HIDE DEF fields, instr
<1>4. decodeInstruction(word) =
        IF getFunct3(word) = 0
        THEN CASE getImmediateI(word) = {}  -> [instr EXCEPT !.type = "ECALL"]
               [] getImmediateI(word) = {0} -> [instr EXCEPT !.type = "EBREAK"]
               [] OTHER -> Unknown
        ELSE Switch(CsrTypes, getFunct3(word), instr, Unknown)
  BY <1>1, <1>2, ByOpcode DEF decodeSystem, CsrTypes
<1>. QED  BY <1>3, <1>4 DEF instr

\* A case of decodeAMO: the word variant at funct3 2, the doubleword one at 3
LEMMA AmoDecoded ==
  ASSUME NEW word \in Word(32), getOpcode(word) = 47
  PROVE  /\ \A case \in AmoTypes :
              getFunct7(word) \div 4 = case[1]
                => decodeInstruction(word) =
                     IF getFunct3(word) = 2 THEN InstrR(case[2], Rv64g!ImmediateOf("A", word), word)
                     ELSE IF getFunct3(word) = 3
                          THEN InstrR(case[3], Rv64g!ImmediateOf("A", word), word)
                          ELSE Unknown
         /\ ~HasCase(AmoTypes, getFunct7(word) \div 4) => decodeInstruction(word) = Unknown
<1> DEFINE funct3 == getFunct3(word)
           funct5 == getFunct7(word) \div 4
           flags == Rv64g!ImmediateOf("A", word)
           instr == InstrR("LUI", flags, word)
<1>1. [readFieldsR(word) EXCEPT !.immediate = Bits(word, 25, 26)] = instr
  <2>1. readFieldsR(word) = InstrR("LUI", {}, word)
    BY Fields
  <2>2. Bits(word, 25, 26) = flags
    BY FlagImmediates
  <2>3. [InstrR("LUI", {}, word) EXCEPT !.immediate = flags] = instr
    BY Updated DEF InstrR
  <2> HIDE DEF instr, flags
  <2>. QED  BY <2>1, <2>2, <2>3
<1>2. \A type : [instr EXCEPT !.type = type] = InstrR(type, flags, word)
  BY Updated DEF InstrR
<1>3. \A case, other \in AmoTypes : other[1] = case[1] => other = case
  BY DEF AmoTypes
<1>4. \A case \in AmoTypes : case[2] \notin {"-"} /\ case[3] \notin {"-"}
  BY DEF AmoTypes
<1> HIDE DEF instr, flags
<1>5. decodeInstruction(word) =
        IF HasCase(AmoTypes, funct5)
        THEN Switch(<<"-", "-", CaseOf(AmoTypes, funct5)[2], CaseOf(AmoTypes, funct5)[3]>>,
                    funct3, instr, Unknown)
        ELSE Unknown
  BY <1>1, ByOpcode DEF decodeAMO
<1>6. ASSUME NEW single, NEW double, single \notin {"-"}, double \notin {"-"}
      PROVE  Switch(<<"-", "-", single, double>>, funct3, instr, Unknown) =
               IF funct3 = 2 THEN InstrR(single, flags, word)
               ELSE IF funct3 = 3 THEN InstrR(double, flags, word) ELSE Unknown
  <2> DEFINE types == <<"-", "-", single, double>>
  <2>1. /\ DOMAIN types = 1 .. 4
        /\ types[1] = "-" /\ types[2] = "-" /\ types[3] = single /\ types[4] = double
    OBVIOUS
  <2> HIDE DEF types
  <2>2. /\ Labelled(types, funct3) <=> funct3 = 2 \/ funct3 = 3
        /\ funct3 = 2 => types[funct3 + 1] = single
        /\ funct3 = 3 => types[funct3 + 1] = double
    BY <1>6, <2>1, FieldRanges DEF Labelled
  <2>. QED  BY <1>2, <2>2 DEF Switch, types
<1>7. ASSUME NEW case \in AmoTypes, funct5 = case[1]
      PROVE  decodeInstruction(word) =
               IF funct3 = 2 THEN InstrR(case[2], flags, word)
               ELSE IF funct3 = 3 THEN InstrR(case[3], flags, word) ELSE Unknown
  <2>1. HasCase(AmoTypes, funct5) /\ CaseOf(AmoTypes, funct5) = case
    BY <1>3, <1>7, CaseIs
  <2>. QED  BY <1>4, <1>5, <1>6, <2>1
<1>. QED  BY <1>5, <1>7 DEF flags

\* The fused operations: precision by the low bits of funct7
LEMMA FusedDecoded ==
  ASSUME NEW word \in Word(32), NEW case \in FusedTypes, getOpcode(word) = case[1]
  PROVE  decodeInstruction(word) =
           IF Number[Bits(word, 25, 26)] = 0
           THEN InstrR(case[2], Rv64g!ImmediateOf("R4", word), word)
           ELSE IF Number[Bits(word, 25, 26)] = 1
                THEN InstrR(case[3], Rv64g!ImmediateOf("R4", word), word)
                ELSE Unknown
<1> DEFINE funct2 == Number[Bits(word, 25, 26)]
           operands == Rv64g!ImmediateOf("R4", word)
           instr == InstrR("LUI", operands, word)
<1>1. FloatOp(readFieldsR(word), word, Bits(word, 27, 31)) = instr
  <2>1. readFieldsR(word) = InstrR("LUI", {}, word)
    BY Fields
  <2>2. Bits(word, 12, 14) \union Shifted(Bits(word, 27, 31), 8) = operands
    BY FlagImmediates
  <2>3. [InstrR("LUI", {}, word) EXCEPT !.immediate = operands] = instr
    BY Updated DEF InstrR
  <2> HIDE DEF instr, operands
  <2>. QED  BY <2>1, <2>2, <2>3 DEF FloatOp
<1>2. \A type : [instr EXCEPT !.type = type] = InstrR(type, operands, word)
  BY Updated DEF InstrR
<1>3. \A other \in FusedTypes : other[1] = case[1] => other = case
  BY DEF FusedTypes
<1>4. case[1] \in FusedOpcodes /\ case[2] \notin {"-"} /\ case[3] \notin {"-"}
  BY DEF FusedTypes, FusedOpcodes
<1>5. funct2 \in Nat
  BY BitsShort, NumberRange
<1> HIDE DEF instr, operands, funct2
<1>6. CaseOf(FusedTypes, case[1]) = case
  BY <1>3, CaseIs
<1>7. decodeInstruction(word) = Switch(<<case[2], case[3]>>, funct2, instr, Unknown)
  BY <1>1, <1>4, <1>6, ByOpcode DEF decodeFPFusedMultiplyAdd, funct2
<1>8. ASSUME NEW single, NEW double, single \notin {"-"}, double \notin {"-"}
      PROVE  Switch(<<single, double>>, funct2, instr, Unknown) =
               IF funct2 = 0 THEN InstrR(single, operands, word)
               ELSE IF funct2 = 1 THEN InstrR(double, operands, word) ELSE Unknown
  <2> DEFINE types == <<single, double>>
  <2>1. /\ DOMAIN types = 1 .. 2 /\ types[1] = single /\ types[2] = double
    OBVIOUS
  <2> HIDE DEF types
  <2>2. /\ Labelled(types, funct2) <=> funct2 = 0 \/ funct2 = 1
        /\ funct2 = 0 => types[funct2 + 1] = single
        /\ funct2 = 1 => types[funct2 + 1] = double
    BY <1>5, <1>8, <2>1 DEF Labelled
  <2>. QED  BY <1>2, <2>2 DEF Switch, types
<1>. QED  BY <1>4, <1>7, <1>8 DEF operands, funct2

\* funct7 of OP-FP without its lowest bit, which is the precision
EvenFunct7Of(word) == getFunct7(word) - (IF 25 \in word THEN 1 ELSE 0)

\* The type of a case for the precision of word
TypeFor(case, word) == IF 25 \in word THEN case[3] ELSE case[2]

FloatInstr(type, word) == InstrR(type, Rv64g!ImmediateOf("FR", word), word)

\* The keys of the cases do not overlap.
LEMMA FloatKeys ==
  /\ \A case, other \in FloatArithmetic : other[1] = case[1] => other = case
  /\ \A case, other \in FloatByFunct3 : other[1] = case[1] => other = case
  /\ \A case, other \in FloatBySource2 : other[1] = case[1] => other = case
  /\ \A case \in FloatArithmetic : case[1] \in {0, 4, 8}
  /\ \A case \in FloatByFunct3 : case[1][1] \in {16, 20, 112, 80, 120}
  /\ \A case \in FloatBySource2 : case[1][1] \in {32, 96, 104}
  /\ \A case \in FloatByFunct3 \union FloatBySource2 : case[1] = <<case[1][1], case[1][2]>>
BY DEF FloatArithmetic, FloatByFunct3, FloatBySource2

LEMMA FloatDecoded ==
  ASSUME NEW word \in Word(32), getOpcode(word) = 83,
         NEW even, even = EvenFunct7Of(word)
  PROVE  /\ \A case \in FloatArithmetic :
              even = case[1] => decodeInstruction(word) = FloatInstr(TypeFor(case, word), word)
         /\ even = 12
              => decodeInstruction(word) =
                   FloatInstr(IF getSourceRegister2(word) = 0
                              THEN IF 25 \in word THEN "FSQRTD" ELSE "FSQRTS"
                              ELSE IF 25 \in word THEN "FDIVD" ELSE "FDIVS", word)
         /\ \A case \in FloatByFunct3 :
              <<even, getFunct3(word)>> = case[1]
                => decodeInstruction(word) = FloatInstr(TypeFor(case, word), word)
         /\ \A case \in FloatBySource2 :
              <<even, getSourceRegister2(word)>> = case[1]
                => decodeInstruction(word) = FloatInstr(TypeFor(case, word), word)
         /\ \/ \E case \in FloatArithmetic : even = case[1]
            \/ even = 12
            \/ \E case \in FloatByFunct3 : <<even, getFunct3(word)>> = case[1]
            \/ \E case \in FloatBySource2 : <<even, getSourceRegister2(word)>> = case[1]
            \/ decodeInstruction(word) \in Exceptions
<1> DEFINE rs2 == getSourceRegister2(word)
           operands == Rv64g!ImmediateOf("FR", word)
           instr == InstrR("LUI", operands, word)
           byFunct3 == <<even, getFunct3(word)>>
           bySource2 == <<even, rs2>>
           Type(row) == [instr EXCEPT !.type = row[Precision(word)]]
<1>1. FloatOp(readFieldsR(word), word, {}) = instr
  <2>1. readFieldsR(word) = InstrR("LUI", {}, word)
    BY Fields
  <2>2. Bits(word, 12, 14) \union Shifted({}, 8) = operands
    BY FlagImmediates
  <2>3. [InstrR("LUI", {}, word) EXCEPT !.immediate = operands] = instr
    BY Updated DEF InstrR
  <2> HIDE DEF instr, operands
  <2>. QED  BY <2>1, <2>2, <2>3 DEF FloatOp
<1>2. instr.rs2 = rs2
  BY Updated DEF InstrR
<1>3. ASSUME NEW row PROVE Type(row) = FloatInstr(TypeFor(row, word), word)
  <2>1. \A type : [instr EXCEPT !.type = type] = FloatInstr(type, word)
    BY Updated DEF InstrR, FloatInstr
  <2>2. row[Precision(word)] = TypeFor(row, word)
    BY DEF Precision, hasBit, TypeFor
  <2> HIDE DEF instr
  <2>. QED  BY <2>1, <2>2
<1>4. /\ TypeFor(<<even, "FSQRTS", "FSQRTD">>, word) = IF 25 \in word THEN "FSQRTD" ELSE "FSQRTS"
      /\ TypeFor(<<even, "FDIVS", "FDIVD">>, word) = IF 25 \in word THEN "FDIVD" ELSE "FDIVS"
  BY DEF TypeFor
<1>5. Number[clearBit(Bits(word, 25, 31), 0)] = even
  BY EvenFunct7 DEF EvenFunct7Of
<1> HIDE DEF instr
<1>6. decodeInstruction(word) =
        CASE HasCase(FloatArithmetic, even) -> Type(CaseOf(FloatArithmetic, even))
          [] even = 12 /\ rs2 = 0 -> Type(<<even, "FSQRTS", "FSQRTD">>)
          [] even = 12 /\ rs2 # 0 -> Type(<<even, "FDIVS", "FDIVD">>)
          [] HasCase(FloatByFunct3, byFunct3) -> Type(CaseOf(FloatByFunct3, byFunct3))
          [] HasCase(FloatBySource2, bySource2) -> Type(CaseOf(FloatBySource2, bySource2))
          [] even = 112 /\ ~HasCase(FloatByFunct3, byFunct3) -> UnknownPointer
          [] OTHER -> Unknown
  BY <1>1, <1>2, <1>5, ByOpcode DEF decodeOpFP
<1>7. byFunct3[1] = even /\ bySource2[1] = even
  OBVIOUS
<1> HIDE DEF Type, byFunct3, bySource2
<1>8. /\ HasCase(FloatArithmetic, even) => even \in {0, 4, 8}
      /\ HasCase(FloatByFunct3, byFunct3) => even \in {16, 20, 112, 80, 120}
      /\ HasCase(FloatBySource2, bySource2) => even \in {32, 96, 104}
  BY <1>7, FloatKeys DEF HasCase
<1>9. ASSUME NEW case \in FloatArithmetic, even = case[1]
      PROVE  decodeInstruction(word) = FloatInstr(TypeFor(case, word), word)
  <2>1. HasCase(FloatArithmetic, even) /\ CaseOf(FloatArithmetic, even) = case
    BY <1>9, FloatKeys, CaseIs
  <2>. QED  BY <1>3, <1>6, <1>8, <2>1
<1>10. ASSUME even = 12
       PROVE  decodeInstruction(word) =
                FloatInstr(IF rs2 = 0 THEN IF 25 \in word THEN "FSQRTD" ELSE "FSQRTS"
                           ELSE IF 25 \in word THEN "FDIVD" ELSE "FDIVS", word)
  BY <1>3, <1>4, <1>6, <1>8, <1>10
<1>11. ASSUME NEW case \in FloatByFunct3, byFunct3 = case[1]
       PROVE  decodeInstruction(word) = FloatInstr(TypeFor(case, word), word)
  <2>1. HasCase(FloatByFunct3, byFunct3) /\ CaseOf(FloatByFunct3, byFunct3) = case
    BY <1>11, FloatKeys, CaseIs
  <2>. QED  BY <1>3, <1>6, <1>8, <2>1
<1>12. ASSUME NEW case \in FloatBySource2, bySource2 = case[1]
       PROVE  decodeInstruction(word) = FloatInstr(TypeFor(case, word), word)
  <2>1. HasCase(FloatBySource2, bySource2) /\ CaseOf(FloatBySource2, bySource2) = case
    BY <1>12, FloatKeys, CaseIs
  <2>. QED  BY <1>3, <1>6, <1>8, <2>1
<1>13. \/ HasCase(FloatArithmetic, even) \/ even = 12
       \/ HasCase(FloatByFunct3, byFunct3) \/ HasCase(FloatBySource2, bySource2)
       \/ decodeInstruction(word) \in Exceptions
  BY <1>6 DEF Exceptions
<1>. QED  BY <1>9, <1>10, <1>11, <1>12, <1>13 DEF HasCase, byFunct3, bySource2

-----------------------------------------------------------------------------
(***************************************************************************)
(* The integer instructions                                                *)
(***************************************************************************)

\* A word that matches row is decoded as row means.
Agrees(word, row) ==
  decodeInstruction(word) = WithoutCsrNumber(row, Rv64g!Meaning(row, word))

\* The bits of an accepted word that the decoder tested
Tested(type) ==
  (0 .. 31) \ (UntestedBits(type) \union IF type \in {"SLLI", "SLLIW"} THEN {30} ELSE {})

\* What OnlyUntestedBitsIgnored says of one word
Known(word) ==
  LET type == decodeInstruction(word).type
  IN  \/ Rv64g!Encodes(word) # {}
      \/ \E row \in Rv64g!Encodes(word \intersect Tested(type)) : row.type = type

LEMMA ListedIsKnown ==
  ASSUME NEW word, NEW row \in Rv64g!Listing, Rv64g!Matches(word, row)
  PROVE  Known(word)
BY DEF Known, Rv64g!Encodes

LEMMA AgreesUnlessCsr ==
  ASSUME NEW word, NEW row, row.format # "Csr",
         decodeInstruction(word) = Rv64g!Meaning(row, word)
  PROVE  Agrees(word, row)
BY DEF Agrees, WithoutCsrNumber

\* Which values of funct3 have labels that are rows of the I-format
LEMMA ILabelValues ==
  ASSUME NEW funct3 \in Nat, funct3 =< 7
  PROVE  /\ Labelled(ITypes(15), funct3) <=> funct3 = 1
         /\ Labelled(ITypes(19), funct3) <=> funct3 # 1 /\ funct3 # 5
         /\ Labelled(ITypes(27), funct3) <=> funct3 = 0
         /\ Labelled(ITypes(103), funct3) <=> funct3 = 0
<1> DEFINE P(f3) == /\ Labelled(ITypes(15), f3) <=> f3 = 1
                    /\ Labelled(ITypes(19), f3) <=> f3 # 1 /\ f3 # 5
                    /\ Labelled(ITypes(27), f3) <=> f3 = 0
                    /\ Labelled(ITypes(103), f3) <=> f3 = 0
<1>1. Octally(P)
  BY DEF Octally, Labelled, ITypes
<1>2. P(funct3)
  BY <1>1, Octal DEF Octally
<1>. QED  BY <1>2

LEMMA IDecoded ==
  ASSUME NEW word \in Word(32), NEW op \in IOpcodes, getOpcode(word) = op,
         Labelled(ITypes(op), getFunct3(word))
  PROVE  decodeInstruction(word) =
           InstrI(ITypes(op)[getFunct3(word) + 1], Rv64g!ImmediateOf("I", word), word)
<1> DEFINE funct3 == getFunct3(word)
           instr == InstrI("LUI", Rv64g!ImmediateOf("I", word), word)
<1>1. funct3 \in Nat /\ funct3 =< 7
  BY FieldRanges
<1>2. CASE op = 103
  <2>1. funct3 = 0
    BY <1>1, <1>2, ILabelValues
  <2>2. ITypes(103)[0 + 1] = "JALR"
    BY DEF ITypes
  <2>. QED  BY <1>2, <2>1, <2>2, UpperAndJump
<1>3. CASE op # 103
  <2>1. decodeInstruction(word) = Switch(ITypes(op), funct3, instr, Unknown)
    <3>1. op \in {3, 7} \/ op = 15 \/ op \in {19, 27}
      BY <1>3 DEF IOpcodes
    <3>. QED  BY <1>1, <3>1, LoadSwitch, FenceSwitch, ImmediateSwitch, ILabelValues
  <2>. QED  BY <2>1, SwitchLabel DEF InstrI
<1>. QED  BY <1>2, <1>3

LEMMA IRowAgrees ==
  ASSUME NEW word \in Word(32), NEW row, NEW op \in IOpcodes,
         NEW funct3 \in Nat, funct3 =< 7, IRow(row, op, funct3), Rv64g!Matches(word, row)
  PROVE  Agrees(word, row)
<1> DEFINE type == ITypes(op)[funct3 + 1]
<1>1. row = Rv64g!I(type, op, funct3) /\ Labelled(ITypes(op), funct3)
  BY DEF IRow
<1>2. op \in Nat /\ op =< 127
  BY DEF IOpcodes
<1>3. getOpcode(word) = op /\ getFunct3(word) = funct3
  BY <1>1, <1>2, MatchesFunct3
<1>4. decodeInstruction(word) = InstrI(type, Rv64g!ImmediateOf("I", word), word)
  BY <1>1, <1>3, IDecoded
<1> HIDE DEF type
<1>5. row = Rv64g!Row(type, "I", {Rv64g!Op(op), Rv64g!Funct3(funct3)}) /\ row.format = "I"
  BY <1>1 DEF Rv64g!I, Rv64g!Row
<1>6. Rv64g!Meaning(row, word) = InstrI(type, Rv64g!ImmediateOf("I", word), word)
  BY <1>5, MeaningByFormat
<1>. QED  BY <1>4, <1>5, <1>6, AgreesUnlessCsr

LEMMA SRowAgrees ==
  ASSUME NEW word \in Word(32), NEW row, NEW op \in SOpcodes,
         NEW funct3 \in Nat, funct3 =< 7, SRow(row, op, funct3), Rv64g!Matches(word, row)
  PROVE  Agrees(word, row)
<1> DEFINE type == STypes(op)[funct3 + 1]
<1>1. row = Rv64g!S(type, op, funct3) /\ Labelled(STypes(op), funct3)
  BY DEF SRow
<1>2. op \in Nat /\ op =< 127
  BY DEF SOpcodes
<1>3. getOpcode(word) = op /\ getFunct3(word) = funct3
  BY <1>1, <1>2, MatchesFunct3
<1>4. decodeInstruction(word) = InstrS(type, Rv64g!ImmediateOf("S", word), word)
  BY <1>1, <1>3, StoreSwitch, SwitchLabel DEF InstrS
<1> HIDE DEF type
<1>5. row = Rv64g!Row(type, "S", {Rv64g!Op(op), Rv64g!Funct3(funct3)}) /\ row.format = "S"
  BY <1>1 DEF Rv64g!S, Rv64g!Row
<1>6. Rv64g!Meaning(row, word) = InstrS(type, Rv64g!ImmediateOf("S", word), word)
  BY <1>5, MeaningByFormat
<1>. QED  BY <1>4, <1>5, <1>6, AgreesUnlessCsr

LEMMA BRowAgrees ==
  ASSUME NEW word \in Word(32), NEW row, NEW funct3 \in Nat, funct3 =< 7,
         BRow(row, funct3), Rv64g!Matches(word, row)
  PROVE  Agrees(word, row)
<1> DEFINE type == BTypes[funct3 + 1]
<1>1. row = Rv64g!B(type, funct3) /\ Labelled(BTypes, funct3)
  BY DEF BRow
<1>2. getOpcode(word) = 99 /\ getFunct3(word) = funct3
  BY <1>1, MatchesFunct3
<1>3. decodeInstruction(word) = InstrS(type, Rv64g!ImmediateOf("B", word), word)
  BY <1>1, <1>2, BranchSwitch, SwitchLabel DEF InstrS
<1> HIDE DEF type
<1>4. row = Rv64g!Row(type, "B", {Rv64g!Op(99), Rv64g!Funct3(funct3)}) /\ row.format = "B"
  BY <1>1 DEF Rv64g!B, Rv64g!Row
<1>5. Rv64g!Meaning(row, word) = InstrS(type, Rv64g!ImmediateOf("B", word), word)
  BY <1>4, MeaningByFormat
<1>. QED  BY <1>3, <1>4, <1>5, AgreesUnlessCsr

LEMMA CsrRowAgrees ==
  ASSUME NEW word \in Word(32), NEW row, NEW funct3 \in Nat, funct3 =< 7,
         CsrRow(row, funct3), Rv64g!Matches(word, row)
  PROVE  Agrees(word, row)
<1> DEFINE type == CsrTypes[funct3 + 1]
<1>1. row = Rv64g!Csr(type, funct3) /\ Labelled(CsrTypes, funct3)
  BY DEF CsrRow
<1>2. getOpcode(word) = 115 /\ getFunct3(word) = funct3
  BY <1>1, MatchesFunct3
<1>3. funct3 # 0
  BY <1>1 DEF Labelled, CsrTypes
<1>4. decodeInstruction(word) = InstrI(type, {}, word)
  BY <1>1, <1>2, <1>3, SystemDecoded, SwitchLabel DEF InstrI
<1> HIDE DEF type
<1>5. row = Rv64g!Row(type, "Csr", {Rv64g!Op(115), Rv64g!Funct3(funct3)}) /\ row.format = "Csr"
  BY <1>1 DEF Rv64g!Csr, Rv64g!Row
<1>6. Rv64g!Meaning(row, word) = InstrI(type, Rv64g!ImmediateOf("Csr", word), word)
  BY <1>5, MeaningByFormat
<1>7. [InstrI(type, Rv64g!ImmediateOf("Csr", word), word) EXCEPT !.immediate = {}]
        = InstrI(type, {}, word)
  BY Updated DEF InstrI
<1>. QED  BY <1>4, <1>5, <1>6, <1>7 DEF Agrees, WithoutCsrNumber

LEMMA RRowAgrees ==
  ASSUME NEW word \in Word(32), NEW row, NEW op \in ROpcodes, NEW funct3 \in Nat, funct3 =< 7,
         NEW funct7 \in RFunct7s, RRow(row, op, funct3, funct7), Rv64g!Matches(word, row)
  PROVE  Agrees(word, row)
<1> DEFINE type == RTypes(op, funct7)[funct3 + 1]
<1>1. row = Rv64g!R(type, op, funct3, funct7) /\ Labelled(RTypes(op, funct7), funct3)
  BY DEF RRow
<1>2. op \in Nat /\ op =< 127 /\ funct7 \in Nat /\ funct7 =< 127
  BY DEF ROpcodes, RFunct7s
<1>3. getOpcode(word) = op /\ getFunct3(word) = funct3 /\ getFunct7(word) = funct7
  BY <1>1, <1>2, MatchesFunct7
<1>4. decodeInstruction(word) = InstrR(type, {}, word)
  BY <1>1, <1>3, OpSwitch, SwitchLabel DEF InstrR
<1> HIDE DEF type
<1>5. /\ row = Rv64g!Row(type, "R", {Rv64g!Op(op), Rv64g!Funct3(funct3), Rv64g!Funct7(funct7)})
      /\ row.format = "R"
  BY <1>1 DEF Rv64g!R, Rv64g!Row
<1>6. Rv64g!Meaning(row, word) = InstrR(type, Rv64g!ImmediateOf("R", word), word)
  BY <1>5, MeaningByFormat
<1>. QED  BY <1>4, <1>5, <1>6, FlagImmediates, AgreesUnlessCsr

LEMMA UpperRowAgrees ==
  ASSUME NEW word \in Word(32), NEW row,
         row \in {Rv64g!U("LUI", 55), Rv64g!U("AUIPC", 23), Rv64g!J("JAL", 111)},
         Rv64g!Matches(word, row)
  PROVE  Agrees(word, row)
<1>1. ASSUME NEW type, NEW op \in Nat, op =< 127, row = Rv64g!U(type, op),
             getOpcode(word) = op
               => decodeInstruction(word) = InstrU(type, Rv64g!ImmediateOf("U", word), word)
      PROVE  Agrees(word, row)
  <2>1. getOpcode(word) = op
    BY <1>1, MatchesOpcode
  <2>2. row = Rv64g!Row(type, "U", {Rv64g!Op(op)}) /\ row.format = "U"
    BY <1>1 DEF Rv64g!U, Rv64g!Row
  <2>3. Rv64g!Meaning(row, word) = InstrU(type, Rv64g!ImmediateOf("U", word), word)
    BY <2>2, MeaningByFormat
  <2>. QED  BY <1>1, <2>1, <2>2, <2>3, AgreesUnlessCsr
<1>2. CASE row = Rv64g!U("LUI", 55)
  BY <1>1, <1>2, UpperAndJump
<1>3. CASE row = Rv64g!U("AUIPC", 23)
  BY <1>1, <1>3, UpperAndJump
<1>4. CASE row = Rv64g!J("JAL", 111)
  <2>1. getOpcode(word) = 111
    BY <1>4, MatchesOpcode
  <2>2. row = Rv64g!Row("JAL", "J", {Rv64g!Op(111)}) /\ row.format = "J"
    BY <1>4 DEF Rv64g!J, Rv64g!Row
  <2>3. Rv64g!Meaning(row, word) = InstrU("JAL", Rv64g!ImmediateOf("J", word), word)
    BY <2>2, MeaningByFormat
  <2>. QED  BY <2>1, <2>2, <2>3, UpperAndJump, AgreesUnlessCsr
<1>. QED  BY <1>2, <1>3, <1>4

\* The immediate of a shift without bit 30 of the word is the one the decoder
\* reads for I.
LEMMA ShiftImmediateUnset ==
  ASSUME NEW word \in Word(32)
  PROVE  /\ word \intersect (26 .. 31) = {}
              => Rv64g!ImmediateOf("I", word) = Rv64g!ImmediateOf("Shift6", word)
         /\ word \intersect (25 .. 31) = {}
              => Rv64g!ImmediateOf("I", word) = Rv64g!ImmediateOf("Shift5", word)
<1>1. ASSUME word \intersect (26 .. 31) = {}
      PROVE  Rv64g!ImmediateOf("I", word) = Rv64g!ImmediateOf("Shift6", word)
  <2>1. \A b \in 26 .. 31 : b \notin word
    BY <1>1
  <2>2. ASSUME NEW b \in 0 .. 31
        PROVE  Rv64g!ImmediateBit("I", b) \in word <=> Rv64g!ImmediateBit("Shift6", b) \in word
    BY <2>1 DEF Rv64g!ImmediateBit, Word
  <2>. QED  BY <2>2 DEF Rv64g!ImmediateOf
<1>2. ASSUME word \intersect (25 .. 31) = {}
      PROVE  Rv64g!ImmediateOf("I", word) = Rv64g!ImmediateOf("Shift5", word)
  <2>1. \A b \in 25 .. 31 : b \notin word
    BY <1>2
  <2>2. ASSUME NEW b \in 0 .. 31
        PROVE  Rv64g!ImmediateBit("I", b) \in word <=> Rv64g!ImmediateBit("Shift5", b) \in word
    BY <2>1 DEF Rv64g!ImmediateBit, Word
  <2>. QED  BY <2>2 DEF Rv64g!ImmediateOf
<1>. QED  BY <1>1, <1>2

LEMMA Shift6RowAgrees ==
  ASSUME NEW word \in Word(32), NEW row,
         row \in {Rv64g!Shift6("SLLI", 1, 0), Rv64g!Shift6("SRLI", 5, 0),
                  Rv64g!Shift6("SRAI", 5, 16)},
         Rv64g!Matches(word, row)
  PROVE  Agrees(word, row)
<1> DEFINE amount == Rv64g!ImmediateOf("Shift6", word)
<1>1. ASSUME NEW type, NEW funct3, NEW funct6, row = Rv64g!Shift6(type, funct3, funct6),
             decodeInstruction(word) = InstrI(type, amount, word)
      PROVE  Agrees(word, row)
  <2>1. /\ row = Rv64g!Row(type, "Shift6", {Rv64g!Op(19), Rv64g!Funct3(funct3),
                                            <<26, 31, funct6>>})
        /\ row.format = "Shift6"
    BY <1>1 DEF Rv64g!Shift6, Rv64g!Row
  <2>2. Rv64g!Meaning(row, word) = InstrI(type, amount, word)
    BY <2>1, MeaningByFormat
  <2>. QED  BY <1>1, <2>1, <2>2, AgreesUnlessCsr
<1>2. CASE row = Rv64g!Shift6("SLLI", 1, 0)
  <2>1. getOpcode(word) = 19 /\ getFunct3(word) = 1 /\ word \intersect (26 .. 31) = {}
    BY <1>2, MatchesShift
  <2>2. decodeInstruction(word) = InstrI("SLLI", Rv64g!ImmediateOf("I", word), word)
    BY <2>1, ShiftDecoded
  <2>. QED  BY <1>1, <1>2, <2>1, <2>2, ShiftImmediateUnset
<1>3. CASE row = Rv64g!Shift6("SRLI", 5, 0)
  <2>1. getOpcode(word) = 19 /\ getFunct3(word) = 5 /\ word \intersect (26 .. 31) = {}
    BY <1>3, MatchesShift
  <2>2. 30 \notin word
    BY <2>1
  <2>3. decodeInstruction(word) = InstrI("SRLI", Rv64g!ImmediateOf("I", word), word)
    BY <2>1, <2>2, ShiftDecoded
  <2>. QED  BY <1>1, <1>3, <2>1, <2>3, ShiftImmediateUnset
<1>4. CASE row = Rv64g!Shift6("SRAI", 5, 16)
  <2>1. getOpcode(word) = 19 /\ getFunct3(word) = 5 /\ word \intersect (26 .. 31) = {30}
    BY <1>4, MatchesShift
  <2>2. 30 \in word
    BY <2>1
  <2>3. decodeInstruction(word) = InstrI("SRAI", clearBit(getImmediateI(word), 10), word)
    BY <2>1, <2>2, ShiftDecoded
  <2>. QED  BY <1>1, <1>4, <2>1, <2>3, ShiftImmediates
<1>. QED  BY <1>2, <1>3, <1>4

LEMMA Shift5RowAgrees ==
  ASSUME NEW word \in Word(32), NEW row,
         row \in {Rv64g!Shift5("SLLIW", 1, 0), Rv64g!Shift5("SRLIW", 5, 0),
                  Rv64g!Shift5("SRAIW", 5, 32)},
         Rv64g!Matches(word, row)
  PROVE  Agrees(word, row)
<1> DEFINE amount == Rv64g!ImmediateOf("Shift5", word)
<1>1. ASSUME NEW type, NEW funct3, NEW funct7, row = Rv64g!Shift5(type, funct3, funct7),
             decodeInstruction(word) = InstrI(type, amount, word)
      PROVE  Agrees(word, row)
  <2>1. /\ row = Rv64g!Row(type, "Shift5", {Rv64g!Op(27), Rv64g!Funct3(funct3),
                                            Rv64g!Funct7(funct7)})
        /\ row.format = "Shift5"
    BY <1>1 DEF Rv64g!Shift5, Rv64g!Row
  <2>2. Rv64g!Meaning(row, word) = InstrI(type, amount, word)
    BY <2>1, MeaningByFormat
  <2>. QED  BY <1>1, <2>1, <2>2, AgreesUnlessCsr
<1>2. CASE row = Rv64g!Shift5("SLLIW", 1, 0)
  <2>1. getOpcode(word) = 27 /\ getFunct3(word) = 1 /\ word \intersect (25 .. 31) = {}
    BY <1>2, MatchesShift
  <2>2. decodeInstruction(word) = InstrI("SLLIW", Rv64g!ImmediateOf("I", word), word)
    BY <2>1, ShiftDecoded
  <2>. QED  BY <1>1, <1>2, <2>1, <2>2, ShiftImmediateUnset
<1>3. CASE row = Rv64g!Shift5("SRLIW", 5, 0)
  <2>1. getOpcode(word) = 27 /\ getFunct3(word) = 5 /\ word \intersect (25 .. 31) = {}
    BY <1>3, MatchesShift
  <2>2. 30 \notin word
    BY <2>1
  <2>3. decodeInstruction(word) = InstrI("SRLIW", Rv64g!ImmediateOf("I", word), word)
    BY <2>1, <2>2, ShiftDecoded
  <2>. QED  BY <1>1, <1>3, <2>1, <2>3, ShiftImmediateUnset
<1>4. CASE row = Rv64g!Shift5("SRAIW", 5, 32)
  <2>1. getOpcode(word) = 27 /\ getFunct3(word) = 5 /\ word \intersect (25 .. 31) = {30}
    BY <1>4, MatchesShift
  <2>2. 30 \in word
    BY <2>1
  <2>3. decodeInstruction(word) = InstrI("SRAIW", clearBit(getImmediateI(word), 10), word)
    BY <2>1, <2>2, ShiftDecoded
  <2>. QED  BY <1>1, <1>4, <2>1, <2>3, ShiftImmediates
<1>. QED  BY <1>2, <1>3, <1>4

LEMMA FenceEnvRowAgrees ==
  ASSUME NEW word \in Word(32), NEW row,
         row \in {Rv64g!Fence("FENCE", 0), Rv64g!Env("ECALL", 0), Rv64g!Env("EBREAK", 1)},
         Rv64g!Matches(word, row)
  PROVE  Agrees(word, row)
<1>1. CASE row = Rv64g!Fence("FENCE", 0)
  <2>1. getOpcode(word) = 15 /\ getFunct3(word) = 0
    BY <1>1, MatchesFunct3
  <2>2. /\ row = Rv64g!Row("FENCE", "Fence", {Rv64g!Op(15), Rv64g!Funct3(0)})
        /\ row.format = "Fence"
    BY <1>1 DEF Rv64g!Fence, Rv64g!Row
  <2>3. Rv64g!Meaning(row, word)
          = InstrI(Rv64g!FenceType(word), Rv64g!ImmediateOf("Fence", word), word)
    BY <2>2, MeaningByFormat
  <2>. QED  BY <2>1, <2>2, <2>3, FenceDecoded, AgreesUnlessCsr
<1>2. ASSUME NEW type, NEW number, row = Rv64g!Env(type, number),
             decodeInstruction(word) = InstrI(type, {}, word),
             getDestinationRegister(word) = 0, getSourceRegister1(word) = 0
      PROVE  Agrees(word, row)
  <2>1. /\ row = Rv64g!Row(type, "Env", {<<0, 19, 115>>, <<20, 31, number>>})
        /\ row.format = "Env"
    BY <1>2 DEF Rv64g!Env, Rv64g!Row
  <2>2. Rv64g!Meaning(row, word) = Instr(type, Rv64g!ImmediateOf("Env", word), 0, 0, 0)
    BY <2>1, MeaningByFormat
  <2>3. decodeInstruction(word) = Instr(type, {}, 0, 0, 0)
    BY <1>2 DEF InstrI
  <2>. QED  BY <2>1, <2>2, <2>3, FlagImmediates, AgreesUnlessCsr
<1>3. CASE row = Rv64g!Env("ECALL", 0)
  BY <1>2, <1>3, MatchesEnv, SystemDecoded
<1>4. CASE row = Rv64g!Env("EBREAK", 1)
  BY <1>2, <1>4, MatchesEnv, SystemDecoded
<1>. QED  BY <1>1, <1>3, <1>4

LEMMA SpecialRowAgrees ==
  ASSUME NEW word \in Word(32), NEW row \in SpecialRows, Rv64g!Matches(word, row)
  PROVE  Agrees(word, row)
BY UpperRowAgrees, Shift6RowAgrees, Shift5RowAgrees, FenceEnvRowAgrees DEF SpecialRows

-----------------------------------------------------------------------------
(***************************************************************************)
(* The atomic and the floating point instructions                          *)
(***************************************************************************)
LEMMA AmoRowAgrees ==
  ASSUME NEW word \in Word(32), NEW row, NEW case \in AmoTypes, AmoRow(row, case),
         Rv64g!Matches(word, row)
  PROVE  Agrees(word, row)
<1> DEFINE flags == Rv64g!ImmediateOf("A", word)
<1>1. case[1] \in Nat /\ case[1] =< 31
  BY DEF AmoTypes
<1>2. ASSUME NEW type, NEW funct3 \in {2, 3}, row = Rv64g!A(type, case[1], funct3),
             type = IF funct3 = 2 THEN case[2] ELSE case[3]
      PROVE  Agrees(word, row)
  <2>1. getOpcode(word) = 47 /\ getFunct3(word) = funct3 /\ getFunct7(word) \div 4 = case[1]
    BY <1>1, <1>2, MatchesAmo
  <2>2. decodeInstruction(word) = InstrR(type, flags, word)
    BY <1>2, <2>1, AmoDecoded
  <2> DEFINE fixed == {Rv64g!Op(47), Rv64g!Funct3(funct3), <<27, 31, case[1]>>}
                        \union (IF case[1] = 2 THEN {Rv64g!Rs2(0)} ELSE {})
  <2>3. row = Rv64g!Row(type, "A", fixed)
    BY <1>2 DEF Rv64g!A
  <2> HIDE DEF fixed
  <2>4. row.format = "A"
    BY <2>3 DEF Rv64g!Row
  <2>5. Rv64g!Meaning(row, word) = InstrR(type, flags, word)
    BY <2>3, MeaningByFormat
  <2>. QED  BY <2>2, <2>4, <2>5, AgreesUnlessCsr
<1>. QED  BY <1>2 DEF AmoRow

LEMMA FusedRowAgrees ==
  ASSUME NEW word \in Word(32), NEW row, NEW case \in FusedTypes, FusedRow(row, case),
         Rv64g!Matches(word, row)
  PROVE  Agrees(word, row)
<1>1. case[1] \in Nat /\ case[1] =< 127
  BY DEF FusedTypes
<1>2. ASSUME NEW type, NEW format \in {0, 1}, row = Rv64g!FR4(type, case[1], format),
             type = IF format = 0 THEN case[2] ELSE case[3]
      PROVE  Agrees(word, row)
  <2>1. getOpcode(word) = case[1] /\ Number[Bits(word, 25, 26)] = format
    BY <1>1, <1>2, MatchesFused
  <2>2. decodeInstruction(word) = InstrR(type, Rv64g!ImmediateOf("R4", word), word)
    BY <1>2, <2>1, FusedDecoded
  <2> DEFINE fixed == {Rv64g!Op(case[1]), <<25, 26, format>>}
  <2>3. row = Rv64g!Row(type, "R4", fixed)
    BY <1>2 DEF Rv64g!FR4
  <2> HIDE DEF fixed
  <2>4. row.format = "R4"
    BY <2>3 DEF Rv64g!Row
  <2>5. Rv64g!Meaning(row, word) = InstrR(type, Rv64g!ImmediateOf("R4", word), word)
    BY <2>3, MeaningByFormat
  <2>. QED  BY <2>2, <2>4, <2>5, AgreesUnlessCsr
<1>. QED  BY <1>2 DEF FusedRow

\* The lowest bit of funct7 is bit 25.
LEMMA PrecisionBit ==
  ASSUME NEW word
  PROVE  \E half \in Nat : getFunct7(word) = 2 * half + (IF 25 \in word THEN 1 ELSE 0)
<1> DEFINE all == Bits(word, 25, 31)
           half == (IF 1 \in all THEN 1 ELSE 0) + (IF 2 \in all THEN 2 ELSE 0)
                     + (IF 3 \in all THEN 4 ELSE 0) + (IF 4 \in all THEN 8 ELSE 0)
                     + (IF 5 \in all THEN 16 ELSE 0) + (IF 6 \in all THEN 32 ELSE 0)
<1>1. all \in Word(7) /\ (0 \in all <=> 25 \in word)
  BY BitsShort, BitsOfField
<1>2. getFunct7(word) = 2 * half + (IF 0 \in all THEN 1 ELSE 0)
  <2> HIDE DEF all
  <2>. QED  BY <1>1 DEF Number, getFunct7, all
<1>3. half \in Nat
  <2> HIDE DEF all
  <2>. QED  OBVIOUS
<1> HIDE DEF all, half
<1>. QED  BY <1>1, <1>2, <1>3

\* The values of funct7 that the cases of OP-FP have
EvenFunct7s == {0, 4, 8, 12, 16, 20, 32, 80, 96, 104, 112, 120}

LEMMA PrecisionOf ==
  ASSUME NEW word, NEW even \in EvenFunct7s
  PROVE  /\ even \in Nat /\ even =< 120
         /\ getFunct7(word) = even <=> 25 \notin word /\ EvenFunct7Of(word) = even
         /\ getFunct7(word) = even + 1 <=> 25 \in word /\ EvenFunct7Of(word) = even
<1>1. PICK half \in Nat : even = 2 * half
  <2>1. \A h \in {0, 2, 4, 6, 8, 10, 16, 40, 48, 52, 56, 60} : h \in Nat
    OBVIOUS
  <2>2. \E h \in {0, 2, 4, 6, 8, 10, 16, 40, 48, 52, 56, 60} : even = 2 * h
    BY DEF EvenFunct7s
  <2>. QED  BY <2>1, <2>2
<1>2. PICK other \in Nat : getFunct7(word) = 2 * other + (IF 25 \in word THEN 1 ELSE 0)
  BY PrecisionBit
<1>3. even \in Nat /\ even =< 120
  BY DEF EvenFunct7s
<1>. QED  BY <1>1, <1>2, <1>3 DEF EvenFunct7Of

\* A floating point row of a type that is decoded is decoded as it means.
LEMMA FloatAgrees ==
  ASSUME NEW word \in Word(32), NEW row, NEW type, NEW fixed, row = Rv64g!Row(type, "FR", fixed),
         decodeInstruction(word) = FloatInstr(type, word)
  PROVE  Agrees(word, row)
<1>1. row.format = "FR"
  BY DEF Rv64g!Row
<1>2. Rv64g!Meaning(row, word) = InstrR(type, Rv64g!ImmediateOf("FR", word), word)
  BY MeaningByFormat
<1>. QED  BY <1>1, <1>2, AgreesUnlessCsr DEF FloatInstr

LEMMA ArithmeticRowAgrees ==
  ASSUME NEW word \in Word(32), NEW row, NEW case \in FloatArithmetic,
         ArithmeticRow(row, case), Rv64g!Matches(word, row)
  PROVE  Agrees(word, row)
<1>1. case[1] \in Nat /\ case[1] =< 8 /\ case[1] \in EvenFunct7s
  BY FloatKeys DEF EvenFunct7s
<1>2. ASSUME NEW type, NEW double \in {0, 1}, row = Rv64g!FR(type, case[1] + double),
             type = IF double = 0 THEN case[2] ELSE case[3]
      PROVE  Agrees(word, row)
  <2>1. getOpcode(word) = 83 /\ getFunct7(word) = case[1] + double
    BY <1>1, <1>2, MatchesFloat
  <2>2. EvenFunct7Of(word) = case[1] /\ (25 \in word <=> double = 1)
    BY <1>1, <2>1, PrecisionOf
  <2>3. decodeInstruction(word) = FloatInstr(type, word)
    BY <1>2, <2>1, <2>2, FloatDecoded DEF TypeFor
  <2>4. row = Rv64g!Row(type, "FR", {Rv64g!Op(83), Rv64g!Funct7(case[1] + double)})
    BY <1>2 DEF Rv64g!FR
  <2>. QED  BY <2>3, <2>4, FloatAgrees
<1>3. case[1] + 0 = case[1]
  BY <1>1
<1>. QED  BY <1>2, <1>3 DEF ArithmeticRow

LEMMA ByFunct3RowAgrees ==
  ASSUME NEW word \in Word(32), NEW row, NEW case \in FloatByFunct3,
         ByFunct3Row(row, case), Rv64g!Matches(word, row)
  PROVE  Agrees(word, row)
<1> DEFINE funct7 == case[1][1]
           funct3 == case[1][2]
<1>1. /\ funct7 \in Nat /\ funct7 =< 120 /\ funct7 \in EvenFunct7s
      /\ case[1] = <<funct7, funct3>>
  BY FloatKeys DEF EvenFunct7s
<1>2. funct3 \in Nat /\ funct3 =< 7
  BY DEF FloatByFunct3
<1> HIDE DEF funct7, funct3
<1>3. ASSUME NEW type, NEW double \in {0, 1}, NEW fixed, row = Rv64g!Row(type, "FR", fixed),
             type = IF double = 0 THEN case[2] ELSE case[3],
             getOpcode(word) = 83, getFunct3(word) = funct3, getFunct7(word) = funct7 + double
      PROVE  Agrees(word, row)
  <2>1. EvenFunct7Of(word) = funct7 /\ (25 \in word <=> double = 1)
    BY <1>1, <1>3, PrecisionOf
  <2>2. decodeInstruction(word) = FloatInstr(type, word)
    BY <1>1, <1>3, <2>1, FloatDecoded DEF TypeFor
  <2>. QED  BY <1>3, <2>2, FloatAgrees
<1>4. ASSUME NEW type, NEW double \in {0, 1}, type = IF double = 0 THEN case[2] ELSE case[3],
             \/ row = Rv64g!FR3(type, funct7 + double, funct3)
             \/ row = Rv64g!FRU(type, funct7 + double, funct3)
      PROVE  Agrees(word, row)
  <2>1. /\ funct7 + double \in Nat /\ funct7 + double =< 127
        /\ getOpcode(word) = 83 /\ getFunct3(word) = funct3 /\ getFunct7(word) = funct7 + double
    BY <1>1, <1>2, <1>4, MatchesFloat3
  <2>2. \E fixed : row = Rv64g!Row(type, "FR", fixed)
    BY <1>4 DEF Rv64g!FR3, Rv64g!FRU
  <2>. QED  BY <1>3, <1>4, <2>1, <2>2
<1>5. funct7 + 0 = funct7
  BY <1>1
<1>. QED  BY <1>4, <1>5 DEF ByFunct3Row, funct7, funct3

LEMMA BySource2RowAgrees ==
  ASSUME NEW word \in Word(32), NEW row, NEW case \in FloatBySource2,
         BySource2Row(row, case), Rv64g!Matches(word, row)
  PROVE  Agrees(word, row)
<1> DEFINE funct7 == case[1][1]
           rs2 == case[1][2]
<1>1. /\ funct7 \in Nat /\ funct7 =< 104 /\ funct7 \in EvenFunct7s
      /\ case[1] = <<funct7, rs2>>
  BY FloatKeys DEF EvenFunct7s
<1>2. rs2 \in Nat /\ rs2 =< 31
  BY DEF FloatBySource2
<1> HIDE DEF funct7, rs2
<1>3. ASSUME NEW type, NEW double \in {0, 1}, row = Rv64g!FR1(type, funct7 + double, rs2),
             type = IF double = 0 THEN case[2] ELSE case[3]
      PROVE  Agrees(word, row)
  <2>1. /\ getOpcode(word) = 83
        /\ getFunct7(word) = funct7 + double /\ getSourceRegister2(word) = rs2
    BY <1>1, <1>2, <1>3, MatchesSource2
  <2>2. EvenFunct7Of(word) = funct7 /\ (25 \in word <=> double = 1)
    BY <1>1, <2>1, PrecisionOf
  <2>3. decodeInstruction(word) = FloatInstr(type, word)
    BY <1>1, <1>3, <2>1, <2>2, FloatDecoded DEF TypeFor
  <2>4. row = Rv64g!Row(type, "FR", {Rv64g!Op(83), Rv64g!Funct7(funct7 + double), Rv64g!Rs2(rs2)})
    BY <1>3 DEF Rv64g!FR1
  <2>. QED  BY <2>3, <2>4, FloatAgrees
<1>4. funct7 + 0 = funct7
  BY <1>1
<1>. QED  BY <1>3, <1>4 DEF BySource2Row, funct7, rs2

\* A division is one unless its divisor is f0, a misplaced row is misplaced.
LEMMA DivisionRowAgrees ==
  ASSUME NEW word \in Word(32), NEW row \in DivisionRows, Rv64g!Matches(word, row)
  PROVE  Misplaced(row, word) \/ Agrees(word, row)
<1>1. ASSUME NEW type, NEW double \in {0, 1}, row = Rv64g!FR(type, 12 + double),
             type = IF double = 0 THEN "FDIVS" ELSE "FDIVD"
      PROVE  Misplaced(row, word) \/ Agrees(word, row)
  <2>1. getOpcode(word) = 83 /\ getFunct7(word) = 12 + double
    BY <1>1, MatchesFloat
  <2>2. EvenFunct7Of(word) = 12 /\ (25 \in word <=> double = 1)
    <3>1. 12 \in EvenFunct7s
      BY DEF EvenFunct7s
    <3>. QED  BY <2>1, <3>1, PrecisionOf
  <2>3. row = Rv64g!Row(type, "FR", {Rv64g!Op(83), Rv64g!Funct7(12 + double)})
    BY <1>1 DEF Rv64g!FR
  <2>4. row.type = type
    BY <2>3 DEF Rv64g!Row
  <2>5. CASE getSourceRegister2(word) = 0
    BY <1>1, <2>4, <2>5, Registers DEF Misplaced
  <2>6. CASE getSourceRegister2(word) # 0
    <3>1. decodeInstruction(word) = FloatInstr(type, word)
      BY <1>1, <2>1, <2>2, <2>6, FloatDecoded
    <3>. QED  BY <2>3, <3>1, FloatAgrees
  <2>. QED  BY <2>5, <2>6
<1>2. row = Rv64g!FR("FDIVS", 12 + 0) \/ row = Rv64g!FR("FDIVD", 12 + 1)
  BY DEF DivisionRows
<1>. QED  BY <1>1, <1>2

\* A listed word is decoded as the listing says (instruction.cpp:93-1064).
LEMMA ListedDecoded ==
  ASSUME NEW word \in Word(32), NEW row \in Rv64g!Encodes(word)
  PROVE  Misplaced(row, word) \/ Agrees(word, row)
<1>1. row \in Rv64g!Listing /\ Rv64g!Matches(word, row)
  BY DEF Rv64g!Encodes
<1>2. ASSUME \/ \E op \in IOpcodes, funct3 \in 0 .. 7 : IRow(row, op, funct3)
             \/ \E op \in SOpcodes, funct3 \in 0 .. 7 : SRow(row, op, funct3)
             \/ \E funct3 \in 0 .. 7 : BRow(row, funct3)
             \/ \E funct3 \in 0 .. 7 : CsrRow(row, funct3)
             \/ \E op \in ROpcodes, funct3 \in 0 .. 7, funct7 \in RFunct7s :
                  RRow(row, op, funct3, funct7)
             \/ row \in SpecialRows
      PROVE  Agrees(word, row)
  <2>1. \A funct3 \in 0 .. 7 : funct3 \in Nat /\ funct3 =< 7
    OBVIOUS
  <2>. QED  BY <1>1, <1>2, <2>1, IRowAgrees, SRowAgrees, BRowAgrees, CsrRowAgrees, RRowAgrees,
               SpecialRowAgrees
<1>3. ASSUME FloatRow(row) PROVE Misplaced(row, word) \/ Agrees(word, row)
  <2>1. CASE row \in MisplacedRows
    <3>1. row.type \in {"FSQRTS", "FSQRTD", "FCVTDS"}
      BY <2>1 DEF MisplacedRows, Rv64g!FR1, Rv64g!Row
    <3>. QED  BY <3>1 DEF Misplaced
  <2>2. CASE row \in DivisionRows
    BY <1>1, <2>2, DivisionRowAgrees
  <2>3. CASE \/ \E op \in IOpcodes, funct3 \in 0 .. 7 : IRow(row, op, funct3)
             \/ \E op \in SOpcodes, funct3 \in 0 .. 7 : SRow(row, op, funct3)
    BY <1>2, <2>3
  <2>4. CASE \/ \E case \in FusedTypes : FusedRow(row, case)
             \/ \E case \in FloatArithmetic : ArithmeticRow(row, case)
             \/ \E case \in FloatByFunct3 : ByFunct3Row(row, case)
             \/ \E case \in FloatBySource2 : BySource2Row(row, case)
    BY <1>1, <2>4, FusedRowAgrees, ArithmeticRowAgrees, ByFunct3RowAgrees, BySource2RowAgrees
  <2>. QED  BY <1>3, <2>1, <2>2, <2>3, <2>4 DEF FloatRow
<1>4. CASE row \in Rv64g!BaseInstructions
  BY <1>2, <1>4, BaseRows
<1>5. CASE row \in Rv64g!MultiplyInstructions
  BY <1>2, <1>5, MultiplyRows
<1>6. CASE row \in Rv64g!AtomicInstructions
  BY <1>1, <1>6, AtomicRows, AmoRowAgrees
<1>7. CASE row \in Rv64g!SingleInstructions \union Rv64g!DoubleInstructions
  BY <1>3, <1>7, FloatRows
<1>. QED  BY <1>1, <1>4, <1>5, <1>6, <1>7, ListingParts

-----------------------------------------------------------------------------
(***************************************************************************)
(* What is accepted: the bits the decoder does not test                    *)
(***************************************************************************)
LEMMA MaskedFields ==
  ASSUME NEW word \in Word(32), NEW tested
  PROVE  /\ word \intersect tested \in Word(32)
         /\ 0 .. 6 \subseteq tested => getOpcode(word \intersect tested) = getOpcode(word)
         /\ 12 .. 14 \subseteq tested => getFunct3(word \intersect tested) = getFunct3(word)
         /\ 25 .. 31 \subseteq tested => getFunct7(word \intersect tested) = getFunct7(word)
         /\ 20 .. 31 \subseteq tested
              => getImmediateI(word \intersect tested) = getImmediateI(word)
         /\ (7 .. 11) \intersect tested = {}
              => getDestinationRegister(word \intersect tested) = 0
         /\ (12 .. 14) \intersect tested = {} => getFunct3(word \intersect tested) = 0
         /\ (15 .. 19) \intersect tested = {}
              => getSourceRegister1(word \intersect tested) = 0
         /\ (20 .. 24) \intersect tested = {}
              => getSourceRegister2(word \intersect tested) = 0
<1> DEFINE masked == word \intersect tested
<1>1. masked \in Word(32)
  BY DEF Word
<1>2. /\ 0 .. 6 \subseteq tested => Bits(masked, 0, 6) = Bits(word, 0, 6)
      /\ 12 .. 14 \subseteq tested => Bits(masked, 12, 14) = Bits(word, 12, 14)
      /\ 25 .. 31 \subseteq tested => Bits(masked, 25, 31) = Bits(word, 25, 31)
      /\ 20 .. 31 \subseteq tested => Bits(masked, 20, 31) = Bits(word, 20, 31)
      /\ (7 .. 11) \intersect tested = {} => Bits(masked, 7, 11) = {}
      /\ (12 .. 14) \intersect tested = {} => Bits(masked, 12, 14) = {}
      /\ (15 .. 19) \intersect tested = {} => Bits(masked, 15, 19) = {}
      /\ (20 .. 24) \intersect tested = {} => Bits(masked, 20, 24) = {}
  <2>1. ASSUME 0 .. 6 \subseteq tested PROVE Bits(masked, 0, 6) = Bits(word, 0, 6)
    <3>1. \A b : b \in Bits(masked, 0, 6) <=> b \in Bits(word, 0, 6)
      BY <2>1, BitsOfField
    <3>. QED  BY <3>1
  <2>2. ASSUME 12 .. 14 \subseteq tested PROVE Bits(masked, 12, 14) = Bits(word, 12, 14)
    <3>1. \A b : b \in Bits(masked, 12, 14) <=> b \in Bits(word, 12, 14)
      BY <2>2, BitsOfField
    <3>. QED  BY <3>1
  <2>3. ASSUME 25 .. 31 \subseteq tested PROVE Bits(masked, 25, 31) = Bits(word, 25, 31)
    <3>1. \A b : b \in Bits(masked, 25, 31) <=> b \in Bits(word, 25, 31)
      BY <2>3, BitsOfField
    <3>. QED  BY <3>1
  <2>4. ASSUME 20 .. 31 \subseteq tested PROVE Bits(masked, 20, 31) = Bits(word, 20, 31)
    <3>1. \A b : b \in Bits(masked, 20, 31) <=> b \in Bits(word, 20, 31)
      BY <2>4, BitsOfField
    <3>. QED  BY <3>1
  <2>5. ASSUME (7 .. 11) \intersect tested = {} PROVE Bits(masked, 7, 11) = {}
    BY <2>5, BitsOfField
  <2>6. ASSUME (12 .. 14) \intersect tested = {} PROVE Bits(masked, 12, 14) = {}
    BY <2>6, BitsOfField
  <2>7. ASSUME (15 .. 19) \intersect tested = {} PROVE Bits(masked, 15, 19) = {}
    BY <2>7, BitsOfField
  <2>8. ASSUME (20 .. 24) \intersect tested = {} PROVE Bits(masked, 20, 24) = {}
    BY <2>8, BitsOfField
  <2>. QED  BY <2>1, <2>2, <2>3, <2>4, <2>5, <2>6, <2>7, <2>8
<1>3. Number[{}] = 0
  BY DEF Number, Word
<1> HIDE DEF masked
<1>4. /\ 0 .. 6 \subseteq tested => getOpcode(masked) = getOpcode(word)
      /\ 12 .. 14 \subseteq tested => getFunct3(masked) = getFunct3(word)
      /\ 25 .. 31 \subseteq tested => getFunct7(masked) = getFunct7(word)
      /\ 20 .. 31 \subseteq tested => getImmediateI(masked) = getImmediateI(word)
  BY <1>2 DEF getOpcode, getFunct3, getFunct7, getImmediateI
<1>5. /\ (7 .. 11) \intersect tested = {} => getDestinationRegister(masked) = 0
      /\ (12 .. 14) \intersect tested = {} => getFunct3(masked) = 0
      /\ (15 .. 19) \intersect tested = {} => getSourceRegister1(masked) = 0
      /\ (20 .. 24) \intersect tested = {} => getSourceRegister2(masked) = 0
  BY <1>2, <1>3
  DEF getDestinationRegister, getFunct3, getSourceRegister1, getSourceRegister2
<1>. QED  BY <1>1, <1>4, <1>5 DEF masked

\* The bits of the types that some of them are untested of
NoSource2Types == {"LRW", "LRD", "FCLASSS", "FCLASSD", "FMVXW", "FMVXD", "FMVWX", "FMVDX", "FCVTDS"}

LEMMA TestedBits ==
  /\ LET tested == Tested("JALR")
     IN  0 .. 6 \subseteq tested /\ (12 .. 14) \intersect tested = {}
  /\ \A type \in {"SLLI", "SLLIW"} :
       0 .. 6 \subseteq Tested(type) /\ 12 .. 14 \subseteq Tested(type)
  /\ (26 .. 31) \intersect Tested("SLLI") = {} /\ (25 .. 31) \intersect Tested("SLLIW") = {}
  /\ \A type \in {"SRLI", "SRAI", "SRLIW", "SRAIW"} :
       0 .. 6 \subseteq Tested(type) /\ 12 .. 14 \subseteq Tested(type)
  /\ \A type \in {"SRLI", "SRAI"} : (26 .. 31) \intersect Tested(type) = {30}
  /\ \A type \in {"SRLIW", "SRAIW"} : (25 .. 31) \intersect Tested(type) = {30}
  /\ \A type \in {"ECALL", "EBREAK"} :
       /\ 0 .. 6 \subseteq Tested(type) /\ 12 .. 14 \subseteq Tested(type)
       /\ 20 .. 31 \subseteq Tested(type) /\ (7 .. 11) \intersect Tested(type) = {}
       /\ (15 .. 19) \intersect Tested(type) = {}
  /\ \A type \in NoSource2Types :
       /\ 0 .. 6 \subseteq Tested(type) /\ 12 .. 14 \subseteq Tested(type)
       /\ 25 .. 31 \subseteq Tested(type) /\ (20 .. 24) \intersect Tested(type) = {}
BY DEF Tested, UntestedBits, NoSource2Types

LEMMA MaskedIsKnown ==
  ASSUME NEW word, NEW type, decodeInstruction(word).type = type,
         NEW row \in Rv64g!Listing, row.type = type,
         Rv64g!Matches(word \intersect Tested(type), row)
  PROVE  Known(word)
BY DEF Known, Rv64g!Encodes


-----------------------------------------------------------------------------
(***************************************************************************)
(* What is accepted, opcode by opcode                                      *)
(***************************************************************************)
LEMMA SwitchAccepted ==
  ASSUME NEW word, NEW types, NEW value, NEW instr, decodeInstruction(word) \notin Exceptions,
         decodeInstruction(word) = Switch(types, value, instr, Unknown)
  PROVE  Labelled(types, value)
BY SwitchDefault

LEMMA TypeOf ==
  ASSUME NEW type, NEW immediate, NEW word
  PROVE  /\ InstrR(type, immediate, word).type = type
         /\ InstrI(type, immediate, word).type = type
BY Updated DEF InstrR, InstrI

\* A value with a label is in the listing.
LEMMA ILabelKnown ==
  ASSUME NEW word \in Word(32), NEW op \in IOpcodes, getOpcode(word) = op,
         Labelled(ITypes(op), getFunct3(word))
  PROVE  Known(word)
<1> DEFINE funct3 == getFunct3(word)
           row == Rv64g!I(ITypes(op)[funct3 + 1], op, funct3)
<1>1. funct3 \in Nat /\ funct3 =< 7 /\ op \in Nat /\ op =< 127
  BY FieldRanges DEF IOpcodes
<1>2. row \in Rv64g!Listing
  BY <1>1, ILabels DEF IRow
<1>3. Rv64g!Matches(word, row)
  BY <1>1, MatchesFunct3
<1>. QED  BY <1>2, <1>3, ListedIsKnown

LEMMA SLabelKnown ==
  ASSUME NEW word \in Word(32), NEW op \in SOpcodes, getOpcode(word) = op,
         Labelled(STypes(op), getFunct3(word))
  PROVE  Known(word)
<1> DEFINE funct3 == getFunct3(word)
           row == Rv64g!S(STypes(op)[funct3 + 1], op, funct3)
<1>1. funct3 \in Nat /\ funct3 =< 7 /\ op \in Nat /\ op =< 127
  BY FieldRanges DEF SOpcodes
<1>2. row \in Rv64g!Listing
  BY <1>1, SLabels DEF SRow
<1>3. Rv64g!Matches(word, row)
  BY <1>1, MatchesFunct3
<1>. QED  BY <1>2, <1>3, ListedIsKnown

LEMMA BLabelKnown ==
  ASSUME NEW word \in Word(32), getOpcode(word) = 99, Labelled(BTypes, getFunct3(word))
  PROVE  Known(word)
<1> DEFINE funct3 == getFunct3(word)
           row == Rv64g!B(BTypes[funct3 + 1], funct3)
<1>1. funct3 \in Nat /\ funct3 =< 7
  BY FieldRanges
<1>2. row \in Rv64g!Listing
  BY <1>1, BLabels DEF BRow
<1>3. Rv64g!Matches(word, row)
  BY <1>1, MatchesFunct3
<1>. QED  BY <1>2, <1>3, ListedIsKnown

LEMMA CsrLabelKnown ==
  ASSUME NEW word \in Word(32), getOpcode(word) = 115, Labelled(CsrTypes, getFunct3(word))
  PROVE  Known(word)
<1> DEFINE funct3 == getFunct3(word)
           row == Rv64g!Csr(CsrTypes[funct3 + 1], funct3)
<1>1. funct3 \in Nat /\ funct3 =< 7
  BY FieldRanges
<1>2. row \in Rv64g!Listing
  BY <1>1, CsrLabels DEF CsrRow
<1>3. Rv64g!Matches(word, row)
  BY <1>1, MatchesFunct3
<1>. QED  BY <1>2, <1>3, ListedIsKnown

LEMMA RLabelKnown ==
  ASSUME NEW word \in Word(32), NEW op \in ROpcodes, getOpcode(word) = op,
         NEW funct7 \in RFunct7s, getFunct7(word) = funct7,
         Labelled(RTypes(op, funct7), getFunct3(word))
  PROVE  Known(word)
<1> DEFINE funct3 == getFunct3(word)
           row == Rv64g!R(RTypes(op, funct7)[funct3 + 1], op, funct3, funct7)
<1>1. funct3 \in Nat /\ funct3 =< 7 /\ op \in Nat /\ op =< 127 /\ funct7 \in Nat /\ funct7 =< 127
  BY FieldRanges DEF ROpcodes, RFunct7s
<1>2. row \in Rv64g!Listing
  BY <1>1, RLabels DEF RRow
<1>3. Rv64g!Matches(word, row)
  BY <1>1, MatchesFunct7
<1>. QED  BY <1>2, <1>3, ListedIsKnown

LEMMA SpecialListed == SpecialRows \subseteq Rv64g!Listing
<1>1. SpecialRows \subseteq Rv64g!BaseInstructions
  BY DEF SpecialRows, Rv64g!BaseInstructions
<1>. QED  BY <1>1, ListingParts

\* LUI, AUIPC and JAL are known by their opcode; JALR whatever its funct3 is.
LEMMA UpperAndJumpKnown ==
  ASSUME NEW word \in Word(32), getOpcode(word) \in {23, 55, 103, 111}
  PROVE  Known(word)
<1>1. /\ Rv64g!U("LUI", 55) \in Rv64g!Listing /\ Rv64g!U("AUIPC", 23) \in Rv64g!Listing
      /\ Rv64g!J("JAL", 111) \in Rv64g!Listing
  BY SpecialListed DEF SpecialRows
<1>2. CASE getOpcode(word) \in {23, 55, 111}
  BY <1>1, <1>2, MatchesOpcode, ListedIsKnown
<1>3. CASE getOpcode(word) = 103
  <2> DEFINE masked == word \intersect Tested("JALR")
             row == Rv64g!I("JALR", 103, 0)
  <2>1. decodeInstruction(word).type = "JALR"
    BY <1>3, UpperAndJump, TypeOf
  <2>2. getOpcode(masked) = 103 /\ getFunct3(masked) = 0
    BY <1>3, MaskedFields, TestedBits
  <2>3. Rv64g!Matches(masked, row)
    <3> HIDE DEF masked
    <3>. QED  BY <2>2, MatchesFunct3
  <2>4. row \in Rv64g!Listing
    <3>1. row \in Rv64g!BaseInstructions
      BY DEF Rv64g!BaseInstructions
    <3>. QED  BY <3>1, ListingParts
  <2>5. row.type = "JALR"
    BY DEF Rv64g!I, Rv64g!Row
  <2>. QED  BY <2>1, <2>3, <2>4, <2>5, MaskedIsKnown
<1>. QED  BY <1>2, <1>3

LEMMA ImmediateKnown ==
  ASSUME NEW word \in Word(32), NEW op \in {19, 27}, getOpcode(word) = op,
         decodeInstruction(word) \notin Exceptions
  PROVE  Known(word)
<1> DEFINE type == decodeInstruction(word).type
           masked == word \intersect Tested(type)
<1>1. CASE getFunct3(word) # 1 /\ getFunct3(word) # 5
  BY <1>1, ImmediateSwitch, SwitchAccepted, ILabelKnown DEF IOpcodes
<1>2. CASE op = 19 /\ getFunct3(word) = 1
  <2>1. type = "SLLI"
    BY <1>2, ShiftDecoded, TypeOf
  <2>2. getOpcode(masked) = 19 /\ getFunct3(masked) = 1 /\ masked \intersect (26 .. 31) = {}
    <3>1. /\ 0 .. 6 \subseteq Tested("SLLI") /\ 12 .. 14 \subseteq Tested("SLLI")
          /\ (26 .. 31) \intersect Tested("SLLI") = {}
      BY TestedBits
    <3>2. getOpcode(masked) = 19 /\ getFunct3(masked) = 1
      BY <1>2, <2>1, <3>1, MaskedFields
    <3>. QED  BY <2>1, <3>1, <3>2
  <2> HIDE DEF masked, type
  <2>3. Rv64g!Matches(masked, Rv64g!Shift6("SLLI", 1, 0))
    BY <2>2, MatchesShift
  <2>4. Rv64g!Shift6("SLLI", 1, 0) \in Rv64g!Listing
    BY SpecialListed DEF SpecialRows
  <2>5. Rv64g!Shift6("SLLI", 1, 0).type = "SLLI"
    BY DEF Rv64g!Shift6, Rv64g!Row
  <2>. QED  BY <2>1, <2>3, <2>4, <2>5, MaskedIsKnown DEF masked, type
<1>3. CASE op = 27 /\ getFunct3(word) = 1
  <2>1. type = "SLLIW"
    BY <1>3, ShiftDecoded, TypeOf
  <2>2. getOpcode(masked) = 27 /\ getFunct3(masked) = 1 /\ masked \intersect (25 .. 31) = {}
    <3>1. /\ 0 .. 6 \subseteq Tested("SLLIW") /\ 12 .. 14 \subseteq Tested("SLLIW")
          /\ (25 .. 31) \intersect Tested("SLLIW") = {}
      BY TestedBits
    <3>2. getOpcode(masked) = 27 /\ getFunct3(masked) = 1
      BY <1>3, <2>1, <3>1, MaskedFields
    <3>. QED  BY <2>1, <3>1, <3>2
  <2> HIDE DEF masked, type
  <2>3. Rv64g!Matches(masked, Rv64g!Shift5("SLLIW", 1, 0))
    BY <2>2, MatchesShift
  <2>4. Rv64g!Shift5("SLLIW", 1, 0) \in Rv64g!Listing
    BY SpecialListed DEF SpecialRows
  <2>5. Rv64g!Shift5("SLLIW", 1, 0).type = "SLLIW"
    BY DEF Rv64g!Shift5, Rv64g!Row
  <2>. QED  BY <2>1, <2>3, <2>4, <2>5, MaskedIsKnown DEF masked, type
<1>4. CASE op = 19 /\ getFunct3(word) = 5
  <2>1. type = IF 30 \in word THEN "SRAI" ELSE "SRLI"
    BY <1>4, ShiftDecoded, TypeOf
  <2>2. /\ getOpcode(masked) = 19 /\ getFunct3(masked) = 5
        /\ masked \intersect (26 .. 31) = IF 30 \in word THEN {30} ELSE {}
    <3>1. /\ 0 .. 6 \subseteq Tested(type) /\ 12 .. 14 \subseteq Tested(type)
          /\ (26 .. 31) \intersect Tested(type) = {30}
      BY <2>1, TestedBits
    <3>2. getOpcode(masked) = 19 /\ getFunct3(masked) = 5
      BY <1>4, <3>1, MaskedFields
    <3>. QED  BY <3>1, <3>2
  <2> DEFINE row == IF 30 \in word THEN Rv64g!Shift6("SRAI", 5, 16) ELSE Rv64g!Shift6("SRLI", 5, 0)
  <2> HIDE DEF masked, type
  <2>3. Rv64g!Matches(masked, row)
    BY <2>2, MatchesShift
  <2>4. row \in Rv64g!Listing
    BY SpecialListed DEF SpecialRows
  <2>5. row.type = type
    BY <2>1 DEF Rv64g!Shift6, Rv64g!Row
  <2> HIDE DEF row
  <2>. QED  BY <2>3, <2>4, <2>5, MaskedIsKnown DEF masked, type
<1>5. CASE op = 27 /\ getFunct3(word) = 5
  <2>1. type = IF 30 \in word THEN "SRAIW" ELSE "SRLIW"
    BY <1>5, ShiftDecoded, TypeOf
  <2>2. /\ getOpcode(masked) = 27 /\ getFunct3(masked) = 5
        /\ masked \intersect (25 .. 31) = IF 30 \in word THEN {30} ELSE {}
    <3>1. /\ 0 .. 6 \subseteq Tested(type) /\ 12 .. 14 \subseteq Tested(type)
          /\ (25 .. 31) \intersect Tested(type) = {30}
      BY <2>1, TestedBits
    <3>2. getOpcode(masked) = 27 /\ getFunct3(masked) = 5
      BY <1>5, <3>1, MaskedFields
    <3>. QED  BY <3>1, <3>2
  <2> DEFINE row == IF 30 \in word THEN Rv64g!Shift5("SRAIW", 5, 32)
                    ELSE Rv64g!Shift5("SRLIW", 5, 0)
  <2> HIDE DEF masked, type
  <2>3. Rv64g!Matches(masked, row)
    BY <2>2, MatchesShift
  <2>4. row \in Rv64g!Listing
    BY SpecialListed DEF SpecialRows
  <2>5. row.type = type
    BY <2>1 DEF Rv64g!Shift5, Rv64g!Row
  <2> HIDE DEF row
  <2>. QED  BY <2>3, <2>4, <2>5, MaskedIsKnown DEF masked, type
<1>. QED  BY <1>1, <1>2, <1>3, <1>4, <1>5

LEMMA SwitchKnown ==
  ASSUME NEW word \in Word(32), getOpcode(word) \in {3, 7, 35, 39, 51, 59, 99},
         decodeInstruction(word) \notin Exceptions
  PROVE  Known(word)
<1>1. CASE getOpcode(word) \in {3, 7}
  BY <1>1, LoadSwitch, SwitchAccepted, ILabelKnown DEF IOpcodes
<1>2. CASE getOpcode(word) \in {35, 39}
  BY <1>2, StoreSwitch, SwitchAccepted, SLabelKnown DEF SOpcodes
<1>3. CASE getOpcode(word) = 99
  BY <1>3, BranchSwitch, SwitchAccepted, BLabelKnown
<1>4. CASE getOpcode(word) \in {51, 59}
  <2> DEFINE op == getOpcode(word)
             funct7 == getFunct7(word)
  <2>1. op \in ROpcodes
    BY <1>4 DEF ROpcodes
  <2>2. funct7 \in RFunct7s
    BY <2>1, OpSwitch DEF Exceptions
  <2>3. Labelled(RTypes(op, funct7), getFunct3(word))
    BY <2>1, <2>2, OpSwitch, SwitchAccepted
  <2>. QED  BY <2>1, <2>2, <2>3, RLabelKnown
<1>. QED  BY <1>1, <1>2, <1>3, <1>4

LEMMA FenceKnown ==
  ASSUME NEW word \in Word(32), getOpcode(word) = 15, decodeInstruction(word) \notin Exceptions
  PROVE  Known(word)
<1>1. CASE getFunct3(word) = 0
  <2>1. Rv64g!Fence("FENCE", 0) \in Rv64g!Listing
    BY SpecialListed DEF SpecialRows
  <2>2. Rv64g!Matches(word, Rv64g!Fence("FENCE", 0))
    BY <1>1, MatchesFunct3
  <2>. QED  BY <2>1, <2>2, ListedIsKnown
<1>2. CASE getFunct3(word) # 0
  BY <1>2, FenceSwitch, SwitchAccepted, ILabelKnown DEF IOpcodes
<1>. QED  BY <1>1, <1>2

LEMMA SystemKnown ==
  ASSUME NEW word \in Word(32), getOpcode(word) = 115, decodeInstruction(word) \notin Exceptions
  PROVE  Known(word)
<1>1. CASE getFunct3(word) # 0
  BY <1>1, SystemDecoded, SwitchAccepted, CsrLabelKnown
<1>2. CASE getFunct3(word) = 0
  <2> DEFINE immediate == getImmediateI(word)
             type == IF immediate = {} THEN "ECALL" ELSE "EBREAK"
             row == IF immediate = {} THEN Rv64g!Env("ECALL", 0) ELSE Rv64g!Env("EBREAK", 1)
             masked == word \intersect Tested(type)
  <2>1. immediate = {} \/ immediate = {0}
    BY <1>2, SystemDecoded DEF Exceptions
  <2>2. decodeInstruction(word).type = type
    BY <1>2, <2>1, SystemDecoded, TypeOf
  <2>3. /\ masked \in Word(32) /\ getOpcode(masked) = 115 /\ getFunct3(masked) = 0
        /\ getDestinationRegister(masked) = 0 /\ getSourceRegister1(masked) = 0
        /\ getImmediateI(masked) = immediate
    <3>1. /\ 0 .. 6 \subseteq Tested(type) /\ 12 .. 14 \subseteq Tested(type)
          /\ 20 .. 31 \subseteq Tested(type) /\ (7 .. 11) \intersect Tested(type) = {}
          /\ (15 .. 19) \intersect Tested(type) = {}
      BY TestedBits
    <3>. QED  BY <1>2, <3>1, MaskedFields
  <2> HIDE DEF masked, immediate
  <2>4. Rv64g!Matches(masked, row)
    BY <2>1, <2>3, MatchesEnv
  <2>5. row \in Rv64g!Listing
    BY SpecialListed DEF SpecialRows
  <2>6. row.type = type
    BY DEF Rv64g!Env, Rv64g!Row
  <2> HIDE DEF row, type
  <2>. QED  BY <2>2, <2>4, <2>5, <2>6, MaskedIsKnown DEF masked
<1>. QED  BY <1>1, <1>2

\* LR is decoded whatever its rs2 is, which has to be 0.
LEMMA NoSource2Known ==
  ASSUME NEW word \in Word(32), NEW type \in NoSource2Types, decodeInstruction(word).type = type,
         NEW row \in Rv64g!Listing, row.type = type,
         \A masked \in Word(32) :
           /\ getOpcode(masked) = getOpcode(word) /\ getFunct3(masked) = getFunct3(word)
           /\ getFunct7(masked) = getFunct7(word) /\ getSourceRegister2(masked) = 0
           => Rv64g!Matches(masked, row)
  PROVE  Known(word)
<1> DEFINE masked == word \intersect Tested(type)
<1>1. /\ 0 .. 6 \subseteq Tested(type) /\ 12 .. 14 \subseteq Tested(type)
      /\ 25 .. 31 \subseteq Tested(type) /\ (20 .. 24) \intersect Tested(type) = {}
  BY TestedBits
<1>2. /\ masked \in Word(32)
      /\ getOpcode(masked) = getOpcode(word) /\ getFunct3(masked) = getFunct3(word)
      /\ getFunct7(masked) = getFunct7(word) /\ getSourceRegister2(masked) = 0
  BY <1>1, MaskedFields
<1> HIDE DEF masked
<1>3. Rv64g!Matches(masked, row)
  BY <1>2
<1>. QED  BY <1>3, MaskedIsKnown DEF masked

LEMMA AmoKnown ==
  ASSUME NEW word \in Word(32), getOpcode(word) = 47, decodeInstruction(word) \notin Exceptions
  PROVE  Known(word)
<1> DEFINE funct3 == getFunct3(word)
           flags == Rv64g!ImmediateOf("A", word)
<1>1. PICK case \in AmoTypes : getFunct7(word) \div 4 = case[1]
  BY AmoDecoded DEF HasCase, Exceptions
<1>2. case[1] \in Nat /\ case[1] =< 31 /\ (case[1] = 2 => case[2] = "LRW" /\ case[3] = "LRD")
  BY DEF AmoTypes
<1> DEFINE type == IF funct3 = 2 THEN case[2] ELSE case[3]
           row == Rv64g!A(type, case[1], funct3)
<1>3. (funct3 = 2 \/ funct3 = 3) /\ decodeInstruction(word) = InstrR(type, flags, word)
  BY <1>1, AmoDecoded DEF Exceptions
<1>4. row \in Rv64g!Listing
  BY <1>3, AtomicRows
<1>5. row.type = type /\ decodeInstruction(word).type = type
  BY <1>3, TypeOf DEF Rv64g!A, Rv64g!Row
<1>6. CASE case[1] = 2
  <2>1. type \in NoSource2Types
    BY <1>2, <1>6 DEF NoSource2Types
  <2> HIDE DEF type
  <2>2. ASSUME NEW masked \in Word(32),
               getOpcode(masked) = 47, getFunct3(masked) = funct3,
               getFunct7(masked) = getFunct7(word), getSourceRegister2(masked) = 0
        PROVE  Rv64g!Matches(masked, row)
    BY <1>1, <1>2, <1>3, <2>2, MatchesAmo
  <2> HIDE DEF row
  <2>. QED  BY <1>4, <1>5, <2>1, <2>2, NoSource2Known
<1>7. CASE case[1] # 2
  <2> HIDE DEF type
  <2>1. Rv64g!Matches(word, row)
    BY <1>1, <1>2, <1>3, <1>7, MatchesAmo
  <2>. QED  BY <1>4, <2>1, ListedIsKnown
<1>. QED  BY <1>6, <1>7

LEMMA FusedKnown ==
  ASSUME NEW word \in Word(32), getOpcode(word) \in FusedOpcodes,
         decodeInstruction(word) \notin Exceptions
  PROVE  Known(word)
<1> DEFINE format == Number[Bits(word, 25, 26)]
<1>1. PICK case \in FusedTypes : getOpcode(word) = case[1]
  <2>1. HasCase(FusedTypes, getOpcode(word))
    BY FusedCases, FieldRanges
  <2>. QED  BY <2>1 DEF HasCase
<1>2. case[1] \in Nat /\ case[1] =< 127
  BY DEF FusedTypes
<1> DEFINE type == IF format = 0 THEN case[2] ELSE case[3]
           row == Rv64g!FR4(type, case[1], format)
<1>3. format = 0 \/ format = 1
  BY <1>1, FusedDecoded DEF Exceptions
<1>4. row \in Rv64g!Listing
  BY <1>3, FloatCases
<1> HIDE DEF type
<1>5. Rv64g!Matches(word, row)
  BY <1>1, <1>2, <1>3, MatchesFused
<1>. QED  BY <1>4, <1>5, ListedIsKnown

\* A case of OP-FP is met with the funct7 of its rows, one more for double
\* precision.
LEMMA PrecisionOfCase ==
  ASSUME NEW word, NEW even \in EvenFunct7s, EvenFunct7Of(word) = even
  PROVE  /\ even \in Nat /\ even + 1 =< 127
         /\ getFunct7(word) = IF 25 \in word THEN even + 1 ELSE even
BY PrecisionOf

LEMMA ArithmeticKnown ==
  ASSUME NEW word \in Word(32), getOpcode(word) = 83,
         NEW case \in FloatArithmetic, EvenFunct7Of(word) = case[1]
  PROVE  Known(word)
<1> DEFINE row == IF 25 \in word THEN Rv64g!FR(case[3], case[1] + 1) ELSE Rv64g!FR(case[2], case[1])
<1>1. case[1] \in EvenFunct7s
  BY FloatKeys DEF EvenFunct7s
<1>2. row \in Rv64g!Listing
  BY FloatCases
<1>3. Rv64g!Matches(word, row)
  BY <1>1, PrecisionOfCase, MatchesFloat
<1>. QED  BY <1>2, <1>3, ListedIsKnown

LEMMA DivisionKnown ==
  ASSUME NEW word \in Word(32), getOpcode(word) = 83, EvenFunct7Of(word) = 12
  PROVE  Known(word)
<1> DEFINE row == IF 25 \in word THEN Rv64g!FR("FDIVD", 13) ELSE Rv64g!FR("FDIVS", 12)
<1>1. 12 \in EvenFunct7s
  BY DEF EvenFunct7s
<1>2. row \in Rv64g!Listing
  BY FloatCases DEF DivisionRows
<1>3. Rv64g!Matches(word, row)
  BY <1>1, PrecisionOfCase, MatchesFloat
<1>. QED  BY <1>2, <1>3, ListedIsKnown

LEMMA ByFunct3Known ==
  ASSUME NEW word \in Word(32), getOpcode(word) = 83,
         NEW case \in FloatByFunct3, <<EvenFunct7Of(word), getFunct3(word)>> = case[1]
  PROVE  Known(word)
<1> DEFINE funct7 == case[1][1]
           funct3 == case[1][2]
           double == 25 \in word
           type == TypeFor(case, word)
<1>1. funct7 \in EvenFunct7s /\ EvenFunct7Of(word) = funct7 /\ getFunct3(word) = funct3
  BY FloatKeys DEF EvenFunct7s
<1>2. /\ funct3 \in Nat /\ funct3 =< 7
      /\ funct7 \in {112, 120} => case[2] \in NoSource2Types /\ case[3] \in NoSource2Types
  BY DEF FloatByFunct3, NoSource2Types
<1>3. /\ funct7 \in Nat /\ funct7 =< 127 /\ funct7 + 1 \in Nat /\ funct7 + 1 =< 127
      /\ getFunct7(word) = IF double THEN funct7 + 1 ELSE funct7
  BY <1>1, PrecisionOfCase
<1>4. CASE funct7 \in {112, 120}
  <2> DEFINE row == IF double THEN Rv64g!FRU(case[3], funct7 + 1, funct3)
                    ELSE Rv64g!FRU(case[2], funct7, funct3)
  <2>1. row \in Rv64g!Listing
    BY <1>4, FloatCases
  <2>2. row.type = type
    BY DEF TypeFor, Rv64g!FRU, Rv64g!Row
  <2>3. decodeInstruction(word).type = type
    BY FloatDecoded, TypeOf DEF FloatInstr
  <2>4. type \in NoSource2Types
    BY <1>2, <1>4 DEF TypeFor
  <2> HIDE DEF funct7, funct3, type
  <2>5. ASSUME NEW masked \in Word(32), getOpcode(masked) = 83, getFunct3(masked) = funct3,
               getFunct7(masked) = getFunct7(word), getSourceRegister2(masked) = 0
        PROVE  Rv64g!Matches(masked, row)
    BY <1>2, <1>3, <2>5, MatchesFloat3
  <2> HIDE DEF row
  <2>. QED  BY <1>1, <2>1, <2>2, <2>3, <2>4, <2>5, NoSource2Known
<1>5. CASE funct7 \notin {112, 120}
  <2> DEFINE row == IF double THEN Rv64g!FR3(case[3], funct7 + 1, funct3)
                    ELSE Rv64g!FR3(case[2], funct7, funct3)
  <2>1. row \in Rv64g!Listing
    BY <1>5, FloatCases
  <2> HIDE DEF funct7, funct3
  <2>2. Rv64g!Matches(word, row)
    BY <1>1, <1>2, <1>3, MatchesFloat3
  <2>. QED  BY <2>1, <2>2, ListedIsKnown
<1>. QED  BY <1>4, <1>5

LEMMA BySource2Known ==
  ASSUME NEW word \in Word(32), getOpcode(word) = 83,
         NEW case \in FloatBySource2, <<EvenFunct7Of(word), getSourceRegister2(word)>> = case[1]
  PROVE  Known(word)
<1> DEFINE funct7 == case[1][1]
           rs2 == case[1][2]
           double == 25 \in word
           row == IF double THEN Rv64g!FR1(case[3], funct7 + 1, rs2)
                  ELSE Rv64g!FR1(case[2], funct7, rs2)
<1>1. funct7 \in EvenFunct7s /\ EvenFunct7Of(word) = funct7 /\ getSourceRegister2(word) = rs2
  BY FloatKeys DEF EvenFunct7s
<1>2. /\ rs2 \in Nat /\ rs2 =< 31
      /\ case[3] = "FCVTDS" => funct7 = 32
  BY DEF FloatBySource2
<1>3. /\ funct7 \in Nat /\ funct7 =< 127 /\ funct7 + 1 \in Nat /\ funct7 + 1 =< 127
      /\ getFunct7(word) = IF double THEN funct7 + 1 ELSE funct7
  BY <1>1, PrecisionOfCase
<1>4. CASE double /\ case[3] = "FCVTDS"
  <2> DEFINE listed == Rv64g!FR1("FCVTDS", 33, 0)
  <2>1. listed \in Rv64g!Listing
    BY FloatCases DEF MisplacedRows
  <2>2. listed.type = "FCVTDS"
    BY DEF Rv64g!FR1, Rv64g!Row
  <2>3. decodeInstruction(word).type = "FCVTDS"
    BY <1>4, FloatDecoded, TypeOf DEF FloatInstr, TypeFor
  <2>4. "FCVTDS" \in NoSource2Types
    BY DEF NoSource2Types
  <2>5. getFunct7(word) = 33
    BY <1>2, <1>3, <1>4
  <2>6. ASSUME NEW masked \in Word(32), getOpcode(masked) = 83,
               getFunct7(masked) = 33, getSourceRegister2(masked) = 0
        PROVE  Rv64g!Matches(masked, listed)
    BY <2>6, MatchesSource2
  <2> HIDE DEF listed
  <2>. QED  BY <2>1, <2>2, <2>3, <2>4, <2>5, <2>6, NoSource2Known
<1>5. CASE ~(double /\ case[3] = "FCVTDS")
  <2>1. row \in Rv64g!Listing
    BY <1>5, FloatCases
  <2> HIDE DEF funct7, rs2
  <2>2. Rv64g!Matches(word, row)
    BY <1>1, <1>2, <1>3, MatchesSource2
  <2>. QED  BY <2>1, <2>2, ListedIsKnown
<1>. QED  BY <1>4, <1>5

LEMMA FloatKnown ==
  ASSUME NEW word \in Word(32), getOpcode(word) = 83, decodeInstruction(word) \notin Exceptions
  PROVE  Known(word)
BY FloatDecoded, ArithmeticKnown, DivisionKnown, ByFunct3Known, BySource2Known

\* What is accepted is listed, or is but for bits that are not tested
\* (instruction.cpp:180-1064).
LEMMA AcceptedKnown ==
  ASSUME NEW word \in Word(32), decodeInstruction(word) \notin Exceptions
  PROVE  Known(word)
<1>1. getOpcode(word) \in Opcodes
  BY ByOpcode DEF Exceptions
<1>. QED
  BY <1>1, UpperAndJumpKnown, ImmediateKnown, SwitchKnown, FenceKnown, SystemKnown, AmoKnown,
     FusedKnown, FloatKnown
  DEF Opcodes

-----------------------------------------------------------------------------
(***************************************************************************)
(* The types of what is decoded                                            *)
(***************************************************************************)

\* What TypeOK says of one instruction
Typed(instr) ==
  instr.immediate \in Immediate /\ {instr.rd, instr.rs1, instr.rs2} \subseteq 0 .. 31

LEMMA TypedInstr ==
  ASSUME NEW type, NEW immediate \in Immediate, NEW word
  PROVE  /\ Typed(InstrR(type, immediate, word)) /\ Typed(InstrI(type, immediate, word))
         /\ Typed(InstrS(type, immediate, word)) /\ Typed(InstrU(type, immediate, word))
BY FieldRanges DEF Typed, InstrR, InstrI, InstrS, InstrU, Instr

LEMMA ImmediatesTyped ==
  ASSUME NEW word \in Word(32)
  PROVE  /\ \A format : Rv64g!ImmediateOf(format, word) \in Immediate
         /\ clearBit(getImmediateI(word), 10) \in Immediate
         /\ {} \in Immediate
<1>1. \A format : Rv64g!ImmediateOf(format, word) \in Immediate
  BY DEF Rv64g!ImmediateOf, Immediate, Word
<1>2. clearBit(getImmediateI(word), 10) \in Immediate
  BY <1>1, FormatImmediates DEF clearBit, Immediate, Word
<1>. QED  BY <1>1, <1>2 DEF Immediate, Word

LEMMA TypedSwitch ==
  ASSUME NEW types, NEW value, NEW immediate \in Immediate, NEW word
  PROVE  /\ \/ Switch(types, value, InstrR("LUI", immediate, word), Unknown) \in Exceptions
            \/ Typed(Switch(types, value, InstrR("LUI", immediate, word), Unknown))
         /\ \/ Switch(types, value, InstrI("LUI", immediate, word), Unknown) \in Exceptions
            \/ Typed(Switch(types, value, InstrI("LUI", immediate, word), Unknown))
         /\ \/ Switch(types, value, InstrS("LUI", immediate, word), Unknown) \in Exceptions
            \/ Typed(Switch(types, value, InstrS("LUI", immediate, word), Unknown))
<1>1. CASE Labelled(types, value)
  <2>1. /\ Switch(types, value, InstrR("LUI", immediate, word), Unknown)
             = InstrR(types[value + 1], immediate, word)
        /\ Switch(types, value, InstrI("LUI", immediate, word), Unknown)
             = InstrI(types[value + 1], immediate, word)
        /\ Switch(types, value, InstrS("LUI", immediate, word), Unknown)
             = InstrS(types[value + 1], immediate, word)
    BY <1>1, SwitchLabel DEF InstrR, InstrI, InstrS
  <2>. QED  BY <2>1, TypedInstr
<1>2. CASE ~Labelled(types, value)
  BY <1>2, SwitchDefault
<1>. QED  BY <1>1, <1>2

\* Every accepted word becomes an instruction with registers of 5 bits and an
\* immediate of 32 bits.
LEMMA DecodedTyped ==
  ASSUME NEW word \in Word(32), decodeInstruction(word) \notin Exceptions
  PROVE  Typed(decodeInstruction(word))
<1> DEFINE op == getOpcode(word)
<1>1. op \in Opcodes
  BY ByOpcode DEF Exceptions
<1>2. CASE op \in {23, 55, 103, 111}
  BY <1>2, UpperAndJump, TypedInstr, ImmediatesTyped
<1>3. CASE op \in {3, 7}
  BY <1>3, LoadSwitch, TypedSwitch, ImmediatesTyped
<1>4. CASE op \in {35, 39}
  BY <1>4, StoreSwitch, TypedSwitch, ImmediatesTyped DEF SOpcodes
<1>5. CASE op = 99
  BY <1>5, BranchSwitch, TypedSwitch, ImmediatesTyped
<1>6. CASE op \in {51, 59}
  <2>1. op \in ROpcodes
    BY <1>6 DEF ROpcodes
  <2>2. getFunct7(word) \in RFunct7s
    BY <2>1, OpSwitch DEF Exceptions
  <2>. QED  BY <2>1, <2>2, OpSwitch, TypedSwitch, ImmediatesTyped
<1>7. CASE op \in {19, 27}
  <2>1. CASE getFunct3(word) # 1 /\ getFunct3(word) # 5
    BY <1>7, <2>1, ImmediateSwitch, TypedSwitch, ImmediatesTyped
  <2>2. CASE getFunct3(word) = 1 \/ getFunct3(word) = 5
    BY <1>7, <2>2, ShiftDecoded, TypedInstr, ImmediatesTyped
  <2>. QED  BY <2>1, <2>2
<1>8. CASE op = 15
  BY <1>8, FenceDecoded, FenceSwitch, TypedInstr, TypedSwitch, ImmediatesTyped
<1>9. CASE op = 115
  <2>1. CASE getFunct3(word) = 0
    BY <1>9, <2>1, SystemDecoded, TypedInstr, ImmediatesTyped DEF Exceptions
  <2>2. CASE getFunct3(word) # 0
    BY <1>9, <2>2, SystemDecoded, TypedSwitch, ImmediatesTyped
  <2>. QED  BY <2>1, <2>2
<1>10. CASE op = 47
  <2>1. PICK case \in AmoTypes : getFunct7(word) \div 4 = case[1]
    BY <1>10, AmoDecoded DEF HasCase, Exceptions
  <2>. QED  BY <1>10, <2>1, AmoDecoded, TypedInstr, ImmediatesTyped DEF Exceptions
<1>11. CASE op \in FusedOpcodes
  <2>1. HasCase(FusedTypes, op)
    BY <1>11, FusedCases, FieldRanges
  <2>2. PICK case \in FusedTypes : op = case[1]
    BY <2>1 DEF HasCase
  <2>. QED  BY <2>2, FusedDecoded, TypedInstr, ImmediatesTyped DEF Exceptions
<1>12. CASE op = 83
  <2>1. \A type : Typed(FloatInstr(type, word))
    BY TypedInstr, ImmediatesTyped DEF FloatInstr
  <2>. QED  BY <1>12, <2>1, FloatDecoded
<1>. QED
  BY <1>1, <1>2, <1>3, <1>4, <1>5, <1>6, <1>7, <1>8, <1>9, <1>10, <1>11, <1>12 DEF Opcodes

-----------------------------------------------------------------------------
(***************************************************************************)
(* The vector of instructions, for every program                           *)
(***************************************************************************)
LEMMA WordsAreWords ==
  /\ \A i : WordAt(i) \in Word(32)
  /\ CurrentWord \in Word(32)
BY DEF WordAt, CurrentWord, loadU, Word

\* The instructions of the vector are accepted words.
LEMMA InstructionsAccepted ==
  ASSUME DecodingInv, NEW i \in 1 .. Len(instructions)
  PROVE  /\ instructions[i] = decodeInstruction(WordAt(i)) /\ WordAt(i) \in Word(32)
         /\ decodeInstruction(WordAt(i)) \notin Exceptions
<1>1. instructions[i] \in Decoded
  BY DEF DecodingInv
<1>2. instructions[i] \notin Exceptions
  BY <1>1 DEF Decoded
<1>. QED  BY <1>2, WordsAreWords DEF DecodingInv

LEMMA DecodingGivesListing == DecodingInv => Rv64gDecoded
<1> SUFFICES ASSUME DecodingInv, NEW i \in 1 .. Len(instructions),
                    NEW row \in Rv64g!Encodes(WordAt(i))
             PROVE  Misplaced(row, WordAt(i))
                      \/ instructions[i] = WithoutCsrNumber(row, Rv64g!Meaning(row, WordAt(i)))
  BY DEF Rv64gDecoded
<1>. QED  BY InstructionsAccepted, ListedDecoded DEF Agrees

LEMMA DecodingGivesKnown == DecodingInv => OnlyUntestedBitsIgnored
<1> SUFFICES ASSUME DecodingInv, NEW i \in 1 .. Len(instructions)
             PROVE  LET type == instructions[i].type
                    IN  \/ Rv64g!Encodes(WordAt(i)) # {}
                        \/ \E row \in Rv64g!Encodes(WordAt(i) \intersect Tested(type)) :
                             row.type = type
  BY DEF OnlyUntestedBitsIgnored, Tested
<1>. QED  BY InstructionsAccepted, AcceptedKnown DEF Known

\* The offset stays within the program because only a program of whole words
\* is decoded.
OffsetInv == program \in Programs /\ programOffset =< Len(program)

LEMMA ProgramLength ==
  ASSUME program \in Programs
  PROVE  Len(program) \in Nat
BY ProgramsAssumption

LEMMA InitOffset == Init => OffsetInv
BY ProgramLength DEF Init, OffsetInv

LEMMA NextOffset ==
  ASSUME DecodingInv, OffsetInv, [Next]_vars
  PROVE  OffsetInv'
<1>1. CASE DecodeNext
  <2> DEFINE count == Len(instructions)
  <2>1. /\ program' = program /\ programOffset' = programOffset + 4
        /\ Len(program) % 4 = 0 /\ programOffset < Len(program)
    BY <1>1 DEF DecodeNext, AtWord, SizeOK, LoopCondition
  <2>2. programOffset = 4 * count /\ count \in Nat /\ Len(program) \in Nat
    BY ProgramLength DEF DecodingInv, OffsetInv
  <2> HIDE DEF count
  <2>3. programOffset + 4 =< Len(program)
    BY <2>1, <2>2
  <2>. QED  BY <2>1, <2>3 DEF OffsetInv
<1>2. CASE UNCHANGED <<program, programOffset>>
  BY <1>2 DEF OffsetInv
<1>. QED
  BY <1>1, <1>2 DEF Next, vars, ThrowSize, ThrowCompressed, ThrowUnknown, Return

LEMMA InvariantsGiveTypes == DecodingInv /\ OffsetInv => TypeOK
<1> SUFFICES ASSUME DecodingInv, OffsetInv PROVE TypeOK
  OBVIOUS
<1> DEFINE count == Len(instructions)
<1>1. programOffset = 4 * count /\ count \in Nat
  BY DEF DecodingInv
<1>2. /\ programOffset \in 0 .. Len(program) /\ programOffset % 4 = 0
      /\ count = programOffset \div 4
  <2> HIDE DEF count
  <2>. QED  BY <1>1, ProgramLength DEF OffsetInv
<1>3. ASSUME NEW i \in 1 .. count
      PROVE  Typed(instructions[i])
  BY <1>3, InstructionsAccepted, DecodedTyped
<1>. QED  BY <1>2, <1>3 DEF TypeOK, Typed

\* A rejected word is one decodeInstruction throws at.
RejectedInv == Rejected => decodeInstruction(CurrentWord) \in Exceptions

LEMMA ListedNotRejected ==
  ASSUME NEW word \in Word(32), NEW row \in Rv64g!Encodes(word),
         decodeInstruction(word) \in Exceptions
  PROVE  Misplaced(row, word)
<1> DEFINE meaning == Rv64g!Meaning(row, word)
<1>1. \E type, immediate, rd, rs1, rs2 : meaning = Instr(type, immediate, rd, rs1, rs2)
  BY DEF Rv64g!Meaning, Instr
<1> HIDE DEF meaning
<1>2. PICK type, immediate, rd, rs1, rs2 : meaning = Instr(type, immediate, rd, rs1, rs2)
  BY <1>1
<1>3. [Instr(type, immediate, rd, rs1, rs2) EXCEPT !.immediate = {}]
        = Instr(type, {}, rd, rs1, rs2)
  BY Updated
<1>4. WithoutCsrNumber(row, meaning) \notin Exceptions
  BY <1>2, <1>3, NotException DEF WithoutCsrNumber
<1>. QED  BY <1>4, ListedDecoded DEF Agrees, meaning

LEMMA RejectedGivesMisplaced == RejectedInv => Rv64gAccepted
BY ListedNotRejected, WordsAreWords DEF RejectedInv, Rv64gAccepted

LEMMA InitRejected == Init => RejectedInv
BY DEF Init, RejectedInv, Rejected, Unknown, UnknownPointer

LEMMA NextRejected ==
  ASSUME RejectedInv, [Next]_vars
  PROVE  RejectedInv'
<1>1. CASE ThrowUnknown
  <2>1. CurrentWord' = CurrentWord /\ decodeInstruction(CurrentWord) \in Exceptions
    BY <1>1 DEF ThrowUnknown, CurrentWord
  <2>. QED  BY <2>1 DEF RejectedInv, decodeInstruction
<1>2. CASE ThrowSize \/ ThrowCompressed \/ DecodeNext \/ Return
  <2>1. outcome' \in {"Program size not divisible by 4",
                     "Compressed instructions are not supported", "decoding", "returned"}
    BY <1>2 DEF ThrowSize, ThrowCompressed, DecodeNext, Return, AtWord
  <2>. QED  BY <2>1 DEF RejectedInv, Rejected, Unknown, UnknownPointer
<1>3. CASE UNCHANGED vars
  BY <1>3 DEF vars, RejectedInv, Rejected, CurrentWord
<1>. QED  BY <1>1, <1>2, <1>3 DEF Next

-----------------------------------------------------------------------------
\* The offset of the loop is that of a word of the program or its end, and the
\* instructions so far have registers of 5 bits and immediates of 32 bits
\* (instruction.cpp:1067-1093).
THEOREM DecoderTypes == Spec => []TypeOK
<1>1. Spec => []OffsetInv
  <2>1. Init => DecodingInv /\ OffsetInv
    BY InitDecoding, InitOffset
  <2>2. DecodingInv /\ OffsetInv /\ [Next]_vars => (DecodingInv /\ OffsetInv)'
    BY NextDecoding, NextOffset
  <2>. QED  BY <2>1, <2>2, PTL DEF Spec
<1>. QED  BY <1>1, DecodingInvariant, InvariantsGiveTypes, PTL

\* Whatever the bytes of a program are, each of its words that the ISA lists
\* becomes the instruction the ISA says it is, at its place in the vector; the
\* misplaced ones and CSR numbers excepted (instruction.cpp:93-1064).
THEOREM ListedIsDecoded == Spec => []Rv64gDecoded
<1>. QED  BY DecodingInvariant, DecodingGivesListing, PTL

\* No program is rejected for a word that the ISA lists, the misplaced ones
\* excepted (the default labels of instruction.cpp:182-1063).
THEOREM ListedIsAccepted == Spec => []Rv64gAccepted
<1>. QED  BY InitRejected, NextRejected, RejectedGivesMisplaced, PTL DEF Spec

\* Whatever the bytes of a program are, a word outside the listing that becomes
\* an instruction differs from a listed one of that type in untested bits only
\* (instruction.cpp:180-1064).
THEOREM UnlistedIsUntested == Spec => []OnlyUntestedBitsIgnored
<1>. QED  BY DecodingInvariant, DecodingGivesKnown, PTL
=============================================================================
