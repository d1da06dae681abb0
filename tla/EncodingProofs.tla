--------------------------- MODULE EncodingProofs ---------------------------
(***************************************************************************)
(* The decoder reads fields with shifts and masks; the listing of the ISA  *)
(* says what their bits are.  These lemmas relate the two for every word:  *)
(* what the field accessors and the immediates of Decoder are in the terms *)
(* of Rv64gEncoding.                                                       *)
(***************************************************************************)
EXTENDS DecoderProperties, TLAPS

-----------------------------------------------------------------------------
(***************************************************************************)
(* Numbers and their bits                                                  *)
(***************************************************************************)
LEMMA NumberRange ==
  ASSUME NEW field \in Word(7)
  PROVE  Number[field] \in Nat /\ Number[field] =< 127
BY DEF Number, Word

LEMMA NumberBits ==
  ASSUME NEW field \in Word(7), NEW b \in 0 .. 6
  PROVE  b \in field <=> Rv64g!Bit(Number[field], b) = 1
<1>1. Number[field] =
          (IF 0 \in field THEN 1 ELSE 0) + (IF 1 \in field THEN 2 ELSE 0)
            + (IF 2 \in field THEN 4 ELSE 0) + (IF 3 \in field THEN 8 ELSE 0)
            + (IF 4 \in field THEN 16 ELSE 0) + (IF 5 \in field THEN 32 ELSE 0)
            + (IF 6 \in field THEN 64 ELSE 0)
  BY DEF Number
<1> HIDE DEF Number
<1>2. /\ 0 \in field <=> Rv64g!Bit(Number[field], 0) = 1
      /\ 1 \in field <=> Rv64g!Bit(Number[field], 1) = 1
      /\ 2 \in field <=> Rv64g!Bit(Number[field], 2) = 1
      /\ 3 \in field <=> Rv64g!Bit(Number[field], 3) = 1
      /\ 4 \in field <=> Rv64g!Bit(Number[field], 4) = 1
      /\ 5 \in field <=> Rv64g!Bit(Number[field], 5) = 1
      /\ 6 \in field <=> Rv64g!Bit(Number[field], 6) = 1
  BY <1>1 DEF Rv64g!Bit
<1>. QED  BY <1>2

LEMMA SameBits ==
  ASSUME NEW u \in Nat, u =< 127, NEW v \in Nat, v =< 127,
         \A b \in 0 .. 6 : Rv64g!Bit(u, b) = 1 <=> Rv64g!Bit(v, b) = 1
  PROVE  u = v
BY DEF Rv64g!Bit

\* The bits above those a number needs
LEMMA HighBits ==
  ASSUME NEW u \in Nat
  PROVE  /\ u \in 0 .. 3  => \A b \in 2 .. 6 : Rv64g!Bit(u, b) = 0
         /\ u \in 0 .. 7  => \A b \in 3 .. 6 : Rv64g!Bit(u, b) = 0
         /\ u \in 0 .. 31 => \A b \in 5 .. 6 : Rv64g!Bit(u, b) = 0
BY DEF Rv64g!Bit

-----------------------------------------------------------------------------
(***************************************************************************)
(* Fields                                                                  *)
(***************************************************************************)
LEMMA BitsOfField ==
  ASSUME NEW word, NEW first \in Nat, NEW last \in Nat, first =< last, last =< 31
  PROVE  \A b : b \in Bits(word, first, last)
                 <=> b \in 0 .. last - first /\ b + first \in word
BY DEF Bits, getBits, ShiftRight, oneBits

LEMMA BitsShort ==
  ASSUME NEW word, NEW first \in Nat, NEW last \in Nat, first =< last, last =< 31,
         last - first =< 6
  PROVE  Bits(word, first, last) \in Word(7)
<1>1. \A b \in Bits(word, first, last) : b \in 0 .. 6
  BY BitsOfField
<1>. QED  BY <1>1 DEF Word

\* A field holds value when its bits are those of value.
LEMMA FieldValue ==
  ASSUME NEW word, NEW first \in Nat, NEW last \in Nat, first =< last, last =< 31,
         last - first =< 6, NEW value \in Nat, value =< 127,
         \A b \in 0 .. 6 : Rv64g!Bit(value, b) = 1 => b =< last - first
  PROVE  Rv64g!FieldIs(word, <<first, last, value>>)
           <=> Number[Bits(word, first, last)] = value
<1> DEFINE field == Bits(word, first, last)
<1>1. field \in Word(7) /\ Number[field] \in Nat /\ Number[field] =< 127
  BY BitsShort, NumberRange
<1>2. \A b \in 0 .. last - first : b + first \in word <=> b \in field
  BY BitsOfField
<1>3. \A b \in last - first + 1 .. 6 : b \notin field
  BY BitsOfField
<1>4. Rv64g!FieldIs(word, <<first, last, value>>)
        <=> \A b \in 0 .. last - first : b + first \in word <=> Rv64g!Bit(value, b) = 1
  <2>1. ASSUME Rv64g!FieldIs(word, <<first, last, value>>), NEW b \in 0 .. last - first
        PROVE  b + first \in word <=> Rv64g!Bit(value, b) = 1
    <3>1. b + first \in first .. last /\ (b + first) - first = b
      OBVIOUS
    <3>. QED  BY <2>1, <3>1 DEF Rv64g!FieldIs
  <2>2. ASSUME \A b \in 0 .. last - first : b + first \in word <=> Rv64g!Bit(value, b) = 1,
               NEW b \in first .. last
        PROVE  b \in word <=> Rv64g!Bit(value, b - first) = 1
    <3>1. b - first \in 0 .. last - first /\ (b - first) + first = b
      OBVIOUS
    <3>. QED  BY <2>2, <3>1
  <2>. QED  BY <2>1, <2>2 DEF Rv64g!FieldIs
<1> HIDE DEF field
<1>5. CASE Number[field] = value
  BY <1>1, <1>2, <1>4, <1>5, NumberBits DEF field
<1>6. ASSUME Rv64g!FieldIs(word, <<first, last, value>>)
      PROVE  Number[field] = value
  <2>1. ASSUME NEW b \in 0 .. 6
        PROVE  Rv64g!Bit(Number[field], b) = 1 <=> Rv64g!Bit(value, b) = 1
    <3>1. CASE b =< last - first
      BY <1>1, <1>2, <1>4, <1>6, <3>1, NumberBits
    <3>2. CASE b > last - first
      BY <1>1, <1>3, <3>2, NumberBits
    <3>. QED  BY <3>1, <3>2
  <2>. QED  BY <1>1, <2>1, SameBits
<1>. QED  BY <1>5, <1>6 DEF field

\* The fields the listing fixes, as the accessors of instruction.cpp return them
LEMMA OpcodeField ==
  ASSUME NEW word, NEW value \in Nat, value =< 127
  PROVE  Rv64g!FieldIs(word, Rv64g!Op(value)) <=> getOpcode(word) = value
BY FieldValue DEF getOpcode, Rv64g!Op

LEMMA Funct7Field ==
  ASSUME NEW word, NEW value \in Nat, value =< 127
  PROVE  Rv64g!FieldIs(word, Rv64g!Funct7(value)) <=> getFunct7(word) = value
BY FieldValue DEF getFunct7, Rv64g!Funct7

LEMMA Funct3Field ==
  ASSUME NEW word, NEW value \in Nat, value =< 7
  PROVE  Rv64g!FieldIs(word, Rv64g!Funct3(value)) <=> getFunct3(word) = value
<1>1. \A b \in 0 .. 6 : Rv64g!Bit(value, b) = 1 => b =< 2
  BY HighBits
<1>. QED  BY <1>1, FieldValue DEF getFunct3, Rv64g!Funct3

LEMMA RegisterField ==
  ASSUME NEW word, NEW first \in Nat, first =< 27, NEW value \in Nat, value =< 31
  PROVE  Rv64g!FieldIs(word, <<first, first + 4, value>>)
           <=> Number[Bits(word, first, first + 4)] = value
<1>1. \A b \in 0 .. 6 : Rv64g!Bit(value, b) = 1 => b =< 4
  BY HighBits
<1>. QED  BY <1>1, FieldValue

LEMMA Rs2Field ==
  ASSUME NEW word, NEW value \in Nat, value =< 31
  PROVE  Rv64g!FieldIs(word, Rv64g!Rs2(value)) <=> getSourceRegister2(word) = value
BY RegisterField DEF getSourceRegister2, Rv64g!Rs2

\* The precision of the fused operations
LEMMA Funct2Field ==
  ASSUME NEW word, NEW value \in Nat, value =< 3
  PROVE  Rv64g!FieldIs(word, <<25, 26, value>>) <=> Number[Bits(word, 25, 26)] = value
<1>1. \A b \in 0 .. 6 : Rv64g!Bit(value, b) = 1 => b =< 1
  BY HighBits
<1>. QED  BY <1>1, FieldValue

\* The upper five bits of funct7
LEMMA Funct5Field ==
  ASSUME NEW word, NEW value \in Nat, value =< 31
  PROVE  Rv64g!FieldIs(word, <<27, 31, value>>) <=> getFunct7(word) \div 4 = value
<1> DEFINE upper == Bits(word, 27, 31)
           all == Bits(word, 25, 31)
<1>1. all \in Word(7) /\ upper \in Word(7)
  BY BitsShort
<1>2. /\ 0 \in upper <=> 2 \in all
      /\ 1 \in upper <=> 3 \in all
      /\ 2 \in upper <=> 4 \in all
      /\ 3 \in upper <=> 5 \in all
      /\ 4 \in upper <=> 6 \in all
      /\ 5 \notin upper /\ 6 \notin upper
  BY BitsOfField
<1> HIDE DEF upper, all
<1>3. Number[all] \div 4 = Number[upper]
  BY <1>1, <1>2 DEF Number
<1>. QED  BY <1>3, RegisterField DEF upper, all, getFunct7

\* funct7 without its bit 0, as decodeOpFP tests it
LEMMA EvenFunct7 ==
  ASSUME NEW word
  PROVE  Number[clearBit(Bits(word, 25, 31), 0)] =
           getFunct7(word) - (IF 25 \in word THEN 1 ELSE 0)
<1> DEFINE all == Bits(word, 25, 31)
<1>1. all \in Word(7) /\ clearBit(all, 0) \in Word(7)
  BY BitsShort DEF clearBit, Word
<1>2. 0 \in all <=> 25 \in word
  BY BitsOfField
<1> HIDE DEF all
<1>. QED  BY <1>1, <1>2 DEF Number, clearBit, getFunct7, all

LEMMA FieldRanges ==
  ASSUME NEW word
  PROVE  /\ getFunct3(word) \in 0 .. 7
         /\ getFunct7(word) \in Nat /\ getFunct7(word) =< 127
         /\ getOpcode(word) \in Nat /\ getOpcode(word) =< 127
         /\ getDestinationRegister(word) \in 0 .. 31
         /\ getSourceRegister1(word) \in 0 .. 31
         /\ getSourceRegister2(word) \in 0 .. 31
<1>1. ASSUME NEW first \in Nat, first =< 27
      PROVE  Number[Bits(word, first, first + 4)] \in 0 .. 31
  <2> DEFINE field == Bits(word, first, first + 4)
  <2>1. field \in Word(7) /\ 5 \notin field /\ 6 \notin field
    BY <1>1, BitsShort, BitsOfField
  <2> HIDE DEF field
  <2>. QED  BY <2>1 DEF Number, field
<1>2. Bits(word, 12, 14) \in Word(7) /\ \A b \in 3 .. 6 : b \notin Bits(word, 12, 14)
  BY BitsShort, BitsOfField
<1>3. Number[Bits(word, 12, 14)] \in 0 .. 7
  BY <1>2 DEF Number
<1>4. Bits(word, 0, 6) \in Word(7) /\ Bits(word, 25, 31) \in Word(7)
  BY BitsShort
<1>5. /\ Number[Bits(word, 0, 6)] \in Nat /\ Number[Bits(word, 0, 6)] =< 127
      /\ Number[Bits(word, 25, 31)] \in Nat /\ Number[Bits(word, 25, 31)] =< 127
  BY <1>4, NumberRange
<1>6. /\ Number[Bits(word, 7, 11)] \in 0 .. 31
      /\ Number[Bits(word, 15, 19)] \in 0 .. 31
      /\ Number[Bits(word, 20, 24)] \in 0 .. 31
  BY <1>1
<1>. QED
  BY <1>3, <1>5, <1>6
  DEF getFunct3, getFunct7, getOpcode, getDestinationRegister, getSourceRegister1,
      getSourceRegister2

\* The register numbers of the listing are those the decoder reads.
LEMMA Registers ==
  ASSUME NEW word
  PROVE  /\ Rv64g!RegisterAt(word, 7) = getDestinationRegister(word)
         /\ Rv64g!RegisterAt(word, 15) = getSourceRegister1(word)
         /\ Rv64g!RegisterAt(word, 20) = getSourceRegister2(word)
<1>1. ASSUME NEW first \in Nat, first =< 27,
             NEW value \in 0 .. 31, value = Number[Bits(word, first, first + 4)]
      PROVE  Rv64g!RegisterAt(word, first) = value
  <2>1. \A v \in 0 .. 31 : Rv64g!FieldIs(word, <<first, first + 4, v>>) <=> v = value
    BY <1>1, RegisterField
  <2>. QED  BY <2>1 DEF Rv64g!RegisterAt
<1>. QED
  BY <1>1, FieldRanges DEF getDestinationRegister, getSourceRegister1, getSourceRegister2

-----------------------------------------------------------------------------
(***************************************************************************)
(* Immediates                                                              *)
(***************************************************************************)
\* The five formats of the base instruction set (instruction.cpp:93-128)
LEMMA FormatImmediates ==
  ASSUME NEW word \in Word(32)
  PROVE  /\ getImmediateI(word) = Rv64g!ImmediateOf("I", word)
         /\ getImmediateS(word) = Rv64g!ImmediateOf("S", word)
         /\ getImmediateB(word) = Rv64g!ImmediateOf("B", word)
         /\ getImmediateU(word) = Rv64g!ImmediateOf("U", word)
         /\ getImmediateJ(word) = Rv64g!ImmediateOf("J", word)
<1>. USE DEF Bits, getBits, oneBits, signExtend, ShiftRightSigned, ShiftRight, ShiftLeft,
             Shifted, Rv64g!ImmediateOf, Rv64g!ImmediateBit, Word
<1>1. getImmediateI(word) = Rv64g!ImmediateOf("I", word)
  BY DEF getImmediateI
<1>2. getImmediateS(word) = Rv64g!ImmediateOf("S", word)
  BY DEF getImmediateS
<1>3. getImmediateB(word) = Rv64g!ImmediateOf("B", word)
  BY DEF getImmediateB
<1>4. getImmediateU(word) = Rv64g!ImmediateOf("U", word)
  BY DEF getImmediateU
<1>5. getImmediateJ(word) = Rv64g!ImmediateOf("J", word)
  BY DEF getImmediateJ
<1>. QED  BY <1>1, <1>2, <1>3, <1>4, <1>5

\* What the other formats keep in the immediate: flags, the rounding mode and
\* the third source register
LEMMA FlagImmediates ==
  ASSUME NEW word \in Word(32)
  PROVE  /\ getImmediateI(word) \intersect oneBits(12) = Rv64g!ImmediateOf("Fence", word)
         /\ Bits(word, 25, 26) = Rv64g!ImmediateOf("A", word)
         /\ Bits(word, 12, 14) \union Shifted({}, 8) = Rv64g!ImmediateOf("FR", word)
         /\ Bits(word, 12, 14) \union Shifted(Bits(word, 27, 31), 8)
              = Rv64g!ImmediateOf("R4", word)
         /\ Rv64g!ImmediateOf("R", word) = {}
         /\ Rv64g!ImmediateOf("Env", word) = {}
<1>. USE DEF Bits, getBits, oneBits, ShiftRight, ShiftLeft, Shifted, Rv64g!ImmediateOf,
             Rv64g!ImmediateBit, Word
<1>1. getImmediateI(word) \intersect oneBits(12) = Rv64g!ImmediateOf("Fence", word)
  BY DEF getImmediateI, signExtend, ShiftRightSigned
<1>2. Bits(word, 25, 26) = Rv64g!ImmediateOf("A", word)
  OBVIOUS
<1>3. Bits(word, 12, 14) \union Shifted({}, 8) = Rv64g!ImmediateOf("FR", word)
  OBVIOUS
<1>4. Bits(word, 12, 14) \union Shifted(Bits(word, 27, 31), 8)
        = Rv64g!ImmediateOf("R4", word)
  OBVIOUS
<1>5. Rv64g!ImmediateOf("R", word) = {} /\ Rv64g!ImmediateOf("Env", word) = {}
  OBVIOUS
<1>. QED  BY <1>1, <1>2, <1>3, <1>4, <1>5

\* A shift amount is the I-immediate without the bits that tell the shifts apart.
LEMMA ShiftImmediates ==
  ASSUME NEW word \in Word(32)
  PROVE  /\ word \intersect (26 .. 31) \subseteq {30}
              => clearBit(getImmediateI(word), 10) = Rv64g!ImmediateOf("Shift6", word)
         /\ word \intersect (25 .. 31) \subseteq {30}
              => clearBit(getImmediateI(word), 10) = Rv64g!ImmediateOf("Shift5", word)
         /\ hasBit(getImmediateI(word), 10) <=> 30 \in word
<1>. USE DEF getImmediateI, Bits, getBits, oneBits, ShiftRight, ShiftLeft, ShiftRightSigned,
             signExtend, Shifted, clearBit, hasBit, Rv64g!ImmediateOf, Rv64g!ImmediateBit, Word
<1>1. ASSUME word \intersect (26 .. 31) \subseteq {30}
      PROVE  clearBit(getImmediateI(word), 10) = Rv64g!ImmediateOf("Shift6", word)
  BY <1>1
<1>2. ASSUME word \intersect (25 .. 31) \subseteq {30}
      PROVE  clearBit(getImmediateI(word), 10) = Rv64g!ImmediateOf("Shift5", word)
  BY <1>2
<1>3. hasBit(getImmediateI(word), 10) <=> 30 \in word
  OBVIOUS
<1>. QED  BY <1>1, <1>2, <1>3

-----------------------------------------------------------------------------
(***************************************************************************)
(* Fields that are compared bit by bit                                     *)
(***************************************************************************)

\* The bits above a shift amount
LEMMA ShiftFields ==
  ASSUME NEW word
  PROVE  /\ Rv64g!FieldIs(word, <<26, 31, 0>>) <=> word \intersect (26 .. 31) = {}
         /\ Rv64g!FieldIs(word, <<26, 31, 16>>) <=> word \intersect (26 .. 31) = {30}
         /\ Rv64g!FieldIs(word, Rv64g!Funct7(0)) <=> word \intersect (25 .. 31) = {}
         /\ Rv64g!FieldIs(word, Rv64g!Funct7(32)) <=> word \intersect (25 .. 31) = {30}
<1>1. /\ Rv64g!FieldIs(word, <<26, 31, 0>>)
           <=> \A b \in 26 .. 31 : b \in word <=> Rv64g!Bit(0, b - 26) = 1
      /\ Rv64g!FieldIs(word, <<26, 31, 16>>)
           <=> \A b \in 26 .. 31 : b \in word <=> Rv64g!Bit(16, b - 26) = 1
      /\ Rv64g!FieldIs(word, Rv64g!Funct7(0))
           <=> \A b \in 25 .. 31 : b \in word <=> Rv64g!Bit(0, b - 25) = 1
      /\ Rv64g!FieldIs(word, Rv64g!Funct7(32))
           <=> \A b \in 25 .. 31 : b \in word <=> Rv64g!Bit(32, b - 25) = 1
  BY DEF Rv64g!FieldIs, Rv64g!Funct7
<1>2. /\ \A b \in 26 .. 31 : Rv64g!Bit(0, b - 26) = 1 <=> b \in {}
      /\ \A b \in 26 .. 31 : Rv64g!Bit(16, b - 26) = 1 <=> b = 30
      /\ \A b \in 25 .. 31 : Rv64g!Bit(0, b - 25) = 1 <=> b \in {}
      /\ \A b \in 25 .. 31 : Rv64g!Bit(32, b - 25) = 1 <=> b = 30
  BY DEF Rv64g!Bit
<1>. QED  BY <1>1, <1>2

\* ECALL and EBREAK: every field is fixed.
LEMMA EnvFields ==
  ASSUME NEW word \in Word(32)
  PROVE  /\ Rv64g!FieldIs(word, <<0, 19, 115>>)
              <=> /\ getOpcode(word) = 115 /\ getFunct3(word) = 0
                  /\ getDestinationRegister(word) = 0 /\ getSourceRegister1(word) = 0
         /\ Rv64g!FieldIs(word, <<20, 31, 0>>) <=> getImmediateI(word) = {}
         /\ Rv64g!FieldIs(word, <<20, 31, 1>>) <=> getImmediateI(word) = {0}
<1>1. Rv64g!FieldIs(word, <<0, 19, 115>>)
        <=> /\ Rv64g!FieldIs(word, <<0, 6, 115>>) /\ Rv64g!FieldIs(word, <<12, 14, 0>>)
            /\ Rv64g!FieldIs(word, <<7, 11, 0>>) /\ Rv64g!FieldIs(word, <<15, 19, 0>>)
  <2>1. /\ Rv64g!FieldIs(word, <<0, 19, 115>>)
             <=> \A b \in 0 .. 19 : b \in word <=> Rv64g!Bit(115, b - 0) = 1
        /\ Rv64g!FieldIs(word, <<0, 6, 115>>)
             <=> \A b \in 0 .. 6 : b \in word <=> Rv64g!Bit(115, b - 0) = 1
        /\ Rv64g!FieldIs(word, <<7, 11, 0>>)
             <=> \A b \in 7 .. 11 : b \in word <=> Rv64g!Bit(0, b - 7) = 1
        /\ Rv64g!FieldIs(word, <<12, 14, 0>>)
             <=> \A b \in 12 .. 14 : b \in word <=> Rv64g!Bit(0, b - 12) = 1
        /\ Rv64g!FieldIs(word, <<15, 19, 0>>)
             <=> \A b \in 15 .. 19 : b \in word <=> Rv64g!Bit(0, b - 15) = 1
    BY DEF Rv64g!FieldIs
  <2>2. /\ \A b \in 0 .. 19 : Rv64g!Bit(115, b - 0) = 1 <=> b \in {0, 1, 4, 5, 6}
        /\ \A b \in 7 .. 11 : Rv64g!Bit(0, b - 7) = 0
        /\ \A b \in 12 .. 14 : Rv64g!Bit(0, b - 12) = 0
        /\ \A b \in 15 .. 19 : Rv64g!Bit(0, b - 15) = 0
    BY DEF Rv64g!Bit
  <2>. QED  BY <2>1, <2>2
<1>2. /\ Rv64g!FieldIs(word, <<7, 11, 0>>) <=> getDestinationRegister(word) = 0
      /\ Rv64g!FieldIs(word, <<15, 19, 0>>) <=> getSourceRegister1(word) = 0
  BY RegisterField DEF getDestinationRegister, getSourceRegister1
<1>3. /\ Rv64g!FieldIs(word, <<0, 6, 115>>) <=> getOpcode(word) = 115
      /\ Rv64g!FieldIs(word, <<12, 14, 0>>) <=> getFunct3(word) = 0
  BY OpcodeField, Funct3Field DEF Rv64g!Op, Rv64g!Funct3
<1>4. /\ Rv64g!FieldIs(word, <<20, 31, 0>>) <=> \A b \in 20 .. 31 : b \notin word
      /\ Rv64g!FieldIs(word, <<20, 31, 1>>) <=> \A b \in 20 .. 31 : b \in word <=> b = 20
  <2>1. /\ Rv64g!FieldIs(word, <<20, 31, 0>>)
             <=> \A b \in 20 .. 31 : b \in word <=> Rv64g!Bit(0, b - 20) = 1
        /\ Rv64g!FieldIs(word, <<20, 31, 1>>)
             <=> \A b \in 20 .. 31 : b \in word <=> Rv64g!Bit(1, b - 20) = 1
    BY DEF Rv64g!FieldIs
  <2>2. /\ \A b \in 20 .. 31 : Rv64g!Bit(0, b - 20) = 0
        /\ \A b \in 20 .. 31 : Rv64g!Bit(1, b - 20) = 1 <=> b = 20
    BY DEF Rv64g!Bit
  <2>. QED  BY <2>1, <2>2
<1>5. /\ \A b \in 0 .. 10 : b \in getImmediateI(word) <=> b + 20 \in word
      /\ \A b \in 11 .. 31 : b \in getImmediateI(word) <=> 31 \in word
      /\ getImmediateI(word) \subseteq 0 .. 31
  BY FormatImmediates DEF Rv64g!ImmediateOf, Rv64g!ImmediateBit
<1>6. getImmediateI(word) = {} <=> \A b \in 20 .. 31 : b \notin word
  BY <1>5
<1>7. getImmediateI(word) = {0} <=> \A b \in 20 .. 31 : b \in word <=> b = 20
  BY <1>5
<1>. QED  BY <1>1, <1>2, <1>3, <1>4, <1>6, <1>7
=============================================================================
