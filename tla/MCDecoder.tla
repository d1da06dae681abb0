----------------------------- MODULE MCDecoder -----------------------------
(***************************************************************************)
(* Inputs for Decoder: words that vary the fields its switches look at,    *)
(* words that vary each immediate bit, and short programs.                 *)
(***************************************************************************)
EXTENDS DecoderProperties

FieldBits(first, last, value) ==
  {b \in first .. last : (value \div 2 ^ (b - first)) % 2 = 1}

\* A word with opcode, funct3, funct7 and rs2; rd = 9 and rs1 = 21
MakeWord(opcode, funct3, funct7, rs2) ==
  UNION {FieldBits(0, 6, opcode), FieldBits(7, 11, 9), FieldBits(12, 14, funct3),
         FieldBits(15, 19, 21), FieldBits(20, 24, rs2), FieldBits(25, 31, funct7)}

MakeWords(opcodes, funct3s, funct7s, rs2s) ==
  {MakeWord(w[1], w[2], w[3], w[4]) : w \in opcodes \X funct3s \X funct7s \X rs2s}

AllOpcodes ==
  {3, 7, 15, 19, 23, 27, 35, 39, 47, 51, 55, 59, 67, 71, 75, 79, 83, 87, 99,
   103, 111, 115, 119}

\* The values of funct7 that the ISA uses, and some of their neighbours
OpFunct7s == {0, 1, 2, 16, 32, 33, 48, 64}
AmoFunct7s == {4 * funct5 + 1 : funct5 \in 0 .. 31}
FloatFunct7s == {0, 1, 2, 4, 5, 8, 9, 12, 13, 16, 17, 20, 21, 24, 32, 33, 40, 44,
                 45, 80, 81, 96, 97, 104, 105, 112, 113, 120, 121}

Words ==
  UNION {MakeWords(AllOpcodes, 0 .. 7, {0, 2, 65}, {0, 1, 16}),
         MakeWords({19, 27, 51, 59}, 0 .. 7, OpFunct7s, {0, 7, 31}),
         MakeWords({15}, {0, 1}, {0, 65}, {16, 19}),
         MakeWords({47}, {2, 3, 4}, AmoFunct7s, {0, 5}),
         MakeWords({83}, 0 .. 7, FloatFunct7s, {0, 1, 2, 3, 4}),
         {MakeWord(115, funct3, 0, 0) \ (7 .. 11 \union 15 .. 19) : funct3 \in 0 .. 7},
         {MakeWord(115, 0, 0, 1) \ (7 .. 11 \union 15 .. 19)}}

\* One field bit at a time
SingleBits ==
  {FieldBits(0, 6, opcode) \union {b} : opcode \in AllOpcodes, b \in 7 .. 31}

Bytes(word) == [k \in 1 .. 4 |-> {b \in 0 .. 7 : 8 * (k - 1) + b \in word}]

\* ADDI, JAL, BEQ, FSUB.D; a compressed and an unknown word
ProgramWords ==
  {Bytes(w) : w \in {MakeWord(19, 0, 3, 7), MakeWord(111, 1, 1, 1),
                     MakeWord(99, 0, 1, 2), MakeWord(83, 7, 5, 3),
                     MakeWord(1, 0, 0, 0), MakeWord(87, 0, 0, 0)}}

ShortPrograms ==
  {<< >>} \union ProgramWords
    \union {p \o q : p, q \in ProgramWords}
    \union {p \o q \o r : p, q, r \in ProgramWords}

MCPrograms ==
  UNION {{Bytes(w) : w \in Words \union SingleBits},
         ShortPrograms,
         {p \o q : p \in ProgramWords, q \in {<<{0}>>, <<{0, 1}, {}>>, <<{}, {1}, {0}>>}}}

MCSquareRoot == {Bytes(w) : w \in MakeWords({83}, {0, 7}, {12, 13, 44, 45}, {0, 3})}
MCCsr == {Bytes(w) : w \in MakeWords({115}, {1, 2, 3, 5, 6, 7}, {0, 96}, {1, 2})}
MCMoves == {Bytes(w) : w \in MakeWords({83}, 0 .. 7, {112, 113}, {0})}
=============================================================================
