----------------------------- MODULE MCEmulator -----------------------------
(***************************************************************************)
(* Small instances of Emulator: registers of 5 bits (Modulus 32), three    *)
(* registers x0 .. x2, programs of up to three instructions.               *)
(***************************************************************************)
EXTENDS EmulatorProperties

Op(types, rds, rs1s, rs2s, imms) ==
  [type : types, rd : rds, rs1 : rs1s, rs2 : rs2s, imm : imms]

SequencesUpTo(set, n) == UNION {[1 .. m -> set] : m \in 0 .. n}

\* -8 is 24 unsigned: BLT and BLTU, BGE and BGEU tell them apart.
UpperOps ==
  Op({"LUI"}, {0, 1}, {0}, {0}, {-8, 8}) \union Op({"AUIPC"}, {2}, {0}, {0}, {-8})

AlignedOps ==
  UpperOps
  \union Op({"JAL"}, {1}, {0}, {0}, {-8, -4, 4})
  \union Op({"JALR"}, {0, 1}, {1, 2}, {0}, {-4, 0})
  \union Op(Branches, {0}, {1}, {0}, {-8, 4})
  \union Op({"OTHER"}, {0}, {0}, {0}, {0})

\* For programs of three instructions: build a base, jump and link, compare.
ChainOps ==
  Op({"LUI"}, {1}, {0}, {0}, {-8, 8})
  \union Op({"AUIPC"}, {2}, {0}, {0}, {-8})
  \union Op({"JAL"}, {1}, {0}, {0}, {-4, 4})
  \union Op({"JALR"}, {0, 1}, {2}, {0}, {-4, 0})
  \union Op({"BLT", "BGEU"}, {0}, {1}, {2}, {-8, 4})
  \union Op({"OTHER"}, {0}, {0}, {0}, {0})

OddOps ==
  Op({"LUI"}, {1}, {0}, {0}, {8})
  \union Op({"JAL"}, {1}, {0}, {0}, {-6, 2})
  \union Op({"JALR"}, {0, 1, 2}, {1, 2}, {0}, {-5, 0, 3})
  \union Op({"BEQ", "BLTU"}, {0}, {0, 1}, {2}, {-10, 2})
  \union Op({"OTHER"}, {0}, {0}, {0}, {0})

\* JALR that keeps its base register
BaseKept(ops) == {o \in ops : o.type # "JALR" \/ o.rd = 0 \/ o.rd # o.rs1}

MCAlignedBaseKept ==
  SequencesUpTo(BaseKept(AlignedOps), 2) \union SequencesUpTo(ChainOps, 3)
MCAll ==
  UNION {SequencesUpTo(AlignedOps, 2), SequencesUpTo(OddOps, 2),
         SequencesUpTo({o \in ChainOps : o.type # "JALR"}, 3)}
MCJumps == SequencesUpTo(Op({"JAL"}, {0, 1}, {0}, {0}, {-4, 0, 4}), 3)
MCSelfBase == SequencesUpTo(Op({"LUI"}, {1}, {0}, {0}, {8})
                            \union Op({"JALR"}, {1}, {1}, {0}, {-4, 0}), 2)
=============================================================================
