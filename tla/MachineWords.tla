---------------------------- MODULE MachineWords ----------------------------
(***************************************************************************)
(* Fixed-width machine words (src/riscv/utils/bits.hpp) and their little-  *)
(* endian representation in memory (src/riscv/utils/memory.hpp).           *)
(*                                                                         *)
(* A word is the set of the positions of its 1 bits, so a word of w bits   *)
(* is a subset of 0 .. w - 1.  A memory is a function from addresses to    *)
(* bytes.                                                                  *)
(***************************************************************************)
EXTENDS Integers

Word(width) == SUBSET (0 .. width - 1)

Byte == Word(8)

-----------------------------------------------------------------------------
\* bits.hpp

hasBit(value, bitIndex) == bitIndex \in value

clearBit(value, bitIndex) == value \ {bitIndex}

\* A mask with the specified number of low bits set
oneBits(count) == 0 .. count - 1

\* value << amount and value >> amount for an unsigned value of width bits
ShiftLeft(value, amount, width) ==
  {b \in amount .. width - 1 : b - amount \in value}

ShiftRight(value, amount, width) ==
  {b \in 0 .. width - 1 - amount : b + amount \in value}

\* value >> amount for a signed value: the sign bit moves in from the left
ShiftRightSigned(value, amount, width) ==
  ShiftRight(value, amount, width)
    \union (IF width - 1 \in value THEN width - amount .. width - 1 ELSE {})

getBits(value, firstBit, lastBit, width) ==
  ShiftRight(value, firstBit, width) \intersect oneBits(lastBit - firstBit + 1)

signExtend(value, signBit, width) ==
  LET shiftAmount == width - (signBit + 1)
  IN  ShiftRightSigned(ShiftLeft(value, shiftAmount, width), shiftAmount, width)

-----------------------------------------------------------------------------
\* memory.hpp: loadU16, loadU32, loadU64 with count = 2, 4, 8
loadU(memory, ptr, count) ==
  {b \in 0 .. 8 * count - 1 : b % 8 \in memory[ptr + b \div 8]}
=============================================================================
