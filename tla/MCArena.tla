------------------------------ MODULE MCArena ------------------------------
(***************************************************************************)
(* Small instances of Arena: fundamental types of 1 to 16 bytes, pixels    *)
(* among them, and a 12-byte structure in a storage of up to 43 bytes.     *)
(***************************************************************************)
EXTENDS Arena

Type(bytes, align) == [size |-> bytes, alignment |-> align]

MCItemTypes == {Type(1, 1), Type(2, 2), Type(4, 4), Type(8, 8), Type(12, 4), Type(16, 16)}

MCCounts == {0, 1, 3, 5}
=============================================================================
