------------------------------- MODULE MCApp -------------------------------
(***************************************************************************)
(* Command lines and files for App, with int of 8 bits and size_t of 16:   *)
(* the products that wrap in 32 and 64 bits wrap here too.                 *)
(***************************************************************************)
EXTENDS AppProperties

\* 64 KiB wrap to no memory at all, 65 KiB to 1 KiB.
MCMemoryArguments == {0, 1, 2, 64, 65}

\* 16 x 17 pixels wrap to 16 in a product of 8 bits, 15 x 17 fit into
\* 1 KiB and 16 x 16 do not for the padding, 40 x 2 are wider than a texture.
MCSizeArguments == {<<16, 17>>, <<15, 17>>, <<16, 16>>, <<40, 2>>, <<3, 2>>, <<0, 16>>, <<4, -1>>}

MCPrograms ==
  {[dataSize |-> d, code |-> c] : d \in {0, 3, 2000}, c \in {"decoded"}}
    \union {[dataSize |-> 3, code |-> c] : c \in {"badHeaders", "badCode", "badPointer"}}
    \union {[dataSize |-> d, code |-> "wraps"] : d \in {0, 3}}
=============================================================================
