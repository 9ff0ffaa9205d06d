------------------------- MODULE MC_MemoryManager -------------------------
(***************************************************************************)
(* Small instances of MemoryManager: the smallest block is 16 bytes, as in *)
(* the SRAM of mm.c; the bounds of the memories are not aligned.           *)
(***************************************************************************)
EXTENDS MemoryManager

CONSTANTS sram, dram

Starts == [r \in Region |-> IF r = sram THEN 5 ELSE 100]
Mins   == [r \in Region |-> IF r = sram THEN 16 ELSE 24]

\* 56 bytes and 32 bytes.
Ends == [r \in Region |-> IF r = sram THEN 76 ELSE 147]
=============================================================================
