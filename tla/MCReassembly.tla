--------------------------- MODULE MCReassembly ----------------------------
(* An instance of Reassembly: two boards and two slots.                       *)
EXTENDS Reassembly

CONSTANTS a, c
=============================================================================
