--------------------------- MODULE MCAccumulator ----------------------------
(* Every byte is an operand. *)
EXTENDS Accumulator
AllBytes == 0..255
=============================================================================
