--------------------------- MODULE MCMatchpoints ---------------------------
(* Matchpoints for TLC: addresses that differ in the bits a DCR keeps its  *)
(* condition in, one of them with the top bit.                             *)
EXTENDS Matchpoints
MCAdr == {256, 260, 516}
=============================================================================
