------------------------------ MODULE MCVpiLink ------------------------------
(* VpiLink for TLC: two cells, one-bit words (a word is its MSB). *)
EXTENDS VpiLinkInv
MCAdr == {0, 1}
=============================================================================
