-------------------------- MODULE MCDualClockFifo --------------------------
(* DualClockFifo for TLC. *)
EXTENDS DualClockFifo
=============================================================================
