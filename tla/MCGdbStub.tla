----------------------------- MODULE MCGdbStub -----------------------------
(* Small instances of GdbStub for TLC. *)
EXTENDS GdbDialogue
MCAdr == {1, 2}
RunKinds == {"c", "s", "C", "Z0", "g"}
=============================================================================
