---------------------------- MODULE MCJtagServer ----------------------------
(* JtagServer for TLC: with ByteBits = 2, a TMS sequence of which nothing  *)
(* is sent and one that loses its last byte; a scan of one whole byte, and *)
(* one of a byte and a half.                                               *)
EXTENDS JtagServerInv

McTms == {<<1, 0>>, <<0, 1, 1, 0>>}
McScans == {<<0, 1>>, <<1, 1, 0>>}
=============================================================================
