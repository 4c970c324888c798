-------------------------- MODULE MCMemoryRequests --------------------------
(* MemoryRequests for TLC. *)
EXTENDS MemoryRequests
\* Plain bytes among '}', '#' and '$'.
Text == <<65, 125, 66, 35, 67, 68, 36, 69, 70>>
MCPayloads == {SubSeq(Text, i, i + n - 1) : i \in {1, 2}, n \in 0 .. Size}
MCImage == [x \in Address |-> 128 + x]
=============================================================================
