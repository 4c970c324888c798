----------------------------- MODULE WordQueue -----------------------------
(***************************************************************************)
(* What a FIFO promises: words come out in the order in which they went    *)
(* in, none is lost, none is made up, and at most Capacity are inside.     *)
(* A word is known by its number: the k-th that went in is k.              *)
(***************************************************************************)
EXTENDS Integers

CONSTANT Capacity

VARIABLES in,    \* the number of words that went in
          out,   \* the number of words that came out
          word   \* the one that came out last

queueVars == <<in, out, word>>

QueueInit == in = 0 /\ out = 0 /\ word = 0

PutOne == in - out < Capacity /\ in' = in + 1
GetOne == out < in /\ out' = out + 1 /\ word' = out'

QueueNext == \/ PutOne /\ UNCHANGED <<out, word>>
             \/ GetOne /\ UNCHANGED in
             \/ PutOne /\ GetOne

QueueSpec == QueueInit /\ [][QueueNext]_queueVars

=============================================================================
