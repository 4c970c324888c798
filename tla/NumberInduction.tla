-------------------------- MODULE NumberInduction --------------------------
(***************************************************************************)
(* Induction over the numbers up to a bound, stated for a set and not for  *)
(* a predicate: the form in which the proofs about recursive functions     *)
(* (the escapes of MemoryRequests, the powers of two and the Gray code of  *)
(* DualClockFifo) can cite it.                                             *)
(***************************************************************************)
EXTENDS Integers, WellFoundedInduction, TLAPS

(* The numbers are well founded. *)
LEMMA LessWellFounded == IsWellFoundedOn({p \in Nat \X Nat : p[1] < p[2]}, Nat)
  BY NatLessThanWellFounded DEF OpToRel

(* A set of numbers that is not empty has a least one. *)
LEMMA LeastNumber ==
    ASSUME NEW T \in SUBSET Nat, T # {}
    PROVE  \E x \in T : \A y \in T : x <= y
  <1> DEFINE R == {p \in Nat \X Nat : p[1] < p[2]}
  <1>1. \E x \in T : \A y \in T : ~(<<y, x>> \in R)
    <2> HIDE DEF R
    <2>1. IsWellFoundedOn(R, Nat)  BY LessWellFounded DEF R
    <2>q. QED  BY <2>1, WFMin
  <1>2. PICK x \in T : \A y \in T : ~(<<y, x>> \in R)  BY <1>1
  <1>3. \A y \in T : x <= y
    <2> TAKE y \in T
    <2>1. x \in Nat /\ y \in Nat  OBVIOUS
    <2>2. x > y => <<y, x>> \in R  BY <2>1
    <2>3. ~(x > y)  BY <1>2, <2>2
    <2> HIDE DEF R
    <2>q. QED  BY <2>1, <2>3
  <1>q. QED  BY <1>3

(* What holds of 0 and passes on from a number to the next holds up to n. *)
LEMMA UpTo ==
    ASSUME NEW n \in Nat, NEW T, 0 \in T,
           \A k \in 0..(n - 1) : k \in T => k + 1 \in T
    PROVE  \A k \in 0..n : k \in T
  <1> SUFFICES ASSUME NEW j \in 0..n, j \notin T
               PROVE  FALSE
    OBVIOUS
  <1> DEFINE U == {k \in 0..n : k \notin T}
  <1>1. U \in SUBSET Nat /\ U # {}  OBVIOUS
  <1>2. PICK x \in U : \A y \in U : x <= y
    <2> HIDE DEF U
    <2>q. QED  BY <1>1, LeastNumber
  <1>3. x \in 1..n /\ x \notin T  OBVIOUS
  <1>4. x - 1 \in 0..(n - 1) /\ x - 1 + 1 = x  BY <1>3
  <1>5. x - 1 \in T  BY <1>2, <1>3, <1>4
  <1>q. QED  BY <1>3, <1>4, <1>5
=============================================================================
