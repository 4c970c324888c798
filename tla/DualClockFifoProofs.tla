------------------------ MODULE DualClockFifoProofs ------------------------
(***************************************************************************)
(* The FIFO is a queue for every address width, every number of words and  *)
(* every pair of clocks.                                                   *)
(*                                                                         *)
(* The inductive invariant Inv says which moment each register's copy of a *)
(* pointer is from, and orders these moments: the write side's copies of   *)
(* the read pointer are no newer than the read pointer, the read side's    *)
(* copies of the write pointer no newer than the write pointer, and the    *)
(* read pointer has not passed the oldest of them.  The pointers are the   *)
(* counts modulo Depth; two counts less than Depth apart with the same     *)
(* remainder are equal, which is why a comparison of pointers decides.     *)
(*                                                                         *)
(* The two facts about Gray code this rests on are proved first, for every *)
(* width, by induction over the bits: codes determine addresses, from the  *)
(* highest bit down, and neighbouring codes differ in one bit, the one at  *)
(* which the carry of the increment stops.                                 *)
(***************************************************************************)
EXTENDS DualClockFifo, NumberInduction, TLAPS

-----------------------------------------------------------------------------
(* Remainders.                                                             *)

(* A remainder is less than the divisor. *)
LEMMA ModRange ==
    ASSUME NEW D \in Nat, D > 0, NEW x \in Nat
    PROVE  x % D \in 0 .. D - 1
  BY SMT

(* Quotient and remainder make up the number ... *)
LEMMA ModDef ==
    ASSUME NEW D \in Nat, D > 0, NEW x \in Nat
    PROVE  x \div D \in Int /\ x = D * (x \div D) + (x % D)
  BY SMT

(* ... and there is only one such remainder. *)
LEMMA ModUnique ==
    ASSUME NEW D \in Nat, D > 0, NEW q \in Int, NEW r \in 0 .. D - 1
    PROVE  (D * q + r) % D = r
  BY SMT

(* A number below the divisor is its own remainder. *)
LEMMA ModSmall ==
    ASSUME NEW D \in Nat, D > 0, NEW r \in 0 .. D - 1
    PROVE  r % D = r
  BY SMT

(* The remainder of the next number. *)
LEMMA ModNext ==
    ASSUME NEW D \in Nat, D > 0, NEW x \in Nat
    PROVE  (x + 1) % D = IF x % D = D - 1 THEN 0 ELSE (x % D) + 1
<1> DEFINE q == x \div D
           r == x % D
<1>1. q \in Int /\ r \in 0 .. D - 1 /\ x = D * q + r
  BY ModDef, ModRange
<1> HIDE DEF q, r
<1>2. CASE r = D - 1
  <2>1. x + 1 = D * (q + 1) + 0
    BY <1>1, <1>2
  <2>2. (D * (q + 1) + 0) % D = 0
    BY <1>1, ModUnique
  <2> QED
    BY <2>1, <2>2, <1>2 DEF r
<1>3. CASE r # D - 1
  <2>1. x + 1 = D * q + (r + 1)
    BY <1>1
  <2>2. (D * q + (r + 1)) % D = r + 1
    BY <1>1, <1>3, ModUnique
  <2> QED
    BY <2>1, <2>2, <1>3 DEF r
<1> QED
  BY <1>2, <1>3

(* Numbers a whole divisor apart have the same remainder. *)
LEMMA ModPeriod ==
    ASSUME NEW D \in Nat, D > 0, NEW x \in Nat
    PROVE  (x + D) % D = x % D
<1> DEFINE q == x \div D
           r == x % D
<1>1. q \in Int /\ r \in 0 .. D - 1 /\ x = D * q + r
  BY ModDef, ModRange
<1> HIDE DEF q, r
<1>2. x + D = D * (q + 1) + r
  BY <1>1
<1>3. (D * (q + 1) + r) % D = r
  BY <1>1, ModUnique
<1> QED
  BY <1>2, <1>3 DEF r

(* Numbers less than a divisor apart with the same remainder are equal. *)
LEMMA ModNear ==
    ASSUME NEW D \in Nat, D > 0, NEW x \in Nat, NEW y \in Nat,
           x <= y, y - x < D, x % D = y % D
    PROVE  x = y
<1> DEFINE p == x \div D
           q == y \div D
           r == x % D
<1>1. p \in Int /\ q \in Int /\ r \in 0 .. D - 1 /\ x = D * p + r /\ y = D * q + r
  BY ModDef, ModRange
<1> HIDE DEF p, q, r
<1>2. y - x = D * (q - p)
  BY <1>1
<1>3. q - p >= 1 => D * (q - p) >= D
  BY <1>1
<1>4. q - p <= -1 => D * (q - p) < 0
  BY <1>1
<1>5. q = p
  BY <1>1, <1>2, <1>3, <1>4
<1> QED
  BY <1>1, <1>5

-----------------------------------------------------------------------------
(* Powers of two, and the bits of an address.                              *)

(* The recursion of Pow2. *)
LEMMA Pow2Rec ==
    Pow2 = [i \in 0 .. ADDR_WIDTH |-> IF i = 0 THEN 1 ELSE 2 * Pow2[i - 1]]
<1> USE FifoAssumption
<1> DEFINE Rec(f, n) == f = [i \in 0 .. n |-> IF i = 0 THEN 1 ELSE 2 * f[i - 1]]
           K == {k \in 0 .. ADDR_WIDTH : \E f : Rec(f, k)}
<1>1. 0 \in K
  <2> DEFINE f == [i \in 0 .. 0 |-> 1]
  <2>1. Rec(f, 0)
    OBVIOUS
  <2> HIDE DEF f, Rec
  <2> QED
    BY <2>1
<1>2. ASSUME NEW k \in 0 .. ADDR_WIDTH - 1, k \in K
      PROVE  k + 1 \in K
  <2>1. PICK f : Rec(f, k)
    BY <1>2
  <2> DEFINE g == [i \in 0 .. k + 1 |-> IF i = k + 1 THEN 2 * f[k] ELSE f[i]]
  <2>2. \A i \in 0 .. k + 1 : g[i] = IF i = 0 THEN 1 ELSE 2 * g[i - 1]
    <3> TAKE i \in 0 .. k + 1
    <3>1. CASE i = k + 1
      <4>1. g[i - 1] = f[k]
        BY <3>1
      <4> QED
        BY <3>1, <4>1
    <3>2. CASE i # k + 1
      <4>1. i \in 0 .. k
        BY <3>2
      <4>2. g[i] = f[i] /\ (i # 0 => g[i - 1] = f[i - 1])
        BY <4>1
      <4>3. f[i] = IF i = 0 THEN 1 ELSE 2 * f[i - 1]
        BY <2>1, <4>1
      <4> QED
        BY <4>2, <4>3
    <3> QED
      BY <3>1, <3>2
  <2>3. Rec(g, k + 1)
    BY <2>2
  <2>4. k + 1 \in 0 .. ADDR_WIDTH
    OBVIOUS
  <2> HIDE DEF g, Rec
  <2> QED
    BY <2>3, <2>4
<1>3. ADDR_WIDTH \in K
  <2> HIDE DEF K
  <2>1. \A k \in 0 .. ADDR_WIDTH : k \in K
    BY <1>1, <1>2, UpTo
  <2> QED
    BY <2>1
<1>4. \E f : Rec(f, ADDR_WIDTH)
  BY <1>3
<1>5. Pow2 = CHOOSE f : Rec(f, ADDR_WIDTH)
  BY DEF Pow2
<1> QED
  BY <1>4, <1>5

(* Each power is twice the one before. *)
LEMMA Pow2Steps ==
    /\ Pow2[0] = 1
    /\ \A i \in 0 .. ADDR_WIDTH - 1 : Pow2[i + 1] = 2 * Pow2[i]
<1> USE FifoAssumption
<1>1. PICK f : f = Pow2
  OBVIOUS
<1>2. f = [i \in 0 .. ADDR_WIDTH |-> IF i = 0 THEN 1 ELSE 2 * f[i - 1]]
  BY <1>1, Pow2Rec
<1>3. \A i \in 0 .. ADDR_WIDTH : f[i] = IF i = 0 THEN 1 ELSE 2 * f[i - 1]
  BY <1>2
<1>4. f[0] = 1
  BY <1>3
<1>5. ASSUME NEW i \in 0 .. ADDR_WIDTH - 1
      PROVE  f[i + 1] = 2 * f[i]
  <2>1. i + 1 \in 0 .. ADDR_WIDTH /\ i + 1 # 0 /\ (i + 1) - 1 = i
    OBVIOUS
  <2>2. f[i + 1] = 2 * f[(i + 1) - 1]
    BY <1>3, <2>1
  <2> QED
    BY <2>1, <2>2
<1> QED
  BY <1>1, <1>4, <1>5

(* The powers are numbers, and the depth is at least four. *)
LEMMA Pow2Range ==
    /\ \A i \in 0 .. ADDR_WIDTH : Pow2[i] \in Nat /\ Pow2[i] > 0
    /\ Depth \in Nat /\ Depth > 2
<1> USE FifoAssumption
<1> DEFINE Good(i) == /\ Pow2[i] \in Nat /\ Pow2[i] > 0
                      /\ i >= 1 => Pow2[i] >= 2
                      /\ i >= 2 => Pow2[i] > 2
           K == {i \in 0 .. ADDR_WIDTH : Good(i)}
<1>1. 0 \in K
  BY Pow2Steps
<1>2. ASSUME NEW i \in 0 .. ADDR_WIDTH - 1, i \in K
      PROVE  i + 1 \in K
  <2>1. Good(i) /\ Pow2[i + 1] = 2 * Pow2[i]
    BY <1>2, Pow2Steps
  <2>2. Good(i + 1)
    BY <2>1
  <2> HIDE DEF Good
  <2> QED
    BY <2>2
<1>3. \A i \in 0 .. ADDR_WIDTH : i \in K
  <2> HIDE DEF K
  <2> QED
    BY <1>1, <1>2, UpTo
<1>4. \A i \in 0 .. ADDR_WIDTH : Good(i)
  BY <1>3
<1>5. Good(ADDR_WIDTH)
  BY <1>4
<1> QED
  BY <1>4, <1>5 DEF Depth

(* Quotients are determined. *)
LEMMA DivUnique ==
    ASSUME NEW D \in Nat, D > 0, NEW q \in Nat, NEW r \in 0 .. D - 1
    PROVE  (D * q + r) \div D = q
  BY SMT

(* Two divisions are one. *)
LEMMA DivTwice ==
    ASSUME NEW x \in Nat, NEW D \in Nat, D > 0
    PROVE  x \div D \in Nat /\ x \div (2 * D) = (x \div D) \div 2
<1>q. PICK q : q = x \div D
  OBVIOUS
<1>r. PICK r : r = x % D
  OBVIOUS
<1>1. q \in Nat /\ r \in 0 .. D - 1 /\ x = D * q + r
  <2>1. q \in Int /\ x = D * q + r
    BY <1>q, <1>r, ModDef
  <2>2. r \in 0 .. D - 1
    BY <1>r, ModRange
  <2>3. q \in Nat
    BY <1>q, SMT
  <2> QED
    BY <2>1, <2>2, <2>3
<1>h. PICK h : h = q \div 2
  OBVIOUS
<1>s. PICK s : s = q % 2
  OBVIOUS
<1>2. h \in Nat /\ s \in {0, 1} /\ q = 2 * h + s
  BY <1>1, <1>h, <1>s
<1>3. D * q = (2 * D) * h + D * s
  BY <1>2
<1>4. D * s + r \in 0 .. 2 * D - 1
  <2>1. CASE s = 0
    <3>1. D * s = 0
      BY <2>1
    <3> QED
      BY <1>1, <3>1
  <2>2. CASE s = 1
    <3>1. D * s = D
      BY <2>2
    <3> QED
      BY <1>1, <3>1
  <2> QED
    BY <1>2, <2>1, <2>2
<1>5. x = (2 * D) * h + (D * s + r)
  <2>1. (2 * D) * h \in Nat /\ D * s \in Nat
    BY <1>2
  <2> QED
    BY <1>1, <1>3, <2>1
<1>6. PICK E : E = 2 * D
  OBVIOUS
<1>7. PICK t : t = D * s + r
  OBVIOUS
<1>8. (E * h + t) \div E = h
  <2>1. E \in Nat /\ E > 0 /\ t \in 0 .. E - 1
    BY <1>4, <1>6, <1>7
  <2> QED
    BY <1>2, <2>1, DivUnique
<1> QED
  BY <1>1, <1>q, <1>h, <1>5, <1>6, <1>7, <1>8

(* An address without its last i bits. *)
High(a, i) == a \div Pow2[i]

(* One bit more is cut off. *)
LEMMA HighNext ==
    ASSUME NEW a \in Nat, NEW i \in 0 .. ADDR_WIDTH - 1
    PROVE  /\ High(a, i) \in Nat /\ High(a, i + 1) \in Nat
           /\ Bit(a, i) \in {0, 1}
           /\ High(a, i) = 2 * High(a, i + 1) + Bit(a, i)
<1> USE FifoAssumption
<1>p. PICK p : p = Pow2[i]
  OBVIOUS
<1>1. p \in Nat /\ p > 0
  BY <1>p, Pow2Range
<1>2. Pow2[i + 1] = 2 * p
  BY <1>p, Pow2Steps
<1>q. PICK q : q = a \div p
  OBVIOUS
<1>3. q \in Nat /\ a \div (2 * p) = q \div 2
  BY <1>1, <1>q, DivTwice
<1>4. High(a, i) = q /\ High(a, i + 1) = q \div 2 /\ Bit(a, i) = q % 2
  BY <1>p, <1>q, <1>2, <1>3 DEF High, Bit
<1> QED
  BY <1>3, <1>4

(* Nothing is cut off, and everything. *)
LEMMA HighEnds ==
    ASSUME NEW a \in Nat
    PROVE  /\ High(a, 0) = a
           /\ a < Depth => High(a, ADDR_WIDTH) = 0 /\ Bit(a, ADDR_WIDTH) = 0
           /\ a = Depth => High(a, ADDR_WIDTH) = 1
<1>p. PICK D : D = Depth
  OBVIOUS
<1>1. D \in Nat /\ D > 2 /\ Pow2[ADDR_WIDTH] = D
  BY <1>p, Pow2Range DEF Depth
<1>2. a \div 1 = a
  OBVIOUS
<1>3. ASSUME a < D PROVE a \div D = 0
  <2>1. a \in 0 .. D - 1
    BY <1>1, <1>3
  <2>2. (D * 0 + a) \div D = 0
    BY <1>1, <2>1, DivUnique
  <2>3. D * 0 + a = a
    BY <1>1
  <2> QED
    BY <2>2, <2>3
<1>4. D \div D = 1
  <2>1. (D * 1 + 0) \div D = 1
    <3>1. 0 \in 0 .. D - 1
      BY <1>1
    <3> QED
      BY <1>1, <3>1, DivUnique
  <2>2. D * 1 + 0 = D
    BY <1>1
  <2> QED
    BY <2>1, <2>2
<1>5. 0 % 2 = 0
  OBVIOUS
<1> QED
  BY <1>p, <1>1, <1>2, <1>3, <1>4, <1>5, Pow2Steps DEF High, Bit

-----------------------------------------------------------------------------
(* Gray code.                                                              *)

(* The bits of an address, the one above the highest included. *)
LEMMA BitRange ==
    ASSUME NEW a \in Addr
    PROVE  a \in Nat /\ a < Depth /\ \A i \in 0 .. ADDR_WIDTH : Bit(a, i) \in {0, 1}
<1> USE FifoAssumption
<1>1. a \in Nat /\ a < Depth
  BY Pow2Range DEF Addr
<1>2. ASSUME NEW i \in 0 .. ADDR_WIDTH PROVE Bit(a, i) \in {0, 1}
  <2>1. CASE i = ADDR_WIDTH
    BY <1>1, <2>1, HighEnds
  <2>2. CASE i # ADDR_WIDTH
    <3>1. i \in 0 .. ADDR_WIDTH - 1
      BY <2>2
    <3> QED
      BY <1>1, <3>1, HighNext
  <2> QED
    BY <2>1, <2>2
<1> QED
  BY <1>1, <1>2

(* Addresses with the same code are equal: their bits agree from the       *)
(* highest down.                                                           *)
LEMMA GrayUnique ==
    ASSUME NEW a \in Addr, NEW b \in Addr, gray_conv(a) = gray_conv(b)
    PROVE  a = b
<1> USE FifoAssumption
<1> DEFINE Agree(i) == High(a, i) = High(b, i) /\ Bit(a, i) = Bit(b, i)
           K == {j \in 0 .. ADDR_WIDTH : Agree(ADDR_WIDTH - j)}
<1>0. a \in Nat /\ a < Depth /\ b \in Nat /\ b < Depth
  BY BitRange
<1>1. 0 \in K
  <2>1. Agree(ADDR_WIDTH)
    BY <1>0, HighEnds
  <2>2. ADDR_WIDTH - 0 = ADDR_WIDTH /\ 0 \in 0 .. ADDR_WIDTH
    OBVIOUS
  <2> HIDE DEF Agree
  <2> QED
    BY <2>1, <2>2
<1>2. ASSUME NEW j \in 0 .. ADDR_WIDTH - 1, j \in K
      PROVE  j + 1 \in K
  <2>i. PICK i : i = ADDR_WIDTH - (j + 1)
    OBVIOUS
  <2>1. i \in 0 .. ADDR_WIDTH - 1 /\ i + 1 = ADDR_WIDTH - j /\ i + 1 \in 0 .. ADDR_WIDTH
    BY <2>i
  <2>2. Agree(i + 1)
    BY <1>2, <2>1
  <2>3. Bit(a, i) # Bit(a, i + 1) <=> Bit(b, i) # Bit(b, i + 1)
    <3>1. i \in gray_conv(a) <=> i \in gray_conv(b)
      OBVIOUS
    <3> QED
      BY <2>1, <3>1 DEF gray_conv
  <2>4. /\ Bit(a, i) \in {0, 1} /\ Bit(a, i + 1) \in {0, 1}
        /\ Bit(b, i) \in {0, 1} /\ Bit(b, i + 1) \in {0, 1}
    BY <2>1, BitRange
  <2>5. Bit(a, i) = Bit(b, i)
    BY <2>2, <2>3, <2>4
  <2>6. High(a, i) = High(b, i)
    <3>1. High(a, i) = 2 * High(a, i + 1) + Bit(a, i)
      BY <1>0, <2>1, HighNext
    <3>2. High(b, i) = 2 * High(b, i + 1) + Bit(b, i)
      BY <1>0, <2>1, HighNext
    <3> QED
      BY <2>2, <2>5, <3>1, <3>2
  <2>7. Agree(ADDR_WIDTH - (j + 1))
    BY <2>i, <2>5, <2>6
  <2>8. j + 1 \in 0 .. ADDR_WIDTH
    OBVIOUS
  <2> HIDE DEF Agree
  <2> QED
    BY <2>7, <2>8
<1>3. ADDR_WIDTH \in K
  <2> HIDE DEF K
  <2>1. \A j \in 0 .. ADDR_WIDTH : j \in K
    BY <1>1, <1>2, UpTo
  <2> QED
    BY <2>1
<1>4. Agree(0)
  <2>1. ADDR_WIDTH - ADDR_WIDTH = 0
    OBVIOUS
  <2> QED
    BY <1>3, <2>1
<1> QED
  BY <1>0, <1>4, HighEnds

(* Where the carry of an increment stops: the lowest bit that is zero.     *)
Stop(a, t) ==
    /\ t \in 0 .. ADDR_WIDTH /\ Bit(a, t) = 0
    /\ \A i \in 0 .. ADDR_WIDTH : i < t => Bit(a, i) = 1

LEMMA CarryStops ==
    ASSUME NEW a \in Addr
    PROVE  \E t : Stop(a, t)
<1> USE FifoAssumption
<1> DEFINE Z == {i \in 0 .. ADDR_WIDTH : Bit(a, i) = 0}
<1>1. Z \in SUBSET Nat /\ ADDR_WIDTH \in Z
  BY BitRange, HighEnds
<1>2. PICK t \in Z : \A y \in Z : t <= y
  <2> HIDE DEF Z
  <2> QED
    BY <1>1, LeastNumber
<1>3. t \in 0 .. ADDR_WIDTH /\ Bit(a, t) = 0
  OBVIOUS
<1>4. ASSUME NEW i \in 0 .. ADDR_WIDTH, i < t PROVE Bit(a, i) = 1
  <2>1. i \notin Z
    <3> HIDE DEF Z
    <3> QED
      BY <1>2, <1>3, <1>4
  <2>2. Bit(a, i) \in {0, 1}
    BY BitRange
  <2> QED
    BY <2>1, <2>2
<1> QED
  BY <1>3, <1>4 DEF Stop

(* A number has one half and one last bit. *)
LEMMA HalfUnique ==
    ASSUME NEW x \in Nat, NEW y \in Nat, NEW c \in {0, 1}, NEW d \in {0, 1},
           2 * x + c = 2 * y + d
    PROVE  x = y /\ c = d
<1>1. CASE c = 0
  <2>1. d # 1
    BY <1>1
  <2> QED
    BY <1>1, <2>1
<1>2. CASE c = 1
  <2>1. d # 0
    BY <1>2
  <2> QED
    BY <1>2, <2>1
<1> QED
  BY <1>1, <1>2

(* Up to it the increment adds one, above it the addresses agree. *)
Carried(a, t, i) ==
    /\ i <= t => High(a + 1, i) = High(a, i) + 1
    /\ i > t => High(a + 1, i) = High(a, i)

LEMMA Increment ==
    ASSUME NEW a \in Addr, NEW t, Stop(a, t)
    PROVE  \A i \in 0 .. ADDR_WIDTH :
             /\ Carried(a, t, i)
             /\ i < ADDR_WIDTH =>
                   Bit(a + 1, i) = IF i > t THEN Bit(a, i) ELSE 1 - Bit(a, i)
<1> USE FifoAssumption
<1>0. a \in Nat /\ a + 1 \in Nat /\ t \in 0 .. ADDR_WIDTH
  BY BitRange DEF Stop
<1> DEFINE K == {i \in 0 .. ADDR_WIDTH : Carried(a, t, i)}
<1>1. 0 \in K
  <2>1. Carried(a, t, 0)
    BY <1>0, HighEnds DEF Carried
  <2> QED
    BY <2>1
<1>2. ASSUME NEW i \in 0 .. ADDR_WIDTH - 1, Carried(a, t, i)
      PROVE  /\ Carried(a, t, i + 1)
             /\ Bit(a + 1, i) = IF i > t THEN Bit(a, i) ELSE 1 - Bit(a, i)
  <2>1. /\ High(a, i) \in Nat /\ High(a, i + 1) \in Nat /\ Bit(a, i) \in {0, 1}
        /\ High(a, i) = 2 * High(a, i + 1) + Bit(a, i)
    BY <1>0, HighNext
  <2>b. PICK b : b = a + 1
    OBVIOUS
  <2>2. /\ High(b, i) \in Nat /\ High(b, i + 1) \in Nat /\ Bit(b, i) \in {0, 1}
        /\ High(b, i) = 2 * High(b, i + 1) + Bit(b, i)
    BY <1>0, <2>b, HighNext
  <2>3. /\ i <= t => High(b, i) = High(a, i) + 1
        /\ i > t => High(b, i) = High(a, i)
    BY <1>2, <2>b DEF Carried
  <2>4. (i < t => Bit(a, i) = 1) /\ (i = t => Bit(a, i) = 0)
    BY DEF Stop
  <2>5. /\ i + 1 <= t => High(b, i + 1) = High(a, i + 1) + 1
        /\ i + 1 > t => High(b, i + 1) = High(a, i + 1)
        /\ Bit(b, i) = IF i > t THEN Bit(a, i) ELSE 1 - Bit(a, i)
    <3>x. PICK x : x = High(a, i + 1)
      OBVIOUS
    <3>y. PICK y : y = High(b, i + 1)
      OBVIOUS
    <3>c. PICK c : c = Bit(a, i)
      OBVIOUS
    <3>d. PICK d : d = Bit(b, i)
      OBVIOUS
    <3>0. /\ x \in Nat /\ y \in Nat /\ c \in {0, 1} /\ d \in {0, 1}
          /\ i <= t => 2 * y + d = 2 * x + c + 1
          /\ i > t => 2 * y + d = 2 * x + c
          /\ i < t => c = 1
          /\ i = t => c = 0
      BY <2>1, <2>2, <2>3, <2>4, <3>x, <3>y, <3>c, <3>d
    <3>1. CASE i < t
      <4>1. c = 1 /\ 2 * y + d = 2 * (x + 1) + 0 /\ x + 1 \in Nat /\ 0 \in {0, 1}
        BY <1>0, <3>0, <3>1
      <4>2. y = x + 1 /\ d = 0
        BY <3>0, <4>1, HalfUnique
      <4> QED
        BY <1>0, <3>1, <3>x, <3>y, <3>c, <3>d, <4>1, <4>2
    <3>2. CASE i = t
      <4>1. c = 0 /\ 2 * y + d = 2 * x + 1 /\ 1 \in {0, 1}
        BY <1>0, <3>0, <3>2
      <4>2. y = x /\ d = 1
        BY <3>0, <4>1, HalfUnique
      <4> QED
        BY <1>0, <3>2, <3>x, <3>y, <3>c, <3>d, <4>1, <4>2
    <3>3. CASE i > t
      <4>1. 2 * y + d = 2 * x + c
        BY <3>0, <3>3
      <4>2. y = x /\ d = c
        BY <3>0, <4>1, HalfUnique
      <4> QED
        BY <1>0, <3>3, <3>x, <3>y, <3>c, <3>d, <4>2
    <3> QED
      BY <1>0, <3>1, <3>2, <3>3
  <2> QED
    BY <2>b, <2>5 DEF Carried
<1>3. \A i \in 0 .. ADDR_WIDTH : i \in K
  <2>1. ASSUME NEW i \in 0 .. ADDR_WIDTH - 1, i \in K PROVE i + 1 \in K
    <3>1. Carried(a, t, i + 1) /\ i + 1 \in 0 .. ADDR_WIDTH
      BY <1>2, <2>1
    <3> QED
      BY <3>1
  <2> HIDE DEF K
  <2> QED
    BY <1>1, <2>1, UpTo
<1> QED
  <2> TAKE i \in 0 .. ADDR_WIDTH
  <2>1. Carried(a, t, i)
    BY <1>3
  <2>2. i < ADDR_WIDTH => i \in 0 .. ADDR_WIDTH - 1
    OBVIOUS
  <2> QED
    BY <1>2, <2>1, <2>2

(* The carry leaves the address exactly when the pointer wraps. *)
LEMMA CarryOut ==
    ASSUME NEW a \in Addr, NEW t, Stop(a, t)
    PROVE  t < ADDR_WIDTH <=> a + 1 < Depth
<1> USE FifoAssumption
<1>1. a \in Nat /\ a < Depth /\ Depth \in Nat /\ t \in 0 .. ADDR_WIDTH
  BY BitRange, Pow2Range DEF Stop
<1>2. High(a, ADDR_WIDTH) = 0
  BY <1>1, HighEnds
<1>3. Carried(a, t, ADDR_WIDTH)
  BY Increment
<1>4. IF t < ADDR_WIDTH THEN High(a + 1, ADDR_WIDTH) = 0
                        ELSE High(a + 1, ADDR_WIDTH) = 1
  BY <1>1, <1>2, <1>3 DEF Carried
<1>5. a + 1 < Depth => High(a + 1, ADDR_WIDTH) = 0
  <2>1. a + 1 \in Nat
    BY <1>1
  <2> QED
    BY <2>1, HighEnds
<1>6. a + 1 = Depth => High(a + 1, ADDR_WIDTH) = 1
  <2>1. a + 1 \in Nat
    BY <1>1
  <2> QED
    BY <2>1, HighEnds
<1>7. a + 1 < Depth \/ a + 1 = Depth
  BY <1>1
<1> QED
  BY <1>1, <1>4, <1>5, <1>6, <1>7

(* A register that samples two sets one element apart gets one of them. *)
LEMMA OneApart ==
    ASSUME NEW S, NEW T, NEW t, (S \cup T) \ (S \cap T) = {t}
    PROVE  Mixed(S, T) = {S, T}
<1>1. SUBSET ((S \cup T) \ (S \cap T)) = {{}, {t}}
  OBVIOUS
<1>2. Mixed(S, T) = {(S \cap T) \cup {}, (S \cap T) \cup {t}}
  <2>1. Mixed(S, T) = {(S \cap T) \cup s : s \in {{}, {t}}}
    BY <1>1 DEF Mixed
  <2> QED
    BY <2>1
<1>3. CASE t \in S
  <2>1. (S \cap T) \cup {} = T /\ (S \cap T) \cup {t} = S
    BY <1>3
  <2> QED
    BY <1>2, <2>1
<1>4. CASE t \notin S
  <2>1. (S \cap T) \cup {} = S /\ (S \cap T) \cup {t} = T
    BY <1>4
  <2> QED
    BY <1>2, <2>1
<1> QED
  BY <1>3, <1>4

(* Neighbouring codes are one bit apart: where the carry stops, or, when   *)
(* the pointer wraps, the highest bit.                                     *)
LEMMA GrayStep ==
    ASSUME NEW a \in Addr
    PROVE  Mixed(gray_conv(a), gray_conv(Plus(a, 1)))
             = {gray_conv(a), gray_conv(Plus(a, 1))}
<1> USE FifoAssumption
<1>0. a \in Nat /\ a < Depth /\ Depth \in Nat /\ Depth > 2 /\ a + 1 \in Nat
  BY BitRange, Pow2Range
<1>t. PICK t : Stop(a, t)
  BY CarryStops
<1>1. /\ t \in 0 .. ADDR_WIDTH /\ Bit(a, t) = 0 /\ Bit(a, ADDR_WIDTH) = 0
      /\ \A i \in 0 .. ADDR_WIDTH : Bit(a, i) \in {0, 1} /\ (i < t => Bit(a, i) = 1)
  BY <1>0, <1>t, BitRange, HighEnds DEF Stop
<1>2. CASE a + 1 < Depth
  <2>1. Plus(a, 1) = a + 1
    <3>1. a + 1 \in 0 .. Depth - 1 /\ Depth > 0
      BY <1>0, <1>2
    <3> QED
      BY <1>0, <3>1, ModSmall DEF Plus
  <2>b. PICK b : b = a + 1
    OBVIOUS
  <2>2. t < ADDR_WIDTH
    BY <1>t, <1>2, CarryOut
  <2>3. \A i \in 0 .. ADDR_WIDTH :
           Bit(b, i) = IF i > t THEN Bit(a, i) ELSE 1 - Bit(a, i)
    <3> TAKE i \in 0 .. ADDR_WIDTH
    <3>1. CASE i < ADDR_WIDTH
      BY <1>t, <2>b, <3>1, Increment
    <3>2. CASE i = ADDR_WIDTH
      <4>1. Bit(b, ADDR_WIDTH) = 0
        BY <1>0, <1>2, <2>b, HighEnds
      <4> QED
        BY <1>1, <2>2, <3>2, <4>1
    <3> QED
      BY <3>1, <3>2
  <2>4. ASSUME NEW i \in 0 .. ADDR_WIDTH - 1
        PROVE  (i \in gray_conv(a) <=> i \in gray_conv(b)) <=> i # t
    <3>1. i \in 0 .. ADDR_WIDTH /\ i + 1 \in 0 .. ADDR_WIDTH
      OBVIOUS
    <3>2. Bit(a, i) \in {0, 1} /\ Bit(a, i + 1) \in {0, 1}
      BY <1>1, <3>1
    <3>3. (i < t => Bit(a, i) = 1) /\ (i + 1 < t => Bit(a, i + 1) = 1)
      BY <1>1, <3>1
    <3>4. /\ Bit(b, i) = IF i > t THEN Bit(a, i) ELSE 1 - Bit(a, i)
          /\ Bit(b, i + 1) = IF i + 1 > t THEN Bit(a, i + 1) ELSE 1 - Bit(a, i + 1)
      BY <2>3, <3>1
    <3>5. (Bit(a, i) # Bit(a, i + 1) <=> Bit(b, i) # Bit(b, i + 1)) <=> i # t
      <4>1. CASE i < t
        BY <1>1, <3>2, <3>3, <3>4, <4>1
      <4>2. CASE i = t
        BY <1>1, <3>2, <3>4, <4>2
      <4>3. CASE i > t
        BY <1>1, <3>2, <3>4, <4>3
      <4> QED
        BY <1>1, <4>1, <4>2, <4>3
    <3>6. /\ i \in gray_conv(a) <=> Bit(a, i) # Bit(a, i + 1)
          /\ i \in gray_conv(b) <=> Bit(b, i) # Bit(b, i + 1)
      BY DEF gray_conv
    <3> QED
      BY <3>5, <3>6
  <2>5. /\ gray_conv(a) \subseteq 0 .. ADDR_WIDTH - 1
        /\ gray_conv(b) \subseteq 0 .. ADDR_WIDTH - 1
        /\ t \in 0 .. ADDR_WIDTH - 1
    BY <1>1, <2>2 DEF gray_conv
  <2>6. (gray_conv(a) \cup gray_conv(b)) \ (gray_conv(a) \cap gray_conv(b)) = {t}
    BY <2>4, <2>5
  <2>7. Mixed(gray_conv(a), gray_conv(b)) = {gray_conv(a), gray_conv(b)}
    BY <2>6, OneApart
  <2> QED
    BY <2>1, <2>b, <2>7
<1>3. CASE a + 1 = Depth
  <2>1. Plus(a, 1) = 0
    <3>1. (0 + Depth) % Depth = 0 % Depth
      BY <1>0, ModPeriod
    <3>2. 0 % Depth = 0
      BY <1>0, ModSmall
    <3> QED
      BY <1>0, <1>3, <3>1, <3>2 DEF Plus
  <2>2. t = ADDR_WIDTH
    BY <1>0, <1>1, <1>t, <1>3, CarryOut
  <2>3. gray_conv(a) = {ADDR_WIDTH - 1}
    <3>1. ASSUME NEW i \in 0 .. ADDR_WIDTH - 1
          PROVE  Bit(a, i) # Bit(a, i + 1) <=> i = ADDR_WIDTH - 1
      <4>1. i \in 0 .. ADDR_WIDTH /\ i + 1 \in 0 .. ADDR_WIDTH
        OBVIOUS
      <4>2. Bit(a, i) = 1 /\ (i + 1 < ADDR_WIDTH => Bit(a, i + 1) = 1)
        BY <1>1, <2>2, <4>1
      <4>3. i = ADDR_WIDTH - 1 => Bit(a, i + 1) = 0
        BY <1>1
      <4> QED
        BY <4>2, <4>3
    <3> QED
      BY <3>1 DEF gray_conv
  <2>4. gray_conv(0) = {}
    <3>1. ASSUME NEW i \in 0 .. ADDR_WIDTH PROVE Bit(0, i) = 0
      <4>p. PICK p : p = Pow2[i]
        OBVIOUS
      <4>1. p \in Nat /\ p > 0
        BY <4>p, Pow2Range
      <4>2. 0 \div p = 0
        BY <4>1, SMT
      <4>3. 0 % 2 = 0
        OBVIOUS
      <4> QED
        BY <4>p, <4>2, <4>3 DEF Bit
    <3>2. \A i \in 0 .. ADDR_WIDTH - 1 : Bit(0, i) = 0 /\ Bit(0, i + 1) = 0
      BY <3>1
    <3> QED
      BY <3>2 DEF gray_conv
  <2>5. (gray_conv(a) \cup gray_conv(0)) \ (gray_conv(a) \cap gray_conv(0))
           = {ADDR_WIDTH - 1}
    BY <2>3, <2>4
  <2>6. Mixed(gray_conv(a), gray_conv(0)) = {gray_conv(a), gray_conv(0)}
    BY <2>5, OneApart
  <2> QED
    BY <2>1, <2>6
<1> QED
  BY <1>0, <1>2, <1>3

(* What the rest of the proof needs of the code: it tells the addresses    *)
(* apart, and a register that samples a pointer as it moves gets the old   *)
(* address or the new one.                                                 *)
THEOREM FifoFacts ==
    /\ Depth \in Nat /\ Depth > 2 /\ MaxWords \in Nat
    /\ \A a, b \in Addr : gray_conv(a) = gray_conv(b) => a = b
    /\ \A a \in Addr : Mixed(gray_conv(a), gray_conv(Plus(a, 1)))
                            = {gray_conv(a), gray_conv(Plus(a, 1))}
<1>1. Depth \in Nat /\ Depth > 2
  BY Pow2Range
<1>2. MaxWords \in Nat
  BY FifoAssumption
<1>3. \A a, b \in Addr : gray_conv(a) = gray_conv(b) => a = b
  BY GrayUnique
<1>4. \A a \in Addr : Mixed(gray_conv(a), gray_conv(Plus(a, 1)))
                            = {gray_conv(a), gray_conv(Plus(a, 1))}
  BY GrayStep
<1> QED
  BY <1>1, <1>2, <1>3, <1>4

-----------------------------------------------------------------------------
(* Pointers.                                                               *)

Ptr(c) == c % Depth
Code(c) == gray_conv(Ptr(c))

(* A count has a pointer, and the pointer of the next count, or of the one *)
(* after it, is the pointer plus one or two.                               *)
LEMMA PtrNext ==
    ASSUME NEW x \in Nat
    PROVE  /\ Ptr(x) \in Addr
           /\ Plus(Ptr(x), 1) = Ptr(x + 1)
           /\ Plus(Ptr(x), 2) = Ptr(x + 2)
<1> DEFINE D == Depth
           a == x % D
<1>1. D \in Nat /\ D > 2 /\ D > 0
  BY FifoFacts
<1> HIDE DEF D
<1>2. a \in 0 .. D - 1 /\ a \in Nat
  BY <1>1, ModRange
<1>3. (x + 1) % D = IF a = D - 1 THEN 0 ELSE a + 1
  BY <1>1, ModNext, Zenon
<1> HIDE DEF a
<1>4. (a + 1) % D = (x + 1) % D
  <2>1. CASE a = D - 1
    <3>1. (0 + D) % D = 0 % D
      BY <1>1, ModPeriod
    <3>2. 0 % D = 0
      BY <1>1, ModSmall
    <3> QED
      BY <1>1, <1>2, <1>3, <2>1, <3>1, <3>2
  <2>2. CASE a # D - 1
    <3>1. a + 1 \in 0 .. D - 1
      BY <1>1, <1>2, <2>2
    <3> QED
      BY <1>1, <1>3, <2>2, <3>1, ModSmall
  <2> QED
    BY <2>1, <2>2
<1>5. (a + 2) % D = (x + 2) % D
  <2>1. ((a + 1) + 1) % D = IF (a + 1) % D = D - 1 THEN 0 ELSE ((a + 1) % D) + 1
    <3>1. a + 1 \in Nat
      BY <1>2
    <3> QED
      BY <1>1, <3>1, ModNext, Zenon
  <2>2. ((x + 1) + 1) % D = IF (x + 1) % D = D - 1 THEN 0 ELSE ((x + 1) % D) + 1
    <3>1. x + 1 \in Nat
      OBVIOUS
    <3> QED
      BY <1>1, <3>1, ModNext, Zenon
  <2>3. (a + 1) + 1 = a + 2 /\ (x + 1) + 1 = x + 2
    BY <1>2
  <2> QED
    BY <1>4, <2>1, <2>2, <2>3
<1> QED
  BY <1>2, <1>4, <1>5 DEF Ptr, Plus, Addr, a, D

(* The count 0 has the pointer 0. *)
LEMMA PtrZero == Ptr(0) = 0
  BY FifoFacts, ModSmall DEF Ptr

(* Counts Depth apart have the same pointer, others nearby have not. *)
LEMMA PtrWraps ==
    ASSUME NEW x \in Nat, NEW y \in Nat, x <= y
    PROVE  /\ y - x = Depth => Ptr(x) = Ptr(y)
           /\ y - x < Depth /\ Ptr(x) = Ptr(y) => x = y
<1> DEFINE D == Depth
<1>0. D \in Nat /\ D > 0
  BY FifoFacts
<1> HIDE DEF D
<1>1. ASSUME y - x = D PROVE x % D = y % D
  <2>1. y = x + D
    BY <1>0, <1>1
  <2> QED
    BY <1>0, <2>1, ModPeriod, Zenon
<1>2. ASSUME y - x < D, x % D = y % D PROVE x = y
  BY <1>0, <1>2, ModNear, Zenon
<1> QED
  BY <1>1, <1>2 DEF Ptr, D

(* What a register may get that samples a pointer: at rest, or at the edge *)
(* that moves it.                                                          *)
LEMMA Samples ==
    ASSUME NEW x \in Nat
    PROVE  /\ Mixed(Code(x), Code(x)) = {Code(x)}
           /\ Mixed(Code(x), Code(x + 1)) = {Code(x), Code(x + 1)}
<1>1. Mixed(Code(x), Code(x)) = {Code(x)}
  BY DEF Mixed
<1>2. Mixed(Code(x), Code(x + 1)) = {Code(x), Code(x + 1)}
  <2>1. Ptr(x) \in Addr /\ Plus(Ptr(x), 1) = Ptr(x + 1)
    BY PtrNext
  <2>2. Mixed(gray_conv(Ptr(x)), gray_conv(Plus(Ptr(x), 1)))
           = {gray_conv(Ptr(x)), gray_conv(Plus(Ptr(x), 1))}
    BY <2>1, FifoFacts
  <2> QED
    BY <2>1, <2>2 DEF Code
<1> QED
  BY <1>1, <1>2

-----------------------------------------------------------------------------
(* The invariant.                                                          *)

(* The write side: its pointer, and its copies of the read pointer, of     *)
(* which the older one bounds what may still be unread.                    *)
WrInv ==
    /\ wr_rst \in BOOLEAN /\ full_o \in BOOLEAN
    /\ written \in Nat /\ rd_at \in Nat /\ rd_at_r \in Nat
    /\ wr_addr = Ptr(written) /\ wr_addr_gray = Code(written)
    /\ rd_addr_gray_wr = Code(rd_at) /\ rd_addr_gray_wr_r = Code(rd_at_r)
    /\ rd_at_r <= rd_at
    /\ written - rd_at_r <= Depth - 1
    /\ ~full_o => written - rd_at_r < Depth - 1
    /\ wr_rst => written = 0 /\ ~full_o

(* The read side: its pointer, and its copies of the write pointer, of     *)
(* which the older one bounds what may be read.                            *)
RdInv ==
    /\ rd_rst \in BOOLEAN /\ empty_o \in BOOLEAN
    /\ taken \in Nat /\ wr_at \in Nat /\ wr_at_r \in Nat
    /\ rd_addr = Ptr(taken) /\ rd_addr_gray = Code(taken)
    /\ wr_addr_gray_rd = Code(wr_at) /\ wr_addr_gray_rd_r = Code(wr_at_r)
    /\ taken <= wr_at_r /\ wr_at_r <= wr_at
    /\ ~empty_o => taken < wr_at_r
    /\ rd_rst => taken = 0 /\ empty_o
    /\ rd_data_o = taken

(* No copy is newer than its pointer. *)
NoneNewer == rd_at <= taken /\ wr_at <= written

(* The words that have not been taken are in memory. *)
MemInv ==
    /\ mem \in [Addr -> Nat]
    /\ \A k \in Nat : k >= taken /\ k < written => mem[Ptr(k)] = k + 1

Inv == WrInv /\ RdInv /\ NoneNewer /\ MemInv

(* It holds at the start. *)
LEMMA InitInv == Init => Inv
<1> SUFFICES ASSUME Init PROVE Inv
  OBVIOUS
<1>1. Ptr(0) = 0 /\ Code(0) = gray_conv(0)
  BY PtrZero DEF Code
<1>2. Depth \in Nat /\ Depth > 2
  BY FifoFacts
<1>3. WrInv
  <2>1. wr_addr = Ptr(written) /\ wr_addr_gray = Code(written)
    BY <1>1 DEF Init
  <2>2. rd_addr_gray_wr = Code(rd_at) /\ rd_addr_gray_wr_r = Code(rd_at_r)
    BY <1>1 DEF Init
  <2>3. written - rd_at_r <= Depth - 1 /\ written - rd_at_r < Depth - 1
    BY <1>2 DEF Init
  <2>4. wr_rst \in BOOLEAN /\ full_o \in BOOLEAN /\ written = 0 /\ ~full_o
    BY Zenon DEF Init
  <2>5. rd_at = 0 /\ rd_at_r = 0
    BY DEF Init
  <2> QED
    BY <2>1, <2>2, <2>3, <2>4, <2>5 DEF WrInv
<1>4. RdInv
  BY <1>1, <1>2 DEF RdInv, Init
<1>5. NoneNewer /\ MemInv
  BY <1>2 DEF NoneNewer, MemInv, Init
<1> QED
  BY <1>3, <1>4, <1>5 DEF Inv

(* An edge of the write clock at which the copy of the read pointer is     *)
(* renewed with a newer one.                                               *)
LEMMA WrStep ==
    ASSUME Inv, NEW en \in BOOLEAN, NEW g, NEW n \in Nat,
           wr_en(en), WrEdge(en, g, n), g = Code(n), rd_at <= n
    PROVE  /\ WrInv'
           /\ written' = IF en THEN written + 1 ELSE written
           /\ rd_at' = n
           /\ mem' \in [Addr -> Nat]
           /\ \A k \in Nat : k >= taken /\ k < written' => mem'[Ptr(k)] = k + 1
<1> USE DEF Inv
<1>0. Depth \in Nat /\ Depth > 2
  BY FifoFacts
<1>1. /\ written \in Nat /\ rd_at \in Nat /\ rd_at_r \in Nat /\ taken \in Nat
      /\ rd_at_r <= rd_at /\ rd_at <= taken
      /\ written - rd_at_r <= Depth - 1
  BY DEF WrInv, RdInv, NoneNewer
<1>2. /\ rd_at' = n /\ rd_at_r' = rd_at
      /\ rd_addr_gray_wr' = Code(n) /\ rd_addr_gray_wr_r' = Code(rd_at)
      /\ wr_rst' = wr_rst /\ full_o' = full_next(en)
  BY DEF WrEdge, WrInv
<1>3. wr_rst \in BOOLEAN /\ full_o \in BOOLEAN /\ full_o' \in BOOLEAN
  BY <1>2, Zenon DEF WrInv, full_next
<1>4. mem \in [Addr -> Nat]
  BY DEF MemInv
<1>5. wr_addr = Ptr(written) /\ wr_addr_gray = Code(written)
       /\ rd_addr_gray_wr_r = Code(rd_at_r)
  BY DEF WrInv
<1>6. CASE en
  <2>1. ~wr_rst /\ ~full_o
    BY <1>6 DEF wr_en
  <2>2. written - rd_at_r < Depth - 1
    BY <2>1 DEF WrInv
  <2>3. written' = written + 1 /\ mem' = [mem EXCEPT ![wr_addr] = written + 1]
    BY <1>6 DEF WrEdge
  <2>4. /\ Ptr(written) \in Addr
        /\ Plus(Ptr(written), 1) = Ptr(written + 1)
        /\ Plus(Ptr(written), 2) = Ptr(written + 2)
    BY <1>1, PtrNext
  <2>5. wr_addr' = Ptr(written') /\ wr_addr_gray' = Code(written')
    BY <1>5, <1>6, <2>1, <2>3, <2>4 DEF WrEdge, wr_addr_next, wr_gray_next, Code
  <2>6. full_o' <=> Code(written + 2) = Code(rd_at_r)
    BY <1>2, <1>5, <1>6, <2>1, <2>4, Zenon DEF full_next, Code
  <2>7. ~full_o' => written' - rd_at_r' < Depth - 1
    <3>1. written + 2 - rd_at_r = Depth => Ptr(rd_at_r) = Ptr(written + 2)
      <4>1. CASE rd_at_r <= written + 2
        BY <1>1, <4>1, PtrWraps
      <4>2. CASE ~(rd_at_r <= written + 2)
        BY <1>0, <1>1, <4>2
      <4> QED
        BY <4>1, <4>2
    <3>2. ~full_o' => written + 2 - rd_at_r # Depth
      BY <2>6, <3>1, Zenon DEF Code
    <3> QED
      BY <1>0, <1>1, <1>2, <2>2, <2>3, <3>2
  <2>8. WrInv'
    <3>1. /\ written' \in Nat /\ rd_at' \in Nat /\ rd_at_r' \in Nat
          /\ rd_at_r' <= rd_at'
          /\ written' - rd_at_r' <= Depth - 1
      BY <1>0, <1>1, <1>2, <2>2, <2>3
    <3>2. wr_rst' \in BOOLEAN /\ full_o' \in BOOLEAN /\ ~wr_rst'
      BY <1>2, <1>3, <2>1, Zenon
    <3> QED
      BY <1>2, <2>5, <2>7, <3>1, <3>2 DEF WrInv
  <2>9. mem' \in [Addr -> Nat]
    BY <1>1, <1>4, <1>5, <2>3, <2>4
  <2>10. ASSUME NEW k \in Nat, k >= taken, k < written' PROVE mem'[Ptr(k)] = k + 1
    <3>1. CASE k = written
      BY <1>4, <1>5, <2>3, <2>4, <3>1
    <3>2. CASE k # written
      <4>1. k < written /\ k <= written /\ written - k < Depth
        BY <1>0, <1>1, <2>3, <2>10, <3>2
      <4>2. Ptr(k) # Ptr(written)
        BY <1>1, <3>2, <4>1, PtrWraps
      <4>3. mem[Ptr(k)] = k + 1
        BY <2>10, <4>1 DEF MemInv
      <4>4. Ptr(k) \in Addr
        BY PtrNext
      <4> QED
        BY <1>4, <1>5, <2>3, <4>2, <4>3, <4>4
    <3> QED
      BY <3>1, <3>2
  <2> QED
    BY <1>2, <1>6, <2>3, <2>8, <2>9, <2>10
<1>7. CASE ~en
  <2>1. written' = written /\ mem' = mem
    BY <1>7 DEF WrEdge
  <2>2. wr_addr' = Ptr(written') /\ wr_addr_gray' = Code(written')
    <3>1. CASE wr_rst
      <4>1. written = 0
        BY <3>1 DEF WrInv
      <4>2. wr_addr' = 0 /\ wr_addr_gray' = gray_conv(0)
        BY <3>1 DEF WrEdge, wr_addr_next, wr_gray_next
      <4> QED
        BY <2>1, <4>1, <4>2, PtrZero DEF Code
    <3>2. CASE ~wr_rst
      BY <1>5, <1>7, <2>1, <3>2 DEF WrEdge, wr_addr_next, wr_gray_next
    <3> QED
      BY <3>1, <3>2
  <2>3. ~full_o' => written' - rd_at_r' < Depth - 1
    <3>1. CASE wr_rst
      BY <1>0, <1>1, <1>2, <2>1, <3>1 DEF WrInv
    <3>2. CASE ~wr_rst /\ ~full_o
      BY <1>0, <1>1, <1>2, <2>1, <3>2 DEF WrInv
    <3>3. CASE ~wr_rst /\ full_o
      <4>1. Plus(Ptr(written), 1) = Ptr(written + 1)
        BY <1>1, PtrNext
      <4>2. full_o' <=> Code(written + 1) = Code(rd_at_r)
        BY <1>2, <1>5, <1>7, <3>3, <4>1, Zenon DEF full_next, Code
      <4>3. written + 1 - rd_at_r = Depth => Ptr(rd_at_r) = Ptr(written + 1)
        <5>1. CASE rd_at_r <= written + 1
          BY <1>1, <5>1, PtrWraps
        <5>2. CASE ~(rd_at_r <= written + 1)
          BY <1>0, <1>1, <5>2
        <5> QED
          BY <5>1, <5>2
      <4>4. ~full_o' => written + 1 - rd_at_r # Depth
        BY <4>2, <4>3, Zenon DEF Code
      <4> QED
        BY <1>0, <1>1, <1>2, <2>1, <4>4
    <3> QED
      BY <3>1, <3>2, <3>3
  <2>4. wr_rst' => written' = 0 /\ ~full_o'
    BY <1>2, <2>1, Zenon DEF WrInv, full_next
  <2>5. WrInv'
    <3>1. /\ written' \in Nat /\ rd_at' \in Nat /\ rd_at_r' \in Nat
          /\ rd_at_r' <= rd_at'
          /\ written' - rd_at_r' <= Depth - 1
      BY <1>0, <1>1, <1>2, <2>1
    <3>2. wr_rst' \in BOOLEAN /\ full_o' \in BOOLEAN
      BY <1>2, <1>3, Zenon
    <3> QED
      BY <1>2, <2>2, <2>3, <2>4, <3>1, <3>2 DEF WrInv
  <2>6. \A k \in Nat : k >= taken /\ k < written' => mem'[Ptr(k)] = k + 1
    BY <2>1 DEF MemInv
  <2> QED
    BY <1>2, <1>4, <1>7, <2>1, <2>5, <2>6
<1> QED
  BY <1>6, <1>7

(* ... and of the read clock.                                              *)
LEMMA RdStep ==
    ASSUME Inv, NEW en \in BOOLEAN, NEW g, NEW n \in Nat,
           rd_en(en), RdEdge(en, g, n), g = Code(n), wr_at <= n
    PROVE  /\ RdInv'
           /\ taken' = IF en THEN taken + 1 ELSE taken
           /\ wr_at' = n
           /\ en => taken < written /\ rd_data_o' = taken'
           /\ ~en => rd_data_o' = rd_data_o
<1> USE DEF Inv
<1>1. /\ taken \in Nat /\ wr_at \in Nat /\ wr_at_r \in Nat /\ written \in Nat
      /\ taken <= wr_at_r /\ wr_at_r <= wr_at /\ wr_at <= written
      /\ rd_data_o = taken
  BY DEF WrInv, RdInv, NoneNewer
<1>2. /\ wr_at' = n /\ wr_at_r' = wr_at
      /\ wr_addr_gray_rd' = Code(n) /\ wr_addr_gray_rd_r' = Code(wr_at)
      /\ rd_rst' = rd_rst /\ empty_o' = empty_next(en)
  BY DEF RdEdge, RdInv
<1>3. rd_rst \in BOOLEAN /\ empty_o \in BOOLEAN /\ empty_o' \in BOOLEAN
  BY <1>2, Zenon DEF RdInv, empty_next
<1>4. rd_addr = Ptr(taken) /\ rd_addr_gray = Code(taken)
       /\ wr_addr_gray_rd_r = Code(wr_at_r)
  BY DEF RdInv
<1>5. CASE en
  <2>1. ~rd_rst /\ ~empty_o
    BY <1>5 DEF rd_en
  <2>2. taken < wr_at_r /\ taken < written
    BY <1>1, <2>1 DEF RdInv
  <2>3. taken' = taken + 1 /\ rd_data_o' = mem[rd_addr]
    BY <1>5 DEF RdEdge
  <2>4. mem[rd_addr] = taken + 1
    BY <1>1, <1>4, <2>2 DEF MemInv
  <2>5. Plus(Ptr(taken), 1) = Ptr(taken + 1)
    BY <1>1, PtrNext
  <2>6. rd_addr' = Ptr(taken') /\ rd_addr_gray' = Code(taken')
    BY <1>4, <1>5, <2>1, <2>3, <2>5 DEF RdEdge, rd_addr_next, rd_gray_next, Code
  <2>7. empty_o' <=> Code(taken + 1) = Code(wr_at_r)
    BY <1>2, <1>4, <1>5, <2>1, <2>5, Zenon DEF empty_next, Code
  <2>8. ~empty_o' => taken + 1 # wr_at_r
    BY <2>7, Zenon
  <2>9. ~empty_o' => taken' < wr_at_r'
    BY <1>1, <1>2, <2>2, <2>3, <2>8
  <2>10. RdInv'
    <3>1. /\ taken' \in Nat /\ wr_at' \in Nat /\ wr_at_r' \in Nat
          /\ taken' <= wr_at_r' /\ wr_at_r' <= wr_at'
          /\ rd_data_o' = taken'
      BY <1>1, <1>2, <2>2, <2>3, <2>4
    <3>2. rd_rst' \in BOOLEAN /\ empty_o' \in BOOLEAN /\ ~rd_rst'
      BY <1>2, <1>3, <2>1, Zenon
    <3> QED
      BY <1>2, <2>6, <2>9, <3>1, <3>2 DEF RdInv
  <2> QED
    BY <1>2, <1>5, <2>2, <2>3, <2>4, <2>10
<1>6. CASE ~en
  <2>1. taken' = taken /\ rd_data_o' = rd_data_o
    BY <1>6 DEF RdEdge
  <2>2. rd_addr' = Ptr(taken') /\ rd_addr_gray' = Code(taken')
    <3>1. CASE rd_rst
      <4>1. taken = 0
        BY <3>1 DEF RdInv
      <4>2. rd_addr' = 0 /\ rd_addr_gray' = gray_conv(0)
        BY <3>1 DEF RdEdge, rd_addr_next, rd_gray_next
      <4> QED
        BY <2>1, <4>1, <4>2, PtrZero DEF Code
    <3>2. CASE ~rd_rst
      BY <1>4, <1>6, <2>1, <3>2 DEF RdEdge, rd_addr_next, rd_gray_next
    <3> QED
      BY <3>1, <3>2
  <2>3. ~empty_o' => taken' < wr_at_r'
    <3>1. CASE rd_rst
      BY <1>2, <3>1, Zenon DEF empty_next
    <3>2. CASE ~rd_rst /\ ~empty_o
      BY <1>1, <1>2, <2>1, <3>2 DEF RdInv
    <3>3. CASE ~rd_rst /\ empty_o
      <4>1. empty_o' <=> Code(taken) = Code(wr_at_r)
        BY <1>2, <1>4, <1>6, <3>3, Zenon DEF empty_next, Code
      <4>2. ~empty_o' => taken # wr_at_r
        BY <4>1, Zenon
      <4> QED
        BY <1>1, <1>2, <2>1, <4>2
    <3> QED
      BY <3>1, <3>2, <3>3
  <2>4. rd_rst' => taken' = 0 /\ empty_o'
    BY <1>2, <2>1, Zenon DEF RdInv, empty_next
  <2>5. RdInv'
    <3>1. /\ taken' \in Nat /\ wr_at' \in Nat /\ wr_at_r' \in Nat
          /\ taken' <= wr_at_r' /\ wr_at_r' <= wr_at'
          /\ rd_data_o' = taken'
      BY <1>1, <1>2, <2>1
    <3>2. rd_rst' \in BOOLEAN /\ empty_o' \in BOOLEAN
      BY <1>2, <1>3, Zenon
    <3> QED
      BY <1>2, <2>2, <2>3, <2>4, <3>1, <3>2 DEF RdInv
  <2> QED
    BY <1>2, <1>6, <2>1, <2>5
<1> QED
  BY <1>5, <1>6

(* What a side sees of the other one's pointer when both edges fall        *)
(* together is the code of a count, the old one or the new one.            *)
LEMMA RdSampled ==
    ASSUME Inv, NEW re \in BOOLEAN, rd_en(re),
           NEW g \in Mixed(rd_addr_gray, rd_gray_next(re)),
           NEW n, n = IF re /\ g = rd_gray_next(re) THEN taken + 1 ELSE taken
    PROVE  /\ n \in Nat /\ g = Code(n) /\ taken <= n
           /\ n <= IF re THEN taken + 1 ELSE taken
<1>1. taken \in Nat /\ rd_addr = Ptr(taken) /\ rd_addr_gray = Code(taken)
  BY DEF Inv, RdInv
<1>2. CASE re
  <2>1. rd_gray_next(re) = Code(taken + 1)
    BY <1>1, <1>2, PtrNext DEF rd_gray_next, rd_en, Code
  <2>2. g \in {Code(taken), Code(taken + 1)}
    BY <1>1, <2>1, Samples
  <2>3. CASE g = Code(taken + 1)
    <3>1. n = taken + 1
      BY <1>2, <2>1, <2>3
    <3>2. (IF re THEN taken + 1 ELSE taken) = taken + 1
      BY <1>2, Zenon
    <3>3. n \in Nat /\ taken <= n /\ n <= taken + 1
      BY <1>1, <3>1
    <3> QED
      BY <2>3, <3>1, <3>2, <3>3, Zenon
  <2>4. CASE g # Code(taken + 1)
    <3>1. n = taken /\ g = Code(taken)
      BY <1>2, <2>1, <2>2, <2>4
    <3>2. (IF re THEN taken + 1 ELSE taken) = taken + 1
      BY <1>2, Zenon
    <3>3. n \in Nat /\ taken <= n /\ n <= taken + 1
      BY <1>1, <3>1
    <3> QED
      BY <3>1, <3>2, <3>3, Zenon
  <2> QED
    BY <2>3, <2>4
<1>3. CASE ~re
  <2>1. rd_gray_next(re) = Code(taken)
    <3>1. CASE rd_rst
      BY <1>1, <3>1, PtrZero DEF rd_gray_next, Inv, RdInv, Code
    <3>2. CASE ~rd_rst
      BY <1>1, <1>3, <3>2 DEF rd_gray_next
    <3> QED
      BY <3>1, <3>2
  <2>2. g = Code(taken)
    BY <1>1, <2>1, Samples
  <2> QED
    BY <1>1, <1>3, <2>2
<1> QED
  BY <1>2, <1>3

(* The same for the write pointer. *)
LEMMA WrSampled ==
    ASSUME Inv, NEW we \in BOOLEAN, wr_en(we),
           NEW g \in Mixed(wr_addr_gray, wr_gray_next(we)),
           NEW n, n = IF we /\ g = wr_gray_next(we) THEN written + 1 ELSE written
    PROVE  /\ n \in Nat /\ g = Code(n) /\ written <= n
           /\ n <= IF we THEN written + 1 ELSE written
<1>1. written \in Nat /\ wr_addr = Ptr(written) /\ wr_addr_gray = Code(written)
  BY DEF Inv, WrInv
<1>2. CASE we
  <2>1. wr_gray_next(we) = Code(written + 1)
    BY <1>1, <1>2, PtrNext DEF wr_gray_next, wr_en, Code
  <2>2. g \in {Code(written), Code(written + 1)}
    BY <1>1, <2>1, Samples
  <2>3. CASE g = Code(written + 1)
    <3>1. n = written + 1
      BY <1>2, <2>1, <2>3
    <3>2. (IF we THEN written + 1 ELSE written) = written + 1
      BY <1>2, Zenon
    <3>3. n \in Nat /\ written <= n /\ n <= written + 1
      BY <1>1, <3>1
    <3> QED
      BY <2>3, <3>1, <3>2, <3>3, Zenon
  <2>4. CASE g # Code(written + 1)
    <3>1. n = written /\ g = Code(written)
      BY <1>2, <2>1, <2>2, <2>4
    <3>2. (IF we THEN written + 1 ELSE written) = written + 1
      BY <1>2, Zenon
    <3>3. n \in Nat /\ written <= n /\ n <= written + 1
      BY <1>1, <3>1
    <3> QED
      BY <3>1, <3>2, <3>3, Zenon
  <2> QED
    BY <2>3, <2>4
<1>3. CASE ~we
  <2>1. wr_gray_next(we) = Code(written)
    <3>1. CASE wr_rst
      BY <1>1, <3>1, PtrZero DEF wr_gray_next, Inv, WrInv, Code
    <3>2. CASE ~wr_rst
      BY <1>1, <1>3, <3>2 DEF wr_gray_next
    <3> QED
      BY <3>1, <3>2
  <2>2. g = Code(written)
    BY <1>1, <2>1, Samples
  <2> QED
    BY <1>1, <1>3, <2>2
<1> QED
  BY <1>2, <1>3

(* Every step keeps the invariant. *)
LEMMA NextInv == Inv /\ [Next]_vars => Inv'
<1> SUFFICES ASSUME Inv, [Next]_vars PROVE Inv'
  OBVIOUS
<1>0. /\ WrInv /\ RdInv /\ NoneNewer /\ MemInv
      /\ written \in Nat /\ taken \in Nat /\ rd_at \in Nat /\ wr_at \in Nat
      /\ rd_at <= taken /\ wr_at <= written
      /\ rd_addr_gray = Code(taken) /\ wr_addr_gray = Code(written)
  BY DEF Inv, WrInv, RdInv, NoneNewer
<1>1. ASSUME NEW en \in BOOLEAN, WrClock(en) PROVE Inv'
  <2>1. wr_en(en) /\ WrEdge(en, rd_addr_gray, taken) /\ UNCHANGED rdVars
    BY <1>1 DEF WrClock
  <2>2. /\ WrInv'
        /\ written' = IF en THEN written + 1 ELSE written
        /\ rd_at' = taken
        /\ mem' \in [Addr -> Nat]
        /\ \A k \in Nat : k >= taken /\ k < written' => mem'[Ptr(k)] = k + 1
    BY <1>0, <2>1, WrStep
  <2>3. RdInv' /\ taken' = taken /\ wr_at' = wr_at
    BY <1>0, <2>1 DEF RdInv, rdVars
  <2>4. NoneNewer'
    BY <1>0, <2>2, <2>3 DEF NoneNewer
  <2>5. MemInv'
    BY <2>2, <2>3 DEF MemInv
  <2> QED
    BY <2>2, <2>3, <2>4, <2>5 DEF Inv
<1>2. ASSUME NEW en \in BOOLEAN, RdClock(en) PROVE Inv'
  <2>1. rd_en(en) /\ RdEdge(en, wr_addr_gray, written) /\ UNCHANGED wrVars
    BY <1>2 DEF RdClock
  <2>2. /\ RdInv'
        /\ taken' = IF en THEN taken + 1 ELSE taken
        /\ wr_at' = written
    BY <1>0, <2>1, RdStep
  <2>3. WrInv' /\ written' = written /\ rd_at' = rd_at /\ mem' = mem
    BY <1>0, <2>1 DEF WrInv, wrVars
  <2>4. NoneNewer'
    BY <1>0, <2>2, <2>3 DEF NoneNewer
  <2>5. MemInv'
    BY <1>0, <2>2, <2>3 DEF MemInv
  <2> QED
    BY <2>2, <2>3, <2>4, <2>5 DEF Inv
<1>3. ASSUME NEW we \in BOOLEAN, NEW re \in BOOLEAN, BothClocks(we, re) PROVE Inv'
  <2>1. wr_en(we) /\ rd_en(re)
    BY <1>3 DEF BothClocks
  <2>2. PICK g \in Mixed(rd_addr_gray, rd_gray_next(re)) :
          WrEdge(we, g, IF re /\ g = rd_gray_next(re) THEN taken + 1 ELSE taken)
    BY <1>3 DEF BothClocks
  <2>3. PICK h \in Mixed(wr_addr_gray, wr_gray_next(we)) :
          RdEdge(re, h, IF we /\ h = wr_gray_next(we) THEN written + 1 ELSE written)
    BY <1>3 DEF BothClocks
  <2> DEFINE n == IF re /\ g = rd_gray_next(re) THEN taken + 1 ELSE taken
             m == IF we /\ h = wr_gray_next(we) THEN written + 1 ELSE written
  <2>4. n \in Nat /\ g = Code(n) /\ taken <= n
         /\ n <= IF re THEN taken + 1 ELSE taken
    BY <2>1, RdSampled
  <2>5. m \in Nat /\ h = Code(m) /\ written <= m
         /\ m <= IF we THEN written + 1 ELSE written
    BY <2>1, WrSampled
  <2>6. WrEdge(we, g, n) /\ RdEdge(re, h, m)
    BY <2>2, <2>3
  <2> HIDE DEF n, m
  <2>7. rd_at <= n /\ wr_at <= m
    BY <1>0, <2>4, <2>5
  <2>8. /\ WrInv'
        /\ written' = IF we THEN written + 1 ELSE written
        /\ rd_at' = n
        /\ mem' \in [Addr -> Nat]
        /\ \A k \in Nat : k >= taken /\ k < written' => mem'[Ptr(k)] = k + 1
    BY <2>1, <2>4, <2>6, <2>7, WrStep
  <2>9. /\ RdInv'
        /\ taken' = IF re THEN taken + 1 ELSE taken
        /\ wr_at' = m
    BY <2>1, <2>5, <2>6, <2>7, RdStep
  <2>10. NoneNewer'
    BY <2>4, <2>5, <2>8, <2>9 DEF NoneNewer
  <2>11. MemInv'
    BY <1>0, <2>8, <2>9 DEF MemInv
  <2> QED
    BY <2>8, <2>9, <2>10, <2>11 DEF Inv
<1>4. CASE WrReset
  <2>1. WrInv' /\ RdInv'
    BY <1>0, <1>4 DEF WrReset, WrInv, RdInv, rdVars
  <2>2. NoneNewer' /\ MemInv'
    BY <1>0, <1>4 DEF WrReset, NoneNewer, MemInv, rdVars
  <2> QED
    BY <2>1, <2>2 DEF Inv
<1>5. CASE RdReset
  <2>1. WrInv' /\ RdInv'
    BY <1>0, <1>5 DEF RdReset, WrInv, RdInv, wrVars
  <2>2. NoneNewer' /\ MemInv'
    BY <1>0, <1>5 DEF RdReset, NoneNewer, MemInv, wrVars
  <2> QED
    BY <2>1, <2>2 DEF Inv
<1>6. CASE UNCHANGED vars
  <2>1. WrInv' /\ RdInv'
    BY <1>0, <1>6 DEF vars, WrInv, RdInv, wrVars, rdVars
  <2>2. NoneNewer' /\ MemInv'
    BY <1>0, <1>6 DEF vars, NoneNewer, MemInv, wrVars, rdVars
  <2> QED
    BY <2>1, <2>2 DEF Inv
<1> QED
  BY <1>1, <1>2, <1>3, <1>4, <1>5, <1>6 DEF Next

(* The invariant always holds. *)
LEMMA AlwaysInv == Spec => []Inv
<1>1. Init => Inv
  BY InitInv
<1>2. Inv /\ [Next]_vars => Inv'
  BY NextInv
<1> QED
  BY <1>1, <1>2, PTL DEF Spec

-----------------------------------------------------------------------------
(* Theorems.                                                               *)

(* Every register keeps its type; the Gray registers hold codes of         *)
(* addresses only, whatever was sampled while a pointer moved.             *)
THEOREM FifoTypeOK == Spec => []TypeOK
<1>1. Inv => TypeOK
  <2> SUFFICES ASSUME Inv PROVE TypeOK
    OBVIOUS
  <2>1. /\ written \in Nat /\ taken \in Nat /\ wr_at \in Nat /\ wr_at_r \in Nat
        /\ rd_at \in Nat /\ rd_at_r \in Nat /\ rd_data_o \in Nat
        /\ mem \in [Addr -> Nat]
    BY DEF Inv, WrInv, RdInv, MemInv
  <2>2. \A x \in Nat : Ptr(x) \in Addr /\ Code(x) \in {gray_conv(a) : a \in Addr}
    BY PtrNext DEF Code
  <2>3. wr_addr \in Addr /\ rd_addr \in Addr
    BY <2>1, <2>2 DEF Inv, WrInv, RdInv
  <2>4. {wr_addr_gray, rd_addr_gray, rd_addr_gray_wr, rd_addr_gray_wr_r,
         wr_addr_gray_rd, wr_addr_gray_rd_r} \subseteq {gray_conv(a) : a \in Addr}
    <3> DEFINE C == {gray_conv(a) : a \in Addr}
    <3>1. \A x \in Nat : Code(x) \in C
      BY <2>2
    <3> HIDE DEF C
    <3>2. wr_addr_gray \in C /\ rd_addr_gray_wr \in C /\ rd_addr_gray_wr_r \in C
      BY <2>1, <3>1 DEF Inv, WrInv
    <3>3. rd_addr_gray \in C /\ wr_addr_gray_rd \in C /\ wr_addr_gray_rd_r \in C
      BY <2>1, <3>1 DEF Inv, RdInv
    <3> QED
      BY <3>2, <3>3 DEF C
  <2>5. /\ wr_rst \in BOOLEAN /\ rd_rst \in BOOLEAN
        /\ full_o \in BOOLEAN /\ empty_o \in BOOLEAN
    BY Zenon DEF Inv, WrInv, RdInv
  <2> QED
    BY <2>1, <2>3, <2>4, <2>5, Zenon DEF TypeOK
<1> QED
  BY <1>1, AlwaysInv, PTL

(* The invariant bounds what the flags admit. *)
LEMMA InvFlags == Inv => FlagsSafe
  BY FifoFacts DEF Inv, WrInv, RdInv, NoneNewer, FlagsSafe

(* The flags err on the safe side only, for every width and however far    *)
(* the two clocks are apart.                                               *)
THEOREM FifoFlagsSafe == Spec => []FlagsSafe
  BY AlwaysInv, InvFlags, PTL

(* The FIFO implements the queue: every word that goes in comes out, once  *)
(* and in order.                                                           *)
THEOREM FifoIsQueue == Spec => QueueImplemented
<1>1. Init => Q!QueueInit
  BY DEF Init, Q!QueueInit
<1>2. ASSUME Inv, [Next]_vars PROVE [Q!QueueNext]_(Q!queueVars)
  <2>0. /\ written \in Nat /\ taken \in Nat /\ wr_at \in Nat /\ rd_at \in Nat
        /\ rd_at <= taken /\ wr_at <= written /\ Depth \in Nat
        /\ rd_addr_gray = Code(taken) /\ wr_addr_gray = Code(written)
    BY <1>2, FifoFacts DEF Inv, WrInv, RdInv, NoneNewer
  <2>1. ASSUME NEW en \in BOOLEAN, wr_en(en) PROVE en => written - taken < Depth - 1
    BY <1>2, <2>1, InvFlags DEF wr_en, FlagsSafe
  <2>2. ASSUME NEW en \in BOOLEAN, WrClock(en) PROVE [Q!QueueNext]_(Q!queueVars)
    <3>1. wr_en(en) /\ taken' = taken /\ rd_data_o' = rd_data_o
           /\ written' = IF en THEN written + 1 ELSE written
      BY <2>2 DEF WrClock, WrEdge, rdVars
    <3> QED
      BY <2>1, <3>1 DEF Q!QueueNext, Q!queueVars, Q!PutOne
  <2>3. ASSUME NEW en \in BOOLEAN, RdClock(en) PROVE [Q!QueueNext]_(Q!queueVars)
    <3>1. rd_en(en) /\ RdEdge(en, wr_addr_gray, written) /\ written' = written
      BY <2>3 DEF RdClock, wrVars
    <3>2. /\ taken' = IF en THEN taken + 1 ELSE taken
          /\ en => taken < written /\ rd_data_o' = taken'
          /\ ~en => rd_data_o' = rd_data_o
      BY <1>2, <2>0, <3>1, RdStep
    <3> QED
      BY <3>1, <3>2 DEF Q!QueueNext, Q!queueVars, Q!GetOne
  <2>4. ASSUME NEW we \in BOOLEAN, NEW re \in BOOLEAN, BothClocks(we, re)
        PROVE [Q!QueueNext]_(Q!queueVars)
    <3>1. wr_en(we) /\ rd_en(re) /\ written' = IF we THEN written + 1 ELSE written
      BY <2>4 DEF BothClocks, WrEdge
    <3>2. PICK h \in Mixed(wr_addr_gray, wr_gray_next(we)) :
            RdEdge(re, h, IF we /\ h = wr_gray_next(we) THEN written + 1 ELSE written)
      BY <2>4 DEF BothClocks
    <3> DEFINE m == IF we /\ h = wr_gray_next(we) THEN written + 1 ELSE written
    <3>3. m \in Nat /\ h = Code(m) /\ written <= m
      BY <1>2, <3>1, WrSampled
    <3>4. RdEdge(re, h, m)
      BY <3>2
    <3> HIDE DEF m
    <3>5. wr_at <= m
      BY <2>0, <3>3
    <3>6. /\ taken' = IF re THEN taken + 1 ELSE taken
          /\ re => taken < written /\ rd_data_o' = taken'
          /\ ~re => rd_data_o' = rd_data_o
      BY <1>2, <3>1, <3>3, <3>4, <3>5, RdStep
    <3>7. we => written - taken < Depth - 1
      BY <2>1, <3>1
    <3> QED
      BY <3>1, <3>6, <3>7 DEF Q!QueueNext, Q!queueVars, Q!PutOne, Q!GetOne
  <2>5. CASE WrReset
    BY <2>5 DEF WrReset, rdVars, Q!queueVars
  <2>6. CASE RdReset
    BY <2>6 DEF RdReset, wrVars, Q!queueVars
  <2>7. CASE UNCHANGED vars
    BY <2>7 DEF vars, wrVars, rdVars, Q!queueVars
  <2> QED
    BY <1>2, <2>2, <2>3, <2>4, <2>5, <2>6, <2>7 DEF Next
<1> QED
  BY <1>1, <1>2, AlwaysInv, PTL DEF Spec, QueueImplemented, Q!QueueSpec

=============================================================================
