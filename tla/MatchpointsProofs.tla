-------------------------- MODULE MatchpointsProofs --------------------------
(***************************************************************************)
(* Hardware breakpoints work as Breakpoints says for every number of       *)
(* pairs, every set of pairs that the processor has, and whatever the      *)
(* client asks for.                                                        *)
(*                                                                         *)
(* The inductive invariant Inv says that a copy that is not valid still    *)
(* agrees with the processor in all that the stub itself writes, which is  *)
(* why it may be edited and written back without being fetched, and that   *)
(* the pairs are tidy: those in use are pairs the processor has and        *)
(* compare fetches, the others hold no address.  An index that has left    *)
(* the arrays, and a garbled register, end both, and the promise.          *)
(***************************************************************************)
EXTENDS Matchpoints, WellFoundedInduction, TLAPS

-----------------------------------------------------------------------------
(* The first pair of a set.                                                *)

(* The pairs are natural numbers. *)
LEMMA PairsFacts ==
    /\ Pairs \subseteq Nat /\ -1 \notin Pairs /\ Present \subseteq Pairs
    /\ LastPair \in Pairs
<1>1. NPairs \in Nat \ {0} /\ Present \subseteq Pairs
  BY MatchpointsAssumption
<1>2. Pairs \subseteq Nat /\ -1 \notin Pairs /\ LastPair \in Pairs
  BY <1>1 DEF Pairs, LastPair
<1> QED
  BY <1>1, <1>2

(* A set of natural numbers that is not empty has a least element. *)
LEMMA Least ==
    ASSUME NEW S \in SUBSET Nat, S # {}
    PROVE  \E i \in S : \A j \in S : i <= j
<1> DEFINE R == OpToRel(<, Nat)
<1>1. IsWellFoundedOn(R, Nat)
  BY NatLessThanWellFounded
<1>2. \A x, y \in Nat : y < x => <<y, x>> \in R
  BY DEF OpToRel
<1> HIDE DEF R
<1>3. PICK i \in S : \A j \in S : ~(<<j, i>> \in R)
  BY <1>1, WFMin
<1>4. \A j \in S : ~(j < i)
  BY <1>2, <1>3
<1> QED
  BY <1>4

(* FirstPair finds a pair if there is one. *)
LEMMA FirstPairFound ==
    ASSUME NEW S \in SUBSET Pairs
    PROVE  /\ S # {} => FirstPair(S) \in S
           /\ S = {} => FirstPair(S) = -1
  BY Least, PairsFacts DEF FirstPair

-----------------------------------------------------------------------------
(* Registers.                                                              *)

Edit(r, d, c, t, w) == [r EXCEPT !.dvr = d, !.cc = c, !.ct = t, !.wgb = w]

(* Registers with other breakpoints in them are registers. *)
LEMMA Edited ==
    ASSUME NEW r \in Registers, NEW d \in [Pairs -> Nat],
           NEW c \in [Pairs -> {MASKED, EQ}], NEW t \in [Pairs -> {DISABLED, FETCH}],
           NEW w \in SUBSET Pairs
    PROVE  Edit(r, d, c, t, w) \in Registers
<1> DEFINE D == [Pairs -> Nat]
           C == [Pairs -> {MASKED, EQ}]
           T == [Pairs -> {DISABLED, FETCH}]
           W == SUBSET Pairs
<1>1. Registers = [dvr : D, dp : W, cc : C, ct : T, st : BOOLEAN, wgb : W,
                   dcwr0 : Nat, te : BOOLEAN, drr : {"none", "TE"}]
  BY DEF Registers
<1>2. d \in D /\ c \in C /\ t \in T /\ w \in W
  OBVIOUS
<1> HIDE DEF D, C, T, W
<1> QED
  BY <1>1, <1>2 DEF Edit

(* The copy that a resumption writes back. *)
Ready(r, s, w) == [r EXCEPT !.drr = "none", !.st = s, !.te = TRUE, !.wgb = w]

(* It differs in nothing but what is set for the resumption. *)
LEMMA Resumed ==
    ASSUME NEW r \in Registers, NEW s \in BOOLEAN, NEW w \in SUBSET Pairs, NEW q,
           q = Ready(r, s, w)
    PROVE  /\ q \in Registers
           /\ q.dvr = r.dvr /\ q.cc = r.cc /\ q.ct = r.ct /\ q.dp = r.dp
           /\ q.wgb = w /\ q.dcwr0 = r.dcwr0
<1> DEFINE D == [Pairs -> Nat]
           C == [Pairs -> {MASKED, EQ}]
           T == [Pairs -> {DISABLED, FETCH}]
           W == SUBSET Pairs
           R == {"none", "TE"}
           L == BOOLEAN
<1>1. Registers = [dvr : D, dp : W, cc : C, ct : T, st : L, wgb : W,
                   dcwr0 : Nat, te : L, drr : R]
  BY DEF Registers
<1>2. s \in L /\ TRUE \in L /\ w \in W /\ "none" \in R
  OBVIOUS
<1> HIDE DEF D, C, T, W, R, L
<1> QED
  BY <1>1, <1>2 DEF Ready

(* A write of DCWR0, and a stop, leave registers. *)
LEMMA Touched ==
    ASSUME NEW r \in Registers, NEW v \in Nat
    PROVE  /\ [r EXCEPT !.dcwr0 = v] \in Registers
           /\ [r EXCEPT !.drr = "TE"] \in Registers
<1> DEFINE D == [Pairs -> Nat]
           C == [Pairs -> {MASKED, EQ}]
           T == [Pairs -> {DISABLED, FETCH}]
           W == SUBSET Pairs
           R == {"none", "TE"}
           L == BOOLEAN
<1>1. Registers = [dvr : D, dp : W, cc : C, ct : T, st : L, wgb : W,
                   dcwr0 : Nat, te : L, drr : R]
  BY DEF Registers
<1>2. "TE" \in R
  OBVIOUS
<1> HIDE DEF D, C, T, W, R, L
<1> QED
  BY <1>1, <1>2

(* Registers that are all zero are registers. *)
LEMMA ZeroedOK ==
    /\ Zeroed \in Registers
    /\ [Zeroed EXCEPT !.dp = Present] \in Registers
<1> DEFINE D == [Pairs -> Nat]
           C == [Pairs -> {MASKED, EQ}]
           T == [Pairs -> {DISABLED, FETCH}]
           W == SUBSET Pairs
           R == {"none", "TE"}
           L == BOOLEAN
           d == [i \in Pairs |-> 0]
           c == [i \in Pairs |-> MASKED]
           t == [i \in Pairs |-> DISABLED]
<1>1. Registers = [dvr : D, dp : W, cc : C, ct : T, st : L, wgb : W,
                   dcwr0 : Nat, te : L, drr : R]
  BY DEF Registers
<1>2. /\ d \in D /\ c \in C /\ t \in T /\ {} \in W /\ Present \in W
      /\ FALSE \in L /\ "none" \in R /\ 0 \in Nat
  BY MatchpointsAssumption
<1>3. Zeroed = [dvr |-> d, dp |-> {}, cc |-> c, ct |-> t, st |-> FALSE,
                wgb |-> {}, dcwr0 |-> 0, te |-> FALSE, drr |-> "none"]
  BY Zenon DEF Zeroed
<1> HIDE DEF D, C, T, W, R, L, d, c, t
<1> QED
  BY <1>1, <1>2, <1>3
-----------------------------------------------------------------------------
(* What is written to the processor.                                       *)

(* Two sets of registers that differ at most in what the processor writes. *)
Same(r, q) ==
    /\ r.dvr = q.dvr /\ r.cc = q.cc /\ r.ct = q.ct /\ r.st = q.st
    /\ r.wgb = q.wgb /\ r.dcwr0 = q.dcwr0 /\ r.te = q.te

(* The shift's words are words, and without top bits the same words. *)
LEMMA Shifted ==
    ASSUME NEW w \in Nat, NEW b \in Nat
    PROVE  /\ Low(w) \in Nat /\ After(w, b) \in Nat
           /\ w < Half => Low(w) = w
           /\ w < Half /\ b < Half => After(w, b) = w
<1>1. Half \in Nat
  BY MatchpointsAssumption
<1> QED
  BY <1>1 DEF Low, After

(* The registers after a write: only a DVR or DCWR0 is not as written, and *)
(* that only if one of them has its top bit set. *)
LEMMA Written ==
    ASSUME NEW c \in Registers, hw \in Registers, NEW q, q = put_debug_registers(c)
    PROVE  /\ q \in Registers /\ q.dp = hw.dp
           /\ q.dvr = c.dvr /\ q.dcwr0 = c.dcwr0 => Same(c, q)
           /\ (\A i \in Pairs : c.dvr[i] < Half) /\ c.dcwr0 < Half
                  => q.dvr = c.dvr /\ q.dcwr0 = c.dcwr0
<1>1. c.dvr \in [Pairs -> Nat] /\ c.dcwr0 \in Nat
  BY DEF Registers
<1>2. PICK d : d = [i \in Pairs |-> IF i = 0 THEN c.dvr[i]
                                    ELSE After(c.dvr[i], c.dvr[i - 1])]
  OBVIOUS
<1>3. PICK v : v = Low(c.dcwr0)
  OBVIOUS
<1>4. \A i \in Pairs : i # 0 => i - 1 \in Pairs
  BY MatchpointsAssumption DEF Pairs
<1>5. \A i \in Pairs : i # 0 =>
          /\ After(c.dvr[i], c.dvr[i - 1]) \in Nat
          /\ c.dvr[i] < Half /\ c.dvr[i - 1] < Half
                => After(c.dvr[i], c.dvr[i - 1]) = c.dvr[i]
  BY <1>1, <1>4, Shifted
<1>6. d \in [Pairs -> Nat]
  BY <1>1, <1>2, <1>5
<1>7. v \in Nat /\ (c.dcwr0 < Half => v = c.dcwr0)
  BY <1>1, <1>3, Shifted
<1>8. (\A i \in Pairs : c.dvr[i] < Half) => d = c.dvr
  <2> SUFFICES ASSUME \A i \in Pairs : c.dvr[i] < Half PROVE d = c.dvr
    OBVIOUS
  <2>1. \A i \in Pairs : d[i] = c.dvr[i]
    BY <1>2, <1>4, <1>5
  <2> QED
    BY <1>1, <1>6, <2>1
<1>9. q = [c EXCEPT !.dp = hw.dp, !.dcwr0 = v, !.dvr = d]
  BY <1>2, <1>3 DEF put_debug_registers
<1>10. /\ q.dvr = d /\ q.dcwr0 = v /\ q.dp = hw.dp /\ q.cc = c.cc /\ q.ct = c.ct
       /\ q.st = c.st /\ q.wgb = c.wgb /\ q.te = c.te
  BY <1>9 DEF Registers
<1>11. q \in Registers
  <2> DEFINE D == [Pairs -> Nat]
             C == [Pairs -> {MASKED, EQ}]
             T == [Pairs -> {DISABLED, FETCH}]
             W == SUBSET Pairs
             R == {"none", "TE"}
             L == BOOLEAN
             N == Nat
  <2>1. Registers = [dvr : D, dp : W, cc : C, ct : T, st : L, wgb : W,
                     dcwr0 : N, te : L, drr : R]
    BY DEF Registers
  <2>2. d \in D /\ v \in N
    BY <1>6, <1>7
  <2> HIDE DEF D, C, T, W, R, L, N
  <2> QED
    BY <1>9, <2>1, <2>2
<1> QED
  BY <1>7, <1>8, <1>10, <1>11 DEF Same

-----------------------------------------------------------------------------
(* The pairs and the slots.                                                *)

Used(r) == {i \in Pairs : r.cc[i] = EQ}

(* A pair that is in use is one the processor has and compares fetches; a  *)
(* pair that is not in use holds no address. *)
Tidy(r) ==
    /\ Used(r) \subseteq Present
    /\ \A i \in Used(r) : r.ct[i] = FETCH
    /\ \A i \in Pairs : r.cc[i] = MASKED => r.dvr[i] = 0

(* Registers with the same pairs have the same slots. *)
LEMMA SlotsSame ==
    ASSUME NEW r, NEW q, Same(r, q), q.dp = r.dp
    PROVE  /\ HeldIn(q) = HeldIn(r) /\ Awake(q) = Awake(r)
           /\ ArmedIn(q) = ArmedIn(r) /\ q.dcwr0 = r.dcwr0
<1>1. Awake(q) = Awake(r)
  BY DEF Awake, Same
<1> QED
  BY <1>1 DEF HeldIn, ArmedIn, Same

(* They are tidy together. *)
LEMMA TidySame ==
    ASSUME NEW r, NEW q, Same(r, q), Tidy(r)
    PROVE  Tidy(q)
<1>1. Used(q) = Used(r)
  BY DEF Same, Used
<1> QED
  BY <1>1 DEF Same, Tidy

(* A slot is free if its pair is; the address in it is that of the pair. *)
LEMMA SlotFacts ==
    ASSUME NEW r \in Registers, NEW i \in Present
    PROVE  /\ r.cc[i] = MASKED => HeldIn(r)[i] = -1
           /\ r.cc[i] = EQ => HeldIn(r)[i] = r.dvr[i]
           /\ r.cc[i] = MASKED \/ r.cc[i] = EQ
           /\ r.dvr[i] \in Nat
<1>1. i \in Pairs
  BY PairsFacts
<1>2. r.cc \in [Pairs -> {MASKED, EQ}] /\ r.dvr \in [Pairs -> Nat]
  BY DEF Registers
<1> QED
  BY <1>1, <1>2 DEF HeldIn, MASKED, EQ

(* 'Z1' with a free pair n takes the slot n. *)
LEMMA Inserted ==
    ASSUME NEW r \in Registers, r.dp = Present, NEW a \in Nat,
           NEW n \in Present, r.cc[n] = MASKED,
           NEW q, q = enable_hw_breakpoint(insert_hw_watchpoint(r, n, a), n)
    PROVE  /\ q \in Registers /\ q.dp = Present /\ q.dcwr0 = r.dcwr0
           /\ HeldIn(q) = [HeldIn(r) EXCEPT ![n] = a]
           /\ Awake(q) = Awake(r) \cup {n}
           /\ Tidy(r) => Tidy(q)
<1>1. n \in Pairs /\ n # -1
  BY PairsFacts
<1>3. q = [r EXCEPT !.dvr = [r.dvr EXCEPT ![n] = a], !.cc = [r.cc EXCEPT ![n] = EQ],
                    !.ct = [r.ct EXCEPT ![n] = FETCH], !.wgb = r.wgb \cup {n}]
  BY <1>1 DEF enable_hw_breakpoint, insert_hw_watchpoint, Registers
<1>4. /\ q.dvr = [r.dvr EXCEPT ![n] = a] /\ q.cc = [r.cc EXCEPT ![n] = EQ]
      /\ q.ct = [r.ct EXCEPT ![n] = FETCH] /\ q.wgb = r.wgb \cup {n}
      /\ q.dp = r.dp /\ q.dcwr0 = r.dcwr0
  BY <1>3 DEF Registers
<1>5. q \in Registers
  <2>1. /\ r.dvr \in [Pairs -> Nat] /\ r.cc \in [Pairs -> {MASKED, EQ}]
        /\ r.ct \in [Pairs -> {DISABLED, FETCH}] /\ r.wgb \in SUBSET Pairs
    BY DEF Registers
  <2> DEFINE d == [r.dvr EXCEPT ![n] = a]
             c == [r.cc EXCEPT ![n] = EQ]
             t == [r.ct EXCEPT ![n] = FETCH]
             w == r.wgb \cup {n}
  <2>2. /\ d \in [Pairs -> Nat] /\ c \in [Pairs -> {MASKED, EQ}]
        /\ t \in [Pairs -> {DISABLED, FETCH}] /\ w \in SUBSET Pairs
    BY <1>1, <2>1
  <2>3. q = Edit(r, d, c, t, w)
    BY <1>3 DEF Edit
  <2> HIDE DEF d, c, t, w
  <2>4. Edit(r, d, c, t, w) \in Registers
    BY <2>2, Edited
  <2> QED
    BY <2>3, <2>4
<1>6. /\ r.dvr \in [Pairs -> Nat] /\ r.cc \in [Pairs -> {MASKED, EQ}]
      /\ r.ct \in [Pairs -> {DISABLED, FETCH}]
  BY DEF Registers
<1>7. Used(q) = Used(r) \cup {n} /\ n \notin Used(r)
  BY <1>1, <1>4, <1>6 DEF Used, EQ, MASKED
<1>8. \A i \in Pairs : i # n =>
         q.dvr[i] = r.dvr[i] /\ q.ct[i] = r.ct[i] /\ q.cc[i] = r.cc[i]
  BY <1>1, <1>4, <1>6
<1>9. q.dvr[n] = a /\ q.ct[n] = FETCH /\ q.cc[n] = EQ
  BY <1>1, <1>4, <1>6
<1>10. HeldIn(q) = [HeldIn(r) EXCEPT ![n] = a]
  BY <1>8, <1>9, PairsFacts DEF HeldIn
<1>11. Awake(q) = Awake(r) \cup {n}
  BY <1>4, <1>8, <1>9, PairsFacts DEF Awake
<1>12. Tidy(r) => Tidy(q)
  <2> SUFFICES ASSUME Tidy(r) PROVE Tidy(q)
    OBVIOUS
  <2>1. Used(q) \subseteq Present
    BY <1>7 DEF Tidy
  <2>2. \A i \in Used(q) : q.ct[i] = FETCH
    BY <1>7, <1>8, <1>9 DEF Tidy, Used
  <2>3. \A i \in Pairs : q.cc[i] = MASKED => q.dvr[i] = 0
    BY <1>8, <1>9 DEF Tidy, MASKED, EQ
  <2> QED
    BY <2>1, <2>2, <2>3 DEF Tidy
<1> QED
  BY <1>4, <1>5, <1>10, <1>11, <1>12

(* 'z1' of an address that is in the pair n frees the slot n. *)
LEMMA Removed ==
    ASSUME NEW r \in Registers, r.dp = Present, NEW n \in Pairs, r.cc[n] = EQ, NEW q,
           q = disable_hw_breakpoint(
                   remove_hw_watchpoint(remove_hw_watchpoint(r, n), n), n)
    PROVE  /\ q \in Registers /\ q.dp = Present /\ q.dcwr0 = r.dcwr0
           /\ n \in Present => HeldIn(q) = [HeldIn(r) EXCEPT ![n] = -1]
           /\ Awake(q) = Awake(r) \ {n}
           /\ Tidy(r) => Tidy(q)
<1>1. n # -1
  BY PairsFacts
<1>3. q = [r EXCEPT !.dvr = [r.dvr EXCEPT ![n] = 0],
                    !.cc = [r.cc EXCEPT ![n] = MASKED], !.wgb = r.wgb \ {n}]
  <2> DEFINE d == [r EXCEPT !.dvr = [r.dvr EXCEPT ![n] = 0],
                            !.cc = [r.cc EXCEPT ![n] = MASKED], !.wgb = r.wgb \ {n}]
  <2>1. remove_hw_watchpoint(r, n) = d
    BY <1>1 DEF remove_hw_watchpoint, disable_hw_breakpoint, Registers
  <2>2. remove_hw_watchpoint(d, n) = d
    BY <1>1 DEF remove_hw_watchpoint, disable_hw_breakpoint, Registers
  <2>3. disable_hw_breakpoint(d, n) = d
    BY <1>1 DEF disable_hw_breakpoint, Registers
  <2> QED
    BY <2>1, <2>2, <2>3
<1>4. /\ q.dvr = [r.dvr EXCEPT ![n] = 0] /\ q.cc = [r.cc EXCEPT ![n] = MASKED]
      /\ q.ct = r.ct /\ q.wgb = r.wgb \ {n}
      /\ q.dp = r.dp /\ q.dcwr0 = r.dcwr0
  BY <1>3 DEF Registers
<1>5. q \in Registers
  <2>1. /\ r.dvr \in [Pairs -> Nat] /\ r.cc \in [Pairs -> {MASKED, EQ}]
        /\ r.ct \in [Pairs -> {DISABLED, FETCH}] /\ r.wgb \in SUBSET Pairs
    BY DEF Registers
  <2> DEFINE d == [r.dvr EXCEPT ![n] = 0]
             c == [r.cc EXCEPT ![n] = MASKED]
             t == r.ct
             w == r.wgb \ {n}
  <2>2. /\ d \in [Pairs -> Nat] /\ c \in [Pairs -> {MASKED, EQ}]
        /\ t \in [Pairs -> {DISABLED, FETCH}] /\ w \in SUBSET Pairs
    BY <1>1, <2>1
  <2>3. q = Edit(r, d, c, t, w)
    BY <1>3 DEF Edit, Registers
  <2> HIDE DEF d, c, t, w
  <2>4. Edit(r, d, c, t, w) \in Registers
    BY <2>2, Edited
  <2> QED
    BY <2>3, <2>4
<1>6. r.dvr \in [Pairs -> Nat] /\ r.cc \in [Pairs -> {MASKED, EQ}]
  BY DEF Registers
<1>7. Used(q) = Used(r) \ {n}
  BY <1>1, <1>4, <1>6 DEF Used, EQ, MASKED
<1>8. \A i \in Pairs : i # n => q.dvr[i] = r.dvr[i] /\ q.cc[i] = r.cc[i]
  BY <1>4, <1>6
<1>9. q.dvr[n] = 0 /\ q.cc[n] = MASKED /\ q.ct = r.ct
  BY <1>4, <1>6
<1>10. n \in Present => HeldIn(q) = [HeldIn(r) EXCEPT ![n] = -1]
  <2>1. PICK h : h = -1
    OBVIOUS
  <2>2. \A i \in Present : i # n => q.dvr[i] = r.dvr[i] /\ q.cc[i] = r.cc[i]
    BY <1>8, PairsFacts
  <2>3. q.cc[n] # EQ
    BY <1>9 DEF EQ, MASKED
  <2> QED
    BY <2>1, <2>2, <2>3 DEF HeldIn
<1>11. Awake(q) = Awake(r) \ {n}
  BY <1>4, <1>8, <1>9, PairsFacts DEF Awake, EQ, MASKED
<1>12. Tidy(r) => Tidy(q)
  BY <1>7, <1>8, <1>9 DEF Tidy
<1> QED
  BY <1>4, <1>5, <1>10, <1>11, <1>12

(* With no such pair the last DVR is changed, to a word. *)
LEMMA Strayed ==
    ASSUME NEW r \in Registers, NEW a, NEW q,
           \/ q = enable_hw_breakpoint(insert_hw_watchpoint(r, -1, a), -1)
           \/ q = remove_hw_watchpoint(r, -1)
    PROVE  q \in Registers /\ q.dp = r.dp
<1>1. /\ r.dvr \in [Pairs -> Nat] /\ r.cc \in [Pairs -> {MASKED, EQ}]
      /\ r.ct \in [Pairs -> {DISABLED, FETCH}] /\ r.wgb \in SUBSET Pairs
  BY DEF Registers
<1>2. \A w, cc, ct \in Nat : AsDcr(w, cc, ct) \in Nat /\ CtOf(w) \in Nat
  BY DEF AsDcr, CtOf
<1>3. PICK w : w = r.dvr[LastPair]
  OBVIOUS
<1>4. w \in Nat
  BY <1>1, <1>3, PairsFacts
<1>5. PICK x : /\ x \in Nat
               /\ q = [r EXCEPT !.dvr = [r.dvr EXCEPT ![LastPair] = x]]
  <2>1. EQ \in Nat /\ FETCH \in Nat /\ MASKED \in Nat
    BY DEF EQ, FETCH, MASKED
  <2>2. AsDcr(w, EQ, FETCH) \in Nat /\ AsDcr(w, MASKED, CtOf(w)) \in Nat
    BY <1>2, <1>4, <2>1
  <2>3. \/ q = [r EXCEPT !.dvr = [r.dvr EXCEPT ![LastPair] = AsDcr(w, EQ, FETCH)]]
        \/ q = [r EXCEPT !.dvr = [r.dvr EXCEPT ![LastPair] = AsDcr(w, MASKED, CtOf(w))]]
    BY <1>3 DEF enable_hw_breakpoint, insert_hw_watchpoint, remove_hw_watchpoint, Registers
  <2> QED
    BY <2>2, <2>3
<1> DEFINE d == [r.dvr EXCEPT ![LastPair] = x]
<1>6. d \in [Pairs -> Nat]
  BY <1>1, <1>5, PairsFacts
<1>7. q = Edit(r, d, r.cc, r.ct, r.wgb)
  BY <1>5 DEF Edit, Registers
<1> HIDE DEF d
<1>8. Edit(r, d, r.cc, r.ct, r.wgb) \in Registers
  BY <1>1, <1>6, Edited
<1>9. q.dp = r.dp
  BY <1>7 DEF Edit, Registers
<1> QED
  BY <1>7, <1>8, <1>9

-----------------------------------------------------------------------------
(* The inductive invariant.                                                *)

CopyInv ==
    /\ hw.dp = Present
    /\ dirty # -1 => copy.dp = Present
    /\ dirty = -1 /\ ~garbled => Same(copy, hw)
    /\ waiting => dirty = -1

PairsInv == ~stray /\ ~garbled => Tidy(copy)

Inv == TypeOK /\ CopyInv /\ PairsInv

(* What get_debug_registers leaves in the copy. *)
LEMMA Fetched ==
    ASSUME Inv, NEW c, c = get_debug_registers
    PROVE  /\ c \in Registers /\ c.dp = Present
           /\ ~garbled => Same(copy, c)
           /\ ~stray /\ ~garbled => Tidy(c)
<1>1. CASE dirty = -1
  <2>1. c = hw
    BY <1>1 DEF get_debug_registers
  <2>2. c \in Registers /\ c.dp = Present
    BY <2>1 DEF Inv, TypeOK, CopyInv
  <2>3. ~garbled => Same(copy, c)
    BY <1>1, <2>1 DEF Inv, CopyInv
  <2> QED
    BY <2>2, <2>3, TidySame DEF Inv, PairsInv
<1>2. CASE dirty # -1
  <2>1. c = copy
    BY <1>2 DEF get_debug_registers
  <2> QED
    BY <1>2, <2>1 DEF Inv, TypeOK, CopyInv, PairsInv, Same
<1> QED
  BY <1>1, <1>2

(* A request is remembered as one. *)
LEMMA AsksOK ==
    ASSUME TypeOK, NEW x \in Nat,
           NEW op \in {"Z1", "z1", "readspr", "writespr", "writebeyond", "c", "s"},
           Asks(op, x)
    PROVE  asked' \in [op : {"none", "Z1", "z1", "readspr", "writespr",
                             "writebeyond", "c", "s"}, x : Nat, odd : BOOLEAN]
<1>1. (~asked.odd) \in BOOLEAN
  OBVIOUS
<1> QED
  BY <1>1 DEF Asks

(* The copy is zero, and so is the processor. *)
LEMMA InitInv == Init => Inv
<1> SUFFICES ASSUME Init PROVE Inv
  OBVIOUS
<1>1. TypeOK
  BY ZeroedOK DEF Init, TypeOK
<1>2. CopyInv
  BY DEF Init, CopyInv, Same, Zeroed
<1>3. Used(copy) = {} /\ \A i \in Pairs : copy.dvr[i] = 0
  BY DEF Init, Used, Zeroed, EQ, MASKED
<1>4. PairsInv
  BY <1>3 DEF PairsInv, Tidy
<1> QED
  BY <1>1, <1>2, <1>4 DEF Inv

(* A copy that is clean or dirty is valid. *)
LEMMA Valid == \A d \in {0, 1} : d # -1
  OBVIOUS

(* What a request leaves alone, and an invariant that a copy which is      *)
(* fetched and edited keeps. *)
LEMMA EditInv ==
    ASSUME Inv, ~waiting, UNCHANGED <<waiting, garbled, hw, cpu>>,
           stray' \in BOOLEAN, stray => stray',
           copy' \in Registers, copy'.dp = Present, dirty' \in {0, 1},
           ~stray' /\ ~garbled => Tidy(copy'),
           answers' \in {<<>>, <<"OK">>, <<"E01">>, <<"value">>, <<"", "OK">>},
           NEW x \in Nat,
           NEW op \in {"Z1", "z1", "readspr", "writespr", "writebeyond", "c", "s"},
           Asks(op, x)
    PROVE  Inv'
<1>1. asked' \in [op : {"none", "Z1", "z1", "readspr", "writespr",
                        "writebeyond", "c", "s"}, x : Nat, odd : BOOLEAN]
  BY AsksOK DEF Inv
<1>2. answers' \in {<<>>} \cup {<<y>> : y \in {"OK", "E01", "value"}} \cup {<<"", "OK">>}
  OBVIOUS
<1>3. TypeOK'
  BY <1>1, <1>2 DEF TypeOK, Inv
<1>4. dirty' # -1 /\ ~waiting'
  <2>1. dirty' # -1
    BY Valid
  <2>2. ~waiting'
    OBVIOUS
  <2> QED
    BY <2>1, <2>2
<1>5. CopyInv'
  BY <1>4 DEF CopyInv, Inv
<1>6. PairsInv'
  BY DEF PairsInv
<1> QED
  BY <1>3, <1>5, <1>6 DEF Inv

(* The pair 'Z1' finds. *)
LEMMA FreePair ==
    ASSUME NEW c \in Registers, c.dp = Present, NEW n, n = find_free_dcrdvr_pair(c)
    PROVE  /\ n # -1 => n \in Present /\ c.cc[n] = MASKED
           /\ n = -1 => \A i \in Present : c.cc[i] # MASKED
<1> DEFINE F == {i \in c.dp : c.cc[i] = MASKED}
<1>1. F \in SUBSET Pairs
  BY PairsFacts
<1>2. (F # {} => n \in F) /\ (F = {} => n = -1)
  BY <1>1, FirstPairFound DEF find_free_dcrdvr_pair
<1>3. -1 \notin F
  BY <1>1, PairsFacts
<1> QED
  BY <1>2, <1>3

(* The pair 'z1' finds. *)
LEMMA MatchingPair ==
    ASSUME NEW c \in Registers, NEW a, NEW n, n = find_matching_dcrdvr_pair(c, a)
    PROVE  /\ n # -1 => n \in Pairs /\ c.cc[n] = EQ /\ c.dvr[n] = a /\ ~(n < 0)
           /\ n = -1 => \A i \in Pairs : c.cc[i] = EQ => c.dvr[i] # a
<1> DEFINE F == {i \in Pairs : c.dvr[i] = a /\ c.cc[i] = EQ}
<1>1. F \in SUBSET Pairs
  OBVIOUS
<1>2. (F # {} => n \in F) /\ (F = {} => n = -1)
  BY <1>1, FirstPairFound DEF find_matching_dcrdvr_pair
<1>3. -1 \notin F /\ (n \in F => n \in Nat)
  BY <1>1, PairsFacts
<1>4. n \in Nat => ~(n < 0)
  OBVIOUS
<1> QED
  BY <1>2, <1>3, <1>4

(* After a request the copy is the view of the registers. *)
LEMMA Viewed ==
    ASSUME dirty' \in {0, 1}
    PROVE  get_debug_registers' = copy'
  BY DEF get_debug_registers

(* 'Z1' takes a slot that is free; if none is, the promise ends. *)
LEMMA Z1Facts ==
    ASSUME Inv, NEW a \in Adr, Z1(a)
    PROVE  /\ Inv'
           /\ ~stray /\ ~garbled => B!SetOne(a) \/ B!Lose
<1>1. PICK c : c = get_debug_registers
  OBVIOUS
<1>2. PICK n : n = find_free_dcrdvr_pair(c)
  OBVIOUS
<1>3. /\ c \in Registers /\ c.dp = Present
      /\ ~stray /\ ~garbled => Tidy(c)
  BY <1>1, Fetched
<1>4. /\ copy' = enable_hw_breakpoint(insert_hw_watchpoint(c, n, a), n)
      /\ dirty' = 1 /\ stray' = (stray \/ n = -1)
      /\ answers' = IF n = -1 THEN <<"", "OK">> ELSE <<"OK">>
      /\ ~waiting /\ cpu = "stalled" /\ Asks("Z1", a)
      /\ UNCHANGED <<waiting, garbled, hw, cpu>>
  BY <1>1, <1>2 DEF Z1, Insert, Serving, target
<1>5. a \in Nat
  BY MatchpointsAssumption
<1>6. /\ n # -1 => n \in Present /\ c.cc[n] = MASKED
      /\ n = -1 => \A i \in Present : c.cc[i] # MASKED
  BY <1>2, <1>3, FreePair
<1>7. get_debug_registers' = copy'
  BY <1>4, Viewed
<1>8. CASE n = -1
  <2>1. copy' \in Registers /\ copy'.dp = Present
    BY <1>3, <1>4, <1>8, Strayed
  <2>2. Inv'
    BY <1>4, <1>5, <1>8, <2>1, EditInv
  <2>3. \A i \in Present : HeldIn(c)[i] # -1
    BY <1>3, <1>6, <1>8, SlotFacts
  <2>4. B!Lose
    BY <1>1, <1>4, <1>8, <2>3 DEF B!Lose, B!Asked, B!None, Asks
  <2> QED
    BY <2>2, <2>4
<1>9. CASE n # -1
  <2>1. n \in Present /\ c.cc[n] = MASKED
    BY <1>6, <1>9
  <2>2. /\ copy' \in Registers /\ copy'.dp = Present /\ copy'.dcwr0 = c.dcwr0
        /\ HeldIn(copy') = [HeldIn(c) EXCEPT ![n] = a]
        /\ Awake(copy') = Awake(c) \cup {n}
        /\ Tidy(c) => Tidy(copy')
    <3>1. copy' = enable_hw_breakpoint(insert_hw_watchpoint(c, n, a), n)
      BY <1>4
    <3> QED
      BY <1>3, <1>5, <2>1, <3>1, Inserted
  <2>3. Inv'
    <3>1. ~stray' /\ ~garbled => Tidy(copy')
      BY <1>3, <1>4, <2>2
    <3>2. stray' = stray /\ answers' = <<"OK">>
      BY <1>4, <1>9 DEF Inv, TypeOK
    <3>3. stray' \in BOOLEAN
      BY <3>2 DEF Inv, TypeOK
    <3> QED
      BY <1>4, <1>5, <2>2, <3>1, <3>2, <3>3, EditInv
  <2>4. HeldIn(c)[n] = -1
    BY <1>3, <2>1, SlotFacts
  <2>5. (stray \/ garbled)' = (stray \/ garbled)
    BY <1>4, <1>9 DEF Inv, TypeOK
  <2>6. B!SetOne(a)
    <3>1. B!Asked("Z1", a)
      BY <1>4 DEF Asks, B!Asked
    <3>2. UNCHANGED <<cpu, ArmedIn(hw), hw.dcwr0>>
      BY <1>4
    <3>3. UNCHANGED <<get_debug_registers.dcwr0, stray \/ garbled>>
      BY <1>1, <1>7, <2>2, <2>5
    <3>4. /\ HeldIn(get_debug_registers)[n] = -1
          /\ HeldIn(get_debug_registers)' = [HeldIn(get_debug_registers) EXCEPT ![n] = a]
          /\ Awake(get_debug_registers)' = Awake(get_debug_registers) \cup {n}
      BY <1>1, <1>7, <2>2, <2>4
    <3> QED
      BY <1>4, <2>1, <3>1, <3>2, <3>3, <3>4 DEF B!SetOne, B!target, B!None
  <2> QED
    BY <2>3, <2>6
<1> QED
  BY <1>8, <1>9

(* 'z1' frees a slot of its own; if there is none, the promise ends. *)
LEMMA z1Facts ==
    ASSUME Inv, NEW a \in Adr, z1(a)
    PROVE  /\ Inv'
           /\ ~stray /\ ~garbled => B!Clear(a) \/ B!Lose
<1>1. PICK c : c = get_debug_registers
  OBVIOUS
<1>2. PICK n : n = find_matching_dcrdvr_pair(c, a)
  OBVIOUS
<1>3. PICK d : d = remove_hw_watchpoint(c, n)
  OBVIOUS
<1>4. /\ c \in Registers /\ c.dp = Present
      /\ ~stray /\ ~garbled => Tidy(c)
  BY <1>1, Fetched
<1>5. /\ copy' = IF n < 0 THEN d ELSE disable_hw_breakpoint(remove_hw_watchpoint(d, n), n)
      /\ dirty' = 1 /\ stray' = (stray \/ n < 0)
      /\ answers' = IF n < 0 THEN <<"E01">> ELSE <<"OK">>
      /\ ~waiting /\ cpu = "stalled" /\ Asks("z1", a)
      /\ UNCHANGED <<waiting, garbled, hw, cpu>>
  BY <1>1, <1>2, <1>3 DEF z1, Remove, Serving, target
<1>6. a \in Nat
  BY MatchpointsAssumption
<1>7. /\ n # -1 => n \in Pairs /\ c.cc[n] = EQ /\ c.dvr[n] = a /\ ~(n < 0)
      /\ n = -1 => \A i \in Pairs : c.cc[i] = EQ => c.dvr[i] # a
  BY <1>2, <1>4, MatchingPair
<1>8. get_debug_registers' = copy'
  BY <1>5, Viewed
<1>9. CASE n = -1
  <2>1. copy' = d /\ stray' = TRUE /\ answers' = <<"E01">>
    <3>1. n < 0
      BY <1>9
    <3> QED
      BY <1>5, <3>1, Zenon
  <2>2. copy' \in Registers /\ copy'.dp = Present
    BY <1>3, <1>4, <1>9, <2>1, Strayed
  <2>3. Inv'
    BY <1>5, <1>6, <2>1, <2>2, EditInv
  <2>4. \A i \in Present : HeldIn(c)[i] # a
    <3>1. -1 # a
      BY <1>6
    <3> QED
      BY <1>4, <1>7, <1>9, <3>1, SlotFacts, PairsFacts
  <2>5. B!Lose
    BY <1>1, <1>5, <2>1, <2>4 DEF B!Lose, B!Asked, Asks
  <2> QED
    BY <2>3, <2>5
<1>10. CASE n # -1
  <2>1. n \in Pairs /\ c.cc[n] = EQ /\ c.dvr[n] = a
    BY <1>7, <1>10
  <2>2. stray' = stray /\ answers' = <<"OK">> /\ stray' \in BOOLEAN
    BY <1>5, <1>7, <1>10 DEF Inv, TypeOK
  <2>3. copy' = disable_hw_breakpoint(remove_hw_watchpoint(remove_hw_watchpoint(c, n), n), n)
    BY <1>3, <1>5, <1>7, <1>10
  <2>4. /\ copy' \in Registers /\ copy'.dp = Present /\ copy'.dcwr0 = c.dcwr0
        /\ n \in Present => HeldIn(copy') = [HeldIn(c) EXCEPT ![n] = -1]
        /\ Awake(copy') = Awake(c) \ {n}
        /\ Tidy(c) => Tidy(copy')
    BY <1>4, <2>1, <2>3, Removed
  <2>5. Inv'
    <3>1. ~stray' /\ ~garbled => Tidy(copy')
      BY <1>4, <2>2, <2>4
    <3> QED
      BY <1>5, <1>6, <2>2, <2>4, <3>1, EditInv
  <2>6. ASSUME ~stray, ~garbled PROVE B!Clear(a)
    <3>1. n \in Present
      BY <1>4, <2>1, <2>6 DEF Tidy, Used
    <3>2. HeldIn(c)[n] = a
      BY <1>4, <2>1, <3>1, SlotFacts
    <3>3. B!Asked("z1", a)
      BY <1>5 DEF Asks, B!Asked
    <3>4. UNCHANGED <<cpu, ArmedIn(hw), hw.dcwr0>>
      BY <1>5
    <3>5. UNCHANGED <<get_debug_registers.dcwr0, stray \/ garbled>>
      BY <1>1, <1>5, <1>8, <2>2, <2>4
    <3>6. /\ HeldIn(get_debug_registers)[n] = a
          /\ HeldIn(get_debug_registers)' = [HeldIn(get_debug_registers) EXCEPT ![n] = -1]
          /\ Awake(get_debug_registers)' = Awake(get_debug_registers) \ {n}
      BY <1>1, <1>8, <2>4, <3>1, <3>2
    <3> QED
      BY <1>5, <3>1, <3>3, <3>4, <3>5, <3>6 DEF B!Clear, B!target, B!None
  <2> QED
    BY <2>5, <2>6
<1> QED
  BY <1>9, <1>10

(* A read, and a write elsewhere, at most fetch the copy. *)
LEMMA ReadFacts ==
    ASSUME Inv, readspr \/ writebeyond
    PROVE  Inv' /\ (B!Read \/ B!WriteOther)
<1>1. PICK c : c = get_debug_registers
  OBVIOUS
<1>2. /\ c \in Registers /\ c.dp = Present
      /\ ~stray /\ ~garbled => Tidy(c)
  BY <1>1, Fetched
<1>3. /\ copy' = c /\ dirty' \in {0, 1} /\ answers' \in {<<"value">>, <<"OK">>}
      /\ ~waiting /\ cpu = "stalled"
      /\ Asks("readspr", 0) \/ Asks("writebeyond", 0)
      /\ UNCHANGED <<waiting, stray, garbled, hw, cpu>>
  BY <1>1 DEF readspr, writebeyond, Serving, target
<1>4. get_debug_registers' = c
  BY <1>3, Viewed
<1>5. stray' \in BOOLEAN
  BY <1>3 DEF Inv, TypeOK
<1>6. Inv'
  BY <1>2, <1>3, <1>5, EditInv
<1>7. UNCHANGED <<cpu, ArmedIn(hw), hw.dcwr0, HeldIn(get_debug_registers),
                  Awake(get_debug_registers), get_debug_registers.dcwr0,
                  stray \/ garbled>>
  BY <1>1, <1>3, <1>4
<1>8. B!Read \/ B!WriteOther
  BY <1>3, <1>7 DEF Asks, B!Asked, B!Read, B!WriteOther, B!target
<1> QED
  BY <1>6, <1>8

(* writespr changes the register it names. *)
LEMMA WriteFacts ==
    ASSUME Inv, NEW v \in Value, writespr(v)
    PROVE  Inv' /\ B!Write(v)
<1>1. PICK c : c = get_debug_registers
  OBVIOUS
<1>2. /\ c \in Registers /\ c.dp = Present
      /\ ~stray /\ ~garbled => Tidy(c)
  BY <1>1, Fetched
<1>3. /\ copy' = [c EXCEPT !.dcwr0 = v] /\ dirty' = 1 /\ answers' = <<"OK">>
      /\ ~waiting /\ cpu = "stalled" /\ Asks("writespr", v)
      /\ UNCHANGED <<waiting, stray, garbled, hw, cpu>>
  BY <1>1 DEF writespr, Serving, target
<1>4. v \in Nat
  BY MatchpointsAssumption
<1>5. copy' \in Registers
  BY <1>2, <1>3, <1>4, Touched
<1>6. /\ copy'.dvr = c.dvr /\ copy'.cc = c.cc /\ copy'.ct = c.ct
      /\ copy'.wgb = c.wgb /\ copy'.dp = c.dp /\ copy'.dcwr0 = v
  BY <1>2, <1>3 DEF Registers
<1>7. Used(copy') = Used(c)
  BY <1>6 DEF Used
<1>8. Tidy(c) => Tidy(copy')
  BY <1>6, <1>7 DEF Tidy
<1>9. stray' \in BOOLEAN
  BY <1>3 DEF Inv, TypeOK
<1>10. Inv'
  BY <1>2, <1>3, <1>4, <1>5, <1>6, <1>8, <1>9, EditInv
<1>11. Awake(copy') = Awake(c) /\ HeldIn(copy') = HeldIn(c)
  BY <1>6 DEF Awake, HeldIn
<1>12. get_debug_registers' = copy'
  BY <1>3, Viewed
<1>13. UNCHANGED <<cpu, ArmedIn(hw), hw.dcwr0, HeldIn(get_debug_registers),
                   Awake(get_debug_registers), stray \/ garbled>>
  BY <1>1, <1>3, <1>11, <1>12
<1>14. (get_debug_registers.dcwr0)' = v
  BY <1>6, <1>12
<1>15. B!Write(v)
  BY <1>3, <1>13, <1>14 DEF Asks, B!Asked, B!Write, B!target
<1> QED
  BY <1>10, <1>15

(* The copy with the WGB bits w, and ready for a resumption. *)
Prepared(c, w) ==
    /\ c \in Registers /\ c.dvr = copy.dvr /\ c.cc = copy.cc /\ c.ct = copy.ct
    /\ c.dp = copy.dp /\ c.wgb = w /\ c.dcwr0 = copy.dcwr0

(* What a resumption writes back is prepared. *)
LEMMA ReadyPrepared ==
    ASSUME copy \in Registers, NEW s \in BOOLEAN, NEW w \in SUBSET Pairs, NEW q,
           q = Ready(copy, s, w)
    PROVE  Prepared(q, w)
  BY Resumed DEF Prepared

(* What both resumptions do, with the WGB bits w that they leave: slots    *)
(* and register are as they were, and the processor has them, or a top bit *)
(* was set and the promise ends. *)
LEMMA ResumeFacts ==
    ASSUME Inv, NEW c, NEW w, NEW op \in {"c", "s"},
           Prepared(c, w), w = copy.wgb \/ w = {},
           Serving, Commit(c, op), garbled' = (garbled \/ Garbled(copy)),
           waiting' = TRUE, answers' = <<>>, Asks(op, 0), UNCHANGED stray
    PROVE  /\ Inv'
           /\ ~stray /\ ~garbled =>
                 \/ B!Lose
                 \/ B!Resume(op, {i \in Awake(get_debug_registers) : i \in w})
<1>1. copy \in Registers /\ hw \in Registers /\ hw.dp = Present
  BY DEF Inv, TypeOK, CopyInv
<1>3. /\ c \in Registers /\ c.dvr = copy.dvr /\ c.cc = copy.cc /\ c.ct = copy.ct
      /\ c.dp = copy.dp /\ c.wgb = w /\ c.dcwr0 = copy.dcwr0
  BY DEF Prepared
<1>4. copy' = c /\ hw' = put_debug_registers(c) /\ dirty' = -1 /\ cpu' = op
  BY DEF Commit
<1>5. /\ hw' \in Registers /\ hw'.dp = hw.dp
      /\ hw'.dvr = c.dvr /\ hw'.dcwr0 = c.dcwr0 => Same(c, hw')
      /\ (\A i \in Pairs : c.dvr[i] < Half) /\ c.dcwr0 < Half
             => hw'.dvr = c.dvr /\ hw'.dcwr0 = c.dcwr0
  <2>1. hw' = put_debug_registers(c)
    BY <1>4
  <2> QED
    BY <1>1, <1>3, <2>1, Written
<1>6. Garbled(copy) <=> hw'.dvr # c.dvr \/ hw'.dcwr0 # c.dcwr0
  BY <1>3 DEF Garbled
<1>7. garbled' \in BOOLEAN /\ (garbled' <=> garbled \/ Garbled(copy))
  BY DEF Inv, TypeOK, Garbled
<1>8. Used(c) = Used(copy)
  BY <1>3 DEF Used
<1>9. Tidy(copy) => Tidy(c)
  BY <1>3, <1>8 DEF Tidy
<1>10. Inv'
  <2>1. asked' \in [op : {"none", "Z1", "z1", "readspr", "writespr",
                          "writebeyond", "c", "s"}, x : Nat, odd : BOOLEAN]
    BY AsksOK DEF Inv
  <2>2. TypeOK'
    <3>1. cpu' \in {"stalled", "c", "s"} /\ waiting' \in BOOLEAN
      BY <1>4
    <3>2. stray' \in BOOLEAN /\ dirty' \in {-1, 0, 1}
      BY <1>4 DEF Inv, TypeOK
    <3>3. answers' \in {<<>>} \cup {<<x>> : x \in {"OK", "E01", "value"}}
                   \cup {<<"", "OK">>}
      OBVIOUS
    <3>4. copy' \in Registers /\ hw' \in Registers
      BY <1>3, <1>4, <1>5
    <3> QED
      BY <1>7, <2>1, <3>1, <3>2, <3>3, <3>4 DEF TypeOK
  <2>3. CopyInv'
    BY <1>1, <1>4, <1>5, <1>6, <1>7 DEF CopyInv
  <2>4. PairsInv'
    BY <1>4, <1>7, <1>9 DEF PairsInv, Inv
  <2> QED
    BY <2>2, <2>3, <2>4 DEF Inv
<1>11. ASSUME ~stray, ~garbled
       PROVE  \/ B!Lose
              \/ B!Resume(op, {i \in Awake(get_debug_registers) : i \in w})
  <2>1. PICK v : v = get_debug_registers
    OBVIOUS
  <2>2. v \in Registers /\ v.dp = Present /\ Same(copy, v) /\ Tidy(v)
    BY <1>11, <2>1, Fetched
  <2>3. /\ v.dvr = c.dvr /\ v.cc = c.cc /\ v.ct = c.ct /\ v.dcwr0 = c.dcwr0
        /\ v.wgb = copy.wgb
    BY <1>3, <2>2 DEF Same
  <2>4. cpu = "stalled" /\ B!Asked(op, 0)
    BY DEF Serving, Asks, B!Asked
  <2>5. CASE Garbled(copy)
    <3>1. v.dcwr0 \in Nat /\ v.dvr \in [Pairs -> Nat] /\ v.cc \in [Pairs -> {MASKED, EQ}]
      BY <2>2 DEF Registers
    <3>2. ~(\A i \in Pairs : v.dvr[i] < Half) \/ ~(v.dcwr0 < Half)
      BY <1>5, <1>6, <2>3, <2>5
    <3>3. Half \in Nat \ {0}
      BY MatchpointsAssumption
    <3>4. v.dcwr0 >= Half \/ \E i \in Pairs : v.dvr[i] >= Half
      BY <3>1, <3>2, <3>3
    <3>5. v.dcwr0 >= Half \/ \E i \in Present : HeldIn(v)[i] >= Half
      <4>1. CASE v.dcwr0 >= Half
        BY <4>1
      <4>2. ASSUME NEW i \in Pairs, v.dvr[i] >= Half
            PROVE  \E j \in Present : HeldIn(v)[j] >= Half
        <5>1. v.dvr[i] # 0
          BY <3>1, <3>3, <4>2
        <5>2. v.cc[i] = EQ
          BY <2>2, <3>1, <5>1 DEF Tidy
        <5>3. i \in Present
          BY <2>2, <5>2 DEF Tidy, Used
        <5>4. HeldIn(v)[i] = v.dvr[i]
          BY <2>2, <5>2, <5>3, SlotFacts
        <5> QED
          BY <4>2, <5>3, <5>4
      <4> QED
        BY <3>4, <4>1, <4>2
    <3>6. B!High
      BY <2>1, <3>5 DEF B!High
    <3>7. (stray \/ garbled)'
      BY <1>7, <2>5
    <3>8. B!Lose
      BY <2>4, <3>6, <3>7 DEF B!Lose
    <3> QED
      BY <3>8
  <2>6. CASE ~Garbled(copy)
    <3>1. Same(c, hw') /\ hw'.dp = Present
      BY <1>1, <1>5, <1>6, <2>6
    <3>2. get_debug_registers' = hw'
      BY <1>4 DEF get_debug_registers
    <3>3. HeldIn(hw') = HeldIn(v) /\ hw'.dcwr0 = v.dcwr0
      BY <2>3, <3>1 DEF Same, HeldIn
    <3>4. Awake(hw') = {i \in Awake(v) : i \in w}
      BY <1>3, <2>2, <2>3, <3>1 DEF Same, Awake
    <3>5. \A i \in Awake(hw') : hw'.dvr[i] = HeldIn(v)[i]
      <4> SUFFICES ASSUME NEW i \in Awake(hw') PROVE hw'.dvr[i] = HeldIn(v)[i]
        OBVIOUS
      <4>1. i \in Present /\ hw'.cc[i] = EQ
        BY <3>1 DEF Awake
      <4>2. hw'.cc = v.cc /\ hw'.dvr = v.dvr
        BY <2>3, <3>1 DEF Same
      <4> QED
        BY <2>2, <4>1, <4>2, SlotFacts
    <3>6. ArmedIn(hw') = {HeldIn(v)[i] : i \in Awake(hw')}
      BY <3>5 DEF ArmedIn
    <3>7. UNCHANGED <<HeldIn(get_debug_registers), get_debug_registers.dcwr0,
                      stray \/ garbled>>
      BY <1>7, <1>11, <2>1, <2>6, <3>2, <3>3
    <3> DEFINE on == {i \in Awake(get_debug_registers) : i \in w}
    <3>8. /\ Awake(get_debug_registers)' = on
          /\ ArmedIn(hw)' = {HeldIn(get_debug_registers)[i] : i \in on}
          /\ (hw.dcwr0)' = get_debug_registers.dcwr0
      BY <2>1, <3>2, <3>3, <3>4, <3>6
    <3> HIDE DEF on
    <3>9. B!Resume(op, on)
      BY <1>4, <2>4, <3>7, <3>8 DEF B!Resume
    <3> QED
      BY <3>9 DEF on
  <2> QED
    BY <2>5, <2>6
<1> QED
  BY <1>10, <1>11

(* 'c' leaves the WGB bits as they are. *)
LEMMA ContinueFacts ==
    ASSUME Inv, rsp_continue_generic
    PROVE  /\ Inv'
           /\ ~stray /\ ~garbled =>
                 B!Lose \/ B!Resume("c", Awake(get_debug_registers))
<1> DEFINE c == [copy EXCEPT !.drr = "none", !.st = FALSE, !.te = TRUE]
<1>1. copy \in Registers
  BY DEF Inv, TypeOK
<1>2. c = Ready(copy, FALSE, copy.wgb)
  BY <1>1 DEF Ready, Registers
<1>3. /\ Serving /\ Commit(c, "c") /\ garbled' = (garbled \/ Garbled(copy))
      /\ waiting' = TRUE /\ answers' = <<>> /\ Asks("c", 0) /\ UNCHANGED stray
  BY DEF rsp_continue_generic
<1> HIDE DEF c
<1>4. PICK w : w = copy.wgb
  OBVIOUS
<1>5. /\ Inv'
      /\ ~stray /\ ~garbled =>
            \/ B!Lose
            \/ B!Resume("c", {i \in Awake(get_debug_registers) : i \in w})
  <2>1. w \in SUBSET Pairs
    BY <1>1, <1>4 DEF Registers
  <2>2. Prepared(c, w)
    <3>1. c = Ready(copy, FALSE, w)
      BY <1>2, <1>4
    <3> QED
      BY <1>1, <2>1, <3>1, ReadyPrepared
  <2> QED
    BY <1>3, <1>4, <2>2, ResumeFacts
<1>6. ASSUME ~garbled
      PROVE  {i \in Awake(get_debug_registers) : i \in w} = Awake(get_debug_registers)
  <2>1. PICK v : v = get_debug_registers
    OBVIOUS
  <2>2. v.wgb = w
    BY <1>4, <1>6, <2>1, Fetched DEF Same
  <2>3. Awake(v) \subseteq w
    BY <2>2 DEF Awake
  <2> QED
    BY <2>1, <2>3
<1> QED
  BY <1>5, <1>6

(* A step clears them. *)
LEMMA StepFacts ==
    ASSUME Inv, rsp_step_generic
    PROVE  /\ Inv'
           /\ ~stray /\ ~garbled => B!Lose \/ B!Resume("s", {})
<1> DEFINE c == [copy EXCEPT !.drr = "none", !.st = TRUE, !.te = TRUE, !.wgb = {}]
<1>1. /\ Serving /\ Commit(c, "s") /\ garbled' = (garbled \/ Garbled(copy))
      /\ waiting' = TRUE /\ answers' = <<>> /\ Asks("s", 0) /\ UNCHANGED stray
  BY DEF rsp_step_generic
<1>2. c = Ready(copy, TRUE, {})
  BY DEF Ready
<1> HIDE DEF c
<1>3. PICK w : w = {}
  OBVIOUS
<1>4. /\ Inv'
      /\ ~stray /\ ~garbled =>
            \/ B!Lose
            \/ B!Resume("s", {i \in Awake(get_debug_registers) : i \in w})
  <2>1. copy \in Registers /\ w \in SUBSET Pairs
    BY <1>3 DEF Inv, TypeOK
  <2>2. Prepared(c, w)
    <3>1. c = Ready(copy, TRUE, w)
      BY <1>2, <1>3
    <3> QED
      BY <2>1, <3>1, ReadyPrepared
  <2> QED
    BY <1>1, <1>3, <2>2, ResumeFacts
<1>5. {i \in Awake(get_debug_registers) : i \in w} = {}
  BY <1>3
<1> QED
  BY <1>4, <1>5

(* The processor writes the reason of its stop and nothing else. *)
LEMMA HaltFacts ==
    ASSUME Inv, Halt
    PROVE  Inv' /\ B!Stop
<1>1. hw \in Registers /\ hw.dp = Present
  BY DEF Inv, TypeOK, CopyInv
<1>2. hw' \in Registers /\ hw'.dp = hw.dp /\ Same(hw, hw')
  <2>1. CASE hw' = [hw EXCEPT !.drr = "TE"]
    BY <1>1, <2>1, Touched DEF Same, Registers
  <2>2. CASE hw' = hw
    BY <1>1, <2>2 DEF Same
  <2> QED
    BY <2>1, <2>2 DEF Halt
<1>3. /\ cpu # "stalled" /\ cpu' = "stalled"
      /\ UNCHANGED <<copy, dirty, waiting, stray, garbled, answers, asked>>
  BY DEF Halt
<1>4. CopyInv'
  BY <1>1, <1>2, <1>3 DEF CopyInv, Same, Inv
<1>5. PairsInv'
  BY <1>3 DEF PairsInv, Inv
<1>6. TypeOK'
  BY <1>2, <1>3 DEF TypeOK, Inv
<1>7. PICK v : v = get_debug_registers
  OBVIOUS
<1>8. PICK u : u = get_debug_registers'
  OBVIOUS
<1>9. Same(v, u) /\ u.dp = v.dp
  <2>1. CASE dirty = -1
    BY <1>2, <1>3, <1>7, <1>8, <2>1 DEF get_debug_registers
  <2>2. CASE dirty # -1
    BY <1>3, <1>7, <1>8, <2>2 DEF get_debug_registers, Same
  <2> QED
    BY <2>1, <2>2
<1>10. HeldIn(u) = HeldIn(v) /\ Awake(u) = Awake(v) /\ u.dcwr0 = v.dcwr0
  BY <1>9, SlotsSame
<1>11. ArmedIn(hw') = ArmedIn(hw) /\ hw'.dcwr0 = hw.dcwr0
  BY <1>2, SlotsSame
<1>12. B!Stop
  BY <1>3, <1>7, <1>8, <1>10, <1>11 DEF B!Stop
<1> QED
  BY <1>4, <1>5, <1>6, <1>12 DEF Inv

(* A stop that is noticed fetches the copy. *)
LEMMA CheckFacts ==
    ASSUME Inv, rsp_check_for_exception
    PROVE  Inv' /\ UNCHANGED B!bpVars
<1>1. PICK c : c = get_debug_registers
  OBVIOUS
<1>2. /\ c \in Registers /\ c.dp = Present
      /\ ~stray /\ ~garbled => Tidy(c)
  BY <1>1, Fetched
<1>3. dirty = -1
  BY DEF rsp_check_for_exception, Inv, CopyInv
<1>4. /\ copy' = c /\ dirty' = 0 /\ waiting' = FALSE
      /\ UNCHANGED <<stray, garbled, answers, hw, cpu, asked>>
  BY <1>1, <1>3 DEF rsp_check_for_exception, target
<1>5. PairsInv'
  BY <1>2, <1>4 DEF PairsInv
<1>6. CopyInv'
  BY <1>2, <1>4 DEF CopyInv, Inv
<1>7. TypeOK'
  BY <1>2, <1>4 DEF TypeOK, Inv
<1>8. get_debug_registers' = c
  BY <1>4, Viewed
<1>9. UNCHANGED B!bpVars
  BY <1>1, <1>4, <1>8 DEF B!bpVars, B!target
<1> QED
  BY <1>5, <1>6, <1>7, <1>9 DEF Inv

(* An interrupt leaves the copy as it is, not valid. *)
LEMMA InterruptFacts ==
    ASSUME Inv, rsp_interrupt
    PROVE  Inv' /\ (B!Stop \/ UNCHANGED B!bpVars)
<1>1. /\ cpu' = "stalled" /\ waiting' = FALSE
      /\ UNCHANGED <<copy, dirty, stray, garbled, answers, hw, asked>>
  BY DEF rsp_interrupt
<1>2. PairsInv' /\ CopyInv'
  BY <1>1 DEF PairsInv, CopyInv, Inv
<1>3. TypeOK'
  BY <1>1 DEF TypeOK, Inv
<1>4. get_debug_registers' = get_debug_registers
  BY <1>1 DEF get_debug_registers
<1>5. B!Stop \/ UNCHANGED B!bpVars
  BY <1>1, <1>4 DEF B!Stop, B!bpVars, B!target
<1> QED
  BY <1>2, <1>3, <1>5 DEF Inv

(* Every step keeps the invariant. *)
LEMMA NextInv == Inv /\ [Next]_vars => Inv'
<1> SUFFICES ASSUME Inv, [Next]_vars PROVE Inv'
  OBVIOUS
<1>1. CASE UNCHANGED vars
  <2>0. /\ copy' = copy /\ dirty' = dirty /\ waiting' = waiting /\ stray' = stray
        /\ garbled' = garbled /\ answers' = answers /\ hw' = hw /\ cpu' = cpu
        /\ asked' = asked
    BY <1>1 DEF vars
  <2>1. TypeOK'
    BY <2>0, Zenon DEF Inv, TypeOK
  <2>2. CopyInv' /\ PairsInv'
    BY <2>0, Zenon DEF Inv, CopyInv, PairsInv
  <2> QED
    BY <2>1, <2>2 DEF Inv
<1>2. ASSUME NEW a \in Adr, Z1(a) \/ z1(a) PROVE Inv'
  BY <1>2, Z1Facts, z1Facts
<1>3. CASE readspr \/ writebeyond
  BY <1>3, ReadFacts
<1>4. ASSUME NEW v \in Value, writespr(v) PROVE Inv'
  BY <1>4, WriteFacts
<1>5. CASE rsp_continue_generic \/ rsp_step_generic
  BY <1>5, ContinueFacts, StepFacts
<1>6. CASE Halt \/ rsp_check_for_exception \/ rsp_interrupt
  BY <1>6, HaltFacts, CheckFacts, InterruptFacts
<1> QED
  BY <1>1, <1>2, <1>3, <1>4, <1>5, <1>6 DEF Next

(* The invariant holds of every behaviour. *)
LEMMA AlwaysInv == Spec => []Inv
  BY InitInv, NextInv, PTL DEF Spec

-----------------------------------------------------------------------------
(* The theorems.                                                           *)

(* The type invariant of the stub's copy, the processor and the client:    *)
(* even after an index of rsp_insert_matchpoint or rsp_remove_matchpoint   *)
(* has left its array, what it has overwritten is a word.                  *)
THEOREM MatchpointsTypeOK == Spec => []TypeOK
  BY AlwaysInv, PTL DEF Inv

(* A stop is reported with the reason register of the stopped processor:   *)
(* no run leaves the copy valid.                                           *)
THEOREM MatchpointsReasonFresh == Spec => ReasonFresh
<1> DEFINE A == waiting /\ ~waiting' /\ dirty' # -1 => copy'.drr = hw.drr
<1>1. ASSUME Inv, Next PROVE A
  <2>1. CASE rsp_check_for_exception
    BY <1>1, <2>1 DEF rsp_check_for_exception, get_debug_registers, Inv, CopyInv
  <2>2. CASE rsp_interrupt
    BY <1>1, <2>2 DEF rsp_interrupt, Inv, CopyInv
  <2>3. CASE ~(waiting /\ ~waiting')
    BY <2>3
  <2>4. rsp_check_for_exception \/ rsp_interrupt \/ ~(waiting /\ ~waiting')
    BY <1>1 DEF Next, Z1, z1, readspr, writespr, writebeyond, rsp_continue_generic,
       rsp_step_generic, Halt, Serving
  <2> QED
    BY <2>1, <2>2, <2>3, <2>4
<1>2. Inv /\ [Next]_vars => [A]_vars
  BY <1>1
<1> QED
  BY <1>2, AlwaysInv, PTL DEF Spec, ReasonFresh

(* An index that has left the arrays stays lost, and so does a garbled     *)
(* register. *)
LEMMA LostForGood ==
    ASSUME Inv, Next
    PROVE  (stray => stray') /\ (garbled => garbled')
<1>1. ASSUME NEW a \in Adr, Z1(a) \/ z1(a) PROVE (stray => stray') /\ garbled' = garbled
  BY <1>1 DEF Z1, Insert, z1, Remove
<1>2. ASSUME rsp_continue_generic \/ rsp_step_generic
      PROVE  stray' = stray /\ (garbled => garbled')
  BY <1>2 DEF rsp_continue_generic, rsp_step_generic
<1>3. ASSUME \/ readspr \/ (\E v \in Value : writespr(v)) \/ writebeyond
             \/ Halt \/ rsp_check_for_exception \/ rsp_interrupt
      PROVE  stray' = stray /\ garbled' = garbled
  BY <1>3 DEF readspr, writespr, writebeyond, Halt, rsp_check_for_exception,
     rsp_interrupt
<1> QED
  BY <1>1, <1>2, <1>3 DEF Next

(* The pairs, the three states of the copy and the moments at which it is  *)
(* fetched and written back implement Breakpoints: whatever the client     *)
(* sets, removes, reads and writes, and however the last run ended, the    *)
(* processor stops at the addresses in the slots that are awake, until a   *)
(* request that has no slot, or a top bit, ends the promise.               *)
THEOREM MatchpointsServe == Spec => BreakpointsServed
<1>1. Init => B!BpInit
  <2> SUFFICES ASSUME Init PROVE B!BpInit
    OBVIOUS
  <2>1. hw.wgb = {} /\ hw.dcwr0 = 0 /\ hw.cc = [i \in Pairs |-> MASKED]
    BY DEF Init, Zeroed
  <2>2. get_debug_registers = hw
    BY DEF Init, get_debug_registers
  <2>3. Awake(hw) = {} /\ ArmedIn(hw) = {}
    BY <2>1 DEF ArmedIn, Awake
  <2>4. HeldIn(hw) = [i \in Present |-> -1]
    <3>1. \A i \in Present : hw.cc[i] # EQ
      BY <2>1, PairsFacts DEF MASKED, EQ
    <3> QED
      BY <3>1 DEF HeldIn
  <2> QED
    BY <2>1, <2>2, <2>3, <2>4 DEF Init, B!BpInit, B!None
<1>2. ASSUME Inv, Next PROVE B!BpNext \/ UNCHANGED B!bpVars
  <2>1. CASE stray \/ garbled
    <3>1. (stray \/ garbled)'
      BY <1>2, <2>1, LostForGood
    <3> QED
      BY <2>1, <3>1 DEF B!BpNext
  <2>2. CASE ~stray /\ ~garbled
    <3>1. ASSUME NEW a \in Adr, Z1(a) PROVE B!BpNext
      BY <1>2, <2>2, <3>1, Z1Facts DEF B!BpNext
    <3>2. ASSUME NEW a \in Adr, z1(a) PROVE B!BpNext
      BY <1>2, <2>2, <3>2, z1Facts DEF B!BpNext
    <3>3. CASE readspr \/ writebeyond
      BY <1>2, <3>3, ReadFacts DEF B!BpNext
    <3>4. ASSUME NEW v \in Value, writespr(v) PROVE B!BpNext
      BY <1>2, <3>4, WriteFacts DEF B!BpNext
    <3>5. CASE rsp_continue_generic
      BY <1>2, <2>2, <3>5, ContinueFacts DEF B!BpNext
    <3>6. CASE rsp_step_generic
      BY <1>2, <2>2, <3>6, StepFacts DEF B!BpNext
    <3>7. CASE Halt
      BY <1>2, <3>7, HaltFacts DEF B!BpNext
    <3>8. CASE rsp_check_for_exception
      BY <1>2, <3>8, CheckFacts
    <3>9. CASE rsp_interrupt
      BY <1>2, <3>9, InterruptFacts DEF B!BpNext
    <3> QED
      BY <1>2, <3>1, <3>2, <3>3, <3>4, <3>5, <3>6, <3>7, <3>8, <3>9 DEF Next
  <2> QED
    BY <2>1, <2>2
<1>3. UNCHANGED vars => UNCHANGED B!bpVars
  BY DEF vars, B!bpVars, B!target, get_debug_registers
<1>4. Inv /\ [Next]_vars => [B!BpNext]_(B!bpVars)
  BY <1>2, <1>3
<1> QED
  BY <1>1, <1>4, AlwaysInv, PTL DEF Spec, BreakpointsServed, B!BpSpec

=============================================================================
