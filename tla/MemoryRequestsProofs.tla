------------------------ MODULE MemoryRequestsProofs ------------------------
(***************************************************************************)
(* What the memory requests do to the memory, for every size of it, every  *)
(* buffer and every payload.                                               *)
(*                                                                         *)
(* RoundTrip: rsp_unescape gives back the bytes GDB escaped, by induction  *)
(* over the payload.  Turned reverses the bytes of each whole word and is  *)
(* its own inverse, so a byte stored through two reversals is in place.    *)
(* RangeParts splits a range into the bytes before the first word, the     *)
(* whole words and the rest, and InWhole says that the whole words are the *)
(* words that are in the range.                                            *)
(***************************************************************************)
EXTENDS MemoryRequests, SequenceTheorems, NumberInduction, TLAPS

USE MemoryAssumption

-----------------------------------------------------------------------------
(* What rsp_unescape and GDB's escaping compute.                           *)

(* The recursion of Unescaped. *)
LEMMA UnescapedRec ==
    ASSUME NEW s \in Seq(Byte)
    PROVE  Unescaped(s) = [i \in 0..Len(s) |->
             IF i = 0 THEN NoneRead ELSE Unescape(Unescaped(s)[i - 1], s[i])]
  <1> DEFINE Rec(f, n) == f = [i \in 0..n |->
                                 IF i = 0 THEN NoneRead ELSE Unescape(f[i - 1], s[i])]
             K == {k \in 0..Len(s) : \E f : Rec(f, k)}
  <1>1. 0 \in K
    <2> DEFINE f == [i \in 0..0 |-> NoneRead]
    <2>1. Rec(f, 0)  OBVIOUS
    <2> HIDE DEF f, Rec
    <2>q. QED  BY <2>1
  <1>2. ASSUME NEW k \in 0..(Len(s) - 1), k \in K
        PROVE  k + 1 \in K
    <2>1. PICK f : Rec(f, k)  BY <1>2
    <2> DEFINE g == [i \in 0..(k + 1) |->
                       IF i = k + 1 THEN Unescape(f[k], s[k + 1]) ELSE f[i]]
    <2>2. \A i \in 0..(k + 1) :
            g[i] = IF i = 0 THEN NoneRead ELSE Unescape(g[i - 1], s[i])
      <3> TAKE i \in 0..(k + 1)
      <3>1. CASE i = k + 1
        <4>1. g[i - 1] = f[k]  BY <3>1
        <4>q. QED  BY <3>1, <4>1
      <3>2. CASE i # k + 1
        <4>1. i \in 0..k  BY <3>2
        <4>2. g[i] = f[i] /\ (i # 0 => g[i - 1] = f[i - 1])  BY <4>1
        <4>3. f[i] = IF i = 0 THEN NoneRead ELSE Unescape(f[i - 1], s[i])
          BY <2>1, <4>1
        <4>q. QED  BY <4>2, <4>3
      <3>q. QED  BY <3>1, <3>2
    <2>3. Rec(g, k + 1)  BY <2>2
    <2>4. k + 1 \in 0..Len(s)  OBVIOUS
    <2> HIDE DEF g, Rec
    <2>q. QED  BY <2>3, <2>4
  <1>3. Len(s) \in K
    <2> HIDE DEF K
    <2>1. \A k \in 0..Len(s) : k \in K  BY <1>1, <1>2, UpTo
    <2>q. QED  BY <2>1
  <1>4. \E f : Rec(f, Len(s))  BY <1>3
  <1>5. Unescaped(s) = CHOOSE f : Rec(f, Len(s))  BY DEF Unescaped
  <1>q. QED  BY <1>4, <1>5

(* The recursion of SentFor. *)
LEMMA SentForRec ==
    ASSUME NEW d \in Seq(Byte)
    PROVE  SentFor(d) = [i \in 0..Len(d) |->
             IF i = 0 THEN <<>> ELSE SentFor(d)[i - 1] \o Sent(d[i])]
  <1> DEFINE Rec(f, n) == f = [i \in 0..n |->
                                 IF i = 0 THEN <<>> ELSE f[i - 1] \o Sent(d[i])]
             K == {k \in 0..Len(d) : \E f : Rec(f, k)}
  <1>1. 0 \in K
    <2> DEFINE f == [i \in 0..0 |-> <<>>]
    <2>1. Rec(f, 0)  OBVIOUS
    <2> HIDE DEF f, Rec
    <2>q. QED  BY <2>1
  <1>2. ASSUME NEW k \in 0..(Len(d) - 1), k \in K
        PROVE  k + 1 \in K
    <2>1. PICK f : Rec(f, k)  BY <1>2
    <2> DEFINE g == [i \in 0..(k + 1) |->
                       IF i = k + 1 THEN f[k] \o Sent(d[k + 1]) ELSE f[i]]
    <2>2. \A i \in 0..(k + 1) :
            g[i] = IF i = 0 THEN <<>> ELSE g[i - 1] \o Sent(d[i])
      <3> TAKE i \in 0..(k + 1)
      <3>1. CASE i = k + 1
        <4>1. g[i - 1] = f[k]  BY <3>1
        <4>q. QED  BY <3>1, <4>1
      <3>2. CASE i # k + 1
        <4>1. i \in 0..k  BY <3>2
        <4>2. g[i] = f[i] /\ (i # 0 => g[i - 1] = f[i - 1])  BY <4>1
        <4>3. f[i] = IF i = 0 THEN <<>> ELSE f[i - 1] \o Sent(d[i])
          BY <2>1, <4>1
        <4>q. QED  BY <4>2, <4>3
      <3>q. QED  BY <3>1, <3>2
    <2>3. Rec(g, k + 1)  BY <2>2
    <2>4. k + 1 \in 0..Len(d)  OBVIOUS
    <2> HIDE DEF g, Rec
    <2>q. QED  BY <2>3, <2>4
  <1>3. Len(d) \in K
    <2> HIDE DEF K
    <2>1. \A k \in 0..Len(d) : k \in K  BY <1>1, <1>2, UpTo
    <2>q. QED  BY <2>1
  <1>4. \E f : Rec(f, Len(d))  BY <1>3
  <1>5. SentFor(d) = CHOOSE f : Rec(f, Len(d))  BY DEF SentFor
  <1>q. QED  BY <1>4, <1>5

(* Both, step by step. *)
LEMMA UnescapedSteps ==
    ASSUME NEW s \in Seq(Byte)
    PROVE  /\ Unescaped(s)[0] = NoneRead
           /\ \A i \in 0..(Len(s) - 1) :
                Unescaped(s)[i + 1] = Unescape(Unescaped(s)[i], s[i + 1])
  <1>f. PICK f : f = Unescaped(s)  OBVIOUS
  <1>1. f = [i \in 0..Len(s) |-> IF i = 0 THEN NoneRead ELSE Unescape(f[i - 1], s[i])]
    BY <1>f, UnescapedRec
  <1>2. \A i \in 0..Len(s) : f[i] = IF i = 0 THEN NoneRead ELSE Unescape(f[i - 1], s[i])
    BY <1>1
  <1>3. f[0] = NoneRead  BY <1>2
  <1>4. ASSUME NEW i \in 0..(Len(s) - 1)
        PROVE  f[i + 1] = Unescape(f[i], s[i + 1])
    <2>1. i + 1 \in 0..Len(s) /\ i + 1 # 0 /\ (i + 1) - 1 = i  OBVIOUS
    <2>2. f[i + 1] = Unescape(f[(i + 1) - 1], s[i + 1])  BY <1>2, <2>1
    <2>q. QED  BY <2>1, <2>2
  <1>q. QED  BY <1>f, <1>3, <1>4

LEMMA SentForSteps ==
    ASSUME NEW d \in Seq(Byte)
    PROVE  /\ SentFor(d)[0] = <<>>
           /\ \A i \in 0..(Len(d) - 1) :
                SentFor(d)[i + 1] = SentFor(d)[i] \o Sent(d[i + 1])
  <1>f. PICK f : f = SentFor(d)  OBVIOUS
  <1>1. f = [i \in 0..Len(d) |-> IF i = 0 THEN <<>> ELSE f[i - 1] \o Sent(d[i])]
    BY <1>f, SentForRec
  <1>2. \A i \in 0..Len(d) : f[i] = IF i = 0 THEN <<>> ELSE f[i - 1] \o Sent(d[i])
    BY <1>1
  <1>3. f[0] = <<>>  BY <1>2
  <1>4. ASSUME NEW i \in 0..(Len(d) - 1)
        PROVE  f[i + 1] = f[i] \o Sent(d[i + 1])
    <2>1. i + 1 \in 0..Len(d) /\ i + 1 # 0 /\ (i + 1) - 1 = i  OBVIOUS
    <2>2. f[i + 1] = f[(i + 1) - 1] \o Sent(d[i + 1])  BY <1>2, <2>1
    <2>q. QED  BY <2>1, <2>2
  <1>q. QED  BY <1>f, <1>3, <1>4

(* A byte is sent as itself, or as '}' and a byte that gives it back. *)
LEMMA SentByte ==
    ASSUME NEW b \in Byte
    PROVE  /\ Sent(b) \in Seq(Byte)
           /\ \/ Sent(b) = <<b>> /\ b # ESCAPE
              \/ /\ Sent(b) = <<ESCAPE, Xor20(b)>>
                 /\ Xor20(b) \in Byte /\ Xor20(Xor20(b)) = b
  <1>1. CASE b \notin {35, 36, ESCAPE}
    <2>1. Sent(b) = <<b>> /\ b # ESCAPE  BY <1>1 DEF Sent
    <2>q. QED  BY <2>1
  <1>2. CASE b \in {35, 36, ESCAPE}
    <2>1. Sent(b) = <<ESCAPE, Xor20(b)>>  BY <1>2 DEF Sent
    <2>2. Xor20(b) \in Byte /\ Xor20(Xor20(b)) = b
      <3>1. CASE b = 35
        <4>1. Xor20(b) = 3  BY <3>1 DEF Xor20
        <4>q. QED  BY <3>1, <4>1 DEF Xor20, Byte
      <3>2. CASE b = 36
        <4>1. Xor20(b) = 4  BY <3>2 DEF Xor20
        <4>q. QED  BY <3>2, <4>1 DEF Xor20, Byte
      <3>3. CASE b = 125
        <4>1. Xor20(b) = 93  BY <3>3 DEF Xor20
        <4>q. QED  BY <3>3, <4>1 DEF Xor20, Byte
      <3>q. QED  BY <1>2, <3>1, <3>2, <3>3 DEF ESCAPE
    <2>3. ESCAPE \in Byte  BY DEF ESCAPE, Byte
    <2>q. QED  BY <2>1, <2>2, <2>3
  <1>q. QED  BY <1>1, <1>2

(* What is sent for the first bytes is the beginning of what is sent for   *)
(* more of them.                                                           *)
LEMMA SentPrefix ==
    ASSUME NEW d \in Seq(Byte), NEW j \in 0..Len(d)
    PROVE  /\ SentFor(d)[j] \in Seq(Byte)
           /\ \A i \in 0..j :
                /\ SentFor(d)[i] \in Seq(Byte)
                /\ Len(SentFor(d)[i]) <= Len(SentFor(d)[j])
                /\ \A k \in 1..Len(SentFor(d)[i]) : SentFor(d)[j][k] = SentFor(d)[i][k]
  <1>u. PICK u : u = SentFor(d)  OBVIOUS
  <1>0. /\ u[0] = <<>>
        /\ \A i \in 0..(Len(d) - 1) : u[i + 1] = u[i] \o Sent(d[i + 1])
    BY <1>u, SentForSteps
  <1> DEFINE Good(n) == /\ u[n] \in Seq(Byte)
                        /\ \A i \in 0..n :
                             /\ u[i] \in Seq(Byte)
                             /\ Len(u[i]) <= Len(u[n])
                             /\ \A k \in 1..Len(u[i]) : u[n][k] = u[i][k]
             K == {n \in 0..Len(d) : Good(n)}
  <1>1. 0 \in K
    <2>1. u[0] \in Seq(Byte) /\ Len(u[0]) = 0  BY <1>0
    <2>2. \A i \in 0..0 : i = 0  OBVIOUS
    <2>3. Good(0)  BY <2>1, <2>2
    <2> HIDE DEF Good
    <2>q. QED  BY <2>3
  <1>2. ASSUME NEW n \in 0..(Len(d) - 1), n \in K
        PROVE  n + 1 \in K
    <2>1. Good(n)  BY <1>2
    <2>2. Sent(d[n + 1]) \in Seq(Byte)  BY SentByte
    <2>3. u[n + 1] = u[n] \o Sent(d[n + 1])  BY <1>0
    <2>4. /\ u[n + 1] \in Seq(Byte) /\ Len(u[n]) <= Len(u[n + 1])
          /\ \A k \in 1..Len(u[n]) : u[n + 1][k] = u[n][k]
      <3>1. PICK v : v = u[n]  OBVIOUS
      <3>2. PICK w : w = Sent(d[n + 1])  OBVIOUS
      <3>3. v \in Seq(Byte) /\ w \in Seq(Byte)  BY <2>1, <2>2, <3>1, <3>2
      <3>4. /\ v \o w \in Seq(Byte) /\ Len(v) <= Len(v \o w)
            /\ \A k \in 1..Len(v) : (v \o w)[k] = v[k]
        BY <3>3
      <3>q. QED  BY <2>3, <3>1, <3>2, <3>4
    <2>5. \A i \in 0..(n + 1) : i \in 0..n \/ i = n + 1  OBVIOUS
    <2>6. Good(n + 1)
      <3> SUFFICES ASSUME NEW i \in 0..(n + 1)
                   PROVE  /\ u[i] \in Seq(Byte)
                          /\ Len(u[i]) <= Len(u[n + 1])
                          /\ \A k \in 1..Len(u[i]) : u[n + 1][k] = u[i][k]
        BY <2>4
      <3>1. CASE i = n + 1  BY <2>4, <3>1
      <3>2. CASE i \in 0..n
        <4>1. /\ u[i] \in Seq(Byte) /\ Len(u[i]) <= Len(u[n])
              /\ \A k \in 1..Len(u[i]) : u[n][k] = u[i][k]
          BY <2>1, <3>2
        <4>2. Len(u[i]) \in Nat /\ Len(u[n]) \in Nat /\ Len(u[n + 1]) \in Nat
          BY <2>1, <2>4, <4>1
        <4>q. QED  BY <2>4, <4>1, <4>2
      <3>q. QED  BY <2>5, <3>1, <3>2
    <2> HIDE DEF Good
    <2>q. QED  BY <2>6
  <1>3. j \in K
    <2> HIDE DEF K
    <2>1. \A n \in 0..(Len(d) - 1) : n \in K => n + 1 \in K  BY <1>2
    <2>2. Len(d) \in Nat  OBVIOUS
    <2>3. \A n \in 0..Len(d) : n \in K  BY <1>1, <2>1, <2>2, UpTo
    <2>q. QED  BY <2>3
  <1>q. QED  BY <1>3, <1>u

(* rsp_unescape gives back the bytes that GDB escaped, whatever they are. *)
LEMMA RoundTrip ==
    ASSUME NEW d \in Seq(Byte)
    PROVE  /\ Escaped(d) \in Seq(Byte)
           /\ rsp_unescape(Escaped(d)) = d
           /\ Len(d) <= Len(Escaped(d))
  <1>u. PICK u : u = SentFor(d)  OBVIOUS
  <1>s. PICK s : s = Escaped(d)  OBVIOUS
  <1>f. PICK f : f = Unescaped(s)  OBVIOUS
  <1>0. /\ u[0] = <<>>
        /\ \A i \in 0..(Len(d) - 1) : u[i + 1] = u[i] \o Sent(d[i + 1])
    BY <1>u, SentForSteps
  <1>1. s = u[Len(d)] /\ s \in Seq(Byte)
    <2>1. Len(d) \in 0..Len(d)  OBVIOUS
    <2>2. s = u[Len(d)]  BY <1>u, <1>s DEF Escaped
    <2>3. SentFor(d)[Len(d)] \in Seq(Byte)  BY <2>1, SentPrefix
    <2>q. QED  BY <1>u, <2>2, <2>3
  <1>2. \A i \in 0..Len(d) : /\ u[i] \in Seq(Byte) /\ Len(u[i]) <= Len(s)
                             /\ \A k \in 1..Len(u[i]) : s[k] = u[i][k]
    <2>1. Len(d) \in 0..Len(d)  OBVIOUS
    <2>2. \A i \in 0..Len(d) :
            /\ SentFor(d)[i] \in Seq(Byte)
            /\ Len(SentFor(d)[i]) <= Len(SentFor(d)[Len(d)])
            /\ \A k \in 1..Len(SentFor(d)[i]) : SentFor(d)[Len(d)][k] = SentFor(d)[i][k]
      BY <2>1, SentPrefix
    <2>q. QED  BY <1>u, <1>1, <2>2
  <1>3. /\ f[0] = NoneRead
        /\ \A i \in 0..(Len(s) - 1) : f[i + 1] = Unescape(f[i], s[i + 1])
    BY <1>1, <1>f, UnescapedSteps
  <1> DEFINE Good(i) == /\ i <= Len(u[i])
                        /\ f[Len(u[i])] = [out |-> [k \in 1..i |-> d[k]], escaped |-> FALSE]
             K == {i \in 0..Len(d) : Good(i)}
  <1>4. 0 \in K
    <2>1. Len(u[0]) = 0 /\ [k \in 1..0 |-> d[k]] = <<>>  BY <1>0
    <2>q. QED  BY <1>3, <2>1 DEF NoneRead
  <1>5. ASSUME NEW i \in 0..(Len(d) - 1), i \in K
        PROVE  i + 1 \in K
    <2>p. PICK p : p = Len(u[i])  OBVIOUS
    <2>b. PICK b : b = d[i + 1]  OBVIOUS
    <2>o. PICK out : out = [k \in 1..i |-> d[k]]  OBVIOUS
    <2>0. /\ p \in Nat /\ i <= p /\ f[p] = [out |-> out, escaped |-> FALSE]
          /\ u[i] \in Seq(Byte)
      BY <1>2, <1>5, <2>p, <2>o
    <2>1. b \in Byte /\ u[i + 1] = u[i] \o Sent(b)
      <3>1. i + 1 \in 1..Len(d)  OBVIOUS
      <3>2. d[i + 1] \in Byte  BY <3>1
      <3>q. QED  BY <1>0, <2>b, <3>2
    <2>2. out \in Seq(Byte) /\ Len(out) = i  BY <2>o
    <2>3. Append(out, b) = [k \in 1..(i + 1) |-> d[k]]
      <3>1. /\ Append(out, b) \in Seq(Byte) /\ Len(Append(out, b)) = i + 1
            /\ \A k \in 1..i : Append(out, b)[k] = out[k]
            /\ Append(out, b)[i + 1] = b
        BY <2>1, <2>2, AppendProperties
      <3>2. Append(out, b) = [k \in 1..(i + 1) |-> Append(out, b)[k]]
        <4>1. PICK w : w = Append(out, b)  OBVIOUS
        <4>2. w \in Seq(Byte) /\ Len(w) = i + 1  BY <3>1, <4>1
        <4>3. w = [k \in 1..Len(w) |-> w[k]]  BY <4>2
        <4>q. QED  BY <4>1, <4>2, <4>3
      <3>3. \A k \in 1..(i + 1) : Append(out, b)[k] = d[k]
        BY <2>b, <2>o, <3>1
      <3>q. QED  BY <3>2, <3>3
    <2>4. CASE Sent(b) = <<b>> /\ b # ESCAPE
      <3>1. Len(u[i + 1]) = p + 1 /\ u[i + 1][p + 1] = b
        BY <2>p, <2>0, <2>1, <2>4, ConcatProperties
      <3>2. p < Len(s) /\ s[p + 1] = b  BY <1>1, <1>2, <2>0, <3>1
      <3>3. f[p + 1] = Unescape(f[p], b)
        <4>1. p \in 0..(Len(s) - 1)  BY <1>1, <2>0, <3>2
        <4>q. QED  BY <1>3, <3>2, <4>1
      <3>4. f[p + 1] = [out |-> Append(out, b), escaped |-> FALSE]
        BY <2>0, <2>4, <3>3 DEF Unescape
      <3>q. QED  BY <2>0, <2>3, <3>1, <3>4
    <2>5. CASE /\ Sent(b) = <<ESCAPE, Xor20(b)>>
               /\ Xor20(b) \in Byte /\ Xor20(Xor20(b)) = b
      <3>0. <<ESCAPE, Xor20(b)>> \in Seq(Byte)  BY <2>1, <2>5, SentByte
      <3>1. Len(u[i + 1]) = p + 2 /\ u[i + 1][p + 1] = ESCAPE /\ u[i + 1][p + 2] = Xor20(b)
        BY <2>p, <2>0, <2>1, <2>5, <3>0, ConcatProperties
      <3>2. p + 1 < Len(s) /\ s[p + 1] = ESCAPE /\ s[p + 2] = Xor20(b)
        <4>1. i + 1 \in 0..Len(d)  OBVIOUS
        <4>2. /\ Len(u[i + 1]) <= Len(s)
              /\ \A k \in 1..Len(u[i + 1]) : s[k] = u[i + 1][k]
          BY <1>2, <4>1
        <4>3. p + 2 <= Len(s) /\ \A k \in 1..(p + 2) : s[k] = u[i + 1][k]
          BY <3>1, <4>2
        <4>4. p + 1 \in 1..(p + 2) /\ p + 2 \in 1..(p + 2)  BY <2>0
        <4>5. s[p + 1] = ESCAPE /\ s[p + 2] = Xor20(b)  BY <3>1, <4>3, <4>4
        <4>q. QED  BY <1>1, <2>0, <4>3, <4>5
      <3>3. f[p + 1] = Unescape(f[p], ESCAPE) /\ f[p + 2] = Unescape(f[p + 1], Xor20(b))
        <4>1. p \in 0..(Len(s) - 1) /\ p + 1 \in 0..(Len(s) - 1) /\ (p + 1) + 1 = p + 2
          BY <1>1, <2>0, <3>2
        <4>2. f[p + 1] = Unescape(f[p], s[p + 1])  BY <1>3, <4>1
        <4>3. f[(p + 1) + 1] = Unescape(f[p + 1], s[(p + 1) + 1])  BY <1>3, <4>1
        <4>q. QED  BY <3>2, <4>1, <4>2, <4>3
      <3>4. f[p + 1] = [out |-> out, escaped |-> TRUE]
        BY <2>0, <3>3 DEF Unescape
      <3>5. f[p + 2] = [out |-> Append(out, b), escaped |-> FALSE]
        <4>1. f[p + 1].escaped = TRUE /\ f[p + 1].out = out  BY <3>4
        <4>2. f[p + 2] = [out |-> Append(out, Xor20(Xor20(b))), escaped |-> FALSE]
          BY <3>3, <4>1 DEF Unescape
        <4>q. QED  BY <2>5, <4>2
      <3>q. QED  BY <2>0, <2>3, <3>1, <3>5
    <2>q. QED  BY <2>1, <2>4, <2>5, SentByte
  <1>6. Good(Len(d))
    <2> HIDE DEF K
    <2>1. \A i \in 0..Len(d) : i \in K  BY <1>4, <1>5, UpTo
    <2>2. Len(d) \in K  BY <2>1
    <2>q. QED  BY <2>2 DEF K
  <1>7. d = [k \in 1..Len(d) |-> d[k]]  OBVIOUS
  <1>8. Len(d) <= Len(s)  BY <1>1, <1>6
  <1>9. f[Len(s)].out = d
    <2>1. f[Len(s)] = [out |-> [k \in 1..Len(d) |-> d[k]], escaped |-> FALSE]
      BY <1>1, <1>6
    <2>2. f[Len(s)].out = [k \in 1..Len(d) |-> d[k]]  BY <2>1
    <2> HIDE DEF Good, K
    <2>q. QED  BY <2>2, <1>7
  <1>10. rsp_unescape(s) = d  BY <1>f, <1>9, Zenon DEF rsp_unescape
  <1>q. QED  BY <1>s, <1>1, <1>8, <1>10, Zenon

-----------------------------------------------------------------------------
(* Words, and the parts of a range.                                        *)

(* The place that Turned takes the byte at place i from. *)
Opposite(i) == 4 * ((i - 1) \div 4) + 4 - ((i - 1) % 4)

(* It is in the same word, and the opposite of it is i again. *)
LEMMA OppositeFacts ==
    ASSUME NEW n \in Nat, n % 4 = 0, NEW i \in 1..n
    PROVE  /\ Opposite(i) \in 1..n
           /\ (Opposite(i) - 1) \div 4 = (i - 1) \div 4
           /\ Opposite(Opposite(i)) = i
  <1>q. PICK q : q = (i - 1) \div 4  OBVIOUS
  <1>r. PICK r : r = (i - 1) % 4  OBVIOUS
  <1>1. i \in Nat /\ q \in Nat /\ r \in 0..3 /\ i = 4 * q + r + 1  BY <1>q, <1>r
  <1>2. Opposite(i) = 4 * q + 4 - r  BY <1>q, <1>r DEF Opposite
  <1>3. 4 * q + 4 <= n
    <2>1. n = 4 * (n \div 4) /\ n \div 4 \in Nat  OBVIOUS
    <2>q. QED  BY <1>1, <2>1
  <1>4. Opposite(i) \in 1..n  BY <1>1, <1>2, <1>3
  <1>5. (Opposite(i) - 1) \div 4 = q /\ (Opposite(i) - 1) % 4 = 3 - r  BY <1>1, <1>2
  <1>6. Opposite(Opposite(i)) = 4 * q + 4 - (3 - r)  BY <1>5 DEF Opposite
  <1>7. Opposite(Opposite(i)) = i  BY <1>1, <1>6
  <1>q1. QED  BY <1>q, <1>4, <1>5, <1>7

(* Turned of whole words. *)
LEMMA TurnedFacts ==
    ASSUME NEW S, NEW s \in Seq(S), Len(s) % 4 = 0
    PROVE  /\ Turned(s) \in Seq(S)
           /\ Len(Turned(s)) = Len(s)
           /\ \A i \in 1..Len(s) : Turned(s)[i] = s[Opposite(i)]
  <1>0. Len(s) \in Nat  OBVIOUS
  <1>1. \A i \in 1..Len(s) : Opposite(i) \in 1..Len(s)  BY <1>0, OppositeFacts
  <1>2. Turned(s) = [i \in 1..Len(s) |-> s[Opposite(i)]]  BY DEF Turned, Opposite
  <1>3. \A i \in 1..Len(s) : s[Opposite(i)] \in S  BY <1>1
  <1>q. QED  BY <1>2, <1>3

(* Turned twice is as before. *)
LEMMA TurnedBack ==
    ASSUME NEW S, NEW s \in Seq(S), Len(s) % 4 = 0
    PROVE  Turned(Turned(s)) = s
  <1>1. PICK t : t = Turned(s)  OBVIOUS
  <1>2. /\ t \in Seq(S) /\ Len(t) = Len(s)
        /\ \A i \in 1..Len(s) : t[i] = s[Opposite(i)]
    BY <1>1, TurnedFacts
  <1>3. /\ Turned(t) \in Seq(S) /\ Len(Turned(t)) = Len(s)
        /\ \A i \in 1..Len(s) : Turned(t)[i] = t[Opposite(i)]
    BY <1>2, TurnedFacts
  <1>4. ASSUME NEW i \in 1..Len(s)
        PROVE  Turned(t)[i] = s[i]
    <2>0. Len(s) \in Nat  OBVIOUS
    <2>1. Opposite(i) \in 1..Len(s) /\ Opposite(Opposite(i)) = i
      BY <2>0, OppositeFacts
    <2>q. QED  BY <1>2, <1>3, <2>1
  <1>5. Turned(t) = s  BY <1>3, <1>4, SeqEqual
  <1>q. QED  BY <1>1, <1>5

(* A range is a head, whole words from an aligned address on, and a rest   *)
(* of less than a word.                                                    *)
LEMMA RangeParts ==
    ASSUME NEW a \in Nat, NEW n \in Nat
    PROVE  /\ HeadLen(a, n) \in 0..n
           /\ WordsLen(a, n) \in 0..n /\ WordsLen(a, n) % 4 = 0
           /\ HeadLen(a, n) + WordsLen(a, n) <= n
           /\ n < HeadLen(a, n) + WordsLen(a, n) + 4
           /\ WordsLen(a, n) > 0 => (a + HeadLen(a, n)) % 4 = 0
           /\ a % 4 = 0 => HeadLen(a, n) = 0
           /\ n <= 2 => WordsLen(a, n) = 0
  <1>h. PICK h : h = HeadLen(a, n)  OBVIOUS
  <1>1. /\ h \in 0..n
        /\ h = n \/ (a + h) % 4 = 0
        /\ a % 4 = 0 => h = 0
    BY <1>h DEF HeadLen
  <1>2. WordsLen(a, n) = 4 * ((n - h) \div 4)  BY <1>h DEF WordsLen
  <1>3. PICK q : q = (n - h) \div 4  OBVIOUS
  <1>4. q \in Nat /\ 4 * q <= n - h /\ n - h < 4 * q + 4  BY <1>1, <1>3
  <1>5. /\ 4 * q \in 0..n /\ (4 * q) % 4 = 0 /\ h + 4 * q <= n /\ n < h + 4 * q + 4
        /\ 4 * q > 0 => (a + h) % 4 = 0
        /\ n <= 2 => 4 * q = 0
    BY <1>1, <1>4
  <1>q. QED  BY <1>1, <1>2, <1>3, <1>5, <1>h

(* A part of a sequence. *)
LEMMA Part ==
    ASSUME NEW S, NEW s \in Seq(S), NEW i \in Nat, NEW j \in Nat, i <= j, j <= Len(s)
    PROVE  /\ SubSeq(s, i + 1, j) \in Seq(S)
           /\ Len(SubSeq(s, i + 1, j)) = j - i
           /\ \A k \in 1..(j - i) : SubSeq(s, i + 1, j)[k] = s[i + k]
  <1>1. \A k \in (i + 1)..j : s[k] \in S  OBVIOUS
  <1>2. /\ SubSeq(s, i + 1, j) \in Seq(S)
        /\ Len(SubSeq(s, i + 1, j)) = IF i + 1 <= j THEN j - (i + 1) + 1 ELSE 0
        /\ \A k \in 1..(j - (i + 1) + 1) : SubSeq(s, i + 1, j)[k] = s[(i + 1) + k - 1]
    BY <1>1, SubSeqProperties
  <1>3. \A k \in 1..(j - i) : (i + 1) + k - 1 = i + k  OBVIOUS
  <1>q. QED  BY <1>2, <1>3

(* The same for the bytes, as a relation of the part to the whole. *)
PartOf(t, s, i, n) ==
    t \in Seq(Byte) /\ Len(t) = n /\ \A k \in 1..n : t[k] = s[i + k]

LEMMA BytePart ==
    ASSUME NEW s \in Seq(Byte), NEW i \in Nat, NEW j \in Nat, i <= j, j <= Len(s)
    PROVE  PartOf(SubSeq(s, i + 1, j), s, i, j - i)
  BY Part DEF PartOf

-----------------------------------------------------------------------------
(* Writes.                                                                 *)

(* The buffer starts with the data and is at least three characters longer. *)
LEMMA BufferFacts ==
    ASSUME NEW d \in Seq(Byte), NEW junk \in Byte
    PROVE  /\ Buffer(Escaped(d), junk) \in Seq(Byte)
           /\ Len(d) + 3 <= Len(Buffer(Escaped(d), junk))
           /\ \A i \in 1..Len(d) : Buffer(Escaped(d), junk)[i] = d[i]
  <1>s. PICK s : s = Escaped(d)  OBVIOUS
  <1>1. s \in Seq(Byte) /\ rsp_unescape(s) = d /\ Len(d) <= Len(s)  BY <1>s, RoundTrip
  <1>r. PICK rest : rest = SubSeq(s, Len(d) + 1, Len(s))  OBVIOUS
  <1>2. rest \in Seq(Byte)
    <2>1. Len(d) \in Nat /\ Len(s) \in Nat  BY <1>1
    <2>q. QED  BY <1>1, <1>r, <2>1, Part
  <1>3. <<0, junk, junk>> \in Seq(Byte) /\ Len(<<0, junk, junk>>) = 3
    <2>1. 0 \in Byte  BY DEF Byte
    <2>q. QED  BY <2>1
  <1>4. Buffer(s, junk) = d \o rest \o <<0, junk, junk>>  BY <1>1, <1>r DEF Buffer
  <1>v. PICK v : v = d \o rest  OBVIOUS
  <1>5. /\ v \in Seq(Byte) /\ Len(v) = Len(d) + Len(rest)
        /\ \A i \in 1..Len(d) : v[i] = d[i]
    BY <1>2, <1>v
  <1>6. /\ v \o <<0, junk, junk>> \in Seq(Byte)
        /\ Len(v \o <<0, junk, junk>>) = Len(v) + 3
        /\ \A i \in 1..Len(v) : (v \o <<0, junk, junk>>)[i] = v[i]
    BY <1>3, <1>5, ConcatProperties
  <1>q. QED  BY <1>s, <1>2, <1>4, <1>v, <1>5, <1>6

(* swap_buf leaves one or two bytes, and turns whole words round. *)
LEMMA SwapFacts ==
    ASSUME NEW s \in Seq(Byte), NEW n \in Nat, n + 3 <= Len(s)
    PROVE  /\ swap_buf(s, n) \in Seq(Byte)
           /\ Len(swap_buf(s, n)) = Len(s)
           /\ n <= 2 => \A i \in 1..n : swap_buf(s, n)[i] = s[i]
           /\ n % 4 = 0 => \A i \in 1..n : swap_buf(s, n)[i] = s[Opposite(i)]
  <1>g. PICK g : g = IF n > 2 THEN 4 * ((n + 3) \div 4) ELSE 0  OBVIOUS
  <1>1. g \in Nat /\ g % 4 = 0 /\ g <= n + 3 /\ (n % 4 = 0 => g = n)
        /\ (n <= 2 => g = 0)
    BY <1>g
  <1>t. PICK t : t = SubSeq(s, 1, g)  OBVIOUS
  <1>r. PICK r : r = SubSeq(s, g + 1, Len(s))  OBVIOUS
  <1>2. /\ t \in Seq(Byte) /\ Len(t) = g /\ \A k \in 1..g : t[k] = s[k]
    <2>1. /\ SubSeq(s, 0 + 1, g) \in Seq(Byte) /\ Len(SubSeq(s, 0 + 1, g)) = g - 0
          /\ \A k \in 1..(g - 0) : SubSeq(s, 0 + 1, g)[k] = s[0 + k]
      BY <1>1, Part
    <2>2. 0 + 1 = 1 /\ g - 0 = g /\ \A k \in 1..g : 0 + k = k  BY <1>1
    <2>q. QED  BY <1>t, <2>1, <2>2
  <1>3. /\ r \in Seq(Byte) /\ Len(r) = Len(s) - g
        /\ \A k \in 1..(Len(s) - g) : r[k] = s[g + k]
    BY <1>1, <1>r, Part
  <1>4. /\ Turned(t) \in Seq(Byte) /\ Len(Turned(t)) = g
        /\ \A i \in 1..g : Turned(t)[i] = t[Opposite(i)]
    BY <1>1, <1>2, TurnedFacts
  <1>5. swap_buf(s, n) = Turned(t) \o r  BY <1>g, <1>t, <1>r DEF swap_buf
  <1>6. /\ Turned(t) \o r \in Seq(Byte) /\ Len(Turned(t) \o r) = g + Len(r)
        /\ \A i \in 1..(g + Len(r)) :
             (Turned(t) \o r)[i] = IF i <= g THEN Turned(t)[i] ELSE r[i - g]
    <2>1. PICK v : v = Turned(t)  OBVIOUS
    <2>2. v \in Seq(Byte) /\ Len(v) = g /\ r \in Seq(Byte)  BY <1>3, <1>4, <2>1
    <2>3. /\ v \o r \in Seq(Byte) /\ Len(v \o r) = Len(v) + Len(r)
          /\ \A i \in 1..(Len(v) + Len(r)) :
               (v \o r)[i] = IF i <= Len(v) THEN v[i] ELSE r[i - Len(v)]
      BY <2>2, ConcatProperties
    <2>q. QED  BY <2>1, <2>2, <2>3
  <1>7. CASE n <= 2
    <2>1. g = 0 /\ Len(r) = Len(s)  BY <1>1, <1>3, <1>7
    <2>2. \A i \in 1..n : (Turned(t) \o r)[i] = s[i]
      <3> TAKE i \in 1..n
      <3>1. i \in 1..(g + Len(r)) /\ ~(i <= g) /\ i - g = i /\ g + i = i
            /\ i \in 1..(Len(s) - g)
        BY <2>1
      <3>2. (Turned(t) \o r)[i] = r[i]  BY <1>6, <3>1
      <3>q. QED  BY <1>3, <3>1, <3>2
    <2>3. n % 4 = 0 => n = 0  BY <1>7
    <2>4. Len(Turned(t) \o r) = Len(s) /\ Turned(t) \o r \in Seq(Byte)
      BY <1>6, <2>1
    <2>5. n % 4 = 0 => \A i \in 1..n : FALSE
      <3>1. SUFFICES ASSUME n % 4 = 0, NEW i \in 1..n PROVE FALSE  OBVIOUS
      <3>q. QED  BY <2>3, <3>1
    <2>6. \A i \in 1..n : swap_buf(s, n)[i] = s[i]  BY <1>5, <2>2
    <2>7. swap_buf(s, n) \in Seq(Byte) /\ Len(swap_buf(s, n)) = Len(s)  BY <1>5, <2>4
    <2>8. n % 4 = 0 => \A i \in 1..n : swap_buf(s, n)[i] = s[Opposite(i)]
      BY <2>5, Zenon
    <2>q. QED  BY <2>6, <2>7, <2>8, Zenon
  <1>8. CASE n > 2
    <2>1. ASSUME n % 4 = 0, NEW i \in 1..n
          PROVE  (Turned(t) \o r)[i] = s[Opposite(i)]
      <3>1. g = n /\ i \in 1..g /\ i <= g /\ i \in 1..(g + Len(r))  BY <1>1, <1>3, <2>1
      <3>2. Opposite(i) \in 1..g  BY <1>1, <3>1, OppositeFacts
      <3>3. (Turned(t) \o r)[i] = t[Opposite(i)]  BY <1>4, <1>6, <3>1
      <3>q. QED  BY <1>2, <3>2, <3>3
    <2>2. Len(Turned(t) \o r) = Len(s)  BY <1>1, <1>3, <1>6
    <2>q. QED  BY <1>5, <1>6, <1>8, <2>1, <2>2
  <1>q. QED  BY <1>7, <1>8

(* What rsp_write_mem_bin finds in the buffer for the data d: s before, b   *)
(* after swap_buf.                                                         *)
Found(d, s, b) ==
    /\ s \in Seq(Byte) /\ Len(d) + 3 <= Len(s)
    /\ \A i \in 1..Len(d) : s[i] = d[i]
    /\ b \in Seq(Byte) /\ Len(d) + 3 <= Len(b)
    /\ Len(d) <= 2 => \A i \in 1..Len(d) : b[i] = s[i]
    /\ Len(d) % 4 = 0 => \A i \in 1..Len(d) : b[i] = s[Opposite(i)]

LEMMA SwappedBuffer ==
    ASSUME NEW d \in Seq(Byte), NEW junk \in Byte
    PROVE  Found(d, Buffer(Escaped(d), junk), swap_buf(Buffer(Escaped(d), junk), Len(d)))
  <1>s. PICK s : s = Buffer(Escaped(d), junk)  OBVIOUS
  <1>1. s \in Seq(Byte) /\ Len(d) + 3 <= Len(s) /\ \A i \in 1..Len(d) : s[i] = d[i]
    BY <1>s, BufferFacts
  <1>n. PICK n : n = Len(d)  OBVIOUS
  <1>2. n \in Nat /\ n + 3 <= Len(s)  BY <1>1, <1>n
  <1>3. /\ swap_buf(s, n) \in Seq(Byte)
        /\ Len(swap_buf(s, n)) = Len(s)
        /\ n <= 2 => \A i \in 1..n : swap_buf(s, n)[i] = s[i]
        /\ n % 4 = 0 => \A i \in 1..n : swap_buf(s, n)[i] = s[Opposite(i)]
    BY <1>1, <1>2, SwapFacts
  <1>b. PICK b : b = swap_buf(s, n)  OBVIOUS
  <1>4. /\ b \in Seq(Byte) /\ n + 3 <= Len(b)
        /\ n <= 2 => \A i \in 1..n : b[i] = s[i]
        /\ n % 4 = 0 => \A i \in 1..n : b[i] = s[Opposite(i)]
    BY <1>2, <1>3, <1>b
  <1>5. Found(d, s, b)  BY <1>n, <1>1, <1>4, Zenon DEF Found
  <1>q. QED  BY <1>s, <1>n, <1>b, <1>5, Zenon

(* The memory new has the bytes s in place of those of to at a: turned     *)
(* round in their words, or in order.                                      *)
StoredTurned(new, to, a, s) ==
    /\ new \in [Address -> Byte]
    /\ \A x \in Address :
         new[x] = IF x \in a..(a + Len(s) - 1) THEN s[Opposite(x - a + 1)] ELSE to[x]

Stored(new, to, a, s) ==
    /\ new \in [Address -> Byte]
    /\ \A x \in Address :
         new[x] = IF x \in a..(a + Len(s) - 1) THEN s[x - a + 1] ELSE to[x]

(* The word an address is in. *)
LEMMA WordAtFacts ==
    ASSUME NEW a \in Nat
    PROVE  /\ WordAt(a) \in Nat /\ WordAt(a) <= a
           /\ a % 4 = 0 => WordAt(a) = a
  BY DEF WordAt

(* A block write stores its words turned round, from a word on. *)
LEMMA BlockFacts ==
    ASSUME NEW to \in [Address -> Byte], NEW a \in Nat, NEW s \in Seq(Byte),
           Len(s) % 4 = 0
    PROVE  StoredTurned(gdb_write_block(to, a, s), to, WordAt(a), s)
  <1>1. /\ Turned(s) \in Seq(Byte) /\ Len(Turned(s)) = Len(s)
        /\ \A i \in 1..Len(s) : Turned(s)[i] = s[Opposite(i)]
    BY TurnedFacts
  <1>b. PICK b : b = WordAt(a)  OBVIOUS
  <1>0. b \in Nat  BY <1>b, WordAtFacts
  <1>2. \A x \in Address : x \in b..(b + Len(s) - 1) => x - b + 1 \in 1..Len(s)
    BY <1>0 DEF Address
  <1>3. \A i \in 1..Len(s) : Turned(s)[i] \in Byte  BY <1>1
  <1>4. gdb_write_block(to, a, s) =
          [x \in Address |-> IF x \in b..(b + Len(s) - 1) THEN Turned(s)[x - b + 1]
                             ELSE to[x]]
    BY <1>b DEF gdb_write_block
  <1>5. StoredTurned(gdb_write_block(to, a, s), to, b, s)
    BY <1>1, <1>2, <1>3, <1>4 DEF StoredTurned
  <1>q. QED  BY <1>b, <1>5

(* From an aligned address on it is where it is meant to be. *)
LEMMA AlignedBlock ==
    ASSUME NEW to \in [Address -> Byte], NEW a \in Nat, NEW s \in Seq(Byte),
           Len(s) % 4 = 0, a % 4 = 0 \/ Len(s) = 0
    PROVE  StoredTurned(gdb_write_block(to, a, s), to, a, s)
  <1>n. PICK new : new = gdb_write_block(to, a, s)  OBVIOUS
  <1>b. PICK b : b = WordAt(a)  OBVIOUS
  <1>1. StoredTurned(new, to, b, s)  BY <1>n, <1>b, BlockFacts
  <1>2. b \in Nat /\ (a % 4 = 0 => b = a)  BY <1>b, WordAtFacts
  <1>3. CASE b = a  BY <1>n, <1>1, <1>3
  <1>4. CASE Len(s) = 0
    <2>1. \A x \in Address : x \notin b..(b + Len(s) - 1) /\ x \notin a..(a + Len(s) - 1)
      BY <1>2, <1>4 DEF Address
    <2>2. StoredTurned(new, to, a, s)  BY <1>1, <2>1 DEF StoredTurned
    <2>q. QED  BY <1>n, <2>2
  <1>q. QED  BY <1>2, <1>3, <1>4

(* Single bytes are stored in order. *)
LEMMA ByteFacts ==
    ASSUME NEW to \in [Address -> Byte], NEW a \in Nat, NEW s \in Seq(Byte)
    PROVE  Stored(gdb_write_bytes(to, a, s), to, a, s)
  <1>1. \A x \in Address : x \in a..(a + Len(s) - 1) => x - a + 1 \in 1..Len(s)
    BY DEF Address
  <1>2. \A i \in 1..Len(s) : s[i] \in Byte  OBVIOUS
  <1>q. QED  BY <1>1, <1>2 DEF gdb_write_bytes, Stored

(* An 'M' is answered with E01 and stores nothing, or it stores the whole  *)
(* words of its data.                                                      *)
LEMMA WriteMemFacts ==
    ASSUME mem \in [Address -> Byte], NEW a \in Address, NEW n \in Nat,
           NEW d \in Seq(Byte), rsp_write_mem(a, n, d), NEW b, b = WordAt(a)
    PROVE  /\ mem' \in [Address -> Byte]
           /\ answer' \in {Says("OK"), Says("E01")}
           /\ \A x \in Address : mem'[x] # mem[x] =>
                x \in b..(b + Len(d) - 1) /\ answer' = Says("OK")
           /\ n = Len(d) => mem' = Written(b, SubSeq(d, 1, 4 * (n \div 4)))
  <1>0. a \in Nat /\ b \in Nat
    <2>1. a \in Nat  BY DEF Address
    <2>q. QED  BY <2>1, WordAtFacts
  <1>1. CASE n # Len(d)  BY <1>1 DEF rsp_write_mem
  <1>2. CASE n = Len(d)
    <2>w. PICK w : w = 4 * (n \div 4)  OBVIOUS
    <2>1. w \in Nat /\ w <= n /\ w % 4 = 0  BY <2>w
    <2>t. PICK t : t = SubSeq(d, 1, w)  OBVIOUS
    <2>2. t \in Seq(Byte) /\ Len(t) = w
      <3>1. 0 \in Nat /\ 0 <= w /\ w <= Len(d)  BY <1>2, <2>1
      <3>2. PartOf(SubSeq(d, 0 + 1, w), d, 0, w - 0)  BY <2>1, <3>1, BytePart, Zenon
      <3>3. 0 + 1 = 1 /\ w - 0 = w  BY <2>1
      <3>4. PartOf(t, d, 0, w)  BY <2>t, <3>2, <3>3
      <3>q. QED  BY <3>4 DEF PartOf
    <2>3. answer' = Says("OK") /\ mem' = gdb_write_block(mem, a, Turned(t))
      BY <1>2, <2>w, <2>t DEF rsp_write_mem
    <2>v. PICK v : v = Turned(t)  OBVIOUS
    <2>4. /\ v \in Seq(Byte) /\ Len(v) = w
          /\ \A i \in 1..w : v[i] = t[Opposite(i)]
      BY <2>1, <2>2, <2>v, TurnedFacts
    <2>5. /\ mem' \in [Address -> Byte]
          /\ \A x \in Address :
               mem'[x] = IF x \in b..(b + w - 1) THEN v[Opposite(x - b + 1)] ELSE mem[x]
      <3>1. v \in Seq(Byte) /\ Len(v) % 4 = 0  BY <2>1, <2>4
      <3>2. StoredTurned(gdb_write_block(mem, a, v), mem, WordAt(a), v)
        BY <1>0, <3>1, BlockFacts, Zenon
      <3>3. StoredTurned(mem', mem, b, v)  BY <2>3, <2>v, <3>2, Zenon
      <3>q. QED  BY <2>4, <3>3, Zenon DEF StoredTurned
    <2>6. \A x \in Address :
            mem'[x] = IF x \in b..(b + w - 1) THEN t[x - b + 1] ELSE mem[x]
      <3> TAKE x \in Address
      <3>1. CASE x \in b..(b + w - 1)
        <4>n. b \in Nat /\ w \in Nat  BY <1>0, <2>1
        <4>x. x \in Int /\ x >= b /\ x <= b + w - 1  BY <3>1, <4>n
        <4>1. x - b + 1 \in 1..w  BY <4>n, <4>x
        <4>2. /\ Opposite(x - b + 1) \in 1..w
              /\ Opposite(Opposite(x - b + 1)) = x - b + 1
          BY <2>1, <4>1, OppositeFacts
        <4>3. v[Opposite(x - b + 1)] = t[x - b + 1]  BY <2>4, <4>1, <4>2
        <4>q. QED  BY <2>5, <3>1, <4>3
      <3>2. CASE x \notin b..(b + w - 1)  BY <2>5, <3>2
      <3>q. QED  BY <3>1, <3>2
    <2>7. \A x \in Address : mem'[x] # mem[x] => x \in b..(b + Len(d) - 1)
      <3> TAKE x \in Address
      <3>1. x \in b..(b + w - 1) => x \in b..(b + Len(d) - 1)
        BY <1>0, <1>2, <2>1
      <3>q. QED  BY <2>6, <3>1
    <2>8. mem' = Written(b, t)
      <3>2. \A x \in Address : x \in b..(b + w - 1) <=> x - b \in 0..(Len(t) - 1)
        BY <1>0, <2>1, <2>2 DEF Address
      <3>3. mem' = [x \in Address |-> mem'[x]]  BY <2>5
      <3>q. QED  BY <2>6, <3>2, <3>3 DEF Written
    <2>9. mem' = Written(b, SubSeq(d, 1, 4 * (n \div 4)))  BY <2>8, <2>t, <2>w
    <2>q. QED  BY <2>3, <2>5, <2>7, <2>9
  <1>q. QED  BY <1>1, <1>2

(* An 'X' stores only where its data are for, and exactly them if they are *)
(* whole words or at most two bytes.                                       *)
LEMMA WriteBinFacts ==
    ASSUME mem \in [Address -> Byte], NEW a \in Address, NEW n \in Nat,
           NEW d \in Seq(Byte), Len(d) \in {n, n - 1},
           NEW junk \in {0, 255}, rsp_write_mem_bin(a, n, Escaped(d), junk)
    PROVE  /\ mem' \in [Address -> Byte]
           /\ answer' = Says("OK")
           /\ \A x \in Address : mem'[x] # mem[x] => x \in a..(a + Len(d) - 1)
           /\ WholeWords(a, d) \/ Len(d) <= 2 => mem' = Written(a, d)
  <1>0. a \in Nat  BY DEF Address
  <1>l. PICK len : len = Len(d)  OBVIOUS
  <1>1. len \in Nat /\ rsp_unescape(Escaped(d)) = d
        /\ len = IF n < Len(d) THEN n ELSE Len(d)
    BY <1>l, RoundTrip
  <1>s. PICK s : s = Buffer(Escaped(d), junk)  OBVIOUS
  <1>b. PICK b : b = swap_buf(s, len)  OBVIOUS
  <1>sb. Found(d, s, b)
    <2>1. junk \in Byte  BY DEF Byte
    <2>2. Found(d, Buffer(Escaped(d), junk), swap_buf(Buffer(Escaped(d), junk), Len(d)))
      BY <2>1, SwappedBuffer, Zenon
    <2>q. QED  BY <1>l, <1>s, <1>b, <2>2, Zenon
  <1>2. s \in Seq(Byte) /\ len + 3 <= Len(s) /\ \A i \in 1..len : s[i] = d[i]
    BY <1>l, <1>sb, Zenon DEF Found
  <1>3. /\ b \in Seq(Byte) /\ len + 3 <= Len(b)
        /\ len <= 2 => \A i \in 1..len : b[i] = s[i]
        /\ len % 4 = 0 => \A i \in 1..len : b[i] = s[Opposite(i)]
    BY <1>l, <1>sb, Zenon DEF Found
  <1>h. PICK h : h = HeadLen(a, len)  OBVIOUS
  <1>w. PICK w : w = WordsLen(a, len)  OBVIOUS
  <1>4. /\ h \in Nat /\ w \in Nat /\ w % 4 = 0 /\ h + w <= len
        /\ len < h + w + 4
        /\ a % 4 = 0 => h = 0
        /\ len <= 2 => w = 0
    <2>0. len \in Nat  BY <1>1
    <2>1. /\ HeadLen(a, len) \in 0..len
          /\ WordsLen(a, len) \in 0..len /\ WordsLen(a, len) % 4 = 0
          /\ HeadLen(a, len) + WordsLen(a, len) <= len
          /\ len < HeadLen(a, len) + WordsLen(a, len) + 4
          /\ a % 4 = 0 => HeadLen(a, len) = 0
          /\ len <= 2 => WordsLen(a, len) = 0
      BY <1>0, <2>0, RangeParts
    <2>2. h \in 0..len /\ w \in 0..len  BY <1>h, <1>w, <2>1
    <2>q. QED  BY <1>h, <1>w, <2>0, <2>1, <2>2
  <1>x. PICK s1 : s1 = SubSeq(b, 1, h)  OBVIOUS
  <1>y. PICK s2 : s2 = SubSeq(b, h + 1, h + w)  OBVIOUS
  <1>z. PICK s3 : s3 = SubSeq(b, h + w + 1, len)  OBVIOUS
  <1>5. s1 \in Seq(Byte) /\ Len(s1) = h /\ \A k \in 1..h : s1[k] = b[k]
    <2>0. b \in Seq(Byte) /\ h \in Nat  BY <1>3, <1>4, Zenon
    <2>1. h <= Len(b) /\ 0 <= h /\ 0 \in Nat  BY <1>1, <1>3, <1>4
    <2>2. PartOf(SubSeq(b, 0 + 1, h), b, 0, h - 0)  BY <2>0, <2>1, BytePart
    <2>3. 0 + 1 = 1 /\ h - 0 = h /\ \A k \in 1..h : 0 + k = k  BY <1>4
    <2>4. PartOf(s1, b, 0, h)  BY <1>x, <2>2, <2>3
    <2>q. QED  BY <2>3, <2>4 DEF PartOf
  <1>6. s2 \in Seq(Byte) /\ Len(s2) = w /\ \A k \in 1..w : s2[k] = b[h + k]
    <2>0. b \in Seq(Byte) /\ h \in Nat  BY <1>3, <1>4, Zenon
    <2>e. PICK e : e = h + w  OBVIOUS
    <2>1. e \in Nat /\ h <= e /\ e <= Len(b)  BY <1>1, <1>3, <1>4, <2>e
    <2>2. PartOf(SubSeq(b, h + 1, e), b, h, e - h)  BY <2>0, <2>1, BytePart
    <2>w. e - h = w  BY <1>4, <2>e
    <2>3. PartOf(s2, b, h, w)  BY <1>y, <2>e, <2>w, <2>2, Zenon
    <2>q. QED  BY <2>3, Zenon DEF PartOf
  <1>7. /\ s3 \in Seq(Byte) /\ Len(s3) = len - (h + w)
        /\ \A k \in 1..(len - (h + w)) : s3[k] = b[h + w + k]
    <2>0. b \in Seq(Byte)  BY <1>3, Zenon
    <2>1. h + w \in Nat /\ h + w <= len /\ len <= Len(b)  BY <1>1, <1>3, <1>4
    <2>2. len \in Nat  BY <1>1
    <2>3. PartOf(SubSeq(b, h + w + 1, len), b, h + w, len - (h + w))
      BY <2>0, <2>1, <2>2, BytePart
    <2>4. PartOf(s3, b, h + w, len - (h + w))  BY <1>z, <2>3, Zenon
    <2>q. QED  BY <2>4, Zenon DEF PartOf
  <1>8. PICK m1 : m1 = gdb_write_bytes(mem, a, s1)  OBVIOUS
  <1>9. PICK m2 : m2 = gdb_write_block(m1, a + h, s2)  OBVIOUS
  <1>10. mem' = gdb_write_bytes(m2, a + h + w, s3) /\ answer' = Says("OK")
    BY <1>1, <1>s, <1>b, <1>h, <1>w, <1>x, <1>y, <1>z, <1>8, <1>9 DEF rsp_write_mem_bin
  <1>11. /\ m1 \in [Address -> Byte]
         /\ \A x \in Address :
              m1[x] = IF x \in a..(a + h - 1) THEN s1[x - a + 1] ELSE mem[x]
    <2>0. s1 \in Seq(Byte)  BY <1>5
    <2>1. Stored(gdb_write_bytes(mem, a, s1), mem, a, s1)
      BY <1>0, <2>0, ByteFacts, Zenon
    <2>2. Stored(m1, mem, a, s1)  BY <1>8, <2>1, Zenon
    <2>q. QED  BY <1>5, <2>2, Zenon DEF Stored
  <1>12. /\ m2 \in [Address -> Byte]
         /\ \A x \in Address :
              m2[x] = IF x \in (a + h)..(a + h + w - 1)
                      THEN s2[Opposite(x - (a + h) + 1)] ELSE m1[x]
    <2>1. a + h \in Nat  BY <1>0, <1>4
    <2>2. Len(s2) % 4 = 0 /\ s2 \in Seq(Byte) /\ m1 \in [Address -> Byte]
      BY <1>4, <1>6, <1>11
    <2>3. StoredTurned(gdb_write_block(m1, a + h, s2), m1, a + h, s2)
      <3>1. (a + h) % 4 = 0 \/ Len(s2) = 0
        <4>1. w > 0 => (a + h) % 4 = 0  BY <1>0, <1>1, <1>h, <1>w, RangeParts
        <4>q. QED  BY <1>4, <1>6, <4>1
      <3>q. QED  BY <2>1, <2>2, <3>1, AlignedBlock, Zenon
    <2>4. StoredTurned(m2, m1, a + h, s2)  BY <1>9, <2>3, Zenon
    <2>q. QED  BY <1>6, <2>4, Zenon DEF StoredTurned
  <1>13. /\ mem' \in [Address -> Byte]
         /\ \A x \in Address :
              mem'[x] = IF x \in (a + h + w)..(a + h + w + Len(s3) - 1)
                        THEN s3[x - (a + h + w) + 1] ELSE m2[x]
    <2>1. a + h + w \in Nat  BY <1>0, <1>4
    <2>2. s3 \in Seq(Byte) /\ m2 \in [Address -> Byte]  BY <1>7, <1>12, Zenon
    <2>3. Stored(gdb_write_bytes(m2, a + h + w, s3), m2, a + h + w, s3)
      BY <2>1, <2>2, ByteFacts, Zenon
    <2>4. Stored(mem', m2, a + h + w, s3)  BY <1>10, <2>3, Zenon
    <2>q. QED  BY <2>4, Zenon DEF Stored
  <1>14. ASSUME NEW x \in Address, x \notin a..(a + len - 1)
         PROVE  mem'[x] = mem[x]
    <2>1. /\ x \notin a..(a + h - 1) /\ x \notin (a + h)..(a + h + w - 1)
          /\ x \notin (a + h + w)..(a + h + w + Len(s3) - 1)
      <3>1. len \in Nat /\ x \in Int  BY <1>1 DEF Address
      <3>2. h \in Nat /\ w \in Nat /\ h + w <= len  BY <1>4, Zenon
      <3>3. a + h + w + Len(s3) - 1 = a + len - 1  BY <1>0, <1>7, <3>1, <3>2
      <3>4. x \notin a..(a + h - 1)  BY <1>0, <1>14, <3>1, <3>2
      <3>5. x \notin (a + h)..(a + h + w - 1)  BY <1>0, <1>14, <3>1, <3>2
      <3>6. x \notin (a + h + w)..(a + len - 1)  BY <1>0, <1>14, <3>1, <3>2
      <3>q. QED  BY <3>3, <3>4, <3>5, <3>6
    <2>q. QED  BY <1>11, <1>12, <1>13, <2>1
  <1>15. ASSUME WholeWords(a, d) \/ Len(d) <= 2,
                NEW x \in Address, x \in a..(a + len - 1)
         PROVE  mem'[x] = d[x - a + 1]
    <2>0. x \in Nat /\ x - a + 1 \in 1..len  BY <1>0, <1>1, <1>15 DEF Address
    <2>1. CASE WholeWords(a, d)
      <3>1. h = 0 /\ w = len /\ len % 4 = 0 /\ a + h = a
        <4>1. len \in Nat /\ len % 4 = 0 /\ a % 4 = 0
          BY <1>1, <1>l, <2>1 DEF WholeWords
        <4>2. h = 0 /\ w <= len /\ len < w + 4 /\ w % 4 = 0 /\ w \in Nat
          BY <1>4, <4>1
        <4>q. QED  BY <1>0, <4>1, <4>2
      <3>2. /\ x \notin (a + h + w)..(a + h + w + Len(s3) - 1)
            /\ x \in (a + h)..(a + h + w - 1)
        BY <1>0, <1>1, <1>15, <3>1
      <3>3. mem'[x] = s2[Opposite(x - a + 1)]
        BY <1>12, <1>13, <3>1, <3>2
      <3>4. /\ Opposite(x - a + 1) \in 1..len
            /\ Opposite(Opposite(x - a + 1)) = x - a + 1
        <4>1. len \in Nat /\ len % 4 = 0  BY <1>1, <3>1
        <4>2. PICK i : i = x - a + 1  OBVIOUS
        <4>3. i \in 1..len  BY <2>0, <4>2
        <4>4. Opposite(i) \in 1..len /\ Opposite(Opposite(i)) = i
          BY <4>1, <4>3, OppositeFacts
        <4>q. QED  BY <4>2, <4>4
      <3>5. s2[Opposite(x - a + 1)] = b[Opposite(x - a + 1)]
        <4>1. h + Opposite(x - a + 1) = Opposite(x - a + 1)  BY <3>1, <3>4
        <4>q. QED  BY <1>6, <3>1, <3>4, <4>1
      <3>6. b[Opposite(x - a + 1)] = s[x - a + 1]  BY <1>3, <3>1, <3>4
      <3>q. QED  BY <1>2, <2>0, <3>3, <3>5, <3>6
    <2>2. CASE Len(d) <= 2
      <3>1. w = 0 /\ a + h + w = a + h  BY <1>0, <1>l, <1>4, <2>2
      <3>2. x \notin (a + h)..(a + h + w - 1)  BY <1>0, <1>4, <2>0, <3>1
      <3>3. b[x - a + 1] = d[x - a + 1]  BY <1>l, <1>2, <1>3, <2>0, <2>2
      <3>4. CASE x \in (a + h)..(a + len - 1)
        <4>1. x \in (a + h + w)..(a + h + w + Len(s3) - 1)
          <5>1. len \in Nat /\ Len(s3) = len - h  BY <1>1, <1>4, <1>7, <3>1
          <5>2. a + h + w + Len(s3) - 1 = a + len - 1  BY <1>0, <1>4, <3>1, <5>1
          <5>q. QED  BY <3>1, <3>4, <5>2
        <4>2. x - (a + h) + 1 \in 1..(len - (h + w)) /\ h + w + (x - (a + h) + 1) = x - a + 1
          BY <1>0, <1>1, <1>4, <2>0, <3>1, <3>4
        <4>3. mem'[x] = s3[x - (a + h) + 1]  BY <1>13, <3>1, <4>1
        <4>4. s3[x - (a + h) + 1] = b[h + w + (x - (a + h) + 1)]  BY <1>7, <4>2
        <4>q. QED  BY <3>3, <4>2, <4>3, <4>4
      <3>5. CASE x \in a..(a + h - 1)
        <4>1. x \notin (a + h + w)..(a + h + w + Len(s3) - 1) /\ x - a + 1 \in 1..h
          BY <1>0, <1>4, <1>7, <2>0, <3>1, <3>5
        <4>2. mem'[x] = s1[x - a + 1]  BY <1>11, <1>12, <1>13, <3>2, <3>5, <4>1
        <4>q. QED  BY <1>5, <3>3, <4>1, <4>2
      <3>6. x \in (a + h)..(a + len - 1) \/ x \in a..(a + h - 1)
        BY <1>0, <1>1, <1>4, <1>15, <2>0
      <3>q. QED  BY <3>4, <3>5, <3>6
    <2>q. QED  BY <1>15, <2>1, <2>2
  <1>16. ASSUME WholeWords(a, d) \/ Len(d) <= 2
         PROVE  mem' = Written(a, d)
    <2>1. \A x \in Address : x \in a..(a + len - 1) <=> x - a \in 0..(Len(d) - 1)
      BY <1>0, <1>1, <1>l DEF Address
    <2>2. \A x \in Address :
            mem'[x] = IF x - a \in 0..(Len(d) - 1) THEN d[x - a + 1] ELSE mem[x]
      BY <1>14, <1>15, <1>16, <2>1
    <2>3. mem' = [x \in Address |-> mem'[x]]  BY <1>13
    <2>q. QED  BY <2>2, <2>3 DEF Written
  <1>q. QED  BY <1>l, <1>10, <1>13, <1>14, <1>16

-----------------------------------------------------------------------------
(* Reads.                                                                  *)

(* The place in a range that the byte at place i of the answer is from. *)
From(a, n, i) ==
    IF i \in (HeadLen(a, n) + 1)..(HeadLen(a, n) + WordsLen(a, n))
    THEN HeadLen(a, n) + Opposite(i - HeadLen(a, n)) ELSE i

(* What rsp_read_mem puts into rec_buf. *)
LEMMA ReadFacts ==
    ASSUME mem \in [Address -> Byte], NEW a \in Address, NEW n \in Nat, a + n <= Size
    PROVE  /\ rec_buf(a, n) \in Seq(Byte)
           /\ Len(rec_buf(a, n)) = n
           /\ \A i \in 1..n : rec_buf(a, n)[i] = mem[a + From(a, n, i) - 1]
  <1>0. a \in Nat  BY DEF Address
  <1>a. \A k \in 1..n : mem[a + k - 1] \in Byte
    <2>1. \A k \in 1..n : a + k - 1 \in Address  BY <1>0 DEF Address
    <2>q. QED  BY <2>1
  <1>h. PICK h : h = HeadLen(a, n)  OBVIOUS
  <1>w. PICK w : w = WordsLen(a, n)  OBVIOUS
  <1>1. h \in 0..n /\ w \in 0..n /\ w % 4 = 0 /\ h + w <= n
    BY <1>0, <1>h, <1>w, RangeParts
  <1>2. \A k : From(a, n, k) = IF k \in (h + 1)..(h + w) THEN h + Opposite(k - h) ELSE k
    BY <1>h, <1>w DEF From
  <1>x. PICK s1 : s1 = gdb_read_bytes(a, h)  OBVIOUS
  <1>y. PICK s2 : s2 = gdb_read_block(a + h, w)  OBVIOUS
  <1>z. PICK s3 : s3 = gdb_read_bytes(a + h + w, n - h - w)  OBVIOUS
  <1>3. s1 \in Seq(Byte) /\ Len(s1) = h /\ \A k \in 1..h : s1[k] = mem[a + k - 1]
    <2>1. s1 = [k \in 1..h |-> mem[a + k - 1]]  BY <1>x DEF gdb_read_bytes
    <2>2. \A k \in 1..h : mem[a + k - 1] \in Byte  BY <1>a, <1>1
    <2>q. QED  BY <1>1, <2>1, <2>2
  <1>4. /\ s2 \in Seq(Byte) /\ Len(s2) = w
        /\ \A k \in 1..w : s2[k] = mem[a + h + Opposite(k) - 1]
    <2>t. PICK t : t = [k \in 1..w |-> mem[a + h + k - 1]]  OBVIOUS
    <2>1. \A k \in 1..w : mem[a + h + k - 1] \in Byte
      <3> TAKE k \in 1..w
      <3>1. h + k \in 1..n /\ a + h + k - 1 = a + (h + k) - 1  BY <1>0, <1>1
      <3>q. QED  BY <1>a, <3>1
    <2>2. t \in Seq(Byte) /\ Len(t) = w  BY <1>1, <2>t, <2>1
    <2>3. s2 = Turned(t)  BY <1>y, <2>t DEF gdb_read_block
    <2>4. Len(t) % 4 = 0  BY <1>1, <2>2
    <2>5. /\ Turned(t) \in Seq(Byte) /\ Len(Turned(t)) = Len(t)
          /\ \A k \in 1..Len(t) : Turned(t)[k] = t[Opposite(k)]
      BY <2>2, <2>4, TurnedFacts
    <2>6. ASSUME NEW k \in 1..w
          PROVE  s2[k] = mem[a + h + Opposite(k) - 1]
      <3>0. w \in Nat  BY <1>1
      <3>1. Opposite(k) \in 1..w  BY <1>1, <3>0, OppositeFacts
      <3>2. s2[k] = t[Opposite(k)]  BY <2>2, <2>3, <2>5
      <3>q. QED  BY <2>t, <3>1, <3>2
    <2>q. QED  BY <2>2, <2>3, <2>5, <2>6
  <1>5. /\ s3 \in Seq(Byte) /\ Len(s3) = n - h - w
        /\ \A k \in 1..(n - h - w) : s3[k] = mem[a + h + w + k - 1]
    <2>1. s3 = [k \in 1..(n - h - w) |-> mem[a + h + w + k - 1]]
      BY <1>z DEF gdb_read_bytes
    <2>2. \A k \in 1..(n - h - w) : mem[a + h + w + k - 1] \in Byte
      <3> TAKE k \in 1..(n - h - w)
      <3>1. h + w + k \in 1..n /\ a + h + w + k - 1 = a + (h + w + k) - 1  BY <1>0, <1>1
      <3>q. QED  BY <1>a, <3>1
    <2>3. n - h - w \in Nat  BY <1>1
    <2>q. QED  BY <2>1, <2>2, <2>3
  <1>6. rec_buf(a, n) = s1 \o s2 \o s3  BY <1>h, <1>w, <1>x, <1>y, <1>z DEF rec_buf
  <1>v. PICK v : v = s1 \o s2  OBVIOUS
  <1>7. /\ v \in Seq(Byte) /\ Len(v) = h + w
        /\ \A k \in 1..(h + w) : v[k] = IF k <= h THEN s1[k] ELSE s2[k - h]
    <2>1. s1 \in Seq(Byte) /\ s2 \in Seq(Byte) /\ Len(s1) = h /\ Len(s2) = w
      BY <1>3, <1>4
    <2>2. /\ s1 \o s2 \in Seq(Byte) /\ Len(s1 \o s2) = Len(s1) + Len(s2)
          /\ \A k \in 1..(Len(s1) + Len(s2)) :
               (s1 \o s2)[k] = IF k <= Len(s1) THEN s1[k] ELSE s2[k - Len(s1)]
      BY <2>1, ConcatProperties
    <2>q. QED  BY <1>v, <2>1, <2>2
  <1>d. PICK t : t = v \o s3  OBVIOUS
  <1>8. /\ t \in Seq(Byte) /\ Len(t) = n
        /\ \A k \in 1..n : t[k] = IF k <= h + w THEN v[k] ELSE s3[k - (h + w)]
    <2>1. /\ v \o s3 \in Seq(Byte) /\ Len(v \o s3) = Len(v) + Len(s3)
          /\ \A k \in 1..(Len(v) + Len(s3)) :
               (v \o s3)[k] = IF k <= Len(v) THEN v[k] ELSE s3[k - Len(v)]
      BY <1>5, <1>7, ConcatProperties
    <2>2. Len(v) + Len(s3) = n  BY <1>1, <1>5, <1>7
    <2>q. QED  BY <1>d, <1>7, <2>1, <2>2
  <1>9. ASSUME NEW i \in 1..n
        PROVE  t[i] = mem[a + From(a, n, i) - 1]
    <2>1. CASE i <= h
      <3>1. i \in 1..h /\ i \in 1..(h + w) /\ i <= h + w /\ i \notin (h + 1)..(h + w)
        BY <1>1, <2>1
      <3>2. From(a, n, i) = i  BY <1>2, <3>1
      <3>3. t[i] = s1[i]  BY <1>7, <1>8, <2>1, <3>1
      <3>q. QED  BY <1>3, <3>1, <3>2, <3>3
    <2>2. CASE i > h /\ i <= h + w
      <3>1. i - h \in 1..w /\ i \in 1..(h + w) /\ ~(i <= h) /\ i \in (h + 1)..(h + w)
        BY <1>1, <2>2
      <3>2. From(a, n, i) = h + Opposite(i - h)  BY <1>2, <3>1
      <3>3. t[i] = s2[i - h]  BY <1>7, <1>8, <2>2, <3>1
      <3>4. s2[i - h] = mem[a + h + Opposite(i - h) - 1]  BY <1>4, <3>1
      <3>5. Opposite(i - h) \in 1..w
        <4>1. w \in Nat  BY <1>1
        <4>q. QED  BY <1>1, <3>1, <4>1, OppositeFacts
      <3>6. a + h + Opposite(i - h) - 1 = a + (h + Opposite(i - h)) - 1
        BY <1>0, <1>1, <3>5
      <3>q. QED  BY <3>2, <3>3, <3>4, <3>6
    <2>3. CASE i > h + w
      <3>1. i - (h + w) \in 1..(n - h - w) /\ ~(i <= h + w) /\ i \notin (h + 1)..(h + w)
            /\ a + h + w + (i - (h + w)) - 1 = a + i - 1
        BY <1>0, <1>1, <2>3
      <3>2. From(a, n, i) = i  BY <1>2, <3>1
      <3>3. t[i] = s3[i - (h + w)]  BY <1>8, <3>1
      <3>4. s3[i - (h + w)] = mem[a + h + w + (i - (h + w)) - 1]  BY <1>5, <3>1
      <3>q. QED  BY <3>1, <3>2, <3>3, <3>4
    <2>4. i <= h \/ (i > h /\ i <= h + w) \/ i > h + w  BY <1>1
    <2>q. QED  BY <2>1, <2>2, <2>3, <2>4
  <1>q. QED  BY <1>6, <1>v, <1>d, <1>8, <1>9

(* The words that are read as words are those in the range. *)
LEMMA InWhole ==
    ASSUME NEW a \in Address, NEW n \in Nat, a + n <= Size, NEW i \in 1..n,
           NEW x, x = a + i - 1
    PROVE  a + From(a, n, i) - 1 = IF x \in Whole(a, n) THEN Mirror(x) ELSE x
  <1>0. a \in Nat /\ x \in Nat /\ x \in a..(a + n - 1)  BY DEF Address
  <1>h. PICK h : h = HeadLen(a, n)  OBVIOUS
  <1>w. PICK w : w = WordsLen(a, n)  OBVIOUS
  <1>1. /\ h \in 0..n /\ w \in 0..n /\ w % 4 = 0 /\ h + w <= n /\ n < h + w + 4
        /\ w > 0 => (a + h) % 4 = 0
    BY <1>0, <1>h, <1>w, RangeParts
  <1>2. From(a, n, i) = IF i \in (h + 1)..(h + w) THEN h + Opposite(i - h) ELSE i
    BY <1>h, <1>w DEF From
  <1>r. PICK r : r = w \div 4  OBVIOUS
  <1>3. w = 4 * r /\ r \in Nat  BY <1>1, <1>r
  <1>4. CASE i \in (h + 1)..(h + w)
    <2>p. PICK p : p = (a + h) \div 4  OBVIOUS
    <2>1. p \in Nat /\ a + h = 4 * p  BY <1>0, <1>1, <1>4, <2>p
    <2>q. PICK q : q = (i - h - 1) \div 4  OBVIOUS
    <2>c. PICK c : c = (i - h - 1) % 4  OBVIOUS
    <2>2. q \in Nat /\ c \in 0..3 /\ i - h - 1 = 4 * q + c
      <3>z. PICK z : z = i - h - 1  OBVIOUS
      <3>1. z \in Nat  BY <1>1, <1>4, <3>z
      <3>2. q = z \div 4 /\ c = z % 4  BY <2>q, <2>c, <3>z
      <3>3. q \in Nat /\ c \in 0..3 /\ z = 4 * q + c  BY <3>1, <3>2
      <3>q. QED  BY <3>3, <3>z
    <2>3. 4 * q + 4 <= w  BY <1>1, <1>3, <1>4, <2>2
    <2>y. PICK y : y = 4 * (p + q)  OBVIOUS
    <2>4. y \in Nat /\ y % 4 = 0 /\ y >= a /\ y + 3 < a + n /\ x = y + c
      BY <1>0, <1>1, <2>1, <2>2, <2>3, <2>y
    <2>5. y \in Address /\ x \in y..(y + 3)  BY <1>0, <2>2, <2>4 DEF Address
    <2>6. x \in Whole(a, n)  BY <1>0, <2>4, <2>5 DEF Whole
    <2>7. Mirror(x) = y + 3 - c
      <3>1. x \div 4 = p + q /\ x % 4 = c  BY <2>1, <2>2, <2>4, <2>y
      <3>q. QED  BY <2>y, <3>1 DEF Mirror
    <2>8. Opposite(i - h) = 4 * q + 4 - c  BY <2>q, <2>c DEF Opposite
    <2>9. a + (h + (4 * q + 4 - c)) - 1 = y + 3 - c
      BY <1>0, <1>1, <2>1, <2>2, <2>y
    <2>10. QED  BY <1>2, <1>4, <2>6, <2>7, <2>8, <2>9
  <1>5. CASE i \notin (h + 1)..(h + w)
    <2>1. ASSUME x \in Whole(a, n) PROVE FALSE
      <3>1. PICK y \in Address : y % 4 = 0 /\ x \in y..(y + 3) /\ y >= a /\ y + 3 < a + n
        BY <2>1 DEF Whole
      <3>2. y \in Nat  BY DEF Address
      <3>3. y >= a + h /\ (a + h) % 4 = 0
        <4>1. h = n \/ ((a + h) % 4 = 0 /\ h < 4)  BY <1>0, <1>h DEF HeadLen
        <4>2. h = n => n <= 3  BY <1>0, <1>h DEF HeadLen
        <4>3. h # n  BY <1>0, <3>1, <3>2, <4>2
        <4>4. (a + h) % 4 = 0 /\ h < 4  BY <4>1, <4>3
        <4>5. y >= a + h
          <5>1. PICK u : u = (a + h) \div 4  OBVIOUS
          <5>2. PICK t : t = y \div 4  OBVIOUS
          <5>3. /\ a + h = 4 * u /\ u \in Nat /\ h \in Nat
                /\ y = 4 * t /\ t \in Nat
            BY <1>0, <1>1, <3>1, <3>2, <4>4, <5>1, <5>2
          <5>q. QED  BY <1>0, <3>1, <4>4, <5>3
        <4>q. QED  BY <4>4, <4>5
      <3>u. PICK u : u = (a + h) \div 4  OBVIOUS
      <3>t. PICK t : t = y \div 4  OBVIOUS
      <3>4. a + h = 4 * u /\ u \in Nat /\ y = 4 * t /\ t \in Nat /\ h \in Nat
        BY <1>0, <1>1, <3>1, <3>2, <3>3, <3>u, <3>t
      <3>5. i >= h + 1  BY <1>0, <3>1, <3>3, <3>4
      <3>6. t < u + r  BY <1>0, <1>1, <1>3, <3>1, <3>4
      <3>7. i <= h + w  BY <1>0, <1>3, <3>1, <3>4, <3>6
      <3>q. QED  BY <1>1, <1>5, <3>5, <3>7
    <2>2. From(a, n, i) = i  BY <1>2, <1>5
    <2>q. QED  BY <1>0, <2>1, <2>2
  <1>q. QED  BY <1>4, <1>5

-----------------------------------------------------------------------------
(* The theorems.                                                           *)

(* The length that is read, and how much of the answer is past the buffer. *)
LEMMA ReadLenFacts ==
    ASSUME NEW n \in 0..GDB_BUF_MAX, NEW l, l = ReadLen(n)
    PROVE  /\ l \in Nat
           /\ l = IF n < GDB_BUF_MAX THEN n ELSE (GDB_BUF_MAX - 1) \div 2
           /\ Past(l) \in 0..(GDB_BUF_MAX - 1)
           /\ Past(l) = 0 <=> 2 * n < GDB_BUF_MAX \/ n >= GDB_BUF_MAX
           /\ Past(l) > 0 => Past(l) = 2 * l + 1 - GDB_BUF_MAX
  <1>0. GDB_BUF_MAX \in Nat \ {0} /\ n \in Nat  OBVIOUS
  <1>1. l = IF n < GDB_BUF_MAX THEN n ELSE (GDB_BUF_MAX - 1) \div 2
    BY <1>0 DEF ReadLen
  <1>q. QED  BY <1>0, <1>1 DEF Past

(* What a step does, request by request. *)
LEMMA StepFacts ==
    ASSUME TypeOK, Next
    PROVE  \E a \in Address, n \in Nat :
             /\ asked' \in 0..MaxAsked
             /\ \/ m(a, n) /\ n \in 0..GDB_BUF_MAX
                \/ \E d \in Payloads : /\ d \in Seq(Byte) /\ Len(d) \in {n, n - 1}
                                       /\ M(a, n, d) \/ X(a, n, d)
  <1>1. ASSUME asked < MaxAsked, asked' = asked + 1
        PROVE  asked' \in 0..MaxAsked
    BY <1>1 DEF TypeOK
  <1>2. CASE \E a \in Address, n \in 0..GDB_BUF_MAX : m(a, n)
    <2>1. PICK a \in Address, n \in 0..GDB_BUF_MAX : m(a, n)  BY <1>2
    <2>2. n \in Nat  OBVIOUS
    <2>3. asked' \in 0..MaxAsked  BY <1>1, <2>1 DEF m, Ask
    <2>q. QED  BY <2>1, <2>2, <2>3
  <1>3. CASE \E a \in Address, n \in 0..Size :
               \E d \in Data(n) : M(a, n, d) \/ X(a, n, d)
    <2>1. PICK a \in Address, n \in 0..Size :
            \E d \in Data(n) : M(a, n, d) \/ X(a, n, d)
      BY <1>3
    <2>2. PICK d \in Data(n) : M(a, n, d) \/ X(a, n, d)  BY <2>1
    <2>3. n \in Nat  OBVIOUS
    <2>4. d \in Payloads /\ d \in Seq(Byte) /\ Len(d) \in {n, n - 1}  BY DEF Data
    <2>5. asked' \in 0..MaxAsked  BY <1>1, <2>2 DEF M, X, Ask
    <2>q. QED  BY <2>2, <2>3, <2>4, <2>5
  <1>q. QED  BY <1>2, <1>3 DEF Next

(* An 'm' changes no memory and answers with the bytes of its range. *)
LEMMA ReadStep ==
    ASSUME TypeOK, NEW a \in Address, NEW n \in 0..GDB_BUF_MAX, m(a, n),
           NEW l, l = ReadLen(n)
    PROVE  /\ mem' = mem /\ last' = [k |-> "m", a |-> a, n |-> n, d |-> <<>>]
           /\ answer'.text = "bytes" /\ answer'.past = Past(l)
           /\ answer'.data \in Seq(Byte) /\ Len(answer'.data) = l
           /\ \A i \in 1..l : 2 * i <= GDB_BUF_MAX => answer'.data[i] = rec_buf(a, l)[i]
           /\ l \in Nat /\ a + l <= Size
  <1>b. PICK b : b = rec_buf(a, l)  OBVIOUS
  <1>1. a + l <= Size /\ last' = [k |-> "m", a |-> a, n |-> n, d |-> <<>>]
    BY DEF m, Ask
  <1>2. PICK over \in SUBSET (1..ReadLen(n)) : rsp_read_mem(a, n, over)  BY DEF m
  <1>3. /\ mem' = mem
        /\ over \subseteq {i \in 1..l : 2 * i > GDB_BUF_MAX}
        /\ answer' = [text |-> "bytes", past |-> Past(l),
                      data |-> [i \in 1..l |-> IF i \in over THEN 0 ELSE b[i]]]
    BY <1>b, <1>2 DEF rsp_read_mem
  <1>4. l \in Nat  BY ReadLenFacts
  <1>5. mem \in [Address -> Byte]  BY DEF TypeOK
  <1>6. b \in Seq(Byte) /\ Len(b) = l  BY <1>b, <1>1, <1>4, <1>5, ReadFacts
  <1>d. PICK d : d = [i \in 1..l |-> IF i \in over THEN 0 ELSE b[i]]  OBVIOUS
  <1>7. 0 \in Byte /\ \A i \in 1..l : b[i] \in Byte
    <2>1. 0 \in Byte  BY DEF Byte
    <2>q. QED  BY <1>6, <2>1
  <1>8. d \in Seq(Byte) /\ Len(d) = l  BY <1>4, <1>7, <1>d
  <1>9. ASSUME NEW i \in 1..l, 2 * i <= GDB_BUF_MAX PROVE d[i] = b[i]
    <2>1. ~(2 * i > GDB_BUF_MAX)  BY <1>4, <1>9
    <2>2. i \notin over  BY <1>3, <2>1
    <2>q. QED  BY <1>d, <2>2
  <1>10. answer'.text = "bytes" /\ answer'.past = Past(l) /\ answer'.data = d
    BY <1>3, <1>d
  <1>q. QED  BY <1>b, <1>1, <1>3, <1>4, <1>8, <1>9, <1>10

(* A write keeps its range and, if it is of the simple kinds, is exact. *)
LEMMA WriteStep ==
    ASSUME TypeOK, NEW a \in Address, NEW n \in Nat, NEW d \in Seq(Byte),
           Len(d) \in {n, n - 1}, M(a, n, d) \/ X(a, n, d)
    PROVE  /\ last' = [k |-> "M", a |-> a, n |-> n, d |-> d] \/
              last' = [k |-> "X", a |-> a, n |-> n, d |-> d]
           /\ mem' \in [Address -> Byte]
           /\ answer' \in {Says("OK"), Says("E01")}
           /\ \A x \in Address : mem'[x] # mem[x] =>
                x \in Start(last')..(Start(last') + Len(d) - 1) /\ answer' = Says("OK")
           /\ last'.k = "M" /\ n = Len(d) =>
                mem' = Written(Start(last'), SubSeq(d, 1, 4 * (n \div 4)))
           /\ last'.k = "X" /\ (WholeWords(a, d) \/ Len(d) <= 2) =>
                mem' = Written(Start(last'), d)
  <1>0. mem \in [Address -> Byte]  BY DEF TypeOK
  <1>1. CASE M(a, n, d)
    <2>1. last' = [k |-> "M", a |-> a, n |-> n, d |-> d] /\ rsp_write_mem(a, n, d)
      BY <1>1 DEF M, Ask
    <2>b. PICK b : b = WordAt(a)  OBVIOUS
    <2>2. /\ mem' \in [Address -> Byte]
          /\ answer' \in {Says("OK"), Says("E01")}
          /\ \A x \in Address : mem'[x] # mem[x] =>
               x \in b..(b + Len(d) - 1) /\ answer' = Says("OK")
          /\ n = Len(d) => mem' = Written(b, SubSeq(d, 1, 4 * (n \div 4)))
      BY <1>0, <2>1, <2>b, WriteMemFacts
    <2>3. last'.k = "M" /\ Start(last') = b  BY <2>1, <2>b DEF Start
    <2>q. QED  BY <2>1, <2>2, <2>3
  <1>2. CASE X(a, n, d)
    <2>1. last' = [k |-> "X", a |-> a, n |-> n, d |-> d]
      BY <1>2 DEF X, Ask
    <2>2. PICK junk \in {0, 255} : rsp_write_mem_bin(a, n, Escaped(d), junk)
      BY <1>2 DEF X
    <2>3. /\ mem' \in [Address -> Byte]
          /\ answer' = Says("OK")
          /\ \A x \in Address : mem'[x] # mem[x] => x \in a..(a + Len(d) - 1)
          /\ WholeWords(a, d) \/ Len(d) <= 2 => mem' = Written(a, d)
      BY <1>0, <2>2, WriteBinFacts
    <2>4. last'.k = "X" /\ Start(last') = a  BY <2>1 DEF Start
    <2>q. QED  BY <2>1, <2>3, <2>4
  <1>q. QED  BY <1>1, <1>2

(* Every step keeps TypeOK. *)
LEMMA NextTyped ==
    ASSUME TypeOK, [Next]_vars
    PROVE  TypeOK'
  <1>1. CASE UNCHANGED vars  BY <1>1 DEF vars, TypeOK
  <1>2. CASE Next
    <2>1. PICK a \in Address, n \in Nat :
            /\ asked' \in 0..MaxAsked
            /\ \/ m(a, n) /\ n \in 0..GDB_BUF_MAX
               \/ \E d \in Payloads : /\ d \in Seq(Byte) /\ Len(d) \in {n, n - 1}
                                      /\ M(a, n, d) \/ X(a, n, d)
      BY <1>2, StepFacts
    <2>2. CASE m(a, n) /\ n \in 0..GDB_BUF_MAX
      <3>1. /\ mem' = mem /\ last' = [k |-> "m", a |-> a, n |-> n, d |-> <<>>]
            /\ answer'.text = "bytes" /\ answer'.data \in Seq(Byte)
            /\ answer'.past = Past(ReadLen(n))
        BY <2>2, ReadStep
      <3>2. last'.k = "m" /\ last'.a = a  BY <3>1
      <3>3. answer'.past \in 0..(GDB_BUF_MAX - 1)  BY <2>2, <3>1, ReadLenFacts
      <3>q. QED  BY <2>1, <3>1, <3>2, <3>3 DEF TypeOK
    <2>3. CASE \E d \in Payloads : /\ d \in Seq(Byte) /\ Len(d) \in {n, n - 1}
                                   /\ M(a, n, d) \/ X(a, n, d)
      <3>1. PICK d \in Payloads : /\ d \in Seq(Byte) /\ Len(d) \in {n, n - 1}
                                  /\ M(a, n, d) \/ X(a, n, d)
        BY <2>3
      <3>2. /\ last' = [k |-> "M", a |-> a, n |-> n, d |-> d] \/
               last' = [k |-> "X", a |-> a, n |-> n, d |-> d]
            /\ mem' \in [Address -> Byte]
            /\ answer' \in {Says("OK"), Says("E01")}
        BY <3>1, WriteStep
      <3>3. last'.k \in {"M", "X"} /\ last'.a = a  BY <3>2
      <3>4. answer'.text \in {"OK", "E01"} /\ answer'.data = <<>> /\ answer'.past = 0
        BY <3>2 DEF Says
      <3>5. answer'.data \in Seq(Byte) /\ answer'.past \in 0..(GDB_BUF_MAX - 1)
        BY <3>4
      <3>q. QED  BY <2>1, <3>2, <3>3, <3>4, <3>5 DEF TypeOK
    <2>q. QED  BY <2>1, <2>2, <2>3
  <1>q. QED  BY <1>1, <1>2

(* The type invariant of the memory requests: memory and the answers hold  *)
(* bytes, whatever is escaped, cut or turned round on the way.             *)
THEOREM MemoryTypeCorrect == Spec => []TypeOK
  <1>1. Init => TypeOK
    <2> SUFFICES ASSUME Init
                 PROVE  TypeOK
      OBVIOUS
    <2>1. 0 \in Address  BY DEF Address
    <2>2. last.k = "none" /\ last.a = 0  BY DEF Init, NoRequest
    <2>3. answer.text = "OK" /\ answer.data = <<>> /\ answer.past = 0
      BY DEF Init, Says
    <2>4. answer.data \in Seq(Byte) /\ answer.past \in 0..(GDB_BUF_MAX - 1)  BY <2>3
    <2>q. QED  BY <2>1, <2>2, <2>3, <2>4 DEF Init, TypeOK
  <1>q. QED  BY <1>1, NextTyped, PTL DEF Spec

(* rsp_write_mem stores exactly the whole words of what GDB sent, from the *)
(* word on that the address is in, and rsp_write_mem_bin any number of     *)
(* whole words and short writes, in any memory and for any data, the       *)
(* escaped characters included.                                            *)
THEOREM AlwaysStoreExact == Spec => StoreExact
  <1> DEFINE Exact ==
        /\ last'.k = "M" /\ last'.n = Len(last'.d)
             => mem' = Written(Start(last'), SubSeq(last'.d, 1, 4 * (last'.n \div 4)))
        /\ last'.k = "X" /\ (WholeWords(last'.a, last'.d) \/ Len(last'.d) <= 2)
             => mem' = Written(Start(last'), last'.d)
  <1>1. TypeOK /\ [Next]_vars => [Exact]_vars
    <2> SUFFICES ASSUME TypeOK, Next
                 PROVE  Exact
      OBVIOUS
    <2>1. PICK a \in Address, n \in Nat :
            \/ m(a, n) /\ n \in 0..GDB_BUF_MAX
            \/ \E d \in Payloads : /\ d \in Seq(Byte) /\ Len(d) \in {n, n - 1}
                                   /\ M(a, n, d) \/ X(a, n, d)
      BY StepFacts
    <2>2. CASE m(a, n) /\ n \in 0..GDB_BUF_MAX
      <3>1. last' = [k |-> "m", a |-> a, n |-> n, d |-> <<>>]  BY <2>2, ReadStep
      <3>2. last'.k = "m"  BY <3>1
      <3>q. QED  BY <3>2
    <2>3. CASE \E d \in Payloads : /\ d \in Seq(Byte) /\ Len(d) \in {n, n - 1}
                                   /\ M(a, n, d) \/ X(a, n, d)
      <3>1. PICK d \in Payloads : /\ d \in Seq(Byte) /\ Len(d) \in {n, n - 1}
                                  /\ M(a, n, d) \/ X(a, n, d)
        BY <2>3
      <3>2. /\ last' = [k |-> "M", a |-> a, n |-> n, d |-> d] \/
               last' = [k |-> "X", a |-> a, n |-> n, d |-> d]
            /\ last'.k = "M" /\ n = Len(d) =>
                 mem' = Written(Start(last'), SubSeq(d, 1, 4 * (n \div 4)))
            /\ last'.k = "X" /\ (WholeWords(a, d) \/ Len(d) <= 2) =>
                 mem' = Written(Start(last'), d)
        BY <3>1, WriteStep
      <3>3. last'.a = a /\ last'.n = n /\ last'.d = d  BY <3>2
      <3>q. QED  BY <3>2, <3>3
    <2>q. QED  BY <2>1, <2>2, <2>3
  <1>q. QED  BY <1>1, MemoryTypeCorrect, PTL DEF Spec, StoreExact

(* No write changes memory but as many bytes from its start on as it has   *)
(* data, and a rejected one changes nothing, for any address, length and   *)
(* data: the start is the address, for 'M' that of the word it is in.      *)
THEOREM AlwaysStoresInside == Spec => StoresInside
  <1> DEFINE Inside ==
        \A x \in Address : mem'[x] # mem[x] =>
          /\ x \in Start(last') .. Start(last') + Len(last'.d) - 1
          /\ answer' = Says("OK")
  <1>1. TypeOK /\ [Next]_vars => [Inside]_vars
    <2> SUFFICES ASSUME TypeOK, Next
                 PROVE  Inside
      OBVIOUS
    <2>1. PICK a \in Address, n \in Nat :
            \/ m(a, n) /\ n \in 0..GDB_BUF_MAX
            \/ \E d \in Payloads : /\ d \in Seq(Byte) /\ Len(d) \in {n, n - 1}
                                   /\ M(a, n, d) \/ X(a, n, d)
      BY StepFacts
    <2>2. CASE m(a, n) /\ n \in 0..GDB_BUF_MAX
      BY <2>2, ReadStep
    <2>3. CASE \E d \in Payloads : /\ d \in Seq(Byte) /\ Len(d) \in {n, n - 1}
                                   /\ M(a, n, d) \/ X(a, n, d)
      <3>1. PICK d \in Payloads : /\ d \in Seq(Byte) /\ Len(d) \in {n, n - 1}
                                  /\ M(a, n, d) \/ X(a, n, d)
        BY <2>3
      <3>2. /\ last' = [k |-> "M", a |-> a, n |-> n, d |-> d] \/
               last' = [k |-> "X", a |-> a, n |-> n, d |-> d]
            /\ \A x \in Address : mem'[x] # mem[x] =>
                 x \in Start(last')..(Start(last') + Len(d) - 1) /\ answer' = Says("OK")
        BY <3>1, WriteStep
      <3>3. last'.d = d  BY <3>2
      <3>q. QED  BY <3>2, <3>3
    <2>q. QED  BY <2>1, <2>2, <2>3
  <1>q. QED  BY <1>1, MemoryTypeCorrect, PTL DEF Spec, StoresInside

(* rsp_read_mem answers with every byte of the range, the words in it      *)
(* highest address first and the other bytes at their places, for any      *)
(* alignment and any length up to the buffer's; the lengths that overrun   *)
(* the packet buffer are those from half of it on, and no others.          *)
THEOREM AlwaysReadComplete == Spec => []ReadComplete
  <1>1. Init => ReadComplete
    <2> SUFFICES ASSUME Init
                 PROVE  ReadComplete
      OBVIOUS
    <2>1. last.k = "none"  BY DEF Init, NoRequest
    <2>q. QED  BY <2>1 DEF ReadComplete
  <1>2. TypeOK /\ ReadComplete /\ [Next]_vars => ReadComplete'
    <2> SUFFICES ASSUME TypeOK, ReadComplete, [Next]_vars
                 PROVE  ReadComplete'
      OBVIOUS
    <2>1. CASE UNCHANGED vars  BY <2>1 DEF vars, ReadComplete, Whole
    <2>2. CASE Next
      <3>1. PICK a \in Address, n \in Nat :
              \/ m(a, n) /\ n \in 0..GDB_BUF_MAX
              \/ \E d \in Payloads : /\ d \in Seq(Byte) /\ Len(d) \in {n, n - 1}
                                     /\ M(a, n, d) \/ X(a, n, d)
        BY <2>2, StepFacts
      <3>2. CASE m(a, n) /\ n \in 0..GDB_BUF_MAX
        <4>l. PICK l : l = ReadLen(n)  OBVIOUS
        <4>1. /\ mem' = mem /\ last' = [k |-> "m", a |-> a, n |-> n, d |-> <<>>]
              /\ Len(answer'.data) = l /\ answer'.past = Past(l)
              /\ \A i \in 1..l : 2 * i <= GDB_BUF_MAX => answer'.data[i] = rec_buf(a, l)[i]
              /\ l \in Nat /\ a + l <= Size
          <5>1. a \in Address /\ n \in 0..GDB_BUF_MAX /\ m(a, n) /\ TypeOK
            BY <3>1, <3>2
          <5>2. /\ mem' = mem /\ last' = [k |-> "m", a |-> a, n |-> n, d |-> <<>>]
                /\ answer'.text = "bytes" /\ answer'.past = Past(l)
                /\ answer'.data \in Seq(Byte) /\ Len(answer'.data) = l
                /\ \A i \in 1..l : 2 * i <= GDB_BUF_MAX => answer'.data[i] = rec_buf(a, l)[i]
                /\ l \in Nat /\ a + l <= Size
            BY <4>l, <5>1, ReadStep
          <5>q. QED  BY <5>2
        <4>2. last'.a = a /\ last'.n = n  BY <4>1
        <4>3. mem \in [Address -> Byte] /\ a \in Nat  BY DEF TypeOK, Address
        <4>4. \A i \in 1..l : rec_buf(a, l)[i] = mem[a + From(a, l, i) - 1]
          BY <4>1, <4>3, ReadFacts
        <4>5. ASSUME NEW x \in a..(a + l - 1), 2 * (x - a + 1) <= GDB_BUF_MAX
              PROVE  answer'.data[x - a + 1] = mem'[IF x \in Whole(a, l) THEN Mirror(x) ELSE x]
          <5>i. PICK i : i = x - a + 1  OBVIOUS
          <5>1. i \in 1..l /\ x = a + i - 1  BY <4>1, <4>3, <5>i
          <5>2. a + From(a, l, i) - 1 = IF x \in Whole(a, l) THEN Mirror(x) ELSE x
            BY <4>1, <5>1, InWhole
          <5>3. answer'.data[i] = rec_buf(a, l)[i]  BY <4>1, <4>5, <5>i, <5>1
          <5>4. rec_buf(a, l)[i] = mem[a + From(a, l, i) - 1]  BY <4>4, <5>1
          <5>q. QED  BY <4>1, <5>i, <5>2, <5>3, <5>4
        <4>6. /\ l = IF n < GDB_BUF_MAX THEN n ELSE (GDB_BUF_MAX - 1) \div 2
              /\ Past(l) = 0 <=> 2 * n < GDB_BUF_MAX \/ n >= GDB_BUF_MAX
              /\ Past(l) > 0 => Past(l) = 2 * l + 1 - GDB_BUF_MAX
          BY <3>2, <4>l, ReadLenFacts
        <4>q. QED  BY <4>1, <4>2, <4>5, <4>6 DEF ReadComplete, Whole
      <3>3. CASE \E d \in Payloads : /\ d \in Seq(Byte) /\ Len(d) \in {n, n - 1}
                                     /\ M(a, n, d) \/ X(a, n, d)
        <4>1. PICK d \in Payloads : /\ d \in Seq(Byte) /\ Len(d) \in {n, n - 1}
                                    /\ M(a, n, d) \/ X(a, n, d)
          BY <3>3
        <4>2. last'.k \in {"M", "X"}
          <5>1. last' = [k |-> "M", a |-> a, n |-> n, d |-> d] \/
                last' = [k |-> "X", a |-> a, n |-> n, d |-> d]
            BY <4>1, WriteStep
          <5>q. QED  BY <5>1
        <4>q. QED  BY <4>2 DEF ReadComplete
      <3>q. QED  BY <3>1, <3>2, <3>3
    <2>q. QED  BY <2>1, <2>2
  <1>q. QED  BY <1>1, <1>2, MemoryTypeCorrect, PTL DEF Spec
=============================================================================
