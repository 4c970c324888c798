-------------------------- MODULE JtagServerProofs --------------------------
(***************************************************************************)
(* Proofs about the JTAG server, for every ByteBits, every tck_period from *)
(* five on, every set of TMS sequences and scans that fit a buffer and     *)
(* every debugger; reads may return parts of commands.                     *)
(*                                                                         *)
(* ServerInv (JtagServerInv) is inductive.  Two kinds of arithmetic carry  *)
(* it.  The places in a buffer, a byte and a bit in it, count the bits     *)
(* passed (Bytes, AtABit, AtByteEnd).  The statics of gen_clk count the    *)
(* clocks: in each clock TCK is high for tck_period + 1 calls, the TAP     *)
(* sees the edge in the second of them, and Progress(calls, n) ties both   *)
(* to the number of bits the TAP has seen (Tick, Tock, FiveClocks).  With  *)
(* that, what the TAP sees next is the next bit of the command (NextBit),  *)
(* a command ends exactly when all its bits are clocked, and TMS and TDI   *)
(* are not moved while TCK is about to rise (Setup).                       *)
(*                                                                         *)
(* The proof has the two layers of the invariant.  ServerBase is kept by   *)
(* every step, in step or not (CheckBase, TapResetBase, IdleBase, TmsBase, *)
(* ScanBase, DebuggerBase).  A command that is read whole while the clock  *)
(* is not stale is in step, whatever went before (TakeInStep), and stays   *)
(* so until it ends (ResetInStep, IdleInStep, TmsInStep, ScanInStep).  The *)
(* refinement of TapPort follows from these.                               *)
(***************************************************************************)
EXTENDS JtagServerInv, SequenceTheorems, TLAPS

(* The numbers among the constants. *)
LEMMA Sizes ==
    /\ ByteBits \in Nat \ {0}
    /\ tck_period \in Nat /\ tck_period >= 5
    /\ XFERT_MAX_SIZE \in Nat
    /\ MaxQueue \in Nat /\ MaxParts \in Nat
  BY JtagAssumption

USE Sizes

-----------------------------------------------------------------------------

(* Multiplication, for the provers: the step of a product. *)
LEMMA Products ==
    ASSUME NEW a \in Nat, NEW b \in Nat
    PROVE  /\ a * b \in Nat
           /\ (a + 1) * b = a * b + b
  BY SMT

(* A byte before another ends before that one begins. *)
LEMMA ProductGrows ==
    ASSUME NEW a \in Nat, NEW c \in Nat, NEW b \in Nat, a < c
    PROVE  a * b + b <= c * b
  <1>1. c = a + 1 + (c - (a + 1)) /\ c - (a + 1) \in Nat  BY SMT
  <1>2. c * b = (a + 1) * b + (c - (a + 1)) * b  BY <1>1, SMT
  <1>3. (c - (a + 1)) * b \in Nat  BY <1>1, SMT
  <1>q. QED  BY <1>2, <1>3, Products, SMT

(* The division with remainder. *)
LEMMA Divided ==
    ASSUME NEW n \in Nat, NEW b \in Nat \ {0}
    PROVE  /\ n \div b \in Nat
           /\ n % b \in 0..(b - 1)
           /\ n = (n \div b) * b + (n % b)
  <1>1. n % b \in 0..(b - 1)  BY SMT
  <1>2. n = (n \div b) * b + (n % b)  BY SMT
  <1>3. n \div b \in Nat  BY SMT
  <1>q. QED  BY <1>1, <1>2, <1>3

(* A quotient and its remainder are determined. *)
LEMMA Unique ==
    ASSUME NEW q \in Nat, NEW k \in Nat, NEW b \in Nat \ {0},
           NEW r \in 0..(b - 1), NEW s \in 0..(b - 1), q * b + r = k * b + s
    PROVE  q = k
  <1>1. ~(q < k)
    <2>1. SUFFICES ASSUME q < k PROVE FALSE  OBVIOUS
    <2>2. q * b + b <= k * b  BY <2>1, ProductGrows
    <2>q. QED  BY <2>2, Products, SMT
  <1>2. ~(k < q)
    <2>1. SUFFICES ASSUME k < q PROVE FALSE  OBVIOUS
    <2>2. k * b + b <= q * b  BY <2>1, ProductGrows
    <2>q. QED  BY <2>2, Products, SMT
  <1>q. QED  BY <1>1, <1>2

(* The bytes of n bits: all full but the last, which holds the rest. *)
LEMMA Bytes ==
    ASSUME NEW n \in Nat \ {0}, NEW b \in Nat \ {0}
    PROVE  /\ (n + b - 1) \div b \in Nat \ {0}
           /\ n % b \in 0..(b - 1)
           /\ ((n + b - 1) \div b - 1) * b + (IF n % b = 0 THEN b ELSE n % b) = n
  <1> DEFINE q == n \div b
             m == n + b - 1
             l == m \div b
             r == n % b
  <1> SUFFICES /\ l \in Nat \ {0}
               /\ r \in 0..(b - 1)
               /\ (l - 1) * b + (IF r = 0 THEN b ELSE r) = n
    OBVIOUS
  <1>1. q \in Nat /\ r \in 0..(b - 1) /\ n = q * b + r  BY Divided DEF q, r
  <1> HIDE DEF q, l, r
  <1>m. m \in Nat  OBVIOUS
  <1>2. l \in Nat /\ m % b \in 0..(b - 1) /\ m = l * b + (m % b)
    BY <1>m, Divided DEF m, l
  <1>3. CASE r = 0
    <2>1. q # 0
      <3>1. SUFFICES ASSUME q = 0 PROVE FALSE  OBVIOUS
      <3>q. QED  BY <1>1, <1>3, <3>1, SMT
    <2>2. m = q * b + (b - 1)  BY <1>1, <1>3, SMT
    <2>3. q * b + (b - 1) = l * b + (m % b)  BY <2>2, <1>2
    <2>4. b - 1 \in 0..(b - 1)  OBVIOUS
    <2> HIDE DEF m
    <2>5. l = q  BY <2>3, <2>4, <1>1, <1>2, <1>m, Unique
    <2>6. (q - 1) * b + b = q * b  BY <1>1, <2>1, SMT
    <2>q. QED  BY <2>1, <2>5, <2>6, <1>1, <1>3
  <1>4. CASE r # 0
    <2>1. (q + 1) * b = q * b + b  BY <1>1, Products
    <2>2. m = (q + 1) * b + (r - 1)  BY <1>1, <1>4, <2>1, Products, SMT
    <2>3. (q + 1) * b + (r - 1) = l * b + (m % b)  BY <2>2, <1>2
    <2>4. r - 1 \in 0..(b - 1) /\ q + 1 \in Nat  BY <1>1, <1>4
    <2> HIDE DEF m
    <2>5. l = q + 1  BY <2>3, <2>4, <1>1, <1>2, <1>m, Unique
    <2>6. l - 1 = q  BY <2>5, <1>1
    <2>q. QED  BY <2>5, <2>6, <1>1, <1>4, SMT
  <1>q. QED  BY <1>3, <1>4

-----------------------------------------------------------------------------
(* Buffers and the places in them.                                         *)

(* No bits have no bytes. *)
LEMMA NoBytes ==
    ASSUME NEW b \in Nat \ {0}
    PROVE  (0 + b - 1) \div b = 0 /\ 0 % b = 0
  <1>1. PICK m \in Nat : m = 0 + b - 1  OBVIOUS
  <1>2. PICK l : l = m \div b  OBVIOUS
  <1>3. l \in Nat /\ m % b \in 0..(b - 1) /\ m = l * b + (m % b)
    BY <1>2, Divided
  <1>4. 0 * b = 0  BY SMT
  <1>5. 0 * b + (b - 1) = l * b + (m % b)  BY <1>1, <1>3, <1>4
  <1>6. b - 1 \in 0..(b - 1)  OBVIOUS
  <1>7. 0 = l
    <2>1. 0 \in Nat  OBVIOUS
    <2>q. QED  BY <1>3, <1>5, <1>6, <2>1, Unique
  <1>8. 0 % b = 0  BY SMT
  <1>q. QED  BY <1>1, <1>2, <1>7, <1>8

(* A buffer of n bits is a sequence. *)
LEMMA BufferIsSeq ==
    ASSUME NEW S, NEW n \in Nat, NEW b \in [1..n -> S]
    PROVE  b \in Seq(S) /\ Len(b) = n
  OBVIOUS

(* The commands, and the bits that a command with a buffer carries. *)
LEMMA CommandData ==
    /\ \A c \in TmsSeqs : c.cmd = "CMD_TMS_SEQ" /\ c.bits \in TmsBuffers
    /\ \A c \in Scans : c.cmd \in ScanKinds /\ c.bits \in ScanBuffers
    /\ Reset.cmd = "CMD_RESET" /\ Reset.bits = <<>>
    /\ Stop.cmd = "CMD_STOP_SIMU" /\ Stop.bits = <<>>
    /\ None.cmd = "none" /\ None.bits = <<>>
  BY DEF TmsSeqs, Scans, Command, Reset, Stop, None

(* What a command carries fits a buffer, and is not empty for a scan. *)
LEMMA BufferData ==
    ASSUME NEW c \in TmsSeqs \cup Scans
    PROVE  /\ c.bits \in Seq(Bit)
           /\ Len(c.bits) \in Nat
           /\ Len(c.bits) <= XFERT_MAX_SIZE * ByteBits
           /\ c.bits \in [1..Len(c.bits) -> Bit]
           /\ c \in Scans => Len(c.bits) # 0
  <1>1. c.bits \in TmsBuffers \cup ScanBuffers  BY CommandData
  <1>2. PICK n \in 0..XFERT_MAX_SIZE * ByteBits : c.bits \in [1..n -> Bit]
    BY <1>1, JtagAssumption
  <1>3. XFERT_MAX_SIZE * ByteBits \in Nat  BY Products
  <1>4. n \in Nat /\ n <= XFERT_MAX_SIZE * ByteBits  BY <1>3
  <1>5. c.bits \in Seq(Bit) /\ Len(c.bits) = n  BY <1>2, <1>4, BufferIsSeq
  <1>6. ASSUME c \in Scans PROVE Len(c.bits) # 0
    <2>1. c.bits # <<>>  BY <1>6, CommandData, JtagAssumption
    <2>q. QED  BY <1>5, <2>1, EmptySeq
  <1>q. QED  BY <1>2, <1>4, <1>5, <1>6

(* length and nb_bits_rem count the bits of the command. *)
LEMMA BufferBytes ==
    ASSUME NEW c \in TmsSeqs \cup Scans
    PROVE  LET l == (Len(c.bits) + ByteBits - 1) \div ByteBits
               r == Len(c.bits) % ByteBits
           IN
           /\ l \in 0..XFERT_MAX_SIZE
           /\ r \in 0..(ByteBits - 1)
           /\ Len(c.bits) = 0 => l = 0
           /\ Len(c.bits) # 0 =>
                /\ l # 0
                /\ (l - 1) * ByteBits + (IF r = 0 THEN ByteBits ELSE r) = Len(c.bits)
  <1> DEFINE l == (Len(c.bits) + ByteBits - 1) \div ByteBits
             r == Len(c.bits) % ByteBits
  <1> SUFFICES /\ l \in 0..XFERT_MAX_SIZE
               /\ r \in 0..(ByteBits - 1)
               /\ Len(c.bits) = 0 => l = 0
               /\ Len(c.bits) # 0 =>
                    /\ l # 0
                    /\ (l - 1) * ByteBits + (IF r = 0 THEN ByteBits ELSE r) = Len(c.bits)
    OBVIOUS
  <1>1. Len(c.bits) \in Nat /\ Len(c.bits) <= XFERT_MAX_SIZE * ByteBits
    BY BufferData
  <1>2. PICK n \in Nat : n = Len(c.bits)  BY <1>1
  <1>b. PICK b \in Nat \ {0} : b = ByteBits  OBVIOUS
  <1>3. CASE n = 0
    <2>1. l = 0 /\ r = 0  BY <1>2, <1>3, NoBytes
    <2>q. QED  BY <1>2, <1>3, <2>1
  <1>4. CASE n # 0
    <2>1. /\ (n + b - 1) \div b \in Nat \ {0}
          /\ n % b \in 0..(b - 1)
          /\ ((n + b - 1) \div b - 1) * b + (IF n % b = 0 THEN b ELSE n % b) = n
      BY <1>4, Bytes
    <2>2. PICK k \in Nat \ {0} : k = l  BY <1>2, <1>b, <2>1
    <2>3. PICK s \in 0..(b - 1) : s = r  BY <1>2, <1>b, <2>1
    <2>4. (k - 1) * b + (IF s = 0 THEN b ELSE s) = n  BY <1>2, <1>b, <2>1, <2>2, <2>3
    <2>5. k <= XFERT_MAX_SIZE
      <3>1. SUFFICES ASSUME XFERT_MAX_SIZE < k PROVE FALSE  OBVIOUS
      <3>2. XFERT_MAX_SIZE * b <= (k - 1) * b
        <4>1. k - 1 \in Nat /\ XFERT_MAX_SIZE <= k - 1  BY <3>1
        <4>2. CASE XFERT_MAX_SIZE = k - 1  BY <4>1, <4>2, Products
        <4>3. CASE XFERT_MAX_SIZE # k - 1
          <5>1. XFERT_MAX_SIZE * b + b <= (k - 1) * b  BY <4>1, <4>3, ProductGrows
          <5>2. XFERT_MAX_SIZE * b \in Nat /\ (k - 1) * b \in Nat  BY <4>1, Products
          <5>q. QED  BY <5>1, <5>2
        <4>q. QED  BY <4>2, <4>3
      <3>3. (k - 1) * b \in Nat /\ XFERT_MAX_SIZE * b \in Nat
        <4>1. k - 1 \in Nat  OBVIOUS
        <4>q. QED  BY <4>1, Products
      <3>4. n <= XFERT_MAX_SIZE * b  BY <1>1, <1>2, <1>b
      <3>q. QED  BY <2>4, <3>2, <3>3, <3>4
    <2> HIDE DEF l, r
    <2>q. QED  BY <1>2, <1>b, <1>4, <2>2, <2>3, <2>4, <2>5
  <1>q. QED  BY <1>3, <1>4

(* All bits of a TMS sequence are sent, or all but the last byte. *)
LEMMA SentData ==
    ASSUME NEW n \in Nat
    PROVE  TmsSent(n) \in 0..n /\ (TmsSent(n) = n \/ TmsSent(n) = n - ByteBits)
  <1>1. CASE n > 0 /\ n % ByteBits = 0
    <2>1. n \div ByteBits \in Nat /\ n = (n \div ByteBits) * ByteBits + (n % ByteBits)
      BY Divided
    <2>2. PICK q \in Nat : q = n \div ByteBits  BY <2>1
    <2>3. n = q * ByteBits  BY <1>1, <2>1, <2>2, Products
    <2>4. q # 0
      <3>1. 0 * ByteBits = 0  BY SMT
      <3>q. QED  BY <1>1, <2>3, <3>1
    <2>5. 0 * ByteBits + ByteBits <= q * ByteBits
      <3>1. 0 \in Nat /\ 0 < q  BY <2>4
      <3>q. QED  BY <3>1, ProductGrows
    <2>6. ByteBits <= n
      <3>1. 0 * ByteBits = 0  BY SMT
      <3>q. QED  BY <2>3, <2>5, <3>1
    <2>q. QED  BY <1>1, <2>6 DEF TmsSent
  <1>2. CASE ~(n > 0 /\ n % ByteBits = 0)
    BY <1>2 DEF TmsSent
  <1>q. QED  BY <1>1, <1>2

(* What is sent of each byte adds up to what is sent of the buffer. *)
LEMMA LastByte ==
    ASSUME packet \in TmsSeqs \cup Scans
    PROVE  /\ length \in 0..XFERT_MAX_SIZE
           /\ \A i \in Nat : BitsIn(i) \in 0..ByteBits
           /\ \A i \in Nat : i # length - 1 => BitsIn(i) = ByteBits
           /\ IF length = 0
                THEN Total = 0
                ELSE (length - 1) * ByteBits + BitsIn(length - 1) = Total
           /\ Total \in 0..Len(packet.bits) /\ Len(packet.bits) \in Nat
           /\ packet \in TmsSeqs =>
                /\ Total = TmsSent(Len(packet.bits))
                /\ \A i \in Nat : BitsIn(i) = TmsBitsIn(i)
           /\ packet \in Scans =>
                /\ Total = Len(packet.bits) /\ Total # 0 /\ length # 0
                /\ \A i \in Nat : BitsIn(i) = ScanBitsIn(i) /\ BitsIn(i) # 0
  <1>0. PICK n \in Nat : n = Len(packet.bits)  BY BufferData
  <1>1. /\ length \in 0..XFERT_MAX_SIZE
        /\ nb_bits_rem \in 0..(ByteBits - 1)
        /\ n = 0 => length = 0
        /\ n # 0 =>
             /\ length # 0
             /\ (length - 1) * ByteBits
                  + (IF nb_bits_rem = 0 THEN ByteBits ELSE nb_bits_rem) = n
    BY <1>0, BufferBytes DEF length, nb_bits_rem
  <1>2. packet \in Scans => n # 0  BY <1>0, BufferData
  <1>3. CASE packet \in TmsSeqs
    <2>1. packet \notin Scans /\ packet.cmd = "CMD_TMS_SEQ"
      BY <1>3, CommandData DEF ScanKinds
    <2>2. Total = TmsSent(n) /\ \A i : BitsIn(i) = TmsBitsIn(i)
      BY <1>0, <2>1 DEF Total, BitsIn
    <2>3. TmsSent(n) \in 0..n  BY SentData
    <2>4. CASE n = 0
      BY <1>0, <1>1, <1>3, <2>1, <2>2, <2>3, <2>4 DEF TmsBitsIn
    <2>5. CASE n # 0
      <3>1. PICK y : y = (length - 1) * ByteBits  OBVIOUS
      <3>2. y \in Nat
        <4>1. length - 1 \in Nat  BY <1>1, <2>5
        <4>q. QED  BY <3>1, <4>1, Products
      <3>3. TmsBitsIn(length - 1) = nb_bits_rem  BY DEF TmsBitsIn
      <3>4. y + nb_bits_rem = TmsSent(n)
        <4>1. nb_bits_rem = n % ByteBits  BY <1>0 DEF nb_bits_rem
        <4>q. QED  BY <1>1, <2>5, <3>1, <3>2, <4>1 DEF TmsSent
      <3>q. QED
        BY <1>0, <1>1, <1>3, <2>1, <2>2, <2>3, <2>5, <3>1, <3>3, <3>4 DEF TmsBitsIn
    <2>q. QED  BY <2>4, <2>5
  <1>4. CASE packet \in Scans
    <2>1. packet \notin TmsSeqs /\ packet.cmd # "CMD_TMS_SEQ"
      BY <1>4, CommandData DEF ScanKinds
    <2>2. Total = n /\ \A i : BitsIn(i) = ScanBitsIn(i)
      BY <1>0, <2>1 DEF Total, BitsIn
    <2>q. QED  BY <1>0, <1>1, <1>2, <1>4, <2>1, <2>2 DEF ScanBitsIn
  <1>q. QED  BY <1>3, <1>4

Place == (0..XFERT_MAX_SIZE) \X (0..ByteBits)

(* At a bit of the buffer, the next place is one bit on. *)
LEMMA AtABit ==
    ASSUME packet \in TmsSeqs \cup Scans, NEW p \in Place, AtBit(p)
    PROVE  /\ BitAt(p) \in 1..Total
           /\ BitsDone(p) = BitAt(p) - 1
           /\ BitsDone(<<p[1], p[2] + 1>>) = BitAt(p)
           /\ AtPlace(<<p[1], p[2] + 1>>)
           /\ <<p[1], p[2] + 1>> \in Place
           /\ packet \in Scans => (LastBit(p[1], p[2]) <=> BitAt(p) = Total)
  <1> DEFINE i == p[1]
             j == p[2]
  <1>1. /\ i \in Nat /\ i <= XFERT_MAX_SIZE /\ j \in Nat
        /\ length \in Nat \ {0} /\ i < length
        /\ j < BitsIn(i) /\ BitsIn(i) \in 0..ByteBits
        /\ BitsIn(length - 1) \in 0..ByteBits /\ length - 1 \in Nat
        /\ Total \in Nat
    <2>1. /\ length \in 0..XFERT_MAX_SIZE
          /\ \A k \in Nat : BitsIn(k) \in 0..ByteBits
          /\ Total \in 0..Len(packet.bits)
      BY LastByte
    <2>2. i \in Nat /\ i <= XFERT_MAX_SIZE /\ j \in Nat /\ i < length /\ j < BitsIn(i)
      BY DEF AtBit, Place
    <2>3. length \in Nat \ {0} /\ length - 1 \in Nat
      <3>1. PICK l \in 0..XFERT_MAX_SIZE : l = length  BY <2>1
      <3>2. PICK k \in Nat : k = i  BY <2>2
      <3>3. k < l  BY <2>2, <3>1, <3>2
      <3>4. l \in Nat \ {0} /\ l - 1 \in Nat  BY <3>3
      <3>q. QED  BY <3>1, <3>4
    <2>4. Total \in Nat  BY <2>1
    <2>q. QED  BY <2>1, <2>2, <2>3, <2>4
  <1>2. i * ByteBits \in Nat /\ (length - 1) * ByteBits \in Nat  BY <1>1, Products
  <1>3. BitAt(p) \in Nat \ {0}  BY <1>1, <1>2 DEF BitAt
  <1>4. i # length - 1 => i * ByteBits + ByteBits <= (length - 1) * ByteBits
    <2>1. SUFFICES ASSUME i # length - 1
                   PROVE  i * ByteBits + ByteBits <= (length - 1) * ByteBits
      OBVIOUS
    <2>2. i < length - 1 /\ length - 1 \in Nat  BY <1>1, <2>1
    <2>q. QED  BY <1>1, <2>2, ProductGrows
  <1>l. (length - 1) * ByteBits + BitsIn(length - 1) = Total
    BY <1>1, LastByte
  <1> DEFINE x == i * ByteBits
             y == (length - 1) * ByteBits
             z == BitsIn(length - 1)
  <1>b. /\ BitAt(p) = x + j + 1 /\ x \in Nat /\ y \in Nat /\ y + z = Total
        /\ i # length - 1 => x + ByteBits <= y
        /\ i = length - 1 => x = y /\ BitsIn(i) = z
        /\ BitsIn(i) \in 0..ByteBits /\ z \in 0..ByteBits
        /\ j \in Nat /\ j < BitsIn(i)
    BY <1>1, <1>2, <1>4, <1>l DEF BitAt
  <1> HIDE DEF x, y, z
  <1>5. /\ i = length - 1 => (BitAt(p) = Total <=> j = BitsIn(i) - 1)
        /\ BitAt(p) <= Total
        /\ i # length - 1 => BitAt(p) < Total \/ z = 0
    <2>1. CASE i = length - 1  BY <1>b, <2>1, SMT
    <2>2. CASE i # length - 1  BY <1>b, <2>2, SMT
    <2>q. QED  BY <2>1, <2>2
  <1>7. BitAt(<<i, j + 1>>) = BitAt(p) + 1  BY <1>1, <1>2 DEF BitAt
  <1>8. BitAt(p) \in 1..Total  BY <1>1, <1>3, <1>5
  <1>9. /\ BitsDone(p) = BitAt(p) - 1
        /\ BitsDone(<<p[1], p[2] + 1>>) = BitAt(p)
    BY <1>1, <1>3, <1>7 DEF BitsDone
  <1>10. packet \in Scans => (LastBit(i, j) <=> BitAt(p) = Total)
    <2>1. SUFFICES ASSUME packet \in Scans PROVE LastBit(i, j) <=> BitAt(p) = Total
      OBVIOUS
    <2>2. BitsIn(i) = ScanBitsIn(i) /\ z # 0  BY <1>1, <2>1, LastByte DEF z
    <2>q. QED  BY <1>1, <1>3, <1>5, <2>2 DEF LastBit
  <1>11. AtPlace(<<p[1], p[2] + 1>>) /\ <<p[1], p[2] + 1>> \in Place
    BY <1>1 DEF AtPlace, Place
  <1>q. QED  BY <1>8, <1>9, <1>10, <1>11

(* From the end of a byte to the start of the next no bit is passed. *)
LEMMA AtByteEnd ==
    ASSUME packet \in TmsSeqs \cup Scans, NEW p \in Place,
           p[1] < length, p[2] = BitsIn(p[1])
    PROVE  /\ BitsDone(<<p[1] + 1, 0>>) = BitsDone(p)
           /\ AtPlace(<<p[1] + 1, 0>>)
           /\ <<p[1] + 1, 0>> \in Place
  <1> DEFINE i == p[1]
  <1>0. i \in Nat /\ i + 1 \in Nat  BY DEF Place
  <1>1. /\ length \in Nat \ {0} /\ length <= XFERT_MAX_SIZE
        /\ BitsIn(i + 1) \in 0..ByteBits /\ BitsIn(i) \in 0..ByteBits
        /\ (length - 1) * ByteBits + BitsIn(length - 1) = Total
        /\ i # length - 1 => BitsIn(i) = ByteBits
        /\ Total \in Nat
    <2>1. /\ length \in 0..XFERT_MAX_SIZE
          /\ \A k \in Nat : BitsIn(k) \in 0..ByteBits
          /\ \A k \in Nat : k # length - 1 => BitsIn(k) = ByteBits
          /\ Total \in 0..Len(packet.bits)
          /\ IF length = 0
               THEN Total = 0
               ELSE (length - 1) * ByteBits + BitsIn(length - 1) = Total
      BY LastByte
    <2>2. length \in Nat \ {0} /\ length <= XFERT_MAX_SIZE  BY <1>0, <2>1
    <2>3. Total \in Nat  BY <2>1
    <2>q. QED  BY <1>0, <2>1, <2>2, <2>3
  <1>2. i * ByteBits \in Nat /\ (i + 1) * ByteBits = i * ByteBits + ByteBits
    BY <1>0, Products
  <1> DEFINE x == i * ByteBits
             y == (length - 1) * ByteBits
             z == BitsIn(length - 1)
             w == (i + 1) * ByteBits
  <1>b. /\ BitAt(p) = x + p[2] + 1 /\ BitAt(<<i + 1, 0>>) = w + 0 + 1
        /\ x \in Nat /\ w = x + ByteBits /\ y + z = Total
        /\ i = length - 1 => x = y /\ p[2] = z
        /\ i # length - 1 => p[2] = ByteBits
        /\ p[2] \in Nat
    BY <1>1, <1>2 DEF BitAt
  <1> HIDE DEF x, y, z, w
  <1>3. <<i + 1, 0>> \in Place  BY <1>0, <1>1 DEF Place
  <1>4. CASE i = length - 1
    <2>1. BitsDone(<<i + 1, 0>>) = Total  BY <1>0, <1>1, <1>4 DEF BitsDone
    <2>2. BitsDone(p) = x + p[2]  BY <1>b DEF BitsDone
    <2>3. AtPlace(<<i + 1, 0>>)  BY <1>0, <1>1, <1>4 DEF AtPlace
    <2>q. QED  BY <1>b, <1>3, <1>4, <2>1, <2>2, <2>3
  <1>5. CASE i # length - 1
    <2>0. i + 1 < length  BY <1>0, <1>1, <1>5
    <2>1. BitsDone(<<i + 1, 0>>) = w
      <3>1. BitsDone(<<i + 1, 0>>) = BitAt(<<i + 1, 0>>) - 1  BY <2>0 DEF BitsDone
      <3>2. w \in Nat  BY <1>b
      <3>q. QED  BY <1>b, <3>1, <3>2
    <2>2. BitsDone(p) = x + p[2]  BY <1>b DEF BitsDone
    <2>3. AtPlace(<<i + 1, 0>>)  BY <1>1, <2>0 DEF AtPlace
    <2>q. QED  BY <1>b, <1>3, <1>5, <2>1, <2>2, <2>3
  <1>q. QED  BY <1>4, <1>5

(* The number of bits that are passed. *)
LEMMA DoneIsNat ==
    ASSUME packet \in TmsSeqs \cup Scans, NEW p \in Place
    PROVE  BitsDone(p) \in Nat
  <1>1. p[1] \in Nat /\ p[2] \in Nat /\ Total \in Nat  BY LastByte DEF Place
  <1>2. p[1] * ByteBits \in Nat  BY <1>1, Products
  <1>q. QED  BY <1>1, <1>2 DEF BitsDone, BitAt

(* A command just taken is at its first bit, if one is sent. *)
LEMMA AtStart ==
    ASSUME packet' \in TmsSeqs \cup Scans
    PROVE  /\ BitsDone(<<0, 0>>)' = 0
           /\ AtPlace(<<0, 0>>)'
           /\ Total' > 0 => AtBit(<<0, 0>>)'
  <1>0. PICK n \in Nat : n = Len(packet'.bits)  BY BufferData
  <1>1. /\ length' \in Nat
        /\ nb_bits_rem' \in 0..(ByteBits - 1)
        /\ n = 0 => length' = 0
        /\ n # 0 =>
             /\ length' # 0
             /\ (length' - 1) * ByteBits
                  + (IF nb_bits_rem' = 0 THEN ByteBits ELSE nb_bits_rem') = n
    <2>1. PICK c \in TmsSeqs \cup Scans : c = packet'  OBVIOUS
    <2>2. PICK l : l = (Len(c.bits) + ByteBits - 1) \div ByteBits  OBVIOUS
    <2>3. PICK r : r = Len(c.bits) % ByteBits  OBVIOUS
    <2>4. /\ l \in 0..XFERT_MAX_SIZE
          /\ r \in 0..(ByteBits - 1)
          /\ Len(c.bits) = 0 => l = 0
          /\ Len(c.bits) # 0 =>
               /\ l # 0
               /\ (l - 1) * ByteBits + (IF r = 0 THEN ByteBits ELSE r) = Len(c.bits)
      BY <2>2, <2>3, BufferBytes
    <2>5. length' = l /\ nb_bits_rem' = r  BY <2>1, <2>2, <2>3 DEF length, nb_bits_rem
    <2>6. Len(c.bits) = n /\ l \in Nat  BY <1>0, <2>1, <2>4
    <2>q. QED  BY <2>4, <2>5, <2>6
  <1>2. 0 * ByteBits = 0  BY SMT
  <1>3. /\ packet' \in TmsSeqs => packet'.cmd = "CMD_TMS_SEQ"
        /\ packet' \in Scans => packet'.cmd # "CMD_TMS_SEQ" /\ n # 0
    BY <1>0, CommandData, BufferData DEF ScanKinds
  <1>4. nb_bits_rem' = n % ByteBits  BY <1>0 DEF nb_bits_rem
  <1>5. CASE packet' \in TmsSeqs
    <2>1. Total' = TmsSent(n)  BY <1>0, <1>3, <1>5 DEF Total
    <2>2. BitsIn(0)' = IF 0 = length' - 1 THEN nb_bits_rem' ELSE ByteBits
      BY <1>3, <1>5 DEF BitsIn, TmsBitsIn
    <2>3. CASE n = 0
      <3>1. TmsSent(n) = 0  BY <2>3 DEF TmsSent
      <3>q. QED  BY <1>1, <2>1, <2>3, <3>1 DEF BitsDone, AtPlace
    <2>4. CASE n # 0
      <3>1. length' = 1 => nb_bits_rem' # 0 \/ TmsSent(n) = 0
        <4>1. SUFFICES ASSUME length' = 1, nb_bits_rem' = 0 PROVE TmsSent(n) = 0
          OBVIOUS
        <4>2. n = ByteBits
          <5>1. length' - 1 = 0  BY <4>1
          <5>q. QED  BY <1>1, <1>2, <2>4, <4>1, <5>1
        <4>q. QED  BY <1>4, <2>4, <4>1, <4>2 DEF TmsSent
      <3>2. BitsIn(0)' \in Nat /\ (TmsSent(n) > 0 => BitsIn(0)' > 0)
        BY <1>1, <2>2, <3>1
      <3>3. length' > 0  BY <1>1, <2>4
      <3>4. AtPlace(<<0, 0>>)'  BY <3>2, <3>3 DEF AtPlace
      <3>5. BitsDone(<<0, 0>>)' = 0  BY <1>2, <3>3 DEF BitsDone, BitAt
      <3>6. Total' > 0 => AtBit(<<0, 0>>)'  BY <2>1, <3>2, <3>3 DEF AtBit
      <3>q. QED  BY <3>4, <3>5, <3>6
    <2>q. QED  BY <2>3, <2>4
  <1>6. CASE packet' \in Scans
    <2>1. BitsIn(0)' = IF 0 = length' - 1 /\ nb_bits_rem' # 0
                         THEN nb_bits_rem' ELSE ByteBits
      BY <1>3, <1>6 DEF BitsIn, ScanBitsIn
    <2>2. BitsIn(0)' \in Nat /\ BitsIn(0)' > 0 /\ length' > 0
      BY <1>1, <1>3, <1>6, <2>1
    <2>3. AtPlace(<<0, 0>>)'  BY <2>2 DEF AtPlace
    <2>4. BitsDone(<<0, 0>>)' = 0  BY <1>2, <2>2 DEF BitsDone, BitAt
    <2>5. AtBit(<<0, 0>>)'  BY <2>2 DEF AtBit
    <2>q. QED  BY <2>3, <2>4, <2>5
  <1>q. QED  BY <1>5, <1>6

-----------------------------------------------------------------------------
(* What a command clocks.                                                  *)

(* A reset clocks five ones and a zero, the other commands their bits. *)
LEMMA EdgesData ==
    ASSUME NEW c \in {Reset} \cup TmsSeqs \cup Scans
    PROVE  /\ Edges(c) \in Seq(Bit \X Bit)
           /\ c = Reset => /\ Len(Edges(c)) = 6
                           /\ \A n \in 1..5 : Edges(c)[n] = <<1, 0>>
                           /\ Edges(c)[6] = <<0, 0>>
           /\ c \in TmsSeqs =>
                /\ Len(Edges(c)) = TmsSent(Len(c.bits))
                /\ \A n \in 1..TmsSent(Len(c.bits)) : Edges(c)[n] = <<c.bits[n], 0>>
           /\ c \in Scans =>
                /\ Len(Edges(c)) = Len(c.bits)
                /\ \A n \in 1..Len(c.bits) :
                     Edges(c)[n] = <<IF c.cmd # "CMD_SCAN_CHAIN" /\ n = Len(c.bits)
                                       THEN 1 ELSE 0, c.bits[n]>>
  <1>1. CASE c = Reset
    <2>1. Edges(c) = [k \in 1..6 |-> <<IF k < 6 THEN 1 ELSE 0, 0>>]
      BY <1>1, CommandData DEF Edges
    <2>2. c \notin TmsSeqs /\ c \notin Scans  BY <1>1, CommandData DEF ScanKinds
    <2>q. QED  BY <1>1, <2>1, <2>2 DEF Bit
  <1>2. CASE c \in TmsSeqs
    <2>1. Edges(c) = [k \in 1..TmsSent(Len(c.bits)) |-> <<c.bits[k], 0>>]
      BY <1>2, CommandData DEF Edges
    <2>2. c # Reset /\ c \notin Scans  BY <1>2, CommandData DEF ScanKinds
    <2>3. Len(c.bits) \in Nat /\ c.bits \in [1..Len(c.bits) -> Bit]
      BY <1>2, BufferData
    <2>4. PICK m : m = TmsSent(Len(c.bits))  OBVIOUS
    <2>5. m \in Nat /\ m <= Len(c.bits)  BY <2>3, <2>4, SentData
    <2>6. Edges(c) \in [1..m -> Bit \X Bit]  BY <2>1, <2>3, <2>4, <2>5 DEF Bit
    <2>7. Edges(c) \in Seq(Bit \X Bit) /\ Len(Edges(c)) = m
      BY <2>5, <2>6, BufferIsSeq
    <2>q. QED  BY <1>2, <2>1, <2>2, <2>4, <2>7
  <1>3. CASE c \in Scans
    <2>1. c # Reset /\ c \notin TmsSeqs  BY <1>3, CommandData DEF ScanKinds
    <2>0. Len(c.bits) \in Nat /\ c.bits \in [1..Len(c.bits) -> Bit]
      BY <1>3, BufferData
    <2>2. CASE c.cmd = "CMD_SCAN_CHAIN"
      <3>1. Edges(c) = [k \in 1..Len(c.bits) |-> <<0, c.bits[k]>>]
        BY <2>2 DEF Edges
      <3>2. Edges(c) \in [1..Len(c.bits) -> Bit \X Bit]  BY <2>0, <3>1 DEF Bit
      <3>3. Edges(c) \in Seq(Bit \X Bit) /\ Len(Edges(c)) = Len(c.bits)
        BY <2>0, <3>2, BufferIsSeq
      <3>q. QED  BY <1>3, <2>1, <2>2, <3>1, <3>3
    <2>3. CASE c.cmd = "CMD_SCAN_CHAIN_FLIP_TMS"
      <3>1. Edges(c) = [k \in 1..Len(c.bits) |->
                          <<IF k = Len(c.bits) THEN 1 ELSE 0, c.bits[k]>>]
        BY <2>3 DEF Edges
      <3>2. Edges(c) \in [1..Len(c.bits) -> Bit \X Bit]  BY <2>0, <3>1 DEF Bit
      <3>3. Edges(c) \in Seq(Bit \X Bit) /\ Len(Edges(c)) = Len(c.bits)
        BY <2>0, <3>2, BufferIsSeq
      <3>q. QED  BY <1>3, <2>1, <2>3, <3>1, <3>3
    <2>q. QED  BY <1>3, <2>2, <2>3, CommandData DEF ScanKinds
  <1>q. QED  BY <1>1, <1>2, <1>3

-----------------------------------------------------------------------------
(* A call and the clock.                                                   *)

(* The TAP has seen an edge in this call, or not. *)
Counted ==
    /\ seen' = IF Rises THEN Append(seen, <<tms, tdi>>) ELSE seen
    /\ read' = IF Now \in Scans /\ Rises THEN Append(read, tdo) ELSE read

ClkType == [gen_clk_begin : BOOLEAN, tck_low : BOOLEAN, age : Nat,
            cur_period : 0..5 * tck_period, capture_done : BOOLEAN]

(* The types of the clock, the pins and the TAP. *)
Typed ==
    /\ clk \in ClkType
    /\ tms \in Bit /\ tdi \in Bit /\ tck \in Bit /\ tdo \in Bit /\ was \in Bit
    /\ seen \in Seq(Bit \X Bit) /\ read \in Seq(Bit)

(* gen_clk in progress, in each of its four cases. *)
StaysLow(c) ==
    /\ clk.tck_low /\ (clk.gen_clk_begin \/ clk.age < tck_period)
    /\ tck' = 0
    /\ clk' = [gen_clk_begin |-> FALSE, tck_low |-> TRUE,
               age |-> IF clk.gen_clk_begin THEN 0 ELSE clk.age + 1,
               cur_period |-> clk.cur_period, capture_done |-> c]
GoesHigh(c) ==
    /\ clk.tck_low /\ ~clk.gen_clk_begin /\ clk.age >= tck_period
    /\ tck' = 0
    /\ clk' = [gen_clk_begin |-> FALSE, tck_low |-> FALSE, age |-> 0,
               cur_period |-> clk.cur_period, capture_done |-> c]
StaysHigh(c) ==
    /\ ~clk.tck_low /\ clk.age < tck_period
    /\ tck' = 1
    /\ clk' = [gen_clk_begin |-> FALSE, tck_low |-> FALSE, age |-> clk.age + 1,
               cur_period |-> clk.cur_period + 1, capture_done |-> c]
GoesLow(c) ==
    /\ ~clk.tck_low /\ clk.age >= tck_period
    /\ tck' = 1
    /\ clk' = [gen_clk_begin |-> FALSE, tck_low |-> TRUE, age |-> 0,
               cur_period |-> clk.cur_period + 1, capture_done |-> c]

(* A call of gen_clk is one of the four. *)
LEMMA GenClk ==
    ASSUME clk \in ClkType, clk.gen_clk_begin => clk = gen_clk_restart,
           NEW nb, NEW g \in BOOLEAN, gen_clk(nb, g)
    PROVE  \E c \in BOOLEAN :
             /\ c <=> ~clk.tck_low /\ (clk.capture_done \/ g)
             /\ StaysLow(c) \/ GoesHigh(c) \/ StaysHigh(c) \/ GoesLow(c)
  <1>1. /\ clk.gen_clk_begin \in BOOLEAN /\ clk.tck_low \in BOOLEAN
        /\ clk.age \in Nat /\ clk.cur_period \in 0..5 * tck_period
        /\ clk.capture_done \in BOOLEAN
    BY DEF ClkType
  <1>2. clk.gen_clk_begin => clk.tck_low /\ clk.age = 0 /\ Age = 0
    BY DEF gen_clk_restart, Age
  <1>3. ~clk.gen_clk_begin => Age = clk.age + 1
    BY DEF Age
  <1> DEFINE c == ~clk.tck_low /\ (clk.capture_done \/ g)
  <1>4. c \in BOOLEAN  BY <1>1
  <1>5. CASE clk.tck_low /\ (clk.gen_clk_begin \/ clk.age < tck_period)
    <2>1. ~Flips /\ Age = IF clk.gen_clk_begin THEN 0 ELSE clk.age + 1
      BY <1>1, <1>2, <1>3, <1>5 DEF Flips
    <2>q. QED  BY <1>4, <1>5, <2>1 DEF gen_clk, StaysLow
  <1>6. CASE clk.tck_low /\ ~clk.gen_clk_begin /\ clk.age >= tck_period
    <2>1. Flips  BY <1>1, <1>3, <1>6 DEF Flips
    <2>2. /\ tck' = 0
          /\ clk' = [gen_clk_begin |-> FALSE, tck_low |-> FALSE, age |-> 0,
                     cur_period |-> clk.cur_period, capture_done |-> c]
      BY <1>6, <2>1 DEF gen_clk
    <2>q. QED  BY <1>4, <1>6, <2>2 DEF GoesHigh
  <1>7. CASE ~clk.tck_low /\ clk.age < tck_period
    <2>1. ~Flips /\ Age = clk.age + 1  BY <1>1, <1>2, <1>3, <1>7 DEF Flips
    <2>2. /\ tck' = 1
          /\ clk' = [gen_clk_begin |-> FALSE, tck_low |-> FALSE, age |-> clk.age + 1,
                     cur_period |-> clk.cur_period + 1, capture_done |-> c]
      <3>1. clk.tck_low = FALSE  BY <1>1, <1>7
      <3>q. QED  BY <2>1, <3>1 DEF gen_clk
    <2>q. QED  BY <1>4, <1>7, <2>2 DEF StaysHigh
  <1>8. CASE ~clk.tck_low /\ clk.age >= tck_period
    <2>1. Flips  BY <1>1, <1>2, <1>3, <1>8 DEF Flips
    <2>q. QED  BY <1>4, <1>8, <2>1 DEF gen_clk, GoesLow
  <1>q. QED  BY <1>1, <1>5, <1>6, <1>7, <1>8

(* TMS and TDI are what they are to be before TCK rises. *)
Held == tck = 0 /\ tck' = 1 => UNCHANGED <<tms, tdi>>

LEMMA Setup ==
    ASSUME NEW calls, NEW n, Progress(calls, n), NEW nb, NEW g, gen_clk(nb, g),
           <<tms', tdi'>> = Edges(Now)[n + 1]
    PROVE  Held
  BY DEF Progress, gen_clk, Held

(* The clock moves on. *)
LEMMA Tick ==
    ASSUME Typed, ClockKnown, PinsKnown, NEW calls \in Nat, NEW n \in Nat,
           Progress(calls, n), NEW nb \in {1, 5}, NEW g \in BOOLEAN, gen_clk(nb, g), TapMoves, Counted,
           Now' = Now, <<tms', tdi'>> = Edges(Now)[n + 1], n < Len(Edges(Now))
    PROVE  /\ clk' \in ClkType /\ clk'.cur_period <= nb * tck_period
           /\ PinsKnown'
           /\ ~clk'.gen_clk_begin
           /\ tck' \in Bit
           /\ IF ~clk.tck_low /\ clk.age = tck_period
                THEN Progress(calls + tck_period + 1, n + 1)'
                ELSE Progress(calls, n)'
  <1>1. /\ clk.gen_clk_begin \in BOOLEAN /\ clk.tck_low \in BOOLEAN
        /\ clk.age \in Nat /\ clk.cur_period \in 0..5 * tck_period
        /\ clk.capture_done \in BOOLEAN /\ clk \in ClkType
        /\ ~clk.tck_low => clk.age <= tck_period
    BY DEF Typed, ClkType, PinsKnown
  <1>2. clk.gen_clk_begin => clk = gen_clk_restart  BY DEF ClockKnown
  <1>3. PICK c \in BOOLEAN :
          StaysLow(c) \/ GoesHigh(c) \/ StaysHigh(c) \/ GoesLow(c)
    BY <1>1, <1>2, GenClk
  <1>4. /\ nb * tck_period <= 5 * tck_period /\ nb * tck_period \in Nat
        /\ clk.cur_period < nb * tck_period
    <2>1. ~(clk.cur_period >= nb * tck_period)  BY DEF gen_clk, Elapsed
    <2>2. CASE nb = 1  BY <1>1, <2>1, <2>2
    <2>3. CASE nb = 5  BY <1>1, <2>1, <2>3
    <2>q. QED  BY <2>2, <2>3
  <1>5. /\ was' = tck /\ was \in Bit /\ tck \in Bit
        /\ Rises <=> ~clk.tck_low /\ clk.age = 1
        /\ ~clk.tck_low /\ clk.age > 0 => tck = 1
        /\ clk.tck_low /\ clk.age > 0 => tck = 0
    BY <1>1 DEF PinsKnown, Rises, TapMoves, Typed
  <1>6. /\ Len(seen') = IF Rises THEN Len(seen) + 1 ELSE Len(seen)
        /\ Len(seen) \in Nat
    BY DEF Counted, Typed
  <1>7. /\ clk.cur_period = calls + (IF clk.tck_low THEN 0 ELSE clk.age)
        /\ Len(seen) = n + (IF ~clk.tck_low /\ clk.age > 1 THEN 1 ELSE 0)
    BY DEF Progress
  <1> DEFINE m == nb * tck_period
  <1>m. m \in Nat /\ clk.cur_period < m /\ m <= 5 * tck_period  BY <1>4
  <1> SUFFICES /\ clk' \in ClkType /\ clk'.cur_period <= m
               /\ PinsKnown'
               /\ ~clk'.gen_clk_begin
               /\ tck' \in Bit
               /\ IF ~clk.tck_low /\ clk.age = tck_period
                    THEN Progress(calls + tck_period + 1, n + 1)'
                    ELSE Progress(calls, n)'
    OBVIOUS
  <1> HIDE DEF m
  <1>8. CASE StaysLow(c)
    <2>1. clk' \in ClkType /\ clk'.cur_period <= m /\ ~clk'.gen_clk_begin /\ tck' \in Bit
      BY <1>1, <1>8, <1>m DEF StaysLow, ClkType, Bit
    <2>2. PinsKnown'
      BY <1>1, <1>5, <1>8 DEF StaysLow, PinsKnown, Rises
    <2>3. Progress(calls, n)'
      BY <1>1, <1>5, <1>6, <1>7, <1>8 DEF StaysLow, Progress
    <2>q. QED  BY <1>8, <2>1, <2>2, <2>3 DEF StaysLow
  <1>9. CASE GoesHigh(c)
    <2>1. clk' \in ClkType /\ clk'.cur_period <= m /\ ~clk'.gen_clk_begin /\ tck' \in Bit
      BY <1>1, <1>9, <1>m DEF GoesHigh, ClkType, Bit
    <2>2. PinsKnown'
      BY <1>1, <1>5, <1>9 DEF GoesHigh, PinsKnown, Rises
    <2>3. Progress(calls, n)'
      BY <1>1, <1>5, <1>6, <1>7, <1>9 DEF GoesHigh, Progress
    <2>q. QED  BY <1>9, <2>1, <2>2, <2>3 DEF GoesHigh
  <1>10. CASE StaysHigh(c)
    <2>1. clk' \in ClkType /\ clk'.cur_period <= m /\ ~clk'.gen_clk_begin /\ tck' \in Bit
      BY <1>1, <1>10, <1>m, SMTT(40) DEF StaysHigh, ClkType, Bit
    <2>2. PinsKnown'
      BY <1>1, <1>5, <1>10 DEF StaysHigh, PinsKnown, Rises
    <2>3. Progress(calls, n)'
      <3>1. /\ clk'.cur_period = calls + clk'.age /\ clk'.age = clk.age + 1
            /\ ~clk'.tck_low
        BY <1>1, <1>7, <1>10 DEF StaysHigh
      <3>2. Len(seen') = n + (IF clk'.age > 1 THEN 1 ELSE 0)
        BY <1>1, <1>5, <1>6, <1>7, <1>10, <3>1, SMTT(40) DEF StaysHigh
      <3>q. QED  BY <3>1, <3>2 DEF Progress
    <2>q. QED  BY <1>1, <1>10, <2>1, <2>2, <2>3 DEF StaysHigh
  <1>11. CASE GoesLow(c)
    <2>1. clk' \in ClkType /\ clk'.cur_period <= m /\ ~clk'.gen_clk_begin /\ tck' \in Bit
      BY <1>1, <1>11, <1>m DEF GoesLow, ClkType, Bit
    <2>2. PinsKnown'
      BY <1>1, <1>5, <1>11 DEF GoesLow, PinsKnown, Rises
    <2>4. ~clk.tck_low /\ clk.age = tck_period  BY <1>1, <1>11 DEF GoesLow
    <2>3. Progress(calls + tck_period + 1, n + 1)'
      <3>1. clk'.tck_low /\ clk'.cur_period = calls + tck_period + 1
        BY <1>1, <1>7, <1>11, <2>4 DEF GoesLow
      <3>2. ~Rises /\ Len(seen) = n + 1
        BY <1>5, <1>7, <2>4
      <3>3. Len(seen') = n + 1  BY <1>6, <3>2
      <3>q. QED  BY <3>1, <3>3 DEF Progress
    <2>q. QED  BY <2>1, <2>2, <2>3, <2>4
  <1>q. QED  BY <1>3, <1>8, <1>9, <1>10, <1>11

(* The clock ends, perhaps in the call that shows the TAP its edge. *)
LEMMA Tock ==
    ASSUME Typed, PinsKnown, NEW calls \in Nat, NEW n \in Nat, Progress(calls, n),
           ~clk.tck_low, clk.age > 0, clk' = gen_clk_restart, UNCHANGED tck,
           TapMoves, Counted
    PROVE  clk' \in ClkType /\ PinsKnown' /\ Progress(0, n + 1)'
  <1>1. clk.age \in Nat  BY DEF Typed, ClkType
  <1>2. tck' = 1 /\ was' = 1 /\ (Rises <=> clk.age = 1)
    BY <1>1 DEF PinsKnown, Rises, TapMoves
  <1>3. Len(seen') = n + 1
    BY <1>1, <1>2, SMTT(40) DEF Counted, Progress, Typed
  <1>4. clk' \in ClkType  BY DEF gen_clk_restart, ClkType
  <1>5. PinsKnown'  BY <1>2 DEF PinsKnown, Rises, gen_clk_restart
  <1>q. QED  BY <1>3, <1>4, <1>5 DEF Progress, gen_clk_restart


(* What the TAP sees next is the next bit of the command. *)
LEMMA NextBit ==
    ASSUME Typed, PinsKnown, SeenKnown, NEW calls \in Nat, NEW n \in Nat,
           Progress(calls, n), Counted, Edges(Now) \in Seq(Bit \X Bit)
    PROVE  /\ seen' \in Seq(Bit \X Bit) /\ read' \in Seq(Bit)
           /\ Len(seen') <= Len(Edges(Now))
           /\ \A m \in 1..Len(seen') : seen'[m] = Edges(Now)[m]
           /\ Len(read') = IF Now \in Scans THEN Len(seen') ELSE 0
           /\ Rises => /\ Len(seen) < Len(Edges(Now))
                       /\ <<tms, tdi>> = Edges(Now)[Len(seen) + 1]
  <1>1. CASE Rises
    <2>1. ~clk.tck_low /\ clk.age = 1
      BY <1>1 DEF PinsKnown, Rises, Typed, ClkType
    <2>2. Len(seen) = n /\ n < Len(Edges(Now)) /\ <<tms, tdi>> = Edges(Now)[n + 1]
      BY <2>1 DEF Progress
    <2>3. /\ seen' = Append(seen, <<tms, tdi>>)
          /\ read' = IF Now \in Scans THEN Append(read, tdo) ELSE read
      BY <1>1 DEF Counted
    <2>4. <<tms, tdi>> \in Bit \X Bit /\ tdo \in Bit  BY DEF Typed
    <2>5. seen' \in Seq(Bit \X Bit) /\ Len(seen') = n + 1  BY <2>2, <2>3, <2>4 DEF Typed
    <2>6. \A m \in 1..Len(seen') : seen'[m] = Edges(Now)[m]
      BY <2>2, <2>3, <2>4, <2>5 DEF SeenKnown, Typed
    <2>7. read' \in Seq(Bit) /\ Len(read') = IF Now \in Scans THEN Len(seen') ELSE 0
      <3>1. read \in Seq(Bit) /\ Len(read) = IF Now \in Scans THEN n ELSE 0
        BY <2>2 DEF SeenKnown, Typed
      <3>2. CASE Now \in Scans  BY <2>3, <2>4, <2>5, <3>1, <3>2
      <3>3. CASE Now \notin Scans  BY <2>3, <3>1, <3>3
      <3>q. QED  BY <3>2, <3>3
    <2>8. Len(seen') <= Len(Edges(Now)) /\ Len(seen) + 1 = n + 1
      <3>1. Len(Edges(Now)) \in Nat  OBVIOUS
      <3>q. QED  BY <2>2, <2>5, <3>1
    <2>q. QED  BY <2>2, <2>5, <2>6, <2>7, <2>8
  <1>2. CASE ~Rises
    BY <1>2 DEF Counted, SeenKnown, Typed
  <1>q. QED  BY <1>1, <1>2

-----------------------------------------------------------------------------
(* The command in progress.                                                *)

States == {"CHECK_CMD", "TAP_RESET", "GOTO_IDLE", "DO_TMS_SEQ", "SCAN_CHAIN"}

(* A command is of one kind. *)
LEMMA Distinct ==
    /\ None # Reset /\ None # Stop /\ Reset # Stop
    /\ \A c \in TmsSeqs : c \notin {None, Stop, Reset} /\ c \notin Scans
    /\ \A c \in Scans : c \notin {None, Stop, Reset}
  BY CommandData DEF ScanKinds

(* The state a command starts in, and whether it is in progress. *)
LEMMA Starts ==
    ASSUME NEW c \in Commands \cup {None}
    PROVE  /\ c \in {None, Stop} =>
                InitState(c.cmd) = "CHECK_CMD" /\ c.cmd \in {"none", "CMD_STOP_SIMU"}
           /\ c = Reset => InitState(c.cmd) = "TAP_RESET"
           /\ c \in TmsSeqs => InitState(c.cmd) = "DO_TMS_SEQ"
           /\ c \in Scans => InitState(c.cmd) = "SCAN_CHAIN"
           /\ c \notin {None, Stop} => c.cmd \notin {"none", "CMD_STOP_SIMU"}
           /\ c \in {None, Stop} \/ c = Reset \/ c \in TmsSeqs \/ c \in Scans
  <1>1. CASE c \in {None, Stop}
    BY <1>1, CommandData, Distinct DEF InitState, ScanKinds
  <1>2. CASE c = Reset
    BY <1>2, CommandData, Distinct DEF InitState, ScanKinds
  <1>3. CASE c \in TmsSeqs
    BY <1>3, CommandData, Distinct DEF InitState, ScanKinds
  <1>4. CASE c \in Scans
    BY <1>4, CommandData, Distinct DEF InitState, ScanKinds
  <1>q. QED  BY <1>1, <1>2, <1>3, <1>4 DEF Commands

(* The command in progress is known from the state. *)
LEMMA NowKnown ==
    ASSUME StateKnown, jtag_state \in States, cmd_in_progress \in BOOLEAN,
           clk.gen_clk_begin \in BOOLEAN, packet \in Commands \cup {None}
    PROVE  /\ Now = None => jtag_state = "CHECK_CMD" /\ ~cmd_in_progress
           /\ jtag_state = "CHECK_CMD" =>
                Now = IF ~clk.gen_clk_begin /\ packet \in {None, Stop}
                        THEN Reset ELSE None
           /\ jtag_state = "TAP_RESET" => Now = Reset
           /\ jtag_state = "GOTO_IDLE" => Now = IF cmd_in_progress THEN packet ELSE Reset
           /\ jtag_state \in {"DO_TMS_SEQ", "SCAN_CHAIN"} => Now = packet
           /\ Now # None => /\ Now \in {Reset} \cup TmsSeqs \cup Scans
                            /\ Edges(Now) \in Seq(Bit \X Bit)
  <1>1. /\ cmd_in_progress => Now = packet
        /\ ~cmd_in_progress =>
             Now = IF jtag_state = "GOTO_IDLE"
                        \/ (~clk.gen_clk_begin /\ packet \in {None, Stop})
                     THEN Reset ELSE None
    BY DEF Now
  <1>2. cmd_in_progress => packet \in {Reset} \cup TmsSeqs \cup Scans
    BY DEF StateKnown, Commands
  <1>3. /\ jtag_state = "CHECK_CMD" => ~cmd_in_progress
        /\ jtag_state = "TAP_RESET" => cmd_in_progress /\ packet = Reset
        /\ jtag_state \in {"DO_TMS_SEQ", "SCAN_CHAIN"} => cmd_in_progress
    BY DEF StateKnown
  <1>4. Now # None => Now \in {Reset} \cup TmsSeqs \cup Scans  BY <1>1, <1>2
  <1>5. Now # None => Edges(Now) \in Seq(Bit \X Bit)  BY <1>4, EdgesData
  <1>6. Now = None => jtag_state = "CHECK_CMD" /\ ~cmd_in_progress
    BY <1>1, <1>2, <1>3, Distinct DEF States
  <1>q. QED  BY <1>1, <1>3, <1>4, <1>5, <1>6

(* What TypeOK says of the clock and the pins. *)
LEMMA InvTyped ==
    ASSUME TypeOK
    PROVE  /\ Typed /\ clk.gen_clk_begin \in BOOLEAN
           /\ jtag_state \in States /\ cmd_in_progress \in BOOLEAN
           /\ packet \in Commands \cup {None}
           /\ tseq \in Place /\ chain \in Place
  BY DEF TypeOK, Typed, ClkType, States, Place

(* A sequence with one element more. *)
LEMMA Longer ==
    ASSUME NEW S, NEW q \in Seq(S), NEW e \in S
    PROVE  Append(q, e) \in Seq(S)
  OBVIOUS

(* The history keeps its types. *)
LEMMA ClockedTyped ==
    ASSUME TypeOK, Clocked
    PROVE  loose' \in BOOLEAN /\ seen' \in Seq(Bit \X Bit) /\ read' \in Seq(Bit)
  <1>1. loose \in BOOLEAN /\ (Stale \/ part \/ part') \in BOOLEAN  BY DEF TypeOK
  <1>2. loose' \in BOOLEAN  BY <1>1 DEF Clocked
  <1>3. /\ seen \in Seq(Bit \X Bit) /\ read \in Seq(Bit)
        /\ <<tms, tdi>> \in Bit \X Bit /\ tdo \in Bit
    BY DEF TypeOK
  <1>4. seen' \in {<<>>, seen, Append(seen, <<tms, tdi>>), Append(<<>>, <<tms, tdi>>)}
    BY DEF Clocked
  <1>5. read' \in {<<>>, read, Append(read, tdo), Append(<<>>, tdo)}
    BY DEF Clocked
  <1>6. seen' \in Seq(Bit \X Bit)
    <2>1. Append(seen, <<tms, tdi>>) \in Seq(Bit \X Bit)  BY <1>3, Longer
    <2>2. <<>> \in Seq(Bit \X Bit)  OBVIOUS
    <2>3. Append(<<>>, <<tms, tdi>>) \in Seq(Bit \X Bit)  BY <1>3, <2>2, Longer
    <2>q. QED  BY <1>3, <1>4, <2>1, <2>2, <2>3
  <1>7. read' \in Seq(Bit)
    <2>1. Append(read, tdo) \in Seq(Bit)  BY <1>3, Longer
    <2>2. <<>> \in Seq(Bit)  OBVIOUS
    <2>3. Append(<<>>, tdo) \in Seq(Bit)  BY <1>3, <2>2, Longer
    <2>q. QED  BY <1>3, <1>5, <2>1, <2>2, <2>3
  <1>q. QED  BY <1>2, <1>6, <1>7

(* What a call of doJTAG has to keep for TypeOK. *)
LEMMA StepTyped ==
    ASSUME TypeOK, TapMoves, Clocked, UNCHANGED debugger,
           jtag_state' \in States, cmd_in_progress' \in BOOLEAN, tms_flip' \in Bit,
           packet' \in Commands \cup {None},
           buffer_in' \in [1..Len(packet'.bits) -> Bit], clk' \in ClkType,
           tseq' \in Place, chain' \in Place,
           captured_tdo' \in Bit, tms' \in Bit, tdi' \in Bit, tck' \in Bit,
           sock' \in Seq(Commands), part' \in BOOLEAN, parts' \in 0..MaxParts,
           answer' \in Seq(Bit)
    PROVE  TypeOK'
  <1>1. loose' \in BOOLEAN /\ seen' \in Seq(Bit \X Bit) /\ read' \in Seq(Bit)
    BY ClockedTyped
  <1>2. gone' \in BOOLEAN /\ waits' \in BOOLEAN /\ stopped' \in BOOLEAN
    BY DEF TypeOK, debugger
  <1>3. was' \in Bit /\ tdo' \in Bit  BY DEF TypeOK, TapMoves
  <1>4. {loose', part', gone', waits', stopped'} \subseteq BOOLEAN
    BY <1>1, <1>2, Zenon
  <1>5. {captured_tdo', tms', tdi', tck', tdo', was'} \subseteq Bit  BY <1>3
  <1>q. QED  BY <1>1, <1>3, <1>4, <1>5 DEF TypeOK, ClkType, States, Place

-----------------------------------------------------------------------------
(* What every call keeps, in step or not.                                  *)

(* The clock, whatever is done with it. *)
LEMMA ClockBase ==
    ASSUME TypeOK, ClockKnown, TapMoves, NEW nb \in {1, 5}, NEW g \in BOOLEAN,
           gen_clk(nb, g) \/ ClockDone(nb) \/ NoClock
    PROVE  clk' \in ClkType /\ tck' \in Bit /\ ClockKnown'
  <1>1. /\ clk.gen_clk_begin \in BOOLEAN /\ clk.tck_low \in BOOLEAN
        /\ clk.age \in Nat /\ clk.cur_period \in 0..5 * tck_period
        /\ clk.capture_done \in BOOLEAN /\ clk \in ClkType
        /\ tck \in Bit /\ was' = tck
        /\ clk.gen_clk_begin => clk = gen_clk_restart
    BY DEF TypeOK, ClkType, ClockKnown, TapMoves
  <1>2. CASE gen_clk(nb, g)
    <2>1. PICK c \in BOOLEAN :
            StaysLow(c) \/ GoesHigh(c) \/ StaysHigh(c) \/ GoesLow(c)
      BY <1>1, <1>2, GenClk
    <2>2. clk.cur_period < 5 * tck_period /\ 5 * tck_period \in Nat
      <3>1. ~(clk.cur_period >= nb * tck_period)  BY <1>2 DEF gen_clk, Elapsed
      <3>2. CASE nb = 1  BY <1>1, <3>1, <3>2
      <3>3. CASE nb = 5  BY <1>1, <3>1, <3>3
      <3>q. QED  BY <3>2, <3>3
    <2>m. PICK m \in Nat : m = 5 * tck_period  BY <2>2
    <2>3. CASE StaysLow(c)
      BY <1>1, <2>2, <2>3 DEF StaysLow, ClkType, Bit, ClockKnown, Rises
    <2>4. CASE GoesHigh(c)
      BY <1>1, <2>2, <2>4 DEF GoesHigh, ClkType, Bit, ClockKnown, Rises
    <2>5. CASE StaysHigh(c)
      <3>1. clk.cur_period + 1 \in 0..5 * tck_period /\ clk.cur_period + 1 > 0
        BY <1>1, <2>2, <2>m
      <3>q. QED  BY <1>1, <2>5, <3>1 DEF StaysHigh, ClkType, Bit, ClockKnown
    <2>6. CASE GoesLow(c)
      <3>1. clk.cur_period + 1 \in 0..5 * tck_period /\ clk.cur_period + 1 > 0
        BY <1>1, <2>2, <2>m
      <3>q. QED  BY <1>1, <2>6, <3>1 DEF GoesLow, ClkType, Bit, ClockKnown
    <2>q. QED  BY <2>1, <2>3, <2>4, <2>5, <2>6
  <1>3. CASE ClockDone(nb)
    <2>1. clk' = gen_clk_restart /\ tck' = tck  BY <1>3 DEF ClockDone
    <2>2. clk' \in ClkType  BY <2>1 DEF gen_clk_restart, ClkType
    <2>q. QED  BY <1>1, <2>1, <2>2 DEF ClockKnown, Rises
  <1>4. CASE NoClock
    <2>1. CASE clk.gen_clk_begin
      BY <1>1, <1>4, <2>1 DEF NoClock, ClockKnown, Rises
    <2>2. CASE ~clk.gen_clk_begin
      <3>1. clk' = [clk EXCEPT !.age = @ + 1] /\ tck' = tck
        BY <1>4, <2>2 DEF NoClock
      <3>2. clk' \in ClkType /\ ~clk'.gen_clk_begin  BY <1>1, <2>2, <3>1 DEF ClkType
      <3>q. QED  BY <1>1, <3>1, <3>2 DEF ClockKnown, Rises
    <2>q. QED  BY <2>1, <2>2
  <1>q. QED  BY <1>2, <1>3, <1>4

(* What is read is a command or none, and what remains is as it was sent. *)
LEMMA ReadBase ==
    ASSUME ServerBase, check_for_command, UNCHANGED stopped
    PROVE  /\ packet' \in Commands \cup {None}
           /\ buffer_in' = [k \in 1..Len(packet'.bits) |-> 0]
           /\ buffer_in' \in [1..Len(packet'.bits) -> Bit]
           /\ sock' \in Seq(Commands) /\ part' \in BOOLEAN /\ parts' \in 0..MaxParts
           /\ part' => sock' # <<>>
           /\ \A n \in 1..Len(sock') : sock'[n] = Stop => n = Len(sock') /\ stopped'
  <1>1. /\ sock \in Seq(Commands) /\ part \in BOOLEAN /\ parts \in 0..MaxParts
        /\ part => sock # <<>>
        /\ \A n \in 1..Len(sock) : sock[n] = Stop => n = Len(sock) /\ stopped
    BY DEF ServerBase, TypeOK, StateKnown
  <1>2. buffer_in' = [k \in 1..Len(packet'.bits) |-> 0]  BY DEF check_for_command
  <1>3. buffer_in' \in [1..Len(packet'.bits) -> Bit]  BY <1>2 DEF Bit
  <1>4. sock # <<>> => Head(sock) \in Commands /\ Tail(sock) \in Seq(Commands)
    BY <1>1, HeadTailProperties
  <1>5. packet' \in Commands \cup {None}
    BY <1>4 DEF check_for_command, ReadWhole, ReadClosed, ReadPart
  <1>6. sock' = sock \/ (sock # <<>> /\ sock' = Tail(sock))
    BY DEF check_for_command, ReadWhole, ReadClosed, ReadPart, incoming
  <1>7. /\ part' \in BOOLEAN /\ parts' \in 0..MaxParts
        /\ part' => sock' # <<>>
    <2>1. CASE ReadWhole  BY <1>1, <2>1 DEF ReadWhole
    <2>2. CASE ReadClosed  BY <1>1, <2>2 DEF ReadClosed, incoming
    <2>3. CASE ReadPart
      <3>1. part' \in BOOLEAN /\ (part' => sock' # <<>>)
        BY <1>1, <2>3 DEF ReadPart
      <3>2. CASE part' = TRUE
        <4>1. parts < MaxParts /\ parts' = parts + 1  BY <2>3, <3>2 DEF ReadPart
        <4>q. QED  BY <1>1, <3>1, <4>1
      <3>3. CASE part' = FALSE  BY <1>1, <2>3, <3>1, <3>3 DEF ReadPart
      <3>q. QED  BY <3>1, <3>2, <3>3
    <2>q. QED  BY <2>1, <2>2, <2>3 DEF check_for_command
  <1>8. /\ sock' \in Seq(Commands)
        /\ \A n \in 1..Len(sock') : sock'[n] = Stop => n = Len(sock') /\ stopped'
    <2>1. CASE sock' = sock  BY <1>1, <2>1
    <2>2. CASE sock # <<>> /\ sock' = Tail(sock)
      <3>1. /\ sock' \in Seq(Commands) /\ Len(sock') = Len(sock) - 1
            /\ \A n \in 1..Len(sock') : sock'[n] = sock[n + 1]
            /\ Len(sock) \in Nat
        BY <1>1, <2>2
      <3>q. QED  BY <1>1, <3>1
    <2>q. QED  BY <1>6, <2>1, <2>2
  <1>q. QED  BY <1>2, <1>3, <1>5, <1>7, <1>8

(* CHECK_CMD, whatever it reads and whatever the clock. *)
LEMMA CheckBase ==
    ASSUME ServerBase, CheckCmd, TapMoves, Clocked, UNCHANGED debugger
    PROVE  ServerBase'
  <1>1. /\ TypeOK /\ ClockKnown /\ jtag_state = "CHECK_CMD"
        /\ tseq = <<0, 0>> /\ chain = <<0, 0>> /\ tdi = 0
        /\ tseq' = <<0, 0>> /\ chain' = <<0, 0>> /\ tdi' = 0
        /\ UNCHANGED <<captured_tdo, answer, stopped>>
        /\ captured_tdo \in Bit /\ answer \in Seq(Bit) /\ tms_flip \in Bit
    BY DEF ServerBase, TypeOK, PlacesKnown, PlaceKnown, CheckCmd, debugger
  <1>2. /\ packet' \in Commands \cup {None}
        /\ buffer_in' \in [1..Len(packet'.bits) -> Bit]
        /\ sock' \in Seq(Commands) /\ part' \in BOOLEAN /\ parts' \in 0..MaxParts
        /\ part' => sock' # <<>>
        /\ \A n \in 1..Len(sock') : sock'[n] = Stop => n = Len(sock') /\ stopped'
    BY <1>1, ReadBase DEF CheckCmd
  <1>3. /\ cmd_in_progress' = (packet'.cmd \notin {"none", "CMD_STOP_SIMU"})
        /\ tms_flip' = CASE packet'.cmd = "CMD_SCAN_CHAIN"          -> 0
                         [] packet'.cmd = "CMD_SCAN_CHAIN_FLIP_TMS" -> 1
                         [] OTHER                                   -> tms_flip
        /\ reset_tap(InitState(packet'.cmd))
    BY DEF CheckCmd
  <1>4. /\ jtag_state' \in {InitState(packet'.cmd), "GOTO_IDLE"}
        /\ gen_clk(5, FALSE) \/ ClockDone(5)
        /\ tms' \in Bit
    BY <1>3 DEF reset_tap, Bit
  <1>5. clk' \in ClkType /\ tck' \in Bit /\ ClockKnown'
    <2>1. 5 \in {1, 5} /\ FALSE \in BOOLEAN  OBVIOUS
    <2>q. QED  BY <1>1, <1>4, <2>1, ClockBase
  <1>6. /\ packet' \in {None, Stop} =>
             InitState(packet'.cmd) = "CHECK_CMD" /\ cmd_in_progress' = FALSE
        /\ packet' = Reset => InitState(packet'.cmd) = "TAP_RESET"
        /\ packet' \in TmsSeqs => InitState(packet'.cmd) = "DO_TMS_SEQ"
        /\ packet' \in Scans => InitState(packet'.cmd) = "SCAN_CHAIN"
        /\ packet' \notin {None, Stop} => cmd_in_progress' = TRUE
        /\ packet' \in {None, Stop} \/ packet' = Reset \/ packet' \in TmsSeqs
             \/ packet' \in Scans
    BY <1>2, <1>3, Starts
  <1>7. /\ tms_flip' \in Bit
        /\ packet' \in Scans =>
             tms_flip' = IF packet'.cmd = "CMD_SCAN_CHAIN" THEN 0 ELSE 1
    BY <1>1, <1>3, CommandData DEF Bit, ScanKinds
  <1>8. TypeOK'
    <2>1. jtag_state' \in States /\ cmd_in_progress' \in BOOLEAN
      BY <1>4, <1>6 DEF States
    <2>2. tseq' \in Place /\ chain' \in Place /\ tdi' \in Bit
      BY <1>1 DEF Place, Bit
    <2>3. captured_tdo' \in Bit /\ answer' \in Seq(Bit)  BY <1>1
    <2>q. QED  BY <1>1, <1>2, <1>4, <1>5, <1>7, <2>1, <2>2, <2>3, StepTyped
  <1>9. StateKnown'
    <2>1. CASE jtag_state' = "GOTO_IDLE"  BY <1>2, <1>6, <2>1 DEF StateKnown
    <2>2. CASE jtag_state' = InitState(packet'.cmd)
      BY <1>2, <1>6, <1>7, <2>2, Distinct DEF StateKnown
    <2>q. QED  BY <1>4, <2>1, <2>2
  <1>10. PlacesKnown'
    <2>1. jtag_state' = "DO_TMS_SEQ" => packet' \in TmsSeqs  BY <1>9 DEF StateKnown
    <2>2. jtag_state' = "SCAN_CHAIN" => packet' \in Scans  BY <1>9 DEF StateKnown
    <2>3. PlaceKnown(tseq, "DO_TMS_SEQ")'
      <3>1. CASE jtag_state' = "DO_TMS_SEQ"
        <4>1. AtPlace(<<0, 0>>)' /\ (Total' > 0 => AtBit(<<0, 0>>)')
          BY <2>1, <3>1, AtStart
        <4>2. AtPlace(tseq)' /\ (Total' > 0 => AtBit(tseq)')
          BY <1>1, <4>1 DEF AtPlace, AtBit, BitsIn, TmsBitsIn, ScanBitsIn
        <4>q. QED  BY <3>1, <4>2 DEF PlaceKnown
      <3>2. CASE jtag_state' # "DO_TMS_SEQ"  BY <1>1, <3>2 DEF PlaceKnown
      <3>q. QED  BY <3>1, <3>2
    <2>4. PlaceKnown(chain, "SCAN_CHAIN")'
      <3>1. CASE jtag_state' = "SCAN_CHAIN"
        <4>1. AtPlace(<<0, 0>>)' /\ (Total' > 0 => AtBit(<<0, 0>>)')
          BY <2>2, <3>1, AtStart
        <4>2. AtPlace(chain)' /\ (Total' > 0 => AtBit(chain)')
          BY <1>1, <4>1 DEF AtPlace, AtBit, BitsIn, TmsBitsIn, ScanBitsIn
        <4>q. QED  BY <3>1, <4>2 DEF PlaceKnown
      <3>2. CASE jtag_state' # "SCAN_CHAIN"  BY <1>1, <3>2 DEF PlaceKnown
      <3>q. QED  BY <3>1, <3>2
    <2>q. QED  BY <1>1, <2>3, <2>4 DEF PlacesKnown
  <1>q. QED  BY <1>5, <1>8, <1>9, <1>10 DEF ServerBase

(* Where neither buffer is in use. *)
LEMMA NoPlaces ==
    ASSUME tseq' = <<0, 0>>, chain' = <<0, 0>>, tdi' = 0,
           jtag_state' \notin {"DO_TMS_SEQ", "SCAN_CHAIN"}
    PROVE  PlacesKnown'
  BY DEF PlacesKnown, PlaceKnown

(* TAP_RESET. *)
LEMMA TapResetBase ==
    ASSUME ServerBase, TapReset, TapMoves, Clocked, UNCHANGED debugger
    PROVE  ServerBase'
  <1>1. /\ TypeOK /\ ClockKnown /\ StateKnown
        /\ jtag_state = "TAP_RESET" /\ cmd_in_progress = TRUE /\ packet = Reset
        /\ tseq = <<0, 0>> /\ chain = <<0, 0>> /\ tdi = 0
        /\ UNCHANGED <<cmd_in_progress, tms_flip, packet, tseq, chain, captured_tdo,
                       buffer_in, tdi, sock, part, parts, answer, stopped>>
        /\ reset_tap("TAP_RESET")
    BY DEF ServerBase, TypeOK, StateKnown, PlacesKnown, PlaceKnown, TapReset, places,
           incoming, debugger
  <1>2. /\ jtag_state' \in {"TAP_RESET", "GOTO_IDLE"}
        /\ gen_clk(5, FALSE) \/ ClockDone(5)
        /\ tms' \in Bit
    BY <1>1 DEF reset_tap, Bit
  <1>3. clk' \in ClkType /\ tck' \in Bit /\ ClockKnown'
    <2>1. 5 \in {1, 5} /\ FALSE \in BOOLEAN  OBVIOUS
    <2>q. QED  BY <1>1, <1>2, <2>1, ClockBase
  <1>4. TypeOK'
    <2>1. /\ jtag_state' \in States /\ cmd_in_progress' \in BOOLEAN /\ tms_flip' \in Bit
          /\ packet' \in Commands \cup {None}
          /\ buffer_in' \in [1..Len(packet'.bits) -> Bit]
          /\ captured_tdo' \in Bit /\ tdi' \in Bit /\ answer' \in Seq(Bit)
          /\ sock' \in Seq(Commands) /\ part' \in BOOLEAN /\ parts' \in 0..MaxParts
      BY <1>1, <1>2 DEF TypeOK, States
    <2>2. tseq' \in Place /\ chain' \in Place  BY <1>1 DEF Place
    <2>q. QED  BY <1>1, <1>2, <1>3, <2>1, <2>2, StepTyped
  <1>5. StateKnown'  BY <1>1, <1>2, Distinct DEF StateKnown
  <1>6. PlacesKnown'  BY <1>1, <1>2, NoPlaces
  <1>q. QED  BY <1>3, <1>4, <1>5, <1>6 DEF ServerBase

(* GOTO_IDLE. *)
LEMMA IdleBase ==
    ASSUME ServerBase, GotoIdle, TapMoves, Clocked, UNCHANGED debugger
    PROVE  ServerBase'
  <1>1. /\ TypeOK /\ ClockKnown /\ StateKnown
        /\ jtag_state = "GOTO_IDLE"
        /\ tseq = <<0, 0>> /\ chain = <<0, 0>> /\ tdi = 0
        /\ UNCHANGED <<tms_flip, tseq, chain, captured_tdo, tdi, answer, stopped>>
        /\ tms' = 0
        /\ cmd_in_progress \in BOOLEAN
    BY DEF ServerBase, TypeOK, PlacesKnown, PlaceKnown, GotoIdle, debugger
  <1>2. /\ packet' \in Commands \cup {None}
        /\ buffer_in' \in [1..Len(packet'.bits) -> Bit]
        /\ sock' \in Seq(Commands) /\ part' \in BOOLEAN /\ parts' \in 0..MaxParts
        /\ part' => sock' # <<>>
        /\ \A n \in 1..Len(sock') : sock'[n] = Stop => n = Len(sock') /\ stopped'
        /\ cmd_in_progress => packet' = packet /\ packet \notin {None, Stop}
    <2>1. CASE cmd_in_progress = TRUE
      <3>1. UNCHANGED <<packet, sock, part, parts, buffer_in>>
        BY <2>1 DEF GotoIdle, incoming
      <3>2. /\ packet \in Commands \cup {None}
            /\ buffer_in \in [1..Len(packet.bits) -> Bit]
            /\ sock \in Seq(Commands) /\ part \in BOOLEAN /\ parts \in 0..MaxParts
        BY <1>1 DEF TypeOK
      <3>3. /\ part => sock # <<>>
            /\ \A n \in 1..Len(sock) : sock[n] = Stop => n = Len(sock) /\ stopped
            /\ packet \notin {None, Stop}
        BY <1>1, <2>1 DEF StateKnown
      <3>q. QED  BY <1>1, <3>1, <3>2, <3>3
    <2>2. CASE cmd_in_progress = FALSE
      <3>1. check_for_command  BY <2>2 DEF GotoIdle
      <3>q. QED  BY <1>1, <2>2, <3>1, ReadBase
    <2>q. QED  BY <1>1, <2>1, <2>2
  <1>3. /\ jtag_state' \in {"GOTO_IDLE", "CHECK_CMD"}
        /\ gen_clk(1, FALSE) \/ ClockDone(1)
        /\ cmd_in_progress' \in BOOLEAN
        /\ jtag_state' = "CHECK_CMD" => ~cmd_in_progress'
        /\ cmd_in_progress' => cmd_in_progress
    <2>1. CASE gen_clk(1, FALSE) /\ UNCHANGED <<jtag_state, cmd_in_progress>>
      BY <1>1, <2>1
    <2>2. CASE ClockDone(1) /\ jtag_state' = "CHECK_CMD" /\ cmd_in_progress' = FALSE
      BY <2>2
    <2>q. QED  BY <2>1, <2>2 DEF GotoIdle
  <1>4. clk' \in ClkType /\ tck' \in Bit /\ ClockKnown'
    <2>1. 1 \in {1, 5} /\ FALSE \in BOOLEAN  OBVIOUS
    <2>q. QED  BY <1>1, <1>3, <2>1, ClockBase
  <1>5. TypeOK'
    <2>1. /\ jtag_state' \in States /\ tms_flip' \in Bit
          /\ captured_tdo' \in Bit /\ tdi' \in Bit /\ answer' \in Seq(Bit)
          /\ tms' \in Bit
      BY <1>1, <1>3 DEF TypeOK, States, Bit
    <2>2. tseq' \in Place /\ chain' \in Place  BY <1>1 DEF Place
    <2>q. QED  BY <1>1, <1>2, <1>3, <1>4, <2>1, <2>2, StepTyped
  <1>6. StateKnown'  BY <1>2, <1>3 DEF StateKnown
  <1>7. PlacesKnown'  BY <1>1, <1>3, NoPlaces
  <1>q. QED  BY <1>4, <1>5, <1>6, <1>7 DEF ServerBase

(* A buffer that stays has its places where they were. *)
LEMMA SameBuffer ==
    ASSUME packet' = packet
    PROVE  /\ length' = length /\ Total' = Total
           /\ \A i : BitsIn(i)' = BitsIn(i)
           /\ \A p : p = tseq' => /\ BitsDone(tseq)' = BitsDone(p)
                                  /\ AtPlace(tseq)' <=> AtPlace(p)
                                  /\ AtBit(tseq)' <=> AtBit(p)
           /\ \A p : p = chain' => /\ BitsDone(chain)' = BitsDone(p)
                                   /\ AtPlace(chain)' <=> AtPlace(p)
                                   /\ AtBit(chain)' <=> AtBit(p)
  <1>1. length' = length /\ nb_bits_rem' = nb_bits_rem  BY DEF length, nb_bits_rem
  <1>2. Total' = Total  BY DEF Total
  <1>3. \A i : BitsIn(i)' = BitsIn(i)  BY <1>1 DEF BitsIn, TmsBitsIn, ScanBitsIn
  <1>4. /\ BitsIn(tseq[1])' = BitsIn(tseq'[1]) /\ BitsIn(chain[1])' = BitsIn(chain'[1])
    BY <1>1 DEF BitsIn, TmsBitsIn, ScanBitsIn
  <1>5. \A p : p = tseq' => /\ BitsDone(tseq)' = BitsDone(p)
                            /\ AtPlace(tseq)' <=> AtPlace(p)
                            /\ AtBit(tseq)' <=> AtBit(p)
    BY <1>1, <1>2, <1>4 DEF BitsDone, BitAt, AtPlace, AtBit
  <1>6. \A p : p = chain' => /\ BitsDone(chain)' = BitsDone(p)
                             /\ AtPlace(chain)' <=> AtPlace(p)
                             /\ AtBit(chain)' <=> AtBit(p)
    BY <1>1, <1>2, <1>4 DEF BitsDone, BitAt, AtPlace, AtBit
  <1>q. QED  BY <1>1, <1>2, <1>3, <1>5, <1>6

(* The four things a call of do_tms_seq can be. *)
TmsBit ==
    /\ AtBit(tseq) /\ tms' = packet.bits[BitAt(tseq)] /\ GoesOn
    /\ gen_clk(1, FALSE) /\ tseq' = tseq
TmsBitDone ==
    /\ AtBit(tseq) /\ tms' = packet.bits[BitAt(tseq)] /\ GoesOn
    /\ ClockDone(1) /\ tseq' = <<tseq[1], tseq[2] + 1>>
TmsByteDone ==
    /\ tseq[1] < length /\ tseq[2] = BitsIn(tseq[1]) /\ ~AtBit(tseq)
    /\ tseq' = <<tseq[1] + 1, 0>>
    /\ NoClock /\ GoesOn /\ UNCHANGED tms
TmsDone ==
    /\ tseq[1] >= length /\ tseq = <<length, 0>> /\ ~AtBit(tseq)
    /\ tms' = 0 /\ tseq' = <<0, 0>>
    /\ NoClock /\ CommandDone

(* What DO_TMS_SEQ does. *)
LEMMA TmsFacts ==
    ASSUME ServerBase, DoTmsSeq, UNCHANGED debugger
    PROVE  /\ TypeOK /\ ClockKnown /\ StateKnown
           /\ jtag_state = "DO_TMS_SEQ" /\ cmd_in_progress = TRUE
           /\ packet \in TmsSeqs /\ tseq \in Place /\ tseq = <<tseq[1], tseq[2]>>
           /\ AtPlace(tseq) /\ (~clk.gen_clk_begin /\ Total > 0 => AtBit(tseq))
           /\ chain = <<0, 0>> /\ tdi = 0
           /\ UNCHANGED <<tms_flip, packet, chain, captured_tdo, buffer_in, tdi, sock,
                          part, parts, answer, gone, stopped, waits>>
           /\ TmsBit \/ TmsBitDone \/ TmsByteDone \/ TmsDone
  <1>1. /\ TypeOK /\ ClockKnown /\ StateKnown
        /\ jtag_state = "DO_TMS_SEQ" /\ cmd_in_progress = TRUE
        /\ packet \in TmsSeqs /\ tseq \in Place
        /\ AtPlace(tseq) /\ (~clk.gen_clk_begin /\ Total > 0 => AtBit(tseq))
        /\ chain = <<0, 0>> /\ tdi = 0
    BY DEF ServerBase, TypeOK, StateKnown, PlacesKnown, PlaceKnown, DoTmsSeq, Place
  <1>2. /\ UNCHANGED <<tms_flip, packet, chain, captured_tdo, buffer_in, tdi, sock,
                       part, parts, answer, gone, stopped, waits>>
        /\ do_tms_seq
    BY DEF DoTmsSeq, incoming, debugger
  <1>3. tseq[1] \in Nat /\ tseq[2] \in Nat /\ tseq = <<tseq[1], tseq[2]>>
    BY <1>1 DEF Place
  <1>4. /\ BitsIn(tseq[1]) = TmsBitsIn(tseq[1]) /\ BitsIn(tseq[1]) \in Nat
        /\ length \in Nat
    <2>1. /\ length \in 0..XFERT_MAX_SIZE
          /\ \A i \in Nat : BitsIn(i) \in 0..ByteBits
          /\ \A i \in Nat : BitsIn(i) = TmsBitsIn(i)
      BY <1>1, LastByte
    <2>2. length \in Nat  BY <2>1
    <2>3. BitsIn(tseq[1]) \in 0..ByteBits  BY <1>3, <2>1
    <2>q. QED  BY <1>3, <2>1, <2>2, <2>3
  <1>5. PICK b \in Nat : b = BitsIn(tseq[1])  BY <1>4
  <1>l. PICK l \in Nat : l = length  BY <1>4
  <1> DEFINE AtOne == /\ tseq[1] < length /\ tseq[2] < TmsBitsIn(tseq[1])
                      /\ tms' = packet.bits[BitAt(tseq)]
                      /\ \/ gen_clk(1, FALSE) /\ UNCHANGED tseq
                         \/ ClockDone(1) /\ tseq' = <<tseq[1], tseq[2] + 1>>
                      /\ GoesOn
             AtEnd == /\ tseq[1] < length /\ tseq[2] >= TmsBitsIn(tseq[1])
                      /\ tseq' = <<tseq[1] + 1, 0>>
                      /\ NoClock
                      /\ GoesOn
                      /\ UNCHANGED tms
             Over == /\ tseq[1] >= length
                     /\ tms' = 0
                     /\ tseq' = <<0, 0>>
                     /\ NoClock
                     /\ CommandDone
  <1>d. AtOne \/ AtEnd \/ Over  BY <1>2 DEF do_tms_seq
  <1>6. AtOne => TmsBit \/ TmsBitDone
    <2>1. AtOne => AtBit(tseq)  BY <1>4 DEF AtBit
    <2>q. QED  BY <2>1 DEF TmsBit, TmsBitDone
  <1>7. AtEnd => TmsByteDone
    <2>1. SUFFICES ASSUME AtEnd PROVE TmsByteDone  OBVIOUS
    <2>2. tseq[1] < l /\ tseq[2] >= b  BY <1>4, <1>5, <1>l, <2>1
    <2>3. ~AtBit(tseq)  BY <1>3, <1>5, <2>2 DEF AtBit
    <2>4. tseq[2] = b
      <3>1. tseq[2] <= b \/ tseq = <<l, 0>>  BY <1>1, <1>5, <1>l DEF AtPlace
      <3>2. tseq # <<l, 0>>  BY <1>3, <2>2
      <3>q. QED  BY <1>3, <2>2, <3>1, <3>2
    <2>q. QED  BY <1>5, <2>1, <2>3, <2>4 DEF TmsByteDone
  <1>8. Over => TmsDone
    <2>1. SUFFICES ASSUME Over PROVE TmsDone  OBVIOUS
    <2>2. tseq[1] >= l  BY <1>l, <2>1
    <2>3. ~AtBit(tseq)  BY <1>3, <1>l, <2>2 DEF AtBit
    <2>4. tseq = <<l, 0>>
      <3>1. tseq[1] < l \/ tseq = <<l, 0>>  BY <1>1, <1>l DEF AtPlace
      <3>q. QED  BY <1>3, <2>2, <3>1
    <2>q. QED  BY <1>l, <2>1, <2>3, <2>4 DEF TmsDone
  <1> HIDE DEF AtOne, AtEnd, Over
  <1>q. QED  BY <1>1, <1>2, <1>3, <1>d, <1>6, <1>7, <1>8

(* DO_TMS_SEQ. *)
LEMMA TmsBase ==
    ASSUME ServerBase, DoTmsSeq, TapMoves, Clocked, UNCHANGED debugger
    PROVE  ServerBase'
  <1>1. /\ TypeOK /\ ClockKnown /\ StateKnown
        /\ jtag_state = "DO_TMS_SEQ" /\ cmd_in_progress = TRUE
        /\ packet \in TmsSeqs /\ tseq \in Place
        /\ AtPlace(tseq) /\ (~clk.gen_clk_begin /\ Total > 0 => AtBit(tseq))
        /\ chain = <<0, 0>> /\ tdi = 0
        /\ UNCHANGED <<tms_flip, packet, chain, captured_tdo, buffer_in, tdi, sock,
                       part, parts, answer, stopped>>
        /\ TmsBit \/ TmsBitDone \/ TmsByteDone \/ TmsDone
    BY TmsFacts
  <1>2. clk' \in ClkType /\ tck' \in Bit /\ ClockKnown'
    <2>1. 1 \in {1, 5} /\ FALSE \in BOOLEAN  OBVIOUS
    <2>2. gen_clk(1, FALSE) \/ ClockDone(1) \/ NoClock
      BY <1>1 DEF TmsBit, TmsBitDone, TmsByteDone, TmsDone
    <2>q. QED  BY <1>1, <2>1, <2>2, ClockBase
  <1>3. /\ tms_flip' \in Bit /\ packet' \in Commands \cup {None}
        /\ buffer_in' \in [1..Len(packet'.bits) -> Bit]
        /\ captured_tdo' \in Bit /\ tdi' \in Bit /\ answer' \in Seq(Bit)
        /\ sock' \in Seq(Commands) /\ part' \in BOOLEAN /\ parts' \in 0..MaxParts
        /\ tms \in Bit
    BY <1>1 DEF TypeOK
  <1>4. chain' \in Place  BY <1>1 DEF Place
  <1>5. AtBit(tseq) => packet.bits[BitAt(tseq)] \in Bit
    <2>1. SUFFICES ASSUME AtBit(tseq) PROVE packet.bits[BitAt(tseq)] \in Bit  OBVIOUS
    <2>2. BitAt(tseq) \in 1..Total  BY <1>1, <2>1, AtABit
    <2>3. Total \in 0..Len(packet.bits) /\ Len(packet.bits) \in Nat  BY <1>1, LastByte
    <2>4. BitAt(tseq) \in 1..Len(packet.bits)  BY <2>2, <2>3
    <2>5. packet.bits \in [1..Len(packet.bits) -> Bit]  BY <1>1, BufferData
    <2>q. QED  BY <2>4, <2>5
  <1>6. /\ tms' \in Bit /\ cmd_in_progress' \in BOOLEAN /\ jtag_state' \in States
        /\ \/ jtag_state' = "DO_TMS_SEQ" /\ cmd_in_progress' = TRUE
           \/ jtag_state' = "CHECK_CMD" /\ cmd_in_progress' = FALSE /\ tseq' = <<0, 0>>
    BY <1>1, <1>3, <1>5
    DEF TmsBit, TmsBitDone, TmsByteDone, TmsDone, GoesOn, CommandDone, States, Bit
  <1>7. /\ tseq' \in Place
        /\ jtag_state' = "DO_TMS_SEQ" =>
             /\ AtPlace(tseq)'
             /\ ~clk'.gen_clk_begin /\ Total' > 0 => AtBit(tseq)'
    <2>0. /\ Total' = Total
          /\ \A p : p = tseq' => /\ AtPlace(tseq)' <=> AtPlace(p)
                                 /\ AtBit(tseq)' <=> AtBit(p)
      BY <1>1, SameBuffer
    <2>1. CASE TmsBit
      <3>1. tseq' = tseq /\ AtBit(tseq)  BY <2>1 DEF TmsBit
      <3>q. QED  BY <1>1, <2>0, <3>1
    <2>2. CASE TmsBitDone
      <3>1. tseq' = <<tseq[1], tseq[2] + 1>> /\ AtBit(tseq) /\ clk'.gen_clk_begin
        BY <2>2 DEF TmsBitDone, ClockDone, gen_clk_restart
      <3>2. AtPlace(<<tseq[1], tseq[2] + 1>>) /\ <<tseq[1], tseq[2] + 1>> \in Place
        BY <1>1, <3>1, AtABit
      <3>q. QED  BY <2>0, <3>1, <3>2
    <2>3. CASE TmsByteDone
      <3>1. /\ tseq[1] < length /\ tseq[2] = BitsIn(tseq[1]) /\ ~AtBit(tseq)
            /\ tseq' = <<tseq[1] + 1, 0>> /\ NoClock
        BY <2>3 DEF TmsByteDone
      <3>2. AtPlace(<<tseq[1] + 1, 0>>) /\ <<tseq[1] + 1, 0>> \in Place
        BY <1>1, <3>1, AtByteEnd
      <3>3. clk'.gen_clk_begin = clk.gen_clk_begin
        BY <1>1, <3>1 DEF NoClock, TypeOK
      <3>q. QED  BY <1>1, <2>0, <3>1, <3>2, <3>3
    <2>4. CASE TmsDone
      <3>1. tseq' = <<0, 0>> /\ jtag_state' = "CHECK_CMD"
        BY <2>4 DEF TmsDone, CommandDone
      <3>q. QED  BY <3>1 DEF Place
    <2>q. QED  BY <1>1, <2>1, <2>2, <2>3, <2>4
  <1>8. TypeOK'  BY <1>1, <1>2, <1>3, <1>4, <1>6, <1>7, StepTyped
  <1>9. StateKnown'
    <2>1. CASE jtag_state' = "DO_TMS_SEQ" /\ cmd_in_progress' = TRUE
      BY <1>1, <2>1, Distinct DEF StateKnown
    <2>2. CASE jtag_state' = "CHECK_CMD" /\ cmd_in_progress' = FALSE
      BY <1>1, <2>2 DEF StateKnown
    <2>q. QED  BY <1>6, <2>1, <2>2
  <1>10. PlacesKnown'
    BY <1>1, <1>6, <1>7 DEF PlacesKnown, PlaceKnown
  <1>q. QED  BY <1>2, <1>8, <1>9, <1>10 DEF ServerBase

(* The four things a call of do_scan_chain can be. *)
ScanPins ==
    /\ AtBit(chain) /\ GoesOn /\ UNCHANGED answer
    /\ tdi' = packet.bits[BitAt(chain)]
    /\ tms' = IF LastBit(chain[1], chain[2]) THEN tms_flip ELSE 0
ScanBit ==
    /\ ScanPins
    /\ gen_clk(1, TRUE)
    /\ captured_tdo' = IF Captures THEN tdo' ELSE captured_tdo
    /\ chain' = chain /\ buffer_in' = buffer_in
ScanBitDone ==
    /\ ScanPins
    /\ ClockDone(1)
    /\ buffer_in' = [buffer_in EXCEPT ![BitAt(chain)] = captured_tdo]
    /\ chain' = <<chain[1], chain[2] + 1>>
    /\ captured_tdo' = captured_tdo
ScanByteDone ==
    /\ chain[1] < length /\ chain[2] = BitsIn(chain[1]) /\ ~AtBit(chain)
    /\ chain' = <<chain[1] + 1, 0>>
    /\ tms' = 0 /\ NoClock /\ GoesOn
    /\ UNCHANGED <<tdi, captured_tdo, buffer_in, answer>>
ScanDone ==
    /\ chain[1] >= length /\ chain = <<length, 0>> /\ ~AtBit(chain)
    /\ tdi' = 0 /\ tms' = 0 /\ chain' = <<0, 0>>
    /\ answer' = IF gone THEN answer ELSE buffer_in
    /\ NoClock /\ CommandDone
    /\ UNCHANGED <<captured_tdo, buffer_in>>

(* What SCAN_CHAIN does. *)
LEMMA ScanFacts ==
    ASSUME ServerBase, ScanChain, UNCHANGED debugger
    PROVE  /\ TypeOK /\ ClockKnown /\ StateKnown
           /\ jtag_state = "SCAN_CHAIN" /\ cmd_in_progress = TRUE
           /\ packet \in Scans /\ chain \in Place
           /\ tms_flip = IF packet.cmd = "CMD_SCAN_CHAIN" THEN 0 ELSE 1
           /\ AtPlace(chain) /\ (~clk.gen_clk_begin => AtBit(chain))
           /\ tseq = <<0, 0>>
           /\ UNCHANGED <<tms_flip, packet, tseq, sock, part, parts, gone, stopped,
                          waits>>
           /\ ScanBit \/ ScanBitDone \/ ScanByteDone \/ ScanDone
  <1>1. /\ TypeOK /\ ClockKnown /\ StateKnown
        /\ jtag_state = "SCAN_CHAIN" /\ cmd_in_progress = TRUE
        /\ packet \in Scans /\ chain \in Place
        /\ tms_flip = IF packet.cmd = "CMD_SCAN_CHAIN" THEN 0 ELSE 1
        /\ AtPlace(chain) /\ (~clk.gen_clk_begin /\ Total > 0 => AtBit(chain))
        /\ tseq = <<0, 0>>
    BY DEF ServerBase, TypeOK, StateKnown, PlacesKnown, PlaceKnown, ScanChain, Place
  <1>2. /\ UNCHANGED <<tms_flip, packet, tseq, sock, part, parts, gone, stopped, waits>>
        /\ do_scan_chain
    BY DEF ScanChain, incoming, debugger
  <1>3. chain[1] \in Nat /\ chain[2] \in Nat  BY <1>1 DEF Place
  <1>4. /\ BitsIn(chain[1]) = ScanBitsIn(chain[1]) /\ BitsIn(chain[1]) \in Nat
        /\ length \in Nat /\ Total > 0
    <2>1. /\ length \in 0..XFERT_MAX_SIZE
          /\ \A i \in Nat : BitsIn(i) \in 0..ByteBits
          /\ Total \in 0..Len(packet.bits)
      BY <1>1, LastByte
    <2>2. Total # 0 /\ \A i \in Nat : BitsIn(i) = ScanBitsIn(i)
      BY <1>1, LastByte
    <2>3. length \in Nat  BY <2>1
    <2>4. Total > 0  BY <2>1, <2>2
    <2>5. BitsIn(chain[1]) \in 0..ByteBits  BY <1>3, <2>1
    <2>q. QED  BY <1>3, <2>2, <2>3, <2>4, <2>5
  <1>5. PICK b \in Nat : b = BitsIn(chain[1])  BY <1>4
  <1>l. PICK l \in Nat : l = length  BY <1>4
  <1> DEFINE i == chain[1]
             j == chain[2]
             AtOne == /\ i < length /\ j < ScanBitsIn(i)
                      /\ tdi' = packet.bits[BitAt(chain)]
                      /\ tms' = IF LastBit(i, j) THEN tms_flip ELSE 0
                      /\ \/ /\ gen_clk(1, TRUE)
                            /\ captured_tdo' = IF Captures THEN tdo' ELSE captured_tdo
                            /\ UNCHANGED <<chain, buffer_in>>
                         \/ /\ ClockDone(1)
                            /\ buffer_in' =
                                 [buffer_in EXCEPT ![BitAt(chain)] = captured_tdo]
                            /\ chain' = <<i, j + 1>>
                            /\ UNCHANGED captured_tdo
                      /\ GoesOn
                      /\ UNCHANGED answer
             AtEnd == /\ i < length /\ j >= ScanBitsIn(i)
                      /\ chain' = <<i + 1, 0>>
                      /\ tms' = 0
                      /\ NoClock
                      /\ GoesOn
                      /\ UNCHANGED <<tdi, captured_tdo, buffer_in, answer>>
             Over == /\ i >= length
                     /\ tdi' = 0
                     /\ tms' = 0
                     /\ chain' = <<0, 0>>
                     /\ answer' = IF gone THEN answer ELSE buffer_in
                     /\ NoClock
                     /\ CommandDone
                     /\ UNCHANGED <<captured_tdo, buffer_in>>
  <1>d. AtOne \/ AtEnd \/ Over  BY <1>2 DEF do_scan_chain
  <1>6. AtOne => ScanBit \/ ScanBitDone
    <2>1. AtOne => AtBit(chain)  BY <1>4 DEF AtBit
    <2>q. QED  BY <2>1 DEF ScanPins, ScanBit, ScanBitDone
  <1>7. AtEnd => ScanByteDone
    <2>1. SUFFICES ASSUME AtEnd PROVE ScanByteDone  OBVIOUS
    <2>2. chain[1] < l /\ chain[2] >= b  BY <1>4, <1>5, <1>l, <2>1
    <2>3. ~AtBit(chain)  BY <1>3, <1>5, <2>2 DEF AtBit
    <2>4. chain[2] = b
      <3>1. chain[2] <= b \/ chain = <<l, 0>>  BY <1>1, <1>5, <1>l DEF AtPlace
      <3>2. chain # <<l, 0>>  BY <1>3, <2>2
      <3>q. QED  BY <1>3, <2>2, <3>1, <3>2
    <2>q. QED  BY <1>5, <2>1, <2>3, <2>4 DEF ScanByteDone
  <1>8. Over => ScanDone
    <2>1. SUFFICES ASSUME Over PROVE ScanDone  OBVIOUS
    <2>2. chain[1] >= l  BY <1>l, <2>1
    <2>3. ~AtBit(chain)  BY <1>3, <1>l, <2>2 DEF AtBit
    <2>4. chain = <<l, 0>>
      <3>1. chain[1] < l \/ chain = <<l, 0>>  BY <1>1, <1>l DEF AtPlace
      <3>q. QED  BY <1>3, <2>2, <3>1
    <2>q. QED  BY <1>l, <2>1, <2>3, <2>4 DEF ScanDone
  <1> HIDE DEF AtOne, AtEnd, Over
  <1>q. QED  BY <1>1, <1>2, <1>4, <1>d, <1>6, <1>7, <1>8

(* SCAN_CHAIN. *)
LEMMA ScanBase ==
    ASSUME ServerBase, ScanChain, TapMoves, Clocked, UNCHANGED debugger
    PROVE  ServerBase'
  <1>1. /\ TypeOK /\ ClockKnown /\ StateKnown
        /\ jtag_state = "SCAN_CHAIN" /\ cmd_in_progress = TRUE
        /\ packet \in Scans /\ chain \in Place
        /\ tms_flip = IF packet.cmd = "CMD_SCAN_CHAIN" THEN 0 ELSE 1
        /\ AtPlace(chain) /\ (~clk.gen_clk_begin => AtBit(chain))
        /\ tseq = <<0, 0>>
        /\ UNCHANGED <<tms_flip, packet, tseq, sock, part, parts, stopped>>
        /\ ScanBit \/ ScanBitDone \/ ScanByteDone \/ ScanDone
    BY ScanFacts
  <1>2. clk' \in ClkType /\ tck' \in Bit /\ ClockKnown'
    <2>1. 1 \in {1, 5} /\ TRUE \in BOOLEAN  OBVIOUS
    <2>2. gen_clk(1, TRUE) \/ ClockDone(1) \/ NoClock
      BY <1>1 DEF ScanBit, ScanBitDone, ScanByteDone, ScanDone
    <2>q. QED  BY <1>1, <2>1, <2>2, ClockBase
  <1>3. /\ tms_flip \in Bit /\ tms_flip' \in Bit /\ packet' \in Commands \cup {None}
        /\ buffer_in \in [1..Len(packet.bits) -> Bit]
        /\ captured_tdo \in Bit /\ tdi \in Bit /\ answer \in Seq(Bit)
        /\ sock' \in Seq(Commands) /\ part' \in BOOLEAN /\ parts' \in 0..MaxParts
        /\ tdo \in Bit /\ tdo' \in Bit
    BY <1>1 DEF TypeOK, TapMoves
  <1>4. tseq' \in Place  BY <1>1 DEF Place
  <1>5. AtBit(chain) => /\ packet.bits[BitAt(chain)] \in Bit
                        /\ BitAt(chain) \in 1..Len(packet.bits)
    <2>1. SUFFICES ASSUME AtBit(chain)
                   PROVE  /\ packet.bits[BitAt(chain)] \in Bit
                          /\ BitAt(chain) \in 1..Len(packet.bits)
      OBVIOUS
    <2>2. BitAt(chain) \in 1..Total  BY <1>1, <2>1, AtABit
    <2>3. Total \in 0..Len(packet.bits) /\ Len(packet.bits) \in Nat  BY <1>1, LastByte
    <2>4. BitAt(chain) \in 1..Len(packet.bits)  BY <2>2, <2>3
    <2>5. packet.bits \in [1..Len(packet.bits) -> Bit]  BY <1>1, BufferData
    <2>q. QED  BY <2>4, <2>5
  <1>6. /\ cmd_in_progress' \in BOOLEAN /\ jtag_state' \in States
        /\ \/ jtag_state' = "SCAN_CHAIN" /\ cmd_in_progress' = TRUE
           \/ /\ jtag_state' = "CHECK_CMD" /\ cmd_in_progress' = FALSE
              /\ chain' = <<0, 0>> /\ tdi' = 0
    BY <1>1
    DEF ScanPins, ScanBit, ScanBitDone, ScanByteDone, ScanDone, GoesOn, CommandDone, States
  <1>7. /\ chain' \in Place
        /\ jtag_state' = "SCAN_CHAIN" =>
             /\ AtPlace(chain)'
             /\ ~clk'.gen_clk_begin => AtBit(chain)'
    <2>0. \A p : p = chain' => /\ AtPlace(chain)' <=> AtPlace(p)
                               /\ AtBit(chain)' <=> AtBit(p)
      BY <1>1, SameBuffer
    <2>1. CASE ScanBit
      <3>1. chain' = chain /\ AtBit(chain)  BY <2>1 DEF ScanBit, ScanPins
      <3>q. QED  BY <1>1, <2>0, <3>1
    <2>2. CASE ScanBitDone
      <3>1. chain' = <<chain[1], chain[2] + 1>> /\ AtBit(chain) /\ clk'.gen_clk_begin
        BY <2>2 DEF ScanBitDone, ScanPins, ClockDone, gen_clk_restart
      <3>2. AtPlace(<<chain[1], chain[2] + 1>>) /\ <<chain[1], chain[2] + 1>> \in Place
        BY <1>1, <3>1, AtABit
      <3>q. QED  BY <2>0, <3>1, <3>2
    <2>3. CASE ScanByteDone
      <3>1. /\ chain[1] < length /\ chain[2] = BitsIn(chain[1]) /\ ~AtBit(chain)
            /\ chain' = <<chain[1] + 1, 0>> /\ NoClock
        BY <2>3 DEF ScanByteDone
      <3>2. AtPlace(<<chain[1] + 1, 0>>) /\ <<chain[1] + 1, 0>> \in Place
        BY <1>1, <3>1, AtByteEnd
      <3>3. clk'.gen_clk_begin = clk.gen_clk_begin
        BY <1>1, <3>1 DEF NoClock, TypeOK
      <3>q. QED  BY <1>1, <2>0, <3>1, <3>2, <3>3
    <2>4. CASE ScanDone
      <3>1. chain' = <<0, 0>> /\ jtag_state' = "CHECK_CMD"
        BY <2>4 DEF ScanDone, CommandDone
      <3>q. QED  BY <3>1 DEF Place
    <2>q. QED  BY <1>1, <2>1, <2>2, <2>3, <2>4
  <1>8. /\ buffer_in' \in [1..Len(packet'.bits) -> Bit]
        /\ captured_tdo' \in Bit /\ tdi' \in Bit /\ tms' \in Bit /\ answer' \in Seq(Bit)
    <2>0. 0 \in Bit  BY DEF Bit
    <2>1. CASE ScanBit
      BY <1>1, <1>3, <1>5, <2>0, <2>1 DEF ScanBit, ScanPins
    <2>2. CASE ScanBitDone
      BY <1>1, <1>3, <1>5, <2>0, <2>2 DEF ScanBitDone, ScanPins
    <2>3. CASE ScanByteDone
      BY <1>1, <1>3, <2>0, <2>3 DEF ScanByteDone
    <2>4. CASE ScanDone
      <3>1. Len(packet.bits) \in Nat  BY <1>1, BufferData
      <3>2. buffer_in \in Seq(Bit)  BY <1>3, <3>1, BufferIsSeq
      <3>q. QED  BY <1>1, <1>3, <2>0, <2>4, <3>2 DEF ScanDone
    <2>q. QED  BY <1>1, <2>1, <2>2, <2>3, <2>4
  <1>9. TypeOK'  BY <1>1, <1>2, <1>3, <1>4, <1>6, <1>7, <1>8, StepTyped
  <1>10. StateKnown'
    <2>1. CASE jtag_state' = "SCAN_CHAIN" /\ cmd_in_progress' = TRUE
      BY <1>1, <2>1, Distinct DEF StateKnown
    <2>2. CASE jtag_state' = "CHECK_CMD" /\ cmd_in_progress' = FALSE
      BY <1>1, <2>2 DEF StateKnown
    <2>q. QED  BY <1>6, <2>1, <2>2
  <1>11. PlacesKnown'
    BY <1>1, <1>6, <1>7 DEF PlacesKnown, PlaceKnown
  <1>q. QED  BY <1>2, <1>9, <1>10, <1>11 DEF ServerBase

-----------------------------------------------------------------------------
(* The debugger.                                                           *)

(* No conjunct but TypeOK, StateKnown and AskedKnown speaks of what the    *)
(* debugger moves.                                                         *)
LEMMA ServerUntouched ==
    ASSUME ServerBase, UNCHANGED <<server, pins, tap>>, TypeOK', StateKnown'
    PROVE  /\ ServerBase' /\ Now' = Now /\ (Stale' <=> Stale)
           /\ InStep /\ AskedKnown' => InStep'
  <1>1. UNCHANGED <<jtag_state, cmd_in_progress, tms_flip, packet, clk, tseq, chain,
                    captured_tdo, buffer_in, tms, tdi, tck, tdo, was, seen, read, loose>>
    BY DEF server, places, pins, tap
  <1>2. Now' = Now  BY <1>1 DEF Now
  <1>3. Stale' <=> Stale  BY <1>1 DEF Stale, Flips, Age
  <1>p. tseq = tseq' /\ chain = chain' /\ packet' = packet  BY <1>1
  <1>4. /\ length' = length /\ Total' = Total
        /\ BitsDone(tseq)' = BitsDone(tseq) /\ BitsDone(chain)' = BitsDone(chain)
        /\ (AtPlace(tseq)' <=> AtPlace(tseq)) /\ (AtBit(tseq)' <=> AtBit(tseq))
        /\ (AtPlace(chain)' <=> AtPlace(chain)) /\ (AtBit(chain)' <=> AtBit(chain))
    <2>1. /\ length' = length /\ Total' = Total
          /\ \A p : p = tseq' => /\ BitsDone(tseq)' = BitsDone(p)
                                 /\ AtPlace(tseq)' <=> AtPlace(p)
                                 /\ AtBit(tseq)' <=> AtBit(p)
          /\ \A p : p = chain' => /\ BitsDone(chain)' = BitsDone(p)
                                  /\ AtPlace(chain)' <=> AtPlace(p)
                                  /\ AtBit(chain)' <=> AtBit(p)
      BY <1>p, SameBuffer
    <2>2. /\ BitsDone(tseq)' = BitsDone(tseq)
          /\ AtPlace(tseq)' <=> AtPlace(tseq)
          /\ AtBit(tseq)' <=> AtBit(tseq)
      BY <1>p, <2>1, Zenon
    <2>3. /\ BitsDone(chain)' = BitsDone(chain)
          /\ AtPlace(chain)' <=> AtPlace(chain)
          /\ AtBit(chain)' <=> AtBit(chain)
      BY <1>p, <2>1, Zenon
    <2>q. QED  BY <2>1, <2>2, <2>3
  <1>5. PlacesKnown'
    <2>1. PlaceKnown(tseq, "DO_TMS_SEQ")'
      BY <1>1, <1>4 DEF ServerBase, PlacesKnown, PlaceKnown
    <2>2. PlaceKnown(chain, "SCAN_CHAIN")'
      BY <1>1, <1>4 DEF ServerBase, PlacesKnown, PlaceKnown
    <2>q. QED  BY <1>1, <2>1, <2>2 DEF ServerBase, PlacesKnown
  <1>6. ClockKnown'  BY <1>1 DEF ServerBase, ClockKnown, Rises
  <1>7. ServerBase'  BY <1>5, <1>6 DEF ServerBase
  <1>8. InStep => PinsKnown'  BY <1>1 DEF InStep, PinsKnown, Rises
  <1>9. InStep => ProgressKnown'
    BY <1>1, <1>2, <1>4 DEF InStep, ProgressKnown, Progress, Resetting
  <1>10. InStep => SeenKnown'  BY <1>1, <1>2 DEF InStep, SeenKnown
  <1>11. InStep => CaptureKnown'  BY <1>1, <1>4 DEF InStep, CaptureKnown
  <1>12. InStep /\ AskedKnown' => InStep'
    BY <1>8, <1>9, <1>10, <1>11 DEF InStep
  <1>q. QED  BY <1>2, <1>3, <1>7, <1>12

(* What the debugger does leaves the server as it is. *)
LEMMA DebuggerBase ==
    ASSUME ServerBase, (\E c \in Commands : Sends(c)) \/ Collects \/ Goes
    PROVE  /\ ServerBase' /\ Now' = Now /\ (Stale' <=> Stale)
           /\ InStep => InStep'
  <1>0. /\ UNCHANGED <<server, pins, tap>>
        /\ UNCHANGED <<jtag_state, cmd_in_progress, tms_flip, packet, clk, tseq, chain,
                       captured_tdo, buffer_in, tms, tdi, tck, tdo, was, seen, read,
                       loose, part, parts>>
    BY DEF Sends, Collects, Goes, server, places, pins, tap, incoming
  <1>1. TypeOK /\ StateKnown  BY DEF ServerBase
  <1>t. /\ loose \in BOOLEAN /\ part \in BOOLEAN /\ gone \in BOOLEAN
        /\ waits \in BOOLEAN /\ stopped \in BOOLEAN
        /\ sock \in Seq(Commands) /\ answer \in Seq(Bit)
    BY <1>1 DEF TypeOK
  <1>2. ASSUME gone' \in BOOLEAN, waits' \in BOOLEAN, stopped' \in BOOLEAN,
               sock' \in Seq(Commands), answer' \in Seq(Bit)
        PROVE  TypeOK'
    <2>1. {loose', part', gone', waits', stopped'} \subseteq BOOLEAN
      BY <1>0, <1>t, <1>2, Zenon
    <2>q. QED  BY <1>0, <1>1, <1>2, <2>1 DEF TypeOK
  <1>3. CASE \E c \in Commands : Sends(c)
    <2>1. PICK c \in Commands : Sends(c)  BY <1>3
    <2>2. /\ ~gone /\ ~stopped /\ gone' = gone /\ sock' = Append(sock, c)
          /\ answer' = answer
          /\ stopped' = (c = Stop) /\ waits' = (c \in Scans)
      BY <2>1 DEF Sends
    <2>3. TypeOK'
      <3>1. sock' \in Seq(Commands)  BY <1>t, <2>2, Longer
      <3>2. waits' \in BOOLEAN /\ stopped' \in BOOLEAN  BY <2>2
      <3>q. QED  BY <1>2, <1>t, <2>2, <3>1, <3>2
    <2>4. \A n \in 1..Len(sock') : sock'[n] = Stop => n = Len(sock') /\ stopped'
      <3>1. \A n \in 1..Len(sock) : sock[n] # Stop
        BY <1>1, <2>2 DEF StateKnown
      <3>2. /\ Len(sock') = Len(sock) + 1 /\ Len(sock) \in Nat
            /\ \A n \in 1..Len(sock) : sock'[n] = sock[n]
            /\ sock'[Len(sock) + 1] = c
        BY <1>t, <2>2
      <3>3. SUFFICES ASSUME NEW n \in 1..Len(sock'), sock'[n] = Stop
                     PROVE  n = Len(sock') /\ stopped'
        OBVIOUS
      <3>4. n \notin 1..Len(sock)  BY <3>1, <3>2, <3>3
      <3>5. n = Len(sock) + 1  BY <3>2, <3>4
      <3>6. c = Stop  BY <3>2, <3>3, <3>5
      <3>q. QED  BY <2>2, <3>2, <3>5, <3>6
    <2>5. part' => sock' # <<>>
      <3>1. Len(sock') = Len(sock) + 1 /\ Len(sock) \in Nat  BY <1>t, <2>2
      <3>2. Len(<<>>) = 0  OBVIOUS
      <3>q. QED  BY <3>1, <3>2
    <2>6. StateKnown'  BY <1>0, <1>1, <2>4, <2>5 DEF StateKnown
    <2>7. InStep => AskedKnown'
      BY <1>0, <2>2 DEF InStep, AskedKnown
    <2>q. QED  BY <1>0, <2>3, <2>6, <2>7, ServerUntouched
  <1>4. CASE Collects
    <2>1. gone' = gone /\ stopped' = stopped /\ sock' = sock /\ waits' = FALSE
          /\ answer' = <<>>
      BY <1>4 DEF Collects, incoming
    <2>2. TypeOK'
      <3>1. <<>> \in Seq(Bit)  OBVIOUS
      <3>q. QED  BY <1>2, <1>t, <2>1, <3>1
    <2>3. StateKnown'  BY <1>0, <1>1, <2>1 DEF StateKnown
    <2>4. InStep => AskedKnown'  BY <1>0, <2>1 DEF InStep, AskedKnown
    <2>q. QED  BY <1>0, <2>2, <2>3, <2>4, ServerUntouched
  <1>5. CASE Goes
    <2>1. gone' = TRUE /\ stopped' = stopped /\ sock' = sock /\ waits' = FALSE
          /\ answer' = <<>>
      BY <1>5 DEF Goes, incoming
    <2>2. TypeOK'
      <3>1. <<>> \in Seq(Bit)  OBVIOUS
      <3>q. QED  BY <1>2, <1>t, <2>1, <3>1
    <2>3. StateKnown'  BY <1>0, <1>1, <2>1 DEF StateKnown
    <2>4. InStep => AskedKnown'  BY <1>0, <2>1 DEF InStep, AskedKnown
    <2>q. QED  BY <1>0, <2>2, <2>3, <2>4, ServerUntouched
  <1>q. QED  BY <1>3, <1>4, <1>5

-----------------------------------------------------------------------------
(* A call on behalf of a command that is in step.                          *)

Working == ServerBase /\ InStep /\ Now # None /\ ~loose

(* The command is known from the state. *)
LEMMA WorkingNow ==
    ASSUME Working
    PROVE  /\ Resetting \/ jtag_state = "GOTO_IDLE" => Now = Reset
           /\ jtag_state \in {"DO_TMS_SEQ", "SCAN_CHAIN"} => Now = packet
           /\ jtag_state = "CHECK_CMD" =>
                ~clk.gen_clk_begin /\ packet \in {None, Stop} /\ ~cmd_in_progress
           /\ jtag_state = "GOTO_IDLE" /\ cmd_in_progress => packet = Reset
           /\ ~cmd_in_progress => sock = <<>> /\ (gone \/ stopped)
           /\ Now \in {Reset} \cup TmsSeqs \cup Scans
           /\ Edges(Now) \in Seq(Bit \X Bit)
  <1>1. /\ StateKnown /\ jtag_state \in States /\ cmd_in_progress \in BOOLEAN
        /\ clk.gen_clk_begin \in BOOLEAN /\ packet \in Commands \cup {None}
    BY InvTyped DEF Working, ServerBase
  <1>2. /\ jtag_state = "CHECK_CMD" =>
             Now = IF ~clk.gen_clk_begin /\ packet \in {None, Stop} THEN Reset ELSE None
        /\ jtag_state = "TAP_RESET" => Now = Reset
        /\ jtag_state = "GOTO_IDLE" => Now = IF cmd_in_progress THEN packet ELSE Reset
        /\ jtag_state \in {"DO_TMS_SEQ", "SCAN_CHAIN"} => Now = packet
        /\ Now # None => /\ Now \in {Reset} \cup TmsSeqs \cup Scans
                         /\ Edges(Now) \in Seq(Bit \X Bit)
    BY <1>1, NowKnown
  <1>3. /\ ~cmd_in_progress => sock = <<>> /\ (gone \/ stopped)
        /\ jtag_state = "GOTO_IDLE" /\ cmd_in_progress => packet = Reset
        /\ Now # None
    BY <1>1 DEF Working, InStep, AskedKnown
  <1>4. jtag_state = "CHECK_CMD" => ~cmd_in_progress  BY <1>1 DEF StateKnown
  <1>q. QED  BY <1>2, <1>3, <1>4 DEF Resetting

(* There is a clock to speak of. *)
LEMMA InProgress ==
    ASSUME Working
    PROVE  \E calls \in Nat : \E n \in Nat : Progress(calls, n)
  <1>0. TypeOK /\ StateKnown /\ ProgressKnown /\ jtag_state \in States
        /\ tseq \in Place /\ chain \in Place
    BY InvTyped DEF Working, ServerBase, InStep
  <1>1. CASE Resetting
    <2>1. PICK k \in 0..4 : Progress(HighCalls(k), k)
      BY <1>0, <1>1 DEF ProgressKnown
    <2>2. HighCalls(k) \in Nat  BY Products DEF HighCalls
    <2>q. QED  BY <2>1, <2>2
  <1>2. CASE jtag_state = "GOTO_IDLE"
    BY <1>0, <1>2 DEF ProgressKnown
  <1>3. CASE jtag_state = "DO_TMS_SEQ"
    <2>1. Progress(0, BitsDone(tseq))  BY <1>0, <1>3 DEF ProgressKnown
    <2>2. BitsDone(tseq) \in Nat  BY <1>0, <1>3, DoneIsNat DEF StateKnown
    <2>q. QED  BY <2>1, <2>2
  <1>4. CASE jtag_state = "SCAN_CHAIN"
    <2>1. Progress(0, BitsDone(chain))  BY <1>0, <1>4 DEF ProgressKnown
    <2>2. BitsDone(chain) \in Nat  BY <1>0, <1>4, DoneIsNat DEF StateKnown
    <2>q. QED  BY <2>1, <2>2
  <1>q. QED  BY <1>0, <1>1, <1>2, <1>3, <1>4 DEF States, Resetting

(* A call in which the command goes on. *)
LEMMA Continues ==
    ASSUME Working, Clocked, Now' = Now, cmd_in_progress' => cmd_in_progress
    PROVE  /\ ~loose' /\ Counted
           /\ SeenKnown'
           /\ Rises => /\ Len(seen) < Len(Edges(Now))
                       /\ <<tms, tdi>> = Edges(Now)[Len(seen) + 1]
  <1>1. /\ Typed /\ PinsKnown /\ SeenKnown /\ Now # None /\ ~loose
    BY InvTyped DEF Working, ServerBase, InStep
  <1>2. ~Taken  BY <1>1 DEF Taken
  <1>3. ~loose'  BY <1>1, <1>2 DEF Clocked
  <1>4. Counted
    <2>1. seen' = IF Rises THEN Append(seen, <<tms, tdi>>) ELSE seen
      BY <1>1, <1>2, <1>3 DEF Clocked
    <2>2. CASE Now \in Scans
      BY <1>1, <1>2, <1>3, <2>1, <2>2 DEF Clocked, Counted
    <2>3. CASE Now \notin Scans
      <3>1. read' = <<>>  BY <1>1, <2>3 DEF Clocked
      <3>2. read \in Seq(Bit) /\ Len(read) = 0  BY <1>1, <2>3 DEF SeenKnown, Typed
      <3>3. read = <<>>  BY <3>2, EmptySeq
      <3>q. QED  BY <2>1, <2>3, <3>1, <3>3 DEF Counted
    <2>q. QED  BY <2>2, <2>3
  <1>5. Edges(Now) \in Seq(Bit \X Bit)  BY WorkingNow
  <1>6. PICK calls \in Nat : \E n \in Nat : Progress(calls, n)  BY InProgress
  <1>7. PICK n \in Nat : Progress(calls, n)  BY <1>6
  <1>8. /\ Len(seen') <= Len(Edges(Now))
        /\ \A m \in 1..Len(seen') : seen'[m] = Edges(Now)[m]
        /\ Len(read') = IF Now \in Scans THEN Len(seen') ELSE 0
        /\ Rises => /\ Len(seen) < Len(Edges(Now))
                    /\ <<tms, tdi>> = Edges(Now)[Len(seen) + 1]
    BY <1>1, <1>4, <1>5, <1>7, NextBit
  <1>9. SeenKnown'  BY <1>8 DEF SeenKnown
  <1>q. QED  BY <1>3, <1>4, <1>8, <1>9

(* The call in which it ends. *)
LEMMA Ends ==
    ASSUME Working, Clocked, Now' = None, ~cmd_in_progress', ~Rises
    PROVE  ~loose' /\ seen' = <<>> /\ read' = <<>>
  <1>1. ~Taken /\ ~loose  BY DEF Taken, Working
  <1>2. ~loose'  BY <1>1 DEF Clocked
  <1>3. None \notin Scans  BY Distinct
  <1>q. QED  BY <1>1, <1>2, <1>3 DEF Clocked

(* What such a call does: the command goes on, or it ends. *)
Going ==
    /\ Now' = Now /\ InStep' /\ answer' = answer
    /\ cmd_in_progress' => cmd_in_progress
Ending ==
    /\ Now' = None /\ ~cmd_in_progress' /\ ~Rises /\ Len(seen) = Len(Edges(Now))
    /\ answer' = IF Now \in Scans /\ ~gone THEN read ELSE answer
    /\ Stale' => Len(Edges(Now)) = 0
Served ==
    /\ ~loose' /\ Held /\ sock' = sock /\ part' = part
    /\ Going \/ Ending

(* gen_clk(5) counts the calls with TCK high, tck_period + 1 a clock: it   *)
(* ends in the fifth clock because the period is five or more.             *)
LEMMA FiveClocks ==
    ASSUME NEW k \in 0..4
    PROVE  /\ HighCalls(k) \in Nat
           /\ HighCalls(k + 1) = HighCalls(k) + tck_period + 1
           /\ HighCalls(k) < 5 * tck_period
           /\ k < 4 <=> HighCalls(k) + tck_period < 5 * tck_period
  <1>1. CASE k = 0  BY <1>1 DEF HighCalls
  <1>2. CASE k = 1  BY <1>2 DEF HighCalls
  <1>3. CASE k = 2  BY <1>3 DEF HighCalls
  <1>4. CASE k = 3  BY <1>4 DEF HighCalls
  <1>5. CASE k = 4  BY <1>5 DEF HighCalls
  <1>q. QED  BY <1>1, <1>2, <1>3, <1>4, <1>5

(* What a call of reset_tap assigns, from either of its callers. *)
LEMMA ResetFacts ==
    ASSUME Working, CheckCmd \/ TapReset, UNCHANGED debugger
    PROVE  /\ Resetting /\ Now = Reset /\ reset_tap(jtag_state)
           /\ UNCHANGED <<cmd_in_progress, tdi, sock, part, answer, gone, stopped>>
           /\ tdi = 0
           /\ IF jtag_state = "TAP_RESET" THEN packet' = Reset /\ cmd_in_progress
                                          ELSE packet' = None /\ ~cmd_in_progress
  <1>0. tdi = 0 /\ Resetting /\ Now = Reset
    <2>1. Resetting /\ jtag_state # "SCAN_CHAIN"  BY DEF CheckCmd, TapReset, Resetting
    <2>q. QED  BY <2>1, WorkingNow DEF Working, ServerBase, PlacesKnown
  <1>d. UNCHANGED <<gone, stopped>>  BY DEF debugger
  <1>1. CASE CheckCmd
    <2>1. jtag_state = "CHECK_CMD" /\ ~cmd_in_progress /\ sock = <<>>
      BY <1>1, WorkingNow DEF CheckCmd
    <2>2. packet' = None /\ sock' = sock /\ part' = part
      BY <1>1, <2>1 DEF CheckCmd, check_for_command, ReadWhole, ReadClosed, ReadPart, incoming
    <2>3. /\ cmd_in_progress' = FALSE /\ InitState(packet'.cmd) = "CHECK_CMD"
      BY <1>1, <2>2, Starts, CommandData DEF CheckCmd
    <2>4. reset_tap(jtag_state)  BY <1>1, <2>1, <2>3 DEF CheckCmd
    <2>5. cmd_in_progress = FALSE  BY <2>1, InvTyped DEF Working, ServerBase
    <2>q. QED  BY <1>0, <1>d, <1>1, <2>1, <2>2, <2>3, <2>4, <2>5 DEF CheckCmd
  <1>2. CASE TapReset
    <2>1. jtag_state = "TAP_RESET" /\ packet = Reset /\ cmd_in_progress
      BY <1>2 DEF TapReset, Working, ServerBase, StateKnown
    <2>q. QED  BY <1>0, <1>d, <1>2, <2>1 DEF TapReset, incoming
  <1>q. QED  BY <1>1, <1>2

(* The five clocks of a reset, asked for or not. *)
LEMMA ResetInStep ==
    ASSUME Working, CheckCmd \/ TapReset, TapMoves, Clocked, UNCHANGED debugger
    PROVE  Served
  <1>1. /\ Resetting /\ Now = Reset /\ reset_tap(jtag_state)
        /\ UNCHANGED <<cmd_in_progress, tdi, sock, part, answer, gone, stopped>>
        /\ tdi = 0
        /\ IF jtag_state = "TAP_RESET" THEN packet' = Reset /\ cmd_in_progress
                                       ELSE packet' = None /\ ~cmd_in_progress
    BY ResetFacts
  <1>2. /\ Typed /\ ClockKnown /\ PinsKnown /\ AskedKnown /\ ProgressKnown
        /\ jtag_state \in {"CHECK_CMD", "TAP_RESET"}
    BY <1>1, InvTyped DEF Working, ServerBase, InStep, Resetting
  <1>3. PICK k \in 0..4 : Progress(HighCalls(k), k)
    BY <1>1, <1>2 DEF ProgressKnown
  <1>4. HighCalls(k) \in Nat /\ k \in Nat  BY FiveClocks
  <1>5. Len(Edges(Now)) = 6 /\ <<1, 0>> = Edges(Now)[k + 1]
    BY <1>1, EdgesData
  <1>c. /\ clk.cur_period \in 0..5 * tck_period /\ clk.age \in Nat
        /\ clk.tck_low \in BOOLEAN
        /\ clk.cur_period = HighCalls(k) + (IF clk.tck_low THEN 0 ELSE clk.age)
        /\ ~clk.tck_low => clk.age <= tck_period
    BY <1>2, <1>3 DEF Typed, ClkType, Progress, PinsKnown
  <1>6. CASE gen_clk(5, FALSE) /\ tms' = 1 /\ jtag_state' = jtag_state
    <2>1. ~clk'.gen_clk_begin  BY <1>6 DEF gen_clk
    <2>2. Now' = Now
      BY <1>1, <1>2, <1>6, <2>1 DEF Now
    <2>3. ~loose' /\ Counted /\ SeenKnown'  BY <1>1, <2>2, Continues
    <2>4. <<tms', tdi'>> = Edges(Now)[k + 1] /\ k < Len(Edges(Now))
      BY <1>1, <1>5, <1>6
    <2>5. /\ PinsKnown'
          /\ IF ~clk.tck_low /\ clk.age = tck_period
               THEN Progress(HighCalls(k) + tck_period + 1, k + 1)'
               ELSE Progress(HighCalls(k), k)'
      <3>1. 5 \in {1, 5} /\ FALSE \in BOOLEAN  OBVIOUS
      <3>q. QED  BY <1>2, <1>3, <1>4, <1>6, <2>2, <2>3, <2>4, <3>1, Tick
    <2>6. \E l \in 0..4 : Progress(HighCalls(l), l)'
      <3>1. CASE ~clk.tck_low /\ clk.age = tck_period
        <4>1. clk.cur_period < 5 * tck_period
          BY <1>6, <1>c DEF gen_clk, Elapsed
        <4>2. k < 4  BY <1>c, <3>1, <4>1, FiveClocks
        <4>3. HighCalls(k + 1) = HighCalls(k) + tck_period + 1  BY FiveClocks
        <4>4. k + 1 \in 0..4  BY <4>2
        <4>q. QED  BY <2>5, <3>1, <4>3, <4>4
      <3>2. CASE ~(~clk.tck_low /\ clk.age = tck_period)
        BY <2>5, <3>2
      <3>q. QED  BY <3>1, <3>2
    <2>7. ProgressKnown'
      BY <1>2, <1>6, <2>6 DEF ProgressKnown, Resetting
    <2>8. AskedKnown'  BY <1>1, <1>2, <1>6 DEF AskedKnown
    <2>9. CaptureKnown'  BY <1>2, <1>6 DEF CaptureKnown
    <2>10. InStep'  BY <2>3, <2>5, <2>7, <2>8, <2>9 DEF InStep
    <2>h. Held  BY <1>3, <1>6, <2>4, Setup
    <2>q. QED  BY <1>1, <2>2, <2>3, <2>10, <2>h DEF Served, Going
  <1>7. CASE ClockDone(5) /\ tms' = 0 /\ jtag_state' = "GOTO_IDLE"
    <2>1. Now' = Now
      BY <1>1, <1>2, <1>7 DEF Now
    <2>2. ~loose' /\ Counted /\ SeenKnown'  BY <1>1, <2>1, Continues
    <2>3. clk' = gen_clk_restart /\ tck' = tck /\ clk.cur_period >= 5 * tck_period
      BY <1>7 DEF ClockDone, Elapsed
    <2>4. ~clk.tck_low /\ clk.age > 0 /\ k = 4
      BY <1>c, <2>3, FiveClocks
    <2>5. PinsKnown' /\ Progress(0, 5)'
      BY <1>2, <1>3, <1>4, <2>2, <2>3, <2>4, Tock
    <2>6. ProgressKnown'
      BY <1>7, <2>3, <2>5 DEF ProgressKnown, Resetting, gen_clk_restart
    <2>7. AskedKnown'
      BY <1>1, <1>2, <1>7 DEF AskedKnown
    <2>8. CaptureKnown'  BY <1>7 DEF CaptureKnown
    <2>9. InStep'  BY <2>2, <2>5, <2>6, <2>7, <2>8 DEF InStep
    <2>h. Held  BY <2>3 DEF Held
    <2>q. QED  BY <1>1, <2>1, <2>2, <2>9, <2>h DEF Served, Going
  <1>q. QED  BY <1>1, <1>6, <1>7 DEF reset_tap

-----------------------------------------------------------------------------
(* A single clock: the one to Run-Test/Idle, and that of a bit.            *)

(* A clock of one period, moving on. *)
LEMMA OneTick ==
    ASSUME Typed, ClockKnown, PinsKnown, NEW n \in Nat, Progress(0, n), NEW g \in BOOLEAN,
           gen_clk(1, g), TapMoves, Counted, Now' = Now,
           <<tms', tdi'>> = Edges(Now)[n + 1], n < Len(Edges(Now))
    PROVE  /\ clk'.cur_period <= tck_period
           /\ PinsKnown'
           /\ ~clk'.gen_clk_begin
           /\ Progress(0, n)'
           /\ Held
  <1>1. /\ clk.age \in Nat /\ clk.cur_period = IF clk.tck_low THEN 0 ELSE clk.age
    BY DEF Typed, ClkType, Progress
  <1>2. clk.cur_period < tck_period
    BY <1>1 DEF gen_clk, Elapsed
  <1>3. ~(~clk.tck_low /\ clk.age = tck_period)  BY <1>1, <1>2
  <1>4. 0 \in Nat /\ 1 \in {1, 5}  OBVIOUS
  <1>5. /\ clk' \in ClkType /\ clk'.cur_period <= 1 * tck_period
        /\ PinsKnown'
        /\ ~clk'.gen_clk_begin
        /\ tck' \in Bit
        /\ IF ~clk.tck_low /\ clk.age = tck_period
             THEN Progress(0 + tck_period + 1, n + 1)'
             ELSE Progress(0, n)'
    BY <1>4, Tick
  <1>6. 1 * tck_period = tck_period  OBVIOUS
  <1>7. Held  BY Setup
  <1>q. QED  BY <1>3, <1>5, <1>6, <1>7

(* A clock of one period ends after the TAP has seen its edge. *)
LEMMA OneTock ==
    ASSUME Typed, PinsKnown, NEW n \in Nat, Progress(0, n), ClockDone(1), TapMoves
    PROVE  /\ clk' = gen_clk_restart /\ clk'.gen_clk_begin /\ clk'.cur_period = 0
           /\ ~Rises /\ ~clk.tck_low /\ clk.age > 1 /\ Held
           /\ Len(seen) = n + 1
           /\ Counted => PinsKnown' /\ Progress(0, n + 1)'
  <1>1. /\ clk.age \in Nat /\ clk.cur_period = IF clk.tck_low THEN 0 ELSE clk.age
    BY DEF Typed, ClkType, Progress
  <1>2. clk.cur_period >= tck_period /\ clk' = gen_clk_restart /\ UNCHANGED tck
    BY DEF ClockDone, Elapsed
  <1>3. ~clk.tck_low /\ clk.age > 1  BY <1>1, <1>2
  <1>4. ~Rises  BY <1>1, <1>3 DEF PinsKnown, Rises
  <1>5. Counted => PinsKnown' /\ Progress(0, n + 1)'
    <2>1. 0 \in Nat /\ clk.age > 0  BY <1>1, <1>3
    <2>q. QED  BY <1>2, <1>3, <2>1, Tock
  <1>6. Len(seen) = n + 1  BY <1>3 DEF Progress
  <1>q. QED  BY <1>2, <1>3, <1>4, <1>5, <1>6 DEF gen_clk_restart, Held

(* The clock to Run-Test/Idle. *)
LEMMA IdleInStep ==
    ASSUME Working, GotoIdle, TapMoves, Clocked, UNCHANGED debugger
    PROVE  Served
  <1>1. /\ Typed /\ ClockKnown /\ PinsKnown /\ AskedKnown
        /\ jtag_state = "GOTO_IDLE" /\ tdi = 0
        /\ Progress(0, 5) /\ Now = Reset
        /\ ~cmd_in_progress => sock = <<>>
        /\ cmd_in_progress => packet = Reset
    BY InvTyped, WorkingNow
    DEF Working, ServerBase, InStep, PlacesKnown, GotoIdle, ProgressKnown
  <1>2. /\ sock' = sock /\ part' = part
        /\ cmd_in_progress => packet' = Reset
    <2>1. CASE cmd_in_progress  BY <1>1, <2>1 DEF GotoIdle, incoming
    <2>2. CASE ~cmd_in_progress
      BY <1>1, <2>2
      DEF GotoIdle, check_for_command, ReadWhole, ReadClosed, ReadPart, incoming
    <2>q. QED  BY <2>1, <2>2
  <1>3. /\ tms' = 0 /\ tdi' = 0 /\ UNCHANGED <<answer, gone, stopped>>
    BY <1>1 DEF GotoIdle, debugger
  <1>4. Len(Edges(Now)) = 6 /\ Edges(Now)[6] = <<0, 0>> /\ Now \notin Scans
    BY <1>1, EdgesData, Distinct
  <1>5. CASE gen_clk(1, FALSE) /\ UNCHANGED <<jtag_state, cmd_in_progress>>
    <2>1. Now' = Now
      BY <1>1, <1>2, <1>5 DEF Now
    <2>2. ~loose' /\ Counted /\ SeenKnown'  BY <1>5, <2>1, Continues
    <2>3. <<tms', tdi'>> = Edges(Now)[5 + 1] /\ 5 < Len(Edges(Now))
      BY <1>3, <1>4
    <2>4. clk'.cur_period <= tck_period /\ PinsKnown' /\ Progress(0, 5)' /\ Held
      <3>1. 5 \in Nat /\ FALSE \in BOOLEAN  OBVIOUS
      <3>q. QED  BY <1>1, <1>5, <2>1, <2>2, <2>3, <3>1, OneTick
    <2>5. ProgressKnown'
      BY <1>1, <1>5, <2>4 DEF ProgressKnown, Resetting
    <2>6. AskedKnown'  BY <1>1, <1>2, <1>3, <1>5 DEF AskedKnown
    <2>7. CaptureKnown'  BY <1>1, <1>5 DEF CaptureKnown
    <2>8. InStep'  BY <2>2, <2>4, <2>5, <2>6, <2>7 DEF InStep
    <2>q. QED  BY <1>2, <1>3, <1>5, <2>1, <2>2, <2>4, <2>8 DEF Served, Going
  <1>6. CASE ClockDone(1) /\ jtag_state' = "CHECK_CMD" /\ cmd_in_progress' = FALSE
    <2>1. clk'.gen_clk_begin /\ ~Rises /\ Len(seen) = 6 /\ Held
      <3>1. 5 \in Nat  OBVIOUS
      <3>2. clk'.gen_clk_begin /\ ~Rises /\ Len(seen) = 5 + 1 /\ Held
        BY <1>1, <1>6, <3>1, OneTock
      <3>q. QED  BY <3>2
    <2>2. Now' = None  BY <1>6, <2>1 DEF Now
    <2>3. ~Stale'  BY <2>1 DEF Stale
    <2>4. ~loose'  BY <1>6, <2>1, <2>2, Ends
    <2>q. QED  BY <1>2, <1>3, <1>4, <1>6, <2>1, <2>2, <2>3, <2>4 DEF Served, Ending
  <1>q. QED  BY <1>5, <1>6 DEF GotoIdle

(* A call between two bits, with TCK low. *)
LEMMA Silent ==
    ASSUME Typed, ClockKnown, PinsKnown, NEW n \in Nat, Progress(0, n), NoClock, TapMoves,
           clk.gen_clk_begin \/ (clk.tck_low /\ tck = 0)
    PROVE  /\ ~Rises /\ Len(seen) = n /\ Held
           /\ clk'.tck_low /\ tck' = tck /\ clk'.cur_period <= tck_period
           /\ clk'.capture_done = clk.capture_done
           /\ clk.gen_clk_begin => clk'.gen_clk_begin
           /\ Counted => PinsKnown' /\ Progress(0, n)' /\ read' = read
  <1>1. clk \in ClkType /\ clk.age \in Nat  BY DEF Typed, ClkType
  <1>2. clk.gen_clk_begin => clk = gen_clk_restart  BY DEF ClockKnown
  <1>3. clk.tck_low  BY <1>2 DEF gen_clk_restart
  <1>4. ~Rises /\ Len(seen) = n /\ clk.cur_period = 0
    BY <1>3 DEF PinsKnown, Progress
  <1>5. /\ tck' = tck /\ clk'.tck_low /\ clk'.cur_period = 0
        /\ clk'.capture_done = clk.capture_done
        /\ clk.gen_clk_begin => clk' = clk
        /\ clk'.gen_clk_begin <=> clk.gen_clk_begin
    <2>1. CASE clk.gen_clk_begin  BY <1>3, <1>4, <2>1 DEF NoClock
    <2>2. CASE ~clk.gen_clk_begin
      BY <1>1, <1>3, <1>4, <2>2 DEF NoClock, ClkType
    <2>q. QED  BY <2>1, <2>2
  <1>6. clk'.age > 0 => tck' = 0
    <2>1. CASE clk.gen_clk_begin  BY <1>2, <1>5, <2>1 DEF gen_clk_restart
    <2>2. CASE ~clk.gen_clk_begin  BY <1>5, <2>2
    <2>q. QED  BY <2>1, <2>2
  <1>7. PinsKnown'
    <2>1. ~Rises'  BY <1>5 DEF Rises, TapMoves
    <2>q. QED  BY <1>5, <1>6, <2>1 DEF PinsKnown
  <1>8. Counted => Progress(0, n)' /\ read' = read
    BY <1>4, <1>5 DEF Counted, Progress
  <1>q. QED  BY <1>4, <1>5, <1>7, <1>8 DEF Held

-----------------------------------------------------------------------------
(* do_tms_seq.                                                             *)

(* The bits of a TMS sequence are clocked in their order, and the last     *)
(* call comes when all that are sent have been.                            *)
LEMMA TmsInStep ==
    ASSUME Working, DoTmsSeq, TapMoves, Clocked, UNCHANGED debugger
    PROVE  Served
  <1>n. PICK n : n = BitsDone(tseq)  OBVIOUS
  <1>1. /\ Typed /\ ClockKnown /\ PinsKnown /\ AskedKnown /\ ProgressKnown /\ ServerBase
    BY InvTyped DEF Working, ServerBase, InStep
  <1>2. /\ jtag_state = "DO_TMS_SEQ" /\ cmd_in_progress = TRUE
        /\ packet \in TmsSeqs /\ tseq \in Place /\ tseq = <<tseq[1], tseq[2]>>
        /\ AtPlace(tseq) /\ (~clk.gen_clk_begin /\ Total > 0 => AtBit(tseq))
        /\ tdi = 0
        /\ UNCHANGED <<packet, tdi, sock, part, answer, gone, stopped>>
        /\ TmsBit \/ TmsBitDone \/ TmsByteDone \/ TmsDone
    BY <1>1, TmsFacts
  <1>3. packet \in TmsSeqs \cup Scans /\ packet \notin Scans  BY <1>2, Distinct
  <1>4. n \in Nat  BY <1>n, <1>2, <1>3, DoneIsNat
  <1>5. /\ Progress(0, n)
        /\ Total = 0 => clk.tck_low /\ tck = 0
    BY <1>n, <1>1, <1>2 DEF ProgressKnown
  <1>6. Now = packet  BY <1>2, WorkingNow
  <1>7. /\ Total = TmsSent(Len(packet.bits)) /\ Total \in 0..Len(packet.bits)
        /\ Len(packet.bits) \in Nat
    BY <1>2, <1>3, LastByte
  <1>8. /\ Len(Edges(Now)) = Total /\ Now \notin Scans
        /\ \A m \in 1..Total : Edges(Now)[m] = <<packet.bits[m], 0>>
    <2>1. packet \in {Reset} \cup TmsSeqs \cup Scans  BY <1>3
    <2>2. /\ Len(Edges(packet)) = TmsSent(Len(packet.bits))
          /\ \A m \in 1..TmsSent(Len(packet.bits)) : Edges(packet)[m] = <<packet.bits[m], 0>>
      BY <1>2, <2>1, EdgesData
    <2>q. QED  BY <1>3, <1>6, <1>7, <2>2
  <1>9. /\ Total' = Total
        /\ \A p : p = tseq' => BitsDone(tseq)' = BitsDone(p)
    BY <1>2, SameBuffer
  <1>10. GoesOn => /\ Now' = Now /\ ~loose' /\ Counted /\ SeenKnown' /\ AskedKnown'
                   /\ CaptureKnown'
    <2>1. SUFFICES ASSUME GoesOn
                   PROVE  /\ Now' = Now /\ ~loose' /\ Counted /\ SeenKnown' /\ AskedKnown'
                          /\ CaptureKnown'
      OBVIOUS
    <2>2. jtag_state' = "DO_TMS_SEQ" /\ cmd_in_progress' = TRUE
      BY <1>2, <2>1 DEF GoesOn
    <2>3. Now' = Now  BY <1>2, <1>6, <2>2 DEF Now
    <2>4. ~loose' /\ Counted /\ SeenKnown'  BY <1>2, <2>3, Continues
    <2>5. AskedKnown' /\ CaptureKnown'
      BY <2>2 DEF AskedKnown, CaptureKnown
    <2>q. QED  BY <2>3, <2>4, <2>5
  <1>11. ASSUME GoesOn, PinsKnown', NEW k, Progress(0, k)', BitsDone(tseq)' = k,
                clk'.cur_period <= tck_period, Total = 0 => clk'.tck_low /\ tck' = 0, Held
         PROVE  Served
    <2>1. jtag_state' = "DO_TMS_SEQ" /\ cmd_in_progress' = TRUE
      BY <1>2, <1>11 DEF GoesOn
    <2>2. Progress(0, BitsDone(tseq))'  BY <1>11 DEF Progress
    <2>3. ProgressKnown'
      BY <1>9, <1>11, <2>1, <2>2 DEF ProgressKnown, Resetting
    <2>4. InStep'  BY <1>10, <1>11, <2>3 DEF InStep
    <2>q. QED  BY <1>2, <1>10, <1>11, <2>1, <2>4 DEF Served, Going
  <1>12. CASE TmsBit
    <2>1. AtBit(tseq) /\ tms' = packet.bits[BitAt(tseq)] /\ GoesOn /\ gen_clk(1, FALSE)
          /\ tseq' = tseq
      BY <1>12 DEF TmsBit
    <2>2. BitAt(tseq) \in 1..Total /\ n = BitAt(tseq) - 1
      BY <1>n, <1>2, <1>3, <2>1, AtABit
    <2>3. n + 1 = BitAt(tseq) /\ n < Total /\ n + 1 \in 1..Total /\ Total # 0
      BY <1>4, <1>7, <2>2
    <2>4. <<tms', tdi'>> = Edges(Now)[n + 1] /\ n < Len(Edges(Now))
      BY <1>2, <1>8, <2>1, <2>3
    <2>5. clk'.cur_period <= tck_period /\ PinsKnown' /\ Progress(0, n)' /\ Held
      <3>1. FALSE \in BOOLEAN  OBVIOUS
      <3>q. QED  BY <1>1, <1>4, <1>5, <1>10, <2>1, <2>4, <3>1, OneTick
    <2>6. BitsDone(tseq)' = n  BY <1>n, <1>9, <2>1
    <2>q. QED  BY <1>11, <2>1, <2>3, <2>5, <2>6
  <1>13. CASE TmsBitDone
    <2>1. AtBit(tseq) /\ GoesOn /\ ClockDone(1) /\ tseq' = <<tseq[1], tseq[2] + 1>>
      BY <1>13 DEF TmsBitDone
    <2>2. /\ BitAt(tseq) \in 1..Total /\ n = BitAt(tseq) - 1
          /\ BitsDone(<<tseq[1], tseq[2] + 1>>) = BitAt(tseq)
      BY <1>n, <1>2, <1>3, <2>1, AtABit
    <2>3. n + 1 = BitAt(tseq) /\ Total # 0
      BY <1>4, <1>7, <2>2
    <2>4. clk'.cur_period = 0 /\ PinsKnown' /\ Progress(0, n + 1)' /\ Held
      BY <1>1, <1>4, <1>5, <1>10, <2>1, OneTock
    <2>5. BitsDone(tseq)' = n + 1  BY <1>9, <2>1, <2>2, <2>3
    <2>6. clk'.cur_period <= tck_period  BY <2>4
    <2>q. QED  BY <1>11, <2>1, <2>3, <2>4, <2>5, <2>6
  <1>s. NoClock /\ ~AtBit(tseq) =>
          /\ ~Rises /\ Len(seen) = n /\ Held
          /\ clk'.tck_low /\ tck' = tck /\ clk'.cur_period <= tck_period
          /\ clk.gen_clk_begin => clk'.gen_clk_begin
          /\ Counted => PinsKnown' /\ Progress(0, n)' /\ read' = read
          /\ clk.gen_clk_begin \/ Total = 0
    <2>1. SUFFICES ASSUME NoClock, ~AtBit(tseq)
                   PROVE  /\ ~Rises /\ Len(seen) = n /\ Held
                          /\ clk'.tck_low /\ tck' = tck /\ clk'.cur_period <= tck_period
                          /\ clk.gen_clk_begin => clk'.gen_clk_begin
                          /\ Counted => PinsKnown' /\ Progress(0, n)' /\ read' = read
                          /\ clk.gen_clk_begin \/ Total = 0
      OBVIOUS
    <2>2. clk.gen_clk_begin \/ Total = 0  BY <1>2, <1>7, <2>1
    <2>3. clk.gen_clk_begin \/ (clk.tck_low /\ tck = 0)  BY <1>5, <2>2
    <2>4. /\ ~Rises /\ Len(seen) = n /\ Held
          /\ clk'.tck_low /\ tck' = tck /\ clk'.cur_period <= tck_period
          /\ clk.gen_clk_begin => clk'.gen_clk_begin
          /\ Counted => PinsKnown' /\ Progress(0, n)' /\ read' = read
      BY <1>1, <1>4, <1>5, <2>1, <2>3, Silent
    <2>q. QED  BY <2>2, <2>4
  <1>14. CASE TmsByteDone
    <2>1. /\ tseq[1] < length /\ tseq[2] = BitsIn(tseq[1]) /\ ~AtBit(tseq)
          /\ tseq' = <<tseq[1] + 1, 0>> /\ NoClock /\ GoesOn
      BY <1>14 DEF TmsByteDone
    <2>2. BitsDone(<<tseq[1] + 1, 0>>) = n  BY <1>n, <1>2, <1>3, <2>1, AtByteEnd
    <2>3. BitsDone(tseq)' = n  BY <1>9, <2>1, <2>2
    <2>4. /\ Held /\ PinsKnown' /\ Progress(0, n)' /\ clk'.cur_period <= tck_period
          /\ clk'.tck_low /\ tck' = tck
      BY <1>10, <1>s, <2>1
    <2>5. Total = 0 => tck = 0  BY <1>5
    <2>q. QED  BY <1>11, <2>1, <2>3, <2>4, <2>5
  <1>15. CASE TmsDone
    <2>1. tseq[1] >= length /\ ~AtBit(tseq) /\ NoClock /\ CommandDone
      BY <1>15 DEF TmsDone
    <2>2. n = Total
      <3>1. tseq[1] \in Nat /\ length \in Nat  BY <1>2, <1>3, LastByte DEF Place
      <3>q. QED  BY <1>n, <2>1, <3>1 DEF BitsDone
    <2>3. /\ ~Rises /\ Len(seen) = n /\ Held
          /\ clk.gen_clk_begin => clk'.gen_clk_begin
          /\ clk.gen_clk_begin \/ Total = 0
      BY <1>s, <2>1
    <2>4. cmd_in_progress' = FALSE /\ jtag_state' = "CHECK_CMD"  BY <2>1 DEF CommandDone
    <2>5. Now' = None
      <3>1. packet' \notin {None, Stop}  BY <1>2, Distinct
      <3>q. QED  BY <2>4, <3>1 DEF Now
    <2>6. Stale' => Total = 0  BY <2>3 DEF Stale
    <2>7. ~loose'  BY <2>3, <2>4, <2>5, Ends
    <2>q. QED
      BY <1>2, <1>8, <2>2, <2>3, <2>4, <2>5, <2>6, <2>7 DEF Served, Ending
  <1>q. QED  BY <1>2, <1>12, <1>13, <1>14, <1>15

-----------------------------------------------------------------------------
(* do_scan_chain.                                                          *)

(* TDO is captured in the call after which the TAP sees the edge, and kept *)
(* until the bit ends.                                                     *)
LEMMA Captured ==
    ASSUME Typed, ClockKnown, PinsKnown, NEW n \in Nat, Progress(0, n), gen_clk(1, TRUE),
           Counted, Now \in Scans, Len(read) = Len(seen),
           clk.capture_done <=> ~clk.tck_low /\ clk.age > 0,
           clk.capture_done => captured_tdo = IF clk.age = 1 THEN tdo ELSE read[Len(read)],
           captured_tdo' = IF Captures THEN tdo' ELSE captured_tdo
    PROVE  /\ clk'.capture_done <=> ~clk'.tck_low /\ clk'.age > 0
           /\ clk'.capture_done =>
                captured_tdo' = IF clk'.age = 1 THEN tdo' ELSE read'[Len(read')]
           /\ \A m \in 1..n : read'[m] = read[m]
  <1>1. /\ clk.gen_clk_begin \in BOOLEAN /\ clk.tck_low \in BOOLEAN
        /\ clk.age \in Nat /\ clk.cur_period \in 0..5 * tck_period
        /\ clk.capture_done \in BOOLEAN /\ clk \in ClkType
        /\ clk.gen_clk_begin => clk = gen_clk_restart
    BY DEF Typed, ClkType, ClockKnown
  <1>2. PICK c \in BOOLEAN :
          /\ c <=> ~clk.tck_low /\ (clk.capture_done \/ TRUE)
          /\ StaysLow(c) \/ GoesHigh(c) \/ StaysHigh(c) \/ GoesLow(c)
    <2>1. TRUE \in BOOLEAN  OBVIOUS
    <2>q. QED  BY <1>1, <2>1, GenClk
  <1>3. ~GoesLow(c)
    <2>1. clk.cur_period = IF clk.tck_low THEN 0 ELSE clk.age  BY <1>1 DEF Progress
    <2>2. clk.cur_period < tck_period  BY <1>1 DEF gen_clk, Elapsed
    <2>q. QED  BY <1>1, <2>1, <2>2 DEF GoesLow
  <1>4. /\ Rises <=> ~clk.tck_low /\ clk.age = 1
        /\ read \in Seq(Bit) /\ tdo \in Bit
        /\ read' = IF Rises THEN Append(read, tdo) ELSE read
        /\ Len(read) \in Nat /\ n <= Len(read)
    BY <1>1 DEF PinsKnown, Rises, Typed, Counted, Progress
  <1>5. \A m \in 1..n : read'[m] = read[m]  BY <1>4
  <1>6. CASE StaysLow(c)  BY <1>1, <1>2, <1>5, <1>6 DEF StaysLow
  <1>7. CASE GoesHigh(c)  BY <1>1, <1>2, <1>5, <1>7 DEF GoesHigh
  <1>8. CASE StaysHigh(c)
    <2>1. /\ ~clk.tck_low /\ c = TRUE /\ ~clk'.tck_low /\ clk'.age = clk.age + 1
          /\ clk'.capture_done = TRUE
      BY <1>1, <1>2, <1>8 DEF StaysHigh
    <2>2. captured_tdo' = IF clk'.age = 1 THEN tdo' ELSE read'[Len(read')]
      <3>1. CASE clk.age = 0  BY <2>1, <3>1 DEF Captures
      <3>2. CASE clk.age = 1
        <4>1. captured_tdo' = tdo  BY <2>1, <3>2 DEF Captures
        <4>2. read'[Len(read')] = tdo  BY <1>4, <2>1, <3>2
        <4>q. QED  BY <2>1, <3>2, <4>1, <4>2
      <3>3. CASE clk.age > 1
        <4>1. captured_tdo' = read[Len(read)]  BY <1>1, <2>1, <3>3 DEF Captures
        <4>q. QED  BY <1>1, <1>4, <2>1, <3>3, <4>1
      <3>q. QED  BY <1>1, <3>1, <3>2, <3>3
    <2>q. QED  BY <1>1, <1>5, <2>1, <2>2
  <1>q. QED  BY <1>2, <1>3, <1>6, <1>7, <1>8

(* The bits of a scan are clocked in their order, and the last call        *)
(* answers with the bits the TAP gave.                                     *)
LEMMA ScanInStep ==
    ASSUME Working, ScanChain, TapMoves, Clocked, UNCHANGED debugger
    PROVE  Served
  <1>n. PICK n : n = BitsDone(chain)  OBVIOUS
  <1>1. /\ Typed /\ ClockKnown /\ PinsKnown /\ SeenKnown /\ CaptureKnown /\ ProgressKnown
        /\ ServerBase
    BY InvTyped DEF Working, ServerBase, InStep
  <1>2. /\ jtag_state = "SCAN_CHAIN" /\ cmd_in_progress = TRUE
        /\ packet \in Scans /\ chain \in Place
        /\ tms_flip = IF packet.cmd = "CMD_SCAN_CHAIN" THEN 0 ELSE 1
        /\ AtPlace(chain) /\ (~clk.gen_clk_begin => AtBit(chain))
        /\ UNCHANGED <<packet, sock, part, gone, stopped>>
        /\ ScanBit \/ ScanBitDone \/ ScanByteDone \/ ScanDone
    BY <1>1, ScanFacts
  <1>3. packet \in TmsSeqs \cup Scans  BY <1>2
  <1>4. n \in Nat  BY <1>n, <1>2, <1>3, DoneIsNat
  <1>5. Progress(0, n)  BY <1>n, <1>1, <1>2 DEF ProgressKnown
  <1>6. Now = packet  BY <1>2, WorkingNow
  <1>7. Total = Len(packet.bits) /\ Total \in Nat /\ Total # 0
    BY <1>2, <1>3, LastByte
  <1>8. /\ Len(Edges(Now)) = Total /\ Now \in Scans
        /\ \A m \in 1..Total :
             Edges(Now)[m] = <<IF packet.cmd # "CMD_SCAN_CHAIN" /\ m = Total
                                 THEN 1 ELSE 0, packet.bits[m]>>
    <2>1. packet \in {Reset} \cup TmsSeqs \cup Scans  BY <1>3
    <2>2. /\ Len(Edges(packet)) = Len(packet.bits)
          /\ \A m \in 1..Len(packet.bits) :
               Edges(packet)[m] = <<IF packet.cmd # "CMD_SCAN_CHAIN" /\ m = Len(packet.bits)
                                      THEN 1 ELSE 0, packet.bits[m]>>
      BY <1>2, <2>1, EdgesData
    <2>q. QED  BY <1>2, <1>6, <1>7, <2>2
  <1>9. \A p : p = chain' => BitsDone(chain)' = BitsDone(p)
    BY <1>2, SameBuffer
  <1>c. /\ \A m \in 1..n : buffer_in[m] = read[m]
        /\ clk.capture_done <=> ~clk.tck_low /\ clk.age > 0
        /\ clk.capture_done => captured_tdo = IF clk.age = 1 THEN tdo ELSE read[Len(read)]
        /\ Len(read) = Len(seen) /\ read \in Seq(Bit)
        /\ buffer_in \in [1..Total -> Bit]
    <2>1. buffer_in \in [1..Len(packet.bits) -> Bit]  BY DEF Working, ServerBase, TypeOK
    <2>q. QED  BY <1>n, <1>1, <1>2, <1>7, <1>8, <2>1 DEF CaptureKnown, SeenKnown, Typed
  <1>10. GoesOn => Now' = Now /\ ~loose' /\ Counted /\ SeenKnown' /\ AskedKnown'
    <2>1. SUFFICES ASSUME GoesOn
                   PROVE  Now' = Now /\ ~loose' /\ Counted /\ SeenKnown' /\ AskedKnown'
      OBVIOUS
    <2>2. jtag_state' = "SCAN_CHAIN" /\ cmd_in_progress' = TRUE
      BY <1>2, <2>1 DEF GoesOn
    <2>3. Now' = Now  BY <1>2, <1>6, <2>2 DEF Now
    <2>4. ~loose' /\ Counted /\ SeenKnown'  BY <1>2, <2>3, Continues
    <2>5. AskedKnown'  BY <2>2 DEF AskedKnown
    <2>q. QED  BY <2>3, <2>4, <2>5
  <1>11. ASSUME GoesOn, PinsKnown', NEW k, Progress(0, k)', BitsDone(chain)' = k,
                clk'.cur_period <= tck_period, Held, answer' = answer,
                \A m \in 1..k : buffer_in'[m] = read'[m],
                clk'.capture_done <=> ~clk'.tck_low /\ clk'.age > 0,
                clk'.capture_done =>
                  captured_tdo' = IF clk'.age = 1 THEN tdo' ELSE read'[Len(read')]
         PROVE  Served
    <2>1. jtag_state' = "SCAN_CHAIN" /\ cmd_in_progress' = TRUE
      BY <1>2, <1>11 DEF GoesOn
    <2>2. Progress(0, BitsDone(chain))'  BY <1>11 DEF Progress
    <2>3. ProgressKnown'
      BY <1>11, <2>1, <2>2 DEF ProgressKnown, Resetting
    <2>4. CaptureKnown'  BY <1>11 DEF CaptureKnown
    <2>5. InStep'  BY <1>10, <1>11, <2>3, <2>4 DEF InStep
    <2>q. QED  BY <1>2, <1>10, <1>11, <2>1, <2>5 DEF Served, Going
  <1>12. CASE ScanBit
    <2>1. /\ AtBit(chain) /\ GoesOn /\ answer' = answer
          /\ tdi' = packet.bits[BitAt(chain)]
          /\ tms' = IF LastBit(chain[1], chain[2]) THEN tms_flip ELSE 0
          /\ gen_clk(1, TRUE)
          /\ captured_tdo' = IF Captures THEN tdo' ELSE captured_tdo
          /\ chain' = chain /\ buffer_in' = buffer_in
      BY <1>12 DEF ScanBit, ScanPins
    <2>2. /\ BitAt(chain) \in 1..Total /\ n = BitAt(chain) - 1
          /\ LastBit(chain[1], chain[2]) <=> BitAt(chain) = Total
      BY <1>n, <1>2, <1>3, <2>1, AtABit
    <2>3. n + 1 = BitAt(chain) /\ n < Total /\ n + 1 \in 1..Total
      BY <1>4, <1>7, <2>2
    <2>4. <<tms', tdi'>> = Edges(Now)[n + 1] /\ n < Len(Edges(Now))
      <3>1. Edges(Now)[n + 1] =
              <<IF packet.cmd # "CMD_SCAN_CHAIN" /\ n + 1 = Total
                  THEN 1 ELSE 0, packet.bits[n + 1]>>
        BY <1>8, <2>3
      <3>2. tms' = IF packet.cmd # "CMD_SCAN_CHAIN" /\ n + 1 = Total THEN 1 ELSE 0
        BY <1>2, <2>1, <2>2, <2>3
      <3>3. tdi' = packet.bits[n + 1]  BY <2>1, <2>3
      <3>q. QED  BY <1>8, <2>3, <3>1, <3>2, <3>3
    <2>5. clk'.cur_period <= tck_period /\ PinsKnown' /\ Progress(0, n)' /\ Held
      <3>1. TRUE \in BOOLEAN  OBVIOUS
      <3>q. QED  BY <1>1, <1>4, <1>5, <1>10, <2>1, <2>4, <3>1, OneTick
    <2>6. BitsDone(chain)' = n  BY <1>n, <1>9, <2>1
    <2>7. /\ clk'.capture_done <=> ~clk'.tck_low /\ clk'.age > 0
          /\ clk'.capture_done =>
               captured_tdo' = IF clk'.age = 1 THEN tdo' ELSE read'[Len(read')]
          /\ \A m \in 1..n : read'[m] = read[m]
      BY <1>1, <1>4, <1>5, <1>8, <1>10, <1>c, <2>1, Captured
    <2>8. \A m \in 1..n : buffer_in'[m] = read'[m]  BY <1>c, <2>1, <2>7
    <2>q. QED  BY <1>11, <2>1, <2>5, <2>6, <2>7, <2>8
  <1>13. CASE ScanBitDone
    <2>1. /\ AtBit(chain) /\ GoesOn /\ answer' = answer
          /\ ClockDone(1)
          /\ buffer_in' = [buffer_in EXCEPT ![BitAt(chain)] = captured_tdo]
          /\ chain' = <<chain[1], chain[2] + 1>>
      BY <1>13 DEF ScanBitDone, ScanPins
    <2>2. /\ BitAt(chain) \in 1..Total /\ n = BitAt(chain) - 1
          /\ BitsDone(<<chain[1], chain[2] + 1>>) = BitAt(chain)
      BY <1>n, <1>2, <1>3, <2>1, AtABit
    <2>3. n + 1 = BitAt(chain) /\ n + 1 \in 1..Total
      BY <1>4, <1>7, <2>2
    <2>4. /\ clk' = gen_clk_restart /\ clk'.cur_period = 0 /\ PinsKnown'
          /\ Progress(0, n + 1)' /\ Held
          /\ ~Rises /\ ~clk.tck_low /\ clk.age > 1 /\ Len(seen) = n + 1
      BY <1>1, <1>4, <1>5, <1>10, <2>1, OneTock
    <2>5. BitsDone(chain)' = n + 1  BY <1>9, <2>1, <2>2, <2>3
    <2>6. clk'.cur_period <= tck_period  BY <2>4
    <2>7. read' = read /\ captured_tdo = read[n + 1]
      <3>1. clk.age \in Nat  BY <1>1 DEF Typed, ClkType
      <3>2. captured_tdo = read[n + 1]  BY <1>c, <2>4, <3>1
      <3>q. QED  BY <1>10, <2>1, <2>4, <3>2 DEF Counted
    <2>8. \A m \in 1..(n + 1) : buffer_in'[m] = read'[m]
      <3>1. SUFFICES ASSUME NEW m \in 1..(n + 1) PROVE buffer_in'[m] = read[m]
        BY <2>7
      <3>2. m \in 1..Total  BY <1>4, <1>7, <2>3
      <3>3. CASE m = n + 1  BY <1>c, <2>1, <2>3, <2>7, <3>2, <3>3
      <3>4. CASE m # n + 1
        <4>1. m \in 1..n /\ m # BitAt(chain)  BY <1>4, <2>3, <3>4
        <4>2. buffer_in'[m] = buffer_in[m]  BY <1>c, <2>1, <3>2, <4>1
        <4>q. QED  BY <1>c, <4>1, <4>2
      <3>q. QED  BY <3>3, <3>4
    <2>9. ~clk'.capture_done /\ clk'.tck_low  BY <2>4 DEF gen_clk_restart
    <2>q. QED  BY <1>11, <2>1, <2>4, <2>5, <2>6, <2>8, <2>9
  <1>s. NoClock /\ ~AtBit(chain) =>
          /\ ~Rises /\ Len(seen) = n /\ Held
          /\ clk'.tck_low /\ clk'.cur_period <= tck_period
          /\ clk'.gen_clk_begin /\ ~clk'.capture_done
          /\ Counted => PinsKnown' /\ Progress(0, n)' /\ read' = read
    <2>1. SUFFICES ASSUME NoClock, ~AtBit(chain)
                   PROVE  /\ ~Rises /\ Len(seen) = n /\ Held
                          /\ clk'.tck_low /\ clk'.cur_period <= tck_period
                          /\ clk'.gen_clk_begin /\ ~clk'.capture_done
                          /\ Counted => PinsKnown' /\ Progress(0, n)' /\ read' = read
      OBVIOUS
    <2>2. clk.gen_clk_begin  BY <1>2, <2>1
    <2>3. clk = gen_clk_restart  BY <1>1, <2>2 DEF ClockKnown
    <2>4. /\ ~Rises /\ Len(seen) = n /\ Held
          /\ clk'.tck_low /\ clk'.cur_period <= tck_period
          /\ clk'.capture_done = clk.capture_done
          /\ clk.gen_clk_begin => clk'.gen_clk_begin
          /\ Counted => PinsKnown' /\ Progress(0, n)' /\ read' = read
      BY <1>1, <1>4, <1>5, <2>1, <2>2, Silent
    <2>5. ~clk.capture_done  BY <2>3 DEF gen_clk_restart
    <2>q. QED  BY <2>2, <2>4, <2>5
  <1>14. CASE ScanByteDone
    <2>1. /\ chain[1] < length /\ chain[2] = BitsIn(chain[1]) /\ ~AtBit(chain)
          /\ chain' = <<chain[1] + 1, 0>> /\ NoClock /\ GoesOn
          /\ buffer_in' = buffer_in /\ answer' = answer
      BY <1>14 DEF ScanByteDone
    <2>2. BitsDone(<<chain[1] + 1, 0>>) = n  BY <1>n, <1>2, <1>3, <2>1, AtByteEnd
    <2>3. BitsDone(chain)' = n  BY <1>9, <2>1, <2>2
    <2>4. /\ Held /\ PinsKnown' /\ Progress(0, n)' /\ clk'.cur_period <= tck_period
          /\ clk'.tck_low /\ ~clk'.capture_done /\ read' = read
      BY <1>10, <1>s, <2>1
    <2>5. \A m \in 1..n : buffer_in'[m] = read'[m]  BY <1>c, <2>1, <2>4
    <2>q. QED  BY <1>11, <2>1, <2>3, <2>4, <2>5
  <1>15. CASE ScanDone
    <2>1. /\ chain[1] >= length /\ ~AtBit(chain) /\ NoClock /\ CommandDone
          /\ answer' = IF gone THEN answer ELSE buffer_in
      BY <1>15 DEF ScanDone
    <2>2. n = Total
      <3>1. chain[1] \in Nat /\ length \in Nat  BY <1>2, <1>3, LastByte DEF Place
      <3>q. QED  BY <1>n, <2>1, <3>1 DEF BitsDone
    <2>3. ~Rises /\ Len(seen) = n /\ Held /\ clk'.gen_clk_begin
      BY <1>s, <2>1
    <2>4. cmd_in_progress' = FALSE /\ jtag_state' = "CHECK_CMD"  BY <2>1 DEF CommandDone
    <2>5. Now' = None  BY <2>3, <2>4 DEF Now
    <2>6. ~Stale'  BY <2>3 DEF Stale
    <2>7. ~loose'  BY <2>3, <2>4, <2>5, Ends
    <2>8. buffer_in = read
      <3>1. buffer_in \in Seq(Bit) /\ Len(buffer_in) = Total  BY <1>7, <1>c, BufferIsSeq
      <3>2. Len(buffer_in) = Len(read) /\ \A m \in 1..Len(buffer_in) : buffer_in[m] = read[m]
        BY <1>c, <2>2, <2>3, <3>1
      <3>q. QED  BY <1>c, <3>1, <3>2, SeqEqual
    <2>9. answer' = IF Now \in Scans /\ ~gone THEN read ELSE answer
      BY <1>8, <2>1, <2>8
    <2>q. QED
      BY <1>2, <1>8, <2>2, <2>3, <2>4, <2>5, <2>6, <2>7, <2>9 DEF Served, Ending
  <1>q. QED  BY <1>2, <1>12, <1>13, <1>14, <1>15

-----------------------------------------------------------------------------
(* Taking a command.                                                       *)

(* CHECK_CMD always begins or goes on with a command, and no other state   *)
(* takes one.                                                              *)
LEMMA OnlyCheckTakes ==
    ASSUME ServerBase, doJTAG
    PROVE  /\ CheckCmd => Now' # None
           /\ ~CheckCmd => Now # None /\ (cmd_in_progress' => cmd_in_progress)
  <1>1. /\ StateKnown /\ jtag_state \in States /\ cmd_in_progress \in BOOLEAN
        /\ clk.gen_clk_begin \in BOOLEAN /\ packet \in Commands \cup {None}
    BY InvTyped DEF ServerBase
  <1>2. CheckCmd => Now' # None
    <2>1. SUFFICES ASSUME CheckCmd PROVE Now' # None  OBVIOUS
    <2>2. packet' \in Commands \cup {None}
      <3>1. CASE ReadWhole
        <4>1. sock \in Seq(Commands) /\ sock # <<>> /\ packet' = Head(sock)
          BY <3>1 DEF ReadWhole, ServerBase, TypeOK
        <4>q. QED  BY <4>1
      <3>2. CASE ReadClosed  BY <3>2 DEF ReadClosed
      <3>3. CASE ReadPart  BY <3>3 DEF ReadPart
      <3>q. QED  BY <2>1, <3>1, <3>2, <3>3 DEF CheckCmd, check_for_command
    <2>3. cmd_in_progress' = (packet'.cmd \notin {"none", "CMD_STOP_SIMU"})
      BY <2>1 DEF CheckCmd
    <2>4. CASE packet' \in {None, Stop}
      <3>1. cmd_in_progress' = FALSE  BY <2>2, <2>3, <2>4, Starts
      <3>2. jtag_state' = "GOTO_IDLE" \/ ~clk'.gen_clk_begin
        BY <2>1 DEF CheckCmd, reset_tap, gen_clk
      <3>3. Now' = Reset  BY <2>4, <3>1, <3>2 DEF Now
      <3>q. QED  BY <3>3, Distinct
    <2>5. CASE packet' \notin {None, Stop}
      <3>1. cmd_in_progress' = TRUE  BY <2>2, <2>3, <2>5, Starts
      <3>2. Now' = packet'  BY <3>1 DEF Now
      <3>q. QED  BY <2>5, <3>2
    <2>q. QED  BY <2>4, <2>5
  <1>3. ~CheckCmd => Now # None /\ (cmd_in_progress' => cmd_in_progress)
    <2>1. SUFFICES ASSUME ~CheckCmd
                   PROVE  Now # None /\ (cmd_in_progress' => cmd_in_progress)
      OBVIOUS
    <2>2. TapReset \/ GotoIdle \/ DoTmsSeq \/ ScanChain  BY <2>1 DEF doJTAG
    <2>3. jtag_state # "CHECK_CMD"
      BY <2>2 DEF TapReset, GotoIdle, DoTmsSeq, ScanChain
    <2>4. Now # None  BY <1>1, <2>3, NowKnown
    <2>5. CASE TapReset  BY <2>4, <2>5 DEF TapReset
    <2>b. ASSUME cmd_in_progress' = cmd_in_progress \/ cmd_in_progress' = FALSE
          PROVE  cmd_in_progress' => cmd_in_progress
      BY <2>b, Zenon
    <2>6. CASE GotoIdle
      <3>1. cmd_in_progress' = cmd_in_progress \/ cmd_in_progress' = FALSE
        BY <2>6, Zenon DEF GotoIdle
      <3>q. QED  BY <2>4, <2>b, <3>1
    <2>7. CASE DoTmsSeq
      <3>1. GoesOn \/ CommandDone  BY <2>7 DEF DoTmsSeq, do_tms_seq
      <3>2. cmd_in_progress' = cmd_in_progress \/ cmd_in_progress' = FALSE
        BY <3>1, Zenon DEF GoesOn, CommandDone
      <3>q. QED  BY <2>4, <2>b, <3>2
    <2>8. CASE ScanChain
      <3>1. GoesOn \/ CommandDone  BY <2>8 DEF ScanChain, do_scan_chain
      <3>2. cmd_in_progress' = cmd_in_progress \/ cmd_in_progress' = FALSE
        BY <3>1, Zenon DEF GoesOn, CommandDone
      <3>q. QED  BY <2>4, <2>b, <3>2
    <2>q. QED  BY <2>2, <2>5, <2>6, <2>7, <2>8
  <1>q. QED  BY <1>2, <1>3

(* A whole command, or the end of the connection, read in step. *)
InTime == CheckCmd /\ Taken /\ ~Stale /\ ~part /\ ~part'

(* What the call that takes a command in step assigns. *)
LEMMA TakeFacts ==
    ASSUME ServerBase, InTime, Clocked
    PROVE  /\ \/ ReadWhole \/ ReadClosed
           /\ ~clk'.gen_clk_begin /\ clk'.tck_low /\ clk'.cur_period = 0
           /\ ~clk'.capture_done /\ tck' = 0
           /\ jtag_state' = InitState(packet'.cmd)
           /\ cmd_in_progress' = (packet'.cmd \notin {"none", "CMD_STOP_SIMU"})
           /\ tseq' = <<0, 0>> /\ chain' = <<0, 0>> /\ answer' = answer
           /\ ~loose' /\ seen' = <<>> /\ read' = <<>>
  <1>1. /\ jtag_state = "CHECK_CMD" /\ tseq = <<0, 0>> /\ chain = <<0, 0>>
        /\ ClockKnown /\ clk \in ClkType
    BY InvTyped DEF InTime, CheckCmd, ServerBase, PlacesKnown, PlaceKnown, Typed
  <1>2. ReadWhole \/ ReadClosed
    <2>1. ~ReadPart  BY DEF ReadPart, InTime
    <2>q. QED  BY <2>1 DEF InTime, CheckCmd, check_for_command
  <1>3. clk.tck_low /\ clk.cur_period = 0 /\ ~Flips
    <2>1. CASE clk.gen_clk_begin
      <3>1. clk = gen_clk_restart  BY <1>1, <2>1 DEF ClockKnown
      <3>2. Age = 0  BY <2>1 DEF Age
      <3>q. QED  BY <3>1, <3>2 DEF gen_clk_restart, Flips
    <2>2. CASE ~clk.gen_clk_begin
      <3>1. ~Flips /\ clk.tck_low /\ ~(clk.cur_period > 0)
        BY <1>1, <2>2 DEF InTime, Stale
      <3>2. clk.cur_period \in Nat  BY <1>1 DEF ClkType
      <3>q. QED  BY <3>1, <3>2
    <2>q. QED  BY <2>1, <2>2
  <1>4. ~Elapsed(5)  BY <1>3 DEF Elapsed
  <1>5. gen_clk(5, FALSE) /\ jtag_state' = InitState(packet'.cmd)
    BY <1>4 DEF InTime, CheckCmd, reset_tap, ClockDone
  <1>6. /\ ~clk'.gen_clk_begin /\ clk'.tck_low /\ clk'.cur_period = 0
        /\ ~clk'.capture_done /\ tck' = 0
    BY <1>3, <1>5 DEF gen_clk
  <1>7. ~Rises  BY <1>1, <1>3 DEF ClockKnown
  <1>8. ~loose'  BY DEF Clocked, InTime
  <1>9. seen' = <<>> /\ read' = <<>>  BY <1>7, <1>8 DEF Clocked, InTime
  <1>q. QED
    BY <1>1, <1>2, <1>5, <1>6, <1>8, <1>9 DEF InTime, CheckCmd

(* The command it takes. *)
LEMMA TakeNow ==
    ASSUME ServerBase, InTime, Clocked
    PROVE  /\ packet' \in Commands \cup {None}
           /\ Now' = IF packet' \in {None, Stop} THEN Reset ELSE packet'
           /\ cmd_in_progress' <=> packet' \notin {None, Stop}
           /\ Now' \in {Reset} \cup TmsSeqs \cup Scans
           /\ \/ /\ sock # <<>> /\ sock' = Tail(sock) /\ packet' = Head(sock)
                 /\ Head(sock) \in Commands
              \/ sock = <<>> /\ gone /\ sock' = sock /\ packet' = None
  <1>1. /\ ReadWhole \/ ReadClosed
        /\ ~clk'.gen_clk_begin
        /\ cmd_in_progress' = (packet'.cmd \notin {"none", "CMD_STOP_SIMU"})
    BY TakeFacts
  <1>2. \/ /\ sock # <<>> /\ sock' = Tail(sock) /\ packet' = Head(sock)
           /\ Head(sock) \in Commands
        \/ sock = <<>> /\ gone /\ sock' = sock /\ packet' = None
    <2>1. sock \in Seq(Commands)  BY DEF ServerBase, TypeOK
    <2>2. sock # <<>> => Head(sock) \in Commands  BY <2>1
    <2>q. QED  BY <1>1, <2>2 DEF ReadWhole, ReadClosed, incoming
  <1>3. packet' \in Commands \cup {None}  BY <1>2
  <1>4. CASE packet' \in {None, Stop}
    <2>1. cmd_in_progress' = FALSE  BY <1>1, <1>3, <1>4, Starts
    <2>2. Now' = Reset  BY <1>1, <1>4, <2>1 DEF Now
    <2>q. QED  BY <1>2, <1>3, <1>4, <2>1, <2>2
  <1>5. CASE packet' \notin {None, Stop}
    <2>1. cmd_in_progress' = TRUE  BY <1>1, <1>3, <1>5, Starts
    <2>2. Now' = packet'  BY <2>1 DEF Now
    <2>3. packet' \in {Reset} \cup TmsSeqs \cup Scans  BY <1>3, <1>5, Starts
    <2>q. QED  BY <1>2, <1>3, <1>5, <2>1, <2>2, <2>3
  <1>q. QED  BY <1>4, <1>5

(* A command that is read whole while the clock is low is in step,         *)
(* whatever went before.                                                   *)
LEMMA TakeInStep ==
    ASSUME ServerBase, InTime, Clocked, UNCHANGED debugger
    PROVE  InStep' /\ Held
  <1>1. /\ ~clk'.gen_clk_begin /\ clk'.tck_low /\ clk'.cur_period = 0
        /\ ~clk'.capture_done /\ tck' = 0
        /\ jtag_state' = InitState(packet'.cmd)
        /\ tseq' = <<0, 0>> /\ chain' = <<0, 0>>
        /\ seen' = <<>> /\ read' = <<>>
    BY TakeFacts
  <1>2. /\ packet' \in Commands \cup {None}
        /\ cmd_in_progress' <=> packet' \notin {None, Stop}
        /\ Now' \in {Reset} \cup TmsSeqs \cup Scans
        /\ \/ /\ sock # <<>> /\ sock' = Tail(sock) /\ packet' = Head(sock)
              /\ Head(sock) \in Commands
           \/ sock = <<>> /\ gone /\ sock' = sock /\ packet' = None
    BY TakeNow
  <1>3. /\ jtag_state' # "GOTO_IDLE"
        /\ jtag_state' \in States
        /\ jtag_state' = "DO_TMS_SEQ" => packet' \in TmsSeqs
        /\ jtag_state' = "SCAN_CHAIN" => packet' \in Scans
    BY <1>1, <1>2, Starts DEF States
  <1>4. AskedKnown'
    <2>1. SUFFICES ASSUME ~cmd_in_progress'
                   PROVE  sock' = <<>> /\ (gone' \/ stopped')
      BY <1>3 DEF AskedKnown
    <2>2. packet' \in {None, Stop} /\ gone' = gone /\ stopped' = stopped
      BY <1>2, <2>1 DEF debugger
    <2>3. CASE sock = <<>>  BY <1>2, <2>2, <2>3
    <2>4. CASE sock # <<>>
      <3>1. sock \in Seq(Commands)  BY DEF ServerBase, TypeOK
      <3>2. None \notin Commands  BY Distinct DEF Commands
      <3>3. Head(sock) = Stop /\ sock' = Tail(sock)  BY <1>2, <2>2, <2>4, <3>2
      <3>4. 1 \in 1..Len(sock) /\ sock[1] = Stop /\ Len(sock) \in Nat
        BY <2>4, <3>1, <3>3
      <3>5. 1 = Len(sock) /\ stopped  BY <3>4 DEF ServerBase, StateKnown
      <3>6. Tail(sock) \in Seq(Commands) /\ Len(Tail(sock)) = 0
        BY <2>4, <3>1, <3>5
      <3>7. sock' = <<>>  BY <3>3, <3>6, EmptySeq
      <3>q. QED  BY <2>2, <3>5, <3>7
    <2>q. QED  BY <2>3, <2>4
  <1>5. PinsKnown'  BY <1>1 DEF PinsKnown, Rises
  <1>6. Len(seen') = 0 /\ Len(read') = 0  BY <1>1
  <1>7. Progress(0, 0)'  BY <1>1, <1>6 DEF Progress
  <1>8. jtag_state' = "DO_TMS_SEQ" => BitsDone(tseq)' = 0
    <2>1. jtag_state' = "DO_TMS_SEQ" => BitsDone(<<0, 0>>)' = 0  BY <1>3, AtStart
    <2>q. QED  BY <1>1, <2>1 DEF BitsDone, BitAt
  <1>9. jtag_state' = "SCAN_CHAIN" => BitsDone(chain)' = 0
    <2>1. jtag_state' = "SCAN_CHAIN" => BitsDone(<<0, 0>>)' = 0  BY <1>3, AtStart
    <2>q. QED  BY <1>1, <2>1 DEF BitsDone, BitAt
  <1>10. ProgressKnown'
    <2>1. HighCalls(0) = 0  BY DEF HighCalls
    <2>2. \E k \in 0..4 : Progress(HighCalls(k), k)'
      <3>1. 0 \in 0..4 /\ Progress(HighCalls(0), 0)'  BY <1>7, <2>1
      <3>q. QED  BY <3>1
    <2>3. jtag_state' = "DO_TMS_SEQ" => Progress(0, BitsDone(tseq))'
      BY <1>7, <1>8 DEF Progress
    <2>4. jtag_state' = "SCAN_CHAIN" => Progress(0, BitsDone(chain))'
      BY <1>7, <1>9 DEF Progress
    <2>q. QED  BY <1>1, <1>3, <2>2, <2>3, <2>4 DEF ProgressKnown
  <1>11. SeenKnown'
    <2>1. Len(Edges(Now')) \in Nat  BY <1>2, EdgesData
    <2>q. QED  BY <1>6, <2>1 DEF SeenKnown
  <1>12. CaptureKnown'  BY <1>1, <1>9 DEF CaptureKnown
  <1>q. QED  BY <1>1, <1>4, <1>5, <1>10, <1>11, <1>12 DEF InStep, Held

-----------------------------------------------------------------------------
(* The theorems.                                                           *)

(* A command is taken out of step, or one that was goes on. *)
OutOfStep == loose' /\ (loose \/ (Now = None /\ (Stale \/ part \/ part')))

(* A call of doJTAG serves the command in progress, takes one in step, or  *)
(* promises nothing.                                                       *)
LEMMA BenchStep ==
    ASSUME ServerInv, TestBench
    PROVE  /\ ServerBase'
           /\ \/ Working /\ Served
              \/ InTime /\ (Now = None \/ loose)
              \/ OutOfStep
  <1>1. /\ ServerBase /\ (Now # None /\ ~loose => InStep)
        /\ TapMoves /\ doJTAG /\ Clocked /\ UNCHANGED debugger
    BY DEF ServerInv, TestBench
  <1>2. ServerBase'
    BY <1>1, CheckBase, TapResetBase, IdleBase, TmsBase, ScanBase DEF doJTAG
  <1>3. CASE Now # None /\ ~loose
    <2>1. Working  BY <1>1, <1>3 DEF Working
    <2>2. Served
      BY <1>1, <2>1, ResetInStep, IdleInStep, TmsInStep, ScanInStep DEF doJTAG
    <2>q. QED  BY <1>2, <2>1, <2>2
  <1>4. CASE ~CheckCmd /\ loose
    <2>1. ~Taken  BY <1>1, <1>4, OnlyCheckTakes DEF Taken
    <2>2. loose'  BY <1>1, <1>4, <2>1 DEF Clocked
    <2>q. QED  BY <1>2, <1>4, <2>2 DEF OutOfStep
  <1>5. CASE CheckCmd /\ (Now = None \/ loose)
    <2>1. Now' # None  BY <1>1, <1>5, OnlyCheckTakes
    <2>2. CASE ~Taken
      <3>1. Now # None /\ loose  BY <1>5, <2>1, <2>2 DEF Taken
      <3>2. loose'  BY <1>1, <2>2, <3>1 DEF Clocked
      <3>q. QED  BY <1>2, <3>1, <3>2 DEF OutOfStep
    <2>3. CASE Taken /\ (Stale \/ part \/ part')
      <3>1. loose'  BY <1>1, <2>3 DEF Clocked
      <3>q. QED  BY <1>2, <1>5, <2>3, <3>1 DEF OutOfStep
    <2>4. CASE Taken /\ ~(Stale \/ part \/ part')
      <3>1. InTime  BY <1>5, <2>4 DEF InTime
      <3>q. QED  BY <1>2, <1>5, <3>1
    <2>q. QED  BY <2>2, <2>3, <2>4
  <1>6. ~CheckCmd => Now # None  BY <1>1, OnlyCheckTakes
  <1>q. QED  BY <1>3, <1>4, <1>5, <1>6

(* The server starts in the invariant. *)
LEMMA InitInv == Init => ServerInv
  <1> SUFFICES ASSUME Init PROVE ServerInv
    OBVIOUS
  <1>1. Len(packet.bits) = 0 /\ packet = None  BY CommandData DEF Init
  <1>2. TypeOK
    <2>1. buffer_in \in [1..Len(packet.bits) -> Bit]
      BY <1>1 DEF Init
    <2>2. clk \in ClkType  BY DEF Init, ClkType, gen_clk_restart
    <2>3. /\ {captured_tdo, tms, tdi, tck, tdo, was} \subseteq Bit
          /\ seen \in Seq(Bit \X Bit) /\ read \in Seq(Bit)
          /\ sock \in Seq(Commands) /\ answer \in Seq(Bit)
          /\ parts \in 0..MaxParts
          /\ tms_flip \in Bit
      BY DEF Init, Bit
    <2>4. tseq \in Place /\ chain \in Place  BY DEF Init, Place
    <2>5. cmd_in_progress \in BOOLEAN /\ jtag_state = "CHECK_CMD"  BY DEF Init
    <2>6. {loose, part, gone, waits, stopped} \subseteq BOOLEAN  BY Zenon DEF Init
    <2>q. QED  BY <1>1, <2>1, <2>2, <2>3, <2>4, <2>5, <2>6 DEF TypeOK, ClkType, Place
  <1>3. StateKnown /\ PlacesKnown
    BY DEF Init, StateKnown, PlacesKnown, PlaceKnown
  <1>4. ClockKnown  BY DEF Init, ClockKnown, Rises
  <1>5. Now = None
    BY DEF Init, Now, gen_clk_restart
  <1>q. QED  BY <1>2, <1>3, <1>4, <1>5 DEF ServerInv, ServerBase

(* Every step keeps the invariant and, in step, the setup time. *)
LEMMA NextInv ==
    ASSUME ServerInv, [Next]_vars
    PROVE  ServerInv' /\ (~loose' => Held)
  <1>0. ServerBase /\ (Now # None /\ ~loose => InStep)  BY DEF ServerInv
  <1>1. CASE TestBench
    <2>1. ServerBase' /\ Clocked /\ UNCHANGED debugger  BY <1>1, BenchStep DEF TestBench
    <2>2. CASE Working /\ Served
      <3>1. Now' # None => InStep'  BY <2>2 DEF Served, Going, Ending
      <3>q. QED  BY <2>1, <2>2, <3>1 DEF ServerInv, Served
    <2>3. CASE InTime
      BY <1>0, <2>1, <2>3, TakeInStep DEF ServerInv
    <2>4. CASE OutOfStep
      BY <2>1, <2>4 DEF ServerInv, OutOfStep
    <2>q. QED  BY <1>1, <2>2, <2>3, <2>4, BenchStep
  <1>2. CASE (\E c \in Commands : Sends(c)) \/ Collects \/ Goes
    <2>1. ServerBase' /\ Now' = Now /\ (InStep => InStep')  BY <1>0, <1>2, DebuggerBase
    <2>2. UNCHANGED <<tms, tdi, tck, loose>>
      BY <1>2 DEF Sends, Collects, Goes, pins, tap
    <2>q. QED  BY <1>0, <2>1, <2>2 DEF ServerInv, Held
  <1>3. CASE UNCHANGED vars
    <2>1. UNCHANGED <<server, pins, tap>> /\ UNCHANGED <<sock, part, parts, answer>>
          /\ UNCHANGED <<waits, stopped, gone, loose, tms, tdi>>
      BY <1>3 DEF vars, incoming, debugger, tap, pins
    <2>2. TypeOK' /\ StateKnown'
      BY <1>0, <2>1 DEF ServerBase, TypeOK, StateKnown, server, places, pins, tap
    <2>3. InStep => AskedKnown'  BY <2>1 DEF InStep, AskedKnown, server
    <2>4. ServerBase' /\ Now' = Now /\ (InStep => InStep')
      BY <1>0, <2>1, <2>2, <2>3, ServerUntouched
    <2>q. QED  BY <1>0, <2>1, <2>4 DEF ServerInv, Held
  <1>q. QED  BY <1>1, <1>2, <1>3 DEF Next

(* The static variables of gen_clk, do_tms_seq and do_scan_chain are, in   *)
(* every call on behalf of a command taken in step, where the bits clocked *)
(* so far say, and never outside their buffers: for any length of a byte,  *)
(* any clock period from five on, any commands that fit a buffer and any   *)
(* debugger, reads of a part of a command included.                        *)
THEOREM AlwaysServerInv == Spec => []ServerInv
  <1>1. ServerInv /\ [Next]_vars => ServerInv'  BY NextInv
  <1>q. QED  BY InitInv, <1>1, PTL DEF Spec

(* The type invariant of the JTAG server: the byte indices of do_tms_seq   *)
(* and do_scan_chain stay within XFERT_MAX_SIZE and the counters of gen_clk*)
(* in their bounds, whatever is read from the socket.                      *)
THEOREM ServerTypeCorrect == Spec => []TypeOK
  <1>1. ServerInv => TypeOK  BY DEF ServerInv, ServerBase
  <1>q. QED  BY AlwaysServerInv, <1>1, PTL

(* gen_clk never raises TCK in the call in which TMS or TDI changes, but   *)
(* for a command taken out of step.                                        *)
THEOREM AlwaysSetupHeld == Spec => SetupHeld
  <1>1. ServerInv /\ [Next]_vars =>
          [tck = 0 /\ tck' = 1 /\ ~loose' => UNCHANGED <<tms, tdi>>]_vars
    BY NextInv DEF Held
  <1>q. QED  BY AlwaysServerInv, <1>1, PTL DEF Spec, SetupHeld

-----------------------------------------------------------------------------
(* The server implements TapPort.                                          *)

PortNext == Port!Debugger \/ Port!Take \/ Port!Clock \/ Port!Finish \/ Port!Unpromised
PortVars == <<sock, part, gone, Now = None /\ Stale, Now, loose, seen, read, answer>>

(* The call that takes a command in step is the Take of the port. *)
LEMMA TakeIsTake ==
    ASSUME ServerBase, InTime, Clocked, UNCHANGED debugger, Now = None \/ loose
    PROVE  Port!Take
  <1>1. ~loose' /\ seen' = <<>> /\ read' = <<>> /\ answer' = answer  BY TakeFacts
  <1>2. /\ Now' = IF packet' \in {None, Stop} THEN Reset ELSE packet'
        /\ Now' \in {Reset} \cup TmsSeqs \cup Scans
        /\ \/ /\ sock # <<>> /\ sock' = Tail(sock) /\ packet' = Head(sock)
              /\ Head(sock) \in Commands
           \/ sock = <<>> /\ gone /\ sock' = sock /\ packet' = None
    BY TakeNow
  <1>3. gone' = gone /\ ~Stale /\ ~part /\ ~part'  BY DEF debugger, InTime
  <1>p. part' = part
    <2>1. part \in BOOLEAN  BY DEF ServerBase, TypeOK
    <2>2. ReadWhole \/ ReadClosed  BY TakeFacts
    <2>q. QED  BY <2>2 DEF ReadWhole, ReadClosed, incoming
  <1>4. Now' # None  BY <1>2, Distinct
  <1>5. (Now = None /\ Stale)' = (Now = None /\ Stale)  BY <1>3, <1>4
  <1>6. \/ sock # <<>> /\ sock' = Tail(sock)
           /\ Now' = IF Head(sock) = Stop THEN Reset ELSE Head(sock)
        \/ sock = <<>> /\ gone /\ Now' = Reset /\ UNCHANGED sock
    <2>1. None \notin Commands  BY Distinct DEF Commands
    <2>q. QED  BY <1>2, <2>1
  <1>q. QED  BY <1>1, <1>3, <1>p, <1>5, <1>6 DEF Port!Take

(* In step, the call after an edge of TCK is a clock of the port, and no   *)
(* other is.                                                               *)
LEMMA EdgeIsClock ==
    ASSUME Working, Served, Going, Clocked, UNCHANGED debugger
    PROVE  Port!Clock \/ UNCHANGED PortVars
  <1>1. /\ ~loose' /\ Counted
        /\ Rises => /\ Len(seen) < Len(Edges(Now))
                    /\ <<tms, tdi>> = Edges(Now)[Len(seen) + 1]
    BY Continues DEF Going
  <1>2. Now # None /\ Now' = Now /\ answer' = answer /\ ~loose
    BY DEF Working, Going
  <1>3. sock' = sock /\ part' = part /\ gone' = gone  BY DEF Served, debugger
  <1>4. tdo \in {0, 1} /\ loose' = loose
    <2>1. tdo \in Bit  BY InvTyped DEF Working, ServerBase, Typed
    <2>2. loose \in BOOLEAN /\ loose' \in BOOLEAN
      BY ClockedTyped DEF Working, ServerBase, TypeOK
    <2>q. QED  BY <1>1, <1>2, <2>1, <2>2 DEF Bit
  <1>5. (Now = None /\ Stale)' = (Now = None /\ Stale)  BY <1>2
  <1>6. CASE Rises
    <2>1. seen' = Append(seen, Edges(Now)[Len(seen) + 1])  BY <1>1, <1>6 DEF Counted
    <2>2. IF Now \in Scans THEN \E b \in {0, 1} : read' = Append(read, b)
                           ELSE UNCHANGED read
      BY <1>1, <1>4, <1>6 DEF Counted
    <2>q. QED  BY <1>1, <1>2, <1>3, <1>4, <1>5, <1>6, <2>1, <2>2 DEF Port!Clock
  <1>7. CASE ~Rises
    BY <1>1, <1>2, <1>3, <1>4, <1>5, <1>7 DEF Counted, PortVars
  <1>q. QED  BY <1>6, <1>7

(* A command ends when all its bits have been clocked. *)
LEMMA EndIsFinish ==
    ASSUME Working, Served, Ending, Clocked, UNCHANGED debugger
    PROVE  Port!Finish
  <1>1. ~loose' /\ seen' = <<>> /\ read' = <<>>  BY Ends DEF Ending
  <1>2. /\ Now # None /\ ~loose /\ Now' = None /\ Len(seen) = Len(Edges(Now))
        /\ answer' = IF Now \in Scans /\ ~gone THEN read ELSE answer
        /\ Stale' => Len(Edges(Now)) = 0
        /\ sock' = sock /\ part' = part /\ gone' = gone
    BY DEF Working, Served, Ending, debugger
  <1>3. loose' = loose
    <2>1. loose \in BOOLEAN /\ loose' \in BOOLEAN
      BY ClockedTyped DEF Working, ServerBase, TypeOK
    <2>q. QED  BY <1>1, <1>2, <2>1
  <1>4. PICK e \in Seq(Bit \X Bit) : e = Edges(Now)  BY WorkingNow
  <1>5. seen = Edges(Now)
    <2>1. /\ seen \in Seq(Bit \X Bit)
          /\ \A m \in 1..Len(seen) : seen[m] = Edges(Now)[m]
      BY DEF Working, ServerBase, InStep, TypeOK, SeenKnown
    <2>2. Len(seen) = Len(e) /\ \A m \in 1..Len(seen) : seen[m] = e[m]  BY <1>2, <1>4, <2>1
    <2>q. QED  BY <1>4, <2>1, <2>2, SeqEqual
  <1>6. (Now = None /\ Stale)' => Edges(Now) = <<>>
    <2>1. Len(e) = 0 => e = <<>>  BY <1>4, EmptySeq
    <2>q. QED  BY <1>2, <1>4, <2>1
  <1>q. QED  BY <1>1, <1>2, <1>3, <1>5, <1>6 DEF Port!Finish

(* Every step of the server is a step of the port, or leaves it as it is. *)
LEMMA NextIsPort ==
    ASSUME ServerInv, [Next]_vars
    PROVE  [PortNext]_PortVars
  <1>0. ServerBase  BY DEF ServerInv
  <1>1. CASE TestBench
    <2>1. Clocked /\ UNCHANGED debugger  BY <1>1 DEF TestBench
    <2>2. CASE Working /\ Served
      <3>1. CASE Going  BY <2>1, <2>2, <3>1, EdgeIsClock DEF PortNext
      <3>2. CASE Ending  BY <2>1, <2>2, <3>2, EndIsFinish DEF PortNext
      <3>q. QED  BY <2>2, <3>1, <3>2 DEF Served
    <2>3. CASE InTime /\ (Now = None \/ loose)
      BY <1>0, <2>1, <2>3, TakeIsTake DEF PortNext
    <2>4. CASE OutOfStep
      <3>1. gone' = gone  BY <2>1 DEF debugger
      <3>2. Port!Unpromised  BY <2>4, <3>1 DEF OutOfStep, Port!Unpromised
      <3>q. QED  BY <3>2 DEF PortNext
    <2>q. QED  BY <1>1, <2>2, <2>3, <2>4, BenchStep
  <1>2. CASE (\E c \in Commands : Sends(c)) \/ Collects \/ Goes
    <2>1. Now' = Now /\ (Stale' <=> Stale)  BY <1>0, <1>2, DebuggerBase
    <2>2. (Now = None /\ Stale)' = (Now = None /\ Stale)  BY <2>1
    <2>3. UNCHANGED <<part, loose, seen, read>>
      BY <1>2 DEF Sends, Collects, Goes, tap, incoming
    <2>4. Port!Debugger
      <3>1. CASE \E c \in Commands : Sends(c)
        BY <2>1, <2>2, <2>3, <3>1 DEF Sends, Port!Debugger
      <3>2. CASE Collects  BY <2>1, <2>2, <2>3, <3>2 DEF Collects, incoming, Port!Debugger
      <3>3. CASE Goes  BY <2>1, <2>2, <2>3, <3>3 DEF Goes, incoming, Port!Debugger
      <3>q. QED  BY <1>2, <3>1, <3>2, <3>3
    <2>q. QED  BY <2>4 DEF PortNext
  <1>3. CASE UNCHANGED vars
    <2>1. UNCHANGED <<jtag_state, cmd_in_progress, packet, clk, seen, read, loose, sock,
                      part, gone, answer>>
      BY <1>3 DEF vars, server, tap, incoming, debugger
    <2>2. Now' = Now  BY <2>1 DEF Now
    <2>3. Stale' <=> Stale  BY <2>1 DEF Stale, Flips, Age
    <2>4. (Now = None /\ Stale)' = (Now = None /\ Stale)  BY <2>2, <2>3
    <2>q. QED  BY <2>1, <2>2, <2>4 DEF PortVars
  <1>q. QED  BY <1>1, <1>2, <1>3 DEF Next

(* doJTAG implements TapPort: whatever the debugger sends and whenever it  *)
(* leaves, each command taken in step clocks exactly its Edges into the    *)
(* TAP, in order, and a scan is answered with the bits the TAP gave; only  *)
(* a part of a command and a clock left by a sequence of which no bit is   *)
(* sent put it out of step.                                                *)
THEOREM ServerIsPort == Spec => PortServed
  <1>1. Init => Port!TapInit
    <2>1. SUFFICES ASSUME Init PROVE Port!TapInit  OBVIOUS
    <2>2. Now = None  BY <2>1 DEF Init, Now, gen_clk_restart
    <2>3. ~Stale  BY <2>1 DEF Init, Stale, gen_clk_restart
    <2>q. QED  BY <2>1, <2>2, <2>3 DEF Init, Port!TapInit
  <1>2. ServerInv /\ [Next]_vars => [Port!TapNext]_(Port!tapVars)
    BY NextIsPort DEF PortNext, PortVars, Port!TapNext, Port!tapVars
  <1>q. QED
    BY AlwaysServerInv, <1>1, <1>2, PTL DEF Spec, PortServed, Port!TapSpec
=============================================================================
