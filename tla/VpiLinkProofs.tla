---------------------------- MODULE VpiLinkProofs ----------------------------
(***************************************************************************)
(* Proofs that the link keeps its two processes in step, for every set of  *)
(* addresses, word width and block lengths.                                *)
(***************************************************************************)
EXTENDS VpiLinkInv, TLAPS, SequenceTheorems

USE DEF CMD_JTAG_SET_IR, CMD_SET_DEBUG_CHAIN, CMD_CPU_CTRL_WR, CMD_CPU_CTRL_RD,
        CMD_CPU_WR_REG, CMD_CPU_RD_REG, CMD_WB_WR, CMD_WB_RD32, CMD_WB_BLOCK_WR32,
        CMD_WB_BLOCK_RD32, CMD_RESET, CMD_READ_JTAG_ID, CMD_GDB_DETACH, CMD_WB_RD8,
        FORGET_CHAIN, JI_IDCODE, JI_DEBUG, DC_WISHBONE, DC_CPU0, NoChain, DbgChain,
        AnyChain, AnyIr, BlockReads, BlockWrites

\* Words are integers.
LEMMA WordInt == Word \subseteq Int
  BY WordAssumption DEF Word

\* The number of units of a block, and how it relates to its whole words.
LEMMA UnitsFact ==
  ASSUME NEW l \in Nat
  PROVE  /\ l \div 4 \in Nat /\ l % 4 \in 0 .. 3 /\ Units(l) \in Nat
         /\ Units(l) = l \div 4 \/ Units(l) = l \div 4 + 1
         /\ l % 4 # 0 <=> Units(l) = l \div 4 + 1
  BY DEF Units

\* What Sends yields, command by command.
LEMMA SendsFact ==
  ASSUME NEW o, StepOK(o)
  PROVE  /\ Sends(o) \in Seq(Int)
         /\ o.cmd \in {CMD_JTAG_SET_IR, CMD_SET_DEBUG_CHAIN, CMD_CPU_CTRL_WR} =>
              Sends(o) = o.data /\ Len(Sends(o)) = 1
         /\ o.cmd \in {CMD_WB_RD32, CMD_WB_RD8} => Len(Sends(o)) = 1
         /\ o.cmd \in BlockReads => Len(Sends(o)) = 2 /\ Sends(o)[1] = o.adr /\ Sends(o)[2] = o.len
         /\ o.cmd \in BlockWrites \cup {CMD_WB_WR} =>
              /\ Len(Sends(o)) = 2 + Len(o.data)
              /\ Sends(o)[1] = o.adr /\ Sends(o)[2] = o.len
              /\ \A k \in 1 .. Len(o.data) : Sends(o)[k + 2] = o.data[k]
         /\ o.cmd \in {CMD_CPU_CTRL_RD, CMD_RESET, CMD_READ_JTAG_ID, CMD_GDB_DETACH} => Len(Sends(o)) = 0
<1> o \in Step BY DEF StepOK, Step
<1>1. CASE o.cmd \in {CMD_JTAG_SET_IR, CMD_SET_DEBUG_CHAIN, CMD_CPU_CTRL_WR}
  <2>1. Sends(o) = o.data BY <1>1 DEF Sends
  <2>2. Len(o.data) = 1 BY <1>1 DEF StepOK
  <2> QED BY <1>1, <2>1, <2>2, SMTT(30) DEF Step
<1>2. CASE o.cmd \in {CMD_WB_RD32, CMD_WB_RD8}
  <2>1. Sends(o) = <<o.adr>> BY <1>2 DEF Sends
  <2> QED BY <1>2, <2>1, SMTT(30) DEF Step
<1>3. CASE o.cmd \in BlockReads
  <2>1. Sends(o) = <<o.adr, o.len>> BY <1>3 DEF Sends
  <2> QED BY <1>3, <2>1, SMTT(30) DEF Step
<1>4. CASE o.cmd \in BlockWrites \cup {CMD_WB_WR}
  <2>1. Sends(o) = <<o.adr, o.len>> \o o.data BY <1>4 DEF Sends
  <2>2. <<o.adr, o.len>> \in Seq(Int) /\ o.data \in Seq(Int) BY DEF Step
  <2>3. Sends(o) \in Seq(Int) /\ Len(Sends(o)) = 2 + Len(o.data)
        /\ \A i \in 1 .. Len(Sends(o)) :
             Sends(o)[i] = IF i <= 2 THEN <<o.adr, o.len>>[i] ELSE o.data[i - 2]
    BY <2>1, <2>2, ConcatProperties, LenProperties
  <2>4. Sends(o)[1] = o.adr /\ Sends(o)[2] = o.len
    BY <2>2, <2>3, LenProperties
  <2>5. \A k \in 1 .. Len(o.data) : Sends(o)[k + 2] = o.data[k]
    <3> SUFFICES ASSUME NEW k \in 1 .. Len(o.data) PROVE Sends(o)[k + 2] = o.data[k]
      OBVIOUS
    <3>1. k + 2 \in 1 .. Len(Sends(o)) /\ ~(k + 2 <= 2) /\ (k + 2) - 2 = k
      BY <2>2, <2>3, LenProperties
    <3> QED BY <2>3, <3>1
  <2>6. Sends(o) \in Seq(Int) /\ Len(Sends(o)) = 2 + Len(o.data) BY <2>3
  <2>7. o.cmd \notin {CMD_JTAG_SET_IR, CMD_SET_DEBUG_CHAIN, CMD_CPU_CTRL_WR, CMD_WB_RD32, CMD_WB_RD8,
                    CMD_CPU_CTRL_RD, CMD_RESET, CMD_READ_JTAG_ID, CMD_GDB_DETACH} \cup BlockReads
    BY <1>4
  <2> HIDE DEF CMD_JTAG_SET_IR, CMD_SET_DEBUG_CHAIN, CMD_CPU_CTRL_WR, CMD_CPU_CTRL_RD,
        CMD_CPU_WR_REG, CMD_CPU_RD_REG, CMD_WB_WR, CMD_WB_RD32, CMD_WB_BLOCK_WR32,
        CMD_WB_BLOCK_RD32, CMD_RESET, CMD_READ_JTAG_ID, CMD_GDB_DETACH, CMD_WB_RD8,
        BlockReads, BlockWrites
  <2> QED BY <2>4, <2>5, <2>6, <2>7, Zenon
<1>5. CASE o.cmd \in {CMD_CPU_CTRL_RD, CMD_RESET, CMD_READ_JTAG_ID, CMD_GDB_DETACH, FORGET_CHAIN}
  <2>1. Sends(o) = << >> BY <1>5, SMTT(30) DEF Sends
  <2> QED BY <1>5, <2>1
<1> QED BY <1>1, <1>2, <1>3, <1>4, <1>5 DEF Step

\* g holds the first parameters of o.
PrefixOf(g, o) ==
  /\ g \in Seq(Int) /\ Len(g) <= Len(Sends(o))
  /\ \A k \in 1 .. Len(g) : g[k] = Sends(o)[k]

\* Whatever prefix of the server's parameters it has read, the simulation
\* asks for another exactly when the server has another, and of that size.
LEMMA WantsFact ==
  ASSUME NEW o, StepOK(o), o.cmd # FORGET_CHAIN, NEW g, PrefixOf(g, o)
  PROVE  /\ Len(g) = SimWants(o.cmd, g) <=> Len(g) = Len(Sends(o))
         /\ Len(g) < SimWants(o.cmd, g) <=> Len(g) < Len(Sends(o))
         /\ Len(g) < Len(Sends(o)) => GetSize(o.cmd, g) = SendSize(o, Len(g) + 1)
<1> o \in Step BY DEF StepOK, Step
<1>0. Len(g) \in Nat /\ Len(Sends(o)) \in Nat BY SendsFact DEF PrefixOf
<1>1. CASE o.cmd \in BlockWrites
  <2>1. Len(Sends(o)) = 2 + Units(o.len) /\ Sends(o)[2] = o.len /\ o.len \in Nat
    <3>1. Len(o.data) = Units(o.len) /\ o.len \in Nat BY <1>1 DEF StepOK, Step
    <3>2. Len(Sends(o)) = 2 + Len(o.data) /\ Sends(o)[2] = o.len BY <1>1, SendsFact
    <3> QED BY <3>1, <3>2
  <2> DEFINE w == o.len \div 4
  <2>u. w \in Nat /\ Units(o.len) \in {w, w + 1} /\ (o.len % 4 # 0 <=> Units(o.len) = w + 1)
    BY <2>1, UnitsFact
  <2>w. w <= StorageWords /\ StorageWords \in Nat BY <1>1, StorageAssumption DEF StepOK
  <2>2. BlockGets(o.len) = Units(o.len)
    BY <2>u, <2>w DEF BlockGets
  <2>s. SendSize(o, Len(g) + 1) = IF Len(g) + 1 = 3 + w THEN o.len % 4 ELSE 4
    BY <1>1 DEF SendSize
  <2> HIDE DEF w
  <2>3. CASE Len(g) < 2
    <3>1. SimWants(o.cmd, g) = 2 BY <1>1, <2>3 DEF SimWants
    <3>2. GetSize(o.cmd, g) = 4 /\ SendSize(o, Len(g) + 1) = 4
      <4>1. GetSize(o.cmd, g) = 4 BY <2>3, <1>0 DEF GetSize
      <4>2. Len(g) + 1 # 3 + w BY <2>3, <2>u, <1>0
      <4> QED BY <4>1, <4>2, <2>s
    <3>3. Len(Sends(o)) >= 2 BY <2>1, <2>u
    <3>4. Len(g) < Len(Sends(o)) /\ Len(g) # Len(Sends(o)) BY <3>3, <2>3, <1>0
    <3>n. Len(g) # 2 BY <2>3, <1>0, SMTT(30)
    <3>5. Len(g) < SimWants(o.cmd, g) /\ Len(g) # SimWants(o.cmd, g) BY <3>1, <2>3, <3>n
    <3> QED BY <3>2, <3>4, <3>5
  <2>4. CASE Len(g) >= 2
    <3>1. g[2] = o.len BY <2>4, <2>1, <1>0 DEF PrefixOf
    <3>2. SimWants(o.cmd, g) = Len(Sends(o)) BY <1>1, <2>1, <2>2, <2>4, <1>0, <3>1 DEF SimWants
    <3>3. GetSize(o.cmd, g) = SendSize(o, Len(g) + 1)
      <4>1. GetSize(o.cmd, g) = IF Len(g) = 2 + w THEN o.len % 4 ELSE 4
        BY <1>1, <2>4, <3>1 DEF GetSize, w
      <4>2. (Len(g) + 1 = 3 + w) <=> (Len(g) = 2 + w) BY <2>u, <1>0
      <4> QED BY <4>1, <4>2, <2>s
    <3> QED BY <3>2, <3>3, <1>0 DEF PrefixOf
  <2> QED BY <2>3, <2>4, <1>0
<1>2. CASE o.cmd \notin BlockWrites
  <2>1. SimWants(o.cmd, g) = Len(Sends(o))
    <3>1. CASE o.cmd = CMD_WB_WR
      <4>0. Len(Sends(o)) = 2 + Len(o.data) BY <3>1, SendsFact
      <4>d. Len(o.data) = 1 BY <3>1 DEF StepOK
      <4>1. Len(Sends(o)) = 3 BY <4>0, <4>d
      <4> QED BY <3>1, <4>1 DEF SimWants
    <3>2. CASE o.cmd # CMD_WB_WR
      BY <1>2, <3>2, SendsFact, SMTT(30) DEF SimWants, Step
    <3> QED BY <3>1, <3>2
  <2>2. GetSize(o.cmd, g) = 4 /\ SendSize(o, Len(g) + 1) = 4
    BY <1>2 DEF GetSize, SendSize
  <2> QED BY <2>1, <2>2, <1>0
<1> QED BY <1>1, <1>2

\* A prefix that is as long as the parameters is the parameters.
LEMMA WholePrefix ==
  ASSUME NEW o, StepOK(o), NEW g, PrefixOf(g, o), Len(g) = Len(Sends(o))
  PROVE  g = Sends(o)
BY SendsFact, SeqEqual DEF PrefixOf

\* The simulation returns as many bytes as the server will read.
LEMMA SizesAgree ==
  ASSUME NEW o, StepOK(o), Reading(o.cmd)
  PROVE  ReturnSize(o.cmd, Sends(o)) = RecvSize(o)
BY SendsFact DEF ReturnSize, RecvSize, Reading

\* A sequence is empty or has a head.
LEMMA SeqFact ==
  ASSUME NEW S, NEW s \in Seq(S)
  PROVE  /\ Len(s) \in Nat
         /\ s = << >> <=> Len(s) = 0
         /\ s # << >> => /\ Head(s) = s[1] /\ Tail(s) \in Seq(S) /\ Len(Tail(s)) = Len(s) - 1
                         /\ \A i \in 1 .. Len(Tail(s)) : Tail(s)[i] = s[i + 1]
<1>1. Len(s) \in Nat BY LenProperties
<1>2. s = << >> <=> Len(s) = 0 BY EmptySeq
<1>3. s # << >> => Head(s) = s[1] OBVIOUS
<1> QED BY <1>1, <1>2, <1>3, HeadTailProperties

\* Reading the echo off vpi_to_rsp_pipe leaves the rest.
LEMMA HoldsEcho ==
  ASSUME NEW p, NEW D \in BOOLEAN, NEW R \in BOOLEAN, NEW a, NEW d, NEW r,
         Holds(p, TRUE, D, R, a, d, r)
  PROVE  Head(p) = a /\ Holds(Tail(p), FALSE, D, R, a, d, r)
<1>1. p \in Seq(PipeUnit) /\ Len(p) = 1 + One(D) + One(R) BY DEF Holds, One
<1> QED BY <1>1 DEF Holds, One

\* Reading the data leaves the response, if it is there.
LEMMA HoldsData ==
  ASSUME NEW p, NEW R \in BOOLEAN, NEW a, NEW d, NEW r,
         Holds(p, FALSE, TRUE, R, a, d, r)
  PROVE  Head(p) = d /\ Holds(Tail(p), FALSE, FALSE, R, a, d, r)
<1>1. p \in Seq(PipeUnit) /\ Len(p) = 1 + One(R) /\ p[1] = d /\ (R => p[2] = r) BY DEF Holds, One
<1>2. One(R) \in {0, 1} BY DEF One
<1>3. p # << >> BY <1>1, <1>2, SeqFact
<1>4. /\ Head(p) = p[1] /\ Tail(p) \in Seq(PipeUnit) /\ Len(Tail(p)) = One(R)
      /\ \A i \in 1 .. Len(Tail(p)) : Tail(p)[i] = p[i + 1]
  BY <1>1, <1>2, <1>3, SeqFact
<1>5. ASSUME R PROVE Tail(p)[1] = r
  <2>1. Len(Tail(p)) = 1 BY <1>4, <1>5 DEF One
  <2>2. 1 \in 1 .. Len(Tail(p)) BY <2>1
  <2>3. Tail(p)[1] = p[1 + 1] BY <1>4, <2>2
  <2>4. 1 + 1 = 2 OBVIOUS
  <2> QED BY <1>1, <1>5, <2>3, <2>4, Zenon
<1> QED BY <1>1, <1>4, <1>5 DEF Holds, One

\* Reading the response leaves nothing.
LEMMA HoldsResponse ==
  ASSUME NEW p, NEW a, NEW d, NEW r, Holds(p, FALSE, FALSE, TRUE, a, d, r)
  PROVE  Head(p) = r /\ Tail(p) = << >>
<1>1. p \in Seq(PipeUnit) /\ Len(p) = 1 /\ p[1] = r BY DEF Holds, One
<1>2. p # << >> BY <1>1, SeqFact
<1>3. Head(p) = p[1] /\ Tail(p) \in Seq(PipeUnit) /\ Len(Tail(p)) = 0 BY <1>1, <1>2, SeqFact
<1>4. Tail(p) = << >> BY <1>3, SeqFact
<1> QED BY <1>1, <1>3, <1>4

\* Nothing to read.
LEMMA HoldsNothing ==
  ASSUME NEW p, NEW a, NEW d, NEW r
  PROVE  Holds(p, FALSE, FALSE, FALSE, a, d, r) <=> p = << >>
<1>1. Holds(p, FALSE, FALSE, FALSE, a, d, r) <=> p \in Seq(PipeUnit) /\ Len(p) = 0
  BY DEF Holds, One
<1>2. << >> \in Seq(PipeUnit) /\ Len(<< >>) = 0 BY EmptySeq
<1> QED BY <1>1, <1>2, SeqFact

\* Writing the data.
LEMMA AppendData ==
  ASSUME NEW p, NEW A \in BOOLEAN, NEW a, NEW d \in PipeUnit, NEW r,
         Holds(p, A, FALSE, FALSE, a, d, r)
  PROVE  Holds(Append(p, d), A, TRUE, FALSE, a, d, r)
<1>1. p \in Seq(PipeUnit) /\ Len(p) = One(A) /\ (A => p[1] = a) BY DEF Holds, One
<1>2. One(A) \in {0, 1} /\ (A <=> One(A) = 1) BY DEF One
<1>3. Append(p, d) \in Seq(PipeUnit) /\ Len(Append(p, d)) = One(A) + 1
      /\ Append(p, d)[One(A) + 1] = d /\ (A => Append(p, d)[1] = a)
  BY <1>1, <1>2, AppendProperties
<1> QED BY <1>2, <1>3 DEF Holds, One

\* Writing the response.
LEMMA AppendResponse ==
  ASSUME NEW p, NEW A \in BOOLEAN, NEW D \in BOOLEAN, NEW a, NEW d, NEW r \in PipeUnit,
         Holds(p, A, D, FALSE, a, d, r)
  PROVE  Holds(Append(p, r), A, D, TRUE, a, d, r)
<1>1. p \in Seq(PipeUnit) /\ Len(p) = One(A) + One(D) BY DEF Holds, One
<1> QED BY <1>1 DEF Holds, One

-----------------------------------------------------------------------------
(* The types of what the simulation computes.                              *)

\* A word written leaves words in the cells.
LEMMA PutType ==
  ASSUME NEW f \in [Adr -> Word], NEW a, NEW w \in Word
  PROVE  Put(f, a, w) \in [Adr -> Word]
BY DEF Put

\* A word read is a natural number.
LEMMA CellType ==
  ASSUME NEW f \in [Adr -> Word], NEW a
  PROVE  Cell(f, a) \in Nat
<1>1. Word \subseteq Nat BY WordAssumption DEF Word
<1> QED BY <1>1 DEF Cell

-----------------------------------------------------------------------------
(* The server's programs.                                                  *)

\* Taking a program's first step leaves a program.
LEMMA SequencedTail ==
  ASSUME NEW t, Sequenced(t), t # << >>
  PROVE  /\ Head(t) = t[1] /\ StepOK(t[1]) /\ Sequenced(Tail(t))
         /\ IF Tail(t) = << >> THEN LeaveIr(t[1]) = JI_DEBUG
            ELSE Ready(Tail(t)[1], LeaveChain(t[1]), LeaveIr(t[1]))
<1>0. t \in Seq(Step) BY DEF Sequenced
<1> DEFINE u == Tail(t)
<1>1. /\ Len(t) \in Nat \ {0} /\ Head(t) = t[1] /\ u \in Seq(Step) /\ Len(u) = Len(t) - 1
      /\ \A i \in 1 .. Len(u) : u[i] = t[i + 1]
  BY <1>0, SeqFact
<1>2. StepOK(t[1]) BY <1>1 DEF Sequenced
<1>e. u = << >> <=> Len(u) = 0 BY <1>1, SeqFact
<1> HIDE DEF u
<1>3. \A i \in 1 .. Len(u) : StepOK(u[i])
  <2> SUFFICES ASSUME NEW i \in 1 .. Len(u) PROVE StepOK(u[i]) OBVIOUS
  <2>1. i + 1 \in 1 .. Len(t) /\ u[i] = t[i + 1] BY <1>1
  <2> QED BY <2>1 DEF Sequenced
<1>4. \A i \in 1 .. (Len(u) - 1) : Ready(u[i + 1], LeaveChain(u[i]), LeaveIr(u[i]))
  <2> SUFFICES ASSUME NEW i \in 1 .. (Len(u) - 1)
               PROVE Ready(u[i + 1], LeaveChain(u[i]), LeaveIr(u[i]))
    OBVIOUS
  <2>1. i + 1 \in 1 .. (Len(t) - 1) /\ i \in 1 .. Len(u) /\ i + 1 \in 1 .. Len(u) BY <1>1
  <2>2. u[i] = t[i + 1] /\ u[i + 1] = t[(i + 1) + 1] BY <1>1, <2>1
  <2>3. Ready(t[(i + 1) + 1], LeaveChain(t[i + 1]), LeaveIr(t[i + 1])) BY <2>1 DEF Sequenced
  <2> QED BY <2>2, <2>3
<1>5. u # << >> => LeaveIr(u[Len(u)]) = JI_DEBUG
  <2> SUFFICES ASSUME u # << >> PROVE LeaveIr(u[Len(u)]) = JI_DEBUG OBVIOUS
  <2>1. Len(u) \in 1 .. Len(u) /\ Len(u) + 1 = Len(t) BY <1>1, <1>e
  <2>2. u[Len(u)] = t[Len(t)] BY <1>1, <2>1
  <2> QED BY <2>2 DEF Sequenced
<1>6. IF u = << >> THEN LeaveIr(t[1]) = JI_DEBUG ELSE Ready(u[1], LeaveChain(t[1]), LeaveIr(t[1]))
  <2>1. CASE u = << >>
    <3>1. Len(t) = 1 BY <2>1, <1>1, <1>e
    <3> QED BY <2>1, <3>1 DEF Sequenced
  <2>2. CASE u # << >>
    <3>1. 1 \in 1 .. Len(u) /\ 1 \in 1 .. (Len(t) - 1) BY <2>2, <1>1, <1>e
    <3>2. u[1] = t[1 + 1] BY <3>1, <1>1
    <3>3. Ready(t[1 + 1], LeaveChain(t[1]), LeaveIr(t[1])) BY <3>1 DEF Sequenced
    <3> QED BY <2>2, <3>2, <3>3
  <2> QED BY <2>1, <2>2
<1>7. Sequenced(u) BY <1>1, <1>3, <1>4, <1>5 DEF Sequenced
<1> QED BY <1>1, <1>2, <1>6, <1>7 DEF u

\* A program the server may start whenever it is between functions.
Fresh(t) == t # << >> /\ NeedChain(t[1]) = AnyChain /\ NeedIr(t[1]) = JI_DEBUG

\* One program after another.
LEMMA SequencedConcat ==
  ASSUME NEW t, Sequenced(t), t # << >>, NEW u, Sequenced(u), Fresh(u)
  PROVE  Sequenced(t \o u) /\ t \o u # << >> /\ (t \o u)[1] = t[1]
<1> DEFINE w == t \o u
<1>0. t \in Seq(Step) /\ u \in Seq(Step) BY DEF Sequenced
<1>1. Len(t) \in Nat \ {0} /\ Len(u) \in Nat \ {0} BY <1>0, SeqFact DEF Fresh
<1>2. /\ w \in Seq(Step) /\ Len(w) = Len(t) + Len(u)
      /\ \A i \in 1 .. Len(t) + Len(u) : w[i] = IF i <= Len(t) THEN t[i] ELSE u[i - Len(t)]
  BY <1>0, ConcatProperties
<1> HIDE DEF w
<1>3. \A i \in 1 .. Len(t) : w[i] = t[i] BY <1>1, <1>2
<1>4. \A j \in 1 .. Len(u) : w[Len(t) + j] = u[j]
  <2> SUFFICES ASSUME NEW j \in 1 .. Len(u) PROVE w[Len(t) + j] = u[j] OBVIOUS
  <2>1. Len(t) + j \in 1 .. Len(t) + Len(u) /\ ~(Len(t) + j <= Len(t)) /\ (Len(t) + j) - Len(t) = j
    BY <1>1
  <2> QED BY <1>2, <2>1
<1>5. \A i \in 1 .. Len(w) : StepOK(w[i])
  <2> SUFFICES ASSUME NEW i \in 1 .. Len(w) PROVE StepOK(w[i]) OBVIOUS
  <2>1. CASE i <= Len(t) BY <1>1, <1>3, <2>1 DEF Sequenced
  <2>2. CASE i > Len(t)
    <3>1. i - Len(t) \in 1 .. Len(u) /\ Len(t) + (i - Len(t)) = i BY <1>1, <1>2, <2>2
    <3>2. w[i] = u[i - Len(t)] BY <1>4, <3>1
    <3> QED BY <3>1, <3>2 DEF Sequenced
  <2> QED BY <1>1, <1>2, <2>1, <2>2
<1>6. \A i \in 1 .. (Len(w) - 1) : Ready(w[i + 1], LeaveChain(w[i]), LeaveIr(w[i]))
  <2> SUFFICES ASSUME NEW i \in 1 .. (Len(w) - 1)
               PROVE  Ready(w[i + 1], LeaveChain(w[i]), LeaveIr(w[i]))
    OBVIOUS
  <2>1. CASE i < Len(t)
    <3>1. i \in 1 .. (Len(t) - 1) /\ i \in 1 .. Len(t) /\ i + 1 \in 1 .. Len(t) BY <1>1, <1>2, <2>1
    <3>2. w[i] = t[i] /\ w[i + 1] = t[i + 1] BY <1>3, <3>1
    <3>3. Ready(t[i + 1], LeaveChain(t[i]), LeaveIr(t[i])) BY <3>1 DEF Sequenced
    <3> QED BY <3>2, <3>3
  <2>2. CASE i = Len(t)
    <3>1. i \in 1 .. Len(t) /\ 1 \in 1 .. Len(u) BY <1>1, <2>2
    <3>2. w[i] = t[Len(t)] /\ w[i + 1] = u[1] BY <1>3, <1>4, <2>2, <3>1
    <3>3. LeaveIr(t[Len(t)]) = JI_DEBUG BY DEF Sequenced
    <3> QED BY <3>2, <3>3 DEF Fresh, Ready
  <2>3. CASE i > Len(t)
    <3> DEFINE j == i - Len(t)
    <3>1. /\ j \in 1 .. (Len(u) - 1) /\ j \in 1 .. Len(u) /\ j + 1 \in 1 .. Len(u)
          /\ Len(t) + j = i /\ Len(t) + (j + 1) = i + 1
      BY <1>1, <1>2, <2>3
    <3> HIDE DEF j
    <3>2. w[i] = u[j] /\ w[i + 1] = u[j + 1] BY <1>4, <3>1
    <3>3. Ready(u[j + 1], LeaveChain(u[j]), LeaveIr(u[j])) BY <3>1 DEF Sequenced
    <3> QED BY <3>2, <3>3
  <2> QED BY <1>1, <1>2, <2>1, <2>2, <2>3
<1>7. LeaveIr(w[Len(w)]) = JI_DEBUG
  <2>1. w[Len(w)] = u[Len(u)] BY <1>1, <1>2, <1>4
  <2> QED BY <2>1 DEF Sequenced, Fresh
<1>8. w # << >> /\ w[1] = t[1] BY <1>1, <1>2, <1>3, SeqFact
<1>9. Sequenced(w) BY <1>2, <1>5, <1>6, <1>7 DEF Sequenced
<1> QED BY <1>8, <1>9 DEF w

\* A program of one step that fit together.
LEMMA Sequenced1 ==
  ASSUME NEW x1, StepOK(x1),
         LeaveIr(x1) = JI_DEBUG
  PROVE  Sequenced(<<x1>>) /\ <<x1>> # << >> /\ <<x1>>[1] = x1
<1> DEFINE t == <<x1>>
<1>1. x1 \in Step BY DEF StepOK
<1>2. t \in Seq(Step) /\ Len(t) = 1 BY <1>1
<1>3. t[1] = x1 OBVIOUS
<1> HIDE DEF t
<1>4. \A i \in 1 .. 1 : StepOK(t[i]) BY <1>3
<1>5. \A i \in 1 .. 0 : Ready(t[i + 1], LeaveChain(t[i]), LeaveIr(t[i])) BY <1>3
<1>6. Sequenced(t) BY <1>2, <1>3, <1>4, <1>5 DEF Sequenced
<1>7. t # << >>
  <2>1. Len(<< >>) = 0 BY EmptySeq
  <2>2. Len(t) # 0 BY <1>2
  <2> QED BY <2>1, <2>2, Zenon
<1> QED BY <1>3, <1>6, <1>7 DEF t

\* A program of two steps that fit together.
LEMMA Sequenced2 ==
  ASSUME NEW x1, NEW x2, StepOK(x1), StepOK(x2),
         Ready(x2, LeaveChain(x1), LeaveIr(x1)),
         LeaveIr(x2) = JI_DEBUG
  PROVE  Sequenced(<<x1, x2>>) /\ <<x1, x2>> # << >> /\ <<x1, x2>>[1] = x1
<1> DEFINE t == <<x1, x2>>
<1>1. x1 \in Step /\ x2 \in Step BY DEF StepOK
<1>2. t \in Seq(Step) /\ Len(t) = 2 BY <1>1
<1>3. t[1] = x1 /\ t[2] = x2 OBVIOUS
<1> HIDE DEF t
<1>4. \A i \in 1 .. 2 : StepOK(t[i]) BY <1>3
<1>5. \A i \in 1 .. 1 : Ready(t[i + 1], LeaveChain(t[i]), LeaveIr(t[i])) BY <1>3
<1>6. Sequenced(t) BY <1>2, <1>3, <1>4, <1>5 DEF Sequenced
<1>7. t # << >>
  <2>1. Len(<< >>) = 0 BY EmptySeq
  <2>2. Len(t) # 0 BY <1>2
  <2> QED BY <2>1, <2>2, Zenon
<1> QED BY <1>3, <1>6, <1>7 DEF t

\* A program of three steps that fit together.
LEMMA Sequenced3 ==
  ASSUME NEW x1, NEW x2, NEW x3, StepOK(x1), StepOK(x2), StepOK(x3),
         Ready(x2, LeaveChain(x1), LeaveIr(x1)),
         Ready(x3, LeaveChain(x2), LeaveIr(x2)),
         LeaveIr(x3) = JI_DEBUG
  PROVE  Sequenced(<<x1, x2, x3>>) /\ <<x1, x2, x3>> # << >> /\ <<x1, x2, x3>>[1] = x1
<1> DEFINE t == <<x1, x2, x3>>
<1>1. x1 \in Step /\ x2 \in Step /\ x3 \in Step BY DEF StepOK
<1>2. t \in Seq(Step) /\ Len(t) = 3 BY <1>1
<1>3. t[1] = x1 /\ t[2] = x2 /\ t[3] = x3 OBVIOUS
<1> HIDE DEF t
<1>4. \A i \in 1 .. 3 : StepOK(t[i]) BY <1>3
<1>5. \A i \in 1 .. 2 : Ready(t[i + 1], LeaveChain(t[i]), LeaveIr(t[i])) BY <1>3
<1>6. Sequenced(t) BY <1>2, <1>3, <1>4, <1>5 DEF Sequenced
<1>7. t # << >>
  <2>1. Len(<< >>) = 0 BY EmptySeq
  <2>2. Len(t) # 0 BY <1>2
  <2> QED BY <2>1, <2>2, Zenon
<1> QED BY <1>3, <1>6, <1>7 DEF t

\* A program of four steps that fit together.
LEMMA Sequenced4 ==
  ASSUME NEW x1, NEW x2, NEW x3, NEW x4, StepOK(x1), StepOK(x2), StepOK(x3), StepOK(x4),
         Ready(x2, LeaveChain(x1), LeaveIr(x1)),
         Ready(x3, LeaveChain(x2), LeaveIr(x2)),
         Ready(x4, LeaveChain(x3), LeaveIr(x3)),
         LeaveIr(x4) = JI_DEBUG
  PROVE  Sequenced(<<x1, x2, x3, x4>>) /\ <<x1, x2, x3, x4>> # << >> /\ <<x1, x2, x3, x4>>[1] = x1
<1> DEFINE t == <<x1, x2, x3, x4>>
<1>1. x1 \in Step /\ x2 \in Step /\ x3 \in Step /\ x4 \in Step BY DEF StepOK
<1>2. t \in Seq(Step) /\ Len(t) = 4 BY <1>1
<1>3. t[1] = x1 /\ t[2] = x2 /\ t[3] = x3 /\ t[4] = x4 OBVIOUS
<1> HIDE DEF t
<1>4. \A i \in 1 .. 4 : StepOK(t[i]) BY <1>3
<1>5. \A i \in 1 .. 3 : Ready(t[i + 1], LeaveChain(t[i]), LeaveIr(t[i])) BY <1>3
<1>6. Sequenced(t) BY <1>2, <1>3, <1>4, <1>5 DEF Sequenced
<1>7. t # << >>
  <2>1. Len(<< >>) = 0 BY EmptySeq
  <2>2. Len(t) # 0 BY <1>2
  <2> QED BY <2>1, <2>2, Zenon
<1> QED BY <1>3, <1>6, <1>7 DEF t

\* A program of five steps that fit together.
LEMMA Sequenced5 ==
  ASSUME NEW x1, NEW x2, NEW x3, NEW x4, NEW x5, StepOK(x1), StepOK(x2), StepOK(x3), StepOK(x4), StepOK(x5),
         Ready(x2, LeaveChain(x1), LeaveIr(x1)),
         Ready(x3, LeaveChain(x2), LeaveIr(x2)),
         Ready(x4, LeaveChain(x3), LeaveIr(x3)),
         Ready(x5, LeaveChain(x4), LeaveIr(x4)),
         LeaveIr(x5) = JI_DEBUG
  PROVE  Sequenced(<<x1, x2, x3, x4, x5>>) /\ <<x1, x2, x3, x4, x5>> # << >> /\ <<x1, x2, x3, x4, x5>>[1] = x1
<1> DEFINE t == <<x1, x2, x3, x4, x5>>
<1>1. x1 \in Step /\ x2 \in Step /\ x3 \in Step /\ x4 \in Step /\ x5 \in Step BY DEF StepOK
<1>2. t \in Seq(Step) /\ Len(t) = 5 BY <1>1
<1>3. t[1] = x1 /\ t[2] = x2 /\ t[3] = x3 /\ t[4] = x4 /\ t[5] = x5 OBVIOUS
<1> HIDE DEF t
<1>4. \A i \in 1 .. 5 : StepOK(t[i]) BY <1>3
<1>5. \A i \in 1 .. 4 : Ready(t[i + 1], LeaveChain(t[i]), LeaveIr(t[i])) BY <1>3
<1>6. Sequenced(t) BY <1>2, <1>3, <1>4, <1>5 DEF Sequenced
<1>7. t # << >>
  <2>1. Len(<< >>) = 0 BY EmptySeq
  <2>2. Len(t) # 0 BY <1>2
  <2> QED BY <2>1, <2>2, Zenon
<1> QED BY <1>3, <1>6, <1>7 DEF t

USE DEF WbCommands, CpuCommands

\* Whatever the stub asks for is a well-formed step.
LEMMA CallsOK ==
  ASSUME NEW o \in Calls
  PROVE  StepOK(o) /\ o.cmd \in WbCommands \cup CpuCommands
<1>0. Word \subseteq Int /\ Adr \subseteq Nat /\ 0 \in Nat BY WordInt, AdrAssumption
<1>1. CASE \E c \in {CMD_WB_RD32, CMD_WB_RD8}, a \in Adr : o = Op(c, a, 0, << >>)
  BY <1>0, <1>1 DEF StepOK, Step, Op
<1>2. CASE \E a \in Adr, size \in {1, 2, 4}, w \in Word : o = Op(CMD_WB_WR, a, size, <<w>>)
  BY <1>0, <1>2 DEF StepOK, Step, Op
<1>3. CASE \E a \in Adr, l \in WbLen : o = Op(CMD_WB_BLOCK_RD32, a, l, << >>)
  BY <1>0, <1>3, LenAssumption DEF StepOK, Step, Op
<1>4. CASE \E a \in Adr, l \in CpuLen : o = Op(CMD_CPU_RD_REG, a, l, << >>)
  BY <1>0, <1>4, LenAssumption DEF StepOK, Step, Op
<1>5. ASSUME NEW l \in WbLen \cup CpuLen, NEW a \in Adr, NEW d \in [1 .. Units(l) -> Word],
             NEW c \in BlockWrites, o = Op(c, a, l, d)
      PROVE  StepOK(o) /\ o.cmd \in WbCommands \cup CpuCommands
  <2>1. l \in Nat /\ l >= 4 /\ Units(l) \in Nat /\ l \div 4 <= StorageWords
    BY LenAssumption, StorageAssumption, UnitsFact
  <2>2. d \in Seq(Word) /\ Len(d) = Units(l) BY <2>1
  <2>3. d \in Seq(Int)
    <3>1. d \in [1 .. Units(l) -> Int] BY <1>0
    <3> QED BY <2>1, <3>1
  <2> QED BY <1>0, <1>5, <2>1, <2>2, <2>3 DEF StepOK, Step, Op
<1>6. CASE \E x \in {0, 1} : o = Op(CMD_CPU_CTRL_WR, 0, 0, <<CtrlWord(x)>>)
  <2>1. CtrlWord(0) = 0 /\ CtrlWord(1) = 1 BY DEF CtrlWord
  <2> QED BY <1>0, <1>6, <2>1 DEF StepOK, Step, Op
<1>7. CASE o = Op(CMD_CPU_CTRL_RD, 0, 0, << >>)
  BY <1>0, <1>7 DEF StepOK, Step, Op
<1> QED
  <2> DEFINE Goal == StepOK(o) /\ o.cmd \in WbCommands \cup CpuCommands
  <2>1. o \in WordReads => Goal BY <1>1 DEF WordReads
  <2>2. ASSUME o \in WordWrites PROVE Goal
    <3>1. PICK a \in Adr, size \in {1, 2, 4}, w \in Word : o = Op(CMD_WB_WR, a, size, <<w>>)
      BY <2>2 DEF WordWrites
    <3> QED BY <1>2, <3>1
  <2>3. o \in ReadBlocks(CMD_WB_BLOCK_RD32, WbLen) => Goal BY <1>3 DEF ReadBlocks
  <2>4. o \in ReadBlocks(CMD_CPU_RD_REG, CpuLen) => Goal BY <1>4 DEF ReadBlocks
  <2>5. o \in CtrlWrites => Goal BY <1>6 DEF CtrlWrites
  <2>6. o = Op(CMD_CPU_CTRL_RD, 0, 0, << >>) => Goal BY <1>7
  <2>7. o \in WriteBlocks(CMD_WB_BLOCK_WR32, WbLen) => Goal BY <1>5 DEF WriteBlocks
  <2>8. o \in WriteBlocks(CMD_CPU_WR_REG, CpuLen) => Goal BY <1>5 DEF WriteBlocks
  <2> HIDE DEF Goal
  <2>9. Goal BY <2>1, <2>2, <2>3, <2>4, <2>5, <2>6, <2>7, <2>8 DEF Calls
  <2> QED BY <2>9 DEF Goal

\* Every access is a program the server may start between functions.
LEMMA ProgramOK ==
  ASSUME NEW o, StepOK(o), o.cmd \in WbCommands \cup CpuCommands
  PROVE  Sequenced(Program(o)) /\ Fresh(Program(o))
<1> DEFINE w == SetChain(DC_WISHBONE)  c == SetChain(DC_CPU0)  b == SetChain(DbgChain)
<1>1. /\ StepOK(w) /\ StepOK(c) /\ StepOK(b)
      /\ NeedChain(w) = AnyChain /\ NeedChain(c) = AnyChain /\ NeedChain(b) = DC_CPU0
      /\ LeaveChain(w) = DC_WISHBONE /\ LeaveChain(c) = DC_CPU0 /\ LeaveChain(b) = DC_CPU0
      /\ NeedIr(w) = JI_DEBUG /\ NeedIr(c) = JI_DEBUG /\ NeedIr(b) = JI_DEBUG
      /\ LeaveIr(w) = JI_DEBUG /\ LeaveIr(c) = JI_DEBUG /\ LeaveIr(b) = JI_DEBUG
  BY DEF StepOK, Step, SetChain, Op, NeedChain, LeaveChain, NeedIr, LeaveIr
<1>2. NeedIr(o) = JI_DEBUG /\ LeaveIr(o) = JI_DEBUG BY DEF NeedIr, LeaveIr
<1>3. /\ o.cmd \in WbCommands => NeedChain(o) = DC_WISHBONE /\ Program(o) = <<w, o>>
      /\ o.cmd \in CpuCommands => NeedChain(o) = DC_CPU0
      /\ o.cmd = CMD_CPU_CTRL_WR => Program(o) = <<c, b, o>>
      /\ o.cmd = CMD_CPU_CTRL_RD => Program(o) = <<c, b, b, o>>
      /\ o.cmd \in BlockWrites \cup BlockReads /\ o.cmd \in CpuCommands => Program(o) = <<c, o>>
  <2>1. o.cmd \in WbCommands => NeedChain(o) = DC_WISHBONE /\ Program(o) = <<w, o>>
    BY DEF NeedChain, Program
  <2>2. o.cmd \in CpuCommands => NeedChain(o) = DC_CPU0 BY DEF NeedChain
  <2>3. o.cmd = CMD_CPU_CTRL_WR => Program(o) = <<c, b, o>> BY DEF Program
  <2>4. o.cmd = CMD_CPU_CTRL_RD => Program(o) = <<c, b, b, o>> BY DEF Program
  <2>5. o.cmd \in BlockWrites \cup BlockReads /\ o.cmd \in CpuCommands => Program(o) = <<c, o>>
    BY DEF Program
  <2> QED BY <2>1, <2>2, <2>3, <2>4, <2>5
<1> HIDE DEF w, c, b
<1>4. CASE o.cmd \in WbCommands
  <2>1. Ready(o, LeaveChain(w), LeaveIr(w)) BY <1>1, <1>2, <1>3, <1>4 DEF Ready
  <2> QED BY <1>1, <1>2, <1>3, <1>4, <2>1, Sequenced2 DEF Fresh
<1>5. CASE o.cmd \in CpuCommands
  <2>1. /\ Ready(b, LeaveChain(c), LeaveIr(c)) /\ Ready(b, LeaveChain(b), LeaveIr(b))
        /\ Ready(o, LeaveChain(b), LeaveIr(b)) /\ Ready(o, LeaveChain(c), LeaveIr(c))
    BY <1>1, <1>2, <1>3, <1>5 DEF Ready
  <2>2. CASE o.cmd = CMD_CPU_CTRL_WR BY <1>1, <1>2, <1>3, <2>1, <2>2, Sequenced3 DEF Fresh
  <2>3. CASE o.cmd = CMD_CPU_CTRL_RD BY <1>1, <1>2, <1>3, <2>1, <2>3, Sequenced4, SMTT(30) DEF Fresh
  <2>4. CASE o.cmd \in BlockWrites \cup BlockReads
    BY <1>1, <1>2, <1>3, <1>5, <2>1, <2>4, Sequenced2 DEF Fresh
  <2> QED BY <1>5, <2>2, <2>3, <2>4
<1> QED BY <1>4, <1>5

\* run_rsp_server's start-up sequence is one program.
LEMMA StartUp ==
  LET t == dbg_reset \o dbg_test
  IN  Sequenced(t) /\ t # << >> /\ NeedChain(t[1]) = NoChain /\ NeedIr(t[1]) = AnyIr
<1> DEFINE r1 == Op(CMD_RESET, 0, 0, << >>)
           r2 == Op(CMD_JTAG_SET_IR, 0, 0, <<JI_IDCODE>>)
           r3 == Op(CMD_READ_JTAG_ID, 0, 0, << >>)
           r4 == Op(CMD_JTAG_SET_IR, 0, 0, <<JI_DEBUG>>)
           r5 == Op(FORGET_CHAIN, 0, 0, << >>)
           o1 == Op(CMD_CPU_CTRL_WR, 0, 0, <<CtrlWord(1)>>)
           o2 == Op(CMD_CPU_CTRL_RD, 0, 0, << >>)
           o3 == Op(CMD_CPU_RD_REG, NpcAdr, 12, << >>)
           o4 == Op(CMD_CPU_RD_REG, R1Adr, 4, << >>)
<1>1. StepOK(r1) /\ StepOK(r2) /\ StepOK(r3) /\ StepOK(r4) /\ StepOK(r5)
  BY DEF StepOK, Step, Op
<1>2. /\ Ready(r2, LeaveChain(r1), LeaveIr(r1)) /\ Ready(r3, LeaveChain(r2), LeaveIr(r2))
      /\ Ready(r4, LeaveChain(r3), LeaveIr(r3)) /\ Ready(r5, LeaveChain(r4), LeaveIr(r4))
      /\ LeaveIr(r5) = JI_DEBUG /\ NeedChain(r1) = NoChain /\ NeedIr(r1) = AnyIr
  BY DEF Ready, NeedChain, LeaveChain, NeedIr, LeaveIr, Op
<1>3. StepOK(o1) /\ StepOK(o2) /\ StepOK(o3) /\ StepOK(o4)
  <2>1. CtrlWord(1) = 1 BY DEF CtrlWord
  <2>2. NpcAdr \in Nat /\ R1Adr \in Nat BY AdrAssumption
  <2> QED BY <2>1, <2>2 DEF StepOK, Step, Op
<1>4. /\ o1.cmd \in WbCommands \cup CpuCommands /\ o2.cmd \in WbCommands \cup CpuCommands
      /\ o3.cmd \in WbCommands \cup CpuCommands /\ o4.cmd \in WbCommands \cup CpuCommands
  BY DEF Op
<1>5. dbg_reset = <<r1, r2, r3, r4, r5>> BY DEF dbg_reset
<1>6. dbg_test = ((Program(o1) \o Program(o2)) \o Program(o3)) \o Program(o4) BY DEF dbg_test
<1> HIDE DEF r1, r2, r3, r4, r5, o1, o2, o3, o4
<1>7. Sequenced(dbg_reset) /\ dbg_reset # << >> /\ dbg_reset[1] = r1
  BY <1>1, <1>2, <1>5, Sequenced5
<1>8. /\ Sequenced(Program(o1)) /\ Fresh(Program(o1)) /\ Sequenced(Program(o2)) /\ Fresh(Program(o2))
      /\ Sequenced(Program(o3)) /\ Fresh(Program(o3)) /\ Sequenced(Program(o4)) /\ Fresh(Program(o4))
  BY <1>3, <1>4, ProgramOK
<1> DEFINE t2 == Program(o1) \o Program(o2)  t3 == t2 \o Program(o3)  t4 == t3 \o Program(o4)
<1>9. Sequenced(t2) /\ Fresh(t2) BY <1>8, SequencedConcat DEF Fresh
<1> HIDE DEF t2
<1>10. Sequenced(t3) /\ Fresh(t3) BY <1>8, <1>9, SequencedConcat DEF Fresh
<1> HIDE DEF t3
<1>11. Sequenced(t4) /\ Fresh(t4) BY <1>8, <1>10, SequencedConcat DEF Fresh
<1>12. dbg_test = t4 BY <1>6 DEF t4, t3, t2
<1> HIDE DEF t4
<1> QED BY <1>2, <1>7, <1>11, <1>12, SequencedConcat

-----------------------------------------------------------------------------
(* The invariant holds initially.                                          *)

LEMMA InitInductive == Init => Inductive
<1> SUFFICES ASSUME Init PROVE Inductive OBVIOUS
<1>1. TypeOK
  <2>1. sigterm \in BOOLEAN /\ storage \in Seq(Nat) BY EmptySeq, Zenon DEF Init
  <2>2. /\ wb \in [Adr -> Word] /\ spr \in [Adr -> Word] BY DEF Init
  <2> QED BY <2>1, <2>2 DEF Init, TypeOK
<1>2. StepsOK BY StartUp DEF Init, StepsOK, HeldChain, HeldIr, Ready
<1>3. ChainKnown BY DEF Init, ChainKnown
<1>4. Lockstep BY DEF Init, Lockstep, Quiet
<1> QED BY <1>1, <1>2, <1>3, <1>4 DEF Inductive

-----------------------------------------------------------------------------
(* Every step keeps it.                                                    *)

\* What holds of the command in progress.
LEMMA InProgress ==
  ASSUME Inductive, rpc # "run"
  PROVE  /\ StepOK(op) /\ op.cmd # FORGET_CHAIN
         /\ Sends(op) \in Seq(Int) /\ Len(Sends(op)) \in Nat
         /\ ServerAt /\ (Posted \/ Taken) /\ sent \in 0 .. Len(Sends(op))
         /\ EchoUnit \in PipeUnit /\ DataUnit \in PipeUnit /\ ResponseUnit \in PipeUnit
<1>1. StepOK(op) /\ op.cmd # FORGET_CHAIN /\ op \in Step
  BY DEF Inductive, ChainKnown, StepOK
<1>2. Sends(op) \in Seq(Int) /\ Len(Sends(op)) \in Nat BY <1>1, SendsFact, LenProperties
<1>3. ServerAt /\ (Posted \/ Taken) BY DEF Inductive, Lockstep
<1>4. sent \in 0 .. Len(Sends(op))
  <2>1. sent \in Nat /\ rpc \in {"ack", "send", "recv", "resp", "exited"} BY DEF Inductive, TypeOK
  <2> QED BY <1>2, <1>3, <2>1 DEF ServerAt
<1>5. op.cmd \in Int /\ op.len \in Nat BY <1>1 DEF Step
<1>6. EchoUnit \in PipeUnit BY <1>5 DEF EchoUnit, PipeUnit, Unit
<1>7. ResponseUnit \in PipeUnit BY DEF ResponseUnit, PipeUnit, Unit
<1>8. DataUnit \in PipeUnit
  <2>1. storage \in Seq(Nat) BY DEF Inductive, TypeOK
  <2>2. storage \in Seq(Int)
    <3>1. Len(storage) \in Nat /\ storage \in [1 .. Len(storage) -> Nat] BY <2>1, LenProperties
    <3>2. storage \in [1 .. Len(storage) -> Int] BY <3>1
    <3> QED BY <3>1, <3>2
  <2>3. RecvSize(op) \in Nat BY <1>5 DEF RecvSize
  <2> QED BY <2>2, <2>3 DEF DataUnit, PipeUnit, Unit
<1> QED BY <1>1, <1>2, <1>3, <1>4, <1>6, <1>7, <1>8

\* Between commands the server may start a function.
LEMMA RspCallStep == Inductive /\ RspCall => Inductive'
<1> SUFFICES ASSUME Inductive, RspCall PROVE Inductive' OBVIOUS
<1> USE DEF RspCall, simVars, tgtVars
<1>1. TypeOK' BY DEF Inductive, TypeOK
<1>2. StepsOK'
  <2>1. HeldIr = JI_DEBUG /\ HeldIr' = HeldIr /\ rpc' = "run" BY DEF Inductive, StepsOK, HeldIr
  <2>2. Sequenced(todo') /\ Fresh(todo')
    <3>1. CASE \E o \in Calls : todo' = Program(o) BY <3>1, CallsOK, ProgramOK
    <3>2. CASE todo' = <<Op(CMD_GDB_DETACH, 0, 0, << >>)>>
      <4> DEFINE d == Op(CMD_GDB_DETACH, 0, 0, << >>)
      <4>1. StepOK(d) /\ LeaveIr(d) = JI_DEBUG /\ NeedIr(d) = JI_DEBUG /\ NeedChain(d) = AnyChain
        BY DEF StepOK, Step, LeaveIr, NeedIr, NeedChain, Op
      <4> HIDE DEF d
      <4>2. Sequenced(<<d>>) /\ <<d>> # << >> /\ <<d>>[1] = d BY <4>1, Sequenced1
      <4> QED BY <3>2, <4>1, <4>2 DEF Fresh, d
    <3> QED BY <3>1, <3>2
  <2> QED BY <2>1, <2>2 DEF StepsOK, Fresh, Ready
<1>3. ChainKnown' BY DEF Inductive, ChainKnown, Performed
<1>4. Lockstep' BY DEF Inductive, Lockstep, Quiet
<1> QED BY <1>1, <1>2, <1>3, <1>4 DEF Inductive

\* Steps that talk to nobody.
LEMMA RspLocalStep == Inductive /\ RspLocal => Inductive'
<1> SUFFICES ASSUME Inductive, RspLocal PROVE Inductive' OBVIOUS
<1> USE DEF RspLocal, simVars, tgtVars
<1>1. TypeOK' BY DEF Inductive, TypeOK
<1>0. /\ Head(todo) = todo[1] /\ StepOK(todo[1]) /\ Sequenced(todo')
      /\ IF todo' = << >> THEN LeaveIr(todo[1]) = JI_DEBUG
         ELSE Ready(todo'[1], LeaveChain(todo[1]), LeaveIr(todo[1]))
  BY SequencedTail DEF Inductive, StepsOK
<1>2. Ready(todo[1], current_chain, ir) BY DEF Inductive, StepsOK, HeldChain, HeldIr
<1>3. LeaveChain(todo[1]) = current_chain' /\ LeaveIr(todo[1]) = ir
  <2>1. CASE todo[1].cmd = FORGET_CHAIN
    <3>1. current_chain' = NoChain BY <1>0, <2>1
    <3>2. LeaveChain(todo[1]) = NoChain /\ LeaveIr(todo[1]) = NeedIr(todo[1]) /\ NeedIr(todo[1]) = JI_DEBUG
      BY <2>1 DEF LeaveChain, NeedChain, NeedIr, LeaveIr
    <3> QED BY <3>1, <3>2, <1>2 DEF Ready
  <2>2. CASE todo[1].cmd = CMD_SET_DEBUG_CHAIN
    <3>1. current_chain' = current_chain /\ current_chain = Wanted(todo[1]) BY <1>0, <2>2
    <3>2. LeaveIr(todo[1]) = ir BY <2>2, <1>2 DEF Ready, NeedIr, LeaveIr
    <3>3. CASE todo[1].data[1] = DbgChain
      BY <2>2, <3>1, <3>2, <3>3, <1>2 DEF Ready, LeaveChain, NeedChain
    <3>4. CASE todo[1].data[1] # DbgChain
      BY <2>2, <3>1, <3>2, <3>4 DEF LeaveChain, Wanted
    <3> QED BY <3>3, <3>4
  <2> QED BY <1>0, <2>1, <2>2
<1>4. StepsOK' BY <1>0, <1>3 DEF StepsOK, HeldChain, HeldIr
<1>5. ChainKnown' BY DEF Inductive, ChainKnown, Performed
<1>6. Lockstep' BY DEF Inductive, Lockstep, Quiet
<1> QED BY <1>1, <1>4, <1>5, <1>6 DEF Inductive

\* send_command_to_vpi
LEMMA RspCommandStep == Inductive /\ RspCommand => Inductive'
<1> SUFFICES ASSUME Inductive, RspCommand PROVE Inductive' OBVIOUS
<1> USE DEF RspCommand, simVars, tgtVars
<1>0. /\ Head(todo) = todo[1] /\ StepOK(todo[1]) /\ Sequenced(todo')
      /\ IF todo' = << >> THEN LeaveIr(todo[1]) = JI_DEBUG
         ELSE Ready(todo'[1], LeaveChain(todo[1]), LeaveIr(todo[1]))
  BY SequencedTail DEF Inductive, StepsOK
<1>1. Ready(todo[1], current_chain, ir) BY DEF Inductive, StepsOK, HeldChain, HeldIr
\* The command sent does what the step at hand was to do.
<1>2. /\ StepOK(op') /\ op'.cmd # FORGET_CHAIN
      /\ op'.cmd = CMD_SET_DEBUG_CHAIN => op'.data[1] # DbgChain /\ dbg_chain' = op'.data[1]
      /\ op'.cmd # CMD_SET_DEBUG_CHAIN => dbg_chain' = dbg_chain
      /\ NeedChain(op') \in {AnyChain, current_chain} /\ NeedIr(op') \in {AnyIr, ir}
      /\ LeaveChain(op') = LeaveChain(todo[1]) /\ LeaveIr(op') = LeaveIr(todo[1])
      /\ dbg_chain' \in {NoChain, DC_WISHBONE, DC_CPU0}
  <2>1. CASE todo[1].cmd = CMD_SET_DEBUG_CHAIN
    <3> DEFINE c == todo[1].data[1]
    <3>1. current_chain # Wanted(todo[1]) /\ op' = SetChain(Wanted(todo[1])) /\ dbg_chain' = Wanted(todo[1])
      BY <1>0, <2>1
    <3>2. c # DbgChain
      <4> SUFFICES ASSUME c = DbgChain PROVE FALSE OBVIOUS
      <4>1. NeedChain(todo[1]) = DC_CPU0 BY <2>1 DEF NeedChain
      <4>2. current_chain = DC_CPU0 BY <4>1, <1>1 DEF Ready
      <4>3. dbg_chain = current_chain BY <4>2 DEF Inductive, ChainKnown
      <4> QED BY <4>3, <3>1 DEF Wanted
    <3>3. c \in {DC_WISHBONE, DC_CPU0} BY <1>0, <2>1, <3>2 DEF StepOK
    <3>4. Wanted(todo[1]) = c BY <3>2 DEF Wanted
    <3> HIDE DEF c
    <3>5. op' = SetChain(c) /\ dbg_chain' = c BY <3>1, <3>4
    <3>6. /\ op'.cmd = CMD_SET_DEBUG_CHAIN /\ op'.data = <<c>> /\ op'.data[1] = c
          /\ StepOK(op')
      BY <3>3, <3>5 DEF SetChain, Op, StepOK, Step
    <3>7. NeedChain(op') = AnyChain /\ NeedIr(op') = JI_DEBUG /\ LeaveChain(op') = c /\ LeaveIr(op') = JI_DEBUG
      BY <3>2, <3>6 DEF NeedChain, NeedIr, LeaveChain, LeaveIr
    <3>8. LeaveChain(todo[1]) = c /\ LeaveIr(todo[1]) = JI_DEBUG /\ NeedIr(todo[1]) = JI_DEBUG
      BY <2>1, <3>2 DEF NeedIr, LeaveChain, LeaveIr, c
    <3> QED BY <1>1, <3>2, <3>3, <3>5, <3>6, <3>7, <3>8 DEF Ready
  <2>2. CASE todo[1].cmd \notin {CMD_SET_DEBUG_CHAIN, FORGET_CHAIN}
    <3>1. op' = todo[1] /\ dbg_chain' = dbg_chain BY <1>0, <2>2
    <3> QED BY <1>0, <1>1, <2>2, <3>1 DEF Ready, Inductive, TypeOK
  <2> QED BY <1>0, <2>1, <2>2
<1>3. TypeOK' BY <1>2 DEF Inductive, TypeOK
<1>4. StepsOK' BY <1>0, <1>2 DEF StepsOK, HeldChain, HeldIr
<1>5. /\ spc = "poll" /\ command_pipe = << >> /\ rsp_to_vpi_pipe = << >> /\ vpi_to_rsp_pipe = << >>
  BY DEF Inductive, Lockstep, Quiet
<1>6. command_pipe' = <<Unit(1, <<op'.cmd>>)>> BY <1>5
<1>7. Lockstep'
  <2>1. Posted' BY <1>5, <1>6 DEF Posted, EchoUnit
  <2>2. ServerAt' BY DEF ServerAt
  <2> QED BY <2>1, <2>2 DEF Lockstep
<1>8. ChainKnown'
  <2>1. ~Performed' BY <1>5, <1>6 DEF Performed
  <2>2. current_chain # NoChain => ir = JI_DEBUG /\ module = current_chain /\ dbg_chain = current_chain
    BY DEF Inductive, ChainKnown
  <2> QED BY <1>2, <2>1, <2>2 DEF ChainKnown
<1> QED BY <1>3, <1>4, <1>7, <1>8 DEF Inductive

\* Steps that touch neither the dialogue nor the TAP.
LEMMA ApartStep ==
  Inductive /\ (RspKilled \/ SimFinish \/ CpuRun \/ UNCHANGED vars) => Inductive'
<1> DEFINE kept == <<rpc, todo, op, sent, current_chain, dbg_chain, spc, cmd, got, storage,
                     command_pipe, rsp_to_vpi_pipe, vpi_to_rsp_pipe, ir, module>>
<1> SUFFICES ASSUME Inductive, RspKilled \/ SimFinish \/ CpuRun \/ UNCHANGED vars PROVE Inductive' OBVIOUS
<1>1. UNCHANGED kept
  BY DEF RspKilled, SimFinish, CpuRun, vars, rspVars, simVars, tgtVars
<1>2. TypeOK'
  <2>1. CASE RspKilled BY <2>1 DEF RspKilled, Inductive, TypeOK, simVars, tgtVars
  <2>2. CASE SimFinish BY <2>2 DEF SimFinish, Inductive, TypeOK, rspVars, tgtVars
  <2>3. CASE CpuRun
    <3>1. ctrl \in 0 .. 3 /\ (ctrl % 2 = 0 => ctrl + 1 \in 0 .. 3) BY DEF Inductive, TypeOK
    <3>2. ctrl' \in 0 .. 3 /\ wb' \in [Adr -> Word] BY <2>3, <3>1 DEF CpuRun, Inductive, TypeOK
    <3> QED BY <2>3, <3>2 DEF CpuRun, Inductive, TypeOK, rspVars, simVars
  <2>4. CASE UNCHANGED vars BY <2>4 DEF Inductive, TypeOK, vars, rspVars, simVars, tgtVars
  <2> QED BY <2>1, <2>2, <2>3, <2>4
<1>3. StepsOK' BY <1>1 DEF Inductive, StepsOK, HeldChain, HeldIr
<1>4. ChainKnown' BY <1>1 DEF Inductive, ChainKnown, Performed
<1>5. Lockstep'
  <2>1. (EchoUnit' = EchoUnit) /\ (DataUnit' = DataUnit) /\ (ResponseUnit' = ResponseUnit)
    BY <1>1 DEF EchoUnit, DataUnit, ResponseUnit
  <2>2. (Params' <=> Params) /\ (ServerAt' <=> ServerAt) /\ (Posted' <=> Posted) /\ (Quiet' <=> Quiet)
    BY <1>1, <2>1 DEF Params, ServerAt, Posted, Quiet
  <2>3. Taken => Taken' BY <1>1, <2>1, <2>2 DEF Taken
  <2> QED BY <1>1, <2>2, <2>3 DEF Inductive, Lockstep
<1> QED BY <1>2, <1>3, <1>4, <1>5 DEF Inductive

\* Steps within a dialogue leave the program and the TAP alone.
LEMMA Within ==
  ASSUME Inductive, rpc # "run", rpc' # "run", Performed' <=> Performed,
         UNCHANGED <<todo, op, current_chain, dbg_chain, ir, module>>
  PROVE  StepsOK' /\ ChainKnown'
<1>1. StepsOK' BY DEF Inductive, StepsOK, HeldChain, HeldIr
<1>2. ChainKnown' BY DEF Inductive, ChainKnown
<1> QED BY <1>1, <1>2

\* Is the data of a reading command in vpi_to_rsp_pipe?
HasData == Reading(cmd) /\ rpc \in {"ack", "recv"} /\ spc \in {"resp", "poll"}

\* The server reads only once the simulation has taken the command.
LEMMA ReadsTaken ==
  ASSUME Inductive, rpc # "run", vpi_to_rsp_pipe # << >>
  PROVE  /\ Taken /\ HasData \in BOOLEAN /\ (rpc = "ack") \in BOOLEAN
         /\ \E R \in BOOLEAN :
              /\ spc # "quit" => R = (spc = "poll")
              /\ Holds(vpi_to_rsp_pipe, rpc = "ack", HasData, R, EchoUnit, DataUnit, ResponseUnit)
<1>1. Taken BY InProgress DEF Posted
<1>2. HasData \in BOOLEAN /\ (rpc = "ack") \in BOOLEAN BY Zenon DEF HasData
<1> QED BY <1>1, <1>2, Zenon DEF Taken, HasData

\* The acknowledgement is the echo of the command.
LEMMA RspAckStep == Inductive /\ RspAck => Inductive'
<1> SUFFICES ASSUME Inductive, RspAck PROVE Inductive' OBVIOUS
<1> USE DEF simVars, tgtVars
<1>0. /\ rpc = "ack" /\ vpi_to_rsp_pipe # << >> /\ vpi_to_rsp_pipe' = Tail(vpi_to_rsp_pipe)
      /\ UNCHANGED <<todo, op, sent, current_chain, dbg_chain, spc, cmd, got, storage, ir, module,
                      command_pipe, rsp_to_vpi_pipe>>
  BY DEF RspAck
<1>1. /\ StepOK(op) /\ ServerAt /\ Len(Sends(op)) \in Nat
      /\ EchoUnit \in PipeUnit /\ DataUnit \in PipeUnit /\ ResponseUnit \in PipeUnit
  BY <1>0, InProgress
<1>2. Taken /\ HasData \in BOOLEAN BY <1>0, ReadsTaken
<1>3. PICK R \in BOOLEAN :
        /\ spc # "quit" => R = (spc = "poll")
        /\ Holds(vpi_to_rsp_pipe, TRUE, HasData, R, EchoUnit, DataUnit, ResponseUnit)
  <2>1. (rpc = "ack") = TRUE BY <1>0
  <2> QED BY <1>0, <2>1, ReadsTaken
<1>4. /\ Head(vpi_to_rsp_pipe) = EchoUnit
      /\ Holds(vpi_to_rsp_pipe', FALSE, HasData, R, EchoUnit, DataUnit, ResponseUnit)
  BY <1>0, <1>2, <1>3, HoldsEcho, Zenon
<1>5. rpc' = IF op.cmd = CMD_GDB_DETACH THEN "exited" ELSE AfterSend(op, 0)
  <2>1. Head(vpi_to_rsp_pipe).v = <<op.cmd>> BY <1>4 DEF EchoUnit, Unit
  <2> QED BY <2>1 DEF RspAck
<1>6. rpc' # "ack" /\ rpc' # "run" /\ rpc' \in {"send", "recv", "resp", "exited"}
  BY <1>5 DEF AfterSend
<1>7. sent = 0 /\ (spc # "get" => Len(Sends(op)) = 0) /\ cmd = op.cmd
  BY <1>0, <1>1, <1>2 DEF ServerAt, Taken
<1>8. TypeOK'
  <2>1. rsp' \in {"up", "down"} BY DEF RspAck, Inductive, TypeOK
  <2> QED BY <1>0, <1>6, <2>1 DEF RspAck, Inductive, TypeOK
<1>9. StepsOK' /\ ChainKnown' BY <1>0, <1>6, Within DEF Performed
<1>10. ServerAt' BY <1>0, <1>1, <1>5, <1>7 DEF ServerAt, AfterSend, Reading
<1>11. HasData' <=> HasData
  BY <1>0, <1>5, <1>7 DEF HasData, AfterSend, Reading
<1>12. Taken'
  <2>1. Params => Params' BY <1>0 DEF Params
  <2>2. (rpc = "resp" /\ Reading(cmd))' => (spc \in {"resp", "poll"})'
    BY <1>0, <1>5, <1>7, <1>1 DEF AfterSend, Reading
  <2>3. EchoUnit' = EchoUnit /\ DataUnit' = DataUnit /\ ResponseUnit' = ResponseUnit
    BY <1>0 DEF EchoUnit, DataUnit, ResponseUnit
  <2>4. Holds(vpi_to_rsp_pipe', rpc' = "ack", HasData', R, EchoUnit', DataUnit', ResponseUnit')
    <3>1. (rpc' = "ack") = FALSE BY <1>6
    <3>2. HasData' = HasData BY <1>2, <1>11, Zenon DEF HasData
    <3> QED BY <1>4, <2>3, <3>1, <3>2, Zenon
  <2>5. spc' # "quit" => R = (spc' = "poll") BY <1>0, <1>3
  <2> QED BY <1>0, <1>2, <2>1, <2>2, <2>4, <2>5 DEF Taken, HasData
<1> QED BY <1>6, <1>8, <1>9, <1>10, <1>12 DEF Inductive, Lockstep

\* A parameter is written while the simulation gets parameters.
LEMMA RspSendStep == Inductive /\ RspSend => Inductive'
<1> SUFFICES ASSUME Inductive, RspSend PROVE Inductive' OBVIOUS
<1> USE DEF simVars, tgtVars
<1> DEFINE u == Unit(SendSize(op, sent + 1), <<Sends(op)[sent + 1]>>)
<1>0. /\ rpc = "send" /\ rsp_to_vpi_pipe' = Append(rsp_to_vpi_pipe, u)
      /\ sent' = sent + 1 /\ rpc' = AfterSend(op, sent + 1)
      /\ UNCHANGED <<todo, op, current_chain, dbg_chain, spc, cmd, got, storage, ir, module,
                      command_pipe, vpi_to_rsp_pipe>>
  BY DEF RspSend
<1>1. /\ StepOK(op) /\ ServerAt /\ Sends(op) \in Seq(Int) /\ Len(Sends(op)) \in Nat
      /\ sent \in Nat /\ sent < Len(Sends(op)) /\ op.cmd # CMD_GDB_DETACH /\ Taken
  BY <1>0, InProgress DEF ServerAt, Posted
<1>2. spc = "get" /\ Params /\ cmd = op.cmd /\ command_pipe = << >> BY <1>1 DEF Taken
<1>3. rpc' \in {"send", "recv", "resp"} BY <1>0 DEF AfterSend
<1>4. TypeOK' BY <1>0, <1>1, <1>3 DEF RspSend, Inductive, TypeOK
<1>5. StepsOK' /\ ChainKnown' BY <1>0, <1>3, Within DEF Performed
<1>6. ServerAt' BY <1>0, <1>1, <1>3 DEF ServerAt, AfterSend
<1>7. u \in PipeUnit
  <2>1. Sends(op)[sent + 1] \in Int BY <1>1, ElementOfSeq
  <2>2. op.len \in Nat BY <1>1 DEF StepOK, Step
  <2>3. SendSize(op, sent + 1) \in Nat BY <2>2, UnitsFact DEF SendSize
  <2> QED BY <2>1, <2>3 DEF Unit, PipeUnit
<1>8. Params'
  <2>1. /\ got \in Seq(Int) /\ Len(got) \in Nat
        /\ rsp_to_vpi_pipe \in Seq(PipeUnit) /\ Len(rsp_to_vpi_pipe) \in Nat
        /\ Len(got) + Len(rsp_to_vpi_pipe) = sent
    BY <1>2, LenProperties DEF Params
  <2> HIDE DEF u
  <2>2. /\ rsp_to_vpi_pipe' \in Seq(PipeUnit) /\ Len(rsp_to_vpi_pipe') = Len(rsp_to_vpi_pipe) + 1
        /\ \A k \in 1 .. Len(rsp_to_vpi_pipe) : rsp_to_vpi_pipe'[k] = rsp_to_vpi_pipe[k]
        /\ rsp_to_vpi_pipe'[Len(rsp_to_vpi_pipe) + 1] = u
    BY <1>0, <1>7, <2>1, AppendProperties
  <2>3. ASSUME NEW k \in 1 .. Len(rsp_to_vpi_pipe')
        PROVE  rsp_to_vpi_pipe'[k] = Unit(SendSize(op, Len(got) + k), <<Sends(op)[Len(got) + k]>>)
    <3>1. CASE k \in 1 .. Len(rsp_to_vpi_pipe) BY <1>2, <2>2, <3>1 DEF Params
    <3>2. CASE k = Len(rsp_to_vpi_pipe) + 1
      <4>1. Len(got) + k = sent + 1 BY <2>1, <3>2
      <4> QED BY <2>2, <3>2, <4>1 DEF u
    <3> QED BY <2>1, <2>2, <3>1, <3>2
  <2>4. Len(got) + Len(rsp_to_vpi_pipe') = sent' BY <1>0, <2>1, <2>2
  <2> QED BY <1>0, <1>2, <2>1, <2>2, <2>3, <2>4 DEF Params
<1>9. Taken'
  <2>1. HasData = FALSE /\ HasData' = FALSE /\ (rpc = "ack") = FALSE /\ (rpc' = "ack") = FALSE
        /\ (spc = "poll") = FALSE
    BY <1>0, <1>2, <1>3 DEF HasData
  <2>2. Holds(vpi_to_rsp_pipe, FALSE, FALSE, FALSE, EchoUnit, DataUnit, ResponseUnit)
    BY <1>1, <1>2, <2>1 DEF Taken, HasData
  <2>3. EchoUnit' = EchoUnit /\ DataUnit' = DataUnit /\ ResponseUnit' = ResponseUnit
    BY <1>0 DEF EchoUnit, DataUnit, ResponseUnit
  <2>4. Holds(vpi_to_rsp_pipe', rpc' = "ack", HasData', FALSE, EchoUnit', DataUnit', ResponseUnit')
    BY <1>0, <2>1, <2>2, <2>3, Zenon
  <2>5. ~(rpc = "resp" /\ Reading(cmd))' BY <1>0, <1>2 DEF AfterSend, Reading
  <2> QED BY <1>0, <1>1, <1>2, <1>8, <2>1, <2>4, <2>5 DEF Taken, HasData
<1> QED BY <1>3, <1>4, <1>5, <1>6, <1>9 DEF Inductive, Lockstep

\* The data read is the data the simulation returned.
LEMMA RspRecvStep == Inductive /\ RspRecv => Inductive'
<1> SUFFICES ASSUME Inductive, RspRecv PROVE Inductive' OBVIOUS
<1> USE DEF simVars, tgtVars
<1>0. /\ rpc = "recv" /\ rpc' = "resp" /\ vpi_to_rsp_pipe # << >>
      /\ vpi_to_rsp_pipe' = Tail(vpi_to_rsp_pipe)
      /\ UNCHANGED <<todo, op, sent, current_chain, dbg_chain, spc, cmd, got, storage, ir, module,
                      command_pipe, rsp_to_vpi_pipe>>
  BY DEF RspRecv
<1>1. ServerAt /\ op.cmd # CMD_GDB_DETACH BY <1>0, InProgress DEF ServerAt
<1>2. Taken /\ HasData \in BOOLEAN BY <1>0, ReadsTaken
<1>3. spc # "quit" /\ cmd = op.cmd /\ Reading(cmd) BY <1>0, <1>1, <1>2 DEF Taken, ServerAt
<1>4. Holds(vpi_to_rsp_pipe, FALSE, HasData, spc = "poll", EchoUnit, DataUnit, ResponseUnit)
  <2>1. (rpc = "ack") = FALSE BY <1>0
  <2> QED BY <1>0, <1>3, <2>1, ReadsTaken, Zenon
<1>5. HasData
  <2> SUFFICES ASSUME ~HasData PROVE FALSE OBVIOUS
  <2>1. HasData = FALSE /\ (spc = "poll") = FALSE BY <1>0, <1>3 DEF HasData
  <2>2. Holds(vpi_to_rsp_pipe, FALSE, FALSE, FALSE, EchoUnit, DataUnit, ResponseUnit)
    BY <1>4, <2>1, Zenon
  <2> QED BY <1>0, <2>2, HoldsNothing
<1>6. Holds(vpi_to_rsp_pipe', FALSE, FALSE, spc = "poll", EchoUnit, DataUnit, ResponseUnit)
  <2>1. HasData = TRUE /\ (spc = "poll") \in BOOLEAN BY <1>2, <1>5, Zenon
  <2>2. Holds(vpi_to_rsp_pipe, FALSE, TRUE, spc = "poll", EchoUnit, DataUnit, ResponseUnit)
    BY <1>4, <2>1, Zenon
  <2> QED BY <1>0, <2>1, <2>2, HoldsData, Zenon
<1>7. TypeOK' BY <1>0 DEF RspRecv, Inductive, TypeOK
<1>8. StepsOK' /\ ChainKnown' BY <1>0, Within DEF Performed
<1>9. ServerAt' BY <1>0, <1>1 DEF ServerAt
<1>10. Taken'
  <2>1. Params => Params' BY <1>0 DEF Params
  <2>2. spc \in {"resp", "poll"} BY <1>5 DEF HasData
  <2>3. EchoUnit' = EchoUnit /\ DataUnit' = DataUnit /\ ResponseUnit' = ResponseUnit
    BY <1>0 DEF EchoUnit, DataUnit, ResponseUnit
  <2>4. HasData' = FALSE /\ (rpc' = "ack") = FALSE BY <1>0 DEF HasData
  <2>5. Holds(vpi_to_rsp_pipe', rpc' = "ack", HasData', spc' = "poll", EchoUnit', DataUnit', ResponseUnit')
    BY <1>0, <1>6, <2>3, <2>4, Zenon
  <2> QED BY <1>0, <1>2, <1>3, <2>1, <2>2, <2>5 DEF Taken, HasData
<1> QED BY <1>0, <1>7, <1>8, <1>9, <1>10 DEF Inductive, Lockstep

\* The response ends the dialogue.
LEMMA RspResponseStep == Inductive /\ RspResponse => Inductive'
<1> SUFFICES ASSUME Inductive, RspResponse PROVE Inductive' OBVIOUS
<1> USE DEF simVars, tgtVars
<1>0. /\ rpc = "resp" /\ rpc' = "run" /\ vpi_to_rsp_pipe # << >>
      /\ vpi_to_rsp_pipe' = Tail(vpi_to_rsp_pipe) /\ sent' = 0
      /\ current_chain' = IF op.cmd = CMD_SET_DEBUG_CHAIN THEN op.data[1] ELSE current_chain
      /\ UNCHANGED <<todo, dbg_chain, spc, cmd, got, storage, ir, module,
                      command_pipe, rsp_to_vpi_pipe>>
  BY DEF RspResponse
<1>1. StepOK(op) /\ ServerAt /\ op.cmd # CMD_GDB_DETACH /\ op.cmd # FORGET_CHAIN
  BY <1>0, InProgress DEF ServerAt
<1>2. Taken BY <1>0, ReadsTaken
<1>3. spc # "quit" /\ command_pipe = << >> BY <1>1, <1>2 DEF Taken
<1>4. Holds(vpi_to_rsp_pipe, FALSE, FALSE, spc = "poll", EchoUnit, DataUnit, ResponseUnit)
  <2>1. (rpc = "ack") = FALSE /\ HasData = FALSE BY <1>0 DEF HasData
  <2> QED BY <1>0, <1>3, <2>1, ReadsTaken, Zenon
<1>5. spc = "poll"
  <2> SUFFICES ASSUME spc # "poll" PROVE FALSE OBVIOUS
  <2>1. (spc = "poll") = FALSE OBVIOUS
  <2>2. Holds(vpi_to_rsp_pipe, FALSE, FALSE, FALSE, EchoUnit, DataUnit, ResponseUnit)
    BY <1>4, <2>1, Zenon
  <2> QED BY <1>0, <2>2, HoldsNothing
<1>6. vpi_to_rsp_pipe' = << >>
  <2>1. (spc = "poll") = TRUE BY <1>5
  <2>2. Holds(vpi_to_rsp_pipe, FALSE, FALSE, TRUE, EchoUnit, DataUnit, ResponseUnit)
    BY <1>4, <2>1, Zenon
  <2> QED BY <1>0, <2>2, HoldsResponse
<1>7. rsp_to_vpi_pipe = << >> BY <1>2, <1>5 DEF Taken
<1>8. Performed /\ ir = LeaveIr(op) BY <1>0, <1>3, <1>5 DEF Performed, Inductive, ChainKnown
<1>9. current_chain' = LeaveChain(op)
  <2>1. CASE op.cmd = CMD_SET_DEBUG_CHAIN
    BY <1>0, <2>1 DEF LeaveChain, Inductive, ChainKnown
  <2>2. CASE op.cmd # CMD_SET_DEBUG_CHAIN
    <3>1. NeedChain(op) # AnyChain BY <1>1, <2>2 DEF NeedChain
    <3>2. NeedChain(op) = current_chain BY <1>0, <3>1 DEF Inductive, ChainKnown
    <3> QED BY <1>0, <2>2, <3>2 DEF LeaveChain
  <2> QED BY <2>1, <2>2
<1>10. TypeOK'
  <2>1. current_chain' \in {NoChain, DC_WISHBONE, DC_CPU0}
    <3>1. CASE op.cmd = CMD_SET_DEBUG_CHAIN
      <4>1. op.data[1] \in {DC_WISHBONE, DC_CPU0, DbgChain} /\ op.data[1] # DbgChain
        BY <1>0, <1>1, <3>1 DEF StepOK, Inductive, ChainKnown
      <4> QED BY <1>0, <3>1, <4>1
    <3>2. CASE op.cmd # CMD_SET_DEBUG_CHAIN BY <1>0, <3>2 DEF Inductive, TypeOK
    <3> QED BY <3>1, <3>2
  <2> QED BY <1>0, <2>1 DEF RspResponse, Inductive, TypeOK
<1>11. StepsOK' BY <1>0, <1>8, <1>9 DEF Inductive, StepsOK, HeldChain, HeldIr
<1>12. ChainKnown'
  <2>1. CASE op.cmd = CMD_SET_DEBUG_CHAIN
    <3>1. ir = JI_DEBUG BY <1>8, <2>1 DEF LeaveIr, NeedIr
    <3>2. dbg_chain = op.data[1] /\ module = op.data[1] BY <1>0, <1>8, <2>1 DEF Inductive, ChainKnown
    <3> QED BY <1>0, <2>1, <3>1, <3>2 DEF ChainKnown
  <2>2. CASE op.cmd # CMD_SET_DEBUG_CHAIN BY <1>0, <2>2 DEF Inductive, ChainKnown
  <2> QED BY <2>1, <2>2
<1>13. Lockstep' BY <1>0, <1>3, <1>5, <1>6, <1>7 DEF Lockstep, Quiet
<1> QED BY <1>10, <1>11, <1>12, <1>13 DEF Inductive

\* The simulation is in the middle of a command only when the server is.
LEMMA SimBusy ==
  ASSUME Inductive, spc # "poll"
  PROVE  rpc # "run" /\ Taken
<1>1. rpc # "run" BY DEF Inductive, Lockstep, Quiet
<1> QED BY <1>1, InProgress DEF Posted

\* The command found in command_pipe is the one the server posted.
LEMMA SimPollStep == Inductive /\ SimPoll => Inductive'
<1> SUFFICES ASSUME Inductive, SimPoll PROVE Inductive' OBVIOUS
<1> USE DEF rspVars, tgtVars
<1>0. /\ spc = "poll" /\ command_pipe # << >> /\ spc' = "get" /\ got' = << >>
      /\ storage' = << >> /\ word_pointer' = 0
      /\ cmd' = Head(command_pipe).v[1] /\ command_pipe' = Tail(command_pipe)
      /\ vpi_to_rsp_pipe' = Append(vpi_to_rsp_pipe, Unit(1, <<cmd'>>))
      /\ UNCHANGED <<rpc, todo, op, sent, current_chain, dbg_chain, ir, module, rsp_to_vpi_pipe>>
  BY DEF SimPoll
<1>1. rpc # "run" BY <1>0 DEF Inductive, Lockstep, Quiet
<1>2. ServerAt /\ Posted /\ EchoUnit \in PipeUnit /\ op.cmd # FORGET_CHAIN
  BY <1>0, <1>1, InProgress DEF Taken
<1>3. command_pipe = <<EchoUnit>> /\ rsp_to_vpi_pipe = << >> /\ vpi_to_rsp_pipe = << >> /\ rpc = "ack"
  BY <1>2 DEF Posted
<1>4. cmd' = op.cmd /\ command_pipe' = << >>
  <2>1. EchoUnit.v[1] = op.cmd BY DEF EchoUnit, Unit
  <2> QED BY <1>0, <1>3, <2>1
<1>5. vpi_to_rsp_pipe' = <<EchoUnit>> BY <1>0, <1>3, <1>4 DEF EchoUnit
<1>6. TypeOK'
  <2>1. storage' \in Seq(Nat) BY <1>0, EmptySeq
  <2> QED BY <1>0, <2>1 DEF SimPoll, Inductive, TypeOK
<1>7. StepsOK' /\ ChainKnown'
  <2>1. ~Performed /\ ~Performed' BY <1>0 DEF Performed
  <2> QED BY <1>0, <1>1, <2>1, Within
<1>8. ServerAt' BY <1>0, <1>2 DEF ServerAt
<1>9. Params'
  <2>1. sent = 0 BY <1>2, <1>3 DEF ServerAt
  <2>2. << >> \in Seq(Int) /\ << >> \in Seq(PipeUnit) /\ Len(<< >>) = 0 BY EmptySeq
  <2> QED BY <1>0, <1>3, <2>1, <2>2 DEF Params
<1>10. Taken'
  <2>1. EchoUnit' = EchoUnit BY <1>0 DEF EchoUnit
  <2>2. Holds(<<EchoUnit>>, TRUE, FALSE, FALSE, EchoUnit, DataUnit', ResponseUnit')
    BY <1>2 DEF Holds, One
  <2>3. (rpc' = "ack") = TRUE /\ HasData' = FALSE /\ (spc' = "poll") = FALSE
    BY <1>0, <1>3 DEF HasData
  <2>4. Holds(vpi_to_rsp_pipe', rpc' = "ack", HasData', FALSE, EchoUnit', DataUnit', ResponseUnit')
    BY <1>5, <2>1, <2>2, <2>3, Zenon
  <2> QED BY <1>0, <1>3, <1>4, <1>9, <2>3, <2>4 DEF Taken, HasData
<1> QED BY <1>0, <1>1, <1>6, <1>7, <1>8, <1>10 DEF Inductive, Lockstep

\* A parameter moves from the pipe to the simulation.
LEMMA SimGetStep == Inductive /\ SimGet => Inductive'
<1> SUFFICES ASSUME Inductive, SimGet PROVE Inductive' OBVIOUS
<1> USE DEF rspVars, tgtVars
<1>0. /\ spc = "get" /\ rsp_to_vpi_pipe # << >> /\ got' = got \o Head(rsp_to_vpi_pipe).v
      /\ rsp_to_vpi_pipe' = Tail(rsp_to_vpi_pipe)
      /\ UNCHANGED <<rpc, todo, op, sent, current_chain, dbg_chain, ir, module, spc, cmd, storage,
                      command_pipe, vpi_to_rsp_pipe>>
  BY DEF SimGet
<1>1. rpc # "run" /\ Taken BY <1>0, SimBusy
<1>2. Params BY <1>0, <1>1 DEF Taken
<1>3. ServerAt /\ Sends(op) \in Seq(Int) /\ Len(Sends(op)) \in Nat /\ sent \in 0 .. Len(Sends(op))
  BY <1>1, InProgress
<1> DEFINE p == rsp_to_vpi_pipe  n == Len(got)  x == Sends(op)[Len(got) + 1]
<1>4. got \in Seq(Int) /\ n \in Nat /\ p \in Seq(PipeUnit) /\ Len(p) \in Nat \ {0} /\ n + Len(p) = sent
  BY <1>0, <1>2, SeqFact DEF Params
<1>5. Head(p) = p[1] /\ p[1] = Unit(SendSize(op, n + 1), <<x>>) BY <1>0, <1>2, <1>4, SeqFact DEF Params
<1>6. x \in Int BY <1>3, <1>4, ElementOfSeq
<1>7. got' = Append(got, x)
  <2>1. Head(p).v = <<x>> BY <1>5 DEF Unit
  <2>2. got' = got \o <<x>> BY <1>0, <2>1
  <2> QED BY <1>4, <1>6, <2>2, AppendIsConcat
<1>8. /\ got' \in Seq(Int) /\ Len(got') = n + 1
      /\ \A k \in 1 .. n : got'[k] = got[k]
      /\ got'[n + 1] = x
  BY <1>4, <1>6, <1>7, AppendProperties
<1>9. /\ p' \in Seq(PipeUnit) /\ Len(p') = Len(p) - 1
      /\ \A k \in 1 .. Len(p') : p'[k] = p[k + 1]
  BY <1>0, <1>4, SeqFact
<1>10. Params'
  <2>1. ASSUME NEW k \in 1 .. Len(got') PROVE got'[k] = Sends(op)[k]
    <3>1. CASE k \in 1 .. n BY <1>2, <1>8, <3>1 DEF Params
    <3>2. CASE k = n + 1 BY <1>8, <3>2
    <3> QED BY <1>4, <1>8, <3>1, <3>2
  <2>2. ASSUME NEW k \in 1 .. Len(p')
        PROVE  p'[k] = Unit(SendSize(op, Len(got') + k), <<Sends(op)[Len(got') + k]>>)
    <3>1. k + 1 \in 1 .. Len(p) /\ p'[k] = p[k + 1] BY <1>4, <1>9
    <3>2. p[k + 1] = Unit(SendSize(op, n + (k + 1)), <<Sends(op)[n + (k + 1)]>>)
      BY <1>2, <3>1 DEF Params
    <3>3. n + (k + 1) = Len(got') + k BY <1>4, <1>8
    <3> QED BY <3>1, <3>2, <3>3
  <2>3. Len(got') + Len(p') = sent'
    <3>1. Len(got') = n + 1 /\ Len(p') = Len(p) - 1 /\ sent' = sent BY <1>0, <1>8, <1>9
    <3> QED BY <1>4, <3>1
  <2> QED BY <1>0, <1>8, <1>9, <2>1, <2>2, <2>3 DEF Params
<1>11. TypeOK' BY <1>0 DEF SimGet, Inductive, TypeOK
<1>12. StepsOK' /\ ChainKnown' BY <1>0, <1>1, Within DEF Performed
<1>13. ServerAt' BY <1>0, <1>3 DEF ServerAt
<1>14. Taken'
  <2>1. EchoUnit' = EchoUnit /\ DataUnit' = DataUnit /\ ResponseUnit' = ResponseUnit
    BY <1>0 DEF EchoUnit, DataUnit, ResponseUnit
  <2> QED BY <1>0, <1>1, <1>10, <2>1 DEF Taken
<1> QED BY <1>0, <1>1, <1>11, <1>12, <1>13, <1>14 DEF Inductive, Lockstep

\* When a task has all it wants, it has what the server sent.
LEMMA Served ==
  ASSUME Inductive, spc = "get", Len(got) = SimWants(cmd, got)
  PROVE  /\ rpc # "run" /\ Taken /\ StepOK(op) /\ cmd = op.cmd /\ got = Sends(op)
         /\ rsp_to_vpi_pipe = << >> /\ sent = Len(Sends(op)) /\ ~Performed
<1>1. rpc # "run" /\ Taken BY SimBusy
<1>2. Params /\ cmd = op.cmd /\ command_pipe = << >> BY <1>1 DEF Taken
<1>3. StepOK(op) /\ op.cmd # FORGET_CHAIN /\ Len(Sends(op)) \in Nat /\ sent \in 0 .. Len(Sends(op))
  BY <1>1, InProgress
<1>4. /\ got \in Seq(Int) /\ Len(got) \in Nat
      /\ rsp_to_vpi_pipe \in Seq(PipeUnit) /\ Len(rsp_to_vpi_pipe) \in Nat
      /\ Len(got) + Len(rsp_to_vpi_pipe) = sent
  BY <1>2, LenProperties DEF Params
<1>5. Len(got) <= Len(Sends(op)) BY <1>3, <1>4
<1>6. PrefixOf(got, op) BY <1>2, <1>5 DEF PrefixOf, Params
<1>7. Len(got) = Len(Sends(op)) BY <1>2, <1>3, <1>6, WantsFact
<1>8. got = Sends(op) BY <1>3, <1>6, <1>7, WholePrefix
<1>9. Len(rsp_to_vpi_pipe) = 0 /\ sent = Len(Sends(op)) BY <1>3, <1>4, <1>7
<1>10. rsp_to_vpi_pipe = << >> BY <1>4, <1>9, SeqFact
<1> QED BY <1>1, <1>2, <1>3, <1>8, <1>9, <1>10 DEF Performed

\* A task that has moved a word, or has ended, leaves the pipes untouched.
LEMMA ServeLockstep ==
  ASSUME Inductive, spc = "get", Len(got) = SimWants(cmd, got), cmd # CMD_GDB_DETACH,
         spc' \in {"get", IF Reading(cmd) THEN "return" ELSE "resp"},
         UNCHANGED <<rpc, op, sent, cmd, got, command_pipe, rsp_to_vpi_pipe, vpi_to_rsp_pipe>>
  PROVE  Lockstep'
<1>1. /\ rpc # "run" /\ Taken /\ cmd = op.cmd /\ got = Sends(op) /\ rsp_to_vpi_pipe = << >>
      /\ sent = Len(Sends(op))
  BY Served
<1>2. ServerAt BY <1>1, InProgress
<1>3. ServerAt' BY <1>2 DEF ServerAt
<1>4. HasData = FALSE /\ HasData' = FALSE /\ (spc = "poll") = FALSE /\ (spc' = "poll") = FALSE
  BY DEF HasData
<1>5. EchoUnit' = EchoUnit /\ ResponseUnit' = ResponseUnit BY DEF EchoUnit, ResponseUnit
<1>6. (rpc = "ack") \in BOOLEAN OBVIOUS
<1>7. Holds(vpi_to_rsp_pipe, rpc = "ack", FALSE, FALSE, EchoUnit, DataUnit, ResponseUnit)
  BY <1>1, <1>4 DEF Taken, HasData
<1>8. Holds(vpi_to_rsp_pipe, rpc = "ack", FALSE, FALSE, EchoUnit, DataUnit', ResponseUnit)
  BY <1>7 DEF Holds
<1>9. Holds(vpi_to_rsp_pipe', rpc' = "ack", HasData', FALSE, EchoUnit', DataUnit', ResponseUnit')
  BY <1>4, <1>5, <1>8, Zenon
<1>10. ~(rpc = "resp" /\ Reading(cmd)) BY <1>1 DEF Taken
<1>11. Params' BY <1>1 DEF Taken, Params
<1>12. spc' \in {"get", "return", "resp"} /\ (spc' = "return" => Reading(cmd)) OBVIOUS
<1>13. Taken' BY <1>1, <1>4, <1>9, <1>10, <1>11, <1>12 DEF Taken, HasData
<1> QED BY <1>1, <1>3, <1>13 DEF Lockstep

\* ... and leaves the TAP as the command is known to leave it.
LEMMA ServeChain ==
  ASSUME Inductive, rpc # "run", ~Performed, spc' \in {"return", "resp"},
         UNCHANGED <<rpc, todo, op, current_chain, dbg_chain, command_pipe>>,
         \/ UNCHANGED <<ir, module>> /\ op.cmd \notin {CMD_RESET, CMD_JTAG_SET_IR, CMD_SET_DEBUG_CHAIN}
         \/ op.cmd \in {CMD_RESET, CMD_JTAG_SET_IR} /\ ir' = LeaveIr(op)
         \/ op.cmd = CMD_SET_DEBUG_CHAIN /\ ir' = ir /\ (ir = JI_DEBUG => module' = op.data[1])
  PROVE  StepsOK' /\ ChainKnown'
<1>1. StepsOK' BY DEF Inductive, StepsOK, HeldChain, HeldIr
<1>2. Performed' BY DEF Performed
<1>3. StepOK(op) /\ NeedChain(op) \in {AnyChain, current_chain} /\ NeedIr(op) \in {AnyIr, ir}
      /\ op.cmd # FORGET_CHAIN
  BY DEF Inductive, ChainKnown
<1>4. CASE UNCHANGED <<ir, module>> /\ op.cmd \notin {CMD_RESET, CMD_JTAG_SET_IR, CMD_SET_DEBUG_CHAIN}
  <2>1. ir = LeaveIr(op) BY <1>3, <1>4 DEF NeedIr, LeaveIr
  <2>2. ChainKnown' BY <1>2, <1>4, <2>1 DEF Inductive, ChainKnown
  <2> QED BY <1>1, <2>2
<1>5. CASE op.cmd \in {CMD_RESET, CMD_JTAG_SET_IR} /\ ir' = LeaveIr(op)
  <2>1. current_chain = NoChain BY <1>3, <1>5 DEF NeedChain
  <2>2. ChainKnown' BY <1>2, <1>3, <1>5, <2>1 DEF Inductive, ChainKnown
  <2> QED BY <1>1, <2>2
<1>6. CASE op.cmd = CMD_SET_DEBUG_CHAIN /\ ir' = ir /\ (ir = JI_DEBUG => module' = op.data[1])
  <2>1. ir = JI_DEBUG /\ LeaveIr(op) = JI_DEBUG BY <1>3, <1>6 DEF NeedIr, LeaveIr
  <2>2. ChainKnown' BY <1>2, <1>6, <2>1 DEF Inductive, ChainKnown
  <2> QED BY <1>1, <2>2
<1> QED BY <1>4, <1>5, <1>6

\* The tasks that drive the TAP.
LEMMA SimTapStep == Inductive /\ (SimReset \/ SimSetIr \/ SimSetChain) => Inductive'
<1> SUFFICES ASSUME Inductive, SimReset \/ SimSetIr \/ SimSetChain PROVE Inductive' OBVIOUS
<1> USE DEF simRest, rspVars
<1>0. /\ spc = "get" /\ Len(got) = SimWants(cmd, got) /\ spc' = "resp"
      /\ UNCHANGED <<rsp, rpc, todo, op, sent, current_chain, dbg_chain, sim, sigterm, storage, word_pointer, cmd, got,
                      wb, spr, ctrl, command_pipe, rsp_to_vpi_pipe, vpi_to_rsp_pipe>>
  BY DEF SimReset, SimSetIr, SimSetChain, Serving
<1>1. /\ rpc # "run" /\ StepOK(op) /\ cmd = op.cmd /\ got = Sends(op) /\ ~Performed
  BY <1>0, Served
<1>2. cmd \in {CMD_RESET, CMD_JTAG_SET_IR, CMD_SET_DEBUG_CHAIN}
  BY DEF SimReset, SimSetIr, SimSetChain, Serving
<1>3. Lockstep'
  <2>1. ~Reading(cmd) BY <1>2 DEF Reading
  <2> QED BY <1>0, <1>2, <2>1, ServeLockstep
<1>4. /\ ir' \in {JI_IDCODE, JI_DEBUG} /\ module' \in {NoChain, DC_WISHBONE, DC_CPU0}
      /\ \/ op.cmd \in {CMD_RESET, CMD_JTAG_SET_IR} /\ ir' = LeaveIr(op)
         \/ op.cmd = CMD_SET_DEBUG_CHAIN /\ ir' = ir /\ (ir = JI_DEBUG => module' = op.data[1])
  <2>1. CASE SimReset
    <3>1. op.cmd = CMD_RESET /\ ir' = JI_IDCODE /\ module' \in {NoChain, DC_WISHBONE, DC_CPU0}
      BY <1>1, <2>1 DEF SimReset, Serving
    <3> QED BY <3>1 DEF LeaveIr
  <2>2. CASE SimSetIr
    <3>1. op.cmd = CMD_JTAG_SET_IR /\ ir' = got[1] /\ module' = module
      BY <1>1, <2>2 DEF SimSetIr, Serving
    <3>2. got = op.data BY <1>1, <3>1, SendsFact
    <3>3. op.data[1] \in {JI_IDCODE, JI_DEBUG} BY <1>1, <3>1 DEF StepOK
    <3>4. LeaveIr(op) = op.data[1] BY <3>1 DEF LeaveIr
    <3> QED BY <3>1, <3>2, <3>3, <3>4 DEF Inductive, TypeOK
  <2>3. CASE SimSetChain
    <3>1. op.cmd = CMD_SET_DEBUG_CHAIN /\ module' = (IF ir = JI_DEBUG THEN got[1] ELSE module) /\ ir' = ir
      BY <1>1, <2>3 DEF SimSetChain, Serving
    <3>2. got = op.data BY <1>1, <3>1, SendsFact
    <3>3. op.data[1] \in {DC_WISHBONE, DC_CPU0}
      BY <1>1, <3>1 DEF StepOK, Inductive, ChainKnown
    <3> QED BY <3>1, <3>2, <3>3 DEF Inductive, TypeOK
  <2> QED BY <2>1, <2>2, <2>3
<1>5. StepsOK' /\ ChainKnown' BY <1>0, <1>1, <1>4, ServeChain
<1>6. TypeOK' BY <1>0, <1>4 DEF Inductive, TypeOK
<1> QED BY <1>3, <1>5, <1>6 DEF Inductive

\* The tasks that write a word, or the control register.
LEMMA SimWriteStep == Inductive /\ (SimCtrlWr \/ SimWbWr) => Inductive'
<1> SUFFICES ASSUME Inductive, SimCtrlWr \/ SimWbWr PROVE Inductive' OBVIOUS
<1> USE DEF simRest, rspVars
<1>0. /\ spc = "get" /\ Len(got) = SimWants(cmd, got) /\ spc' = "resp"
      /\ UNCHANGED <<rsp, rpc, todo, op, sent, current_chain, dbg_chain, sim, sigterm, storage,
                      word_pointer, cmd, got, ir, module, command_pipe, rsp_to_vpi_pipe, vpi_to_rsp_pipe>>
  BY DEF SimCtrlWr, SimWbWr, Serving
<1>1. /\ rpc # "run" /\ StepOK(op) /\ cmd = op.cmd /\ got = Sends(op) /\ ~Performed
  BY <1>0, Served
<1>2. cmd \in {CMD_CPU_CTRL_WR, CMD_WB_WR}
  BY DEF SimCtrlWr, SimWbWr, Serving
<1>3. Lockstep'
  <2>1. ~Reading(cmd) BY <1>2 DEF Reading
  <2> QED BY <1>0, <1>2, <2>1, ServeLockstep
<1>4. StepsOK' /\ ChainKnown' BY <1>0, <1>1, <1>2, ServeChain
<1>t. wb \in [Adr -> Word] /\ spr \in [Adr -> Word] /\ ctrl \in 0 .. 3 BY DEF Inductive, TypeOK
<1>6. wb' \in [Adr -> Word] /\ spr' \in [Adr -> Word] /\ ctrl' \in 0 .. 3
  <2>1. CASE SimCtrlWr
    <3>1. got[1] \in {0, 1}
      <4>1. op.cmd = CMD_CPU_CTRL_WR BY <1>1, <2>1 DEF SimCtrlWr, Serving
      <4>2. got = op.data /\ op.data \in {<<0>>, <<1>>} BY <1>1, <4>1, SendsFact DEF StepOK
      <4> QED BY <4>2
    <3>2. got[1] % 4 \in 0 .. 3 BY <3>1
    <3> QED BY <1>t, <2>1, <3>2 DEF SimCtrlWr
  <2>3. CASE SimWbWr
    <3>1. op.cmd = CMD_WB_WR BY <1>1, <2>3 DEF SimWbWr, Serving
    <3>2. got[3] \in Word
      <4>1. op.data \in Seq(Word) /\ Len(op.data) = 1 BY <1>1, <3>1 DEF StepOK
      <4>2. op.data[1] \in Word BY <4>1, ElementOfSeq
      <4>3. \A k \in 1 .. Len(op.data) : got[k + 2] = op.data[k] BY <1>1, <3>1, SendsFact
      <4>4. 1 \in 1 .. Len(op.data) BY <4>1
      <4>5. got[1 + 2] = op.data[1] BY <4>3, <4>4
      <4>6. 1 + 2 = 3 OBVIOUS
      <4> QED BY <4>2, <4>5, <4>6, Zenon
    <3>3. Put(wb, got[1], got[3]) \in [Adr -> Word] BY <1>t, <3>2, PutType
    <3> QED BY <1>t, <2>3, <3>3 DEF SimWbWr
  <2> QED BY <2>1, <2>3
<1>7. TypeOK' BY <1>0, <1>6 DEF Inductive, TypeOK
<1> QED BY <1>3, <1>4, <1>7 DEF Inductive

\* One word of a block: the dialogue stays where it is or the task ends.
LEMMA SimBlockStep == Inductive /\ (SimRegWr \/ SimBlockWr \/ SimBlockRd) => Inductive'
<1> SUFFICES ASSUME Inductive, SimRegWr \/ SimBlockWr \/ SimBlockRd PROVE Inductive' OBVIOUS
<1> USE DEF simRest, rspVars
<1>0. /\ spc = "get" /\ Len(got) = SimWants(cmd, got) /\ cmd \in BlockReads \cup BlockWrites
      /\ spc' \in {"get", IF Reading(cmd) THEN "return" ELSE "resp"}
      /\ word_pointer' = word_pointer + 1
      /\ UNCHANGED <<rsp, rpc, todo, op, sent, current_chain, dbg_chain, sim, sigterm, cmd, got,
                      ir, module, ctrl, command_pipe, rsp_to_vpi_pipe, vpi_to_rsp_pipe>>
  BY DEF SimRegWr, SimBlockWr, SimBlockRd, Serving, MoveWord, tgtVars, Reading
<1>1. /\ rpc # "run" /\ StepOK(op) /\ cmd = op.cmd /\ got = Sends(op) /\ ~Performed
  BY <1>0, Served
<1>2. cmd # CMD_GDB_DETACH /\ op.cmd \notin {CMD_RESET, CMD_JTAG_SET_IR, CMD_SET_DEBUG_CHAIN}
  BY <1>0, <1>1
<1>3. Lockstep' BY <1>0, <1>2, ServeLockstep
<1>4. StepsOK' /\ ChainKnown'
  <2>1. CASE spc' = "get"
    <3>1. ~Performed' BY <2>1 DEF Performed
    <3> QED BY <1>0, <1>1, <3>1, Within
  <2>2. CASE spc' \in {"return", "resp"} BY <1>0, <1>1, <1>2, <2>2, ServeChain
  <2> QED BY <1>0, <2>1, <2>2
<1>t. /\ wb \in [Adr -> Word] /\ spr \in [Adr -> Word] /\ ctrl \in 0 .. 3
      /\ storage \in Seq(Nat) /\ word_pointer \in Nat
  BY DEF Inductive, TypeOK
<1>5. wb' \in [Adr -> Word] /\ spr' \in [Adr -> Word] /\ storage' \in Seq(Nat)
  <2>1. CASE SimRegWr
    <3>1. PICK w \in Word :
            spr' = IF Through(DC_CPU0) THEN Put(spr, got[1] + word_pointer, w) ELSE spr
      BY <2>1 DEF SimRegWr
    <3>2. Put(spr, got[1] + word_pointer, w) \in [Adr -> Word] BY <1>t, PutType
    <3> QED BY <1>t, <2>1, <3>1, <3>2 DEF SimRegWr
  <2>2. CASE SimBlockWr
    <3>1. PICK w \in Word :
            wb' = IF Through(DC_WISHBONE) THEN Put(wb, got[1] + word_pointer, w) ELSE wb
      BY <2>2 DEF SimBlockWr
    <3>2. Put(wb, got[1] + word_pointer, w) \in [Adr -> Word] BY <1>t, PutType
    <3> QED BY <1>t, <2>2, <3>1, <3>2 DEF SimBlockWr
  <2>3. CASE SimBlockRd
    <3>1. Answer \in Nat
      <4>1. Cell(spr, got[1] + word_pointer) \in Nat /\ Cell(wb, got[1] + word_pointer) \in Nat
        BY <1>t, CellType
      <4>2. cmd \in BlockReads BY <2>3 DEF SimBlockRd, Serving
      <4> QED BY <4>1, <4>2 DEF Answer
    <3>2. Append(storage, Answer) \in Seq(Nat) BY <1>t, <3>1, AppendProperties
    <3> QED BY <1>t, <2>3, <3>2 DEF SimBlockRd, tgtVars
  <2> QED BY <2>1, <2>2, <2>3
<1>6. TypeOK' BY <1>0, <1>5, <1>t DEF Inductive, TypeOK
<1> QED BY <1>3, <1>4, <1>6 DEF Inductive

\* The tasks that read one word.
LEMMA SimReadStep == Inductive /\ SimRead => Inductive'
<1> SUFFICES ASSUME Inductive, SimRead PROVE Inductive' OBVIOUS
<1> USE DEF simRest, rspVars, tgtVars
<1>0. /\ spc = "get" /\ Len(got) = SimWants(cmd, got) /\ spc' = "return" /\ storage' = <<Answer>>
      /\ Reading(cmd) /\ cmd \notin BlockReads
      /\ UNCHANGED <<rsp, rpc, todo, op, sent, current_chain, dbg_chain, sim, sigterm, cmd, got, word_pointer,
                      ir, module, wb, spr, ctrl, command_pipe, rsp_to_vpi_pipe, vpi_to_rsp_pipe>>
  BY DEF SimRead, Serving
<1>1. /\ rpc # "run" /\ StepOK(op) /\ cmd = op.cmd /\ got = Sends(op) /\ ~Performed
  BY <1>0, Served
<1>2. cmd \notin {CMD_RESET, CMD_JTAG_SET_IR, CMD_SET_DEBUG_CHAIN, CMD_GDB_DETACH}
  BY <1>0 DEF Reading
<1>3. Lockstep' BY <1>0, <1>2, ServeLockstep
<1>4. StepsOK' /\ ChainKnown' BY <1>0, <1>1, <1>2, ServeChain
<1>5. Answer \in Nat
  <2>1. wb \in [Adr -> Word] /\ spr \in [Adr -> Word] /\ ctrl \in 0 .. 3 BY DEF Inductive, TypeOK
  <2>2. Cell(wb, got[1] + word_pointer) \in Nat BY <2>1, CellType
  <2>3. (ctrl \div 2) + 2 * (ctrl % 2) \in Nat BY <2>1
  <2>4. IdCode \in Nat BY WordAssumption
  <2> QED BY <1>0, <2>2, <2>3, <2>4 DEF Answer, Reading
<1>6. <<Answer>> \in Seq(Nat) BY <1>5
<1>7. TypeOK' BY <1>0, <1>6 DEF Inductive, TypeOK
<1> QED BY <1>3, <1>4, <1>7 DEF Inductive

\* The data returned has the size the server will read.
LEMMA SimReturnStep == Inductive /\ SimReturn => Inductive'
<1> SUFFICES ASSUME Inductive, SimReturn PROVE Inductive' OBVIOUS
<1> USE DEF rspVars, tgtVars
<1>0. /\ spc = "return" /\ spc' = "resp"
      /\ vpi_to_rsp_pipe' = Append(vpi_to_rsp_pipe, Unit(ReturnSize(cmd, got), storage))
      /\ UNCHANGED <<rsp, rpc, todo, op, sent, current_chain, dbg_chain, sim, sigterm, cmd, got,
                      storage, word_pointer, ir, module, wb, spr, ctrl, command_pipe, rsp_to_vpi_pipe>>
  BY DEF SimReturn
<1>1. rpc # "run" /\ Taken BY <1>0, SimBusy
<1>2. StepOK(op) /\ ServerAt /\ DataUnit \in PipeUnit BY <1>1, InProgress
<1>3. cmd = op.cmd /\ Reading(cmd) /\ got = Sends(op) /\ rpc # "resp" /\ cmd # CMD_GDB_DETACH
  BY <1>0, <1>1 DEF Taken
<1>4. Unit(ReturnSize(cmd, got), storage) = DataUnit BY <1>2, <1>3, SizesAgree DEF DataUnit
<1>5. HasData = FALSE /\ (spc = "poll") = FALSE /\ (spc' = "poll") = FALSE BY <1>0 DEF HasData
<1>6. Holds(vpi_to_rsp_pipe, rpc = "ack", FALSE, FALSE, EchoUnit, DataUnit, ResponseUnit)
  BY <1>0, <1>1, <1>5 DEF Taken, HasData
<1>7. (rpc = "ack") \in BOOLEAN OBVIOUS
<1>8. Holds(vpi_to_rsp_pipe', rpc = "ack", TRUE, FALSE, EchoUnit, DataUnit, ResponseUnit)
  <2>1. Holds(Append(vpi_to_rsp_pipe, DataUnit), rpc = "ack", TRUE, FALSE, EchoUnit, DataUnit, ResponseUnit)
    BY <1>2, <1>6, <1>7, AppendData
  <2> QED BY <1>0, <1>4, <2>1
<1>9. HasData' = TRUE
  <2>1. rpc \in {"ack", "recv"}
    <3>1. rpc \in {"ack", "send", "recv", "exited"} BY <1>1, <1>3 DEF Inductive, TypeOK
    <3>2. rpc # "exited" BY <1>2, <1>3 DEF ServerAt
    <3>3. Len(Sends(op)) \in Nat /\ sent = Len(Sends(op)) BY <1>0, <1>1, InProgress DEF Taken
    <3>4. rpc # "send" BY <1>2, <3>3 DEF ServerAt
    <3> QED BY <3>1, <3>2, <3>4
  <2>2. HasData' BY <1>0, <1>3, <2>1 DEF HasData, Reading
  <2> QED BY <2>2, Zenon DEF HasData
<1>10. EchoUnit' = EchoUnit /\ DataUnit' = DataUnit /\ ResponseUnit' = ResponseUnit
  BY <1>0 DEF EchoUnit, DataUnit, ResponseUnit
<1>11. Holds(vpi_to_rsp_pipe', rpc' = "ack", HasData', FALSE, EchoUnit', DataUnit', ResponseUnit')
  BY <1>0, <1>8, <1>9, <1>10, Zenon
<1>12. Taken' BY <1>0, <1>1, <1>3, <1>5, <1>11 DEF Taken, HasData
<1>13. ServerAt' BY <1>0, <1>2 DEF ServerAt
<1>14. StepsOK' /\ ChainKnown' BY <1>0, <1>1, Within DEF Performed
<1>15. TypeOK' BY <1>0 DEF Inductive, TypeOK
<1> QED BY <1>0, <1>1, <1>12, <1>13, <1>14, <1>15 DEF Inductive, Lockstep

\* The response follows the data, if there is any.
LEMMA SimRespondStep == Inductive /\ SimRespond => Inductive'
<1> SUFFICES ASSUME Inductive, SimRespond PROVE Inductive' OBVIOUS
<1> USE DEF rspVars, tgtVars
<1>0. /\ spc = "resp" /\ spc' = "poll"
      /\ vpi_to_rsp_pipe' = Append(vpi_to_rsp_pipe, ResponseUnit)
      /\ UNCHANGED <<rsp, rpc, todo, op, sent, current_chain, dbg_chain, sim, sigterm, cmd,
                      storage, word_pointer, ir, module, wb, spr, ctrl, command_pipe, rsp_to_vpi_pipe>>
  BY DEF SimRespond, ResponseUnit
<1>1. rpc # "run" /\ Taken BY <1>0, SimBusy
<1>2. ServerAt /\ ResponseUnit \in PipeUnit BY <1>1, InProgress
<1>3. cmd = op.cmd /\ command_pipe = << >> /\ cmd # CMD_GDB_DETACH BY <1>0, <1>1 DEF Taken
<1>4. HasData \in BOOLEAN /\ (rpc = "ack") \in BOOLEAN BY Zenon DEF HasData
<1>5. (spc = "poll") = FALSE /\ (spc' = "poll") = TRUE BY <1>0
<1>6. Holds(vpi_to_rsp_pipe, rpc = "ack", HasData, FALSE, EchoUnit, DataUnit, ResponseUnit)
  BY <1>0, <1>1, <1>5 DEF Taken, HasData
<1>7. Holds(vpi_to_rsp_pipe', rpc = "ack", HasData, TRUE, EchoUnit, DataUnit, ResponseUnit)
  BY <1>0, <1>2, <1>4, <1>6, AppendResponse, Zenon
<1>8. HasData' = HasData BY <1>0, Zenon DEF HasData
<1>9. EchoUnit' = EchoUnit /\ DataUnit' = DataUnit /\ ResponseUnit' = ResponseUnit
  BY <1>0 DEF EchoUnit, DataUnit, ResponseUnit
<1>10. Holds(vpi_to_rsp_pipe', rpc' = "ack", HasData', TRUE, EchoUnit', DataUnit', ResponseUnit')
  BY <1>0, <1>7, <1>8, <1>9, Zenon
<1>11. Taken' BY <1>0, <1>1, <1>3, <1>5, <1>10 DEF Taken, HasData
<1>12. ServerAt' BY <1>0, <1>2 DEF ServerAt
<1>13. StepsOK' /\ ChainKnown'
  <2>1. Performed /\ Performed' BY <1>0, <1>3 DEF Performed
  <2> QED BY <1>0, <1>1, <2>1, Within
<1>14. TypeOK' BY <1>0 DEF Inductive, TypeOK
<1> QED BY <1>0, <1>1, <1>11, <1>12, <1>13, <1>14 DEF Inductive, Lockstep

\* A detach ends the simulation, with or without a response.
LEMMA SimDetachedStep == Inductive /\ SimDetached => Inductive'
<1> SUFFICES ASSUME Inductive, SimDetached PROVE Inductive' OBVIOUS
<1> USE DEF rspVars, tgtVars
<1>0. /\ spc = "get" /\ Len(got) = SimWants(cmd, got) /\ spc' = "quit" /\ cmd = CMD_GDB_DETACH
      /\ sim' = "finished" /\ sigterm' = TRUE
      /\ \/ vpi_to_rsp_pipe' = vpi_to_rsp_pipe
         \/ vpi_to_rsp_pipe' = Append(vpi_to_rsp_pipe, ResponseUnit)
      /\ UNCHANGED <<rsp, rpc, todo, op, sent, current_chain, dbg_chain, cmd, got,
                      storage, word_pointer, ir, module, wb, spr, ctrl, command_pipe, rsp_to_vpi_pipe>>
  BY DEF SimDetached, Serving, ResponseUnit
<1>1. /\ rpc # "run" /\ Taken /\ cmd = op.cmd /\ rsp_to_vpi_pipe = << >> /\ sent = Len(Sends(op))
      /\ ~Performed
  BY <1>0, Served
<1>2. ServerAt /\ ResponseUnit \in PipeUnit BY <1>1, InProgress
<1>3. (rpc = "ack") \in BOOLEAN OBVIOUS
<1>4. HasData = FALSE /\ HasData' = FALSE /\ (spc = "poll") = FALSE BY <1>0 DEF HasData, Reading
<1>5. Holds(vpi_to_rsp_pipe, rpc = "ack", FALSE, FALSE, EchoUnit, DataUnit, ResponseUnit)
  BY <1>0, <1>1, <1>4 DEF Taken, HasData
<1>6. PICK R \in BOOLEAN :
        Holds(vpi_to_rsp_pipe', rpc = "ack", FALSE, R, EchoUnit, DataUnit, ResponseUnit)
  <2>1. CASE vpi_to_rsp_pipe' = vpi_to_rsp_pipe BY <1>5, <2>1, Zenon
  <2>2. CASE vpi_to_rsp_pipe' = Append(vpi_to_rsp_pipe, ResponseUnit)
    BY <1>2, <1>3, <1>5, <2>2, AppendResponse, Zenon
  <2> QED BY <1>0, <2>1, <2>2
<1>7. EchoUnit' = EchoUnit /\ DataUnit' = DataUnit /\ ResponseUnit' = ResponseUnit
  BY <1>0 DEF EchoUnit, DataUnit, ResponseUnit
<1>8. Holds(vpi_to_rsp_pipe', rpc' = "ack", HasData', R, EchoUnit', DataUnit', ResponseUnit')
  BY <1>0, <1>4, <1>6, <1>7, Zenon
<1>9. Taken' BY <1>0, <1>1, <1>8 DEF Taken, HasData, Reading
<1>10. ServerAt' BY <1>0, <1>2 DEF ServerAt
<1>11. StepsOK' /\ ChainKnown'
  <2>1. ~Performed' BY <1>0 DEF Performed
  <2> QED BY <1>0, <1>1, <2>1, Within
<1>12. TypeOK' BY <1>0 DEF Inductive, TypeOK
<1> QED BY <1>0, <1>1, <1>9, <1>10, <1>11, <1>12 DEF Inductive, Lockstep

-----------------------------------------------------------------------------
(* The theorems.                                                           *)

\* Every step of either process, of the CPU or of a signal keeps the invariant.
THEOREM NextInductive == Inductive /\ [Next]_vars => Inductive'
BY RspCallStep, RspLocalStep, RspCommandStep, RspAckStep, RspSendStep, RspRecvStep,
   RspResponseStep, SimPollStep, SimGetStep, SimTapStep, SimWriteStep, SimBlockStep, SimReadStep,
   SimDetachedStep, SimReturnStep, SimRespondStep, ApartStep, Zenon
   DEF Next, RspNext, SimNext, SimServe

\* The invariant holds in every reachable state of the link.
THEOREM AlwaysInductive == Spec => []Inductive
BY InitInductive, NextInductive, PTL DEF Spec

\* Type correctness: whatever the addresses, the word width and the block
\* lengths, every variable of the two processes and the target keeps its type.
THEOREM TypeCorrect == Spec => []TypeOK
<1>1. Inductive => TypeOK BY DEF Inductive
<1> QED BY <1>1, AlwaysInductive, PTL

\* The invariant frames every read.
LEMMA InductiveFramed == Inductive => Framed
<1> SUFFICES ASSUME Inductive PROVE Framed OBVIOUS
<1>1. ASSUME spc = "get", Len(got) < SimWants(cmd, got), rsp_to_vpi_pipe # << >>
      PROVE  Head(rsp_to_vpi_pipe).n = GetSize(cmd, got)
  <2>1. rpc # "run" /\ Taken BY <1>1, SimBusy
  <2>2. Params /\ cmd = op.cmd BY <1>1, <2>1 DEF Taken
  <2>3. StepOK(op) /\ op.cmd # FORGET_CHAIN /\ Len(Sends(op)) \in Nat /\ sent \in 0 .. Len(Sends(op))
    BY <2>1, InProgress
  <2> DEFINE p == rsp_to_vpi_pipe
  <2>4. /\ got \in Seq(Int) /\ Len(got) \in Nat /\ p \in Seq(PipeUnit) /\ Len(p) \in Nat \ {0}
        /\ Len(got) + Len(p) = sent /\ Head(p) = p[1]
    BY <1>1, <2>2, SeqFact DEF Params
  <2>5. Len(got) < Len(Sends(op)) BY <2>3, <2>4
  <2>6. PrefixOf(got, op) BY <2>2, <2>4, <2>5 DEF PrefixOf, Params
  <2>7. GetSize(op.cmd, got) = SendSize(op, Len(got) + 1) BY <2>3, <2>5, <2>6, WantsFact
  <2>8. p[1] = Unit(SendSize(op, Len(got) + 1), <<Sends(op)[Len(got) + 1]>>)
    BY <2>2, <2>4 DEF Params
  <2> QED BY <2>2, <2>4, <2>7, <2>8 DEF Unit
<1>2. ASSUME vpi_to_rsp_pipe # << >>, rpc \in {"ack", "recv", "resp"}
      PROVE  LET u == Head(vpi_to_rsp_pipe)
             IN  /\ rpc = "ack"  => u = Unit(1, <<op.cmd>>)
                 /\ rpc = "recv" => u.n = RecvSize(op) /\ u.v = storage
                 /\ rpc = "resp" => u = Unit(1, <<0>>)
  <2>1. PICK R \in BOOLEAN :
          Holds(vpi_to_rsp_pipe, rpc = "ack", HasData, R, EchoUnit, DataUnit, ResponseUnit)
          /\ (spc # "quit" => R = (spc = "poll"))
    BY <1>2, ReadsTaken
  <2>2. Taken /\ ServerAt /\ HasData \in BOOLEAN BY <1>2, ReadsTaken, InProgress
  <2>3. CASE rpc = "ack"
    <3>1. (rpc = "ack") = TRUE BY <2>3
    <3>2. Holds(vpi_to_rsp_pipe, TRUE, HasData, R, EchoUnit, DataUnit, ResponseUnit)
      BY <2>1, <3>1, Zenon
    <3>3. Head(vpi_to_rsp_pipe) = EchoUnit BY <2>2, <3>2, HoldsEcho, Zenon
    <3> QED BY <2>3, <3>3 DEF EchoUnit
  <2>4. CASE rpc = "recv"
    <3>1. (rpc = "ack") = FALSE BY <2>4
    <3>2. spc # "quit" /\ Reading(cmd) BY <2>2, <2>4 DEF Taken, ServerAt
    <3>3. HasData
      <4> SUFFICES ASSUME ~HasData PROVE FALSE OBVIOUS
      <4>1. HasData = FALSE /\ (spc = "poll") = FALSE BY <2>4, <3>2 DEF HasData
      <4>2. Holds(vpi_to_rsp_pipe, FALSE, FALSE, FALSE, EchoUnit, DataUnit, ResponseUnit)
        BY <2>1, <3>1, <3>2, <4>1, Zenon
      <4> QED BY <1>2, <4>2, HoldsNothing
    <3>4. HasData = TRUE BY <2>2, <3>3, Zenon
    <3>5. Holds(vpi_to_rsp_pipe, FALSE, TRUE, R, EchoUnit, DataUnit, ResponseUnit)
      BY <2>1, <3>1, <3>4, Zenon
    <3>6. Head(vpi_to_rsp_pipe) = DataUnit BY <3>5, HoldsData, Zenon
    <3> QED BY <2>4, <3>6 DEF DataUnit, Unit
  <2>5. CASE rpc = "resp"
    <3>1. (rpc = "ack") = FALSE /\ HasData = FALSE BY <2>5 DEF HasData
    <3>2. Holds(vpi_to_rsp_pipe, FALSE, FALSE, R, EchoUnit, DataUnit, ResponseUnit)
      BY <2>1, <3>1, Zenon
    <3>3. R = TRUE
      <4> SUFFICES ASSUME R # TRUE PROVE FALSE OBVIOUS
      <4>1. R = FALSE BY Zenon
      <4>2. Holds(vpi_to_rsp_pipe, FALSE, FALSE, FALSE, EchoUnit, DataUnit, ResponseUnit)
        BY <3>2, <4>1, Zenon
      <4> QED BY <1>2, <4>2, HoldsNothing
    <3>4. Holds(vpi_to_rsp_pipe, FALSE, FALSE, TRUE, EchoUnit, DataUnit, ResponseUnit)
      BY <3>2, <3>3, Zenon
    <3>5. Head(vpi_to_rsp_pipe) = ResponseUnit BY <3>4, HoldsResponse, Zenon
    <3> QED BY <2>5, <3>5 DEF ResponseUnit
  <2> QED BY <1>2, <2>3, <2>4, <2>5
<1> QED BY <1>1, <1>2 DEF Framed

\* No read of send_command_to_vpi, get_block_data_from_vpi, $get_command_... or
\* their like ever meets bytes meant for another.
THEOREM AlwaysFramed == Spec => []Framed
BY InductiveFramed, AlwaysInductive, PTL

\* When the server is between commands, the pipes are empty and main is polling.
THEOREM AlwaysQuiet == Spec => []Quiet
<1>1. Inductive => Quiet BY DEF Inductive, Lockstep, Quiet
<1> QED BY <1>1, AlwaysInductive, PTL

\* Each task of main runs for the command sent, with the parameters sent.
THEOREM AlwaysDelivered == Spec => []Delivered
<1>1. Inductive => Delivered BY Served DEF Delivered
<1> QED BY <1>1, AlwaysInductive, PTL

\* The invariant gives every task its module.
LEMMA InductiveRight == Inductive => RightModule
<1> SUFFICES ASSUME Inductive, spc = "get"
             PROVE  /\ cmd \in WbCommands => Through(DC_WISHBONE)
                    /\ cmd \in CpuCommands => Through(DC_CPU0)
                    /\ cmd = CMD_SET_DEBUG_CHAIN => ir = JI_DEBUG
                    /\ cmd = CMD_READ_JTAG_ID => ir = JI_IDCODE
  BY DEF RightModule
<1>1. rpc # "run" /\ Taken /\ ~Performed BY SimBusy DEF Performed
<1>2. cmd = op.cmd BY <1>1 DEF Taken
<1>3. NeedChain(op) \in {AnyChain, current_chain} /\ NeedIr(op) \in {AnyIr, ir}
      /\ (current_chain # NoChain /\ op.cmd # CMD_SET_DEBUG_CHAIN => module = current_chain)
  BY <1>1 DEF Inductive, ChainKnown
<1>4. CASE cmd \in WbCommands \cup CpuCommands
  <2>1. NeedIr(op) = JI_DEBUG BY <1>2, <1>4 DEF NeedIr, WbCommands, CpuCommands
  <2>2. NeedChain(op) = IF cmd \in WbCommands THEN DC_WISHBONE ELSE DC_CPU0
    BY <1>2, <1>4 DEF NeedChain, WbCommands, CpuCommands
  <2> QED BY <1>2, <1>3, <1>4, <2>1, <2>2 DEF Through, WbCommands, CpuCommands
<1>5. CASE cmd \in {CMD_SET_DEBUG_CHAIN, CMD_READ_JTAG_ID}
  BY <1>2, <1>3, <1>5 DEF NeedIr, WbCommands, CpuCommands
<1> QED BY <1>4, <1>5

\* The chain selections that dbg_set_chain leaves out are never missed: each
\* task finds its own module selected and its own instruction in the TAP.
THEOREM AlwaysRightModule == Spec => []RightModule
BY InductiveRight, AlwaysInductive, PTL

-----------------------------------------------------------------------------
(* The link implements DebugPort: each access function of rsp-rtl_sim.c    *)
(* moves the words of its request, one at a time.                          *)

USE DEF CMD_JTAG_SET_IR, CMD_SET_DEBUG_CHAIN, CMD_CPU_CTRL_WR, CMD_CPU_CTRL_RD,
        CMD_CPU_WR_REG, CMD_CPU_RD_REG, CMD_WB_WR, CMD_WB_RD32, CMD_WB_BLOCK_WR32,
        CMD_WB_BLOCK_RD32, CMD_RESET, CMD_READ_JTAG_ID, CMD_GDB_DETACH, CMD_WB_RD8,
        FORGET_CHAIN, JI_IDCODE, JI_DEBUG, DC_WISHBONE, DC_CPU0, NoChain, DbgChain,
        AnyChain, AnyIr, BlockReads, BlockWrites

\* The abstract request and progress (see Port).
Request == IF Phase = "idle" THEN NoOp ELSE op
Moved == IF Phase = "called" /\ spc = "get" THEN word_pointer ELSE 0

\* A task that moves no block has not moved anything.
Unmoved ==
  spc = "get" /\ cmd \notin BlockReads \cup BlockWrites => word_pointer = 0 /\ storage = << >>

\* A command's task starts with nothing moved.
LEMMA UnmovedStep == Unmoved /\ [Next]_vars => Unmoved'
<1> SUFFICES ASSUME Unmoved, [Next]_vars PROVE Unmoved' OBVIOUS
<1>1. CASE SimPoll BY <1>1 DEF SimPoll, Unmoved
<1>2. CASE SimGet BY <1>2 DEF SimGet, Unmoved
<1>3. CASE SimReset \/ SimSetIr \/ SimSetChain \/ SimCtrlWr \/ SimWbWr \/ SimRead \/ SimDetached
             \/ SimReturn \/ SimRespond
  <2>1. spc' # "get"
    BY <1>3 DEF SimReset, SimSetIr, SimSetChain, SimCtrlWr, SimWbWr, SimRead, SimDetached,
                SimReturn, SimRespond
  <2> QED BY <2>1 DEF Unmoved
<1>4. CASE SimRegWr \/ SimBlockWr \/ SimBlockRd
  <2>1. cmd' = cmd /\ cmd \in BlockReads \cup BlockWrites
    BY <1>4 DEF SimRegWr, SimBlockWr, SimBlockRd, Serving, simRest
  <2> QED BY <2>1 DEF Unmoved
<1>5. CASE RspNext \/ RspKilled \/ SimFinish \/ CpuRun \/ UNCHANGED vars
  <2>1. UNCHANGED <<spc, cmd, storage, word_pointer>>
    BY <1>5 DEF RspNext, RspCall, RspLocal, RspCommand, RspAck, RspSend, RspRecv, RspResponse,
                RspKilled, SimFinish, CpuRun, vars, simVars
  <2> QED BY <2>1 DEF Unmoved
<1> QED BY <1>1, <1>2, <1>3, <1>4, <1>5 DEF Next, SimNext, SimServe

\* So it is in every reachable state.
LEMMA AlwaysUnmoved == Spec => []Unmoved
<1>1. Init => Unmoved BY DEF Init, Unmoved
<1> QED BY <1>1, UnmovedStep, PTL DEF Spec

\* A step that shows nothing.
LEMMA Stutters ==
  ASSUME UNCHANGED <<wb, spr, ctrl, ret>>, Phase' = Phase,
         \/ Phase = "idle"
         \/ op' = op /\ Result' = Result /\ Moved' = Moved
  PROVE  UNCHANGED Port!portVars
<1>1. Phase = "idle" => (Result = << >> /\ Result' = << >> /\ Moved = 0 /\ Moved' = 0)
  BY DEF Result, Moved
<1> QED BY <1>1 DEF Port!portVars, Moved

\* The phase does not change with a step within the dialogue that neither moves
\* a word of the request nor hands its data over.
LEMMA SamePhase ==
  ASSUME UNCHANGED <<op, wb, spr, ctrl, ret>>, Performed' = Performed,
         rpc = "run" <=> rpc' = "run",
         Reading(op.cmd) => (rpc = "resp" <=> rpc' = "resp"),
         Performed => storage' = storage,
         \/ UNCHANGED <<storage, word_pointer>> /\ (spc = "get" <=> spc' = "get")
         \/ spc # "get" /\ (spc' = "get" => word_pointer' = 0 /\ storage' = << >>)
  PROVE  UNCHANGED Port!portVars
<1>1. Phase' = Phase BY DEF Phase, Visible
<1>2. Phase = "performed" => Performed BY DEF Phase
<1>3. Moved' = Moved BY <1>1 DEF Moved
<1>4. Result' = Result BY <1>1, <1>2 DEF Result, Decode
<1> QED BY <1>1, <1>3, <1>4, Stutters

\* The server's steps but for the command and the end of an access.
LEMMA ServerHides ==
  ASSUME Inductive, RspCall \/ RspLocal \/ RspAck \/ RspSend \/ RspKilled
  PROVE  UNCHANGED Port!portVars
<1> USE DEF simVars, tgtVars
<1>1. CASE RspCall \/ RspLocal \/ RspKilled
  <2>1. UNCHANGED <<rpc, op, wb, spr, ctrl, ret, spc, command_pipe, storage, word_pointer>>
    BY <1>1 DEF RspCall, RspLocal, RspKilled
  <2> QED BY <2>1, SamePhase DEF Performed
<1>2. CASE RspAck \/ RspSend
  <2>1. /\ rpc \in {"ack", "send"}
        /\ UNCHANGED <<op, wb, spr, ctrl, ret, spc, command_pipe, storage, word_pointer>>
        /\ rpc' = "exited" \/ \E n \in {0, sent + 1} : rpc' = AfterSend(op, n)
    BY <1>2 DEF RspAck, RspSend
  <2>2. rpc' # "run" /\ (Reading(op.cmd) => rpc' # "resp")
    BY <2>1 DEF AfterSend
  <2> QED BY <2>1, <2>2, SamePhase DEF Performed
<1> QED BY <1>1, <1>2

\* The simulation's steps but for the tasks.
LEMMA SimHides ==
  ASSUME Inductive, SimPoll \/ SimGet \/ SimReturn \/ SimRespond \/ SimFinish
  PROVE  UNCHANGED Port!portVars
<1> USE DEF rspVars, tgtVars
<1>1. CASE SimPoll
  <2>1. /\ spc = "poll" /\ command_pipe # << >> /\ spc' = "get"
        /\ word_pointer' = 0 /\ storage' = << >>
        /\ UNCHANGED <<rpc, op, wb, spr, ctrl, ret>>
    BY <1>1 DEF SimPoll
  <2> QED BY <2>1, SamePhase DEF Performed
<1>2. CASE SimGet \/ SimFinish
  <2>1. UNCHANGED <<rpc, op, wb, spr, ctrl, ret, spc, command_pipe, storage, word_pointer>>
    BY <1>2 DEF SimGet, SimFinish
  <2> QED BY <2>1, SamePhase DEF Performed
<1>3. CASE SimReturn \/ SimRespond
  <2>1. /\ spc \in {"return", "resp"} /\ spc' \in {"resp", "poll"}
        /\ UNCHANGED <<rpc, op, wb, spr, ctrl, ret, command_pipe, storage, word_pointer>>
    BY <1>3 DEF SimReturn, SimRespond
  <2>2. command_pipe = << >> BY <2>1, SimBusy DEF Taken
  <2> QED BY <2>1, <2>2, SamePhase DEF Performed
<1> QED BY <1>1, <1>2, <1>3

\* Sending the command is the call, if the command is one of an access.
LEMMA CommandCalls ==
  ASSUME Inductive, RspCommand
  PROVE  Port!Call \/ UNCHANGED Port!portVars
<1> USE DEF simVars, tgtVars
<1>1. /\ rpc = "run" /\ rpc' = "ack" /\ command_pipe' # << >> /\ spc' = spc
      /\ UNCHANGED <<wb, spr, ctrl, ret>>
  <2>1. command_pipe = << >> BY DEF RspCommand, Inductive, Lockstep, Quiet
  <2> QED BY <2>1 DEF RspCommand
<1>2. spc = "poll" BY <1>1 DEF Inductive, Lockstep, Quiet
<1>3. Phase = "idle" BY <1>1 DEF Phase
<1>4. CASE Visible'
  <2>1. Phase' = "called" BY <1>1, <1>2, <1>4 DEF Phase, Performed
  <2>2. op' # NoOp BY <1>4 DEF Visible, NoOp, Op, WbCommands, CpuCommands
  <2>3. Result = << >> /\ Result' = << >> BY <1>1, <1>2, <1>3, <2>1 DEF Result
  <2> QED BY <1>1, <1>2, <1>3, <2>1, <2>2, <2>3 DEF Port!Call, Port!target
<1>5. CASE ~Visible'
  <2>1. Phase' = "idle" BY <1>5 DEF Phase
  <2> QED BY <1>1, <1>3, <2>1, Stutters
<1> QED BY <1>4, <1>5

\* Reading the data, or the response where there is none, is the return.
LEMMA ServerReturns ==
  ASSUME Inductive, Inductive', RspRecv \/ RspResponse
  PROVE  Port!Return \/ UNCHANGED Port!portVars
<1> USE DEF simVars, tgtVars
<1>0. vpi_to_rsp_pipe # << >> /\ UNCHANGED <<spc, cmd, command_pipe, wb, spr, ctrl, storage>>
  BY DEF RspRecv, RspResponse
<1>1. CASE RspRecv
  <2>1. rpc = "recv" /\ rpc' = "resp" /\ op' = op /\ Reading(op.cmd) /\ cmd = op.cmd
    BY <1>0, <1>1, InProgress, ReadsTaken DEF RspRecv, ServerAt, Taken
  <2>2. Visible /\ op.cmd \notin {CMD_WB_WR, CMD_WB_BLOCK_WR32, CMD_CPU_WR_REG, CMD_CPU_CTRL_WR}
    BY <2>1 DEF Visible, Reading, WbCommands, CpuCommands
  <2>3. Performed
    <3>1. (Posted \/ Taken)' BY <2>1 DEF Inductive, Lockstep
    <3>2. command_pipe = << >> /\ spc \in {"resp", "poll"}
      BY <1>0, <2>1, <3>1 DEF Posted, Taken
    <3> QED BY <3>2 DEF Performed
  <2>4. Phase = "performed" /\ Phase' = "idle"
    BY <1>0, <2>1, <2>2, <2>3 DEF Phase, Visible, Performed
  <2>5. ret' = Decode(op, storage)
    <3>1. Head(vpi_to_rsp_pipe).v = storage BY <1>0, <2>1, InductiveFramed DEF Framed
    <3> QED BY <1>1, <3>1 DEF RspRecv
  <2>6. op.cmd \in {CMD_WB_RD32, CMD_WB_RD8, CMD_WB_BLOCK_RD32} \cup {CMD_CPU_RD_REG}
                     \cup {CMD_CPU_CTRL_RD, CMD_READ_JTAG_ID}
    BY <2>1 DEF Reading
  <2>7. Result = Decode(op, storage) /\ Result' = << >> BY <2>1, <2>4 DEF Result
  <2> QED BY <1>0, <2>1, <2>4, <2>5, <2>6, <2>7 DEF Port!Return, Port!target
<1>2. CASE RspResponse
  <2>1. rpc = "resp" /\ rpc' = "run" /\ ret' = ret BY <1>2 DEF RspResponse
  <2>2. Performed
    <3>1. Quiet' BY <2>1 DEF Inductive, Lockstep
    <3> QED BY <1>0, <2>1, <3>1 DEF Quiet, Performed
  <2>3. Phase' = "idle" BY <2>1 DEF Phase
  <2>4. CASE ~Visible \/ Reading(op.cmd)
    <3>1. Phase = "idle" BY <2>1, <2>2, <2>4 DEF Phase
    <3> QED BY <1>0, <2>1, <2>3, <3>1, Stutters
  <2>5. CASE Visible /\ ~Reading(op.cmd)
    <3>1. Phase = "performed" BY <2>1, <2>2, <2>5 DEF Phase
    <3>2. op.cmd \notin {CMD_WB_RD32, CMD_WB_RD8, CMD_WB_BLOCK_RD32} \cup {CMD_CPU_RD_REG}
                          \cup {CMD_CPU_CTRL_RD, CMD_READ_JTAG_ID}
      BY <2>5 DEF Reading
    <3>3. Result' = << >> BY <2>3 DEF Result
    <3> QED BY <1>0, <2>1, <2>3, <2>5, <3>1, <3>2, <3>3 DEF Port!Return, Port!target
  <2> QED BY <2>4, <2>5
<1> QED BY <1>1, <1>2

-----------------------------------------------------------------------------
(* The tasks: this is where an access is performed.                        *)

\* What a task starts from.
LEMMA TaskCalled ==
  ASSUME Inductive, spc = "get", Len(got) = SimWants(cmd, got), Visible
  PROVE  /\ Phase = "called" /\ Request = op /\ Moved = word_pointer
         /\ Result = (IF Reading(op.cmd) THEN storage ELSE << >>)
         /\ cmd = op.cmd /\ got = Sends(op) /\ StepOK(op)
<1>1. rpc # "run" /\ Taken /\ StepOK(op) /\ cmd = op.cmd /\ got = Sends(op) /\ ~Performed
  BY Served
<1>2. ~(rpc = "resp" /\ Reading(op.cmd)) BY <1>1 DEF Taken
<1>3. Phase = "called" BY <1>1, <1>2 DEF Phase
<1> QED BY <1>1, <1>3 DEF Request, Moved, Result

\* What it leaves when it ends, and between two words of a block.
LEMMA TaskPerforms ==
  ASSUME Inductive, spc = "get", Len(got) = SimWants(cmd, got), Visible, UNCHANGED <<rpc, op>>
  PROVE  /\ Request' = op
         /\ spc' \in {"return", "resp"} =>
              /\ Phase' = "performed" /\ Moved' = 0
              /\ Result' = (IF Reading(op.cmd) THEN Decode(op, storage') ELSE << >>)
         /\ spc' = "get" =>
              /\ Phase' = "called" /\ Moved' = word_pointer'
              /\ Result' = (IF Reading(op.cmd) THEN storage' ELSE << >>)
<1>1. rpc # "run" /\ Taken BY Served
<1>2. ~(rpc = "resp" /\ Reading(op.cmd)) BY <1>1, Served DEF Taken
<1>3. Visible' BY DEF Visible
<1>4. ASSUME spc' \in {"return", "resp"} PROVE Phase' = "performed"
  <2>1. Performed' BY <1>4 DEF Performed
  <2> QED BY <1>1, <1>2, <1>3, <2>1 DEF Phase
<1>5. ASSUME spc' = "get" PROVE Phase' = "called"
  <2>1. ~Performed' BY <1>5 DEF Performed
  <2> QED BY <1>1, <1>2, <1>3, <2>1 DEF Phase
<1>6. spc' \in {"return", "resp"} => spc' # "get" OBVIOUS
<1>7. op' = op /\ (Request' = IF Phase' = "idle" THEN NoOp ELSE op') BY DEF Request
<1>8. Phase' # "idle"
  <2>1. Visible' /\ rpc' # "run" /\ ~(rpc' = "resp" /\ Reading(op'.cmd)) BY <1>1, <1>2, <1>3
  <2> QED BY <2>1 DEF Phase
<1>9. ASSUME spc' \in {"return", "resp"}
      PROVE  /\ Phase' = "performed" /\ Moved' = 0
             /\ Result' = (IF Reading(op.cmd) THEN Decode(op, storage') ELSE << >>)
  <2>1. Phase' = "performed" /\ spc' # "get" BY <1>4, <1>6, <1>9
  <2> QED BY <2>1 DEF Moved, Result, Decode
<1>10. ASSUME spc' = "get"
       PROVE  /\ Phase' = "called" /\ Moved' = word_pointer'
              /\ Result' = (IF Reading(op.cmd) THEN storage' ELSE << >>)
  <2>1. Phase' = "called" BY <1>5, <1>10
  <2> QED BY <1>10, <2>1 DEF Moved, Result
<1> QED BY <1>7, <1>8, <1>9, <1>10

\* A request that is not a block is one word; a block has as many as its task moves.
Single == {CMD_WB_RD32, CMD_WB_RD8, CMD_WB_WR, CMD_CPU_CTRL_RD, CMD_CPU_CTRL_WR, CMD_READ_JTAG_ID}

LEMMA Counts ==
  ASSUME NEW o, StepOK(o)
  PROVE  /\ o.cmd \in Single => Port!Count(o) = 1 /\ Port!Whole(o) = 1
         /\ o.cmd \in BlockReads => Port!Count(o) = o.len \div 4
         /\ o.cmd \in BlockWrites => Port!Count(o) = Units(o.len) /\ Port!Whole(o) = o.len \div 4
<1>1. ASSUME o.cmd \in Single PROVE Port!Count(o) = 1 /\ Port!Whole(o) = 1
  <2>1. o.len \in {0, 1, 2, 4} BY <1>1 DEF StepOK, Single
  <2>2. Port!Whole(o) = 1 BY <2>1 DEF Port!Whole
  <2>3. ~(o.len > 4) BY <2>1
  <2> QED BY <2>2, <2>3 DEF Port!Count
<1>2. ASSUME o.cmd \in BlockReads \cup BlockWrites
      PROVE  /\ Port!Whole(o) = o.len \div 4 /\ o.len \div 4 \in Nat
             /\ o.len % 4 # 0 => o.len > 4
  <2>1. o.len \in Nat /\ o.len >= 4 BY <1>2 DEF StepOK, Step
  <2>2. o.len % 4 # 0 => o.len > 4 BY <2>1
  <2> QED BY <2>1, <2>2 DEF Port!Whole
<1>3. ASSUME o.cmd \in BlockReads PROVE Port!Count(o) = o.len \div 4
  <2>1. o.cmd \notin {CMD_WB_WR, CMD_WB_BLOCK_WR32} \cup {CMD_CPU_WR_REG} BY <1>3
  <2>2. Port!Count(o) = Port!Whole(o) + 0 BY <2>1 DEF Port!Count
  <2> QED BY <1>2, <1>3, <2>2
<1>4. ASSUME o.cmd \in BlockWrites PROVE Port!Count(o) = Units(o.len)
  <2>1. o.cmd \in {CMD_WB_WR, CMD_WB_BLOCK_WR32} \cup {CMD_CPU_WR_REG} BY <1>4
  <2>2. Port!Count(o) = Port!Whole(o) + (IF o.len % 4 # 0 THEN 1 ELSE 0)
    BY <1>2, <1>4, <2>1 DEF Port!Count
  <2> QED BY <1>2, <1>4, <2>2 DEF Units
<1> QED BY <1>1, <1>2, <1>3, <1>4

\* A task of one word, all of it.
LEMMA SingleMoves ==
  ASSUME Inductive, Unmoved, spc = "get", Len(got) = SimWants(cmd, got), op.cmd \in Single,
         spc' \in {"return", "resp"}, UNCHANGED <<rpc, op>>
  PROVE  /\ Visible /\ cmd = op.cmd /\ got = Sends(op) /\ StepOK(op) /\ Phase = "called"
         /\ Request = op /\ Request' = op /\ Moved = 0 /\ Result = << >>
         /\ Result' = (IF Reading(op.cmd) THEN Decode(op, storage') ELSE << >>)
         /\ Port!MovesOn
<1>1. Visible BY DEF Visible, Single, WbCommands, CpuCommands
<1>2. /\ Phase = "called" /\ Request = op /\ Moved = word_pointer
      /\ Result = (IF Reading(op.cmd) THEN storage ELSE << >>)
      /\ cmd = op.cmd /\ got = Sends(op) /\ StepOK(op)
  BY <1>1, TaskCalled
<1>3. word_pointer = 0 /\ storage = << >> BY <1>2 DEF Unmoved, Single
<1>4. /\ Request' = op /\ Phase' = "performed" /\ Moved' = 0
      /\ Result' = (IF Reading(op.cmd) THEN Decode(op, storage') ELSE << >>)
  BY <1>1, TaskPerforms
<1>5. Port!Count(op) = 1 BY <1>2, Counts
<1>6. Port!MovesOn BY <1>2, <1>3, <1>4, <1>5 DEF Port!MovesOn, Moved, Request
<1> QED BY <1>1, <1>2, <1>3, <1>4, <1>6

\* A task that moves one word of a block of n.
LEMMA BlockMoves ==
  ASSUME Inductive, spc = "get", Len(got) = SimWants(cmd, got), op.cmd \in BlockReads \cup BlockWrites,
         NEW n, n = Port!Count(op), MoveWord(n, IF Reading(op.cmd) THEN "return" ELSE "resp"),
         UNCHANGED <<rpc, op>>
  PROVE  /\ Visible /\ cmd = op.cmd /\ got = Sends(op) /\ StepOK(op) /\ Phase = "called"
         /\ Request = op /\ Request' = op /\ Moved = word_pointer
         /\ Result = (IF Reading(op.cmd) THEN storage ELSE << >>)
         /\ Result' = (IF Reading(op.cmd) THEN storage' ELSE << >>)
         /\ Port!MovesOn
<1>1. Visible BY DEF Visible, WbCommands, CpuCommands
<1>2. /\ Phase = "called" /\ Request = op /\ Moved = word_pointer
      /\ Result = (IF Reading(op.cmd) THEN storage ELSE << >>)
      /\ cmd = op.cmd /\ got = Sends(op) /\ StepOK(op)
  BY <1>1, TaskCalled
<1>3. Decode(op, storage') = storage' BY DEF Decode
<1>4. CASE word_pointer + 1 = n
  <2>1. spc' \in {"return", "resp"} BY <1>4 DEF MoveWord
  <2>2. /\ Request' = op /\ Phase' = "performed" /\ Moved' = 0
        /\ Result' = (IF Reading(op.cmd) THEN storage' ELSE << >>)
    BY <1>1, <1>3, <2>1, TaskPerforms
  <2>3. Port!MovesOn BY <1>2, <1>4, <2>2 DEF Port!MovesOn, Moved, Request
  <2> QED BY <1>1, <1>2, <2>2, <2>3
<1>5. CASE word_pointer + 1 # n
  <2>1. spc' = "get" /\ word_pointer' = word_pointer + 1 BY <1>5 DEF MoveWord
  <2>2. /\ Request' = op /\ Phase' = "called" /\ Moved' = word_pointer + 1
        /\ Result' = (IF Reading(op.cmd) THEN storage' ELSE << >>)
    BY <1>1, <2>1, TaskPerforms
  <2>3. Port!MovesOn BY <1>2, <1>5, <2>2 DEF Port!MovesOn, Moved, Request
  <2> QED BY <1>1, <1>2, <2>2, <2>3
<1> QED BY <1>4, <1>5

\* The two bits of the control register go through dbg_ctrl_read unharmed.
LEMMA CtrlDecoded ==
  ASSUME NEW x \in 0 .. 3
  PROVE  LET v == (x \div 2) + 2 * (x % 2) IN 2 * (v % 2) + ((v \div 2) % 2) = x
<1>1. x = 0 \/ x = 1 \/ x = 2 \/ x = 3 OBVIOUS
<1> QED BY <1>1

\* A task that reads one word.
LEMMA ReadPerforms ==
  ASSUME Inductive, Unmoved, SimRead
  PROVE  Port!Access
<1> USE DEF simRest, rspVars, tgtVars
<1>0. /\ spc = "get" /\ Len(got) = SimWants(cmd, got) /\ spc' = "return" /\ storage' = <<Answer>>
      /\ Reading(cmd) /\ cmd \notin BlockReads
      /\ UNCHANGED <<rpc, op, ret, wb, spr, ctrl>>
  BY DEF SimRead, Serving
<1>1. cmd = op.cmd /\ StepOK(op) /\ op.cmd \in Single BY <1>0, Served DEF Reading, Single
<1>2. /\ got = Sends(op) /\ Phase = "called" /\ Request = op /\ Request' = op /\ Moved = 0
      /\ Result = << >> /\ Port!MovesOn /\ Result' = Decode(op, <<Answer>>)
  BY <1>0, <1>1, SingleMoves
<1>3. RightModule /\ word_pointer = 0 BY <1>0, <1>1, InductiveRight DEF Unmoved, Single
<1>4. op.adr \in Nat /\ ctrl \in 0 .. 3 BY <1>1 DEF StepOK, Step, Inductive, TypeOK
<1>5. CASE cmd \in {CMD_WB_RD32, CMD_WB_RD8}
  <2>1. got = <<op.adr>> BY <1>1, <1>2, <1>5 DEF Sends
  <2>2. got[1] + word_pointer = op.adr /\ op.adr + 0 = op.adr BY <1>3, <1>4, <2>1
  <2>3. Answer = Cell(wb, op.adr)
    BY <1>0, <1>3, <1>5, <2>2 DEF Answer, RightModule, WbCommands
  <2>4. Result' = Append(<< >>, Answer) BY <1>1, <1>2, <1>5 DEF Decode
  <2>5. Port!ReadWord(wb)
    BY <1>2, <2>2, <2>3, <2>4 DEF Port!ReadWord, Port!Here, Cell, Moved, Request
  <2> QED BY <1>0, <1>1, <1>2, <1>5, <2>5 DEF Port!Access, Port!target, Request
<1>6. CASE cmd = CMD_CPU_CTRL_RD
  <2> DEFINE x == (ctrl \div 2) + 2 * (ctrl % 2)
  <2>1. Answer = x BY <1>0, <1>3, <1>6 DEF Answer, RightModule, CpuCommands
  <2>2. Result' = << 2 * (x % 2) + ((x \div 2) % 2) >>
    <3> HIDE DEF x
    <3> QED BY <1>1, <1>2, <1>6, <2>1 DEF Decode
  <2>3. 2 * (x % 2) + ((x \div 2) % 2) = ctrl BY <1>4, CtrlDecoded
  <2>4. Result' = <<ctrl>> BY <2>2, <2>3
  <2> QED BY <1>0, <1>1, <1>2, <1>6, <2>4 DEF Port!Access, Port!target, Request
<1>7. CASE cmd = CMD_READ_JTAG_ID
  <2>1. Answer = IdCode BY <1>0, <1>3, <1>7 DEF Answer, RightModule
  <2>2. Result' = <<IdCode>> BY <1>1, <1>2, <1>7, <2>1 DEF Decode
  <2> QED BY <1>0, <1>1, <1>2, <1>7, <2>2 DEF Port!Access, Port!target, Request
<1> QED BY <1>0, <1>5, <1>6, <1>7 DEF Reading

\* A word of a block read, of memory or of registers.
LEMMA BlockRdPerforms ==
  ASSUME Inductive, SimBlockRd
  PROVE  Port!Access
<1> USE DEF simRest, rspVars, tgtVars
<1>0. /\ spc = "get" /\ Len(got) = SimWants(cmd, got) /\ storage' = Append(storage, Answer)
      /\ cmd \in BlockReads /\ MoveWord(got[2] \div 4, "return")
      /\ UNCHANGED <<rpc, op, ret, wb, spr, ctrl>>
  BY DEF SimBlockRd, Serving
<1>1. cmd = op.cmd /\ StepOK(op) /\ got = Sends(op) /\ Reading(op.cmd)
  BY <1>0, Served DEF Reading
<1>2. got[1] = op.adr /\ got[2] = op.len BY <1>0, <1>1, SendsFact
<1>3. got[2] \div 4 = Port!Count(op) BY <1>0, <1>1, <1>2, Counts
<1>4. /\ Phase = "called" /\ Request = op /\ Request' = op /\ Moved = word_pointer
      /\ Result = storage /\ Result' = Append(storage, Answer) /\ Port!MovesOn
  <2>1. MoveWord(got[2] \div 4, IF Reading(op.cmd) THEN "return" ELSE "resp") BY <1>0, <1>1
  <2> HIDE DEF MoveWord
  <2> QED BY <1>0, <1>1, <1>3, <2>1, BlockMoves
<1>5. RightModule BY InductiveRight
<1>6. CASE cmd = CMD_WB_BLOCK_RD32
  <2>1. Answer = Cell(wb, op.adr + word_pointer)
    BY <1>0, <1>2, <1>5, <1>6 DEF Answer, RightModule, WbCommands
  <2>2. Port!ReadWord(wb)
    BY <1>4, <2>1 DEF Port!ReadWord, Port!Here, Cell, Moved, Request
  <2> QED BY <1>0, <1>1, <1>4, <1>6, <2>2 DEF Port!Access, Port!target, Request
<1>7. CASE cmd = CMD_CPU_RD_REG
  <2>1. Answer = Cell(spr, op.adr + word_pointer)
    BY <1>0, <1>2, <1>5, <1>7 DEF Answer, RightModule, CpuCommands
  <2>2. Port!ReadWord(spr)
    BY <1>4, <2>1 DEF Port!ReadWord, Port!Here, Cell, Moved, Request
  <2> QED BY <1>0, <1>1, <1>4, <1>7, <2>2 DEF Port!Access, Port!target, Request
<1> QED BY <1>0, <1>6, <1>7

\* The data of a block write as its task finds them.
LEMMA BlockData ==
  ASSUME StepOK(op), got = Sends(op), op.cmd \in BlockWrites
  PROVE  /\ got[1] = op.adr /\ got[2] = op.len /\ op.adr \in Nat /\ op.len \div 4 \in Nat
         /\ \A k \in Nat : k < op.len \div 4 =>
              /\ got[k + 3] = op.data[k + 1] /\ op.data[k + 1] \in Word
              /\ SubSeq(got, 3, Len(got))[k + 1] = op.data[k + 1]
<1>1. /\ got \in Seq(Int) /\ Len(got) = 2 + Len(op.data) /\ got[1] = op.adr /\ got[2] = op.len
      /\ \A k \in 1 .. Len(op.data) : got[k + 2] = op.data[k]
  BY SendsFact
<1>2. /\ op.adr \in Nat /\ op.len \in Nat
      /\ op.data \in Seq(Word) /\ Len(op.data) = Units(op.len)
  BY DEF StepOK, Step
<1> DEFINE w == op.len \div 4  q == SubSeq(got, 3, Len(got))
<1>3. Len(op.data) \in Nat /\ w \in Nat /\ w <= Len(op.data)
  <2>1. w \in Nat /\ (Units(op.len) = w \/ Units(op.len) = w + 1) BY <1>2, UnitsFact
  <2> HIDE DEF w
  <2> QED BY <1>2, <2>1
<1>4. q \in Seq(Int) /\ Len(q) = Len(op.data) /\ \A k \in 1 .. Len(q) : q[k] = got[3 + k - 1]
  BY <1>1, <1>3, SubSeqProperties, SMTT(30)
<1> HIDE DEF q, w
<1>5. ASSUME NEW k \in Nat, k < w
      PROVE  got[k + 3] = op.data[k + 1] /\ op.data[k + 1] \in Word /\ q[k + 1] = op.data[k + 1]
  <2>1. k + 1 \in 1 .. Len(op.data) /\ (k + 1) + 2 = k + 3 /\ 3 + (k + 1) - 1 = k + 3 BY <1>3, <1>5
  <2>2. got[(k + 1) + 2] = op.data[k + 1] BY <1>1, <2>1
  <2>3. op.data[k + 1] \in Word BY <1>2, <2>1, ElementOfSeq
  <2>4. q[k + 1] = got[3 + (k + 1) - 1] BY <1>4, <2>1
  <2> QED BY <2>1, <2>2, <2>3, <2>4
<1> QED BY <1>1, <1>2, <1>3, <1>5 DEF q, w

\* A word of a block write of memory.
LEMMA BlockWrPerforms ==
  ASSUME Inductive, SimBlockWr, Inductive'
  PROVE  Port!Access
<1> USE DEF simRest, rspVars
<1>0. /\ spc = "get" /\ Len(got) = SimWants(cmd, got) /\ cmd = CMD_WB_BLOCK_WR32
      /\ MoveWord(Units(got[2]), "resp") /\ UNCHANGED <<rpc, op, ret, spr, ctrl, storage>>
  BY DEF SimBlockWr, Serving
<1>1. cmd = op.cmd /\ StepOK(op) /\ got = Sends(op) /\ ~Reading(op.cmd)
  BY <1>0, Served DEF Reading
<1>2. /\ got[1] = op.adr /\ got[2] = op.len /\ op.adr \in Nat /\ op.len \div 4 \in Nat
      /\ \A k \in Nat : k < op.len \div 4 => got[k + 3] = op.data[k + 1]
  BY <1>0, <1>1, BlockData
<1>3. Units(got[2]) = Port!Count(op) /\ Port!Whole(op) = op.len \div 4 BY <1>0, <1>1, <1>2, Counts
<1>4. /\ Phase = "called" /\ Request = op /\ Request' = op /\ Moved = word_pointer
      /\ Result = << >> /\ Result' = << >> /\ Port!MovesOn
  <2>1. MoveWord(Units(got[2]), IF Reading(op.cmd) THEN "return" ELSE "resp") BY <1>0, <1>1
  <2> HIDE DEF MoveWord
  <2> QED BY <1>0, <1>1, <1>3, <2>1, BlockMoves
<1>5. Through(DC_WISHBONE) BY <1>0, InductiveRight DEF RightModule, WbCommands
<1>6. PICK w \in Word : /\ NextWord(w, got[word_pointer + 3])
                        /\ wb' = Put(wb, op.adr + word_pointer, w)
  BY <1>2, <1>5 DEF SimBlockWr
<1>7. word_pointer \in Nat /\ wb' \in [Adr -> Word] BY DEF Inductive, TypeOK
<1>8. Port!WriteWord(wb, wb')
  <2>1. \A x \in Adr \ {op.adr + word_pointer} : wb'[x] = wb[x] BY <1>6 DEF Put
  <2> QED BY <1>4, <1>7, <2>1 DEF Port!WriteWord, Port!Here, Moved, Request
<1>9. Port!MemGets(wb')
  <2>1. ASSUME op.adr + word_pointer \in Adr, word_pointer < op.len \div 4
        PROVE  wb'[op.adr + word_pointer] = op.data[word_pointer + 1]
    <3>1. w = op.data[word_pointer + 1] BY <1>2, <1>6, <1>7, <2>1 DEF NextWord
    <3> QED BY <1>6, <2>1, <3>1 DEF Put
  <2> QED BY <1>3, <1>4, <2>1 DEF Port!MemGets, Port!Here, Moved, Request
<1> QED BY <1>0, <1>1, <1>4, <1>8, <1>9 DEF Port!Access, Request, Result

\* All that debug_cpu_go may change in a word is its top bit.
LEMMA ShiftKeeps ==
  ASSUME NEW d, NEW k \in Nat, d[k + 1] \in Word, k # 0 => d[k] \in Word
  PROVE  /\ k = 0 => CpuShift(d, k + 1) = d[1]
         /\ Port!Low(CpuShift(d, k + 1)) = Port!Low(d[k + 1])
<1>1. k # 0 => k + 1 # 1 /\ (k + 1) - 1 = k OBVIOUS
<1>2. CASE k = 0 BY <1>2 DEF CpuShift
<1>3. CASE k # 0
  <2>1. PICK x \in Word : x = d[k + 1] OBVIOUS
  <2>2. PICK y \in Word : y = d[k] BY <1>3
  <2>3. CpuShift(d, k + 1) = x - Msb(x) + Msb(y) BY <1>1, <1>3, <2>1, <2>2 DEF CpuShift
  <2>4. Port!Low(x - Msb(x) + Msb(y)) = Port!Low(x)
    <3>1. PICK z : z = x - Msb(x) + Msb(y) OBVIOUS
    <3>2. (IF z >= Half THEN z - Half ELSE z) = (IF x >= Half THEN x - Half ELSE x)
      BY <3>1, WordAssumption DEF Word, Msb
    <3>3. Port!Low(z) = Port!Low(x) BY <3>2 DEF Port!Low
    <3> QED BY <3>1, <3>3
  <2> QED BY <1>3, <2>1, <2>3, <2>4, Zenon
<1> QED BY <1>2, <1>3

\* A register of a block write.
LEMMA RegPerforms ==
  ASSUME Inductive, SimRegWr, Inductive'
  PROVE  Port!Access
<1> USE DEF simRest, rspVars
<1> DEFINE q == SubSeq(got, 3, Len(got))
<1>0. /\ spc = "get" /\ Len(got) = SimWants(cmd, got) /\ cmd = CMD_CPU_WR_REG
      /\ MoveWord(Units(got[2]), "resp") /\ UNCHANGED <<rpc, op, ret, wb, ctrl, storage>>
  BY DEF SimRegWr, Serving
<1>1. cmd = op.cmd /\ StepOK(op) /\ got = Sends(op) /\ ~Reading(op.cmd)
  BY <1>0, Served DEF Reading
<1>2. /\ got[1] = op.adr /\ got[2] = op.len /\ op.adr \in Nat /\ op.len \div 4 \in Nat
      /\ \A k \in Nat : k < op.len \div 4 => q[k + 1] = op.data[k + 1] /\ op.data[k + 1] \in Word
  BY <1>0, <1>1, BlockData
<1>3. Units(got[2]) = Port!Count(op) /\ Port!Whole(op) = op.len \div 4 BY <1>0, <1>1, <1>2, Counts
<1>4. /\ Phase = "called" /\ Request = op /\ Request' = op /\ Moved = word_pointer
      /\ Result = << >> /\ Result' = << >> /\ Port!MovesOn
  <2>1. MoveWord(Units(got[2]), IF Reading(op.cmd) THEN "return" ELSE "resp") BY <1>0, <1>1
  <2> HIDE DEF MoveWord
  <2> QED BY <1>0, <1>1, <1>3, <2>1, BlockMoves
<1>5. Through(DC_CPU0) BY <1>0, InductiveRight DEF RightModule, CpuCommands
<1>6. PICK w \in Word : /\ NextWord(w, CpuShift(q, word_pointer + 1))
                        /\ spr' = Put(spr, op.adr + word_pointer, w)
  BY <1>2, <1>5 DEF SimRegWr
<1>7. word_pointer \in Nat /\ spr' \in [Adr -> Word] BY DEF Inductive, TypeOK
<1> HIDE DEF q
<1>8. Port!WriteWord(spr, spr')
  <2>1. \A x \in Adr \ {op.adr + word_pointer} : spr'[x] = spr[x] BY <1>6 DEF Put
  <2> QED BY <1>4, <1>7, <2>1 DEF Port!WriteWord, Port!Here, Moved, Request
<1>9. Port!RegGets(spr')
  <2>1. ASSUME op.adr + word_pointer \in Adr, word_pointer < op.len \div 4
        PROVE  /\ Port!Low(spr'[op.adr + word_pointer]) = Port!Low(op.data[word_pointer + 1])
               /\ word_pointer = 0 => spr'[op.adr + word_pointer] = op.data[1]
    <3>1. w = CpuShift(q, word_pointer + 1) BY <1>2, <1>6, <2>1 DEF NextWord
    <3>2. q[word_pointer + 1] = op.data[word_pointer + 1] /\ op.data[word_pointer + 1] \in Word
      BY <1>2, <1>7, <2>1
    <3>3. word_pointer # 0 => q[word_pointer] \in Word
      <4> SUFFICES ASSUME word_pointer # 0 PROVE q[word_pointer] \in Word OBVIOUS
      <4>1. word_pointer - 1 \in Nat /\ word_pointer - 1 < op.len \div 4 /\ (word_pointer - 1) + 1 = word_pointer
        BY <1>2, <1>7, <2>1
      <4> QED BY <1>2, <4>1
    <3>4. /\ word_pointer = 0 => w = q[1]
          /\ Port!Low(w) = Port!Low(op.data[word_pointer + 1])
      BY <1>7, <3>1, <3>2, <3>3, ShiftKeeps
    <3>5. spr'[op.adr + word_pointer] = w BY <1>6, <2>1 DEF Put
    <3>6. word_pointer = 0 => q[1] = op.data[1] BY <3>2
    <3> QED BY <3>4, <3>5, <3>6
  <2> QED BY <1>3, <1>4, <2>1 DEF Port!RegGets, Port!Here, Moved, Request
<1> QED BY <1>0, <1>1, <1>4, <1>8, <1>9 DEF Port!Access, Request, Result

\* A write of a word, a half word or a byte, and of the control register.
LEMMA WordPerforms ==
  ASSUME Inductive, Unmoved, SimWbWr \/ SimCtrlWr, Inductive'
  PROVE  Port!Access
<1> USE DEF simRest, rspVars
<1>0. /\ spc = "get" /\ Len(got) = SimWants(cmd, got) /\ spc' = "resp"
      /\ cmd \in {CMD_WB_WR, CMD_CPU_CTRL_WR}
      /\ UNCHANGED <<rpc, op, ret, spr, storage>>
  BY DEF SimWbWr, SimCtrlWr, Serving
<1>1. cmd = op.cmd /\ StepOK(op) /\ op.cmd \in Single /\ ~Reading(op.cmd)
  BY <1>0, Served DEF Single, Reading
<1>2. /\ got = Sends(op) /\ Phase = "called" /\ Request = op /\ Request' = op /\ Moved = 0
      /\ Result = << >> /\ Result' = << >> /\ Port!MovesOn
  BY <1>0, <1>1, SingleMoves
<1>3. RightModule /\ wb' \in [Adr -> Word] BY InductiveRight DEF Inductive, TypeOK
<1>4. CASE SimWbWr
  <2>1. op.cmd = CMD_WB_WR /\ ctrl' = ctrl /\ Through(DC_WISHBONE)
    BY <1>1, <1>3, <1>4 DEF SimWbWr, Serving, RightModule, WbCommands
  <2>2. got[1] = op.adr /\ got[3] = op.data[1] /\ op.adr \in Nat
    <3>1. /\ Len(op.data) = 1 /\ got[1] = op.adr
          /\ \A k \in 1 .. Len(op.data) : got[k + 2] = op.data[k]
      BY <1>1, <1>2, <2>1, SendsFact DEF StepOK
    <3>2. 1 \in 1 .. Len(op.data) /\ 1 + 2 = 3 BY <3>1
    <3>3. got[1 + 2] = op.data[1] BY <3>1, <3>2
    <3> QED BY <1>1, <3>1, <3>2, <3>3 DEF StepOK, Step
  <2>3. wb' = Put(wb, op.adr, op.data[1]) BY <1>4, <2>1, <2>2 DEF SimWbWr
  <2>4. op.adr + 0 = op.adr /\ 0 + 1 = 1 BY <2>2
  <2>5. Port!WriteWord(wb, wb')
    <3>1. \A x \in Adr \ {op.adr} : wb'[x] = wb[x] BY <2>3 DEF Put
    <3> QED BY <1>2, <1>3, <2>4, <3>1 DEF Port!WriteWord, Port!Here, Moved, Request
  <2>6. Port!MemGets(wb')
    <3>1. op.adr \in Adr => wb'[op.adr] = op.data[1] BY <2>3 DEF Put
    <3> QED BY <1>2, <2>4, <3>1 DEF Port!MemGets, Port!Here, Moved, Request
  <2> QED BY <1>0, <1>2, <2>1, <2>5, <2>6 DEF Port!Access, Request, Result
<1>5. CASE SimCtrlWr
  <2>1. op.cmd = CMD_CPU_CTRL_WR /\ wb' = wb /\ Through(DC_CPU0)
    BY <1>1, <1>3, <1>5 DEF SimCtrlWr, Serving, RightModule, CpuCommands
  <2>2. got = op.data /\ op.data \in {<<0>>, <<1>>} BY <1>1, <1>2, <2>1, SendsFact DEF StepOK
  <2>3. got[1] % 4 = op.data[1] BY <2>2
  <2>4. ctrl' = op.data[1] BY <1>5, <2>1, <2>3 DEF SimCtrlWr
  <2> QED BY <1>0, <1>2, <2>1, <2>4 DEF Port!Access, Request, Result
<1> QED BY <1>4, <1>5

\* The tasks that drive the TAP, and the detach, touch no cell and are no access.
LEMMA TapHides ==
  ASSUME Inductive, SimReset \/ SimSetIr \/ SimSetChain \/ SimDetached
  PROVE  UNCHANGED Port!portVars
<1> USE DEF simRest, rspVars, tgtVars
<1>0. /\ spc = "get" /\ Len(got) = SimWants(cmd, got)
      /\ cmd \in {CMD_RESET, CMD_JTAG_SET_IR, CMD_SET_DEBUG_CHAIN, CMD_GDB_DETACH}
      /\ UNCHANGED <<rpc, op, ret, wb, spr, ctrl>>
  BY DEF SimReset, SimSetIr, SimSetChain, SimDetached, Serving
<1>1. cmd = op.cmd BY <1>0, Served
<1>2. ~Visible /\ ~Visible' BY <1>0, <1>1 DEF Visible, WbCommands, CpuCommands
<1>3. Phase = "idle" /\ Phase' = "idle" BY <1>2 DEF Phase
<1> QED BY <1>0, <1>3, Stutters

\* The CPU's own steps.
LEMMA CpuComputes ==
  ASSUME Inductive', CpuRun
  PROVE  Port!Compute
<1> USE DEF simVars, rspVars
<1>1. UNCHANGED <<rpc, op, ret, spr, spc, command_pipe, storage, word_pointer>> BY DEF CpuRun
<1>2. Phase' = Phase BY <1>1 DEF Phase, Visible, Performed
<1>3. wb' \in [Adr -> Word] BY DEF Inductive, TypeOK
<1>4. Result' = Result BY <1>1, <1>2 DEF Result, Decode
<1> QED BY <1>1, <1>2, <1>3, <1>4 DEF Port!Compute, CpuRun

-----------------------------------------------------------------------------
\* Initially no call is in progress.
LEMMA PortInitially == Init => Port!PortInit
<1> SUFFICES ASSUME Init PROVE Port!PortInit OBVIOUS
<1>1. Phase = "idle" BY DEF Init, Phase
<1>2. Result = << >> BY <1>1 DEF Result
<1> QED BY <1>1, <1>2 DEF Init, Port!PortInit

\* Every step of the link is a step of the port or shows nothing.
LEMMA PortStep ==
  ASSUME Inductive, Inductive', Unmoved, [Next]_vars
  PROVE  [Port!PortNext]_(Port!portVars)
<1> USE DEF Port!PortNext
<1>1. CASE UNCHANGED vars
  <2>1. UNCHANGED <<rpc, op, wb, spr, ctrl, ret, spc, command_pipe, storage, word_pointer>>
    BY <1>1 DEF vars, rspVars, simVars, tgtVars
  <2> QED BY <2>1, SamePhase DEF Performed
<1>2. CASE RspNext \/ RspKilled
  BY <1>2, ServerHides, CommandCalls, ServerReturns DEF RspNext
<1>3. CASE SimPoll \/ SimGet \/ SimReturn \/ SimRespond \/ SimFinish
  BY <1>3, SimHides
<1>4. CASE SimServe
  BY <1>4, RegPerforms, BlockWrPerforms, WordPerforms, ReadPerforms, BlockRdPerforms, TapHides, Zenon
     DEF SimServe
<1>5. CASE CpuRun BY <1>5, CpuComputes
<1> QED BY <1>1, <1>2, <1>3, <1>4, <1>5 DEF Next, SimNext

\* Seen from the stub, an access function of rsp-rtl_sim.c moves the words of its
\* request one at a time, in order, each once, and touches nothing else, for any
\* addresses, word width and block lengths; of a register block, debug_cpu_go
\* may change the top bit of every word after the first, and nothing more.
THEOREM LinkIsPort == Spec => WordAccess
BY PortInitially, PortStep, AlwaysInductive, AlwaysUnmoved, PTL DEF Spec, WordAccess, Port!PortSpec
=============================================================================
