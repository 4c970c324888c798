--------------------------- MODULE GdbStubProofs ---------------------------
(***************************************************************************)
(* Proofs about GdbStub, for any program, any number of clients, requests  *)
(* and interrupts.                                                         *)
(***************************************************************************)
EXTENDS GdbStubProps, TLAPS

(* The inductive invariant: the stub's idea of the target is right.  Each  *)
(* part needs StallKnown: a processor that runs changes the target, and    *)
(* does so only while the stub holds no signal and no NPC.                 *)
TargetKnown ==
    /\ TypeOK
    /\ StallKnown
    /\ SignalKnown
    /\ BreakpointsExact
    /\ NpcKnown

(* What is known of a packet. *)
LEMMA PacketType ==
    /\ \A k \in AllKinds : Makes(k) \subseteq Packets
    /\ \A p \in Packets : /\ p.k \in AllKinds
                          /\ p.a \in Adr \cup {0}
                          /\ p.k \in {"P", "Z0", "z0"} => p.a \in Adr
<1>1. \A k \in AllKinds : Makes(k) \subseteq Packets
  BY DEF Packets
<1>2. ASSUME NEW p \in Packets
      PROVE  /\ p.k \in AllKinds
             /\ p.a \in Adr \cup {0}
             /\ p.k \in {"P", "Z0", "z0"} => p.a \in Adr
  <2>1. PICK k \in AllKinds : p \in Makes(k)
    BY DEF Packets
  <2>2. p.k = k
    BY <2>1 DEF Makes
  <2>3. p.a \in Adr \cup {0}
    BY <2>1 DEF Makes, NoAddress
  <2>4. k \in {"P", "Z0", "z0"} => p.a \in Adr
    BY <2>1 DEF Makes, WithAddress, MayHaveAddress
  <2> QED BY <2>2, <2>3, <2>4
<1> QED BY <1>1, <1>2

LEMMA InitKnown == Init => TargetKnown
<1> SUFFICES ASSUME Init PROVE TargetKnown
  OBVIOUS
<1> USE StubAssumption DEF Init, NotCached, NoAddress, TARGET_SIGNAL_NONE,
        TARGET_SIGNAL_TRAP, TARGET_SIGNAL_BUS, Signals
<1>1. /\ StallKnown
      /\ SignalKnown
      /\ BreakpointsExact
      /\ NpcKnown
  BY DEF StallKnown, SignalKnown, BreakpointsExact, NpcKnown
<1>2. reply \in Replies
  BY DEF Replies, Values, Reply, AllKinds
<1>3. req \in Packets
  <2>1. "H" \in AllKinds
    BY DEF AllKinds
  <2>2. req \in Makes("H")
    BY DEF Makes, WithAddress, MayHaveAddress
  <2> QED BY <2>1, <2>2, PacketType
<1>8. gdb \in ClientStates
  BY DEF ClientStates, AllKinds
<1>4. inbox \in Seq(Incoming)
  OBVIOUS
<1>5. outbox \in Seq(Outgoing)
  OBVIOUS
<1>6. /\ mp_hash \in [Adr -> {"absent", "insn", "trap"}]
      /\ mem \in [Adr -> {"insn", "trap"}]
  OBVIOUS
<1>7. budget \in Budgets /\ cpu \in CpuStates
  BY DEF Budgets, CpuStates
<1> QED
  BY <1>1, <1>2, <1>3, <1>4, <1>5, <1>6, <1>7, <1>8 DEF TargetKnown, TypeOK

-----------------------------------------------------------------------------
(* Facts about the pieces the actions are made of.                         *)

(* Sequences: what is appended and what is taken.                          *)
LEMMA SeqType ==
    ASSUME NEW S, NEW s \in Seq(S)
    PROVE  /\ \A x \in S : Append(s, x) \in Seq(S)
           /\ s # <<>> => Tail(s) \in Seq(S) /\ Head(s) \in S
  OBVIOUS

(* What travels over the connection.                                       *)
LEMMA Characters ==
    /\ ACK \in Incoming /\ ETX \in Incoming /\ Packets \subseteq Incoming
    /\ Plus \in Outgoing /\ Replies \subseteq Outgoing
  BY DEF Incoming, Outgoing

(* A reply is a reply to a request or a stop reply.                        *)
LEMMA ReplyType ==
    ASSUME NEW to \in AllKinds \cup {"stop"}, NEW v \in Values
    PROVE  Reply(to, v) \in Replies
  BY DEF Reply, Replies

(* What the clients may still do is used up one at a time.                 *)
LEMMA BudgetType ==
    ASSUME budget \in Budgets
    PROVE  /\ budget.ask > 0 => [budget EXCEPT !.ask = @ - 1] \in Budgets
           /\ budget.etx > 0 => [budget EXCEPT !.etx = @ - 1] \in Budgets
           /\ budget.clients > 0 => [budget EXCEPT !.clients = @ - 1] \in Budgets
<1>1. /\ MaxAsked \in Nat /\ MaxEtx \in Nat /\ MaxClients \in Nat
  BY StubAssumption
<1>2. /\ budget.ask \in 0..MaxAsked
      /\ budget.etx \in 0..MaxEtx
      /\ budget.clients \in 0..MaxClients
  BY DEF Budgets
<1>3. /\ budget.ask > 0 => budget.ask - 1 \in 0..MaxAsked
      /\ budget.etx > 0 => budget.etx - 1 \in 0..MaxEtx
      /\ budget.clients > 0 => budget.clients - 1 \in 0..MaxClients
  BY <1>1, <1>2
<1> QED BY <1>3 DEF Budgets

(* The registers read: the NPC, or zero.                                   *)
LEMMA NpcTypes ==
    ASSUME TypeOK
    PROVE  /\ NpcRegister \in Adr \cup {0}
           /\ \A st \in {"STALLED", "UNSTALLED"} :
                 \A c \in Adr \cup {0, NotCached} :
                   get_npc(st, c) \in Adr \cup {0}
  BY DEF TypeOK, CpuStates, NpcRegister, get_npc, NotCached

(* Writing the NPC of a stalled processor: the cache holds the address,    *)
(* and so does the processor.                                              *)
LEMMA SetNpc ==
    ASSUME TypeOK, StallKnown, NpcKnown, NEW a \in Adr, set_npc(a)
    PROVE  /\ cpu' \in CpuStates
           /\ npcCache' \in Adr \cup {0, NotCached}
           /\ cpu'.stalled = cpu.stalled
           /\ npcCache' # NotCached => stallState = "STALLED" /\ npcCache' = cpu'.npc
  BY StubAssumption
  DEF TypeOK, CpuStates, StallKnown, NpcKnown, set_npc, CpuWithNpc,
      CacheAfterSet, get_npc, NpcRegister, NotCached

-----------------------------------------------------------------------------
(* Steps that leave the target, and what the stub knows of it, alone.      *)

known == <<stallState, sigval, npcCache, mp_hash, cpu, mem>>

LEMMA KnownStays ==
    ASSUME TargetKnown, TypeOK', UNCHANGED known
    PROVE  TargetKnown'
  BY DEF TargetKnown, known, StallKnown, SignalKnown, BreakpointsExact, NpcKnown

(* The main loop's own steps. *)
LEMMA LoopStep ==
    ASSUME TargetKnown,
           GetClient \/ CheckRunning \/ PeekNothing \/ PeekIgnored
             \/ PeekRequest \/ GetSkips \/ GetPacket \/ GetEof
    PROVE  TargetKnown'
<1> USE DEF TypeOK
<1>0. TypeOK
  BY DEF TargetKnown
<1>1. CASE GetClient
  <2>1. budget' \in Budgets
    BY <1>0, <1>1, BudgetType DEF GetClient
  <2>2. gdb' \in ClientStates
    BY <1>0, <1>1 DEF GetClient, ClientStates
  <2>3. inbox' \in Seq(Incoming) /\ outbox' \in Seq(Outgoing)
    BY <1>1 DEF GetClient
  <2>4. UNCHANGED <<pc, stallState, sigval, npcCache, mp_hash, req, reply, then, cpu, mem>>
    BY <1>1 DEF GetClient
  <2>5. client_waiting' \in BOOLEAN /\ conn' \in {"none", "up", "eof"}
    BY <1>1 DEF GetClient
  <2> QED BY <1>0, <2>1, <2>2, <2>3, <2>4, <2>5, KnownStays DEF known
<1>2. CASE CheckRunning \/ PeekNothing \/ PeekIgnored \/ PeekRequest \/ GetEof
  BY <1>0, <1>2, KnownStays
  DEF CheckRunning, PeekNothing, PeekIgnored, PeekRequest, GetEof, known, net, client
<1>3. CASE GetSkips
  BY <1>0, <1>3, KnownStays DEF GetSkips, known, stub, client
<1>4. CASE GetPacket
  <2>1. outbox' \in Seq(Outgoing)
    BY <1>0, <1>4, SeqType, Characters DEF GetPacket
  <2>2. req' \in Packets /\ inbox' \in Seq(Incoming)
    BY <1>0, <1>4, SeqType DEF GetPacket
  <2>3. conn' \in {"none", "up", "eof"}
    BY <1>4 DEF GetPacket
  <2> QED BY <1>0, <1>4, <2>1, <2>2, <2>3, KnownStays DEF GetPacket, known, client
<1> QED BY <1>1, <1>2, <1>3, <1>4

(* put_packet. *)
LEMMA PutStep ==
    ASSUME TargetKnown,
           PutWrites \/ PutFails \/ PutAcknowledged \/ PutAgain \/ PutEof
    PROVE  TargetKnown'
<1>0. TypeOK
  BY DEF TargetKnown
<1>1. CASE PutWrites
  <2>1. outbox' \in Seq(Outgoing)
    BY <1>0, <1>1, SeqType, Characters DEF PutWrites, TypeOK
  <2> QED BY <1>0, <1>1, <2>1, KnownStays DEF PutWrites, TypeOK, known, client
<1>2. ASSUME NEW c \in {"none", "up", "eof"}, PutReturns(c)
      PROVE  /\ pc' \in {"top", "peek", "exit"}
             /\ client_waiting' \in BOOLEAN
             /\ conn' \in {"none", "up", "eof"}
             /\ UNCHANGED <<stallState, sigval, npcCache, mp_hash, req, reply, then>>
  BY <1>0, <1>2 DEF PutReturns, StillWaiting, TypeOK
<1>3. CASE PutFails
  BY <1>0, <1>2, <1>3, KnownStays DEF PutFails, TypeOK, known, client
<1>4. CASE PutAcknowledged
  <2>1. PutReturns(conn) /\ conn \in {"none", "up", "eof"}
    BY <1>0, <1>4 DEF PutAcknowledged, TypeOK
  <2> QED BY <1>0, <1>2, <1>4, <2>1, KnownStays
          DEF PutAcknowledged, TypeOK, known, client
<1>5. CASE PutAgain
  BY <1>0, <1>5, KnownStays DEF PutAgain, TypeOK, known, client
<1>6. CASE PutEof
  BY <1>0, <1>2, <1>6, KnownStays DEF PutEof, TypeOK, known, client
<1> QED BY <1>1, <1>3, <1>4, <1>5, <1>6

(* Requests that do not touch the target. *)
LEMMA InformStep ==
    ASSUME TargetKnown,
           CycleStep \/ LastSignal \/ ReadAllRegs \/ Answer \/ Ignore \/ Detach
             \/ ResumeWithSignal
    PROVE  TargetKnown'
<1>0. TypeOK
  BY DEF TargetKnown
<1>1. ASSUME NEW to \in AllKinds \cup {"stop"}, NEW v \in Values,
             NEW t \in {"reported", "interrupted", "replied", "detached"},
             Put(Reply(to, v), t)
      PROVE  pc' = "put" /\ reply' \in Replies /\ then' = t
  BY <1>1, ReplyType DEF Put
<1>2. {"?", "g", "H", "D"} \subseteq AllKinds
  BY DEF AllKinds
<1>3. 0 \in Values /\ sigval \in Values /\ NpcRegister \in Values
  BY <1>0, NpcTypes DEF Values, TypeOK
<1>4. CASE CycleStep \/ Ignore \/ ResumeWithSignal
  BY <1>0, <1>4, KnownStays
  DEF CycleStep, Ignore, ResumeWithSignal, TypeOK, known, net, client
<1>5. CASE LastSignal
  BY <1>0, <1>1, <1>2, <1>3, <1>5, KnownStays
  DEF LastSignal, TypeOK, known, net, client
<1>6. CASE ReadAllRegs
  BY <1>0, <1>1, <1>2, <1>3, <1>6, KnownStays
  DEF ReadAllRegs, TypeOK, known, net, client
<1>7. CASE Answer
  BY <1>0, <1>1, <1>2, <1>3, <1>7, KnownStays
  DEF Answer, TypeOK, known, net, client
<1>8. CASE Detach
  BY <1>0, <1>1, <1>2, <1>3, <1>8, KnownStays
  DEF Detach, TypeOK, known, net, client
<1> QED BY <1>4, <1>5, <1>6, <1>7, <1>8

(* The client. *)
LEMMA ClientStep ==
    ASSUME TargetKnown,
           (\E k \in Kinds : GdbAsks(k)) \/ GdbInterrupts \/ GdbReceives \/ GdbGoes
    PROVE  TargetKnown'
<1>0. TypeOK
  BY DEF TargetKnown
<1>1. CASE \E k \in Kinds : GdbAsks(k)
  <2>1. PICK k \in Kinds : GdbAsks(k)
    BY <1>1
  <2>2. k \in AllKinds
    BY StubAssumption
  <2>3. Makes(k) \subseteq Packets
    BY <2>2, PacketType
  <2>4. inbox' \in Seq(Incoming)
    BY <1>0, <2>1, <2>3, SeqType, Characters DEF GdbAsks, TypeOK
  <2>5. gdb' \in ClientStates
    BY <1>0, <2>1, <2>2 DEF GdbAsks, TypeOK, ClientStates
  <2>6. budget' \in Budgets
    BY <1>0, <2>1, BudgetType DEF GdbAsks, TypeOK
  <2> QED BY <1>0, <2>1, <2>4, <2>5, <2>6, KnownStays DEF GdbAsks, TypeOK, known, stub
<1>2. CASE GdbInterrupts
  <2>1. inbox' \in Seq(Incoming)
    BY <1>0, <1>2, SeqType, Characters DEF GdbInterrupts, TypeOK
  <2>2. budget' \in Budgets
    BY <1>0, <1>2, BudgetType DEF GdbInterrupts, TypeOK
  <2> QED BY <1>0, <1>2, <2>1, <2>2, KnownStays DEF GdbInterrupts, TypeOK, known, stub
<1>3. CASE GdbReceives
  <2>1. gdb' \in ClientStates
    BY <1>0, <1>3
    DEF GdbReceives, GdbGetsAck, GdbDrops, GdbGetsReply, TypeOK, ClientStates, client
  <2>2. inbox' \in {inbox, Append(inbox, ACK)} /\ outbox' = Tail(outbox) /\ outbox # <<>>
    BY <1>3 DEF GdbReceives, GdbGetsAck, GdbDrops, GdbGetsReply
  <2>3. inbox' \in Seq(Incoming)
    <3>1. inbox \in Seq(Incoming)
      BY <1>0 DEF TypeOK
    <3>2. Append(inbox, ACK) \in Seq(Incoming)
      BY <3>1, SeqType, Characters
    <3> QED BY <2>2, <3>1, <3>2
  <2>4. outbox' \in Seq(Outgoing)
    BY <1>0, <2>2, SeqType DEF TypeOK
  <2>5. UNCHANGED <<stub, conn, budget, cpu, mem>>
    BY <1>3 DEF GdbReceives, GdbGetsAck, GdbDrops, GdbGetsReply, client
  <2> QED BY <1>0, <2>1, <2>3, <2>4, <2>5, KnownStays DEF TypeOK, known, stub
<1>4. CASE GdbGoes
  <2>1. gdb' \in ClientStates
    BY <1>0, <1>4 DEF GdbGoes, TypeOK, ClientStates
  <2> QED BY <1>0, <1>4, <2>1, KnownStays DEF GdbGoes, TypeOK, known, stub
<1> QED BY <1>1, <1>2, <1>3, <1>4

-----------------------------------------------------------------------------
(* Steps that stop, start or change the target.                            *)

(* Reporting a stop.  A hit breakpoint's rollback writes the NPC with no   *)
(* value cached.                                                           *)
LEMMA CheckStalledStep == ASSUME TargetKnown, CheckStalled PROVE TargetKnown'
<1>0. TypeOK
  BY DEF TargetKnown
<1>1. sigval' \in Signals \ {TARGET_SIGNAL_NONE}
  BY DEF CheckStalled, SignalOf, Signals, TARGET_SIGNAL_NONE,
         TARGET_SIGNAL_TRAP, TARGET_SIGNAL_BUS
<1>2. pc' = "put" /\ then' = "reported" /\ reply' \in Replies
  BY <1>1, ReplyType DEF CheckStalled, Put, Values
<1>3. /\ cpu' \in CpuStates
      /\ cpu'.stalled
      /\ npcCache' \in Adr \cup {0, NotCached}
      /\ npcCache' # NotCached => npcCache' = cpu'.npc
  BY <1>0, StubAssumption, ZenonT(40)
  DEF CheckStalled, StallBit, CpuWithNpc, CacheAfterSet, get_npc, NpcRegister,
      NotCached, TypeOK, CpuStates
<1>4. /\ stallState' = "STALLED"
      /\ UNCHANGED <<client_waiting, mp_hash, req, conn, inbox, outbox, gdb,
                     budget, mem>>
  BY DEF CheckStalled, net, client
<1>5. TypeOK'
  BY <1>0, <1>1, <1>2, <1>3, <1>4 DEF TypeOK
<1>6. (StallKnown /\ SignalKnown /\ NpcKnown)'
  BY <1>3, <1>4 DEF StallKnown, SignalKnown, NpcKnown
<1>7. BreakpointsExact'
  BY <1>4 DEF TargetKnown, BreakpointsExact
<1> QED BY <1>5, <1>6, <1>7 DEF TargetKnown

(* An interrupt finds the processor running as far as the stub knows, so   *)
(* that no NPC is cached.                                                  *)
LEMMA InterruptStep == ASSUME TargetKnown, Interrupt PROVE TargetKnown'
<1>0. TypeOK
  BY DEF TargetKnown
<1>1. 0 \in Values /\ TARGET_SIGNAL_NONE \in Signals
  BY DEF Values, Signals, TARGET_SIGNAL_NONE
<1>2. pc' = "put" /\ then' = "interrupted" /\ reply' \in Replies
  BY <1>1, ReplyType DEF Interrupt, Put, TARGET_SIGNAL_NONE
<1>3. inbox' \in Seq(Incoming)
  BY <1>0 DEF Interrupt, TypeOK
<1>4. cpu' \in CpuStates /\ cpu'.stalled /\ stallState' = "STALLED"
  BY <1>0 DEF Interrupt, Stall, TypeOK, CpuStates
<1>5. npcCache' = NotCached
  BY DEF TargetKnown, NpcKnown, Interrupt, PeekedInterrupt
<1>6. /\ sigval' = TARGET_SIGNAL_NONE
      /\ UNCHANGED <<client_waiting, npcCache, mp_hash, req, conn, outbox,
                     gdb, budget, mem>>
  BY DEF Interrupt, client
<1>7. TypeOK'
  BY <1>0, <1>1, <1>2, <1>3, <1>4, <1>6 DEF TypeOK
<1>8. (StallKnown /\ SignalKnown /\ NpcKnown)'
  BY <1>4, <1>5 DEF StallKnown, SignalKnown, NpcKnown
<1>9. BreakpointsExact'
  BY <1>6 DEF TargetKnown, BreakpointsExact
<1> QED BY <1>7, <1>8, <1>9 DEF TargetKnown

(* Continue and step: the stub forgets the signal and the NPC. *)
LEMMA ResumeStep ==
    ASSUME TargetKnown, NEW k, NEW step \in BOOLEAN, Resume(k, step)
    PROVE  TargetKnown'
<1>0. TypeOK
  BY DEF TargetKnown
<1>1. cpu' \in CpuStates
  <2>1. req.a \in Adr \cup {0}
    BY <1>0, PacketType DEF TypeOK
  <2>2. CpuWithNpc(ResumeAddress, stallState, npcCache) \in CpuStates
    BY <1>0, <2>1
    DEF CpuWithNpc, ResumeAddress, NoAddress, TypeOK, CpuStates
  <2> QED BY <2>2 DEF Resume, Unstall, CpuStates
<1>2. /\ stallState' = "UNSTALLED"
      /\ npcCache' = NotCached
      /\ sigval' = TARGET_SIGNAL_NONE
      /\ client_waiting' = TRUE
      /\ pc' = "top"
      /\ UNCHANGED <<mp_hash, req, reply, then, conn, inbox, outbox, gdb,
                     budget, mem>>
  BY DEF Resume, Unstall, net, client
<1>3. TypeOK'
  BY <1>0, <1>1, <1>2 DEF TypeOK, Signals
<1>4. (StallKnown /\ SignalKnown /\ NpcKnown)'
  BY <1>2 DEF StallKnown, SignalKnown, NpcKnown
<1>5. BreakpointsExact'
  BY <1>2 DEF TargetKnown, BreakpointsExact
<1> QED BY <1>3, <1>4, <1>5 DEF TargetKnown

(* The requests that write the NPC, or read it through its cache. *)
LEMMA NpcStep ==
    ASSUME TargetKnown, ReadReg \/ WriteReg \/ Restart \/ Run
    PROVE  TargetKnown'
<1>0. TypeOK /\ StallKnown /\ NpcKnown
  BY DEF TargetKnown
<1>1. /\ cpu' \in CpuStates
      /\ cpu'.stalled = cpu.stalled
      /\ npcCache' \in Adr \cup {0, NotCached}
      /\ npcCache' # NotCached =>
           /\ stallState = "STALLED"
           /\ npcCache' = cpu'.npc \/ (npcCache' = 0 /\ cpu'.flushed)
  <2>1. CASE ReadReg
    BY <1>0, <2>1, StubAssumption
    DEF ReadReg, get_npc, NpcRegister, NotCached, TypeOK, CpuStates, NpcKnown
  <2>2. CASE WriteReg
    <3>1. req.a \in Adr
      BY <1>0, <2>2, PacketType DEF WriteReg, Serving, TypeOK
    <3> QED BY <1>0, <2>2, <3>1, SetNpc DEF WriteReg
  <2>3. CASE Restart \/ Run
    BY <1>0, <2>3, SetNpc, StubAssumption DEF Restart, Run
  <2> QED BY <2>1, <2>2, <2>3
<1>2. /\ pc' \in {"top", "put"}
      /\ reply' \in Replies
      /\ then' \in {"reported", "interrupted", "replied", "detached"}
  <2>1. /\ {"p", "P", "vRun"} \subseteq AllKinds
        /\ 0 \in Values /\ TARGET_SIGNAL_TRAP \in Values
        /\ get_npc(stallState, npcCache) \in Values
    BY <1>0, NpcTypes DEF AllKinds, Values, Signals, TypeOK
  <2>2. CASE ReadReg
    BY <2>1, <2>2, ReplyType DEF ReadReg, Put
  <2>3. CASE WriteReg
    BY <2>1, <2>3, ReplyType DEF WriteReg, Put
  <2>4. CASE Restart
    BY <1>0, <2>4 DEF Restart, TypeOK
  <2>5. CASE Run
    BY <2>1, <2>5, ReplyType DEF Run, Put
  <2> QED BY <2>2, <2>3, <2>4, <2>5
<1>3. UNCHANGED <<client_waiting, stallState, sigval, mp_hash, req, conn,
                  inbox, outbox, gdb, budget, mem>>
  BY DEF ReadReg, WriteReg, Restart, Run, net, client
<1>4. TypeOK'
  BY <1>0, <1>1, <1>2, <1>3 DEF TypeOK
<1>5. (StallKnown /\ SignalKnown /\ NpcKnown)'
  BY <1>0, <1>1, <1>3 DEF TargetKnown, StallKnown, SignalKnown, NpcKnown
<1>6. BreakpointsExact'
  BY <1>3 DEF TargetKnown, BreakpointsExact
<1> QED BY <1>4, <1>5, <1>6 DEF TargetKnown

(* Breakpoints, and setup_or32. *)
LEMMA BreakpointStep ==
    ASSUME TargetKnown, InsertBreakpoint \/ RemoveBreakpoint \/ Supported
    PROVE  TargetKnown'
<1>0. TypeOK
  BY DEF TargetKnown
<1>1. pc' = "put" /\ reply' \in Replies /\ then' = "replied"
  <2>1. {"Z0", "z0", "qSupported"} \subseteq AllKinds /\ 0 \in Values
    BY DEF AllKinds, Values
  <2> QED BY <2>1, ReplyType DEF InsertBreakpoint, RemoveBreakpoint, Supported, Put
<1>2. /\ mp_hash' \in [Adr -> {"absent", "insn", "trap"}]
      /\ mem' \in [Adr -> {"insn", "trap"}]
      /\ BreakpointsExact'
  <2>0. BreakpointsExact
    BY DEF TargetKnown
  <2>1. CASE InsertBreakpoint
    <3>1. req.a \in Adr
      BY <1>0, <2>1, PacketType DEF InsertBreakpoint, Serving, TypeOK
    <3> QED BY <1>0, <2>0, <2>1, <3>1
            DEF InsertBreakpoint, mp_hash_add, BreakpointsExact, TypeOK
  <2>2. CASE RemoveBreakpoint
    <3>1. req.a \in Adr
      BY <1>0, <2>2, PacketType DEF RemoveBreakpoint, Serving, TypeOK
    <3> QED BY <1>0, <2>0, <2>2, <3>1 DEF RemoveBreakpoint, BreakpointsExact, TypeOK
  <2>3. CASE Supported
    BY <1>0, <2>0, <2>3 DEF Supported, BreakpointsExact, TypeOK
  <2> QED BY <2>1, <2>2, <2>3
<1>3. /\ cpu' \in CpuStates
      /\ cpu'.npc = cpu.npc /\ cpu'.flushed = cpu.flushed
      /\ cpu.stalled => cpu'.stalled
  BY <1>0 DEF InsertBreakpoint, RemoveBreakpoint, Supported, TypeOK, CpuStates
<1>4. UNCHANGED <<client_waiting, stallState, sigval, npcCache, req, conn,
                  inbox, outbox, gdb, budget>>
  BY DEF InsertBreakpoint, RemoveBreakpoint, Supported, net, client
<1>5. TypeOK'
  BY <1>0, <1>1, <1>2, <1>3, <1>4 DEF TypeOK
<1>6. (StallKnown /\ SignalKnown /\ NpcKnown)'
  BY <1>3, <1>4 DEF TargetKnown, StallKnown, SignalKnown, NpcKnown
<1> QED BY <1>2, <1>5, <1>6 DEF TargetKnown

(* The processor moves only when it runs, and then the stub holds no NPC.  *)
LEMMA CpuStep == ASSUME TargetKnown, Cpu PROVE TargetKnown'
<1>0. TypeOK
  BY DEF TargetKnown
<1>1. ~cpu.stalled
  BY DEF Cpu, CpuRuns, CpuSteps, CpuTraps, CpuFaults
<1>2. stallState = "UNSTALLED" /\ npcCache = NotCached
  BY <1>0, <1>1 DEF TargetKnown, StallKnown, NpcKnown, TypeOK
<1>3. cpu' \in CpuStates
  <2>1. CASE CpuRuns
    BY <1>0, <2>1 DEF CpuRuns, TypeOK, CpuStates
  <2>2. CASE CpuSteps
    BY <1>0, <2>2 DEF CpuSteps, TypeOK, CpuStates
  <2>3. CASE CpuTraps
    <3>1. PICK a \in Adr :
            cpu' = [cpu EXCEPT !.npc = a, !.ppc = cpu.npc, !.stalled = TRUE,
                               !.drr = "TE", !.past = (a # cpu.npc)]
      BY <2>3 DEF CpuTraps
    <3>2. (a # cpu.npc) \in BOOLEAN
      OBVIOUS
    <3> QED BY <1>0, <3>1, <3>2 DEF TypeOK, CpuStates
  <2>4. CASE CpuFaults
    BY <1>0, <2>4 DEF CpuFaults, TypeOK, CpuStates
  <2> QED BY <2>1, <2>2, <2>3, <2>4 DEF Cpu
<1>4. UNCHANGED <<stub, conn, inbox, outbox, gdb, budget, mem>>
  BY DEF Cpu, CpuRuns, CpuSteps, CpuTraps, CpuFaults, net, client
<1>5. TypeOK'
  BY <1>0, <1>3, <1>4 DEF TypeOK, stub
<1>6. (StallKnown /\ SignalKnown /\ NpcKnown /\ BreakpointsExact)'
  BY <1>2, <1>4
  DEF TargetKnown, StallKnown, SignalKnown, NpcKnown, BreakpointsExact, stub
<1> QED BY <1>5, <1>6 DEF TargetKnown

-----------------------------------------------------------------------------
(* Every step of the stub, of a client and of the processor preserves the  *)
(* invariant.                                                              *)
THEOREM NextKnown == TargetKnown /\ [Next]_vars => TargetKnown'
<1> SUFFICES ASSUME TargetKnown, [Next]_vars PROVE TargetKnown'
  OBVIOUS
<1>1. CASE UNCHANGED vars
  BY <1>1
  DEF vars, stub, net, client, TargetKnown, TypeOK, StallKnown, SignalKnown,
      BreakpointsExact, NpcKnown
<1>2. CASE Serve
  <2>1. CASE Continue \/ Step
    BY <2>1, ResumeStep DEF Continue, Step
  <2> QED BY <1>2, <2>1, InformStep, NpcStep, BreakpointStep DEF Serve
<1>3. CASE Stub
  BY <1>2, <1>3, LoopStep, PutStep, CheckStalledStep, InterruptStep DEF Stub
<1> QED BY <1>1, <1>3, ClientStep, CpuStep DEF Next

(* TargetKnown holds in every state the debug server reaches.              *)
THEOREM AlwaysKnown == Spec => []TargetKnown
  BY InitKnown, NextKnown, PTL DEF Spec

(* handle_rsp and its handlers keep every variable within its type.        *)
THEOREM StubTypeCorrect == Spec => []TypeOK
<1>1. TargetKnown => TypeOK
  BY DEF TargetKnown
<1> QED BY <1>1, AlwaysKnown, PTL

(* stallState STALLED, on which get_npc, set_npc and the test for an ETX   *)
(* rest, always means a stalled processor.                                 *)
THEOREM AlwaysStallKnown == Spec => []StallKnown
<1>1. TargetKnown => StallKnown
  BY DEF TargetKnown
<1> QED BY <1>1, AlwaysKnown, PTL

(* handle_rsp never looks up a PPC it has not read.                        *)
THEOREM AlwaysSignalKnown == Spec => []SignalKnown
<1>1. TargetKnown => SignalKnown
  BY DEF TargetKnown
<1> QED BY <1>1, AlwaysKnown, PTL

(* Z0 and z0 keep the traps in memory and the saved instructions in step.  *)
THEOREM AlwaysBreakpointsExact == Spec => []BreakpointsExact
<1>1. TargetKnown => BreakpointsExact
  BY DEF TargetKnown
<1> QED BY <1>1, AlwaysKnown, PTL

(* The cache of get_npc and set_npc is never stale.                        *)
THEOREM AlwaysNpcKnown == Spec => []NpcKnown
<1>1. TargetKnown => NpcKnown
  BY DEF TargetKnown
<1> QED BY <1>1, AlwaysKnown, PTL

-----------------------------------------------------------------------------
(* Rolling back.  A processor that stands past a trap is still owed the    *)
(* rollback as long as the client waits for the stop, and no request can   *)
(* remove the breakpoint before: requests are not served while it waits.   *)

NoCycleStep == {m \in Incoming : m.k # "i"}

RollbackOwed ==
    /\ pc \in {"get", "serve"} => ~client_waiting
    /\ cpu.flushed => cpu.stalled
    /\ cpu.past => /\ cpu.stalled
                   /\ ~cpu.flushed
                   /\ cpu.ppc # cpu.npc
                   /\ client_waiting => mp_hash[cpu.ppc] # "absent"
    /\ sigval = TARGET_SIGNAL_TRAP => ~cpu.past
    /\ inbox \in Seq(NoCycleStep)
    /\ pc = "serve" => req.k # "i"

LEMMA InitOwed == Init => RollbackOwed
  BY DEF Init, RollbackOwed

(* The stub's steps that leave the target alone. *)
LEMMA OwedLoop ==
    ASSUME TargetKnown, RollbackOwed,
           GetClient \/ CheckRunning \/ PeekNothing \/ PeekIgnored
             \/ PeekRequest \/ GetSkips \/ GetPacket \/ GetEof
    PROVE  RollbackOwed'
<1>1. CASE GetClient
  BY <1>1 DEF GetClient, RollbackOwed
<1>2. CASE CheckRunning \/ PeekNothing \/ PeekIgnored \/ PeekRequest \/ GetEof
  BY <1>2
  DEF CheckRunning, PeekNothing, PeekIgnored, PeekRequest, GetEof, RollbackOwed, net
<1>3. CASE GetSkips
  BY <1>3 DEF GetSkips, RollbackOwed, stub
<1>4. CASE GetPacket
  <2>1. /\ inbox' \in Seq(NoCycleStep)
        /\ req' \in NoCycleStep
    BY <1>4 DEF GetPacket, RollbackOwed
  <2>2. req'.k # "i"
    BY <2>1 DEF NoCycleStep
  <2> QED BY <1>4, <2>1, <2>2 DEF GetPacket, RollbackOwed
<1> QED BY <1>1, <1>2, <1>3, <1>4

(* put_packet may end the waiting, never begin it. *)
LEMMA OwedPut ==
    ASSUME TargetKnown, RollbackOwed,
           PutWrites \/ PutFails \/ PutAcknowledged \/ PutAgain \/ PutEof
    PROVE  RollbackOwed'
<1>1. UNCHANGED <<sigval, mp_hash, cpu>>
  BY DEF PutWrites, PutFails, PutAcknowledged, PutAgain, PutEof, PutReturns
<1>2. /\ pc' \in {"ack", "put", "top", "peek", "exit"}
      /\ client_waiting' => client_waiting
  <2>1. CASE PutWrites \/ PutAgain
    BY <2>1 DEF PutWrites, PutAgain
  <2>2. ASSUME NEW c, PutReturns(c)
        PROVE  pc' \in {"top", "peek", "exit"} /\ (client_waiting' => client_waiting)
    <3>1. pc' \in {"top", "peek", "exit"}
      BY <2>2 DEF PutReturns
    <3>2. client_waiting' => client_waiting
      BY <2>2, Zenon DEF PutReturns, StillWaiting
    <3> QED BY <3>1, <3>2
  <2>3. CASE PutFails \/ PutAcknowledged \/ PutEof
    BY <2>2, <2>3 DEF PutFails, PutAcknowledged, PutEof
  <2> QED BY <2>1, <2>3
<1>3. inbox' \in Seq(NoCycleStep)
  BY DEF PutWrites, PutFails, PutAcknowledged, PutAgain, PutEof, RollbackOwed
<1> QED BY <1>1, <1>2, <1>3 DEF RollbackOwed

(* Requests: the client does not wait while one is served, so that a       *)
(* breakpoint may go; those that resume the processor leave it at the NPC. *)
LEMMA OwedServe ==
    ASSUME TargetKnown, RollbackOwed, Serve
    PROVE  RollbackOwed'
<1>0. TypeOK /\ pc = "serve" /\ req.k # "i" /\ ~client_waiting
  BY DEF TargetKnown, RollbackOwed, Serve, Continue, Step, Resume, CycleStep,
         LastSignal, ReadAllRegs, ReadReg, WriteReg, Restart, Run,
         InsertBreakpoint, RemoveBreakpoint, Supported, Answer, Ignore,
         ResumeWithSignal, Detach, Serving
<1>1. CASE Continue \/ Step
  <2>1. /\ cpu'.past = FALSE /\ cpu'.flushed = FALSE
        /\ pc' = "top" /\ inbox' = inbox /\ sigval' = TARGET_SIGNAL_NONE
    <3>1. CpuWithNpc(ResumeAddress, stallState, npcCache) \in CpuStates
      <4>1. req.a \in Adr \cup {0}
        BY <1>0, PacketType DEF TypeOK
      <4> QED BY <1>0, <4>1 DEF CpuWithNpc, ResumeAddress, NoAddress, TypeOK, CpuStates
    <3> QED BY <1>1, <3>1 DEF Continue, Step, Resume, Unstall, net, CpuStates
  <2> QED BY <2>1 DEF RollbackOwed
<1>2. CASE LastSignal \/ ReadAllRegs \/ ReadReg \/ Answer \/ Ignore \/ Detach
             \/ ResumeWithSignal \/ InsertBreakpoint \/ RemoveBreakpoint
  BY <1>0, <1>2
  DEF LastSignal, ReadAllRegs, ReadReg, Answer, Ignore, Detach,
      ResumeWithSignal, InsertBreakpoint, RemoveBreakpoint, Put, RollbackOwed, net
<1>3. CASE Supported
  BY <1>0, <1>3 DEF Supported, Put, RollbackOwed, net, TypeOK, CpuStates
<1>4. CASE WriteReg \/ Restart \/ Run
  <2>1. cpu' = cpu \/ (cpu'.past = FALSE /\ (cpu'.flushed => cpu'.stalled))
    BY <1>0, <1>4
    DEF WriteReg, Restart, Run, set_npc, CpuWithNpc, TypeOK, CpuStates
  <2> QED BY <1>0, <1>4, <2>1
          DEF WriteReg, Restart, Run, Put, RollbackOwed, net
<1>5. ~CycleStep
  BY <1>0 DEF CycleStep, Serving
<1> QED BY <1>1, <1>2, <1>3, <1>4, <1>5 DEF Serve

(* Where the rollback is made: a processor past a trap, for which the      *)
(* client waits, stands on a breakpoint's PPC, and the NPC is written.     *)
LEMMA OwedStop ==
    ASSUME TargetKnown, RollbackOwed, CheckStalled \/ Interrupt
    PROVE  RollbackOwed'
<1>0. TypeOK
  BY DEF TargetKnown
<1>1. CASE Interrupt
  BY <1>0, <1>1
  DEF Interrupt, Stall, Put, RollbackOwed, TypeOK, CpuStates,
      TARGET_SIGNAL_NONE, TARGET_SIGNAL_TRAP
<1>2. CASE CheckStalled
  <2>1. cpu' = cpu \/ (cpu'.past = FALSE /\ (cpu'.flushed => cpu'.stalled))
    BY <1>0, <1>2 DEF CheckStalled, CpuWithNpc, TypeOK, CpuStates
  <2>2. sigval' = TARGET_SIGNAL_TRAP => ~cpu'.past
    <3> SUFFICES ASSUME sigval' = TARGET_SIGNAL_TRAP, cpu.past
                 PROVE  ~cpu'.past
      BY <2>1
    <3>1. HitBreakpoint(sigval')
      BY <1>2 DEF CheckStalled, RollbackOwed, HitBreakpoint
    <3>2. cpu.ppc # get_npc("STALLED", NotCached)
      BY <1>0 DEF RollbackOwed, get_npc, NpcRegister
    <3> QED BY <1>0, <1>2, <3>1, <3>2 DEF CheckStalled, CpuWithNpc, TypeOK, CpuStates
  <2> QED BY <1>2, <2>1, <2>2 DEF CheckStalled, Put, RollbackOwed, net
<1> QED BY <1>1, <1>2

LEMMA OwedClient ==
    ASSUME TargetKnown, RollbackOwed, "i" \notin Kinds,
           (\E k \in Kinds : GdbAsks(k)) \/ GdbInterrupts \/ GdbReceives \/ GdbGoes
    PROVE  RollbackOwed'
<1>1. ACK \in NoCycleStep /\ ETX \in NoCycleStep
  BY Characters DEF NoCycleStep, ACK, ETX
<1>2. inbox' \in Seq(NoCycleStep)
  <2>1. CASE \E k \in Kinds : GdbAsks(k)
    <3>1. PICK k \in Kinds : GdbAsks(k)
      BY <2>1
    <3>2. PICK p \in Makes(k) : inbox' = Append(inbox, p)
      BY <3>1 DEF GdbAsks
    <3>3. k \in AllKinds
      BY StubAssumption
    <3>4. p.k = k
      BY <3>2 DEF Makes
    <3>5. p \in NoCycleStep
      BY <3>2, <3>3, <3>4, PacketType, Characters DEF NoCycleStep
    <3> QED BY <3>2, <3>5 DEF RollbackOwed
  <2>2. CASE GdbInterrupts
    BY <1>1, <2>2 DEF GdbInterrupts, RollbackOwed
  <2>3. CASE GdbReceives \/ GdbGoes
    <3>1. inbox' \in {inbox, Append(inbox, ACK)}
      BY <2>3 DEF GdbReceives, GdbGetsAck, GdbDrops, GdbGetsReply, GdbGoes
    <3> QED BY <1>1, <3>1 DEF RollbackOwed
  <2> QED BY <2>1, <2>2, <2>3
<1>3. UNCHANGED <<stub, cpu>>
  BY DEF GdbAsks, GdbInterrupts, GdbReceives, GdbGetsAck, GdbDrops,
         GdbGetsReply, GdbGoes
<1> QED BY <1>2, <1>3 DEF RollbackOwed, stub

(* A trap is met only by a running processor, for which the stub holds no  *)
(* signal, and on a breakpoint of the hash table.                          *)
LEMMA OwedCpu == ASSUME TargetKnown, RollbackOwed, Cpu PROVE RollbackOwed'
<1>0. TypeOK
  BY DEF TargetKnown
<1>1. ~cpu.stalled
  BY DEF Cpu, CpuRuns, CpuSteps, CpuTraps, CpuFaults
<1>2. sigval = TARGET_SIGNAL_NONE /\ cpu.past = FALSE
  BY <1>0, <1>1
  DEF TargetKnown, StallKnown, SignalKnown, RollbackOwed, TypeOK, CpuStates
<1>3. UNCHANGED <<stub, inbox>>
  BY DEF Cpu, CpuRuns, CpuSteps, CpuTraps, CpuFaults, net
<1>4. cpu'.past => /\ cpu'.stalled
                   /\ ~cpu'.flushed
                   /\ cpu'.ppc # cpu'.npc
                   /\ mp_hash[cpu'.ppc] # "absent"
  <2>1. CASE CpuTraps
    <3>1. PICK a \in Adr :
            cpu' = [cpu EXCEPT !.npc = a, !.ppc = cpu.npc, !.stalled = TRUE,
                               !.drr = "TE", !.past = (a # cpu.npc)]
      BY <2>1 DEF CpuTraps
    <3>2. /\ cpu'.stalled /\ ~cpu'.flushed
          /\ cpu'.ppc = cpu.npc /\ cpu'.npc = a /\ cpu'.past = (a # cpu.npc)
      BY <1>0, <1>1, <3>1 DEF TypeOK, CpuStates, RollbackOwed
    <3>3. mp_hash[cpu.npc] # "absent"
      BY <1>0, <2>1 DEF CpuTraps, TargetKnown, BreakpointsExact, TypeOK, CpuStates
    <3> QED BY <3>2, <3>3
  <2>2. CASE CpuRuns \/ CpuSteps \/ CpuFaults
    BY <1>0, <1>2, <2>2 DEF CpuRuns, CpuSteps, CpuFaults, TypeOK, CpuStates
  <2> QED BY <2>1, <2>2 DEF Cpu
<1>5. cpu'.flushed => cpu'.stalled
  BY <1>0, <1>1
  DEF Cpu, CpuRuns, CpuSteps, CpuTraps, CpuFaults, TypeOK, CpuStates, RollbackOwed
<1> QED BY <1>2, <1>3, <1>4, <1>5
        DEF RollbackOwed, stub, TARGET_SIGNAL_NONE, TARGET_SIGNAL_TRAP

(* Unless a client makes a cycle step, a trap that was reported has been   *)
(* rolled back.                                                            *)
THEOREM AlwaysTrapRolledBack ==
    ASSUME "i" \notin Kinds PROVE Spec => []TrapRolledBack
<1>1. TargetKnown /\ RollbackOwed /\ [Next]_vars => RollbackOwed'
  <2> SUFFICES ASSUME TargetKnown, RollbackOwed, [Next]_vars PROVE RollbackOwed'
    OBVIOUS
  <2>1. CASE UNCHANGED vars
    BY <2>1 DEF vars, stub, net, client, RollbackOwed
  <2> QED BY <2>1, OwedLoop, OwedPut, OwedServe, OwedStop, OwedClient, OwedCpu
          DEF Next, Stub
<1>2. RollbackOwed => TrapRolledBack
  BY DEF RollbackOwed, TrapRolledBack
<1> QED BY <1>1, <1>2, InitOwed, AlwaysKnown, PTL DEF Spec
=============================================================================
