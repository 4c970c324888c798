------------------------------ MODULE GdbStub ------------------------------
(***************************************************************************)
(* The debug server's main loop: handle_rsp of gdb.c and the handlers it   *)
(* calls, with the processor it controls on one side and a GDB client on   *)
(* the other.                                                              *)
(*                                                                         *)
(* The stub is one thread that never blocks in the loop: it polls the      *)
(* processor's stall bit while the client waits for a stop reply, and      *)
(* peeks at the client's socket.  It does block, in get_packet and in the  *)
(* acknowledgement read of put_packet, and there every character counts:   *)
(* anything but '+' makes it send the packet again.                        *)
(*                                                                         *)
(* The dialogues over the pipes with the simulation are one access each    *)
(* here (module VpiLink shows that a word may be).  A request is executed  *)
(* in one step, because the processor stands still meanwhile: it is        *)
(* stalled whenever a client is in control, except after the failure       *)
(* described at GetPacket.                                                 *)
(*                                                                         *)
(* The processor and GDB are not part of the repository: their actions     *)
(* model what gdb.c relies on.                                             *)
(***************************************************************************)
EXTENDS Integers, Sequences

CONSTANTS
    Adr,         \* the program's addresses, 0 not among them
    StartAddr,   \* rsp.start_addr, EXCEPT_RESET
    Kinds,       \* the requests a client makes
    MaxAsked,    \* bound: requests made, over all clients
    MaxEtx,      \* bound: interrupt characters sent, over all clients
    MaxClients,  \* bound: clients accepted
    MayGo        \* may a client's connection end without a 'D' packet?

AllKinds == {"c", "s", "i", "C", "S", "?", "g", "p", "P", "Z0", "z0", "R", "vRun",
             "qSupported", "H", "k", "D"}

ASSUME StubAssumption ==
    /\ Adr \subseteq Nat \ {0}
    /\ StartAddr \in Adr
    /\ Kinds \subseteq AllKinds
    /\ MaxAsked \in Nat
    /\ MaxEtx \in Nat
    /\ MaxClients \in Nat
    /\ MayGo \in BOOLEAN

VARIABLES
    \* the stub (struct rsp and the globals of gdb.c)
    pc,              \* where its thread is
    client_waiting,  \* rsp.client_waiting
    stallState,      \* STALLED or UNSTALLED
    sigval,          \* rsp.sigval
    npcCache,        \* npcCachedValue if npcIsCached, else NotCached
    mp_hash,         \* the instruction saved for each memory breakpoint
    req,             \* the packet get_packet returned
    reply,           \* the packet put_packet is sending
    then,            \* what the caller of put_packet does next
    \* the connection and the client
    conn,            \* rsp.client_fd: "none" is -1; "eof": the peer is gone
    inbox,           \* characters and packets the stub has not yet read
    outbox,          \* what the client has not yet read
    gdb,             \* what the client waits for, and the request it made
    budget,          \* what the client may still do
    \* the target
    cpu, mem

stub == <<pc, client_waiting, stallState, sigval, npcCache, mp_hash, req,
          reply, then>>
client == <<gdb, budget>>
net == <<conn, inbox, outbox>>
vars == <<stub, net, client, cpu, mem>>

(* GDB's signal numbers. *)
TARGET_SIGNAL_NONE == 0
TARGET_SIGNAL_TRAP == 5
TARGET_SIGNAL_BUS == 10
Signals == {TARGET_SIGNAL_NONE, TARGET_SIGNAL_TRAP, TARGET_SIGNAL_BUS}

NotCached == -1
NoAddress == 0

ACK == [k |-> "+", a |-> NoAddress]
ETX == [k |-> "ETX", a |-> NoAddress]

(* What the client makes of a packet of the stub: the request it answers   *)
(* ("stop" for a stop reply that was owed) and its value.                  *)
Reply(to, v) == [to |-> to, v |-> v]
Plus == Reply("+", 0)

(* The requests that carry an address; for 'c' and 's' it is optional.     *)
WithAddress == {"P", "Z0", "z0"}
MayHaveAddress == {"c", "s"}
Makes(k) == [k : {k}, a : CASE k \in WithAddress    -> Adr
                            [] k \in MayHaveAddress -> Adr \cup {NoAddress}
                            [] OTHER                -> {NoAddress}]
Packets == UNION {Makes(k) : k \in AllKinds}

Values == Adr \cup {0} \cup Signals
Replies == [to : AllKinds \cup {"stop"}, v : Values]
Incoming == Packets \cup {ACK, ETX}
Outgoing == Replies \cup {Plus}
CpuStates == [stalled : BOOLEAN, npc : Adr, ppc : Adr, flushed : BOOLEAN,
              drr : {"none", "TE", "BUSEE"}, step : BOOLEAN, past : BOOLEAN]
ClientStates == [wait : {"idle", "ack", "reply", "stop"}, kind : AllKinds]
Budgets == [ask : 0..MaxAsked, etx : 0..MaxEtx, clients : 0..MaxClients]

(* The type of every variable.                                             *)
TypeOK ==
    /\ pc \in {"top", "peek", "get", "serve", "put", "ack", "exit"}
    /\ client_waiting \in BOOLEAN
    /\ stallState \in {"STALLED", "UNSTALLED"}
    /\ sigval \in Signals
    /\ npcCache \in Adr \cup {0, NotCached}
    /\ mp_hash \in [Adr -> {"absent", "insn", "trap"}]
    /\ req \in Packets
    /\ reply \in Replies
    /\ then \in {"reported", "interrupted", "replied", "detached"}
    /\ conn \in {"none", "up", "eof"}
    /\ inbox \in Seq(Incoming)
    /\ outbox \in Seq(Outgoing)
    /\ gdb \in ClientStates
    /\ budget \in Budgets
    /\ cpu \in CpuStates
    /\ mem \in [Adr -> {"insn", "trap"}]

(***************************************************************************)
(* rsp_init: "RSP always starts stalled as though we have just reset the   *)
(* processor" (dbg_test has stalled it).  rsp_exception records TRAP and   *)
(* get_npc caches the NPC.                                                 *)
(***************************************************************************)
Init ==
    /\ pc = "top"
    /\ client_waiting = FALSE
    /\ stallState = "STALLED"
    /\ sigval = TARGET_SIGNAL_TRAP
    /\ npcCache = StartAddr
    /\ mp_hash = [a \in Adr |-> "absent"]
    /\ req = [k |-> "H", a |-> NoAddress]
    /\ reply = Reply("H", 0)
    /\ then = "replied"
    /\ conn = "none"
    /\ inbox = <<>>
    /\ outbox = <<>>
    /\ gdb = [wait |-> "idle", kind |-> "H"]
    /\ budget = [ask |-> MaxAsked, etx |-> MaxEtx, clients |-> MaxClients]
    /\ cpu = [stalled |-> TRUE, npc |-> StartAddr, ppc |-> StartAddr,
              flushed |-> FALSE, drr |-> "none", step |-> FALSE,
              past |-> FALSE]
    /\ mem = [a \in Adr |-> "insn"]

-----------------------------------------------------------------------------
(* The program counter.                                                    *)

(* Reading the NPC register: zero once it has been written, until the      *)
(* processor has run and refilled its pipeline.                            *)
NpcRegister == IF cpu.flushed THEN 0 ELSE cpu.npc

(* get_npc, when the stall state is st and the cache holds cached.         *)
get_npc(st, cached) ==
    IF st = "STALLED" /\ cached # NotCached THEN cached ELSE NpcRegister

(* set_npc: the register is written only if the address is a new one...    *)
CpuWithNpc(a, st, cached) ==
    IF a = get_npc(st, cached) THEN cpu
    ELSE [cpu EXCEPT !.npc = a, !.flushed = cpu.stalled, !.past = FALSE]

(* Mutant: the cache is not brought up to date. *)
CacheAfterSetM(a, st, cached) == cached

(* ... and when stalled the cache holds the address either way.            *)
CacheAfterSet(a, st, cached) ==
    CASE st = "STALLED"           -> a
      [] st # "STALLED" /\ a = get_npc(st, cached) -> cached
      [] OTHER                    -> NotCached

set_npc(a) ==
    /\ cpu' = CpuWithNpc(a, stallState, npcCache)
    /\ npcCache' = CacheAfterSet(a, stallState, npcCache)

(* set_stall_state(1). *)
Stall ==
    /\ cpu' = [cpu EXCEPT !.stalled = TRUE]
    /\ stallState' = "STALLED"

(* Mutant: the signal of the last stop is not forgotten. *)
UnstallM(c) ==
    /\ cpu' = [c EXCEPT !.stalled = FALSE, !.flushed = FALSE, !.past = FALSE]
    /\ stallState' = "UNSTALLED"
    /\ npcCache' = NotCached
    /\ UNCHANGED sigval

(* set_stall_state(0), c being the processor as it has been prepared.      *)
Unstall(c) ==
    /\ cpu' = [c EXCEPT !.stalled = FALSE, !.flushed = FALSE, !.past = FALSE]
    /\ stallState' = "UNSTALLED"
    /\ npcCache' = NotCached
    /\ sigval' = TARGET_SIGNAL_NONE

-----------------------------------------------------------------------------
(* Sending a packet: put_packet, send_rsp_str, get_rsp_char.               *)

(* A handler calls put_packet; t says what its caller does afterwards.     *)
Put(r, t) ==
    /\ pc' = "put"
    /\ reply' = r
    /\ then' = t

(* Mutant: a stop reply from the check does not end the waiting. *)
StillWaitingM == client_waiting /\ then # "interrupted"

(* After a stop reply, handle_rsp and rsp_interrupt clear client_waiting.  *)
StillWaiting == client_waiting /\ then \notin {"reported", "interrupted"}

(* put_packet returns, the client's descriptor being c.  After the 'D'     *)
(* packet's reply the stub closes the client, tells the simulation that it *)
(* is gone and exits.                                                      *)
PutReturns(c) ==
    /\ pc' = CASE then = "reported" -> "peek"
               [] then = "detached" -> "exit"
               [] OTHER             -> "top"
    /\ client_waiting' = StillWaiting
    /\ conn' = IF then = "detached" THEN "none" ELSE c
    /\ UNCHANGED <<stallState, sigval, npcCache, mp_hash, req, reply, then>>

(* The write succeeds; to a peer that is gone, it may, and goes nowhere.   *)
PutWrites ==
    /\ pc = "put"
    /\ conn # "none"
    /\ pc' = "ack"
    /\ outbox' = IF conn = "up" THEN Append(outbox, reply) ELSE outbox
    /\ UNCHANGED <<client_waiting, stallState, sigval, npcCache, mp_hash, req,
                   reply, then, conn, inbox, client, cpu, mem>>

(* The write fails, which closes the client, or there is none to write to; *)
(* get_rsp_char then returns -1 and put_packet fails silently.             *)
PutFails ==
    /\ pc = "put"
    /\ conn # "up"
    /\ PutReturns("none")
    /\ UNCHANGED <<inbox, outbox, client, cpu, mem>>

(* The character read is the acknowledgement...                            *)
PutAcknowledged ==
    /\ pc = "ack"
    /\ inbox # <<>>
    /\ Head(inbox) = ACK
    /\ inbox' = Tail(inbox)
    /\ PutReturns(conn)
    /\ UNCHANGED <<outbox, client, cpu, mem>>

(* ... or any other, and the packet is sent again.                         *)
PutAgain ==
    /\ pc = "ack"
    /\ inbox # <<>>
    /\ Head(inbox) # ACK
    /\ inbox' = Tail(inbox)
    /\ pc' = "put"
    /\ UNCHANGED <<client_waiting, stallState, sigval, npcCache, mp_hash, req,
                   reply, then, conn, outbox, client, cpu, mem>>

(* End of file instead: get_rsp_char closes the client.                    *)
PutEof ==
    /\ pc = "ack"
    /\ conn = "eof"
    /\ inbox = <<>>
    /\ PutReturns("none")
    /\ UNCHANGED <<inbox, outbox, client, cpu, mem>>

-----------------------------------------------------------------------------
(* One turn of the loop of handle_rsp.                                     *)

(* No client: rsp_get_client blocks until one connects.                    *)
GetClient ==
    /\ pc = "top"
    /\ conn = "none"
    /\ budget.clients > 0
    /\ conn' = "up"
    /\ inbox' = <<>>
    /\ outbox' = <<>>
    /\ gdb' = [gdb EXCEPT !.wait = "idle"]
    /\ budget' = [budget EXCEPT !.clients = @ - 1]
    /\ client_waiting' = FALSE
    /\ UNCHANGED <<pc, stallState, sigval, npcCache, mp_hash, req, reply,
                   then, cpu, mem>>

(* The switch over the Debug Reason Register in rsp_check_for_exception;   *)
(* a single step leaves it zero.                                           *)
SignalOf(drr) ==
    IF drr = "BUSEE" THEN TARGET_SIGNAL_BUS ELSE TARGET_SIGNAL_TRAP

(* The stall bit, dbg_cpu0_read_ctrl. *)
StallBit == cpu.stalled

(* Mutant: the NPC is looked up instead of the PPC. *)
HitBreakpointM(signal) ==
    signal = TARGET_SIGNAL_TRAP /\ mp_hash[cpu.npc] # "absent"

(* The stop is a memory breakpoint's. *)
HitBreakpoint(signal) ==
    signal = TARGET_SIGNAL_TRAP /\ mp_hash[cpu.ppc] # "absent"

(* The client waits for a stop reply and the processor is stalled: note    *)
(* why, roll the NPC back to a memory breakpoint that was hit, report.     *)
CheckStalled ==
    /\ pc = "top"
    /\ conn # "none"
    /\ client_waiting
    /\ StallBit
    /\ stallState' = "STALLED"
    /\ sigval' = SignalOf(cpu.drr)
    /\ IF HitBreakpoint(sigval')
       THEN /\ cpu' = CpuWithNpc(cpu.ppc, "STALLED", NotCached)
            /\ npcCache' = CacheAfterSet(cpu.ppc, "STALLED", NotCached)
       ELSE /\ npcCache' = NotCached
            /\ UNCHANGED cpu
    /\ Put(Reply("stop", sigval'), "reported")
    /\ UNCHANGED <<client_waiting, mp_hash, req, net, client, mem>>

(* It still runs.  (stallState is UNSTALLED then and sigval is             *)
(* TARGET_SIGNAL_NONE, so that the PPC, which has not been read, is not    *)
(* looked up: see SignalKnown.)                                            *)
CheckRunning ==
    /\ pc = "top"
    /\ conn # "none"
    /\ client_waiting
    /\ ~StallBit
    /\ pc' = "peek"
    /\ UNCHANGED <<client_waiting, stallState, sigval, npcCache, mp_hash, req,
                   reply, then, net, client, cpu, mem>>

(* The loop reaches rsp_peek from the check, or from the top when the      *)
(* client does not wait.                                                   *)
AtPeek == pc = "peek" \/ (pc = "top" /\ conn # "none" /\ ~client_waiting)

(* Nothing to see: no character, end of file, or no client any more.       *)
PeekNothing ==
    /\ pc = "peek"
    /\ conn = "none" \/ inbox = <<>>
    /\ pc' = "top"
    /\ UNCHANGED <<client_waiting, stallState, sigval, npcCache, mp_hash, req,
                   reply, then, net, client, cpu, mem>>

PeekedInterrupt == Head(inbox) = ETX /\ stallState # "STALLED"

(* rsp_interrupt: read the ETX, stall the processor, report signal NONE.   *)
Interrupt ==
    /\ AtPeek
    /\ conn # "none"
    /\ inbox # <<>>
    /\ PeekedInterrupt
    /\ inbox' = Tail(inbox)
    /\ Stall
    /\ sigval' = TARGET_SIGNAL_NONE
    /\ Put(Reply("stop", TARGET_SIGNAL_NONE), "interrupted")
    /\ UNCHANGED <<client_waiting, npcCache, mp_hash, req, conn, outbox,
                   client, mem>>

(* Mutant: the loop waits for the character to go away. *)
PeekIgnoredM ==
    /\ AtPeek
    /\ conn # "none"
    /\ inbox # <<>>
    /\ ~PeekedInterrupt
    /\ client_waiting
    /\ UNCHANGED vars

(* Any other character while the client waits is left where it is.         *)
PeekIgnored ==
    /\ AtPeek
    /\ conn # "none"
    /\ inbox # <<>>
    /\ ~PeekedInterrupt
    /\ client_waiting
    /\ pc' = "top"
    /\ UNCHANGED <<client_waiting, stallState, sigval, npcCache, mp_hash, req,
                   reply, then, net, client, cpu, mem>>

(* Otherwise rsp_client_request calls get_packet.                          *)
PeekRequest ==
    /\ AtPeek
    /\ conn # "none"
    /\ inbox # <<>>
    /\ ~PeekedInterrupt
    /\ ~client_waiting
    /\ pc' = "get"
    /\ UNCHANGED <<client_waiting, stallState, sigval, npcCache, mp_hash, req,
                   reply, then, net, client, cpu, mem>>

(* Mutant: only interrupt characters are ignored. *)
GetSkipsM ==
    /\ pc = "get"
    /\ inbox # <<>>
    /\ Head(inbox) = ETX
    /\ inbox' = Tail(inbox)
    /\ UNCHANGED <<stub, conn, outbox, client, cpu, mem>>

(* get_packet ignores what comes before the start of a packet...           *)
GetSkips ==
    /\ pc = "get"
    /\ inbox # <<>>
    /\ Head(inbox) \in {ACK, ETX}
    /\ inbox' = Tail(inbox)
    /\ UNCHANGED <<stub, conn, outbox, client, cpu, mem>>

(* Mutant: the packet is not acknowledged. *)
GetPacketM ==
    /\ pc = "get"
    /\ inbox # <<>>
    /\ Head(inbox) \in Packets
    /\ req' = Head(inbox)
    /\ inbox' = Tail(inbox)
    /\ pc' = "serve"
    /\ conn' \in IF conn = "up" THEN {"up"} ELSE {"eof", "none"}
    /\ UNCHANGED <<client_waiting, stallState, sigval, npcCache, mp_hash,
                   reply, then, outbox, client, cpu, mem>>

(* ... and acknowledges the packet.  Writing the '+' may fail, which       *)
(* closes the client; the request is executed all the same.  If it is a    *)
(* 'c', the next client meets a running processor.                         *)
GetPacket ==
    /\ pc = "get"
    /\ inbox # <<>>
    /\ Head(inbox) \in Packets
    /\ req' = Head(inbox)
    /\ inbox' = Tail(inbox)
    /\ pc' = "serve"
    /\ outbox' = IF conn = "up" THEN Append(outbox, Plus) ELSE outbox
    /\ conn' \in IF conn = "up" THEN {"up"} ELSE {"eof", "none"}
    /\ UNCHANGED <<client_waiting, stallState, sigval, npcCache, mp_hash,
                   reply, then, client, cpu, mem>>

(* End of file in get_packet: rsp_client_request closes the client.        *)
GetEof ==
    /\ pc = "get"
    /\ conn = "eof"
    /\ inbox = <<>>
    /\ conn' = "none"
    /\ pc' = "top"
    /\ UNCHANGED <<client_waiting, stallState, sigval, npcCache, mp_hash, req,
                   reply, then, inbox, outbox, client, cpu, mem>>

-----------------------------------------------------------------------------
(* The requests: the switch of rsp_client_request.                         *)

Serving(k) == pc = "serve" /\ req.k = k

(* Mutant: no default for the address. *)
ResumeAddressM == req.a

(* rsp_continue and rsp_step: the address given, or the current NPC. *)
ResumeAddress ==
    IF req.a = NoAddress THEN get_npc(stallState, npcCache) ELSE req.a

(* rsp_continue_generic and rsp_step_generic: set the NPC, clear DRR and   *)
(* set or clear the step bit, unstall; the client now waits for a stop     *)
(* reply.                                                                  *)
Resume(k, step) ==
    /\ Serving(k)
    /\ Unstall([CpuWithNpc(ResumeAddress, stallState, npcCache) EXCEPT
                  !.drr = "none", !.step = step])
    /\ client_waiting' = TRUE
    /\ pc' = "top"
    /\ UNCHANGED <<mp_hash, req, reply, then, net, client, mem>>

Continue == Resume("c", FALSE)
Step == Resume("s", TRUE)

(* Mutant: the request is answered at once as well. *)
CycleStepM ==
    /\ Serving("i")
    /\ client_waiting' = TRUE
    /\ Put(Reply("i", 0), "replied")
    /\ UNCHANGED <<stallState, sigval, npcCache, mp_hash, req, net, client,
                   cpu, mem>>

(* 'i' and 'I': "target stopped immediately".                              *)
CycleStep ==
    /\ Serving("i")
    /\ client_waiting' = TRUE
    /\ pc' = "top"
    /\ UNCHANGED <<stallState, sigval, npcCache, mp_hash, req, reply, then,
                   net, client, cpu, mem>>

(* '?': rsp_report_exception, the last signal.                             *)
LastSignal ==
    /\ Serving("?")
    /\ Put(Reply("?", sigval), "replied")
    /\ UNCHANGED <<client_waiting, stallState, sigval, npcCache, mp_hash, req,
                   net, client, cpu, mem>>

(* 'g': rsp_read_all_regs reads the NPC register itself.                   *)
ReadAllRegs ==
    /\ Serving("g")
    /\ Put(Reply("g", NpcRegister), "replied")
    /\ UNCHANGED <<client_waiting, stallState, sigval, npcCache, mp_hash, req,
                   net, client, cpu, mem>>

(* 'p' of the NPC, and readspr: rsp_read_reg calls get_npc.                *)
ReadReg ==
    /\ Serving("p")
    /\ LET npc == get_npc(stallState, npcCache)
       IN  /\ npcCache' = IF stallState = "STALLED" THEN npc ELSE npcCache
           /\ Put(Reply("p", npc), "replied")
    /\ UNCHANGED <<client_waiting, stallState, sigval, mp_hash, req, net,
                   client, cpu, mem>>

(* 'P' of the NPC, 'G' and writespr: set_npc, then "OK".                   *)
WriteReg ==
    /\ Serving("P")
    /\ set_npc(req.a)
    /\ Put(Reply("P", 0), "replied")
    /\ UNCHANGED <<client_waiting, stallState, sigval, mp_hash, req, net,
                   client, mem>>

(* 'R': rsp_restart, which sends no reply.                                 *)
Restart ==
    /\ Serving("R")
    /\ set_npc(StartAddr)
    /\ pc' = "top"
    /\ UNCHANGED <<client_waiting, stallState, sigval, mp_hash, req, reply,
                   then, net, client, mem>>

(* 'vRun;': rsp_restart, then "S05".                                       *)
Run ==
    /\ Serving("vRun")
    /\ set_npc(StartAddr)
    /\ Put(Reply("vRun", TARGET_SIGNAL_TRAP), "replied")
    /\ UNCHANGED <<client_waiting, stallState, sigval, mp_hash, req, net,
                   client, mem>>

(* Mutant: a duplicate insertion overwrites the saved instruction. *)
mp_hash_addM(a) == [mp_hash EXCEPT ![a] = mem[a]]

(* 'Z0': read the instruction, remember it unless the address has a        *)
(* breakpoint already (mp_hash_add), write the trap.                       *)
mp_hash_add(a) ==
    IF mp_hash[a] # "absent" THEN mp_hash ELSE [mp_hash EXCEPT ![a] = mem[a]]

InsertBreakpoint ==
    /\ Serving("Z0")
    /\ mp_hash' = mp_hash_add(req.a)
    /\ mem' = [mem EXCEPT ![req.a] = "trap"]
    /\ Put(Reply("Z0", 0), "replied")
    /\ UNCHANGED <<client_waiting, stallState, sigval, npcCache, req, net,
                   client, cpu>>

(* 'z0': if the breakpoint is there, forget it (mp_hash_delete) and put    *)
(* the instruction back.                                                   *)
RemoveBreakpoint ==
    /\ Serving("z0")
    /\ mp_hash' = [mp_hash EXCEPT ![req.a] = "absent"]
    /\ mem' = IF mp_hash[req.a] = "absent" THEN mem
              ELSE [mem EXCEPT ![req.a] = mp_hash[req.a]]
    /\ Put(Reply("z0", 0), "replied")
    /\ UNCHANGED <<client_waiting, stallState, sigval, npcCache, req, net,
                   client, cpu>>

(* Mutant: the stall bit is written as zero. *)
SupportedM ==
    /\ Serving("qSupported")
    /\ cpu' = [cpu EXCEPT !.stalled = FALSE]
    /\ Put(Reply("qSupported", 0), "replied")
    /\ UNCHANGED <<client_waiting, stallState, sigval, npcCache, mp_hash, req,
                   net, client, mem>>

(* 'qSupported': setup_or32 stalls the processor behind stallState's back. *)
Supported ==
    /\ Serving("qSupported")
    /\ cpu' = [cpu EXCEPT !.stalled = TRUE]
    /\ Put(Reply("qSupported", 0), "replied")
    /\ UNCHANGED <<client_waiting, stallState, sigval, npcCache, mp_hash, req,
                   net, client, mem>>

(* Requests answered without a change of state, 'H' for all of them: '!',  *)
(* 'A', 'T', 'm', most of 'q', 'Q' and 'v', Z2 to Z4 and z2 to z4.         *)
Answer ==
    /\ Serving("H")
    /\ Put(Reply("H", 0), "replied")
    /\ UNCHANGED <<client_waiting, stallState, sigval, npcCache, mp_hash, req,
                   net, client, cpu, mem>>

(* Mutant: they are answered. *)
IgnoreM ==
    /\ Serving("k")
    /\ Put(Reply("k", 0), "replied")
    /\ UNCHANGED <<client_waiting, stallState, sigval, npcCache, mp_hash, req,
                   net, client, cpu, mem>>

(* Requests that are ignored, 'k' for all of them: 'b', 'B', 'd', 'F',     *)
(* 'r', 't' and unknown ones.                                              *)
Ignore ==
    /\ Serving("k")
    /\ pc' = "top"
    /\ UNCHANGED <<client_waiting, stallState, sigval, npcCache, mp_hash, req,
                   reply, then, net, client, cpu, mem>>

(* rsp_continue_with_signal and rsp_step_with_signal: "Currently null".    *)
(* The target is not resumed and client_waiting is not set, although the   *)
(* client waits for a stop.                                                *)
ResumeWithSignal ==
    /\ pc = "serve"
    /\ req.k \in {"C", "S"}
    /\ pc' = "top"
    /\ UNCHANGED <<client_waiting, stallState, sigval, npcCache, mp_hash, req,
                   reply, then, net, client, cpu, mem>>

(* 'D': "OK", then close the client, tell the simulation, exit.            *)
Detach ==
    /\ Serving("D")
    /\ Put(Reply("D", 0), "detached")
    /\ UNCHANGED <<client_waiting, stallState, sigval, npcCache, mp_hash, req,
                   net, client, cpu, mem>>

Serve ==
    \/ Continue \/ Step \/ CycleStep \/ LastSignal \/ ReadAllRegs \/ ReadReg
    \/ WriteReg \/ Restart \/ Run \/ InsertBreakpoint \/ RemoveBreakpoint
    \/ Supported \/ Answer \/ Ignore \/ ResumeWithSignal \/ Detach

Stub ==
    \/ GetClient \/ CheckStalled \/ CheckRunning
    \/ PeekNothing \/ Interrupt \/ PeekIgnored \/ PeekRequest
    \/ GetSkips \/ GetPacket \/ GetEof \/ Serve
    \/ PutWrites \/ PutFails \/ PutAcknowledged \/ PutAgain \/ PutEof

-----------------------------------------------------------------------------
(* The client (external).  It makes one request at a time, waits for its   *)
(* '+', then for the reply or the stop reply the request calls for, and    *)
(* acknowledges every packet.  A packet found where a '+' is due is an old *)
(* one: it is acknowledged and dropped, as GDB does.                       *)

Stops == {"c", "s", "i"}        \* the stub looks for the stop they wait for
WithSignal == {"C", "S"}        \* it does not for these
Unanswered == {"R", "k"}        \* the client waits for nothing

GdbAsks(k) ==
    /\ conn = "up"
    /\ gdb.wait = "idle"
    /\ budget.ask > 0
    /\ \E p \in Makes(k) : inbox' = Append(inbox, p)
    /\ gdb' = [wait |-> "ack", kind |-> k]
    /\ budget' = [budget EXCEPT !.ask = @ - 1]
    /\ UNCHANGED <<stub, conn, outbox, cpu, mem>>

(* Ctrl-C, while waiting for the target to stop. *)
GdbInterrupts ==
    /\ conn = "up"
    /\ gdb.wait = "stop"
    /\ budget.etx > 0
    /\ inbox' = Append(inbox, ETX)
    /\ budget' = [budget EXCEPT !.etx = @ - 1]
    /\ UNCHANGED <<stub, conn, outbox, gdb, cpu, mem>>

GdbGetsAck ==
    /\ conn = "up"
    /\ gdb.wait = "ack"
    /\ outbox # <<>>
    /\ Head(outbox) = Plus
    /\ outbox' = Tail(outbox)
    /\ gdb' = [gdb EXCEPT !.wait =
                 CASE gdb.kind \in Stops \cup WithSignal -> "stop"
                   [] gdb.kind \in Unanswered            -> "idle"
                   [] OTHER                              -> "reply"]
    /\ UNCHANGED <<stub, conn, inbox, budget, cpu, mem>>

GdbDrops ==
    /\ conn = "up"
    /\ gdb.wait = "ack"
    /\ outbox # <<>>
    /\ Head(outbox) # Plus
    /\ outbox' = Tail(outbox)
    /\ inbox' = Append(inbox, ACK)
    /\ UNCHANGED <<stub, conn, client, cpu, mem>>

GdbGetsReply ==
    /\ conn = "up"
    /\ gdb.wait \in {"reply", "stop"}
    /\ outbox # <<>>
    /\ outbox' = Tail(outbox)
    /\ inbox' = Append(inbox, ACK)
    /\ gdb' = [gdb EXCEPT !.wait = "idle"]
    /\ UNCHANGED <<stub, conn, budget, cpu, mem>>

(* The client ends without a 'D' packet: killed, or the network gone. *)
GdbGoes ==
    /\ MayGo
    /\ conn = "up"
    /\ conn' = "eof"
    /\ outbox' = <<>>
    /\ gdb' = [gdb EXCEPT !.wait = "idle"]
    /\ UNCHANGED <<stub, inbox, budget, cpu, mem>>

GdbReceives == GdbGetsAck \/ GdbDrops \/ GdbGetsReply

-----------------------------------------------------------------------------
(* The processor (external).  past: it is stalled by a trap that stands    *)
(* for an instruction, and would resume after it.                          *)

(* It executes an instruction and goes on, to any address. *)
CpuRuns ==
    /\ ~cpu.stalled
    /\ ~cpu.step
    /\ mem[cpu.npc] = "insn"
    /\ \E a \in Adr : cpu' = [cpu EXCEPT !.npc = a, !.ppc = cpu.npc]
    /\ UNCHANGED <<stub, net, client, mem>>

(* With the step bit set it stalls after one instruction, DRR zero. *)
CpuSteps ==
    /\ ~cpu.stalled
    /\ cpu.step
    /\ mem[cpu.npc] = "insn"
    /\ \E a \in Adr : cpu' = [cpu EXCEPT !.npc = a, !.ppc = cpu.npc,
                                         !.stalled = TRUE]
    /\ UNCHANGED <<stub, net, client, mem>>

(* A trap instruction: the PPC is its address, the NPC already the next. *)
CpuTraps ==
    /\ ~cpu.stalled
    /\ mem[cpu.npc] = "trap"
    /\ \E a \in Adr : cpu' = [cpu EXCEPT !.npc = a, !.ppc = cpu.npc,
                                         !.stalled = TRUE, !.drr = "TE",
                                         !.past = (a # cpu.npc)]
    /\ UNCHANGED <<stub, net, client, mem>>

(* An exception the DSR register gives to the debugger, a bus error say. *)
CpuFaults ==
    /\ ~cpu.stalled
    /\ cpu' = [cpu EXCEPT !.stalled = TRUE, !.drr = "BUSEE"]
    /\ UNCHANGED <<stub, net, client, mem>>

Cpu == CpuRuns \/ CpuSteps \/ CpuTraps \/ CpuFaults

Next ==
    \/ Stub
    \/ \E k \in Kinds : GdbAsks(k)
    \/ GdbInterrupts \/ GdbReceives \/ GdbGoes
    \/ Cpu

Spec == Init /\ [][Next]_vars

(***************************************************************************)
(* Fairness: the stub's loop never stops, the client reads what it waits   *)
(* for and acknowledges it, and a processor told to step does.  Nothing is *)
(* assumed of a processor told to run: the program need never stop.        *)
(***************************************************************************)
Fairness ==
    /\ WF_vars(Stub)
    /\ WF_vars(GdbReceives)
    /\ WF_vars(cpu.step /\ Cpu)

FairSpec == Spec /\ Fairness
=============================================================================
