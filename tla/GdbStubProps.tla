---------------------------- MODULE GdbStubProps ----------------------------
(***************************************************************************)
(* What the debug server's loop must guarantee to GDB and about the target. *)
(***************************************************************************)
EXTENDS GdbStub

(* When the stub believes the processor stalled, it is: no step of the     *)
(* stub, of the processor or of a change of client leaves stallState at    *)
(* STALLED with the processor running.  get_npc, set_npc and the test for  *)
(* an ETX in handle_rsp rest on this.                                      *)
StallKnown == stallState = "STALLED" => cpu.stalled

(* A signal is recorded only while the stub knows the processor stalled.   *)
(* handle_rsp reads the PPC into temp_uint32 only if stallState is STALLED *)
(* and looks it up in the hash table if sigval is TRAP: this is why the    *)
(* lookup never uses an uninitialised value, and why the "quick fix" under *)
(* it is never taken.                                                      *)
SignalKnown == sigval # TARGET_SIGNAL_NONE => stallState = "STALLED"

(* The traps in memory are exactly the breakpoints in the hash table, and  *)
(* the instruction saved for each is the program's own, however often GDB  *)
(* inserts or removes the same breakpoint and whichever client does.       *)
BreakpointsExact ==
    \A a \in Adr : /\ mp_hash[a] = "absent" <=> mem[a] = "insn"
                   /\ mp_hash[a] # "trap"

(* The characters put_packet reads for its acknowledgement never belong to *)
(* the client's next request: no request is eaten.                         *)
RequestsSafe == pc = "ack" /\ inbox # <<>> => Head(inbox) \notin Packets

(* What the client takes for the answer to its request is the answer to    *)
(* that request, whatever was sent twice before because an interrupt       *)
(* character was read in place of an acknowledgement.                      *)
Matched ==
    outbox # <<>> => /\ gdb.wait = "reply" => Head(outbox).to = gdb.kind
                     /\ gdb.wait = "stop" => Head(outbox).to = "stop"

BeingPut == pc \in {"put", "ack"} /\ reply.to = "stop"
InOutbox == \E i \in 1..Len(outbox) : outbox[i].to = "stop"

(* A client that waits for the target to stop is owed a stop reply: it     *)
(* is on its way, or client_waiting makes the loop look for the stop.  The *)
(* exception is a client that resumed the target with a signal ('C', 'S'): *)
(* rsp_client_request drops the request.  And the loop looks for a stop    *)
(* only while its client is owed one, so that no client gets a stop reply  *)
(* it did not ask for.                                                     *)
StopOwed ==
    conn = "up" =>
        /\ gdb.wait = "stop" =>
             \/ gdb.kind \in WithSignal
             \/ client_waiting \/ BeingPut \/ InOutbox
             \/ pc = "serve" /\ req.k \in Stops
        /\ client_waiting /\ pc \in {"top", "peek"} =>
             gdb.wait \in {"ack", "stop"} /\ gdb.kind \in Stops

(* The NPC is cached only while the processor is known to be stalled, and  *)
(* it is the one the processor will resume at.  (Or it is zero, the value  *)
(* the register reads back once it is written: after an 'i' packet, for    *)
(* which rsp_check_for_exception drops the cache of a stalled processor.)  *)
NpcKnown ==
    npcCache # NotCached =>
        /\ stallState = "STALLED"
        /\ npcCache = cpu.npc \/ (npcCache = 0 /\ cpu.flushed)

(* A client that was told of a trap finds the processor on the breakpoint  *)
(* that caused it, not past the instruction the breakpoint replaced,       *)
(* whoever interrupts, steps or reconnects in between.  (Only if no client *)
(* makes a cycle step: 'i' reports a trap for whatever the processor last  *)
(* stopped for, an interrupt with a missed rollback included.)             *)
TrapRolledBack ==
    pc = "serve" /\ sigval = TARGET_SIGNAL_TRAP => ~cpu.past

(* Every request is acknowledged and then answered, or, if it resumes the  *)
(* target, leaves the loop looking for the stop, as long as the client     *)
(* stays.  'C' and 'S' are acknowledged and no more: the client that sends *)
(* one waits, and nothing is under way that would answer it.               *)
Answered ==
    (conn = "up" /\ gdb.wait \in {"ack", "reply"})
        ~> \/ conn # "up"
           \/ gdb.wait = "idle"
           \/ gdb.wait = "stop" /\ (client_waiting \/ gdb.kind \in WithSignal)

(* Once the processor has stopped, or was told to step, the client that    *)
(* waits for it is told so.                                                *)
StopDelivered ==
    (conn = "up" /\ gdb.wait = "stop" /\ client_waiting
     /\ (cpu.stalled \/ cpu.step))
        ~> (conn # "up" \/ gdb.wait # "stop")

-----------------------------------------------------------------------------
(* What comments of gdb.c say and the code does not do.                    *)

(* handle_rsp: "If this exception was a trap due to a memory breakpoint,   *)
(* then adjust the NPC."  So when the client is in control again the       *)
(* processor does not stand past an instruction that a trap replaced.      *)
RolledBack == pc = "serve" => ~cpu.past

(* handle_rsp on an ETX: "this function should pull the packet off the     *)
(* socket and stall the processor".                                        *)
InterruptServed ==
    (conn = "up" /\ gdb.wait = "stop" /\ \E i \in 1..Len(inbox) : inbox[i] = ETX)
        ~> (conn # "up" \/ gdb.wait # "stop")

(* rsp_client_request: "Null packet means we hit EOF or the link was       *)
(* closed [...] Close the client and return", and handle_rsp: "If we have  *)
(* no RSP client, we get one."                                             *)
EofNoticed == conn = "eof" ~> conn # "eof"
=============================================================================
