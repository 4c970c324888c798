---------------------------- MODULE GdbDialogue ----------------------------
(***************************************************************************)
(* The dialogue between the stub's loop and its client, as an invariant:   *)
(* what may stand in the two directions of the connection at each point of *)
(* the loop.  It is what makes RequestsSafe, Matched and StopOwed of       *)
(* GdbStubProps true from one step to the next.                            *)
(***************************************************************************)
EXTENDS GdbStubProps

-----------------------------------------------------------------------------
(* What the stub has not yet read.                                         *)

HasPacket(s) == \E i \in 1..Len(s) : s[i] \in Packets
HasEtx(s) == \E i \in 1..Len(s) : s[i] = ETX

(* There is one request at most, and only acknowledgements follow it. *)
Tidy(s) ==
    \A i \in 1..Len(s) : s[i] \in Packets => \A j \in (i+1)..Len(s) : s[j] = ACK

PacketsOf(s, kind) == \A i \in 1..Len(s) : s[i] \in Packets => s[i].k = kind

(* There is an acknowledgement, and no request before it. *)
AckFirst(s) ==
    \E j \in 1..Len(s) : s[j] = ACK /\ \A i \in 1..j : s[i] \notin Packets

-----------------------------------------------------------------------------
(* What the client has not yet read.                                       *)

NoPlus(s) == \A i \in 1..Len(s) : s[i] # Plus
OnlyTo(s, t) == \A i \in 1..Len(s) : s[i].to = t

(* There is one '+', and only packets to t follow it. *)
PlusThen(s, t) ==
    \E i \in 1..Len(s) : /\ s[i] = Plus
                         /\ \A j \in 1..(i-1) : s[j] # Plus
                         /\ \A j \in (i+1)..Len(s) : s[j].to = t

PlusLast(s) == s # <<>> /\ s[Len(s)] = Plus

(* There is a stop reply, and no '+' after it. *)
StopSent(s) ==
    \E i \in 1..Len(s) : /\ s[i].to = "stop"
                         /\ \A j \in i..Len(s) : s[j] # Plus

-----------------------------------------------------------------------------
(* The request the client has made and the stub has not read is Pending.   *)
(* Taken: the stub has read it, the client waits for its '+' or for what   *)
(* follows.  Owing: the stub has yet to make the reply.                    *)

Pending == HasPacket(inbox)
Taken ==
    conn = "up" /\ (gdb.wait \in {"reply", "stop"} \/ (gdb.wait = "ack" /\ ~Pending))
ServingStop == pc = "serve" /\ req.k \in Stops
Owing ==
    \/ pc = "serve" /\ req.k \notin Unanswered \cup WithSignal
    \/ pc \in {"top", "peek"} /\ client_waiting

(* An interrupt character of a client the stub does not look for a stop    *)
(* for: it has resumed the target with a signal, and makes no request.     *)
Stranded == ~Pending /\ (conn = "up" => gdb.wait = "stop" /\ gdb.kind \in WithSignal)

Sent(kind) == IF kind \in Stops \cup WithSignal THEN "stop" ELSE kind

(* Nothing has been sent to the client since the '+' of its request. *)
NothingSent ==
    \/ gdb.wait = "ack" /\ PlusLast(outbox)
    \/ gdb.wait \in {"reply", "stop"} /\ outbox = <<>>

(* The loop's own variables. *)
LoopKnown ==
    /\ pc \in {"get", "ack"} => conn # "none"
    /\ conn = "eof" => outbox = <<>> /\ gdb.wait = "idle"
    /\ pc \in {"get", "serve"} => ~client_waiting
    /\ pc \in {"put", "ack"} => reply.to \notin Unanswered \cup WithSignal
    /\ pc \in {"put", "ack"} /\ client_waiting => then \in {"reported", "interrupted"}
    /\ pc \in {"put", "ack"} /\ (then \in {"reported", "interrupted"} \/ reply.to = "stop")
         => stallState = "STALLED"

(* The direction to the stub.  No request is there while a reply is owed,  *)
(* and an interrupt character is read in place of an acknowledgement only  *)
(* if an acknowledgement, and no request, follows.                         *)
InboxKnown ==
    /\ Tidy(inbox)
    /\ conn = "up" => PacketsOf(inbox, gdb.kind)
    /\ conn = "up" /\ Pending => gdb.wait = "ack"
    /\ Owing => ~Pending
    /\ HasEtx(inbox) =>
         stallState = "STALLED" \/ client_waiting \/ ServingStop \/ Stranded
    /\ pc \in {"put", "ack"} =>
         /\ Pending => AckFirst(inbox)
         /\ conn = "up" /\ gdb.wait = "idle" => AckFirst(inbox)

(* The direction to the client. *)
OutboxKnown ==
    /\ gdb.wait \in {"reply", "stop"} => OnlyTo(outbox, Sent(gdb.kind))
    /\ gdb.wait = "stop" => gdb.kind \in Stops \cup WithSignal
    /\ gdb.wait = "reply" => gdb.kind \notin Stops \cup WithSignal \cup Unanswered
    /\ conn = "up" =>
         /\ gdb.wait = "idle" => NoPlus(outbox)
         /\ gdb.wait = "ack" /\ Pending => NoPlus(outbox)
         /\ gdb.wait = "ack" /\ ~Pending => PlusThen(outbox, Sent(gdb.kind))

(* What is owed is what the client's request calls for, and everything     *)
(* sent before is older than its '+'.                                      *)
ReplyOwed ==
    /\ conn = "up" /\ Owing =>
         /\ pc = "serve" => gdb.kind = req.k
         /\ pc # "serve" => gdb.kind \in Stops
         /\ NothingSent
    /\ Taken /\ pc \in {"put", "ack"} => reply.to = Sent(gdb.kind)

(* A stop reply is on its way to the client that is to get one, and until  *)
(* it is, the processor is stalled or the loop looks for its stop.  One    *)
(* that resumed with a signal gets one only if it interrupts a running     *)
(* processor.                                                              *)
StopOnItsWay ==
    /\ Taken /\ gdb.kind \in Stops =>
         /\ client_waiting \/ BeingPut \/ StopSent(outbox) \/ ServingStop
         /\ client_waiting \/ stallState = "STALLED" \/ ServingStop
    /\ Taken /\ gdb.kind \in WithSignal => stallState = "STALLED" \/ NothingSent
    /\ Taken /\ pc = "ack" /\ reply.to = "stop" => StopSent(outbox)

(* The dialogue, whatever the client asks and whenever it interrupts,      *)
(* leaves or connects: the two directions of the connection hold what the  *)
(* stub's place in handle_rsp, get_packet and put_packet allows.           *)
Dialogue ==
    /\ LoopKnown
    /\ InboxKnown
    /\ OutboxKnown
    /\ ReplyOwed
    /\ StopOnItsWay
=============================================================================
