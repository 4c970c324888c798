------------------------- MODULE GdbDialogueProofs -------------------------
(***************************************************************************)
(* Proofs about the dialogue with the client, for any program and any      *)
(* number of clients, requests and interrupts: no request is eaten, every  *)
(* reply is the reply to the request it is taken for, and every stop reply *)
(* is owed and is on its way.                                              *)
(***************************************************************************)
EXTENDS GdbDialogue, GdbStubProofs

-----------------------------------------------------------------------------
(* The two directions, when something is appended and when something is    *)
(* taken.                                                                  *)

(* The characters are not requests, and a reply is not a '+'.              *)
LEMMA Apart ==
    /\ ACK \notin Packets /\ ETX \notin Packets /\ ACK # ETX
    /\ \A x \in Outgoing : x = Plus <=> x.to = "+"
    /\ \A r \in Replies : r # Plus /\ r.to # "+"
    /\ \A k \in AllKinds : Sent(k) # "+" /\ (Sent(k) = "stop" <=> k \in Stops \cup WithSignal)
<1>1. ASSUME NEW p \in Packets PROVE p.k \in AllKinds
  BY PacketType
<1>2. ACK.k = "+" /\ ETX.k = "ETX" /\ Plus.to = "+"
  BY DEF ACK, ETX, Plus, Reply
<1>3. {"+", "ETX", "stop"} \cap AllKinds = {}
  BY DEF AllKinds
<1>4. ACK \notin Packets /\ ETX \notin Packets /\ ACK # ETX
  BY <1>1, <1>2, <1>3
<1>5. \A r \in Replies : r.to \in AllKinds \cup {"stop"}
  BY DEF Replies
<1>6. \A r \in Replies : r # Plus /\ r.to # "+"
  BY <1>2, <1>3, <1>5
<1>7. \A x \in Outgoing : x = Plus <=> x.to = "+"
  BY <1>2, <1>6 DEF Outgoing
<1>8. \A k \in AllKinds : Sent(k) # "+" /\ (Sent(k) = "stop" <=> k \in Stops \cup WithSignal)
  BY <1>3 DEF Sent
<1> QED BY <1>4, <1>6, <1>7, <1>8

LEMMA NothingThere ==
    /\ ~HasPacket(<<>>) /\ ~HasEtx(<<>>) /\ Tidy(<<>>)
    /\ \A k : PacketsOf(<<>>, k)
    /\ NoPlus(<<>>)
  BY DEF HasPacket, HasEtx, Tidy, PacketsOf, NoPlus

(* Every request is of any kind where there is none.                       *)
LEMMA NoPacket ==
    ASSUME NEW s \in Seq(Incoming), ~HasPacket(s)
    PROVE  Tidy(s) /\ \A k : PacketsOf(s, k)
  BY DEF HasPacket, Tidy, PacketsOf

(* A character or a request arrives at the stub.                           *)
LEMMA InboxAppend ==
    ASSUME NEW s \in Seq(Incoming), NEW x \in Incoming
    PROVE  /\ HasPacket(Append(s, x)) <=> HasPacket(s) \/ x \in Packets
           /\ HasEtx(Append(s, x)) <=> HasEtx(s) \/ x = ETX
           /\ Tidy(s) /\ (x = ACK \/ ~HasPacket(s)) => Tidy(Append(s, x))
           /\ \A k : PacketsOf(s, k) /\ (x \in Packets => x.k = k)
                       => PacketsOf(Append(s, x), k)
           /\ AckFirst(s) => AckFirst(Append(s, x))
           /\ x = ACK /\ ~HasPacket(s) => AckFirst(Append(s, x))
<1> DEFINE t == Append(s, x)
<1>1. /\ Len(s) \in Nat /\ Len(t) = Len(s) + 1 /\ t[Len(s) + 1] = x
      /\ \A i \in 1..Len(s) : t[i] = s[i]
  OBVIOUS
<1> HIDE DEF t
<1>2. HasPacket(t) <=> HasPacket(s) \/ x \in Packets
  BY <1>1 DEF HasPacket
<1>3. HasEtx(t) <=> HasEtx(s) \/ x = ETX
  BY <1>1 DEF HasEtx
<1>4. Tidy(s) /\ (x = ACK \/ ~HasPacket(s)) => Tidy(t)
  BY <1>1 DEF Tidy, HasPacket
<1>5. ASSUME NEW k, PacketsOf(s, k), x \in Packets => x.k = k
      PROVE  PacketsOf(t, k)
  BY <1>1, <1>5 DEF PacketsOf
<1>6. ASSUME AckFirst(s) PROVE AckFirst(t)
  <2>1. PICK j \in 1..Len(s) : s[j] = ACK /\ \A i \in 1..j : s[i] \notin Packets
    BY <1>6 DEF AckFirst
  <2>2. j \in 1..Len(t) /\ t[j] = ACK /\ \A i \in 1..j : t[i] \notin Packets
    BY <1>1, <2>1
  <2> QED BY <2>2 DEF AckFirst
<1>7. ASSUME x = ACK, ~HasPacket(s) PROVE AckFirst(t)
  <2>1. \A i \in 1..Len(t) : t[i] \notin Packets
    BY <1>1, <1>7, Apart DEF HasPacket
  <2>2. Len(t) \in 1..Len(t) /\ t[Len(t)] = ACK
    BY <1>1, <1>7
  <2> QED BY <2>1, <2>2 DEF AckFirst
<1> QED BY <1>2, <1>3, <1>4, <1>5, <1>6, <1>7 DEF t

(* The stub reads a character or a request.                                *)
LEMMA InboxTail ==
    ASSUME NEW s \in Seq(Incoming), s # <<>>
    PROVE  /\ HasPacket(s) <=> Head(s) \in Packets \/ HasPacket(Tail(s))
           /\ HasEtx(s) <=> Head(s) = ETX \/ HasEtx(Tail(s))
           /\ Tidy(s) => Tidy(Tail(s))
           /\ Tidy(s) /\ Head(s) \in Packets =>
                ~HasPacket(Tail(s)) /\ ~HasEtx(Tail(s))
           /\ \A k : PacketsOf(s, k) =>
                       /\ PacketsOf(Tail(s), k)
                       /\ Head(s) \in Packets => Head(s).k = k
           /\ AckFirst(s) => /\ Head(s) \notin Packets
                             /\ Head(s) # ACK => AckFirst(Tail(s))
<1> DEFINE t == Tail(s)
<1> DEFINE h == Head(s)
<1>1. /\ Len(s) \in Nat \ {0} /\ Len(t) = Len(s) - 1 /\ s[1] = h
      /\ \A i \in 1..Len(t) : t[i] = s[i+1]
  OBVIOUS
<1>1a. \A i \in 2..Len(s) : i-1 \in 1..Len(t) /\ s[i] = t[i-1]
  BY <1>1
<1> HIDE DEF t, h
<1>2. HasPacket(s) <=> h \in Packets \/ HasPacket(t)
  <2>1. \A i \in 1..Len(s) : i = 1 \/ i \in 2..Len(s)
    BY <1>1
  <2>2. \A i \in 1..Len(t) : i+1 \in 1..Len(s)
    BY <1>1
  <2>3. 1 \in 1..Len(s)
    BY <1>1
  <2> QED BY <1>1, <1>1a, <2>1, <2>2, <2>3 DEF HasPacket
<1>3. HasEtx(s) <=> h = ETX \/ HasEtx(t)
  <2>1. \A i \in 1..Len(s) : i = 1 \/ i \in 2..Len(s)
    BY <1>1
  <2>2. \A i \in 1..Len(t) : i+1 \in 1..Len(s)
    BY <1>1
  <2>3. 1 \in 1..Len(s)
    BY <1>1
  <2> QED BY <1>1, <1>1a, <2>1, <2>2, <2>3 DEF HasEtx
<1>4. ASSUME Tidy(s) PROVE Tidy(t)
  <2> SUFFICES ASSUME NEW i \in 1..Len(t), t[i] \in Packets,
                      NEW j \in (i+1)..Len(t)
               PROVE  t[j] = ACK
    BY DEF Tidy
  <2>1. /\ i+1 \in 1..Len(s) /\ t[i] = s[i+1]
        /\ j+1 \in (i+2)..Len(s) /\ j \in 1..Len(t) /\ t[j] = s[j+1]
    BY <1>1
  <2> QED BY <1>4, <2>1 DEF Tidy
<1>5. ASSUME Tidy(s), h \in Packets PROVE ~HasPacket(t) /\ ~HasEtx(t)
  <2>1. \A j \in 2..Len(s) : s[j] = ACK
    BY <1>1, <1>5 DEF Tidy
  <2>2. \A j \in 1..Len(t) : t[j] = ACK
    BY <1>1, <2>1
  <2> QED BY <2>2, Apart DEF HasPacket, HasEtx
<1>6. ASSUME NEW k, PacketsOf(s, k)
      PROVE  PacketsOf(t, k) /\ (h \in Packets => h.k = k)
  BY <1>1, <1>6 DEF PacketsOf
<1>7. ASSUME AckFirst(s) PROVE h \notin Packets /\ (h # ACK => AckFirst(t))
  <2>1. PICK j \in 1..Len(s) : s[j] = ACK /\ \A i \in 1..j : s[i] \notin Packets
    BY <1>7 DEF AckFirst
  <2>2. h \notin Packets
    BY <1>1, <2>1
  <2>3. ASSUME h # ACK PROVE AckFirst(t)
    <3>1. j - 1 \in 1..Len(t)
      BY <1>1, <2>1, <2>3
    <3>2. t[j-1] = ACK /\ \A i \in 1..(j-1) : t[i] \notin Packets
      BY <1>1, <2>1, <3>1
    <3> QED BY <3>1, <3>2 DEF AckFirst
  <2> QED BY <2>2, <2>3
<1> QED BY <1>2, <1>3, <1>4, <1>5, <1>6, <1>7 DEF t, h

(* The stub writes a '+' or a packet.                                      *)
LEMMA OutboxAppend ==
    ASSUME NEW s \in Seq(Outgoing), NEW x \in Outgoing
    PROVE  /\ NoPlus(s) /\ x # Plus => NoPlus(Append(s, x))
           /\ \A u : OnlyTo(s, u) /\ x.to = u => OnlyTo(Append(s, x), u)
           /\ \A u : PlusThen(s, u) /\ x.to = u /\ x # Plus
                       => PlusThen(Append(s, x), u)
           /\ NoPlus(s) /\ x = Plus => \A u : PlusThen(Append(s, x), u)
           /\ x = Plus => PlusLast(Append(s, x))
           /\ x # Plus /\ (StopSent(s) \/ x.to = "stop") => StopSent(Append(s, x))
<1> DEFINE t == Append(s, x)
<1>1. /\ Len(s) \in Nat /\ Len(t) = Len(s) + 1 /\ t[Len(s) + 1] = x /\ t # <<>>
      /\ \A i \in 1..Len(s) : t[i] = s[i]
  OBVIOUS
<1> HIDE DEF t
<1>2. NoPlus(s) /\ x # Plus => NoPlus(t)
  BY <1>1 DEF NoPlus
<1>3. ASSUME NEW u, OnlyTo(s, u), x.to = u PROVE OnlyTo(t, u)
  BY <1>1, <1>3 DEF OnlyTo
<1>4. ASSUME NEW u, PlusThen(s, u), x.to = u, x # Plus PROVE PlusThen(t, u)
  <2>1. PICK i \in 1..Len(s) : /\ s[i] = Plus
                               /\ \A j \in 1..(i-1) : s[j] # Plus
                               /\ \A j \in (i+1)..Len(s) : s[j].to = u
    BY <1>4 DEF PlusThen
  <2>2. i \in 1..Len(t) /\ t[i] = Plus
    BY <1>1, <2>1
  <2>3. \A j \in 1..(i-1) : t[j] # Plus
    BY <1>1, <2>1
  <2>4. \A j \in (i+1)..Len(t) : t[j].to = u
    BY <1>1, <1>4, <2>1
  <2> QED BY <2>2, <2>3, <2>4 DEF PlusThen
<1>5. ASSUME NoPlus(s), x = Plus, NEW u PROVE PlusThen(t, u)
  <2>1. Len(t) \in 1..Len(t) /\ t[Len(t)] = Plus
    BY <1>1, <1>5
  <2>2. \A j \in 1..(Len(t)-1) : t[j] # Plus
    BY <1>1, <1>5 DEF NoPlus
  <2>3. (Len(t)+1)..Len(t) = {}
    BY <1>1
  <2> QED BY <2>1, <2>2, <2>3 DEF PlusThen
<1>6. x = Plus => PlusLast(t)
  BY <1>1 DEF PlusLast
<1>7. ASSUME x # Plus, StopSent(s) PROVE StopSent(t)
  <2>1. PICK i \in 1..Len(s) : s[i].to = "stop" /\ \A j \in i..Len(s) : s[j] # Plus
    BY <1>7 DEF StopSent
  <2>2. i \in 1..Len(t) /\ t[i].to = "stop"
    BY <1>1, <2>1
  <2>3. \A j \in i..Len(t) : t[j] # Plus
    BY <1>1, <1>7, <2>1
  <2> QED BY <2>2, <2>3 DEF StopSent
<1>8. ASSUME x # Plus, x.to = "stop" PROVE StopSent(t)
  <2>1. Len(t) \in 1..Len(t) /\ t[Len(t)].to = "stop"
    BY <1>1, <1>8
  <2>2. \A j \in Len(t)..Len(t) : t[j] # Plus
    BY <1>1, <1>8
  <2> QED BY <2>1, <2>2 DEF StopSent
<1> QED BY <1>2, <1>3, <1>4, <1>5, <1>6, <1>7, <1>8 DEF t

(* The client reads a '+' or a packet.                                     *)
LEMMA OutboxTail ==
    ASSUME NEW s \in Seq(Outgoing), s # <<>>
    PROVE  /\ NoPlus(s) => NoPlus(Tail(s)) /\ Head(s) # Plus
           /\ \A u : OnlyTo(s, u) => OnlyTo(Tail(s), u) /\ Head(s).to = u
           /\ \A u : PlusThen(s, u) /\ Head(s) # Plus => PlusThen(Tail(s), u)
           /\ \A u : PlusThen(s, u) /\ Head(s) = Plus /\ u # "+"
                       => OnlyTo(Tail(s), u)
           /\ \A u : PlusThen(s, u) /\ Head(s) = Plus /\ u # "+" /\ PlusLast(s)
                       => Tail(s) = <<>>
           /\ PlusLast(s) /\ Head(s) # Plus => PlusLast(Tail(s))
           /\ StopSent(s) /\ Head(s) = Plus => StopSent(Tail(s))
           /\ \A u : StopSent(s) /\ PlusThen(s, u) /\ Head(s) # Plus
                       => StopSent(Tail(s))
<1> DEFINE t == Tail(s)
<1> DEFINE h == Head(s)
<1>1. /\ Len(s) \in Nat \ {0} /\ Len(t) = Len(s) - 1 /\ s[1] = h
      /\ \A i \in 1..Len(t) : t[i] = s[i+1]
      /\ t \in Seq(Outgoing)
  OBVIOUS
<1>e. Len(t) = 0 <=> t = <<>>
  <2> HIDE DEF t
  <2> QED BY <1>1
<1>p. Plus.to = "+"
  BY DEF Plus, Reply
<1> HIDE DEF t, h
<1>2. NoPlus(s) => NoPlus(t) /\ h # Plus
  BY <1>1 DEF NoPlus
<1>3. ASSUME NEW u, OnlyTo(s, u) PROVE OnlyTo(t, u) /\ h.to = u
  BY <1>1, <1>3 DEF OnlyTo
<1>4. ASSUME NEW u, PlusThen(s, u)
      PROVE  /\ h # Plus => PlusThen(t, u)
             /\ h = Plus /\ u # "+" => OnlyTo(t, u)
             /\ h = Plus /\ u # "+" /\ PlusLast(s) => t = <<>>
             /\ h # Plus /\ StopSent(s) => StopSent(t)
  <2>1. PICK i \in 1..Len(s) : /\ s[i] = Plus
                               /\ \A j \in 1..(i-1) : s[j] # Plus
                               /\ \A j \in (i+1)..Len(s) : s[j].to = u
    BY <1>4 DEF PlusThen
  <2>2. ASSUME h # Plus PROVE PlusThen(t, u)
    <3>1. i - 1 \in 1..Len(t) /\ t[i-1] = Plus
      BY <1>1, <2>1, <2>2
    <3>2. \A j \in 1..(i-2) : t[j] # Plus
      BY <1>1, <2>1
    <3>3. \A j \in i..Len(t) : t[j].to = u
      BY <1>1, <2>1
    <3>4. (i-1)-1 = i-2 /\ (i-1)+1 = i
      BY <1>1
    <3> QED BY <3>1, <3>2, <3>3, <3>4 DEF PlusThen
  <2>3. ASSUME h = Plus PROVE i = 1
    BY <1>1, <2>1, <2>3
  <2>4. ASSUME h = Plus PROVE OnlyTo(t, u)
    BY <1>1, <2>1, <2>3, <2>4 DEF OnlyTo
  <2>5. ASSUME h = Plus, u # "+", PlusLast(s) PROVE t = <<>>
    <3>1. s[Len(s)].to = "+"
      BY <1>p, <2>5 DEF PlusLast
    <3>2. i = 1
      BY <2>3, <2>5
    <3>3. Len(s) \notin 2..Len(s)
      BY <2>1, <2>5, <3>1, <3>2
    <3>4. Len(t) = 0
      BY <1>1, <3>3
    <3> QED BY <1>e, <3>4
  <2>6. ASSUME h # Plus, StopSent(s) PROVE StopSent(t)
    <3>1. PICK k \in 1..Len(s) : s[k].to = "stop" /\ \A j \in k..Len(s) : s[j] # Plus
      BY <2>6 DEF StopSent
    <3>2. i < k
      BY <1>1, <2>1, <3>1
    <3>3. k-1 \in 1..Len(t) /\ t[k-1].to = "stop"
      BY <1>1, <2>1, <3>1, <3>2
    <3>4. \A j \in (k-1)..Len(t) : t[j] # Plus
      BY <1>1, <3>1, <3>3
    <3> QED BY <3>3, <3>4 DEF StopSent
  <2> QED BY <2>2, <2>4, <2>5, <2>6
<1>5. ASSUME PlusLast(s), h # Plus PROVE PlusLast(t)
  BY <1>1, <1>e, <1>5 DEF PlusLast
<1>6. ASSUME StopSent(s), h = Plus PROVE StopSent(t)
  <2>1. PICK k \in 1..Len(s) : s[k].to = "stop" /\ \A j \in k..Len(s) : s[j] # Plus
    BY <1>6 DEF StopSent
  <2>2. k # 1
    BY <1>1, <1>6, <1>p, <2>1
  <2>3. k-1 \in 1..Len(t) /\ t[k-1].to = "stop"
    BY <1>1, <2>1, <2>2
  <2>4. \A j \in (k-1)..Len(t) : t[j] # Plus
    BY <1>1, <2>1, <2>3
  <2> QED BY <2>3, <2>4 DEF StopSent
<1> QED BY <1>2, <1>3, <1>4, <1>5, <1>6 DEF t, h

(* What the parts of the dialogue say of each other.                       *)
LEMMA OutboxFacts ==
    ASSUME NEW s \in Seq(Outgoing)
    PROVE  /\ \A u : u # "+" /\ OnlyTo(s, u) => NoPlus(s)
           /\ s = <<>> => (\A u : OnlyTo(s, u)) /\ NoPlus(s) /\ ~StopSent(s)
           /\ StopSent(s) => s # <<>> /\ \E i \in 1..Len(s) : s[i].to = "stop"
           /\ \A u : PlusThen(s, u) => s # <<>>
<1>p. Plus.to = "+"
  BY DEF Plus, Reply
<1>1. ASSUME NEW u, u # "+", OnlyTo(s, u) PROVE NoPlus(s)
  BY <1>1, <1>p DEF OnlyTo, NoPlus
<1>2. s = <<>> => 1..Len(s) = {}
  OBVIOUS
<1> QED BY <1>1, <1>2 DEF OnlyTo, NoPlus, StopSent, PlusThen

-----------------------------------------------------------------------------
(* Steps of the loop that neither read nor write.                          *)
LEMMA DialogueLooks ==
    ASSUME TypeOK, Dialogue,
           CheckRunning \/ PeekNothing \/ PeekIgnored \/ PeekRequest \/ GetEof
    PROVE  Dialogue'
<1> USE DEF Dialogue, CheckRunning, PeekNothing, PeekIgnored, PeekRequest,
        GetEof, AtPeek, net, client
<1>1. LoopKnown'
  BY DEF LoopKnown
<1>2. InboxKnown'
  BY DEF LoopKnown, InboxKnown, Stranded, Pending, Owing, ServingStop
<1>3. OutboxKnown'
  BY DEF OutboxKnown, Pending
<1>4. ReplyOwed'
  BY DEF ReplyOwed, NothingSent, Owing, Taken, Pending, LoopKnown
<1>5. StopOnItsWay'
  BY DEF StopOnItsWay, NothingSent, Taken, Pending, BeingPut, ServingStop
<1> QED BY <1>1, <1>2, <1>3, <1>4, <1>5

(* A client connects: nothing has been said yet.                           *)
LEMMA DialogueBegins ==
    ASSUME TypeOK, Dialogue, GetClient
    PROVE  Dialogue'
<1> USE NothingThere DEF Dialogue, GetClient
<1>0. gdb'.wait = "idle" /\ gdb'.kind = gdb.kind
  BY DEF TypeOK, ClientStates
<1>1. LoopKnown'
  BY DEF LoopKnown
<1>2. InboxKnown'
  BY DEF InboxKnown, Stranded, Pending, Owing, ServingStop
<1>3. OutboxKnown'
  BY <1>0 DEF OutboxKnown, Pending
<1>4. ReplyOwed'
  BY <1>0 DEF ReplyOwed, NothingSent, Owing, Taken, Pending
<1>5. StopOnItsWay'
  BY <1>0 DEF StopOnItsWay, NothingSent, Taken, Pending
<1> QED BY <1>1, <1>2, <1>3, <1>4, <1>5

(* The processor is found stalled: the stop reply that is owed is put.     *)
LEMMA DialogueStalled ==
    ASSUME TypeOK, Dialogue, CheckStalled
    PROVE  Dialogue'
<1>0. /\ pc = "top" /\ conn # "none" /\ client_waiting
      /\ pc' = "put" /\ reply'.to = "stop" /\ then' = "reported"
      /\ stallState' = "STALLED"
      /\ UNCHANGED <<client_waiting, req, conn, inbox, outbox, gdb>>
  BY DEF CheckStalled, Put, Reply, net, client
<1> USE <1>0 DEF Dialogue
<1>1. LoopKnown'
  BY DEF LoopKnown, Unanswered, WithSignal
<1>2. InboxKnown'
  BY DEF InboxKnown, Stranded, ReplyOwed, NothingSent, Pending, Owing, ServingStop
<1>3. OutboxKnown'
  BY DEF OutboxKnown, Pending
<1>4. ReplyOwed'
  BY DEF ReplyOwed, NothingSent, Owing, Taken, Pending, Sent
<1>5. StopOnItsWay'
  BY DEF StopOnItsWay, NothingSent, Taken, Pending, BeingPut, ServingStop
<1> QED BY <1>1, <1>2, <1>3, <1>4, <1>5

(* An interrupt is peeked at: the client waits for the stop reply that is  *)
(* put, whether the loop looks for its stop or not.                        *)
LEMMA DialogueInterrupted ==
    ASSUME TypeOK, Dialogue, Interrupt
    PROVE  Dialogue'
<1>0. /\ pc \in {"top", "peek"} /\ conn # "none" /\ inbox # <<>> /\ Head(inbox) = ETX
      /\ stallState # "STALLED" /\ inbox' = Tail(inbox)
      /\ pc' = "put" /\ reply'.to = "stop" /\ then' = "interrupted"
      /\ stallState' = "STALLED"
      /\ UNCHANGED <<client_waiting, req, conn, outbox, gdb>>
  BY DEF Interrupt, AtPeek, PeekedInterrupt, Stall, Put, Reply, client
<1>t. inbox \in Seq(Incoming) /\ Tail(inbox) \in Seq(Incoming)
  BY <1>0 DEF TypeOK
<1> USE <1>0 DEF Dialogue
<1>w. client_waiting = TRUE \/ Stranded
  BY <1>t, InboxTail DEF InboxKnown, ServingStop, TypeOK
<1>p. ~Pending /\ ~Pending'
  BY <1>t, <1>w, InboxTail DEF InboxKnown, Stranded, Owing, Pending
<1>k. conn = "up" => gdb.kind \in Stops \cup WithSignal /\ gdb.wait # "idle"
  BY <1>w DEF ReplyOwed, NothingSent, Owing, Stranded
<1>1. LoopKnown'
  BY DEF LoopKnown, Unanswered, WithSignal
<1>2. InboxKnown'
  BY <1>t, <1>k, <1>p, InboxTail, NoPacket DEF InboxKnown, Pending, Owing
<1>3. OutboxKnown'
  BY <1>p DEF OutboxKnown
<1>4. ReplyOwed'
  BY <1>p, <1>k DEF ReplyOwed, Owing, Taken, Sent
<1>5. StopOnItsWay'
  BY <1>p DEF StopOnItsWay, Taken, BeingPut, ServingStop
<1> QED BY <1>1, <1>2, <1>3, <1>4, <1>5

(* get_packet skips a character.                                           *)
LEMMA DialogueSkips ==
    ASSUME TypeOK, Dialogue, GetSkips
    PROVE  Dialogue'
<1>0. /\ pc = "get" /\ inbox # <<>> /\ Head(inbox) \notin Packets
      /\ inbox' = Tail(inbox)
      /\ UNCHANGED <<pc, client_waiting, stallState, req, reply, then, conn, outbox, gdb>>
  BY Apart DEF GetSkips, stub, client
<1>t. inbox \in Seq(Incoming)
  BY DEF TypeOK
<1> USE <1>0 DEF Dialogue
<1>p. Pending <=> Pending'
  BY <1>t, InboxTail DEF Pending
<1>1. LoopKnown'
  BY DEF LoopKnown
<1>2. InboxKnown'
  BY <1>t, <1>p, InboxTail DEF InboxKnown, Stranded, Owing, ServingStop
<1>3. OutboxKnown'
  BY <1>p DEF OutboxKnown
<1>4. ReplyOwed'
  BY <1>p DEF ReplyOwed, NothingSent, Owing, Taken
<1>5. StopOnItsWay'
  BY <1>p DEF StopOnItsWay, NothingSent, Taken, BeingPut, ServingStop
<1> QED BY <1>1, <1>2, <1>3, <1>4, <1>5

(* get_packet reads the request and acknowledges it: from then on it is    *)
(* taken, and its '+' is the last thing sent.                              *)
LEMMA DialogueTakes ==
    ASSUME TypeOK, Dialogue, GetPacket
    PROVE  Dialogue'
<1>0. /\ pc = "get" /\ inbox # <<>> /\ Head(inbox) \in Packets
      /\ req' = Head(inbox) /\ inbox' = Tail(inbox) /\ pc' = "serve"
      /\ conn = "up" <=> conn' = "up"
      /\ conn # "up" => conn = "eof" /\ outbox' = outbox
      /\ conn = "up" => outbox' = Append(outbox, Plus)
      /\ UNCHANGED <<client_waiting, stallState, reply, then, gdb>>
  BY DEF GetPacket, client, Dialogue, LoopKnown, TypeOK
<1>t. inbox \in Seq(Incoming) /\ outbox \in Seq(Outgoing) /\ gdb \in ClientStates
  BY DEF TypeOK
<1> USE <1>0 DEF Dialogue
<1>p. Pending /\ ~Pending' /\ ~HasEtx(inbox')
  BY <1>t, InboxTail DEF Pending, InboxKnown, Stranded
<1>k. conn = "up" => gdb.wait = "ack" /\ gdb.kind = req'.k
  BY <1>t, <1>p, InboxTail DEF InboxKnown, Stranded
<1>o. ASSUME conn = "up"
      PROVE  PlusLast(outbox') /\ \A u : PlusThen(outbox', u)
  <2>1. NoPlus(outbox) /\ outbox' = Append(outbox, Plus) /\ Plus \in Outgoing
    BY <1>o, <1>p, <1>k, Characters DEF OutboxKnown
  <2> QED BY <1>t, <2>1, OutboxAppend
<1>1. LoopKnown'
  BY DEF LoopKnown
<1>2. InboxKnown'
  <2>1. inbox' \in Seq(Incoming)
    BY <1>t
  <2> QED BY <2>1, <1>p, NoPacket DEF InboxKnown, Stranded, Pending
<1>3. OutboxKnown'
  BY <1>t, <1>p, <1>k, <1>o DEF OutboxKnown, LoopKnown
<1>4. ReplyOwed'
  BY <1>k, <1>o DEF ReplyOwed, NothingSent, Owing
<1>5. StopOnItsWay'
  BY <1>p, <1>k, <1>o DEF StopOnItsWay, NothingSent, Taken, ServingStop
<1> QED BY <1>1, <1>2, <1>3, <1>4, <1>5

(* put_packet writes the packet.                                           *)
LEMMA DialogueWrites ==
    ASSUME TypeOK, Dialogue, PutWrites
    PROVE  Dialogue'
<1>0. /\ pc = "put" /\ pc' = "ack" /\ conn # "none"
      /\ conn = "up" => outbox' = Append(outbox, reply)
      /\ conn # "up" => outbox' = outbox
      /\ UNCHANGED <<client_waiting, stallState, req, reply, then, conn, inbox, gdb>>
  BY DEF PutWrites, client
<1>t. /\ outbox \in Seq(Outgoing) /\ reply \in Outgoing /\ reply # Plus
      /\ conn \in {"none", "up", "eof"} /\ gdb \in ClientStates
  BY Characters, Apart DEF TypeOK
<1> USE <1>0 DEF Dialogue
<1>p. Pending <=> Pending'
  BY DEF Pending
<1>k. Taken => reply.to = Sent(gdb.kind)
  BY DEF ReplyOwed, NothingSent
<1>1. LoopKnown'
  BY DEF LoopKnown
<1>2. InboxKnown'
  BY <1>p DEF InboxKnown, Stranded, Owing, ServingStop
<1>3. OutboxKnown'
  <2>1. CASE conn = "up"
    <3>1. NoPlus(outbox) => NoPlus(outbox')
      BY <1>t, <2>1, OutboxAppend
    <3>2. Taken => /\ OnlyTo(outbox, Sent(gdb.kind)) => OnlyTo(outbox', Sent(gdb.kind))
                   /\ PlusThen(outbox, Sent(gdb.kind)) => PlusThen(outbox', Sent(gdb.kind))
      BY <1>t, <1>k, <2>1, OutboxAppend
    <3> QED BY <1>p, <2>1, <3>1, <3>2 DEF OutboxKnown, Taken
  <2>2. CASE conn # "up"
    BY <1>p, <2>2 DEF OutboxKnown
  <2> QED BY <2>1, <2>2
<1>4. ReplyOwed'
  BY <1>p, <1>k DEF ReplyOwed, NothingSent, Owing, Taken
<1>5. StopOnItsWay'
  <2>1. Taken' <=> Taken
    BY <1>p DEF Taken
  <2>2. Taken => /\ StopSent(outbox) => StopSent(outbox')
                 /\ reply.to = "stop" => StopSent(outbox')
    BY <1>t, OutboxAppend DEF Taken
  <2>3. Taken /\ gdb.kind \in WithSignal => stallState = "STALLED"
    BY DEF ReplyOwed, Sent, LoopKnown
  <2> QED BY <2>1, <2>2, <2>3 DEF StopOnItsWay, BeingPut, ServingStop
<1> QED BY <1>1, <1>2, <1>3, <1>4, <1>5

(* put_packet returns, having read the acknowledgement or nothing.         *)
LEMMA DialoguePutReturns ==
    ASSUME TypeOK, Dialogue, PutFails \/ PutAcknowledged \/ PutEof
    PROVE  Dialogue'
<1>0. PICK c \in {"none", "up", "eof"} :
        /\ pc \in {"put", "ack"}
        /\ PutReturns(c)
        /\ \/ /\ c = "none" /\ conn # "up" /\ inbox' = inbox
           \/ /\ c = conn /\ pc = "ack" /\ inbox # <<>>
              /\ Head(inbox) = ACK /\ inbox' = Tail(inbox)
        /\ UNCHANGED <<outbox, gdb>>
  BY DEF TypeOK, PutFails, PutAcknowledged, PutEof, client
<1>1. /\ pc' \in {"top", "peek", "exit"}
      /\ then \in {"reported", "interrupted"} => ~client_waiting'
      /\ client_waiting' => client_waiting
      /\ conn' = c \/ (conn' = "none" /\ then = "detached")
      /\ UNCHANGED <<stallState, req, reply, then>>
  BY <1>0 DEF PutReturns, StillWaiting, TypeOK
<1>t. /\ inbox \in Seq(Incoming) /\ outbox \in Seq(Outgoing)
      /\ conn \in {"none", "up", "eof"}
  BY DEF TypeOK
<1>w. client_waiting' = FALSE
  BY <1>0, <1>1 DEF Dialogue, LoopKnown, PutReturns, StillWaiting, TypeOK
<1>i. \/ inbox' = inbox
      \/ inbox # <<>> /\ Head(inbox) = ACK /\ inbox' = Tail(inbox)
  BY <1>0
<1>p. Pending <=> Pending'
  <2>1. CASE inbox' = inbox
    BY <2>1 DEF Pending
  <2>2. CASE inbox # <<>> /\ Head(inbox) = ACK /\ inbox' = Tail(inbox)
    BY <1>t, <2>2, InboxTail, Apart DEF Pending
  <2> QED BY <1>i, <2>1, <2>2
<1>u. conn' = "up" => conn = "up" /\ pc = "ack"
  BY <1>0, <1>1
<1> USE DEF Dialogue
<1>2. LoopKnown'
  BY <1>0, <1>1, <1>w, <1>t DEF LoopKnown
<1>3. InboxKnown'
  <2>1. /\ Tidy(inbox')
        /\ conn = "up" => PacketsOf(inbox', gdb.kind)
        /\ HasEtx(inbox') => HasEtx(inbox)
    <3>1. Tidy(inbox) /\ (conn = "up" => PacketsOf(inbox, gdb.kind))
      BY DEF InboxKnown, Stranded
    <3>2. CASE inbox' = inbox
      BY <3>1, <3>2
    <3>3. CASE inbox # <<>> /\ Head(inbox) = ACK /\ inbox' = Tail(inbox)
      BY <1>t, <3>1, <3>3, InboxTail
    <3> QED BY <1>i, <3>2, <3>3
  <2>2. HasEtx(inbox) => stallState = "STALLED" \/ Stranded
    BY <1>0 DEF InboxKnown, LoopKnown, ServingStop
  <2>3. Stranded => Stranded'
    BY <1>0, <1>1, <1>p, <1>u DEF Stranded
  <2> QED BY <1>0, <1>1, <1>w, <1>p, <1>u, <2>1, <2>2, <2>3 DEF InboxKnown, Owing
<1>4. OutboxKnown'
  BY <1>0, <1>p, <1>u DEF OutboxKnown
<1>5. ReplyOwed'
  BY <1>1, <1>w DEF ReplyOwed, NothingSent, Owing
<1>6. StopOnItsWay'
  <2>1. Taken' => Taken /\ pc = "ack"
    BY <1>0, <1>p, <1>u DEF Taken
  <2>2. Taken /\ gdb.kind \in Stops =>
          reply.to = "stop" /\ (client_waiting => stallState = "STALLED")
    BY <1>0 DEF ReplyOwed, NothingSent, Sent, LoopKnown
  <2> QED BY <1>0, <1>1, <2>1, <2>2 DEF StopOnItsWay, NothingSent, BeingPut, ServingStop
<1> QED BY <1>2, <1>3, <1>4, <1>5, <1>6

(* put_packet reads an interrupt character and starts again.               *)
LEMMA DialogueAgain ==
    ASSUME TypeOK, Dialogue, PutAgain
    PROVE  Dialogue'
<1>0. /\ pc = "ack" /\ inbox # <<>> /\ Head(inbox) # ACK
      /\ inbox' = Tail(inbox) /\ pc' = "put"
      /\ UNCHANGED <<client_waiting, stallState, req, reply, then, conn, outbox, gdb>>
  BY DEF PutAgain, client
<1>t. inbox \in Seq(Incoming)
  BY DEF TypeOK
<1> USE <1>0 DEF Dialogue
<1>p. Pending <=> Pending'
  BY <1>t, InboxTail DEF Pending, InboxKnown, Stranded
<1>1. LoopKnown'
  BY DEF LoopKnown
<1>2. InboxKnown'
  BY <1>t, <1>p, InboxTail DEF InboxKnown, Stranded, Owing, ServingStop
<1>3. OutboxKnown'
  BY <1>p DEF OutboxKnown
<1>4. ReplyOwed'
  BY <1>p DEF ReplyOwed, NothingSent, Owing, Taken
<1>5. StopOnItsWay'
  BY <1>p DEF StopOnItsWay, NothingSent, Taken, BeingPut, ServingStop
<1> QED BY <1>1, <1>2, <1>3, <1>4, <1>5

-----------------------------------------------------------------------------
(* The requests.                                                           *)

(* A request that lets the client wait for a stop.                         *)
LEMMA DialogueResumes ==
    ASSUME TypeOK, Dialogue, Continue \/ Step \/ CycleStep
    PROVE  Dialogue'
<1>0. /\ pc = "serve" /\ req.k \in Stops /\ pc' = "top" /\ client_waiting'
      /\ UNCHANGED <<req, reply, then, conn, inbox, outbox, gdb>>
  BY DEF Continue, Step, Resume, CycleStep, Serving, Stops, net, client
<1>k. req.k \notin Unanswered \cup WithSignal
  BY <1>0 DEF Stops, Unanswered, WithSignal
<1> USE <1>0, <1>k DEF Dialogue
<1>p. ~Pending /\ ~Pending'
  BY DEF InboxKnown, Stranded, Owing, Pending
<1>1. LoopKnown'
  BY DEF LoopKnown
<1>2. InboxKnown'
  BY <1>p DEF InboxKnown, Stranded
<1>3. OutboxKnown'
  BY <1>p DEF OutboxKnown
<1>4. ReplyOwed'
  BY <1>p DEF ReplyOwed, NothingSent, Owing, Taken
<1>5. StopOnItsWay'
  BY <1>p DEF StopOnItsWay, ReplyOwed, Owing, Taken
<1> QED BY <1>1, <1>2, <1>3, <1>4, <1>5

(* A request that is answered at once.                                     *)
LEMMA DialogueAnswers ==
    ASSUME TypeOK, Dialogue,
           \/ LastSignal \/ ReadAllRegs \/ ReadReg \/ WriteReg \/ Run
           \/ InsertBreakpoint \/ RemoveBreakpoint \/ Supported \/ Answer \/ Detach
    PROVE  Dialogue'
<1>0. /\ pc = "serve" /\ req.k \notin Stops \cup WithSignal \cup Unanswered
      /\ pc' = "put"
      /\ reply'.to = req.k /\ then' \in {"replied", "detached"}
      /\ UNCHANGED <<client_waiting, stallState, req, conn, inbox, outbox, gdb>>
  <2> USE DEF Serving, Put, Reply, Stops, WithSignal, Unanswered, net, client
  <2>1. CASE LastSignal \/ ReadAllRegs \/ Answer \/ Detach
    BY <2>1 DEF LastSignal, ReadAllRegs, Answer, Detach
  <2>2. CASE ReadReg \/ WriteReg \/ Run
    BY <2>2 DEF ReadReg, WriteReg, Run
  <2>3. CASE InsertBreakpoint \/ RemoveBreakpoint \/ Supported
    BY <2>3 DEF InsertBreakpoint, RemoveBreakpoint, Supported
  <2> QED BY <2>1, <2>2, <2>3
<1>w. client_waiting = FALSE
  BY <1>0 DEF Dialogue, LoopKnown, TypeOK
<1> USE <1>0 DEF Dialogue
<1>p. ~Pending /\ ~Pending'
  BY DEF InboxKnown, Stranded, Owing, Pending
<1>s. stallState = "STALLED" \/ ~HasEtx(inbox) \/ Stranded
  BY <1>w DEF InboxKnown, ServingStop
<1>k. conn = "up" => gdb.kind = req.k /\ gdb.kind \notin Stops \cup WithSignal
                     /\ gdb.wait # "idle"
  BY DEF ReplyOwed, NothingSent, Owing
<1>r. req.k # "stop"
  BY PacketType DEF TypeOK, AllKinds
<1>1. LoopKnown'
  BY <1>w, <1>r DEF LoopKnown
<1>2. InboxKnown'
  BY <1>p, <1>s, <1>k DEF InboxKnown, Stranded, Owing
<1>3. OutboxKnown'
  BY <1>p DEF OutboxKnown
<1>4. ReplyOwed'
  BY <1>k DEF ReplyOwed, NothingSent, Owing, Taken, Sent
<1>5. StopOnItsWay'
  BY <1>k DEF StopOnItsWay, NothingSent, Taken
<1> QED BY <1>1, <1>2, <1>3, <1>4, <1>5

(* A request that is not answered.                                         *)
LEMMA DialogueIgnores ==
    ASSUME TypeOK, Dialogue, Restart \/ Ignore \/ ResumeWithSignal
    PROVE  Dialogue'
<1>0. /\ pc = "serve" /\ req.k \in Unanswered \cup WithSignal
      /\ req.k \notin Stops /\ pc' = "top"
      /\ UNCHANGED <<client_waiting, stallState, req, reply, then, conn, inbox,
                     outbox, gdb>>
  BY DEF Restart, Ignore, ResumeWithSignal, Serving, Stops, WithSignal,
         Unanswered, net, client
<1>w. client_waiting = FALSE
  BY <1>0 DEF Dialogue, LoopKnown, TypeOK
<1> USE <1>0, <1>w DEF Dialogue
<1>p. Pending <=> Pending'
  BY DEF Pending
<1>1. LoopKnown'
  BY DEF LoopKnown
<1>2. InboxKnown'
  BY <1>p DEF InboxKnown, Stranded, Owing, ServingStop
<1>3. OutboxKnown'
  BY <1>p DEF OutboxKnown
<1>4. ReplyOwed'
  BY DEF ReplyOwed, NothingSent, Owing
<1>5. StopOnItsWay'
  BY <1>p DEF StopOnItsWay, NothingSent, Taken, BeingPut, ServingStop
<1> QED BY <1>1, <1>2, <1>3, <1>4, <1>5

-----------------------------------------------------------------------------
(* The client.                                                             *)

(* It makes a request: nothing is owed then, and what put_packet may still *)
(* be reading comes before.                                                *)
LEMMA DialogueAsks ==
    ASSUME TypeOK, Dialogue, NEW k \in Kinds, GdbAsks(k)
    PROVE  Dialogue'
<1>1. PICK p \in Makes(k) : inbox' = Append(inbox, p)
  BY DEF GdbAsks
<1>2. /\ p \in Packets /\ p \in Incoming /\ p.k = k /\ p # ETX
      /\ inbox \in Seq(Incoming)
  BY <1>1, PacketType, Characters, Apart, StubAssumption DEF TypeOK, Makes
<1>0. /\ conn = "up" /\ gdb.wait = "idle" /\ gdb'.wait = "ack" /\ gdb'.kind = k
      /\ UNCHANGED <<pc, client_waiting, stallState, req, reply, then, conn, outbox>>
  BY DEF GdbAsks, stub
<1> USE <1>0 DEF Dialogue
<1>p. ~Pending /\ Pending'
  BY <1>1, <1>2, InboxAppend DEF InboxKnown, Stranded, Pending
<1>o. ~Owing /\ ~Owing'
  BY DEF ReplyOwed, NothingSent, Owing
<1>3. LoopKnown'
  BY DEF LoopKnown
<1>4. InboxKnown'
  <2>1. Tidy(inbox') /\ PacketsOf(inbox', k)
    BY <1>1, <1>2, <1>p, InboxAppend, NoPacket DEF Pending
  <2>2. HasEtx(inbox') => HasEtx(inbox)
    BY <1>1, <1>2, InboxAppend
  <2>3. AckFirst(inbox) => AckFirst(inbox')
    BY <1>1, <1>2, InboxAppend
  <2> QED BY <1>p, <1>o, <2>1, <2>2, <2>3 DEF InboxKnown, Stranded, ServingStop
<1>5. OutboxKnown'
  BY <1>p DEF OutboxKnown
<1>6. ReplyOwed'
  BY <1>p, <1>o DEF ReplyOwed, NothingSent, Taken
<1>7. StopOnItsWay'
  BY <1>p DEF StopOnItsWay, NothingSent, Taken
<1> QED BY <1>3, <1>4, <1>5, <1>6, <1>7

(* It interrupts: the loop looks for the character, or for a stop, or the  *)
(* processor is stalled.                                                   *)
LEMMA DialogueCtrlC ==
    ASSUME TypeOK, Dialogue, GdbInterrupts
    PROVE  Dialogue'
<1>0. /\ conn = "up" /\ gdb.wait = "stop" /\ inbox' = Append(inbox, ETX)
      /\ UNCHANGED <<pc, client_waiting, stallState, req, reply, then, conn, outbox, gdb>>
  BY DEF GdbInterrupts, stub
<1>t. inbox \in Seq(Incoming) /\ ETX \in Incoming /\ ETX \notin Packets
  BY Characters, Apart DEF TypeOK
<1> USE <1>0 DEF Dialogue
<1>p. ~Pending /\ ~Pending'
  BY <1>t, InboxAppend DEF InboxKnown, Stranded, Pending
<1>s. stallState = "STALLED" \/ client_waiting \/ ServingStop \/ Stranded
  BY <1>p DEF StopOnItsWay, NothingSent, Taken, OutboxKnown, Stranded
<1>1. LoopKnown'
  BY DEF LoopKnown
<1>2. InboxKnown'
  <2>1. Tidy(inbox') /\ PacketsOf(inbox', gdb.kind)
    BY <1>t, <1>p, InboxAppend, NoPacket DEF Pending
  <2> QED BY <1>p, <1>s, <2>1 DEF InboxKnown, Stranded, ServingStop
<1>3. OutboxKnown'
  BY <1>p DEF OutboxKnown
<1>4. ReplyOwed'
  BY <1>p DEF ReplyOwed, NothingSent, Owing, Taken
<1>5. StopOnItsWay'
  BY <1>p DEF StopOnItsWay, NothingSent, Taken, BeingPut, ServingStop
<1> QED BY <1>1, <1>2, <1>3, <1>4, <1>5

(* It reads the '+' of its request: the request is taken, and what follows *)
(* is what the request calls for.                                          *)
LEMMA DialogueGetsAck ==
    ASSUME TypeOK, Dialogue, GdbGetsAck
    PROVE  Dialogue'
<1>0. /\ conn = "up" /\ gdb.wait = "ack" /\ outbox # <<>> /\ Head(outbox) = Plus
      /\ outbox' = Tail(outbox)
      /\ gdb'.kind = gdb.kind
      /\ gdb.kind \in Stops \cup WithSignal => gdb'.wait = "stop"
      /\ gdb.kind \in Unanswered => gdb'.wait = "idle"
      /\ gdb.kind \notin Stops \cup WithSignal \cup Unanswered => gdb'.wait = "reply"
      /\ UNCHANGED <<pc, client_waiting, stallState, req, reply, then, conn, inbox>>
  BY DEF GdbGetsAck, stub, TypeOK, ClientStates, Stops, WithSignal, Unanswered
<1>t. outbox \in Seq(Outgoing) /\ outbox' \in Seq(Outgoing) /\ gdb.kind \in AllKinds
  BY <1>0 DEF TypeOK, ClientStates
<1>u. (Stops \cup WithSignal) \cap Unanswered = {}
  BY DEF Stops, WithSignal, Unanswered
<1> USE <1>0 DEF Dialogue
<1>p. ~Pending /\ ~Pending'
  BY <1>t, OutboxTail DEF OutboxKnown, Pending
<1>k. Sent(gdb.kind) # "+" /\ (gdb.kind \notin Stops \cup WithSignal => Sent(gdb.kind) = gdb.kind)
  BY <1>t, Apart DEF Sent
<1>o. PlusThen(outbox, Sent(gdb.kind))
  BY <1>p DEF OutboxKnown
<1>n. OnlyTo(outbox', Sent(gdb.kind)) /\ NoPlus(outbox')
  BY <1>t, <1>k, <1>o, OutboxTail, OutboxFacts
<1>l. PlusLast(outbox) => outbox' = <<>>
  BY <1>t, <1>k, <1>o, OutboxTail
<1>1. LoopKnown'
  BY DEF LoopKnown
<1>2. InboxKnown'
  <2>1. pc \in {"put", "ack"} => gdb'.wait # "idle"
    BY <1>p, <1>k, <1>u DEF LoopKnown, ReplyOwed, NothingSent, Taken
  <2> QED BY <1>p, <2>1 DEF InboxKnown, Stranded, Owing, ServingStop
<1>3. OutboxKnown'
  BY <1>u, <1>n, <1>p DEF OutboxKnown
<1>4. ReplyOwed'
  <2>1. Owing' => Owing
    BY DEF Owing
  <2>2. Owing => gdb'.wait \in {"reply", "stop"} /\ outbox' = <<>>
    BY <1>l DEF ReplyOwed, NothingSent, Owing
  <2> QED BY <1>p, <2>1, <2>2 DEF ReplyOwed, NothingSent, Taken
<1>5. StopOnItsWay'
  <2>1. StopSent(outbox) => StopSent(outbox')
    BY <1>t, OutboxTail
  <2>2. NothingSent /\ gdb.kind \in WithSignal => NothingSent'
    BY <1>l DEF NothingSent
  <2> QED BY <1>p, <2>1, <2>2 DEF StopOnItsWay, Taken, BeingPut, ServingStop
<1> QED BY <1>1, <1>2, <1>3, <1>4, <1>5

(* It drops a packet that came where the '+' was due.                      *)
LEMMA DialogueDrops ==
    ASSUME TypeOK, Dialogue, GdbDrops
    PROVE  Dialogue'
<1>0. /\ conn = "up" /\ gdb.wait = "ack" /\ outbox # <<>> /\ Head(outbox) # Plus
      /\ outbox' = Tail(outbox) /\ inbox' = Append(inbox, ACK)
      /\ UNCHANGED <<pc, client_waiting, stallState, req, reply, then, conn, gdb>>
  BY DEF GdbDrops, stub, client
<1>t. /\ inbox \in Seq(Incoming) /\ outbox \in Seq(Outgoing)
      /\ ACK \in Incoming /\ ACK \notin Packets /\ ACK # ETX
  BY Characters, Apart DEF TypeOK
<1> USE <1>0 DEF Dialogue
<1>p. Pending <=> Pending'
  BY <1>t, InboxAppend DEF Pending
<1>1. LoopKnown'
  BY DEF LoopKnown
<1>2. InboxKnown'
  BY <1>t, <1>p, InboxAppend DEF InboxKnown, Stranded, Owing, ServingStop
<1>3. OutboxKnown'
  BY <1>t, <1>p, OutboxTail DEF OutboxKnown
<1>4. ReplyOwed'
  BY <1>t, <1>p, OutboxTail DEF ReplyOwed, NothingSent, Owing, Taken
<1>5. StopOnItsWay'
  <2>1. Taken /\ StopSent(outbox) => StopSent(outbox')
    BY <1>t, OutboxTail DEF Taken, OutboxKnown
  <2>2. NothingSent => NothingSent'
    BY <1>t, OutboxTail DEF NothingSent
  <2> QED BY <1>p, <2>1, <2>2 DEF StopOnItsWay, Taken, BeingPut, ServingStop
<1> QED BY <1>1, <1>2, <1>3, <1>4, <1>5

(* It reads the reply it waits for.                                        *)
LEMMA DialogueGetsReply ==
    ASSUME TypeOK, Dialogue, GdbGetsReply
    PROVE  Dialogue'
<1>0. /\ conn = "up" /\ gdb.wait \in {"reply", "stop"} /\ outbox # <<>>
      /\ outbox' = Tail(outbox) /\ inbox' = Append(inbox, ACK)
      /\ gdb'.wait = "idle" /\ gdb'.kind = gdb.kind
      /\ UNCHANGED <<pc, client_waiting, stallState, req, reply, then, conn>>
  BY DEF GdbGetsReply, stub, TypeOK, ClientStates
<1>t. /\ inbox \in Seq(Incoming) /\ outbox \in Seq(Outgoing) /\ gdb.kind \in AllKinds
      /\ ACK \in Incoming /\ ACK \notin Packets /\ ACK # ETX
  BY Characters, Apart DEF TypeOK, ClientStates
<1> USE <1>0 DEF Dialogue
<1>p. ~Pending /\ ~Pending'
  BY <1>t, InboxAppend DEF InboxKnown, Stranded, Pending
<1>o. ~Owing /\ ~Owing'
  BY DEF ReplyOwed, NothingSent, Owing
<1>1. LoopKnown'
  BY DEF LoopKnown
<1>2. InboxKnown'
  <2>1. AckFirst(inbox') /\ Tidy(inbox') /\ PacketsOf(inbox', gdb.kind)
    BY <1>t, <1>p, InboxAppend, NoPacket DEF Pending
  <2>2. HasEtx(inbox') => HasEtx(inbox)
    BY <1>t, InboxAppend
  <2>3. Stranded => stallState = "STALLED"
    BY DEF Stranded, StopOnItsWay, NothingSent, Taken
  <2> QED BY <1>p, <1>o, <2>1, <2>2, <2>3 DEF InboxKnown, ServingStop
<1>3. OutboxKnown'
  <2>1. NoPlus(outbox)
    BY <1>t, Apart, OutboxFacts DEF OutboxKnown
  <2>2. NoPlus(outbox')
    BY <1>t, <2>1, OutboxTail
  <2> QED BY <2>2 DEF OutboxKnown
<1>4. ReplyOwed'
  BY <1>o DEF ReplyOwed, NothingSent, Taken
<1>5. StopOnItsWay'
  BY DEF StopOnItsWay, NothingSent, Taken
<1> QED BY <1>1, <1>2, <1>3, <1>4, <1>5

(* It goes: what it sent is still to be read, what was sent to it is lost. *)
LEMMA DialogueEnds ==
    ASSUME TypeOK, Dialogue, GdbGoes
    PROVE  Dialogue'
<1>0. /\ conn' = "eof" /\ outbox' = <<>> /\ gdb'.wait = "idle"
      /\ UNCHANGED <<pc, client_waiting, stallState, req, reply, then, inbox>>
  BY DEF GdbGoes, stub, TypeOK, ClientStates
<1> USE <1>0 DEF Dialogue
<1>p. Pending <=> Pending'
  BY DEF Pending
<1>1. LoopKnown'
  BY DEF LoopKnown
<1>2. InboxKnown'
  BY <1>p DEF InboxKnown, Stranded, Owing, ServingStop
<1>3. OutboxKnown'
  BY DEF OutboxKnown
<1>4. ReplyOwed'
  BY DEF ReplyOwed, NothingSent, Taken
<1>5. StopOnItsWay'
  BY DEF StopOnItsWay, NothingSent, Taken
<1> QED BY <1>1, <1>2, <1>3, <1>4, <1>5

(* The processor's steps, and steps of others.                             *)
LEMMA DialogueStays ==
    ASSUME Dialogue,
           UNCHANGED <<pc, client_waiting, stallState, req, reply, then, conn,
                       inbox, outbox, gdb>>
    PROVE  Dialogue'
  BY DEF Dialogue, LoopKnown, InboxKnown, Stranded, OutboxKnown, ReplyOwed, NothingSent, StopOnItsWay,
         Pending, Taken, Owing, ServingStop, BeingPut

-----------------------------------------------------------------------------
LEMMA InitDialogue == Init => Dialogue
<1> SUFFICES ASSUME Init PROVE Dialogue
  OBVIOUS
<1> USE NothingThere DEF Init
<1>1. LoopKnown
  BY DEF LoopKnown
<1>2. InboxKnown
  BY DEF InboxKnown, Stranded, Pending, Owing, ServingStop
<1>3. OutboxKnown
  BY DEF OutboxKnown
<1>4. ReplyOwed /\ StopOnItsWay
  BY DEF ReplyOwed, NothingSent, StopOnItsWay, Taken
<1> QED BY <1>1, <1>2, <1>3, <1>4 DEF Dialogue

LEMMA NextDialogue == TypeOK /\ Dialogue /\ [Next]_vars => Dialogue'
<1> SUFFICES ASSUME TypeOK, Dialogue, [Next]_vars PROVE Dialogue'
  OBVIOUS
<1>1. CASE Stub
  <2>1. CASE Serve
    BY <2>1, DialogueResumes, DialogueAnswers, DialogueIgnores DEF Serve
  <2> QED
    BY <1>1, <2>1, DialogueBegins, DialogueStalled, DialogueLooks,
       DialogueInterrupted, DialogueSkips, DialogueTakes, DialogueWrites,
       DialoguePutReturns, DialogueAgain
    DEF Stub
<1>2. CASE \E k \in Kinds : GdbAsks(k)
  BY <1>2, DialogueAsks
<1>3. CASE GdbInterrupts \/ GdbReceives \/ GdbGoes
  BY <1>3, DialogueCtrlC, DialogueGetsAck, DialogueDrops, DialogueGetsReply,
     DialogueEnds
  DEF GdbReceives
<1>4. CASE Cpu
  BY <1>4, DialogueStays
  DEF Cpu, CpuRuns, CpuSteps, CpuTraps, CpuFaults, stub, net, client
<1>5. CASE UNCHANGED vars
  BY <1>5, DialogueStays DEF vars, stub, net, client
<1> QED BY <1>1, <1>2, <1>3, <1>4, <1>5 DEF Next

(* The dialogue is kept to in every state: the two directions of the       *)
(* connection hold what the stub's place in handle_rsp, get_packet and     *)
(* put_packet allows.                                                      *)
THEOREM AlwaysDialogue == Spec => []Dialogue
<1>1. Spec => []TypeOK
  BY StubTypeCorrect
<1> QED BY <1>1, InitDialogue, NextDialogue, PTL DEF Spec

(* put_packet never reads a request in place of its acknowledgement: no    *)
(* request of the client is eaten.                                         *)
THEOREM AlwaysRequestsSafe == Spec => []RequestsSafe
<1>1. TypeOK /\ Dialogue => RequestsSafe
  BY InboxTail DEF TypeOK, Dialogue, InboxKnown, Stranded, Pending, RequestsSafe
<1> QED BY <1>1, StubTypeCorrect, AlwaysDialogue, PTL

(* What the client takes for the answer to its request is the answer to    *)
(* that request.                                                           *)
THEOREM AlwaysMatched == Spec => []Matched
<1>1. TypeOK /\ Dialogue => Matched
  BY OutboxTail DEF TypeOK, Dialogue, OutboxKnown, Matched, Sent
<1> QED BY <1>1, StubTypeCorrect, AlwaysDialogue, PTL

(* A client that waits for a stop is owed a stop reply, which is on its    *)
(* way or looked for; and the loop looks for a stop only for such a client. *)
THEOREM AlwaysStopOwed == Spec => []StopOwed
<1>1. ASSUME TypeOK, Dialogue PROVE StopOwed
  <2>1. ASSUME conn = "up", gdb.wait = "stop", gdb.kind \notin WithSignal
        PROVE  client_waiting \/ BeingPut \/ InOutbox \/ ServingStop
    <3>1. client_waiting \/ BeingPut \/ StopSent(outbox) \/ ServingStop
      BY <1>1, <2>1 DEF Dialogue, OutboxKnown, StopOnItsWay, NothingSent, Taken
    <3>2. StopSent(outbox) => InOutbox
      BY <1>1, OutboxFacts DEF TypeOK, InOutbox
    <3> QED BY <3>1, <3>2
  <2>2. ASSUME conn = "up", client_waiting, pc \in {"top", "peek"}
        PROVE  gdb.wait \in {"ack", "stop"} /\ gdb.kind \in Stops
    BY <1>1, <2>2 DEF Dialogue, ReplyOwed, NothingSent, OutboxKnown, Owing
  <2> QED BY <2>1, <2>2 DEF StopOwed, ServingStop
<1> QED BY <1>1, StubTypeCorrect, AlwaysDialogue, PTL
=============================================================================
