--------------------------- MODULE DualClockFifo ---------------------------
(***************************************************************************)
(* dual_clock_fifo.v as wb_port.v uses it for the writes of a Wishbone     *)
(* port to the SDRAM: a ring of memory words, a write pointer in one clock *)
(* domain and a read pointer in the other, each sent to the other side in  *)
(* Gray code through two registers.                                        *)
(*                                                                         *)
(* A step is a clock edge: of the write clock, of the read clock, or of    *)
(* both at once.  A register that samples the other domain at an edge at   *)
(* which the sampled pointer changes gets, bit by bit, the old or the new  *)
(* value.                                                                  *)
(*                                                                         *)
(* The k-th word written is the number k.  written and taken count the     *)
(* edges with wr_en_i and rd_en_i; the four *_at count, for a register     *)
(* that holds a copy of a pointer, the edges that had moved the pointer    *)
(* when it was sampled: they are not in the code and decide nothing.       *)
(***************************************************************************)
EXTENDS Integers, FiniteSets

CONSTANTS
    ADDR_WIDTH,
    MaxWords      \* bound: the words the port writes

(* The powers of two. *)
Pow2[i \in 0 .. ADDR_WIDTH] == IF i = 0 THEN 1 ELSE 2 * Pow2[i - 1]

Depth == Pow2[ADDR_WIDTH]
Addr == 0 .. Depth - 1

(* Addition in ADDR_WIDTH bits. *)
Plus(a, n) == (a + n) % Depth

Bit(a, i) == (a \div Pow2[i]) % 2

(* gray_conv, as the set of the bits that are one.                         *)
gray_conv(a) == {i \in 0 .. ADDR_WIDTH - 1 : Bit(a, i) # Bit(a, i + 1)}

(* What a register may get that samples a pointer moving from a to b.      *)
Mixed(a, b) == {(a \cap b) \cup s : s \in SUBSET ((a \cup b) \ (a \cap b))}

(* gray_conv takes the pointer apart into its first bit and the others.    *)
ASSUME FifoAssumption ==
    /\ ADDR_WIDTH \in Nat /\ ADDR_WIDTH > 1
    /\ MaxWords \in Nat

VARIABLES
    wr_rst, wr_addr, wr_addr_gray, full_o,
    rd_addr_gray_wr, rd_addr_gray_wr_r,
    rd_rst, rd_addr, rd_addr_gray, empty_o, rd_data_o,
    wr_addr_gray_rd, wr_addr_gray_rd_r,
    mem,
    written, taken, wr_at, wr_at_r, rd_at, rd_at_r

wrVars == <<wr_rst, wr_addr, wr_addr_gray, full_o, rd_addr_gray_wr,
            rd_addr_gray_wr_r, mem, written, rd_at, rd_at_r>>
rdVars == <<rd_rst, rd_addr, rd_addr_gray, empty_o, rd_data_o,
            wr_addr_gray_rd, wr_addr_gray_rd_r, taken, wr_at, wr_at_r>>
vars == <<wrVars, rdVars>>

(* The type of every variable.                                             *)
TypeOK ==
    /\ wr_rst \in BOOLEAN /\ rd_rst \in BOOLEAN
    /\ wr_addr \in Addr /\ rd_addr \in Addr
    /\ full_o \in BOOLEAN /\ empty_o \in BOOLEAN
    /\ {wr_addr_gray, rd_addr_gray, rd_addr_gray_wr, rd_addr_gray_wr_r,
        wr_addr_gray_rd, wr_addr_gray_rd_r} \subseteq {gray_conv(a) : a \in Addr}
    /\ mem \in [Addr -> Nat]
    /\ rd_data_o \in Nat
    /\ {written, taken, wr_at, wr_at_r, rd_at, rd_at_r} \subseteq Nat

(* Both resets have been held for long enough.                             *)
Init ==
    /\ wr_rst = TRUE /\ rd_rst = TRUE
    /\ wr_addr = 0 /\ rd_addr = 0
    /\ full_o = FALSE /\ empty_o = TRUE
    /\ wr_addr_gray = gray_conv(0) /\ rd_addr_gray = gray_conv(0)
    /\ rd_addr_gray_wr = gray_conv(0) /\ rd_addr_gray_wr_r = gray_conv(0)
    /\ wr_addr_gray_rd = gray_conv(0) /\ wr_addr_gray_rd_r = gray_conv(0)
    /\ mem = [a \in Addr |-> 0]
    /\ rd_data_o = 0
    /\ written = 0 /\ taken = 0
    /\ wr_at = 0 /\ wr_at_r = 0 /\ rd_at = 0 /\ rd_at_r = 0

-----------------------------------------------------------------------------
(* One edge of the write clock with wr_en_i = en, at which the first       *)
(* register of the synchroniser gets g, the read pointer after n reads.    *)

wr_addr_next(en) == CASE wr_rst -> 0 [] ~wr_rst /\ en -> Plus(wr_addr, 1)
                      [] OTHER -> wr_addr
wr_gray_next(en) == CASE wr_rst -> gray_conv(0)
                      [] ~wr_rst /\ en -> gray_conv(Plus(wr_addr, 1))
                      [] OTHER -> wr_addr_gray

(* Mutant: the comparison is late by one word. *)
full_nextM(en) ==
    /\ ~wr_rst
    /\ IF en THEN gray_conv(Plus(wr_addr, 1)) = rd_addr_gray_wr_r
       ELSE full_o /\ gray_conv(Plus(wr_addr, 1)) = rd_addr_gray_wr_r

(* Mutant: the flag is looked at again only with the next write. *)
full_nextStuckM(en) ==
    /\ ~wr_rst
    /\ IF en THEN gray_conv(Plus(wr_addr, 2)) = rd_addr_gray_wr_r ELSE full_o

full_next(en) ==
    /\ ~wr_rst
    /\ IF en THEN gray_conv(Plus(wr_addr, 2)) = rd_addr_gray_wr_r
       ELSE full_o /\ gray_conv(Plus(wr_addr, 1)) = rd_addr_gray_wr_r

WrEdge(en, g, n) ==
    /\ wr_addr' = wr_addr_next(en)
    /\ wr_addr_gray' = wr_gray_next(en)
    /\ full_o' = full_next(en)
    /\ mem' = IF en THEN [mem EXCEPT ![wr_addr] = written + 1] ELSE mem
    /\ written' = IF en THEN written + 1 ELSE written
    /\ rd_addr_gray_wr' = g
    /\ rd_addr_gray_wr_r' = rd_addr_gray_wr
    /\ rd_at' = n
    /\ rd_at_r' = rd_at
    /\ UNCHANGED wr_rst

(* ... and of the read clock.                                              *)

(* Mutant: the pointer does not wrap. *)
rd_addr_nextM(en) == IF en THEN rd_addr + 1 ELSE rd_addr

rd_addr_next(en) == CASE rd_rst -> 0 [] ~rd_rst /\ en -> Plus(rd_addr, 1)
                      [] OTHER -> rd_addr
rd_gray_next(en) == CASE rd_rst -> gray_conv(0)
                      [] ~rd_rst /\ en -> gray_conv(Plus(rd_addr, 1))
                      [] OTHER -> rd_addr_gray

(* Mutant: the flag is looked at again only with the next read. *)
empty_nextM(en) ==
    \/ rd_rst
    \/ IF en THEN gray_conv(Plus(rd_addr, 1)) = wr_addr_gray_rd_r ELSE empty_o

empty_next(en) ==
    \/ rd_rst
    \/ IF en THEN gray_conv(Plus(rd_addr, 1)) = wr_addr_gray_rd_r
       ELSE empty_o /\ gray_conv(rd_addr) = wr_addr_gray_rd_r

(* Mutant: the pointer has moved when the memory is read. *)
RdEdgeM(en, g, n) ==
    /\ rd_addr' = rd_addr_next(en)
    /\ rd_addr_gray' = rd_gray_next(en)
    /\ empty_o' = empty_next(en)
    /\ rd_data_o' = IF en THEN mem[rd_addr_next(en)] ELSE rd_data_o
    /\ taken' = IF en THEN taken + 1 ELSE taken
    /\ wr_addr_gray_rd' = g
    /\ wr_addr_gray_rd_r' = wr_addr_gray_rd
    /\ wr_at' = n
    /\ wr_at_r' = wr_at
    /\ UNCHANGED rd_rst

RdEdge(en, g, n) ==
    /\ rd_addr' = rd_addr_next(en)
    /\ rd_addr_gray' = rd_gray_next(en)
    /\ empty_o' = empty_next(en)
    /\ rd_data_o' = IF en THEN mem[rd_addr] ELSE rd_data_o
    /\ taken' = IF en THEN taken + 1 ELSE taken
    /\ wr_addr_gray_rd' = g
    /\ wr_addr_gray_rd_r' = wr_addr_gray_rd
    /\ wr_at' = n
    /\ wr_at_r' = wr_at
    /\ UNCHANGED rd_rst

-----------------------------------------------------------------------------
(* wrfifo_wrreq: a write is acknowledged, and goes in, only if full_o is   *)
(* low.  The port is quiet while it is reset.                              *)
wr_en(en) == en => ~wr_rst /\ ~full_o /\ written < MaxWords

(* wrfifo_rdreq: the SDRAM side takes a word when it is idle and empty_o   *)
(* is low.                                                                 *)
rd_en(en) == en => ~rd_rst /\ ~empty_o

WrClock(en) ==
    /\ wr_en(en)
    /\ WrEdge(en, rd_addr_gray, taken)
    /\ UNCHANGED rdVars

RdClock(en) ==
    /\ rd_en(en)
    /\ RdEdge(en, wr_addr_gray, written)
    /\ UNCHANGED wrVars

(* Both edges fall together: each side samples the other's pointer while   *)
(* it may be moving.                                                       *)
BothClocks(we, re) ==
    /\ wr_en(we)
    /\ rd_en(re)
    /\ \E g \in Mixed(rd_addr_gray, rd_gray_next(re)) :
          WrEdge(we, g, IF re /\ g = rd_gray_next(re) THEN taken + 1 ELSE taken)
    /\ \E g \in Mixed(wr_addr_gray, wr_gray_next(we)) :
          RdEdge(re, g, IF we /\ g = wr_gray_next(we) THEN written + 1 ELSE written)

(* The two resets end in any order.                                        *)
WrReset ==
    /\ wr_rst
    /\ wr_rst' = FALSE
    /\ UNCHANGED <<wr_addr, wr_addr_gray, full_o, rd_addr_gray_wr,
                   rd_addr_gray_wr_r, mem, written, rd_at, rd_at_r, rdVars>>

RdReset ==
    /\ rd_rst
    /\ rd_rst' = FALSE
    /\ UNCHANGED <<rd_addr, rd_addr_gray, empty_o, rd_data_o,
                   wr_addr_gray_rd, wr_addr_gray_rd_r, taken, wr_at,
                   wr_at_r, wrVars>>

Next ==
    \/ \E en \in BOOLEAN : WrClock(en) \/ RdClock(en)
    \/ \E we, re \in BOOLEAN : BothClocks(we, re)
    \/ WrReset
    \/ RdReset

Spec == Init /\ [][Next]_vars

(* Both clocks run, the resets end, and the SDRAM side, whenever it has    *)
(* finished with a word, is idle again.                                    *)
WrTicks == \E we, re \in BOOLEAN : WrClock(we) \/ BothClocks(we, re)
RdTicks == \E we, re \in BOOLEAN : RdClock(re) \/ BothClocks(we, re)
Takes == RdClock(TRUE) \/ \E we \in BOOLEAN : BothClocks(we, TRUE)

FairSpec ==
    /\ Spec
    /\ WF_vars(WrTicks) /\ WF_vars(RdTicks) /\ WF_vars(Takes)
    /\ WF_vars(WrReset) /\ WF_vars(RdReset)

-----------------------------------------------------------------------------
(* Properties.                                                             *)

(* Seen from outside it is a queue of Depth - 1 words: none is lost,       *)
(* overwritten, read twice or read before it is there, whatever the two    *)
(* clocks and the samples taken across them do.                            *)
Q == INSTANCE WordQueue WITH Capacity <- Depth - 1, in <- written,
                             out <- taken, word <- rd_data_o
QueueImplemented == Q!QueueSpec

(* The flags compare a pointer with an old copy of the other one, and may  *)
(* be late, but only to the safe side: full_o low means there is room,     *)
(* empty_o low means there is a word.                                      *)
FlagsSafe ==
    /\ ~full_o => written - taken < Depth - 1
    /\ ~empty_o => taken < written

(* A word that was written is taken, however few follow it.                *)
Drained == \A k \in 1 .. MaxWords : written = k ~> taken >= k

(* The port is not held up for ever.                                       *)
FullClears == full_o ~> ~full_o

=============================================================================
