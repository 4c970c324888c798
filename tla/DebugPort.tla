------------------------------ MODULE DebugPort ------------------------------
(***************************************************************************)
(* What the access functions of rsp-rtl_sim.c promise the GDB stub: each   *)
(* call moves the words of its request, first to last, each once and at    *)
(* one moment between call and return, and touches nothing else.  A word   *)
(* is atomic; a block is not, unless the CPU is stalled: Compute may come  *)
(* between two of its words.  The pipes, the two processes, the TAP and    *)
(* its scan chains are not visible here.                                   *)
(***************************************************************************)
EXTENDS Integers, Sequences

CONSTANTS Adr, Word, Half, IdCode,
          MemReads, MemWrites,    \* commands that read, write memory
          RegReads, RegWrites,    \* ... CPU registers
          CtrlRead, CtrlWrite,    \* ... the stall and reset bits
          IdRead,                 \* ... the TAP's IDCODE
          NoRequest

VARIABLES wb, spr, ctrl,          \* the target
          phase, req, moved, res, \* of the call in progress; moved, of its words
          ret                     \* the stub's copy of what it read

target == <<wb, spr, ctrl>>
portVars == <<wb, spr, ctrl, phase, req, moved, res, ret>>

\* How many words the request moves.  The bytes a block write has past its last
\* whole word spill into a word of their own.
Whole(r) == IF r.len < 4 THEN 1 ELSE r.len \div 4
Count(r) ==
  Whole(r) + (IF r.cmd \in MemWrites \cup RegWrites /\ r.len > 4 /\ r.len % 4 # 0 THEN 1 ELSE 0)

\* The address the next of them is at.
Here == req.adr + moved

\* The next word of cells f is read; where there is no cell, 0 is.
ReadWord(f) == res' = Append(res, IF Here \in Adr THEN f[Here] ELSE 0)

\* The next word is written: g is f everywhere else.
WriteWord(f, g) ==
  /\ g \in [Adr -> Word]
  /\ \A x \in Adr \ {Here} : g[x] = f[x]

\* Equal but for the top bit.
Low(w) == IF w >= Half THEN w - Half ELSE w

\* What memory, and what the registers, hold where the word was written: of the
\* registers of a block, only the first is sure of its top bit.
MemGets(g) == Here \in Adr /\ moved < Whole(req) => g[Here] = req.data[moved + 1]
RegGets(g) ==
  Here \in Adr /\ moved < Whole(req) =>
    /\ Low(g[Here]) = Low(req.data[moved + 1])
    /\ moved = 0 => g[Here] = req.data[1]

PortInit ==
  /\ wb \in [Adr -> Word] /\ spr \in [Adr -> Word] /\ ctrl = 0
  /\ phase = "idle" /\ req = NoRequest /\ moved = 0 /\ res = << >> /\ ret = << >>

Call ==
  /\ phase = "idle" /\ phase' = "called"
  /\ req' # NoRequest
  /\ UNCHANGED <<target, moved, res, ret>>

\* The word moved may be the last.
MovesOn ==
  IF moved + 1 = Count(req) THEN phase' = "performed" /\ moved' = 0
  ELSE phase' = phase /\ moved' = moved + 1

Access ==
  /\ phase = "called" /\ MovesOn
  /\ \/ req.cmd \in MemReads /\ ReadWord(wb) /\ UNCHANGED target
     \/ req.cmd \in RegReads /\ ReadWord(spr) /\ UNCHANGED target
     \/ req.cmd = CtrlRead /\ res' = <<ctrl>> /\ UNCHANGED target
     \/ req.cmd = IdRead /\ res' = <<IdCode>> /\ UNCHANGED target
     \/ /\ req.cmd \in MemWrites /\ WriteWord(wb, wb') /\ MemGets(wb')
        /\ UNCHANGED <<spr, ctrl, res>>
     \/ /\ req.cmd \in RegWrites /\ WriteWord(spr, spr') /\ RegGets(spr')
        /\ UNCHANGED <<wb, ctrl, res>>
     \/ req.cmd = CtrlWrite /\ ctrl' = req.data[1] /\ UNCHANGED <<wb, spr, res>>
  /\ UNCHANGED <<req, ret>>

Return ==
  /\ phase = "performed" /\ phase' = "idle"
  /\ req' = NoRequest /\ moved' = 0 /\ res' = << >>
  /\ ret' = IF req.cmd \in MemReads \cup RegReads \cup {CtrlRead, IdRead} THEN res ELSE ret
  /\ UNCHANGED target

\* The CPU, while not stalled, stores anywhere or stalls.
Compute ==
  /\ ctrl % 2 = 0
  /\ \/ wb' \in [Adr -> Word] /\ UNCHANGED ctrl
     \/ ctrl' = ctrl + 1 /\ UNCHANGED wb
  /\ UNCHANGED <<spr, phase, req, moved, res, ret>>

PortNext == Call \/ Access \/ Return \/ Compute

PortSpec == PortInit /\ [][PortNext]_portVars

=============================================================================
