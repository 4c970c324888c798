----------------------------- MODULE JtagServer -----------------------------
(***************************************************************************)
(* The JTAG server of the Verilator test benches: jtagServer.cpp, called   *)
(* by the test bench's loop once per half period of the system clock.      *)
(*                                                                         *)
(* A call of doJTAG never waits for a clock to end: it moves the pins one  *)
(* step and returns, and the places it will go on from, in gen_clk,        *)
(* do_tms_seq and do_scan_chain, are static variables.  It does wait, and  *)
(* the simulation with it, in the read of the next command: the socket is  *)
(* a blocking one (O_NONBLOCK is set on listenfd).                         *)
(*                                                                         *)
(* A byte has ByteBits bits.  A buffer is the sequence of its bits, so     *)
(* that data, shifted j times, starts with the bit j of byte i.  The       *)
(* debugger (OpenOCD) and the TAP are external.                            *)
(*                                                                         *)
(* Two things put the server out of step with its debugger.  do_tms_seq    *)
(* sends no bit of the last byte of a whole number of bytes: a sequence of *)
(* one byte leaves the clock that CHECK_CMD has begun for it, and several  *)
(* in a row leave it high.  And a read that returns a part of a command is *)
(* taken for a command.  The commands so taken are marked loose.           *)
(***************************************************************************)
EXTENDS Integers, Sequences

CONSTANTS
    ByteBits,     \* 8
    tck_period,   \* 10 in VerilatorTbUtils
    XFERT_MAX_SIZE, \* the bytes of a buffer, 512
    TmsBuffers,   \* the TMS sequences that are sent
    ScanBuffers,  \* what is scanned in
    MaxQueue,     \* bound: commands sent and not yet read
    MaxParts      \* bound: reads that return a part of a command

Bit == {0, 1}

(***************************************************************************)
(* Any bits that fit a buffer are sent; a scan has a bit.  Below five      *)
(* calls per half period a reset would have fewer than five clocks.        *)
(***************************************************************************)
ASSUME JtagAssumption ==
    /\ ByteBits \in Nat \ {0}
    /\ tck_period \in Nat /\ tck_period >= 5
    /\ XFERT_MAX_SIZE \in Nat
    /\ TmsBuffers \cup ScanBuffers \subseteq
         UNION {[1..n -> Bit] : n \in 0..XFERT_MAX_SIZE * ByteBits}
    /\ <<>> \notin ScanBuffers
    /\ MaxQueue \in Nat /\ MaxParts \in Nat

(* The commands: what to do, and the bits of buffer_out that matter.       *)
Command(cmd, bits) == [cmd |-> cmd, bits |-> bits]
None == Command("none", <<>>)
Reset == Command("CMD_RESET", <<>>)
Stop == Command("CMD_STOP_SIMU", <<>>)
TmsSeqs == {Command("CMD_TMS_SEQ", b) : b \in TmsBuffers}
ScanKinds == {"CMD_SCAN_CHAIN", "CMD_SCAN_CHAIN_FLIP_TMS"}
Scans == {Command(k, b) : k \in ScanKinds, b \in ScanBuffers}
Commands == {Reset, Stop} \cup TmsSeqs \cup Scans

VARIABLES
    \* the server
    jtag_state,
    cmd_in_progress,
    tms_flip,
    packet,        \* the command read last
    buffer_in,     \* the bits captured for it
    clk,           \* the static variables of gen_clk
    tseq,          \* i and j of do_tms_seq
    chain,         \* i and j of do_scan_chain
    captured_tdo,  \* of do_scan_chain
    \* the pins
    tms, tdi, tck,
    \* the TAP: TDO and the level of TCK it saw last
    tdo, was,
    \* since the command in progress was taken: what was clocked in and out,
    \* and was it taken out of step?
    seen, read, loose,
    \* the connection: the commands sent, has a part of the first been read,
    \* how often was only a part read, and the answer
    sock, part, parts, answer,
    \* the debugger: has it closed the connection, does it wait for an
    \* answer, has it sent CMD_STOP_SIMU?
    gone, waits, stopped

places == <<tseq, chain, captured_tdo, buffer_in>>
server == <<jtag_state, cmd_in_progress, tms_flip, packet, clk, places>>
pins == <<tms, tdi, tck>>
tap == <<tdo, was, seen, read, loose>>
incoming == <<sock, part, parts>>
debugger == <<waits, stopped, gone>>
vars == <<server, pins, tap, incoming, answer, debugger>>

(* Mutant: a clock starts high. *)
gen_clk_restartM == [gen_clk_begin |-> TRUE, tck_low |-> FALSE, age |-> 0,
                     cur_period |-> 0, capture_done |-> FALSE]

(* gen_clk_restart: age is t - time, the calls since the last edge.        *)
gen_clk_restart == [gen_clk_begin |-> TRUE, tck_low |-> TRUE, age |-> 0,
                    cur_period |-> 0, capture_done |-> FALSE]

(* The type of every variable.                                             *)
TypeOK ==
    /\ jtag_state \in {"CHECK_CMD", "TAP_RESET", "GOTO_IDLE", "DO_TMS_SEQ",
                       "SCAN_CHAIN"}
    /\ cmd_in_progress \in BOOLEAN
    /\ tms_flip \in Bit
    /\ packet \in Commands \cup {None}
    /\ buffer_in \in [1..Len(packet.bits) -> Bit]
    /\ clk \in [gen_clk_begin : BOOLEAN, tck_low : BOOLEAN, age : Nat,
                cur_period : 0..5 * tck_period, capture_done : BOOLEAN]
    /\ tseq \in (0..XFERT_MAX_SIZE) \X (0..ByteBits)
    /\ chain \in (0..XFERT_MAX_SIZE) \X (0..ByteBits)
    /\ {captured_tdo, tms, tdi, tck, tdo, was} \subseteq Bit
    /\ seen \in Seq(Bit \X Bit) /\ read \in Seq(Bit)
    /\ sock \in Seq(Commands) /\ parts \in 0..MaxParts /\ answer \in Seq(Bit)
    /\ {loose, part, gone, waits, stopped} \subseteq BOOLEAN

Init ==
    /\ jtag_state = "CHECK_CMD"
    /\ cmd_in_progress = FALSE
    /\ tms_flip = 0
    /\ packet = None
    /\ buffer_in = <<>>
    /\ clk = gen_clk_restart
    /\ tseq = <<0, 0>>
    /\ chain = <<0, 0>>
    /\ captured_tdo = 0
    /\ tms = 0 /\ tdi = 0 /\ tck = 0
    /\ tdo = 0 /\ was = 0 /\ seen = <<>> /\ read = <<>> /\ loose = FALSE
    /\ sock = <<>> /\ part = FALSE /\ parts = 0 /\ answer = <<>>
    /\ gone = FALSE /\ waits = FALSE /\ stopped = FALSE

-----------------------------------------------------------------------------
(* One clock or several, a call at a time.                                 *)

(* cur_period counts the calls that have driven TCK high. *)
Elapsed(nb_period) == clk.cur_period >= nb_period * tck_period

Age == IF clk.gen_clk_begin THEN 0 ELSE clk.age + 1
Flips == Age > tck_period

(* Mutant: gen_clk_begin is not cleared. *)
gen_clkM(nb_period, get_tdo) ==
    /\ ~Elapsed(nb_period)
    /\ tck' = IF clk.tck_low THEN 0 ELSE 1
    /\ UNCHANGED clk

(* gen_clk returns IN_PROGRESS. *)
gen_clk(nb_period, get_tdo) ==
    /\ ~Elapsed(nb_period)
    /\ tck' = IF clk.tck_low THEN 0 ELSE 1
    /\ clk' = [gen_clk_begin |-> FALSE,
               tck_low       |-> IF Flips THEN ~clk.tck_low ELSE clk.tck_low,
               age           |-> IF Flips THEN 0 ELSE Age,
               cur_period    |-> IF clk.tck_low THEN clk.cur_period
                                 ELSE clk.cur_period + 1,
               capture_done  |-> ~clk.tck_low /\ (clk.capture_done \/ get_tdo)]

(* It returns DONE, and its caller starts it anew. *)
ClockDone(nb_period) ==
    /\ Elapsed(nb_period)
    /\ clk' = gen_clk_restart
    /\ UNCHANGED tck

(* A call in which gen_clk is not called: t goes on. *)
NoClock ==
    /\ clk' = IF clk.gen_clk_begin THEN clk ELSE [clk EXCEPT !.age = @ + 1]
    /\ UNCHANGED tck

(* TDO is captured in the first call that drives TCK high. *)
Captures == ~clk.tck_low /\ ~clk.capture_done

(* The state is s until the five clocks are over. *)
reset_tap(s) ==
    \/ gen_clk(5, FALSE) /\ tms' = 1 /\ jtag_state' = s
    \/ ClockDone(5) /\ tms' = 0 /\ jtag_state' = "GOTO_IDLE"

-----------------------------------------------------------------------------
(* doJTAG: one action for each state.                                      *)

(* What read returns: a command, or nothing once the connection is closed, *)
(* or less than a command.  A part is put over the packet read before, and *)
(* so is what the next read returns, the rest of that command and perhaps  *)
(* a part of the next: these packets are whatever they happen to be.       *)
ReadWhole ==
    /\ sock # <<>> /\ ~part
    /\ packet' = Head(sock)
    /\ sock' = Tail(sock)
    /\ UNCHANGED <<part, parts>>

ReadClosed == sock = <<>> /\ gone /\ packet' = None /\ UNCHANGED incoming

ReadPart ==
    /\ sock # <<>>
    /\ packet' \in Commands \cup {None}
    /\ IF part THEN sock' = Tail(sock) /\ part' \in {FALSE, Tail(sock) # <<>>}
               ELSE UNCHANGED sock /\ part' = TRUE
    /\ part' => parts < MaxParts
    /\ parts' = IF part' THEN parts + 1 ELSE parts

(* Mutant: the buffer of the command before is kept. *)
check_for_commandM ==
    /\ ReadWhole \/ ReadClosed \/ ReadPart
    /\ UNCHANGED buffer_in

(* check_for_command: called while no command is in progress, it blocks    *)
(* until there is something to read or the connection is closed.           *)
check_for_command ==
    /\ ReadWhole \/ ReadClosed \/ ReadPart
    /\ buffer_in' = [k \in 1..Len(packet'.bits) |-> 0]

InitState(cmd) ==
    CASE cmd = "CMD_RESET"   -> "TAP_RESET"
      [] cmd = "CMD_TMS_SEQ" -> "DO_TMS_SEQ"
      [] cmd \in ScanKinds   -> "SCAN_CHAIN"
      [] OTHER               -> "CHECK_CMD"

(* Mutant: the case ends with a break. *)
CheckCmdM ==
    /\ jtag_state = "CHECK_CMD"
    /\ check_for_command
    /\ cmd_in_progress' = (packet'.cmd \notin {"none", "CMD_STOP_SIMU"})
    /\ tms_flip' = CASE packet'.cmd = "CMD_SCAN_CHAIN"          -> 0
                     [] packet'.cmd = "CMD_SCAN_CHAIN_FLIP_TMS" -> 1
                     [] OTHER                                   -> tms_flip
    /\ jtag_state' = InitState(packet'.cmd)
    /\ UNCHANGED <<clk, tms, tck, tdi, tseq, chain, captured_tdo, answer>>

(* CHECK_CMD falls through into TAP_RESET, whatever the command.  If there *)
(* is none any more, this resets the TAP.                                  *)
CheckCmd ==
    /\ jtag_state = "CHECK_CMD"
    /\ check_for_command
    /\ cmd_in_progress' = (packet'.cmd \notin {"none", "CMD_STOP_SIMU"})
    /\ tms_flip' = CASE packet'.cmd = "CMD_SCAN_CHAIN"          -> 0
                     [] packet'.cmd = "CMD_SCAN_CHAIN_FLIP_TMS" -> 1
                     [] OTHER                                   -> tms_flip
    /\ reset_tap(InitState(packet'.cmd))
    /\ UNCHANGED <<tdi, tseq, chain, captured_tdo, answer>>

TapReset ==
    /\ jtag_state = "TAP_RESET"
    /\ reset_tap("TAP_RESET")
    /\ UNCHANGED <<cmd_in_progress, tms_flip, packet, places, tdi, incoming, answer>>

GotoIdle ==
    /\ jtag_state = "GOTO_IDLE"
    /\ IF cmd_in_progress THEN UNCHANGED <<packet, incoming, buffer_in>>
                          ELSE check_for_command
    /\ tms' = 0
    /\ \/ gen_clk(1, FALSE) /\ UNCHANGED <<jtag_state, cmd_in_progress>>
       \/ ClockDone(1) /\ jtag_state' = "CHECK_CMD" /\ cmd_in_progress' = FALSE
    /\ UNCHANGED <<tms_flip, tdi, tseq, chain, captured_tdo, answer>>

(* The bytes of a buffer of nb_bits bits. *)
length == (Len(packet.bits) + ByteBits - 1) \div ByteBits
nb_bits_rem == Len(packet.bits) % ByteBits
BitAt(p) == p[1] * ByteBits + p[2] + 1

(* In the last byte only the bits that remain are sent: of a whole byte,   *)
(* none.                                                                   *)
TmsBitsIn(i) == IF i = length - 1 THEN nb_bits_rem ELSE ByteBits

(* Mutant: no bit of a last byte that is whole is sent, as in do_tms_seq. *)
ScanBitsInM(i) == IF i = length - 1 THEN nb_bits_rem ELSE ByteBits

ScanBitsIn(i) ==
    IF i = length - 1 /\ nb_bits_rem # 0 THEN nb_bits_rem ELSE ByteBits

CommandDone == cmd_in_progress' = FALSE /\ jtag_state' = "CHECK_CMD"
GoesOn == UNCHANGED <<cmd_in_progress, jtag_state>>

(* A bit, the end of a byte, or the end of the sequence. *)
do_tms_seq ==
    LET i == tseq[1]  j == tseq[2]
    IN  \/ /\ i < length /\ j < TmsBitsIn(i)
           /\ tms' = packet.bits[BitAt(tseq)]
           /\ \/ gen_clk(1, FALSE) /\ UNCHANGED tseq
              \/ ClockDone(1) /\ tseq' = <<i, j + 1>>
           /\ GoesOn
        \/ /\ i < length /\ j >= TmsBitsIn(i)
           /\ tseq' = <<i + 1, 0>>
           /\ NoClock
           /\ GoesOn
           /\ UNCHANGED tms
        \/ /\ i >= length
           /\ tms' = 0
           /\ tseq' = <<0, 0>>
           /\ NoClock
           /\ CommandDone

DoTmsSeq ==
    /\ jtag_state = "DO_TMS_SEQ"
    /\ do_tms_seq
    /\ UNCHANGED <<tms_flip, packet, chain, captured_tdo, buffer_in, tdi,
                   incoming, answer>>

(* With the last bit TMS leaves the shift state, if the command says so.   *)
LastBit(i, j) == i = length - 1 /\ j = ScanBitsIn(i) - 1

do_scan_chain ==
    LET i == chain[1]  j == chain[2]
    IN  \/ /\ i < length /\ j < ScanBitsIn(i)
           /\ tdi' = packet.bits[BitAt(chain)]
           /\ tms' = IF LastBit(i, j) THEN tms_flip ELSE 0
           /\ \/ /\ gen_clk(1, TRUE)
                 /\ captured_tdo' = IF Captures THEN tdo' ELSE captured_tdo
                 /\ UNCHANGED <<chain, buffer_in>>
              \/ /\ ClockDone(1)
                 /\ buffer_in' = [buffer_in EXCEPT ![BitAt(chain)] = captured_tdo]
                 /\ chain' = <<i, j + 1>>
                 /\ UNCHANGED captured_tdo
           /\ GoesOn
           /\ UNCHANGED answer
        \/ /\ i < length /\ j >= ScanBitsIn(i)
           /\ chain' = <<i + 1, 0>>
           /\ tms' = 0
           /\ NoClock
           /\ GoesOn
           /\ UNCHANGED <<tdi, captured_tdo, buffer_in, answer>>
        \/ /\ i >= length
           /\ tdi' = 0
           /\ tms' = 0
           /\ chain' = <<0, 0>>
           /\ answer' = IF gone THEN answer ELSE buffer_in
           /\ NoClock
           /\ CommandDone
           /\ UNCHANGED <<captured_tdo, buffer_in>>

ScanChain ==
    /\ jtag_state = "SCAN_CHAIN"
    /\ do_scan_chain
    /\ UNCHANGED <<tms_flip, packet, tseq, incoming>>

doJTAG == CheckCmd \/ TapReset \/ GotoIdle \/ DoTmsSeq \/ ScanChain

-----------------------------------------------------------------------------
(* The TAP (external): it samples TMS and TDI when TCK rises, and changes  *)
(* TDO when TCK falls.                                                     *)

Rises == was = 0 /\ tck = 1
Falls == was = 1 /\ tck = 0

TapMoves ==
    /\ was' = tck
    /\ IF Falls THEN tdo' \in Bit ELSE UNCHANGED tdo

(* The command in progress.  A reset that nobody asked for is one, too.    *)
Now == CASE cmd_in_progress -> packet
         [] ~cmd_in_progress /\ \/ jtag_state = "GOTO_IDLE"
                                \/ ~clk.gen_clk_begin /\ packet \in {None, Stop}
            -> Reset
         [] OTHER -> None

(* A clock left by a sequence of which nothing was sent has not stayed low. *)
Stale ==
    /\ jtag_state = "CHECK_CMD"
    /\ ~clk.gen_clk_begin
    /\ Flips \/ ~clk.tck_low \/ clk.cur_period > 0

(* A command is taken in this call. *)
Taken ==
    \/ Now = None /\ Now' # None
    \/ ~cmd_in_progress /\ cmd_in_progress'

(* What is clocked in while the command is in progress, and out if it is a *)
(* scan, unless it is loose.                                               *)
Clocked ==
    /\ loose' = IF Taken THEN Stale \/ part \/ part' ELSE loose
    /\ LET since(q) == IF Taken \/ Now' = None THEN <<>> ELSE q
           with(q, e) == IF loose' THEN <<>>
                         ELSE IF Rises THEN Append(since(q), e) ELSE since(q)
       IN  /\ seen' = with(seen, <<tms, tdi>>)
           /\ read' = IF Now' \in Scans THEN with(read, tdo) ELSE <<>>

(* One turn of the test bench's loop: the design is evaluated, then the    *)
(* server is called.                                                       *)
TestBench == TapMoves /\ doJTAG /\ Clocked /\ UNCHANGED debugger

(* The debugger (external).  It waits for the answer to a scan, and sends  *)
(* nothing after CMD_STOP_SIMU.                                            *)
Sends(c) ==
    /\ ~gone /\ ~waits /\ ~stopped /\ Len(sock) < MaxQueue
    /\ sock' = Append(sock, c)
    /\ waits' = (c \in Scans)
    /\ stopped' = (c = Stop)
    /\ UNCHANGED <<server, pins, tap, part, parts, answer, gone>>

Collects ==
    /\ ~gone /\ answer # <<>>
    /\ answer' = <<>>
    /\ waits' = FALSE
    /\ UNCHANGED <<server, pins, tap, incoming, gone, stopped>>

Goes ==
    /\ ~gone
    /\ gone' = TRUE
    /\ waits' = FALSE
    /\ answer' = <<>>
    /\ UNCHANGED <<server, pins, tap, incoming, stopped>>

Next == TestBench \/ (\E c \in Commands : Sends(c)) \/ Collects \/ Goes

Spec == Init /\ [][Next]_vars

(* The test bench's loop runs, and a debugger that waits reads.  It need   *)
(* not send anything, nor ever leave.                                      *)
FairSpec == Spec /\ WF_vars(TestBench) /\ WF_vars(Collects)

-----------------------------------------------------------------------------
(* Properties.                                                             *)

(* The bits do_tms_seq sends of n: the last byte of n whole bytes is lost. *)
TmsSent(n) == IF n > 0 /\ n % ByteBits = 0 THEN n - ByteBits ELSE n

(* The bits a command clocks into the TAP. *)
Edges(c) ==
    CASE c.cmd = "CMD_RESET" ->
            [k \in 1..6 |-> <<IF k < 6 THEN 1 ELSE 0, 0>>]
      [] c.cmd = "CMD_TMS_SEQ" ->
            [k \in 1..TmsSent(Len(c.bits)) |-> <<c.bits[k], 0>>]
      [] c.cmd = "CMD_SCAN_CHAIN" ->
            [k \in 1..Len(c.bits) |-> <<0, c.bits[k]>>]
      [] c.cmd = "CMD_SCAN_CHAIN_FLIP_TMS" ->
            [k \in 1..Len(c.bits) |-> <<IF k = Len(c.bits) THEN 1 ELSE 0, c.bits[k]>>]

(* The statics of three functions, the fall-through of CHECK_CMD and the   *)
(* calls that make up a clock are invisible to the debugger and the TAP:   *)
(* every command taken in step clocks its own bits, once each, but for the *)
(* last byte of a TMS sequence of whole bytes, and a scan is answered with *)
(* what the TAP gave.  Only a part of a command, or a TMS sequence of      *)
(* which no bit is sent, puts the server out of step, and the next command *)
(* that is read whole with the clock low is in step again.                 *)
Port == INSTANCE TapPort WITH now <- Now, stale <- Now = None /\ Stale
PortServed == Port!TapSpec

(* TMS and TDI never change in the call that raises TCK, but for a command *)
(* taken out of step.                                                      *)
SetupHeld ==
    [][tck = 0 /\ tck' = 1 /\ ~loose' => UNCHANGED <<tms, tdi>>]_vars

(* A debugger that waits for the answer to a scan gets it, or goes, unless *)
(* the server takes a command out of step.                                 *)
ScanAnswered == waits ~> (~waits \/ loose)

(* A debugger that goes, in the middle of a command or not, in step or     *)
(* not, leaves the TAP reset.                                              *)
LeftReset == gone ~> (Now = Reset /\ seen = Edges(Reset))

=============================================================================
