--------------------------- MODULE JtagServerInv ---------------------------
(***************************************************************************)
(* The inductive invariant of the JTAG server: how the static variables of *)
(* gen_clk, do_tms_seq and do_scan_chain, left where one call ends for the *)
(* next, correspond to the bits the TAP has seen of the command in         *)
(* progress.                                                               *)
(*                                                                         *)
(* One part holds in every state: types, the places in the buffers and the *)
(* clock that has not begun.  It is enough for a command to be taken in    *)
(* step, however the one before it went.  The other part speaks of the     *)
(* command in progress, if it was taken in step.  Every step from the      *)
(* invariant is a step of TapPort or changes nothing there.                *)
(***************************************************************************)
EXTENDS JtagServer

(* The five clocks of a reset, asked for or not. *)
Resetting == jtag_state \in {"CHECK_CMD", "TAP_RESET"}

-----------------------------------------------------------------------------
(* In every state.                                                         *)

(* The state is that of the command read last, and the debugger sends      *)
(* nothing after CMD_STOP_SIMU.                                            *)
StateKnown ==
    /\ cmd_in_progress => packet \notin {None, Stop}
    /\ jtag_state = "CHECK_CMD" => ~cmd_in_progress
    /\ jtag_state = "TAP_RESET" => cmd_in_progress /\ packet = Reset
    /\ jtag_state = "DO_TMS_SEQ" => cmd_in_progress /\ packet \in TmsSeqs
    /\ jtag_state = "SCAN_CHAIN" =>
         /\ cmd_in_progress /\ packet \in Scans
         /\ tms_flip = IF packet.cmd = "CMD_SCAN_CHAIN" THEN 0 ELSE 1
    /\ part => sock # <<>>
    /\ \A n \in 1..Len(sock) : sock[n] = Stop => n = Len(sock) /\ stopped

(* The bits that are sent of a byte, and of the whole buffer.              *)
BitsIn(i) == IF packet.cmd = "CMD_TMS_SEQ" THEN TmsBitsIn(i) ELSE ScanBitsIn(i)
Total ==
    IF packet.cmd = "CMD_TMS_SEQ" THEN TmsSent(Len(packet.bits)) ELSE Len(packet.bits)

(* The places in a buffer: at a bit while a clock runs, unless the buffer  *)
(* has none to send, else perhaps at the end of a byte or of the buffer,   *)
(* and at the start between commands.                                      *)
AtBit(p) == p[1] < length /\ p[2] < BitsIn(p[1])
AtPlace(p) ==
    \/ p[1] < length /\ p[2] <= BitsIn(p[1])
    \/ p = <<length, 0>>
BitsDone(p) == IF p[1] < length THEN BitAt(p) - 1 ELSE Total

PlaceKnown(p, state) ==
    IF jtag_state = state
      THEN AtPlace(p) /\ (~clk.gen_clk_begin /\ Total > 0 => AtBit(p))
      ELSE p = <<0, 0>>

PlacesKnown ==
    /\ PlaceKnown(tseq, "DO_TMS_SEQ")
    /\ PlaceKnown(chain, "SCAN_CHAIN")
    /\ jtag_state # "SCAN_CHAIN" => tdi = 0

(* TCK rises only while a clock runs. *)
ClockKnown ==
    /\ clk.gen_clk_begin => clk = gen_clk_restart
    /\ Rises => clk.cur_period > 0

ServerBase ==
    /\ TypeOK
    /\ StateKnown
    /\ PlacesKnown
    /\ ClockKnown

-----------------------------------------------------------------------------
(* While a command is in progress that was taken in step.                  *)

(* A reset that no command asked for comes after the last command. *)
AskedKnown ==
    IF cmd_in_progress
      THEN jtag_state = "GOTO_IDLE" => packet = Reset
      ELSE sock = <<>> /\ (gone \/ stopped)

(* TCK, and the level the TAP has seen, follow the statics of gen_clk.     *)
PinsKnown ==
    /\ clk.tck_low /\ clk.age > 0 => tck = 0
    /\ clk.tck_low => ~Rises
    /\ ~clk.tck_low =>
         /\ clk.age <= tck_period
         /\ tck = IF clk.age = 0 THEN 0 ELSE 1
         /\ was = IF clk.age <= 1 THEN 0 ELSE 1

(* The current run of gen_clk has driven TCK high in so many calls before  *)
(* its present clock, which is that of the bit n + 1.                      *)
Progress(calls, n) ==
    /\ clk.cur_period = calls + (IF clk.tck_low THEN 0 ELSE clk.age)
    /\ Len(seen) = n + (IF ~clk.tck_low /\ clk.age > 1 THEN 1 ELSE 0)
    /\ ~clk.tck_low => n < Len(Edges(Now)) /\ <<tms, tdi>> = Edges(Now)[n + 1]

HighCalls(k) == k * (tck_period + 1)

ProgressKnown ==
    /\ Resetting => \E k \in 0..4 : Progress(HighCalls(k), k)
    /\ ~Resetting => clk.cur_period <= tck_period
    /\ jtag_state = "GOTO_IDLE" => Progress(0, 5)
    /\ jtag_state = "DO_TMS_SEQ" =>
         /\ Progress(0, BitsDone(tseq))
         /\ Total = 0 => clk.tck_low /\ tck = 0
    /\ jtag_state = "SCAN_CHAIN" => Progress(0, BitsDone(chain))

(* What the TAP has seen is the beginning of what the command clocks.      *)
SeenKnown ==
    /\ Len(seen) <= Len(Edges(Now))
    /\ \A m \in 1..Len(seen) : seen[m] = Edges(Now)[m]
    /\ Len(read) = IF Now \in Scans THEN Len(seen) ELSE 0

(* The bits of a scan are kept as the TAP gave them.                       *)
CaptureKnown ==
    jtag_state = "SCAN_CHAIN" =>
      /\ \A m \in 1..BitsDone(chain) : buffer_in[m] = read[m]
      /\ clk.capture_done <=> ~clk.tck_low /\ clk.age > 0
      /\ clk.capture_done =>
           captured_tdo = IF clk.age = 1 THEN tdo ELSE read[Len(read)]

InStep ==
    /\ AskedKnown
    /\ PinsKnown
    /\ ProgressKnown
    /\ SeenKnown
    /\ CaptureKnown

(* The server between two calls. *)
ServerInv == ServerBase /\ (Now # None /\ ~loose => InStep)
=============================================================================
