------------------------------- MODULE VpiLink -------------------------------
(***************************************************************************)
(* The link between the GDB stub's process (the "RSP server", forked by    *)
(* init_rsp_server) and the Verilog simulation it debugs.                  *)
(*                                                                         *)
(* The server (rsp-rtl_sim.c) turns each access of the stub into commands; *)
(* a command is one byte on command_pipe, parameters on rsp_to_vpi_pipe,   *)
(* and, on vpi_to_rsp_pipe, an echo of the byte, the data asked for and a  *)
(* response byte.  The simulation (the `main' task of vpi_debug_module.v,  *)
(* calling the system tasks of jp_vpi.c) polls command_pipe and serves one *)
(* command at a time by driving the JTAG TAP.                              *)
(*                                                                         *)
(* A pipe is the sequence of units written to it and not yet read.  A unit *)
(* has a size in bytes, n, and carries the words v.  Bytes in a pipe have  *)
(* no boundaries: a block the server writes in one write() is entered here *)
(* as the words, and the remainder, that the simulation reads it in.       *)
(***************************************************************************)
EXTENDS Integers, Sequences

CONSTANTS
  Adr,           \* addresses of the cells behind the debug unit
  Half,          \* 2^(w-1) for words of w bits: the weight of a word's MSB
  IdCode,        \* what the TAP's IDCODE register holds
  NpcAdr, R1Adr, \* the register addresses dbg_test reads
  WbLen,         \* byte lengths of WISHBONE block transfers
  CpuLen,        \* byte lengths of CPU register transfers
  StorageWords,  \* words in the simulation's data_storage
  SimMayFinish,  \* does the simulation end ($finish, or GDB detaching)?
  ServerMayDie   \* may a signal from outside end the server?

ASSUME AdrAssumption == Adr \subseteq Nat /\ NpcAdr \in Adr /\ R1Adr \in Adr
ASSUME WordAssumption == Half \in Nat \ {0} /\ IdCode \in Nat
ASSUME LenAssumption ==
  /\ WbLen \subseteq Nat /\ CpuLen \subseteq Nat
  /\ \A l \in WbLen \cup CpuLen : l >= 4
ASSUME ScenarioAssumption == SimMayFinish \in BOOLEAN /\ ServerMayDie \in BOOLEAN

\* No block outgrows data_storage.  The largest the stub asks for is
\* MAX_GPRS*32 = 1024 bytes, and data_storage has 4096 words.
ASSUME StorageAssumption ==
  /\ StorageWords \in Nat
  /\ \A l \in WbLen \cup CpuLen : l \div 4 <= StorageWords

Word == 0 .. (2 * Half - 1)

\* The command byte (rsp-vpi.h; the localparams of vpi_debug_module.v)
CMD_JTAG_SET_IR     == 1
CMD_SET_DEBUG_CHAIN == 2
CMD_CPU_CTRL_WR     == 3
CMD_CPU_CTRL_RD     == 4
CMD_CPU_WR_REG      == 5
CMD_CPU_RD_REG      == 6
CMD_WB_WR           == 7
CMD_WB_RD32         == 8
CMD_WB_BLOCK_WR32   == 9
CMD_WB_BLOCK_RD32   == 10
CMD_RESET           == 11
CMD_READ_JTAG_ID    == 12
CMD_GDB_DETACH      == 13
CMD_WB_RD8          == 14

\* Not a command: the assignment current_chain = -1 that ends dbg_reset.
FORGET_CHAIN == 15

BlockWrites == {CMD_CPU_WR_REG, CMD_WB_BLOCK_WR32}
BlockReads  == {CMD_CPU_RD_REG, CMD_WB_BLOCK_RD32}
WbCommands  == {CMD_WB_WR, CMD_WB_RD32, CMD_WB_RD8, CMD_WB_BLOCK_WR32, CMD_WB_BLOCK_RD32}
CpuCommands == {CMD_CPU_CTRL_WR, CMD_CPU_CTRL_RD, CMD_CPU_WR_REG, CMD_CPU_RD_REG}

JI_IDCODE == 2
JI_DEBUG  == 8

DC_WISHBONE == 0
DC_CPU0     == 1
NoChain     == -1
DbgChain    == -2    \* the argument `dbg_chain' of dbg_set_chain, not yet evaluated

VARIABLES
  rsp,              \* "up" or "down": the server process
  rpc,              \* where the server is in a command's dialogue
  todo,             \* the commands left of the function the server is running
  op,               \* the command in progress
  sent,             \* how many of its parameters are written
  ret,              \* the data the last reading command returned to the stub
  current_chain, dbg_chain,
  sim,              \* "running" or "finished": the simulation
  spc,              \* where `main' is: polling, getting, returning, responding
  cmd,              \* the command it serves
  got,              \* the parameters read so far
  storage,          \* the data it will return (data_storage, cmd_data)
  word_pointer,     \* how many words of a block its task has moved
  command_pipe, rsp_to_vpi_pipe, vpi_to_rsp_pipe,
  sigterm,          \* has sim_finish_callback signalled the server?
  ir, module,       \* the TAP's instruction and the selected debug module
  wb, spr, ctrl     \* behind it: memory, CPU registers, stall + 2 * reset

rspVars == <<rsp, rpc, todo, op, sent, ret, current_chain, dbg_chain>>
simVars == <<sim, spc, cmd, got, storage, word_pointer, sigterm>>
tgtVars == <<ir, module, wb, spr, ctrl>>
vars == <<rspVars, simVars, command_pipe, rsp_to_vpi_pipe, vpi_to_rsp_pipe, tgtVars>>

-----------------------------------------------------------------------------
(* What the server writes and reads for a command (rsp-rtl_sim.c).         *)

Op(c, a, l, d) == [cmd |-> c, adr |-> a, len |-> l, data |-> d]
NoOp == Op(0, 0, 0, << >>)

\* How many units a block of l bytes is read in: its words, then the rest.
Units(l) == l \div 4 + (IF l % 4 = 0 THEN 0 ELSE 1)

\* The words written after the acknowledgement: address, then length or size,
\* then data, each where the command has it.
Sends(o) ==
  CASE o.cmd \in {CMD_JTAG_SET_IR, CMD_SET_DEBUG_CHAIN, CMD_CPU_CTRL_WR} -> o.data
    [] o.cmd \in {CMD_WB_RD32, CMD_WB_RD8} -> <<o.adr>>
    [] o.cmd \in BlockReads -> <<o.adr, o.len>>
    [] o.cmd \in BlockWrites \cup {CMD_WB_WR} -> <<o.adr, o.len>> \o o.data
    [] OTHER -> << >>

\* The size of the k-th of them: four bytes but for a block's remainder.
SendSize(o, k) ==
  IF o.cmd \in BlockWrites /\ k = 3 + o.len \div 4 THEN o.len % 4 ELSE 4

Reading(c) ==
  c \in {CMD_CPU_CTRL_RD, CMD_WB_RD32, CMD_WB_RD8, CMD_READ_JTAG_ID} \cup BlockReads

\* A plausible bug: dbg_wb_read8 reads its byte with get_word_from_vpi.
RecvSizeM(o) == IF o.cmd \in BlockReads THEN o.len ELSE 4

\* The size of the read that takes the data of a reading command.
RecvSize(o) ==
  CASE o.cmd \in BlockReads -> o.len
    [] o.cmd = CMD_WB_RD8 -> 1
    [] OTHER -> 4

\* dbg_ctrl_read takes bit 0 for reset and bit 1 for stall, and
\* dbg_cpu0_read_ctrl puts them back as (r << 1) | s.
Decode(o, v) ==
  IF o.cmd = CMD_CPU_CTRL_RD
  THEN << 2 * (v[1] % 2) + ((v[1] \div 2) % 2) >>
  ELSE v

\* dbg_cpu0_write_ctrl(0, x): dbg_ctrl(x & 2, x & 1) sends
\* (stall & 1) | ((reset & 1) << 1).
CtrlWord(x) ==
  LET reset == 2 * (x \div 2)
      stall == x % 2
  IN  stall + (2 * (reset % 2))

SetChain(c) == Op(CMD_SET_DEBUG_CHAIN, 0, 0, <<c>>)

\* A plausible bug: the WISHBONE accesses do not select their chain.
ProgramM(o) ==
  CASE o.cmd = CMD_CPU_CTRL_WR -> <<SetChain(DC_CPU0), SetChain(DbgChain), o>>
    [] o.cmd = CMD_CPU_CTRL_RD -> <<SetChain(DC_CPU0), SetChain(DbgChain), SetChain(DbgChain), o>>
    [] o.cmd \in {CMD_CPU_WR_REG, CMD_CPU_RD_REG} -> <<SetChain(DC_CPU0), o>>
    [] OTHER -> <<o>>

\* Each access function selects its chain, then sends its command; dbg_ctrl and
\* dbg_ctrl_read select the chain dbg_chain names (the latter twice).
Program(o) ==
  CASE o.cmd \in WbCommands      -> <<SetChain(DC_WISHBONE), o>>
    [] o.cmd = CMD_CPU_CTRL_WR   -> <<SetChain(DC_CPU0), SetChain(DbgChain), o>>
    [] o.cmd = CMD_CPU_CTRL_RD   ->
         <<SetChain(DC_CPU0), SetChain(DbgChain), SetChain(DbgChain), o>>
    [] o.cmd \in {CMD_CPU_WR_REG, CMD_CPU_RD_REG} -> <<SetChain(DC_CPU0), o>>
    [] OTHER                     -> <<o>>

dbg_reset ==
  << Op(CMD_RESET, 0, 0, << >>),
     Op(CMD_JTAG_SET_IR, 0, 0, <<JI_IDCODE>>),
     Op(CMD_READ_JTAG_ID, 0, 0, << >>),
     Op(CMD_JTAG_SET_IR, 0, 0, <<JI_DEBUG>>),
     Op(FORGET_CHAIN, 0, 0, << >>) >>

dbg_test ==
  Program(Op(CMD_CPU_CTRL_WR, 0, 0, <<CtrlWord(1)>>))
    \o Program(Op(CMD_CPU_CTRL_RD, 0, 0, << >>))
    \o Program(Op(CMD_CPU_RD_REG, NpcAdr, 12, << >>))
    \o Program(Op(CMD_CPU_RD_REG, R1Adr, 4, << >>))

\* What the stub may ask of the link (gdb_read_reg ... gdb_write_block,
\* set_stall_state, the continue and step functions of gdb.c).
WordReads  == {Op(c, a, 0, << >>) : c \in {CMD_WB_RD32, CMD_WB_RD8}, a \in Adr}
WordWrites == {Op(CMD_WB_WR, a, size, <<w>>) : a \in Adr, size \in {1, 2, 4}, w \in Word}
ReadBlocks(c, lens) == {Op(c, a, l, << >>) : a \in Adr, l \in lens}
WriteBlocks(c, lens) ==
  UNION {{Op(c, a, l, d) : a \in Adr, d \in [1 .. Units(l) -> Word]} : l \in lens}
CtrlWrites == {Op(CMD_CPU_CTRL_WR, 0, 0, <<CtrlWord(x)>>) : x \in {0, 1}}

Calls ==
  WordReads \cup WordWrites
    \cup ReadBlocks(CMD_WB_BLOCK_RD32, WbLen) \cup WriteBlocks(CMD_WB_BLOCK_WR32, WbLen)
    \cup ReadBlocks(CMD_CPU_RD_REG, CpuLen) \cup WriteBlocks(CMD_CPU_WR_REG, CpuLen)
    \cup CtrlWrites \cup {Op(CMD_CPU_CTRL_RD, 0, 0, << >>)}

-----------------------------------------------------------------------------
(* What the simulation reads and writes for a command.                     *)

\* $get_command_block_data: one read per word, one for the remainder; none at
\* all when the block does not fit in data_storage.
BlockGets(l) == IF l \div 4 > StorageWords THEN 0 ELSE Units(l)

\* A plausible bug: the size of a WISHBONE write is not read.
SimWantsM(c, g) ==
  CASE c \in {CMD_JTAG_SET_IR, CMD_SET_DEBUG_CHAIN, CMD_CPU_CTRL_WR,
              CMD_WB_RD32, CMD_WB_RD8} -> 1
    [] c \in BlockReads \cup {CMD_WB_WR} -> 2
    [] c \in BlockWrites -> IF Len(g) < 2 THEN 2 ELSE 2 + BlockGets(g[2])
    [] OTHER -> 0

\* How many reads of rsp_to_vpi_pipe the case for command c makes, as far as
\* the parameters already read tell.
SimWants(c, g) ==
  CASE c \in {CMD_JTAG_SET_IR, CMD_SET_DEBUG_CHAIN, CMD_CPU_CTRL_WR,
              CMD_WB_RD32, CMD_WB_RD8} -> 1
    [] c \in BlockReads  -> 2
    [] c = CMD_WB_WR     -> 3
    [] c \in BlockWrites -> IF Len(g) < 2 THEN 2 ELSE 2 + BlockGets(g[2])
    [] OTHER -> 0

\* The size of the next of those reads.
GetSize(c, g) ==
  IF c \in BlockWrites /\ Len(g) >= 2 /\ Len(g) = 2 + g[2] \div 4 THEN g[2] % 4 ELSE 4

\* The size of the data $return_command_data, or $return_command_block_data, writes.
ReturnSize(c, g) ==
  CASE c \in BlockReads -> g[2]
    [] c = CMD_WB_RD8 -> 1
    [] OTHER -> 4

\* The cell at a, and the cells f once w is written there.
Cell(f, a) == IF a \in Adr THEN f[a] ELSE 0
Put(f, a, w) == [x \in Adr |-> IF x = a THEN w ELSE f[x]]

\* debug_cpu_go shifts out data_storage bit by bit, but fetches the word before
\* it advances word_pointer: the first bit, the MSB, of every word after the
\* first is the previous word's.
Msb(w) == IF w >= Half THEN Half ELSE 0
CpuShift(d, k) == IF k = 1 THEN d[k] ELSE d[k] - Msb(d[k]) + Msb(d[k - 1])

-----------------------------------------------------------------------------
(* The server process.                                                     *)

Unit(n, v) == [n |-> n, v |-> v]

\* A plausible bug: dbg_ctrl passes the name of a chain for its number.
WantedM(s) == s.data[1]

\* The chain a dbg_set_chain step asks for.
Wanted(s) == IF s.data[1] = DbgChain THEN dbg_chain ELSE s.data[1]

\* Between functions: handle_rsp calls the next one.
RspCall ==
  /\ rsp = "up" /\ rpc = "run" /\ todo = << >>
  /\ \/ \E o \in Calls : todo' = Program(o)
     \/ SimMayFinish /\ todo' = <<Op(CMD_GDB_DETACH, 0, 0, << >>)>>
  /\ UNCHANGED <<rsp, rpc, op, sent, ret, current_chain, dbg_chain, simVars, tgtVars,
                 command_pipe, rsp_to_vpi_pipe, vpi_to_rsp_pipe>>

\* A plausible bug: selecting the current chain is tried again for ever.
RspLocalM ==
  /\ rsp = "up" /\ rpc = "run" /\ todo # << >>
  /\ Head(todo).cmd \in {CMD_SET_DEBUG_CHAIN, FORGET_CHAIN}
  /\ Head(todo).cmd = CMD_SET_DEBUG_CHAIN => current_chain = Wanted(Head(todo))
  /\ todo' = IF Head(todo).cmd = FORGET_CHAIN THEN Tail(todo) ELSE todo
  /\ UNCHANGED <<rsp, rpc, op, sent, ret, current_chain, dbg_chain, simVars, tgtVars,
                 command_pipe, rsp_to_vpi_pipe, vpi_to_rsp_pipe>>

\* Steps that talk to nobody: dbg_set_chain when the chain is the current one,
\* and the assignment at the end of dbg_reset.
RspLocal ==
  /\ rsp = "up" /\ rpc = "run" /\ todo # << >>
  /\ \/ /\ Head(todo).cmd = CMD_SET_DEBUG_CHAIN
        /\ current_chain = Wanted(Head(todo))
        /\ UNCHANGED current_chain
     \/ /\ Head(todo).cmd = FORGET_CHAIN
        /\ current_chain' = NoChain
  /\ todo' = Tail(todo)
  /\ UNCHANGED <<rsp, rpc, op, sent, ret, dbg_chain, simVars, tgtVars,
                 command_pipe, rsp_to_vpi_pipe, vpi_to_rsp_pipe>>

\* A plausible bug: dbg_set_chain leaves dbg_chain as it was.
RspCommandM ==
  /\ rsp = "up" /\ rpc = "run" /\ todo # << >>
  /\ \/ /\ Head(todo).cmd = CMD_SET_DEBUG_CHAIN
        /\ current_chain # Wanted(Head(todo))
        /\ op' = SetChain(Wanted(Head(todo)))
     \/ /\ Head(todo).cmd \notin {CMD_SET_DEBUG_CHAIN, FORGET_CHAIN}
        /\ op' = Head(todo)
  /\ todo' = Tail(todo)
  /\ command_pipe' = Append(command_pipe, Unit(1, <<op'.cmd>>))
  /\ sent' = 0
  /\ rpc' = "ack"
  /\ UNCHANGED <<rsp, ret, current_chain, dbg_chain, simVars, tgtVars, rsp_to_vpi_pipe, vpi_to_rsp_pipe>>

\* send_command_to_vpi, up to the blocking read of the acknowledgement.
RspCommand ==
  /\ rsp = "up" /\ rpc = "run" /\ todo # << >>
  /\ \/ /\ Head(todo).cmd = CMD_SET_DEBUG_CHAIN
        /\ current_chain # Wanted(Head(todo))
        /\ dbg_chain' = Wanted(Head(todo))
        /\ op' = SetChain(Wanted(Head(todo)))
     \/ /\ Head(todo).cmd \notin {CMD_SET_DEBUG_CHAIN, FORGET_CHAIN}
        /\ op' = Head(todo)
        /\ UNCHANGED dbg_chain
  /\ todo' = Tail(todo)
  /\ command_pipe' = Append(command_pipe, Unit(1, <<op'.cmd>>))
  /\ sent' = 0
  /\ rpc' = "ack"
  /\ UNCHANGED <<rsp, ret, current_chain, simVars, tgtVars, rsp_to_vpi_pipe, vpi_to_rsp_pipe>>

\* Where the dialogue goes once n parameters of o are written.
AfterSend(o, n) ==
  IF n < Len(Sends(o)) THEN "send" ELSE IF Reading(o.cmd) THEN "recv" ELSE "resp"

\* The acknowledgement must echo the command, or error() ends the server; for
\* a detach, exit(0) does.
RspAck ==
  /\ rsp = "up" /\ rpc = "ack" /\ vpi_to_rsp_pipe # << >>
  /\ vpi_to_rsp_pipe' = Tail(vpi_to_rsp_pipe)
  /\ IF Head(vpi_to_rsp_pipe).v # <<op.cmd>> \/ op.cmd = CMD_GDB_DETACH
     THEN rsp' = "down" /\ rpc' = "exited"
     ELSE rsp' = rsp /\ rpc' = AfterSend(op, 0)
  /\ UNCHANGED <<todo, op, sent, ret, current_chain, dbg_chain, simVars, tgtVars,
                 command_pipe, rsp_to_vpi_pipe>>

\* send_address_to_vpi, send_data_to_vpi, send_block_data_to_vpi
RspSend ==
  /\ rsp = "up" /\ rpc = "send"
  /\ rsp_to_vpi_pipe' =
       Append(rsp_to_vpi_pipe, Unit(SendSize(op, sent + 1), <<Sends(op)[sent + 1]>>))
  /\ sent' = sent + 1
  /\ rpc' = AfterSend(op, sent + 1)
  /\ UNCHANGED <<rsp, todo, op, ret, current_chain, dbg_chain, simVars, tgtVars,
                 command_pipe, vpi_to_rsp_pipe>>

\* A plausible bug: the response byte after the data is not read.
RspRecvM ==
  /\ rsp = "up" /\ rpc = "recv" /\ vpi_to_rsp_pipe # << >>
  /\ ret' = Decode(op, Head(vpi_to_rsp_pipe).v)
  /\ vpi_to_rsp_pipe' = Tail(vpi_to_rsp_pipe)
  /\ rpc' = "run"
  /\ UNCHANGED <<rsp, todo, op, sent, current_chain, dbg_chain, simVars, tgtVars,
                 command_pipe, rsp_to_vpi_pipe>>

\* A plausible bug: the loop of get_block_data_from_vpi never counts what it read.
RspRecvLoopM ==
  /\ rsp = "up" /\ rpc = "recv" /\ vpi_to_rsp_pipe # << >>
  /\ ret' = Decode(op, Head(vpi_to_rsp_pipe).v)
  /\ UNCHANGED <<rsp, rpc, todo, op, sent, current_chain, dbg_chain, simVars, tgtVars,
                 command_pipe, rsp_to_vpi_pipe, vpi_to_rsp_pipe>>

\* get_byte_from_vpi, get_word_from_vpi, get_block_data_from_vpi
RspRecv ==
  /\ rsp = "up" /\ rpc = "recv" /\ vpi_to_rsp_pipe # << >>
  /\ ret' = Decode(op, Head(vpi_to_rsp_pipe).v)
  /\ vpi_to_rsp_pipe' = Tail(vpi_to_rsp_pipe)
  /\ rpc' = "resp"
  /\ UNCHANGED <<rsp, todo, op, sent, current_chain, dbg_chain, simVars, tgtVars,
                 command_pipe, rsp_to_vpi_pipe>>

\* get_response_from_vpi, the assignment that follows it in dbg_set_chain, and
\* the function's return
RspResponse ==
  /\ rsp = "up" /\ rpc = "resp" /\ vpi_to_rsp_pipe # << >>
  /\ vpi_to_rsp_pipe' = Tail(vpi_to_rsp_pipe)
  /\ current_chain' = IF op.cmd = CMD_SET_DEBUG_CHAIN THEN op.data[1] ELSE current_chain
  /\ rpc' = "run" /\ op' = NoOp /\ sent' = 0
  /\ UNCHANGED <<rsp, todo, ret, dbg_chain, simVars, tgtVars,
                 command_pipe, rsp_to_vpi_pipe>>

\* SIGTERM from sim_finish_callback, or a signal from outside: the default
\* action before run_rsp_server installs catch_sigint, exit(0) after.
RspKilled ==
  /\ rsp = "up"
  /\ sigterm \/ ServerMayDie
  /\ rsp' = "down"
  /\ UNCHANGED <<rpc, todo, op, sent, ret, current_chain, dbg_chain, simVars, tgtVars,
                 command_pipe, rsp_to_vpi_pipe, vpi_to_rsp_pipe>>

-----------------------------------------------------------------------------
(* The simulation: main's loop and the system tasks it calls.              *)

\* $check_for_command finds a byte: it is stored in cmd and echoed.
SimPoll ==
  /\ sim = "running" /\ spc = "poll" /\ command_pipe # << >>
  /\ cmd' = Head(command_pipe).v[1]
  /\ command_pipe' = Tail(command_pipe)
  /\ vpi_to_rsp_pipe' = Append(vpi_to_rsp_pipe, Unit(1, <<cmd'>>))
  /\ got' = << >> /\ storage' = << >> /\ word_pointer' = 0    \* what they held is dead
  /\ spc' = "get"
  /\ UNCHANGED <<rspVars, sim, sigterm, tgtVars, rsp_to_vpi_pipe>>

\* $get_command_address, $get_command_data, a read of $get_command_block_data:
\* they block, and simulated time with them, until the pipe has something.
SimGet ==
  /\ sim = "running" /\ spc = "get" /\ Len(got) < SimWants(cmd, got)
  /\ rsp_to_vpi_pipe # << >>
  /\ got' = got \o Head(rsp_to_vpi_pipe).v
  /\ rsp_to_vpi_pipe' = Tail(rsp_to_vpi_pipe)
  /\ UNCHANGED <<rspVars, sim, spc, cmd, storage, word_pointer, sigterm, tgtVars,
                 command_pipe, vpi_to_rsp_pipe>>

\* All parameters of a command in c are there: its task runs.
Serving(c) ==
  /\ sim = "running" /\ spc = "get" /\ cmd \in c
  /\ Len(got) = SimWants(cmd, got)

\* Is module m of the debug unit reached through the TAP?
Through(m) == ir = JI_DEBUG /\ module = m

simRest == <<rspVars, sim, cmd, got, sigterm, command_pipe, rsp_to_vpi_pipe, vpi_to_rsp_pipe>>

\* reset_tap, goto_run_test_idle.  What module stays selected is the debug
\* unit's affair.
SimReset ==
  /\ Serving({CMD_RESET})
  /\ ir' = JI_IDCODE
  /\ module' \in {NoChain, DC_WISHBONE, DC_CPU0}
  /\ spc' = "resp"
  /\ UNCHANGED <<simRest, storage, word_pointer, wb, spr, ctrl>>

\* set_instruction
SimSetIr ==
  /\ Serving({CMD_JTAG_SET_IR})
  /\ ir' = got[1]
  /\ spc' = "resp"
  /\ UNCHANGED <<simRest, storage, word_pointer, module, wb, spr, ctrl>>

\* module_select: reaches the debug unit only under the DEBUG instruction
SimSetChain ==
  /\ Serving({CMD_SET_DEBUG_CHAIN})
  /\ module' = IF ir = JI_DEBUG THEN got[1] ELSE module
  /\ spc' = "resp"
  /\ UNCHANGED <<simRest, storage, word_pointer, ir, wb, spr, ctrl>>

\* debug_cpu_wr_ctrl: two bits, reset first
SimCtrlWr ==
  /\ Serving({CMD_CPU_CTRL_WR})
  /\ ctrl' = IF Through(DC_CPU0) THEN got[1] % 4 ELSE ctrl
  /\ spc' = "resp"
  /\ UNCHANGED <<simRest, storage, word_pointer, ir, module, wb, spr>>

\* wb_write_32, wb_write_16, wb_write_8: the cell at the address
SimWbWr ==
  /\ Serving({CMD_WB_WR})
  /\ wb' = IF Through(DC_WISHBONE) THEN Put(wb, got[1], got[3]) ELSE wb
  /\ spc' = "resp"
  /\ UNCHANGED <<simRest, storage, word_pointer, ir, module, spr, ctrl>>

\* A block is shifted word by word, in simulated time.  After the last of its n
\* words main goes on to `next'.
MoveWord(n, next) ==
  /\ word_pointer' = word_pointer + 1
  /\ spc' = IF word_pointer + 1 = n THEN next ELSE spc

\* Word w may be the next one of a block write, for which the server sent `word';
\* what follows the last whole word was left in data_storage: any word.
NextWord(w, word) == w \in Word /\ (word_pointer < got[2] \div 4 => w = word)

\* A plausible bug: the address of a block write does not advance.
SimBlockWrM ==
  /\ Serving({CMD_WB_BLOCK_WR32})
  /\ \E w \in Word :
       /\ NextWord(w, got[word_pointer + 3])
       /\ wb' = IF Through(DC_WISHBONE) THEN Put(wb, got[1], w) ELSE wb
  /\ MoveWord(Units(got[2]), "resp")
  /\ UNCHANGED <<simRest, storage, ir, module, spr, ctrl>>

\* A word of wb_block_write_32
SimBlockWr ==
  /\ Serving({CMD_WB_BLOCK_WR32})
  /\ \E w \in Word :
       /\ NextWord(w, got[word_pointer + 3])
       /\ wb' = IF Through(DC_WISHBONE) THEN Put(wb, got[1] + word_pointer, w) ELSE wb
  /\ MoveWord(Units(got[2]), "resp")
  /\ UNCHANGED <<simRest, storage, ir, module, spr, ctrl>>

\* A register of cpu_write_block; the only one of cpu_write_32
SimRegWr ==
  /\ Serving({CMD_CPU_WR_REG})
  /\ \E w \in Word :
       /\ NextWord(w, CpuShift(SubSeq(got, 3, Len(got)), word_pointer + 1))
       /\ spr' = IF Through(DC_CPU0) THEN Put(spr, got[1] + word_pointer, w) ELSE spr
  /\ MoveWord(Units(got[2]), "resp")
  /\ UNCHANGED <<simRest, storage, ir, module, wb, ctrl>>

\* The next word the reading tasks find; a register that is not reached shifts
\* out nothing of use.
Answer ==
  CASE cmd = CMD_CPU_CTRL_RD  -> IF Through(DC_CPU0) THEN (ctrl \div 2) + 2 * (ctrl % 2) ELSE 0
    [] cmd = CMD_CPU_RD_REG   -> IF Through(DC_CPU0) THEN Cell(spr, got[1] + word_pointer) ELSE 0
    [] cmd = CMD_READ_JTAG_ID -> IF ir = JI_IDCODE THEN IdCode ELSE 0
    [] OTHER                  -> IF Through(DC_WISHBONE) THEN Cell(wb, got[1] + word_pointer) ELSE 0

\* debug_cpu_rd_ctrl, wb_read_32, wb_read_8, read_id_code
SimRead ==
  /\ Serving({c \in CMD_JTAG_SET_IR .. CMD_WB_RD8 : Reading(c)} \ BlockReads)
  /\ storage' = <<Answer>>
  /\ spc' = "return"
  /\ UNCHANGED <<simRest, word_pointer, tgtVars>>

\* A word of wb_block_read_32, cpu_read_block, cpu_read_32
SimBlockRd ==
  /\ Serving(BlockReads)
  /\ storage' = Append(storage, Answer)
  /\ MoveWord(got[2] \div 4, "return")
  /\ UNCHANGED <<simRest, tgtVars>>

\* $return_command_data, $return_command_block_data
SimReturn ==
  /\ sim = "running" /\ spc = "return"
  /\ vpi_to_rsp_pipe' = Append(vpi_to_rsp_pipe, Unit(ReturnSize(cmd, got), storage))
  /\ spc' = "resp"
  /\ UNCHANGED <<rspVars, sim, cmd, got, storage, word_pointer, sigterm, tgtVars,
                 command_pipe, rsp_to_vpi_pipe>>

\* $return_response
SimRespond ==
  /\ sim = "running" /\ spc = "resp"
  /\ vpi_to_rsp_pipe' = Append(vpi_to_rsp_pipe, Unit(1, <<0>>))
  /\ spc' = "poll" /\ got' = << >>
  /\ UNCHANGED <<rspVars, sim, cmd, storage, word_pointer, sigterm, tgtVars,
                 command_pipe, rsp_to_vpi_pipe>>

\* Simulated time passes while main waits between polls or shifts bits.
TimePasses == sim = "running" /\ (spc = "poll" \/ Serving(CMD_JTAG_SET_IR .. CMD_WB_RD8))

\* $finish for a detach (or a byte that is no command); the step may still
\* run on to $return_response.
SimDetached ==
  /\ Serving({CMD_GDB_DETACH})
  /\ sim' = "finished" /\ sigterm' = TRUE
  /\ spc' = "quit"
  /\ \/ UNCHANGED vpi_to_rsp_pipe
     \/ vpi_to_rsp_pipe' = Append(vpi_to_rsp_pipe, Unit(1, <<0>>))
  /\ UNCHANGED <<rspVars, cmd, got, storage, word_pointer, tgtVars,
                 command_pipe, rsp_to_vpi_pipe>>

\* A plausible bug: sim_finish_callback does not signal the server.
SimFinishM ==
  /\ SimMayFinish /\ TimePasses
  /\ sim' = "finished"
  /\ UNCHANGED <<rspVars, spc, cmd, got, storage, word_pointer, sigterm, tgtVars,
                 command_pipe, rsp_to_vpi_pipe, vpi_to_rsp_pipe>>

\* $finish by the rest of the test bench; sim_finish_callback sends SIGTERM.
SimFinish ==
  /\ SimMayFinish /\ TimePasses
  /\ sim' = "finished" /\ sigterm' = TRUE
  /\ UNCHANGED <<rspVars, spc, cmd, got, storage, word_pointer, tgtVars,
                 command_pipe, rsp_to_vpi_pipe, vpi_to_rsp_pipe>>

\* The CPU runs, unless stalled, as time passes: it stores somewhere, or meets
\* a breakpoint and stalls.
CpuRun ==
  /\ TimePasses /\ ctrl % 2 = 0
  /\ \/ \E a \in Adr, w \in Word : wb' = [wb EXCEPT ![a] = w] /\ UNCHANGED ctrl
     \/ ctrl' = ctrl + 1 /\ UNCHANGED wb
  /\ UNCHANGED <<rspVars, simVars, ir, module, spr,
                 command_pipe, rsp_to_vpi_pipe, vpi_to_rsp_pipe>>

-----------------------------------------------------------------------------
\* The child starts in run_rsp_server; main has reset the TAP before it polls.
Init ==
  /\ rsp = "up" /\ rpc = "run" /\ todo = dbg_reset \o dbg_test
  /\ op = NoOp /\ sent = 0 /\ ret = << >>
  /\ current_chain = NoChain /\ dbg_chain = NoChain
  /\ sim = "running" /\ spc = "poll" /\ cmd = 0 /\ got = << >>
  /\ storage = << >> /\ word_pointer = 0
  /\ sigterm = FALSE
  /\ command_pipe = << >> /\ rsp_to_vpi_pipe = << >> /\ vpi_to_rsp_pipe = << >>
  /\ ir = JI_IDCODE /\ module = NoChain
  /\ wb \in [Adr -> Word] /\ spr \in [Adr -> Word] /\ ctrl = 0

RspNext ==
  RspCall \/ RspLocal \/ RspCommand \/ RspAck \/ RspSend \/ RspRecv \/ RspResponse

\* The commands' tasks
SimServe ==
  \/ SimReset \/ SimSetIr \/ SimSetChain \/ SimCtrlWr
  \/ SimRegWr \/ SimWbWr \/ SimBlockWr \/ SimRead \/ SimBlockRd \/ SimDetached

SimNext == SimPoll \/ SimGet \/ SimServe \/ SimReturn \/ SimRespond

Next == RspNext \/ RspKilled \/ SimNext \/ SimFinish \/ CpuRun

\* Both processes are scheduled by the operating system and block only in reads
\* of empty pipes; a signal sent is delivered.  Nothing obliges the stub to make
\* a call, the test bench to finish or the CPU to run.
Fairness ==
  /\ WF_vars(RspLocal \/ RspCommand \/ RspAck \/ RspSend \/ RspRecv \/ RspResponse)
  /\ WF_vars(SimNext)
  /\ WF_vars(sigterm /\ RspKilled)

Spec == Init /\ [][Next]_vars
FairSpec == Spec /\ Fairness

=============================================================================
