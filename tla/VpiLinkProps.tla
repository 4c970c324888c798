---------------------------- MODULE VpiLinkProps ----------------------------
(***************************************************************************)
(* What makes the link of VpiLink correct.                                 *)
(***************************************************************************)
EXTENDS VpiLink

\* The type of every variable: parameters are words, a pipe holds sized units.
TypeOK ==
  /\ rsp \in {"up", "down"} /\ sim \in {"running", "finished"} /\ sigterm \in BOOLEAN
  /\ rpc \in {"run", "ack", "send", "recv", "resp", "exited"}
  /\ spc \in {"poll", "get", "return", "resp", "quit"}
  /\ sent \in Nat /\ storage \in Seq(Nat) /\ word_pointer \in Nat
  /\ current_chain \in {NoChain, DC_WISHBONE, DC_CPU0}
  /\ dbg_chain \in {NoChain, DC_WISHBONE, DC_CPU0}
  /\ wb \in [Adr -> Word] /\ spr \in [Adr -> Word] /\ ctrl \in 0 .. 3
  /\ ir \in {JI_IDCODE, JI_DEBUG} /\ module \in {NoChain, DC_WISHBONE, DC_CPU0}

\* Every read takes exactly one write's worth: the simulation finds at the head
\* of rsp_to_vpi_pipe a unit of the size its next $get_command_... reads, and the
\* server at the head of vpi_to_rsp_pipe the echo of its command, the data of the
\* size it asked for, or the response byte, whichever its next read is for.
Framed ==
  /\ spc = "get" /\ Len(got) < SimWants(cmd, got) /\ rsp_to_vpi_pipe # << >>
       => Head(rsp_to_vpi_pipe).n = GetSize(cmd, got)
  /\ vpi_to_rsp_pipe # << >>
       => LET u == Head(vpi_to_rsp_pipe)
          IN  /\ rpc = "ack"  => u = Unit(1, <<op.cmd>>)
              /\ rpc = "recv" => u.n = RecvSize(op) /\ u.v = storage
              /\ rpc = "resp" => u = Unit(1, <<0>>)

\* Between commands nothing is left in a pipe and the simulation is polling: no
\* byte of one command's dialogue is met by the next.
Quiet ==
  rpc = "run" =>
    /\ command_pipe = << >> /\ rsp_to_vpi_pipe = << >> /\ vpi_to_rsp_pipe = << >>
    /\ spc = "poll"

\* When the simulation runs a command's task, it is the command the server sent,
\* with exactly the parameters it sent.
Delivered ==
  spc = "get" /\ Len(got) = SimWants(cmd, got) => cmd = op.cmd /\ got = Sends(op)

\* A task drives the TAP only when the TAP reaches what the task is for: the
\* server's cached current_chain, which suppresses selections, is never stale.
RightModule ==
  spc = "get" =>
    /\ cmd \in WbCommands => Through(DC_WISHBONE)
    /\ cmd \in CpuCommands => Through(DC_CPU0)
    /\ cmd = CMD_SET_DEBUG_CHAIN => ir = JI_DEBUG
    /\ cmd = CMD_READ_JTAG_ID => ir = JI_IDCODE

-----------------------------------------------------------------------------
(* The link implements DebugPort.                                          *)

Visible == op.cmd \in WbCommands \cup CpuCommands \cup {CMD_READ_JTAG_ID}

\* The command in progress has been carried out.
Performed == IF spc = "poll" THEN command_pipe = << >> ELSE spc \in {"return", "resp"}

Phase ==
  IF rpc = "run" \/ ~Visible THEN "idle"
  ELSE IF ~Performed THEN "called"
  ELSE IF rpc = "resp" /\ Reading(op.cmd) THEN "idle"
  ELSE "performed"

\* What its task has read so far; all of it, as the stub will see it, at the end.
Result ==
  IF ~Reading(op.cmd) THEN << >>
  ELSE IF Phase = "performed" THEN Decode(op, storage)
  ELSE IF Phase = "called" /\ spc = "get" THEN storage
  ELSE << >>

Port == INSTANCE DebugPort WITH
  MemReads  <- {CMD_WB_RD32, CMD_WB_RD8, CMD_WB_BLOCK_RD32},
  MemWrites <- {CMD_WB_WR, CMD_WB_BLOCK_WR32},
  RegReads  <- {CMD_CPU_RD_REG},
  RegWrites <- {CMD_CPU_WR_REG},
  CtrlRead  <- CMD_CPU_CTRL_RD,
  CtrlWrite <- CMD_CPU_CTRL_WR,
  IdRead    <- CMD_READ_JTAG_ID,
  NoRequest <- NoOp,
  phase     <- Phase,
  req       <- IF Phase = "idle" THEN NoOp ELSE op,
  moved     <- IF Phase = "called" /\ spc = "get" THEN word_pointer ELSE 0,
  res       <- Result

\* Seen from the stub, an access function of rsp-rtl_sim.c moves each word of the
\* request once, in order, one at a time, between call and return, and touches
\* nothing else, in spite of the dialogue, the chain selection and a CPU that
\* runs while the command waits to be polled and between two words.
WordAccess == Port!PortSpec

-----------------------------------------------------------------------------
\* A command sent is answered, unless one of the processes has ended.
CommandCompletes ==
  rpc \notin {"run", "exited"} ~> (rpc = "run" \/ rsp = "down" \/ sim = "finished")

\* run_rsp_server's start-up sequence ends, and the stub gets to serve GDB,
\* unless one of the processes has ended.
ServerStarts == <>((todo = << >> /\ rpc = "run") \/ rsp = "down" \/ sim = "finished")

\* When the simulation ends, by a detach or otherwise, so does the server.
ServerFollows == sim = "finished" ~> rsp = "down"

-----------------------------------------------------------------------------
\* "block of 32-bit writes to cpu" (vpi_debug_module.v): a CPU register write
\* leaves in the registers the words the server sent.
RegistersWritten ==
  [][spc = "get" /\ cmd = CMD_CPU_WR_REG /\ spc' = "resp"
       => \A i \in 1 .. (op.len \div 4) :
            op.adr + i - 1 \in Adr => spr'[op.adr + i - 1] = op.data[i]]_vars

\* get_command_address (jp_vpi.c) on a failed read: "client has closed
\* connection; attempt to close and return gracefully".
GetEndsWithServer ==
  (rsp = "down" /\ sim = "running" /\ spc = "get") ~> (spc # "get" \/ sim = "finished")
=============================================================================
