----------------------------- MODULE VpiLinkInv -----------------------------
(***************************************************************************)
(* The inductive invariant behind the properties of VpiLinkProps: where    *)
(* the two processes stand determines what is in the pipes (Lockstep), and *)
(* each step the server still has to take finds the TAP, the debug module  *)
(* and the cached chain as it needs them (StepsOK, ChainKnown).            *)
(***************************************************************************)
EXTENDS VpiLinkProps

\* A step the server may have to take.
Step == [cmd : 1 .. 15, adr : Nat, len : Nat, data : Seq(Int)]
StepOK(s) ==
  /\ s \in Step
  /\ s.cmd = CMD_JTAG_SET_IR => s.data \in {<<JI_IDCODE>>, <<JI_DEBUG>>}
  /\ s.cmd = CMD_SET_DEBUG_CHAIN => s.data \in {<<DC_WISHBONE>>, <<DC_CPU0>>, <<DbgChain>>}
  /\ s.cmd = CMD_CPU_CTRL_WR => s.data \in {<<0>>, <<1>>}
  /\ s.cmd \in {CMD_WB_RD32, CMD_WB_RD8, CMD_CPU_CTRL_RD, CMD_CPU_CTRL_WR, CMD_READ_JTAG_ID} =>
       s.len = 0
  /\ s.cmd = CMD_WB_WR => s.len \in {1, 2, 4} /\ s.data \in Seq(Word) /\ Len(s.data) = 1
  /\ s.cmd \in BlockReads \cup BlockWrites => s.len >= 4
  /\ s.cmd \in BlockWrites => /\ s.len \div 4 <= StorageWords
                              /\ s.data \in Seq(Word) /\ Len(s.data) = Units(s.len)

\* The current_chain a step relies on, and the one it leaves.
AnyChain == -3
NeedChain(s) ==
  CASE s.cmd \in WbCommands -> DC_WISHBONE
    [] s.cmd \in CpuCommands -> DC_CPU0
    [] s.cmd = CMD_SET_DEBUG_CHAIN -> IF s.data[1] = DbgChain THEN DC_CPU0 ELSE AnyChain
    [] s.cmd = CMD_GDB_DETACH -> AnyChain
    [] OTHER -> NoChain

LeaveChain(s) ==
  IF s.cmd = CMD_SET_DEBUG_CHAIN /\ s.data[1] # DbgChain THEN s.data[1] ELSE NeedChain(s)

\* The TAP instruction a step relies on, and the one it leaves.
AnyIr == -1
NeedIr(s) ==
  CASE s.cmd \in {CMD_RESET, CMD_JTAG_SET_IR} -> AnyIr
    [] s.cmd = CMD_READ_JTAG_ID -> JI_IDCODE
    [] OTHER -> JI_DEBUG

LeaveIr(s) ==
  CASE s.cmd = CMD_RESET -> JI_IDCODE
    [] s.cmd = CMD_JTAG_SET_IR -> s.data[1]
    [] OTHER -> NeedIr(s)

\* May step t be taken when the chain is c and the instruction i?
Ready(t, c, i) == NeedChain(t) \in {AnyChain, c} /\ NeedIr(t) \in {AnyIr, i}

\* What the server, and the TAP, will be at when the command in progress is done.
HeldChain == IF rpc = "run" THEN current_chain ELSE LeaveChain(op)
HeldIr    == IF rpc = "run" THEN ir ELSE LeaveIr(op)

\* Every step of t but the first finds what it needs, and the last leaves DEBUG.
Sequenced(t) ==
  /\ t \in Seq(Step)
  /\ \A i \in 1 .. Len(t) : StepOK(t[i])
  /\ \A i \in 1 .. (Len(t) - 1) : Ready(t[i + 1], LeaveChain(t[i]), LeaveIr(t[i]))
  /\ t # << >> => LeaveIr(t[Len(t)]) = JI_DEBUG

StepsOK ==
  /\ Sequenced(todo)
  /\ IF todo = << >> THEN HeldIr = JI_DEBUG ELSE Ready(todo[1], HeldChain, HeldIr)

\* The TAP and the debug unit are where the server believes them to be.
ChainKnown ==
  /\ current_chain # NoChain => ir = JI_DEBUG
  /\ IF rpc # "run" /\ op.cmd = CMD_SET_DEBUG_CHAIN
     THEN dbg_chain = op.data[1] /\ (Performed => module = op.data[1])
     ELSE current_chain # NoChain => module = current_chain /\ dbg_chain = current_chain
  /\ rpc # "run" =>
       /\ StepOK(op) /\ op.cmd # FORGET_CHAIN
       /\ op.cmd = CMD_SET_DEBUG_CHAIN => op.data[1] # DbgChain
       /\ NeedChain(op) \in {AnyChain, current_chain}
       /\ IF Performed THEN ir = LeaveIr(op) ELSE NeedIr(op) \in {AnyIr, ir}

-----------------------------------------------------------------------------
\* A unit of a pipe.
PipeUnit == [n : Nat, v : Seq(Int)]

\* Pipe p holds the echo a if A, then the data d if D, then the response r if R.
One(b) == IF b THEN 1 ELSE 0
Holds(p, A, D, R, a, d, r) ==
  /\ p \in Seq(PipeUnit) /\ Len(p) = One(A) + One(D) + One(R)
  /\ A => p[1] = a
  /\ D => p[One(A) + 1] = d
  /\ R => p[One(A) + One(D) + 1] = r

EchoUnit == Unit(1, <<op.cmd>>)
DataUnit == Unit(RecvSize(op), storage)
ResponseUnit == Unit(1, <<0>>)

\* Parameters written are, in order, those read and those still in the pipe.
Params ==
  /\ got \in Seq(Int)
  /\ rsp_to_vpi_pipe \in Seq(PipeUnit)
  /\ Len(got) + Len(rsp_to_vpi_pipe) = sent
  /\ \A k \in 1 .. Len(got) : got[k] = Sends(op)[k]
  /\ \A k \in 1 .. Len(rsp_to_vpi_pipe) :
       rsp_to_vpi_pipe[k] = Unit(SendSize(op, Len(got) + k), <<Sends(op)[Len(got) + k]>>)

\* The server's position in the dialogue.
ServerAt ==
  /\ rpc \in {"ack", "exited"} => sent = 0
  /\ rpc = "send" => sent < Len(Sends(op))
  /\ rpc \in {"recv", "resp"} => sent = Len(Sends(op))
  /\ rpc = "recv" => Reading(op.cmd)
  /\ (op.cmd = CMD_GDB_DETACH) => rpc \in {"ack", "exited"}
  /\ rpc = "exited" => op.cmd = CMD_GDB_DETACH

\* The command is in its pipe and the simulation has not met it.
Posted ==
  /\ rpc = "ack" /\ spc = "poll" /\ command_pipe = <<EchoUnit>>
  /\ rsp_to_vpi_pipe = << >> /\ vpi_to_rsp_pipe = << >>

\* The simulation has taken the command, and perhaps served it.
Taken ==
  /\ command_pipe = << >> /\ cmd = op.cmd
  /\ IF spc = "get" THEN Params ELSE rsp_to_vpi_pipe = << >> /\ sent = Len(Sends(op))
  /\ spc = "return" => Reading(cmd) /\ got = Sends(op)
  /\ rpc = "resp" /\ Reading(cmd) => spc \in {"resp", "poll"}
  /\ spc = "quit" <=> (op.cmd = CMD_GDB_DETACH /\ spc # "get")
  /\ \E R \in BOOLEAN :
       /\ spc # "quit" => R = (spc = "poll")
       /\ Holds(vpi_to_rsp_pipe,
                rpc = "ack",
                Reading(cmd) /\ rpc \in {"ack", "recv"} /\ spc \in {"resp", "poll"},
                R, EchoUnit, DataUnit, ResponseUnit)

Lockstep ==
  IF rpc = "run" THEN Quiet ELSE ServerAt /\ (Posted \/ Taken)

\* The inductive invariant.
Inductive == TypeOK /\ StepsOK /\ ChainKnown /\ Lockstep
=============================================================================
