# Verification of orpsoc-cores

orpsoc-cores is a collection of FuseSoC cores and systems around the OpenRISC
processors: bus fabric, memories and small peripherals in Verilog, and the
software that lets GDB debug a simulated system. This directory holds TLA+
models of that code, the TLC runs that check them on small instances, and
TLAPS proofs that do not depend on the size of the instance.

`PROJECT.json` is the index: components and their sources, runs, the mutant
that shows each property can fail, the source lines each definition models,
findings, hazards, theorems.

## 1. The system

| Component | State | Operations | Interacts by |
|---|---|---|---|
| **Debug link** `jp_vpi/c/rsp-rtl_sim.c`, `jp_vpi.c`, `jp_vpi/verilog/vpi_debug_module.v` | server: `current_chain`, `dbg_chain`, position in a dialogue; simulation: the command served, `data_storage`; the TAP; three pipes | `dbg_*` access functions; system tasks `$check_for_command`, `$get_command_*`, `$return_*`; the tasks that shift bits | pipes between a forked child and the simulator; SIGTERM at `$finish` |
| **RSP server loop** `jp_vpi/c/gdb.c` | `struct rsp` (`client_waiting`, `sigval`, `client_fd`), `stallState`, the NPC cache, the matchpoint hash table | `handle_rsp`, `rsp_get_client`, `rsp_peek`, `get_packet`, `put_packet`, one function per request | socket with GDB; access functions of the link |
| **RSP packet layer** `gdb.c` | packet buffer | framing, escapes, checksum | socket |
| **Hardware matchpoints** `gdb.c` | DVR/DCR pairs, DMR1/2, copy in the stub, dirty flag | `Z1`–`z4`, continue, step | link |
| **Memory and register requests** `gdb.c` | none of their own | `m M X g G p P`, byte order | link |
| **Wishbone interconnect** `wb_intercon` | grant, registered error | arbiter, address multiplexer, data resizer | bus signals |
| **Dual clock FIFO**, **DDR wrapper** `wb_altera_ddr_wrapper` | Gray pointers; read buffers, round-robin grant | push/pop in two clock domains; line fills, write broadcast | bus signals, FIFOs |
| **Bridges** `wb_avalon_bridge`; **RAMs** `ram_wb`, `wb_ram`, `wb_common`; **PS/2** `ps2`; **GPIO** `gpio` | burst counters, registers | bus cycles | bus signals |
| **Verilator JTAG server** `verilator_tb_utils` | protocol state of `doJTAG` | TMS and scan sequences | socket |
| ELF loader, bus functional models, UART model, virtual JTAG, PicoRV32 glue, board files, generator, core descriptions | little or none | — | — |

What is hard here:

* two processes and an untagged byte stream between them: the debug link has
  no message boundaries, and each side knows what a byte means only from where
  it stands in the dialogue;
* caches of remote state: the selected scan chain, the stall state, the NPC,
  the saved instructions. Each must be right whatever the CPU, the client or
  the simulator did in between;
* a polling loop that must serve a processor and a client, either of which may
  act between two of its looks at the other;
* processes and connections that end in the middle of something;
* hardware: two clocks, several masters, registered handshakes.

The debug server is the largest body of the repository's own logic and the
one with the most processes, failures and protocol, so it is modelled first
and in most detail; next come the second debug path (the JTAG server of the
Verilator test benches) and the one piece of hardware with two clocks (the
FIFO of the DDR wrapper).

What makes each part correct: the *link*, that each word of an access is moved
once and reaches the right module; the *loop*, that its picture of the target is true and its
dialogue with GDB does not slip; *matchpoints*, that the breakpoints GDB has
set, and no others, are armed when the processor is continued; *memory
requests*, that the bytes sent are the bytes stored; the *FIFO*, that it is a queue; the *JTAG
server*, that each command clocks its own bits once. For the parts not
modelled: the *DDR ports*, that no port reads a word older than another's
acknowledged write; the *interconnect*, that an answer or an error reaches the
access it is for; *bridges and RAMs*, that a burst touches the addresses it
names; *PS/2*, that no scan code is lost unnoticed.

## 2. Modules

| Module | Models |
|---|---|
| `VpiLink` | the debug link: server process, simulation, pipes, TAP |
| `DebugPort` | what the link's access functions promise: word after word, each moved once, in order |
| `VpiLinkProps` | properties of the link; the refinement mapping to `DebugPort` |
| `VpiLinkInv` | its inductive invariant |
| `VpiLinkProofs` | TLAPS proofs, the refinement of `DebugPort` included |
| `GdbStub` | the server loop, with GDB and the processor around it |
| `GdbStubProps` | properties of the loop |
| `GdbStubProofs` | TLAPS proofs about the target, with their inductive invariants |
| `GdbDialogue` | the inductive invariant of the dialogue with GDB |
| `GdbDialogueProofs` | TLAPS proofs about the dialogue |
| `Breakpoints` | what a client is promised of hardware breakpoints, and where the promise ends |
| `Matchpoints` | DVR/DCR pairs and the stub's copy of the debug registers; the refinement mapping to `Breakpoints` |
| `MatchpointsProofs` | TLAPS proofs |
| `MemoryRequests` | the `m`, `M` and `X` handlers over the link's accesses |
| `MemoryRequestsProofs` | TLAPS proofs |
| `WordQueue` | what a FIFO promises |
| `DualClockFifo` | the FIFO, its two clocks and synchronisers; the refinement mapping to `WordQueue` |
| `DualClockFifoProofs` | TLAPS proofs |
| `TapPort` | what the JTAG server promises a debugger |
| `JtagServer` | the JTAG server of the Verilator test benches; the refinement mapping to `TapPort` |
| `JtagServerInv` | its inductive invariant |
| `JtagServerProofs` | TLAPS proofs |
| `NumberInduction` | induction up to a number, for the proofs about recursive functions |
| `MC...` | values for TLC |

`GdbStub`, `Matchpoints` and `MemoryRequests` use the link as `DebugPort`
describes it; `VpiLink` shows that they may. A request is one step there,
because GDB makes requests while the processor is stalled, and then nothing
comes between the words of a block. No handler sees to it:
`gdb_ensure_or1k_stalled` is empty, `ENABLE_OR1K_STALL_CHECK` being undefined.
The write of the debug registers goes through `debug_cpu_go` and gets what
`DebugPort` says of such a block: a wrong top bit after the first word.

### VpiLink

*Server.* An access function is the sequence of commands it sends (`Program`,
`dbg_reset`, `dbg_test`), kept in `todo`. A command's dialogue is
`RspCommand` (command byte), `RspAck` (the echo, `get_ack`), `RspSend` (one
parameter each), `RspRecv` (data), `RspResponse`. `RspLocal` is
`dbg_set_chain` when the cached chain is the one wanted. `RspCall` is the stub
calling any access function; `RspKilled` a signal.

*Simulation.* `SimPoll`, `SimGet`, one action per kind of task (`SimReset`,
`SimSetIr`, `SimSetChain`, `SimCtrlWr`, `SimRegWr`, `SimWbWr`, `SimBlockWr`,
`SimRead`, `SimBlockRd`, `SimDetached`), `SimReturn`, `SimRespond`,
`SimFinish`. A block, of memory or of registers, read or written, is one step
per word (`word_pointer`). While `main` waits or shifts, simulated time passes
and the CPU may act (`CpuRun`), between two words of a block as well; while it
is blocked in a system task, time stands still.

*Data.* A pipe is a sequence of sized units, so that a read of the wrong size
is visible (`Framed`). Words have `2*Half` values; in the runs a word is one
bit, its MSB, the only bit the code treats unlike the others (`CpuShift`).
Shifting, the CRC and the debug unit's status bits are left out, and so is a
read that returns part of a write: pipe writes of this size are atomic. Blocks
that do not fit `data_storage` are excluded by `StorageAssumption`; the stub
never asks for one. `reset_or1k` and other functions nobody calls are left out.

### GdbStub

`pc` is the place of the stub's thread: top of the loop, peeking, in
`get_packet`, executing a request, writing a packet, reading its
acknowledgement. A request is executed in one step, since the processor is
stalled; the read of the stall bit and the peek at the socket are separate
steps, since it may be running. The client makes one request at a time, as GDB
does; where it expects a `+` and finds a packet, it acknowledges and drops it,
as GDB does. `GdbGoes` ends a connection without `D`. Writing to such a
connection may succeed (`PutWrites`) or fail (`PutFails`, `GetPacket`).

The processor executes, steps, traps or faults. `past` marks a processor that
stands behind a trap which replaced an instruction; `flushed` a written NPC,
which reads as zero. The debug reasons are reduced to a trap, a bus error and
none (a step), one for each way the stub treats them. `flushed` ends with the
unstall: the access after it takes hundreds of cycles of simulated time.

Left out: wrong checksums and the `-` answer; hex and escapes; the effect of
memory requests (they are answered, `H` stands for them; `MemoryRequests` has
the rest) and hardware breakpoints (`Matchpoints`); requests that are
ignored and that GDB expects no answer to are one (`k`). `C` and `S` are
ignored as well, but GDB waits for a stop after them: they are
`ResumeWithSignal`, and the client that sent one waits until it interrupts a
processor that runs, or goes. General registers other than the NPC are left
out.

### Matchpoints

`copy` is `or1k_dbg_group_regs_cache` and `dirty` the flag beside it: -1 not
valid, 0 fetched, 1 edited. One action per request that touches them (`Z1`,
`z1`, `readspr`, `writespr`, `writebeyond`, `rsp_continue_generic`,
`rsp_step_generic`), one per way to learn of a stop (`rsp_check_for_exception`,
`rsp_interrupt`), and `Halt` for the processor. The copy is fetched, or not,
exactly where the code does.

The client makes any request at any time the stub takes one: it sets a
breakpoint twice, removes one that is not set, sets more than there are pairs,
keeps breakpoints across stops and steps. With no free pair, and for a `z1` of
an address that has none, the code goes on with index -1; the model changes the
word that lies there, and `stray` records it. `put_debug_registers` writes what
`debug_cpu_go` makes of the block (`After`), and `garbled` records a difference.

DMR2 is reduced to its WGB bits, and the registers the stub does not use to one
(DCWR0). A number in `readspr` or `writespr` that lies past the copy's 22 words
reads or overwrites what the linker has put behind the copy; the model has the
flag and the answer of that (`writebeyond`) and no more. `Z2` to `Z4` are
answered as not supported.

### MemoryRequests

The handlers are operators on a memory of bytes: the bytes up to the first
word boundary, the whole words, the rest, with `swap_buf` and the reversal of
words between target and host (`Turned`) where the code has them, and the
bytes that lie in the packet buffer beyond the data (`Buffer`). A memory does
not see the two low address bits of a word access (`WordAt`, as `ram_wb_b3`),
which matters for an `M`: its words are written at the address given. `m` is
asked with every length; `past` counts the characters of the reply that were
written past the end of the packet buffer, and what those bytes then are is
left open. The host is little endian. Hex digits are left out: a digit pair is a byte. `Image` is the
memory at the start and `Payloads` what GDB writes; both are constants, so that
the theorems hold for all of them.

### DualClockFifo

A step is an edge of either clock, or of both at once; then a synchroniser may
sample a moving pointer, and gets any mixture of its old and new bits
(`Mixed`). Codes are sets of bit numbers. Words are numbered, so that order,
loss and repetition are visible. Metastability beyond the first register is
not modelled. `Init` is the state the resets leave.

### JtagServer

One action per state of `doJTAG`; a step is one call of it by the test bench's
loop, preceded by the evaluation of the design (`TapMoves`). `clk`, `tseq` and
`chain` are the static variables of `gen_clk`, `do_tms_seq` and
`do_scan_chain`. The fall-through from `CHECK_CMD` into `TAP_RESET` is in
`CheckCmd`. `seen` and `read` record what was clocked in and out; the command
in progress, as `TapPort` has it, is `Now`. A read of the socket blocks, as it
does in the code. The debugger sends any commands that fit their buffers,
waits for the answer to a scan, sends nothing after `CMD_STOP_SIMU`, and may
leave at any time.

Two things put the server out of step with it, and both are in the model. A TMS
sequence of exactly one byte (or of no bits) clocks nothing and leaves the clock
that `CHECK_CMD` has begun for it; several in a row leave that clock past its
low half (`Stale`). And a read may return a part of a command (`ReadPart`),
which is taken for a command: then it, and what the rest of it is taken for,
are any commands. A command taken so is `loose` until the next is taken. A
length that does not fit the buffers, which such a mixture could hold, is not
modelled: `do_scan_chain` would write past the packet.

## 3. Properties and runs

| Run | Checks | Instance |
|---|---|---|
| `link_safe` | `TypeOK Framed Quiet Delivered RightModule Inductive`, `WordAccess`, `CommandCompletes ServerStarts ServerFollows` | two cells, blocks of two words of memory and of registers, both processes may end; 924,800 states |
| `stub_safe` | `TypeOK StallKnown SignalKnown BreakpointsExact RequestsSafe Matched StopOwed NpcKnown Dialogue` | 2 addresses, 3 requests of any kind, 2 interrupts, 2 clients; 1,877,188 states |
| `stub_live` | `TrapRolledBack`, `Answered StopDelivered` | `c s C Z0 g`, 3 requests, 2 interrupts, 2 clients; 518,388 states |
| `matchpoints` | `TypeOK`, `BreakpointsServed ReasonFresh` | 3 addresses, one with the top bit, 2 of 3 pairs present, any requests in any number; 434,267 states |
| `memory` | `TypeOK ReadComplete`, `StoreExact StoresInside` | 8 bytes, a buffer of 13 characters, every address and length, 2 requests; 20,675 states |
| `fifo` | `TypeOK FlagsSafe`, `QueueImplemented`, `Drained FullClears` | 8 places, 12 words; 7,022 states |
| `jtag` | `TypeOK`, `PortServed SetupHeld`, `ScanAnswered LeftReset` | bytes of 2 bits, scans of 2 and 3 bits, TMS sequences of 2 and 4, any number of commands, one partial read; 960,443 states |
| `link_regs`, `link_orphan`, `stub_rollback`, `stub_interrupt`, `stub_eof` | one property each, violated: section 5 | |

*Link.* `Framed`: every read takes exactly one write's worth, and the right
one. `Quiet`: nothing of one command's dialogue is left for the next.
`Delivered`: a task runs with the parameters the server sent. `RightModule`:
the cached chain is never stale. `WordAccess`: the link implements
`DebugPort`: each word of a request is moved once, in order and at its own
address, in spite of a CPU that runs while a command waits to be polled and
between two words of a block.

*Loop.* `StallKnown`, `SignalKnown`, `NpcKnown`, `BreakpointsExact`: what the
stub holds of the target is right. `RequestsSafe`, `Matched`, `StopOwed`: the
dialogue with GDB does not slip, though an interrupt read in place of an
acknowledgement makes the stub send packets twice. `Answered`: every request
is acknowledged and answered, or its stop looked for; `C` and `S` are the
exception, named in `Answered` and in `StopOwed`. `TrapRolledBack`: a client
told of a trap finds the processor on the breakpoint.

*Matchpoints.* `BreakpointsServed`: to the client the copy, its three states
and the pairs are invisible, though `readspr` marks an edited copy clean and an
interrupt leaves the copy unfetched: each breakpoint set since the last step,
as often as it was set, holds a pair and stops a continued processor. A step
puts those that are set to sleep for good: `Breakpoints` says so, because the
code does so. The promise ends in three cases and only in these (`Lose`): a
`Z1` with no pair left, a `z1` of what is not set, and a resumption with the
top bit in an address or value. `ReasonFresh`: the reason reported for a stop
is this stop's.

*Memory.* `StoreExact`: `M` stores the whole words of its data, and nothing of
the rest, from the word on that its address is in; `X` stores what GDB sent, if
it is whole words or one or two bytes. `StoresInside`: no write, of whatever
alignment, changes a byte outside its range. `ReadComplete`: the answer to an
`m` holds each byte of the range, whole words with the highest address first;
the buffer is overrun exactly at the lengths from half of it up to all of it.

*FIFO.* `FlagsSafe`: the flags are late only to the safe side.
`QueueImplemented`: a queue of `Depth - 1` words. `Drained`, `FullClears`: the
flags clear without further traffic.

*JTAG server.* `PortServed`: each command taken in step clocks its own bits,
once each, but for the last byte of a TMS sequence of whole bytes, and a scan is
answered with what the TAP gave; only a partial read, or a TMS sequence of which
nothing is sent, makes a later command loose, and no other. `SetupHeld`: TMS and
TDI stand before TCK rises. `ScanAnswered`: a debugger that waits is answered,
unless a command is taken out of step. `LeftReset`: a debugger that goes, in
mid-command or out of step, leaves the TAP reset.

*Bounds.* Link: two cells and two-word blocks are the least at which a block
crosses from one word to the next and an access can hit the wrong cell; the
number of commands is not bounded. Loop: a wrong rollback needs an insertion,
a continue and one more request; a slipped dialogue needs two interrupts and a
stop reply; a stale stall state needs a second client. Random simulation with
nine requests, four interrupts and three clients found nothing else. The
bounds are constants, and the theorems hold for all of them. Matchpoints: the
requests are not bounded; three addresses and two usable pairs are the least
at which a pair is freed and taken by another address while one is in use, and
a third breakpoint, or one set twice and another, finds no pair. Memory: eight
bytes hold a head, a whole word and a rest; a second request sees what the
first wrote; a buffer of 13 characters is filled by six bytes, overrun by seven
and eight, and cuts a length of thirteen. FIFO: twelve words go once and a half round the
ring, so that full, empty and the wrap happen at either pointer. JTAG: with
bytes of two bits a scan of two has a full last byte and one of three a short
one; a TMS sequence of two sends nothing and one of four loses half. The number
of commands is not bounded, so that each finds the static variables any other
left, and several empty sequences in a row leave the clock stale; one command
is in the socket at a time, and one read returns a part.

*Deadlock* is checked for matchpoints, FIFO and JTAG server. It is not for the
others: both processes of the link may end, a client whose requests are used
up leaves the loop polling or blocked, and in `memory` the requests run out.

*Fairness.* `VpiLink`: the operating system schedules both processes, which
block only in reads of empty pipes; a signal sent is delivered. The stub need
not call, the test bench need not finish, the CPU need not run. `GdbStub`: the
loop never blocks but in reads; GDB reads what it waits for and acknowledges;
a processor told to step does (one instruction, or a fault). A processor told
to run need never stop, and a client need never ask or interrupt.
`DualClockFifo`: both clocks run, the resets end, and the SDRAM side takes a
word whenever it may for long enough (it returns to `IDLE` after each).
`JtagServer`: the test bench's loop runs, and a debugger that waits for an
answer reads it; it need not send, nor ever leave.

## 4. Proofs

All proofs are for every value of the constants under the named assumptions
`AdrAssumption` … `StorageAssumption` (link), `StubAssumption` (loop),
`MatchpointsAssumption`, `MemoryAssumption`, `FifoAssumption` and
`JtagAssumption`. These say what kind of value each constant is, and beyond
that: a memory is a whole number of words; an address of the FIFO has at least
two bits (`gray_conv` takes one off); `tck_period` is at least 5 (it is 10; with
less a reset would have fewer than five clocks); the commands of the JTAG
debugger fit their buffers, and a scan has a bit.

*Link* (`VpiLinkProofs`). The properties are not inductive: whether the next
read is framed depends on everything already in the pipe, and whether the
module is right depends on commands not sent yet. `Inductive` is
`TypeOK /\ StepsOK /\ ChainKnown /\ Lockstep`:

* `Lockstep`: the positions of the two processes determine the contents of
  the three pipes: the command not yet met (`Posted`), or taken, the
  parameters split between those read and those in the pipe (`Params`), and
  echo, data and response in this order (`Holds`);
* `StepsOK`: each step the server still has to take finds the chain and the
  instruction the one before leaves (`Ready`, `NeedChain`, `LeaveChain`);
* `ChainKnown`: the TAP and the debug unit are where the server believes.

`NextInductive` has one lemma per action. `TypeCorrect`, `AlwaysFramed`,
`AlwaysQuiet`, `AlwaysDelivered` and `AlwaysRightModule` follow.

`LinkIsPort` is the refinement: a word is moved when the simulation's task
moves it, and from `Inductive` each task is the access the server asked for, on
the module it meant, while every other step changes nothing of the port. It
needs besides that a task which moves no block has moved nothing (`Unmoved`).
It has no hypothesis: what `debug_cpu_go` does to the registers of a block is
in `DebugPort`, which says of each after the first only that its lower bits are
right. The run `link_regs` shows that the top bit is not.

*Loop* (`GdbStubProofs`). `TargetKnown` is the type invariant with
`StallKnown`, `SignalKnown`, `BreakpointsExact` and `NpcKnown`; together they
are inductive, alone they are not: the processor moves, and the cached NPC
would become wrong, only while it runs, and by `StallKnown` nothing is cached
then. `AlwaysTrapRolledBack` needs `RollbackOwed` besides: a processor past a
trap keeps its breakpoint in the table as long as the client waits, because no
request is served meanwhile. It assumes that no client makes a cycle step
(`i`), which reports a trap whatever the processor stopped for; with `i` the
property does not hold.

*Dialogue* (`GdbDialogueProofs`). Whether GDB takes a packet for the answer to
its request depends on all that stands in both directions of the connection.
`Dialogue` (which `stub_safe` checks as well) says what may stand there:

* `InboxKnown`: at most one request, followed by acknowledgements only; none
  while a reply is owed; and while a packet is being put, a request is there
  only behind an acknowledgement, so that `put_packet` never eats one;
* `OutboxKnown`: once GDB's request is taken there is one `+` for it, behind
  it only packets that answer it, and before it only what GDB drops;
* `ReplyOwed`, `StopOnItsWay`: what the stub is about to send is what GDB
  waits for, and a stop owed is being looked for, being put or sent;
* `Stranded` is a client that resumed with a signal (`C`, `S`): nothing is owed
  to it, and nothing but its own interrupt may be in the inbox.

`RequestsSafe`, `Matched` and `StopOwed` follow from it and the type invariant,
for every client, any number of requests and interrupts at any time.

*Matchpoints* (`MatchpointsProofs`). What the client has set is compared with
the processor only when it resumes. The invariant is
`TypeOK /\ CopyInv /\ PairsInv`:

* `CopyInv`: a copy that is not valid still equals the registers, but for what
  the processor itself writes (the reason, the presence bits), so that it may
  be edited and written back unfetched, unless a register was garbled;
* `PairsInv`: as long as no index has left the arrays and no register was
  garbled, the pairs are tidy: those in use are present and compare fetches,
  and the others hold no address. From this `find_free_dcrdvr_pair` fails only
  if all slots are taken and `find_matching_dcrdvr_pair` only if the address
  is in none.

`MatchpointsServe` shows that every step is one of `Breakpoints` or a stutter,
for any client.

*FIFO* (`DualClockFifoProofs`). The invariant orders six counts:
`taken <= written`, each synchronised copy of a pointer is the code of a count
no newer than the pointer and no older than the stage behind it, and
`written - taken < Depth`. Two counts less than `Depth` apart are equal when
their codes are, which makes the flags' comparisons exact about old counts and
safe about the present ones. `FifoFacts` has what this needs of Gray code, for
every width: codes tell addresses apart (their bits agree from the highest
down), and a sample of a pointer that moves by one is its old or its new code
(the two differ in the bit at which the carry of the increment stops, or in
the highest when the pointer wraps).

*Memory* (`MemoryRequestsProofs`). `RoundTrip`: `rsp_unescape` gives back what
GDB escaped, whatever the payload. The reversal of words is its own inverse and
stays within them, which gives `AlwaysStoreExact` and `AlwaysStoresInside` part
by part (bytes before the first word, words, rest). `ReadFacts` gives the place
each byte of the answer to an `m` is taken from, and `AlwaysReadComplete`
follows for every length, those that overrun the buffer included. The bound of the run, eight bytes and short payloads, is
gone.

*JTAG server* (`JtagServerProofs`). `SetupHeld` and the refinement of `TapPort`
need to know where in a clock the static variables stand. `ServerInv` has two
parts. `ServerBase` holds in every state: types, the state that belongs to the
command read last, the places in the buffers (`PlacesKnown`), a clock that has
not begun as `gen_clk_restart` leaves it. `InStep` holds while a command is in
progress that was taken in step: it ties the calls `gen_clk` has counted to the
edges the TAP has seen (`Progress`), the place in the buffer, a byte and a bit,
to the bits clocked, and the bits captured to the bits the TAP gave; and it
says that a reset no command asked for happens only when nothing is left to
read. A loose command keeps only `ServerBase`, and that is enough for the next
command that is read whole with the clock low to be in step again. Each handler
is then a step of `TapPort` or changes nothing there (`ServerIsPort`).

*Induction.* The library's induction theorems take an operator as parameter,
which no installed prover can instantiate. `NumberInduction` states induction
for a set of numbers instead (from the well-foundedness of `<` and the
existence of minimal elements): the powers of two, the bits of an address and
the escapes of a payload are handled with it.

*Only model-checked.* Liveness (`CommandCompletes`, `ServerStarts`,
`ServerFollows`, `Answered`, `StopDelivered`, `Drained`, `FullClears`,
`ScanAnswered`, `LeftReset`), which is outside the prover. Every other
property of the passing runs is a theorem; one of them under a hypothesis,
`TrapRolledBack` (no `i`).

## 5. Where code and comments disagree

* `link_regs`: `debug_cpu_go` fetches a word before it advances the pointer,
  so the first bit of each word after the first is the previous word's.
* `link_orphan`: a server that ends after its command byte leaves the
  simulation blocked in a read for ever, because the simulation itself holds
  the other end of the pipe open.
* `stub_rollback`: a breakpoint hit between the poll of the stall bit and the
  handling of an interrupt is not rolled back; the instruction is skipped.
* `stub_interrupt`: an unread `+` in front of an ETX makes the loop ignore
  every later interrupt.
* `stub_eof`: a connection that ends while the loop peeks is never noticed.

`PROJECT.json` quotes the comments and says how each comes about.

Met while modelling, and not given a run:

* `g` reads the NPC register itself (`gdb.c:2114`) and tells GDB zero after a
  write of it, though the NPC is cached for exactly this.
* `Z1` with no free pair answers `""`, then writes at index -1 and answers
  `OK`; `z1` of an unknown address writes at index -1 before it looks. A `Z1`
  that comes twice takes two pairs, of which `z1` frees one. The comment asks
  for handlers that "must cope with the possibility of duplicate packets"
  (`gdb.c:3686`, `gdb.c:3815`). `Breakpoints` has these as the cases in which
  its promise ends, and `BreakpointsServed` shows that there are no others but
  the garbled top bit.
* A step clears the WGB bits of DMR2 (`gdb.c:3191`) and nothing sets them for
  the breakpoints that are set already: they hold their pairs and stop nothing.
  A GDB that removes its breakpoints at each stop does not notice.
* `readspr` and `writespr` of a debug register use `regno & 0xff` as an index
  into a copy of 22 words.
* `C` and `S` are acknowledged and dropped (`gdb.c:929`, `gdb.c:1041`), and GDB
  waits for a stop.
* A client that vanishes leaves its hardware breakpoints for the next one.
* `m` returns the bytes of each whole word reversed on a little-endian host,
  where the comment has "lowest address first" (`gdb.c:2198`; the version under
  `#if 0` swapped them); `M` drops what follows the last whole word and answers
  `OK`, so that the example in its comment, `M4015cc,2:c320` (`gdb.c:2531`),
  writes nothing, and at an address that is not aligned its words go to the
  words the address is in; `X` of more than two bytes stores bytes in
  the wrong places when the address or length is not a multiple of four.
  `StoreExact` and `ReadComplete` say what does hold.
* The length of an `m` is compared with twice the buffer ("Make sure we won't
  overflow the buffer", `gdb.c:2232`); from half the buffer up to the whole the
  answer overruns it. A GDB that keeps to `PacketSize` asks for less.
* `gdb_ensure_or1k_stalled` is empty: a request made while the processor runs
  is served, with the processor's stores between the words of a block.
* `get_packet` takes 279 characters before the `#`; a `G` packet has 281, so
  `rsp_write_all_regs` (which would write 32 times too much) is never reached.
* The JTAG server sets `O_NONBLOCK` on the listening socket instead of the
  connection (`jtagServer.cpp:276`): the simulation stands still while the
  debugger is idle. Were it set as intended, the fall-through of `CHECK_CMD`
  would reset the TAP while the debugger is idle.
* A TMS sequence whose length is a multiple of eight loses its last byte
  (`jtagServer.cpp:155`). One of a single byte clocks nothing and leaves a clock
  begun; several of them in a row leave that clock high, and the next command
  loses bits, gains an edge or is swallowed.
* A read that returns a part of a command is taken for a whole one
  (`jtagServer.cpp:40`); the rest of it is read as the next.

## 6. Not modelled

Interconnect generator, core descriptions, board top levels, virtual JTAG:
text, wiring or metadata without behaviour of their own. ELF loader, UART
model, bus functional models, PicoRV32 glue: sequential test-bench code.
Vendored models and patches to code kept elsewhere. The packet layer is there
at packet level only. Wishbone interconnect, DDR ports and arbiter, bridges,
RAMs, PS/2: not yet.

## 7. Plan

1. Debug link, with the proof of its refinement — done.
2. RSP server loop, with proofs about the target and the dialogue — done.
3. `Matchpoints`, with the proof of its refinement — done.
4. `DualClockFifo`, with the proof of its refinement — done.
5. `MemoryRequests`, with proofs — done.
6. `JtagServer`, with the proof of its refinement — done.
7. `WbPort` and `WbPortArbiter`, composed over an abstract controller, the FIFO
   as `WordQueue`: no port reads a stale word after another's acknowledged
   write.
8. `WbArbiter` and `WbMux`, composed: an answer reaches the master it is for.
9. `RspPacket`: framing, checksum and the buffer's limit.
10. Bridges and RAM bursts, PS/2.
