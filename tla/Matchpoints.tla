---------------------------- MODULE Matchpoints ----------------------------
(***************************************************************************)
(* Hardware breakpoints and the cache of the debug registers in gdb.c.     *)
(*                                                                         *)
(* The stub keeps a copy of the processor's debug registers, fetches it    *)
(* when it first needs it after the processor has run, edits it for 'Z1',  *)
(* 'z1' and "monitor writespr", and writes all of it back when it resumes  *)
(* the processor.  The client makes these requests in any order: it may    *)
(* set a breakpoint twice, remove one that is not set, set more than there *)
(* are pairs, and keep its breakpoints across a stop or a step.            *)
(*                                                                         *)
(* Of DMR2 only the WGB bits are kept (the addresses may break), as a set  *)
(* of pairs; DCWR0 stands for the registers the stub itself does not use.  *)
(* The processor is external.  A pair is never compared in any way but EQ  *)
(* and FETCH: HWBP_BTWN is not defined.                                    *)
(***************************************************************************)
EXTENDS Integers, Sequences

CONSTANTS
    NPairs,     \* OR1K_MAX_MATCHPOINTS
    Present,    \* the pairs the processor has (DCR.DP)
    Adr,        \* the addresses at which the client sets breakpoints
    Value,      \* the values it writes to DCWR0
    Half        \* the weight of a word's top bit

Pairs == 0 .. NPairs - 1

ASSUME MatchpointsAssumption ==
    /\ NPairs \in Nat \ {0}
    /\ Present \subseteq Pairs
    /\ Adr \subseteq Nat
    /\ Value \subseteq Nat
    /\ Half \in Nat \ {0}

VARIABLES
    \* the stub
    copy,      \* or1k_dbg_group_regs_cache
    dirty,     \* dbg_regs_cache_dirty
    waiting,   \* rsp.client_waiting
    stray,     \* has an index left the arrays of the copy?
    garbled,   \* has a register been written with another value than the copy's?
    answers,   \* the packets sent in answer to the last request
    \* the processor
    hw,        \* its debug registers
    cpu,       \* "stalled", or how it was resumed
    \* the client
    asked      \* its last request; no two in a row are alike

vars == <<copy, dirty, waiting, stray, garbled, answers, hw, cpu, asked>>

MASKED == 0
EQ == 1
DISABLED == 0
FETCH == 1

Registers == [dvr : [Pairs -> Nat], dp : SUBSET Pairs,
              cc : [Pairs -> {MASKED, EQ}], ct : [Pairs -> {DISABLED, FETCH}],
              st : BOOLEAN, wgb : SUBSET Pairs, dcwr0 : Nat, te : BOOLEAN,
              drr : {"none", "TE"}]

Zeroed == [dvr |-> [i \in Pairs |-> 0], dp |-> {},
           cc |-> [i \in Pairs |-> MASKED], ct |-> [i \in Pairs |-> DISABLED],
           st |-> FALSE, wgb |-> {}, dcwr0 |-> 0, te |-> FALSE, drr |-> "none"]

(* The type of every variable.                                             *)
TypeOK ==
    /\ copy \in Registers
    /\ dirty \in {-1, 0, 1}
    /\ waiting \in BOOLEAN
    /\ stray \in BOOLEAN
    /\ garbled \in BOOLEAN
    /\ answers \in {<<>>} \cup {<<x>> : x \in {"OK", "E01", "value"}}
                   \cup {<<"", "OK">>}
    /\ hw \in Registers
    /\ cpu \in {"stalled", "c", "s"}
    /\ asked \in [op : {"none", "Z1", "z1", "readspr", "writespr", "writebeyond",
                        "c", "s"}, x : Nat, odd : BOOLEAN]

(* The copy is cleared by rsp_init; the processor has just been reset.     *)
Init ==
    /\ copy = Zeroed
    /\ dirty = -1
    /\ waiting = FALSE
    /\ stray = FALSE
    /\ garbled = FALSE
    /\ answers = <<>>
    /\ hw = [Zeroed EXCEPT !.dp = Present]
    /\ cpu = "stalled"
    /\ asked = [op |-> "none", x |-> 0, odd |-> FALSE]

-----------------------------------------------------------------------------
(* The copy.                                                               *)

(* get_debug_registers: what the copy holds after it.                      *)
get_debug_registers == IF dirty = -1 THEN hw ELSE copy

(* put_debug_registers: what the processor holds after c was written to it *)
(* as one block.  DCR.DP is read only.  debug_cpu_go gives each word after *)
(* the first the top bit of the word before (see CpuShift of VpiLink): a   *)
(* DVR that of the DVR before, DCWR0 that of DMR2, the status bit of a     *)
(* watchpoint nobody uses, which is 0; of the other registers that bit has *)
(* no meaning.                                                             *)
Low(w) == IF w >= Half THEN w - Half ELSE w
After(w, before) == IF before >= Half THEN Low(w) + Half ELSE Low(w)

put_debug_registers(c) ==
    [c EXCEPT !.dp = hw.dp, !.dcwr0 = Low(@),
              !.dvr = [i \in Pairs |-> IF i = 0 THEN c.dvr[i]
                                      ELSE After(c.dvr[i], c.dvr[i - 1])]]

(* The first pair that satisfies a condition, -1 if none does.             *)
FirstPair(S) == IF S = {} THEN -1 ELSE CHOOSE i \in S : \A j \in S : i <= j

find_matching_dcrdvr_pair(c, a) ==
    FirstPair({i \in Pairs : c.dvr[i] = a /\ c.cc[i] = EQ})

find_free_dcrdvr_pair(c) == FirstPair({i \in c.dp : c.cc[i] = MASKED})

(***************************************************************************)
(* With wp_num = -1 the accesses leave their arrays: dvr[-1] is the word   *)
(* before the structure, whatever that is, and dcr[-1] is the last DVR,    *)
(* read as a DCR: DP is bit 0, CC bits 1 to 3, SC bit 4 and CT bits 5 to   *)
(* 7.  The bit of DMR2 is then not one of WGB.                             *)
(***************************************************************************)
LastPair == NPairs - 1
AsDcr(w, cc, ct) == (w \div 256) * 256 + ct * 32 + cc * 2 + (w % 2)
CtOf(w) == (w \div 32) % 8

insert_hw_watchpoint(c, n, a) ==
    IF n = -1
    THEN [c EXCEPT !.dvr[LastPair] = AsDcr(@, EQ, FETCH)]
    ELSE [c EXCEPT !.dvr[n] = a, !.cc[n] = EQ, !.ct[n] = FETCH]

(* Mutant: the shift is off by one. *)
enable_hw_breakpointM(c, n) ==
    IF n = -1 THEN c ELSE [c EXCEPT !.wgb = @ \cup {n + 1}]

enable_hw_breakpoint(c, n) ==
    IF n = -1 THEN c ELSE [c EXCEPT !.wgb = @ \cup {n}]

disable_hw_breakpoint(c, n) == [c EXCEPT !.wgb = @ \ {n}]

remove_hw_watchpoint(c, n) ==
    IF n = -1
    THEN [c EXCEPT !.dvr[LastPair] = AsDcr(@, MASKED, CtOf(@))]
    ELSE disable_hw_breakpoint([c EXCEPT !.dvr[n] = 0, !.cc[n] = MASKED], n)

-----------------------------------------------------------------------------
(* Requests, which the stub takes while no client waits for a stop reply.  *)

target == <<hw, cpu>>

(* rsp_insert_matchpoint, BP_HARDWARE.  With no free pair "" is answered,  *)
(* and the handler goes on.                                                *)
Insert(a) ==
    LET c == get_debug_registers
        n == find_free_dcrdvr_pair(c)
    IN  /\ copy' = enable_hw_breakpoint(insert_hw_watchpoint(c, n, a), n)
        /\ dirty' = 1
        /\ stray' = (stray \/ n = -1)
        /\ answers' = IF n = -1 THEN <<"", "OK">> ELSE <<"OK">>

(* rsp_remove_matchpoint, BP_HARDWARE: the pair is freed before wp_num is  *)
(* looked at, and once more afterwards.                                    *)
Remove(a) ==
    LET c == get_debug_registers
        n == find_matching_dcrdvr_pair(c, a)
        d == remove_hw_watchpoint(c, n)
    IN  /\ copy' = IF n < 0 THEN d
                   ELSE disable_hw_breakpoint(remove_hw_watchpoint(d, n), n)
        /\ dirty' = 1
        /\ stray' = (stray \/ n < 0)
        /\ answers' = IF n < 0 THEN <<"E01">> ELSE <<"OK">>

Serving == ~waiting /\ cpu = "stalled"
Asks(op, x) == asked' = [op |-> op, x |-> x, odd |-> ~asked.odd]

Z1(a) ==
    /\ Serving
    /\ Insert(a)
    /\ Asks("Z1", a)
    /\ UNCHANGED <<waiting, garbled, target>>

z1(a) ==
    /\ Serving
    /\ Remove(a)
    /\ Asks("z1", a)
    /\ UNCHANGED <<waiting, garbled, target>>

(* "monitor readspr" of a debug register: the copy, fetched if need be, is *)
(* marked clean, even if it has been edited.  The number is not compared   *)
(* with the 22 words of the copy; a larger one reads what lies behind it.  *)
readspr ==
    /\ Serving
    /\ copy' = get_debug_registers
    /\ dirty' = 0
    /\ answers' = <<"value">>
    /\ Asks("readspr", 0)
    /\ UNCHANGED <<waiting, stray, garbled, target>>

(* "monitor writespr" of DCWR0... *)
writespr(v) ==
    /\ Serving
    /\ copy' = [get_debug_registers EXCEPT !.dcwr0 = v]
    /\ dirty' = 1
    /\ answers' = <<"OK">>
    /\ Asks("writespr", v)
    /\ UNCHANGED <<waiting, stray, garbled, target>>

(* ... and of a number past the copy's words: what lies behind the copy is *)
(* overwritten, of which nothing is known here.                            *)
writebeyond ==
    /\ Serving
    /\ copy' = get_debug_registers
    /\ dirty' = 1
    /\ answers' = <<"OK">>
    /\ Asks("writebeyond", 0)
    /\ UNCHANGED <<waiting, stray, garbled, target>>

-----------------------------------------------------------------------------
(* Running and stopping.                                                   *)

(* Mutant: the copy is written back only if it is marked dirty. *)
CommitM(c, how) ==
    /\ copy' = c
    /\ hw' = IF dirty = 1 THEN put_debug_registers(c) ELSE hw
    /\ dirty' = -1
    /\ cpu' = how

(* Mutant: the copy stays valid while the processor runs. *)
CommitKeepsM(c, how) ==
    /\ copy' = c
    /\ hw' = put_debug_registers(c)
    /\ dirty' = 0
    /\ cpu' = how

(* The end of rsp_continue_generic and rsp_step_generic: the copy is       *)
(* marked dirty, whatever it was, and written back; the processor is       *)
(* unstalled, and from then on the copy is not valid.                      *)
Commit(c, how) ==
    /\ copy' = c
    /\ hw' = put_debug_registers(c)
    /\ dirty' = -1
    /\ cpu' = how

Garbled(c) == hw'.dvr # c.dvr \/ hw'.dcwr0 # c.dcwr0

(* The copy is edited as it is: it is not fetched if it is not valid.      *)
rsp_continue_generic ==
    /\ Serving
    /\ Commit([copy EXCEPT !.drr = "none", !.st = FALSE, !.te = TRUE], "c")
    /\ garbled' = (garbled \/ Garbled(copy))
    /\ waiting' = TRUE
    /\ answers' = <<>>
    /\ Asks("c", 0)
    /\ UNCHANGED stray

(* A step also clears every WGB bit, and nothing sets them again.          *)
rsp_step_generic ==
    /\ Serving
    /\ Commit([copy EXCEPT !.drr = "none", !.st = TRUE, !.te = TRUE,
                           !.wgb = {}], "s")
    /\ garbled' = (garbled \/ Garbled(copy))
    /\ waiting' = TRUE
    /\ answers' = <<>>
    /\ Asks("s", 0)
    /\ UNCHANGED stray

(* The processor stops: at a breakpoint or a trap, or, and then the reason *)
(* register is left alone, after the one instruction of a step.            *)
Halt ==
    /\ cpu # "stalled"
    /\ \/ hw.te /\ hw' = [hw EXCEPT !.drr = "TE"]
       \/ hw.st /\ UNCHANGED hw
    /\ cpu' = "stalled"
    /\ UNCHANGED <<copy, dirty, waiting, stray, garbled, answers, asked>>

(* rsp_check_for_exception finds it stalled and looks at the reason, in    *)
(* the copy.                                                               *)
rsp_check_for_exception ==
    /\ waiting
    /\ cpu = "stalled"
    /\ copy' = get_debug_registers
    /\ dirty' = IF dirty = -1 THEN 0 ELSE dirty
    /\ waiting' = FALSE
    /\ UNCHANGED <<stray, garbled, answers, target, asked>>

(* rsp_interrupt stalls it, if it has not stopped already, and looks at    *)
(* nothing: the copy stays as it is.                                       *)
rsp_interrupt ==
    /\ waiting
    /\ cpu' = "stalled"
    /\ waiting' = FALSE
    /\ UNCHANGED <<copy, dirty, stray, garbled, answers, hw, asked>>

Next ==
    \/ \E a \in Adr : Z1(a) \/ z1(a)
    \/ readspr
    \/ \E v \in Value : writespr(v)
    \/ writebeyond
    \/ rsp_continue_generic
    \/ rsp_step_generic
    \/ Halt
    \/ rsp_check_for_exception
    \/ rsp_interrupt

Spec == Init /\ [][Next]_vars

-----------------------------------------------------------------------------
(* Properties.                                                             *)

(* The address in each pair the processor has, the pairs that may break,   *)
(* and the addresses whose fetch stops the processor. *)
HeldIn(r) == [i \in Present |-> IF r.cc[i] = EQ THEN r.dvr[i] ELSE -1]
Awake(r) == {i \in r.dp \cap r.wgb : r.cc[i] = EQ /\ r.ct[i] = FETCH}
ArmedIn(r) == {r.dvr[i] : i \in Awake(r)}

(* To the client the pairs, the copy and its three states are invisible,   *)
(* though readspr marks an edited copy clean and an interrupt leaves the   *)
(* copy unfetched: the breakpoints it has set since the last step, each as *)
(* often as it set it, are the ones that stop a continued processor, and   *)
(* what it wrote with writespr is in the processor when it runs.  This     *)
(* ends only where Lose of Breakpoints says: an index leaves the arrays    *)
(* only for a 'Z1' too many or a 'z1' of what is not set, and a register   *)
(* is garbled only if a top bit is set.                                    *)
B == INSTANCE Breakpoints
     WITH Slots <- Present, armed <- ArmedIn(hw), live <- hw.dcwr0,
          held <- HeldIn(get_debug_registers),
          awake <- Awake(get_debug_registers),
          spr <- get_debug_registers.dcwr0,
          lost <- stray \/ garbled
BreakpointsServed == B!BpSpec

(* The reason for a stop that is reported is the one in the processor: the *)
(* copy has not outlived the run.                                          *)
ReasonFresh ==
    [][waiting /\ ~waiting' /\ dirty' # -1 => copy'.drr = hw.drr]_vars

=============================================================================
