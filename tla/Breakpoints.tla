---------------------------- MODULE Breakpoints ----------------------------
(***************************************************************************)
(* What a client is promised of hardware breakpoints.  There is a slot for *)
(* each pair the processor has.  A breakpoint that is set takes a free     *)
(* one, as often as it is set, and one that is removed frees one of its    *)
(* own.  When the processor is continued it stops at exactly the addresses *)
(* in slots that are awake; a step puts all of them to sleep for good.  A  *)
(* register written with "monitor writespr" has its value when the         *)
(* processor next runs.                                                    *)
(*                                                                         *)
(* The promise ends, and nothing more is said, in three cases: one         *)
(* breakpoint too many is set, one that is not set is removed, or the      *)
(* processor is resumed with an address or a register value in the upper   *)
(* half.  Which slot is taken or freed, and when the registers are copied, *)
(* is not visible.                                                         *)
(***************************************************************************)
EXTENDS Integers

CONSTANTS Adr, Value,
          Slots,   \* as many as the processor has pairs
          Half     \* the addresses and values from here on have the top bit

None == -1

VARIABLES asked,   \* the last request; no two in a row are alike
          cpu,     \* "stalled", or how the processor was resumed
          armed,   \* the addresses at which the processor stops
          live,    \* the value the register has in the processor
          held,    \* the address in each slot, None if it is free
          awake,   \* the slots whose address stops the processor
          spr,     \* the value given to the register
          lost     \* has the promise ended?

target == <<cpu, armed, live>>
bpVars == <<asked, target, held, awake, spr, lost>>

Asked(op, x) == asked' = [op |-> op, x |-> x, odd |-> ~asked.odd]

BpInit ==
    /\ asked = [op |-> "none", x |-> 0, odd |-> FALSE]
    /\ cpu = "stalled"
    /\ armed = {}
    /\ live = 0
    /\ held = [s \in Slots |-> None]
    /\ awake = {}
    /\ spr = 0
    /\ lost = FALSE

SetOne(a) ==
    /\ cpu = "stalled"
    /\ Asked("Z1", a)
    /\ \E s \in Slots : /\ held[s] = None
                        /\ held' = [held EXCEPT ![s] = a]
                        /\ awake' = awake \cup {s}
    /\ UNCHANGED <<target, spr, lost>>

Clear(a) ==
    /\ cpu = "stalled"
    /\ Asked("z1", a)
    /\ \E s \in Slots : /\ held[s] = a
                        /\ held' = [held EXCEPT ![s] = None]
                        /\ awake' = awake \ {s}
    /\ UNCHANGED <<target, spr, lost>>

Read ==
    /\ cpu = "stalled"
    /\ Asked("readspr", 0)
    /\ UNCHANGED <<target, held, awake, spr, lost>>

Write(v) ==
    /\ cpu = "stalled"
    /\ Asked("writespr", v)
    /\ spr' = v
    /\ UNCHANGED <<target, held, awake, lost>>

(* A register the stub has no copy of. *)
WriteOther ==
    /\ cpu = "stalled"
    /\ Asked("writebeyond", 0)
    /\ UNCHANGED <<target, held, awake, spr, lost>>

Resume(op, on) ==
    /\ cpu = "stalled"
    /\ Asked(op, 0)
    /\ cpu' = op
    /\ awake' = on
    /\ armed' = {held[s] : s \in on}
    /\ live' = spr
    /\ UNCHANGED <<held, spr, lost>>

Stop ==
    /\ cpu # "stalled"
    /\ cpu' = "stalled"
    /\ UNCHANGED <<asked, armed, live, held, awake, spr, lost>>

High == spr >= Half \/ \E s \in Slots : held[s] >= Half

(* The promise ends. *)
Lose ==
    /\ lost'
    /\ \/ \E a \in Adr : Asked("Z1", a) /\ \A s \in Slots : held[s] # None
       \/ \E a \in Adr : Asked("z1", a) /\ \A s \in Slots : held[s] # a
       \/ \E op \in {"c", "s"} : Asked(op, 0) /\ High

BpNext ==
    \/ \E a \in Adr : SetOne(a) \/ Clear(a)
    \/ Read
    \/ \E v \in Value : Write(v)
    \/ WriteOther
    \/ Resume("c", awake)
    \/ Resume("s", {})
    \/ Stop
    \/ Lose
    \/ lost /\ lost'

BpSpec == BpInit /\ [][BpNext]_bpVars

=============================================================================
