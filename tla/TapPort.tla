------------------------------ MODULE TapPort ------------------------------
(***************************************************************************)
(* What the JTAG server promises a debugger: the commands it is sent are   *)
(* executed one at a time and in order; each clocks exactly its Edges into *)
(* the TAP, and a scan is answered with the bits the TAP gave during these *)
(* clocks.  When the debugger is gone the TAP is reset, over and over.     *)
(* How a clock is made is not visible here.                                *)
(*                                                                         *)
(* Nothing is promised of a loose command: one read in parts, or taken     *)
(* while the clock is stale, as only commands without Edges leave it.      *)
(***************************************************************************)
EXTENDS Naturals, Sequences

CONSTANTS Commands,            \* the commands
          None, Stop, Reset,   \* no command, and two that are not scans
          Edges(_),            \* the bits a command clocks into the TAP
          Scans                \* the commands that are answered

VARIABLES sock,     \* the commands sent and not yet taken
          part,     \* has a part of the first of them been read?
          gone,     \* has the debugger closed the connection?
          stale,    \* is a clock left that has not stayed low?
          now,      \* the command in progress
          loose,    \* was it taken out of step?
          seen,     \* the bits clocked since it was taken
          read,     \* the bits the TAP gave at these clocks, for a scan
          answer    \* the answer the debugger has not yet read

tapVars == <<sock, part, gone, stale, now, loose, seen, read, answer>>

TapInit ==
    /\ sock = <<>> /\ ~part /\ ~gone /\ ~stale /\ now = None /\ ~loose
    /\ seen = <<>> /\ read = <<>> /\ answer = <<>>

Debugger ==
    /\ \/ \E c \in Commands : sock' = Append(sock, c) /\ UNCHANGED <<gone, answer>>
       \/ gone' /\ answer' = <<>> /\ UNCHANGED sock
       \/ answer # <<>> /\ answer' = <<>> /\ UNCHANGED <<sock, gone>>
    /\ UNCHANGED <<part, stale, now, loose, seen, read>>

(* A loose command may be cut short. *)
Take ==
    /\ now = None \/ loose
    /\ ~stale /\ ~part
    /\ \/ sock # <<>> /\ sock' = Tail(sock)
          /\ now' = IF Head(sock) = Stop THEN Reset ELSE Head(sock)
       \/ sock = <<>> /\ gone /\ now' = Reset /\ UNCHANGED sock
    /\ ~loose' /\ seen' = <<>> /\ read' = <<>>
    /\ UNCHANGED <<part, gone, stale, answer>>

Clock ==
    /\ now # None
    /\ Len(seen) < Len(Edges(now))
    /\ seen' = Append(seen, Edges(now)[Len(seen) + 1])
    /\ IF now \in Scans THEN \E b \in {0, 1} : read' = Append(read, b)
                        ELSE UNCHANGED read
    /\ UNCHANGED <<sock, part, gone, stale, now, loose, answer>>

Finish ==
    /\ now # None
    /\ seen = Edges(now)
    /\ now' = None
    /\ answer' = IF now \in Scans /\ ~gone THEN read ELSE answer
    /\ stale' => Edges(now) = <<>>
    /\ seen' = <<>> /\ read' = <<>>
    /\ UNCHANGED <<sock, part, gone, loose>>

(* A command is taken out of step, or one that was goes on. *)
Unpromised ==
    /\ loose \/ (now = None /\ (stale \/ part \/ part'))
    /\ loose'
    /\ UNCHANGED gone

TapNext == Debugger \/ Take \/ Clock \/ Finish \/ Unpromised

TapSpec == TapInit /\ [][TapNext]_tapVars

=============================================================================
