---------------------------- MODULE SmcpTimerNodeAbs ----------------------------
(***************************************************************************)
(* What a timer node (src/src/smcp/smcp_timer_node.c) promises its CoAP    *)
(* clients: a count-down that can be idle, running or paused.  A paused    *)
(* timer keeps the time it had left and resumes from it; an idle one       *)
(* starts a full period.  Time passes only for a running timer, and it     *)
(* fires when nothing is left: again after a period with autorestart,      *)
(* otherwise it goes idle.                                                 *)
(*                                                                         *)
(* One looseness is part of the promise: a timer paused at or after the    *)
(* moment it was due, before it fired, goes idle and the firing is lost    *)
(* (the node cannot tell "nothing left" from "never started").            *)
(***************************************************************************)
EXTENDS Integers

CONSTANTS Periods, Remainings

VARIABLES phase, left, period, autorestart

absVars == <<phase, left, period, autorestart>>

Clamp(x) == IF x > 0 THEN x ELSE 0

Tick ==
    /\ phase = "running" /\ left > 0
    /\ left' = left - 1
    /\ UNCHANGED <<phase, period, autorestart>>

Fire ==
    /\ phase = "running" /\ left = 0
    /\ IF autorestart
       THEN left' = Clamp(period) /\ UNCHANGED phase
       ELSE phase' = "idle" /\ left' = 0
    /\ UNCHANGED <<period, autorestart>>

Start ==
    /\ phase # "running"
    /\ phase' = "running"
    /\ left' = Clamp(IF phase = "paused" THEN left ELSE period)
    /\ UNCHANGED <<period, autorestart>>

Pause ==
    /\ phase = "running"
    /\ IF left > 0 THEN phase' = "paused" ELSE phase' = "idle"
    /\ UNCHANGED <<left, period, autorestart>>

\* Re-arming with a full period; a paused timer stays paused with a full
\* period left (idle if the period is 0).
Rearm ==
    /\ IF phase = "paused"
       THEN left' = period /\ phase' = IF period = 0 THEN "idle" ELSE "paused"
       ELSE phase' = "running" /\ left' = Clamp(period)
    /\ UNCHANGED <<period, autorestart>>

\* Setting the time left; for a timer that is not running, 0 means idle.
SetLeft(r) ==
    /\ IF phase = "running"
       THEN left' = Clamp(r) /\ UNCHANGED phase
       ELSE left' = r /\ phase' = IF r = 0 THEN "idle" ELSE "paused"
    /\ UNCHANGED <<period, autorestart>>

Init ==
    /\ phase = "idle" /\ left = 0
    /\ period \in Int /\ autorestart = TRUE

Next ==
    \/ Tick \/ Fire \/ Start \/ Pause \/ Rearm
    \/ \E r \in Remainings : SetLeft(r)
    \/ \E p \in Periods : period' = p /\ UNCHANGED <<phase, left, autorestart>>
    \/ \E b \in BOOLEAN : autorestart' = b /\ UNCHANGED <<phase, left, period>>

Spec == Init /\ [][Next]_absVars
=============================================================================
