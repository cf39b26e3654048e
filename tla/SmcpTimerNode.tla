------------------------------ MODULE SmcpTimerNode ------------------------------
(***************************************************************************)
(* The timer node of src/src/smcp/smcp_timer_node.c: a CoAP resource that  *)
(* owns one scheduler timer.  Its operations (start, stop, toggle,         *)
(* restart, reset, fired) and the PUT/POST branches of its request handler *)
(* are actions over the node's fields and its timer.                       *)
(*                                                                         *)
(* The scheduler (smcp_timer.c) is outside src/; the timer is modelled by  *)
(* whether it is scheduled and the milliseconds left until its fire date,  *)
(* clamped at 0 as convert_timeval_to_cms reports them.  GET requests and  *)
(* the "running"/"autorestart" change events only read state.             *)
(***************************************************************************)
EXTENDS Integers

CONSTANTS
    InitPeriod,     \* 5 * MSEC_PER_SEC, scaled
    Periods,        \* values a client PUTs to "period" (strtol: any int)
    Remainings,     \* values a client PUTs to "remaining"
    MaxReq          \* bound: requests handled in a behaviour

VARIABLES
    node,           \* [sch: timer scheduled?, left: ms to fire_date, rem: remaining]
    period,         \* self->period
    autorestart,    \* self->autorestart
    freed,          \* the node was finalised (smcp_timer_node_dealloc)
    reqs            \* requests handled so far

vars == <<node, period, autorestart, freed, reqs>>

Clamp(x) == IF x > 0 THEN x ELSE 0

\* smcp_daemon_schedule_timer(..., cms): the fire date is now + cms.
Schedule(n, cms) == [n EXCEPT !.sch = TRUE, !.left = Clamp(cms)]

\* smcp_timer_node_start
Start(n, p) ==
    IF n.sch THEN n ELSE Schedule(n, IF n.rem # 0 THEN n.rem ELSE p)

\* Mutation: stop forgets the time left and keeps the whole period.
StopForgets(n) ==
    IF n.sch THEN [n EXCEPT !.sch = FALSE, !.left = 0, !.rem = period] ELSE n

\* smcp_timer_node_stop: remaining = ms left until the fire date.
Stop(n) ==
    IF n.sch THEN [n EXCEPT !.sch = FALSE, !.left = 0, !.rem = n.left] ELSE n

\* smcp_timer_node_toggle
Toggle(n, p) == IF n.sch THEN Stop(n) ELSE Start(n, p)

\* smcp_timer_node_restart
Restart(n, p) ==
    IF n.sch THEN Schedule([Stop(n) EXCEPT !.rem = p], p)
             ELSE Start([n EXCEPT !.rem = p], p)

\* smcp_timer_node_reset
Reset(n, p) ==
    IF n.sch \/ n.rem = 0 THEN Restart(n, p) ELSE [n EXCEPT !.rem = p]

Live == ~freed

\* Mutation: the time left keeps shrinking past the fire date.
TickPastDue ==
    /\ Live /\ node.sch
    /\ node' = [node EXCEPT !.left = node.left - 1]
    /\ UNCHANGED <<period, autorestart, freed, reqs>>

\* Time passes towards the fire date.
Tick ==
    /\ Live /\ node.sch /\ node.left > 0
    /\ node' = [node EXCEPT !.left = node.left - 1]
    /\ UNCHANGED <<period, autorestart, freed, reqs>>

\* smcp_handle_timers pops the due timer and calls smcp_timer_node_fired;
\* it runs for a freed node too, as the timer still sits in the list.
Fired ==
    /\ node.sch /\ node.left = 0
    /\ node' = IF autorestart THEN Schedule(node, period)
                              ELSE [node EXCEPT !.sch = FALSE, !.rem = 0]
    /\ UNCHANGED <<period, autorestart, freed, reqs>>

Request(n2, p2, a2) ==
    /\ Live /\ reqs < MaxReq
    /\ node' = n2 /\ period' = p2 /\ autorestart' = a2
    /\ reqs' = reqs + 1 /\ UNCHANGED freed

\* PUT/POST on the node with query "reset" (lines 253-254).
PutReset == Request(Reset(node, period), period, autorestart)

\* PUT/POST on the node with query "restart" (lines 255-256): the branch
\* calls smcp_timer_node_reset, as the "reset" branch does.
PutRestart == Request(Reset(node, period), period, autorestart)

\* PUT/POST "running" with v=1, v=0 or v=!v (lines 283-300).
PutRunning ==
    \E v \in {"1", "0", "!v"} :
        Request(CASE v = "1" -> Start(node, period)
                  [] v = "0" -> Stop(node)
                  [] v = "!v" -> Toggle(node, period),
                period, autorestart)

\* PUT/POST "period" v=p: period = strtol(v) (lines 336-349).
PutPeriod == \E p \in Periods : Request(node, p, autorestart)

\* PUT/POST "remaining" v=r: remaining = strtol(v), and a scheduled timer
\* is invalidated and scheduled again with it (lines 357-379).
PutRemaining ==
    \E r \in Remainings :
        LET n1 == [node EXCEPT !.rem = r]
        IN  Request(IF node.sch THEN Schedule(n1, r) ELSE n1, period, autorestart)

\* PUT/POST "autorestart" v=b: autorestart = !!strtol(v) (lines 390-412).
PutAutorestart == \E b \in BOOLEAN : Request(node, period, b)

\* The node is deleted: its finalize hook smcp_timer_node_dealloc frees it.
Finalize ==
    /\ Live
    /\ freed' = TRUE
    /\ UNCHANGED <<node, period, autorestart, reqs>>

\* smcp_timer_node_init on calloc'ed memory.
Init ==
    /\ node = [sch |-> FALSE, left |-> 0, rem |-> 0]
    /\ period = InitPeriod
    /\ autorestart = TRUE
    /\ freed = FALSE
    /\ reqs = 0

Next ==
    \/ Tick \/ Fired
    \/ PutReset \/ PutRestart \/ PutRunning \/ PutPeriod \/ PutRemaining \/ PutAutorestart
    \/ Finalize

Spec == Init /\ [][Next]_vars
FairSpec == Spec /\ WF_vars(Tick) /\ WF_vars(Fired)

-----------------------------------------------------------------------------
AllPeriods == Periods \cup {InitPeriod}
MaxLeft == LET S == AllPeriods \cup Remainings \cup {0}
           IN  CHOOSE x \in S : \A y \in S : y <= x

TypeOK ==
    /\ node \in [sch : BOOLEAN, left : 0 .. MaxLeft, rem : Remainings \cup AllPeriods \cup 0 .. MaxLeft]
    /\ period \in AllPeriods
    /\ autorestart \in BOOLEAN
    /\ freed \in BOOLEAN
    /\ reqs \in 0 .. MaxReq

(* The refinement mapping: a scheduled timer is running with the time to   *)
(* its fire date left; otherwise remaining = 0 is idle and any other       *)
(* remaining is a pause with that much left.                               *)
Abs == INSTANCE SmcpTimerNodeAbs WITH
    phase <- IF node.sch THEN "running" ELSE IF node.rem = 0 THEN "idle" ELSE "paused",
    left <- IF node.sch THEN node.left ELSE node.rem

(* Until it is freed, the node's start/stop/toggle/restart/reset, fired    *)
(* and PUT handlers implement the pausable count-down of SmcpTimerNodeAbs: *)
(* a stop keeps the time left, a start resumes it or starts a period.      *)
ImplementsCountdown == Abs!Spec

(* The spec's timer rule: a timer whose owner is destroyed is invalidated  *)
(* before the owner is freed, so no freed node keeps a scheduled timer.    *)
NoDanglingTimer == freed => ~node.sch
=============================================================================
