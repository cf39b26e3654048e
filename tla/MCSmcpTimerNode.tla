--------------------------- MODULE MCSmcpTimerNode ---------------------------
(* Model values for SmcpTimerNode: milliseconds scaled so that a period is *)
(* a few ticks, with the zero and negative values strtol may return.       *)
EXTENDS SmcpTimerNode

MCInitPeriod == 3
MCPeriods == {-1, 0, 2}
MCRemainings == {-1, 0, 2}
=============================================================================
