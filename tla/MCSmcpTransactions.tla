-------------------------- MODULE MCSmcpTransactions --------------------------
(* Model-checking instances of SmcpTransactions: which flags each         *)
(* transaction is begun with.                                               *)
EXTENDS SmcpTransactions, TLC

CONSTANTS t1, t2

\* A block-wise observation with keep-alive beside a plain request that
\* has no resendCallback (the owner sends it once).
MCFlagsObservePlain ==
    (t1 :> {"OBSERVE", "KEEPALIVE", "ALWAYS_INVALIDATE"}) @@ (t2 :> {})

MCResendObservePlain == (t1 :> TRUE) @@ (t2 :> FALSE)

\* A single observation.
MCFlagsObserve == (t1 :> {"OBSERVE"})

MCResendObserve == (t1 :> TRUE)
=============================================================================
