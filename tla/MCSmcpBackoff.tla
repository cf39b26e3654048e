----------------------------- MODULE MCSmcpBackoff -----------------------------
(* Model-checking values for SmcpBackoff.  The engine's timing constants  *)
(* live in headers that are not part of the source tree; the values here  *)
(* are CoAP's (RFC 7252 ACK_TIMEOUT) and those the smcpctl tools pass.    *)
EXTENDS SmcpBackoff

\* COAP_RESPONSE_TIMEOUT: the CoAP ACK_TIMEOUT of 2 seconds.
MCRtt == 2000

\* cmd_list.c: timeout_cms = 30*1000, "Retry for thirty seconds".
MCThirtySeconds == 30000

\* CMS_DISTANT_FUTURE: an expiration that is never reached in a run.
MCDistantFuture == 1000000000
=============================================================================
