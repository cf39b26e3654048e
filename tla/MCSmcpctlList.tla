----------------------------- MODULE MCSmcpctlList -----------------------------
(* Model-checking instance of SmcpctlList: the replies a server may send.  *)
EXTENDS SmcpctlList

Reply(c, ct, lf, nx, loc) ==
    [code |-> c, content |-> ct, linkFormat |-> lf, next |-> nx, location |-> loc]

\* A directory chunk with a continuation, the last chunk, a redirect to
\* another URL, a redirect to the same URL, a plain 2.05 body and a 4.04.
MCResponses ==
    { Reply(205, TRUE, TRUE, TRUE, "none"),
      Reply(205, TRUE, TRUE, FALSE, "none"),
      Reply(302, FALSE, FALSE, FALSE, "other"),
      Reply(302, TRUE, TRUE, TRUE, "same"),
      Reply(205, TRUE, FALSE, TRUE, "none"),
      Reply(404, TRUE, FALSE, FALSE, "none") }
=============================================================================
