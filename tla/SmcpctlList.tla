------------------------------ MODULE SmcpctlList ------------------------------
(***************************************************************************)
(* The "list" command of smcpctl (src/src/smcpctl/cmd_list.c).             *)
(* tool_cmd_list installs a SIGINT handler, begins a GET transaction and   *)
(* spins smcp_daemon_process while gRet is ERRORCODE_INPROGRESS.  The      *)
(* response handler follows redirects (at most redirect_count of them),    *)
(* prints a link-format directory and, when the reply carries a            *)
(* continuation, begins the next request from inside the callback.         *)
(*                                                                         *)
(* The daemon API cmd_list.c is written against (smcp_begin_transaction,   *)
(* smcp_invalidate_transaction, smcp_daemon_process) is not in src/; it is *)
(* modelled by the contract cmd_list relies on: a begun transaction ends   *)
(* by calling the handler once, with the response or with an error status  *)
(* (time-out or resend failure), or by being invalidated, in which case    *)
(* the handler sees SMCP_STATUS_HANDLER_INVALIDATED and no content.         *)
(* Each handler call is one step; a SIGINT arrives between steps.          *)
(***************************************************************************)
EXTENDS Integers

CONSTANTS
    Responses,      \* replies the server may send: [code, content, linkFormat, next, location]
    BeginResults,   \* what smcp_begin_transaction may return: "OK" or "FAIL"
    ArgResults,     \* outcomes of argument parsing: "follow", "nofollow", "help", "badarg"
    MaxFollow,      \* redirect_count after --follow (10 in the code)
    MaxChunks,      \* bound: continuations the server hands out
    Timeout         \* clock ticks until a transaction's timeout_cms expires

\* gRet values: ERRORCODE_* and the 0 the handler stores on completion.
INPROGRESS == "INPROGRESS"
INTERRUPT  == "INTERRUPT"
HELP       == "HELP"
BADARG     == "BADARG"
Done0      == "0"   \* gRet = 0

\* Engine statuses the handler can be called with (negative, as smcp_status_t).
TIMEOUT     == -1
INVALIDATED == -2

NoCursor == 0          \* next_len == (size_t)-1: no continuation

VARIABLES
    pc,             \* "start", "loop" (the while loop), "done" (returned), "killed"
    gRet,           \* the static gRet
    redirectCount,  \* redirect_count
    cursor,         \* next_data/next_len: the continuation of the request in flight
    live,           \* the command's transaction (tid) is in the daemon's table
    sigint,         \* SIGINT disposition: "list" (signal_interrupt) or "default"
    age             \* clock ticks since the live transaction was begun

vars == <<pc, gRet, redirectCount, cursor, live, sigint, age>>

(* send_list_request: a new random tid, gRet = ERRORCODE_INPROGRESS, the    *)
(* continuation cursor stored (next_len = -1 for none), then               *)
(* smcp_begin_transaction; res is what the begin returned.                 *)
SendListRequest(next, res) ==
    /\ cursor' = next
    /\ live' = (res = "OK")
    /\ age' = 0

\* Mutation: the bail label leaves gRet as it is.
HandlerBailKeepsStatus == gRet' = gRet

\* The bail label of list_response_handler: a command still in progress
\* is finished with status 0.
HandlerBail == gRet' = IF gRet = INPROGRESS THEN Done0 ELSE gRet

(* A request sent from inside the handler: send_list_request has set gRet  *)
(* to ERRORCODE_INPROGRESS, so a failed begin reaches bail with it and the *)
(* command is finished with 0.                                             *)
SentFromHandler(res) == gRet' = IF res = "OK" THEN INPROGRESS ELSE Done0

\* Mutation: the redirect branch ignores redirect_count.
IsRedirectAnyCount(code, r) ==
    code >= 300 /\ code < 400 /\ r.location = "other"

\* The redirect branch is taken for a 3xx reply with a Location other than
\* the current URL while redirects are left.
IsRedirect(code, r) ==
    code >= 300 /\ code < 400 /\ redirectCount > 0 /\ r.location = "other"

\* A continuation is followed only for link-format content with a next header.
HasContinuation(r) == r.content /\ r.linkFormat /\ r.next

\* Mutation: a redirect does not use up redirect_count.
FollowRedirectNoDecrement(res) ==
    /\ SendListRequest(NoCursor, res)
    /\ SentFromHandler(res)
    /\ redirectCount' = redirectCount

(* The redirect branch: retries = 0, send_list_request to the new URL; on *)
(* success redirect_count-- and return, on failure require() jumps to bail *)
(* (gRet was just set to INPROGRESS, so it becomes 0).                     *)
FollowRedirect(res) ==
    /\ SendListRequest(NoCursor, res)
    /\ SentFromHandler(res)
    /\ redirectCount' = IF res = "OK" THEN redirectCount - 1 ELSE redirectCount

(* list_response_handler(code, reply) for the transaction that just ended. *)
(* A redirect or a continuation begins the next transaction from inside    *)
(* the callback; every other path (errors, non-directory content, the end  *)
(* of the listing, a failed begin) falls through to bail.                  *)
ListResponseHandler(code, r) ==
    \/ /\ IsRedirect(code, r)
       /\ \E res \in BeginResults : FollowRedirect(res)
    \/ /\ ~IsRedirect(code, r)
       /\ HasContinuation(r)
       /\ \E res \in BeginResults :
            /\ SendListRequest(cursor + 1, res)
            /\ SentFromHandler(res)
       /\ UNCHANGED redirectCount
    \/ /\ ~IsRedirect(code, r)
       /\ ~HasContinuation(r)
       /\ HandlerBail
       /\ live' = FALSE
       /\ age' = 0
       /\ UNCHANGED <<redirectCount, cursor>>

\* The handler as the daemon calls it without a reply (time-out, resend
\* failure, invalidation).
NoReply == [code |-> 0, content |-> FALSE, linkFormat |-> FALSE, next |-> FALSE, location |-> "none"]

-----------------------------------------------------------------------------
Init ==
    /\ pc = "start"
    /\ gRet = INPROGRESS
    /\ redirectCount = 0
    /\ cursor = NoCursor
    /\ live = FALSE
    /\ sigint = "default"
    /\ age = 0

(* tool_cmd_list up to the loop: the SIGINT handler is installed, the       *)
(* arguments are parsed; help and bad arguments go to bail, otherwise the   *)
(* first request is sent.  A failed first begin also goes to bail, with     *)
(* gRet still ERRORCODE_INPROGRESS.                                         *)
Start ==
    /\ pc = "start"
    /\ \E a \in ArgResults :
         IF a \in {"help", "badarg"}
         THEN /\ gRet' = IF a = "help" THEN HELP ELSE BADARG
              /\ pc' = "done"
              /\ UNCHANGED <<redirectCount, cursor, live, age>>
         ELSE \E res \in BeginResults :
              /\ redirectCount' = IF a = "follow" THEN MaxFollow ELSE 0
              /\ SendListRequest(NoCursor, res)
              /\ gRet' = INPROGRESS
              /\ pc' = IF res = "OK" THEN "loop" ELSE "done"
    \* bail restores the previous (default) disposition on the way out
    /\ sigint' = IF pc' = "done" THEN "default" ELSE "list"

\* The daemon delivers the server's reply to the transaction.
Respond ==
    /\ pc = "loop" /\ live
    /\ \E r \in Responses :
         /\ r.next => cursor < MaxChunks
         /\ ListResponseHandler(r.code, r)
    /\ UNCHANGED <<pc, sigint>>

\* Time passes while the transaction is unanswered.
Tick ==
    /\ pc = "loop" /\ live /\ age < Timeout
    /\ age' = age + 1
    /\ UNCHANGED <<pc, gRet, redirectCount, cursor, live, sigint>>

\* The transaction's expiration passes (its resendCallback,
\* resend_list_request, failing ends it the same way): the daemon ends it
\* and calls the handler with the error status.
Expire ==
    /\ pc = "loop" /\ live /\ age = Timeout
    /\ ListResponseHandler(TIMEOUT, NoReply)
    /\ UNCHANGED <<pc, sigint>>

\* signal_interrupt: gRet = ERRORCODE_INTERRUPT and the previous handler is
\* put back.  A SIGINT under the default disposition ends the process.
Interrupt ==
    /\ pc = "loop"
    /\ IF sigint = "list"
       THEN gRet' = INTERRUPT /\ sigint' = "default" /\ UNCHANGED pc
       ELSE pc' = "killed" /\ UNCHANGED <<gRet, sigint>>
    /\ UNCHANGED <<redirectCount, cursor, live, age>>

(* The loop sees gRet # ERRORCODE_INPROGRESS: bail invalidates tid (the     *)
(* handler of a still-live transaction is called with HANDLER_INVALIDATED)  *)
(* and restores the previous SIGINT handler.                                *)
Return ==
    /\ pc = "loop" /\ gRet # INPROGRESS
    /\ IF live THEN ListResponseHandler(INVALIDATED, NoReply)
               ELSE UNCHANGED <<gRet, redirectCount, cursor, live, age>>
    /\ pc' = "done"
    /\ sigint' = "default"

Next == Start \/ Respond \/ Tick \/ Expire \/ Interrupt \/ Return

Spec == Init /\ [][Next]_vars

(* Time passes, smcp_daemon_process runs due timers on every call, and the *)
(* loop re-tests gRet after each call.  The server and the user get no     *)
(* fairness: a reply may never come, a SIGINT may never be sent.           *)
FairSpec == Spec /\ WF_vars(Tick) /\ WF_vars(Expire) /\ WF_vars(Return) /\ WF_vars(Start)

-----------------------------------------------------------------------------
TypeOK ==
    /\ pc \in {"start", "loop", "done", "killed"}
    /\ gRet \in {INPROGRESS, INTERRUPT, HELP, BADARG, Done0}
    /\ redirectCount \in 0..MaxFollow
    /\ cursor \in 0..MaxChunks
    /\ live \in BOOLEAN
    /\ sigint \in {"list", "default"}
    /\ age \in 0..Timeout

(* The while loop of tool_cmd_list never spins on ERRORCODE_INPROGRESS     *)
(* with nothing pending: every path of list_response_handler that does not *)
(* begin a new transaction (errors, time-outs, plain content, the end of   *)
(* the listing, a failed begin) finishes the command.                      *)
LoopWaitsOnTransaction == (pc = "loop" /\ gRet = INPROGRESS) => live

(* The command returns (or is killed), whatever the server answers: the    *)
(* redirects it follows are bounded by redirect_count and an unanswered     *)
(* transaction times out.                                                  *)
CommandReturns == <>(pc \in {"done", "killed"})

(* Once signal_interrupt has stored ERRORCODE_INTERRUPT, the command stops *)
(* with that status: nothing the response handler does overwrites it.      *)
InterruptIsFinal == [][gRet = INTERRUPT => gRet' = INTERRUPT]_vars
=============================================================================
