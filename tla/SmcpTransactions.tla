--------------------------- MODULE SmcpTransactions ---------------------------
(***************************************************************************)
(* The client side of the SMCP protocol engine (src/src/smcp/smcp.c): the  *)
(* transaction table, the retransmission/timeout handler driven by each    *)
(* transaction's timer, and the routing of inbound responses to            *)
(* transactions (smcp_handle_response), including observation and         *)
(* block-wise continuation, and the owner's completion callback, which may *)
(* re-enter the engine by ending or restarting its own transaction.        *)
(*                                                                         *)
(* Time is abstracted: a transaction's expiration is a flag that time may  *)
(* set at any moment (Expire), and a scheduled timer may fire at any       *)
(* moment (TimerFire).  Durations (back-off, keep-alive, max-age) only     *)
(* shape when these happen and are left out.  The network is abstracted   *)
(* to the set of requests ever sent: any response the server could send to *)
(* one of them may be delivered at any time, any number of times, so loss, *)
(* duplication and reordering are all included.                           *)
(***************************************************************************)
EXTENDS Integers, Sequences, FiniteSets

CONSTANTS
    Txn,            \* transaction structures owned by the application
    Flags,          \* [Txn -> SUBSET FlagNames]: the flags passed to smcp_transaction_init
    HasResend,      \* [Txn -> BOOLEAN]: whether a resendCallback is passed
    CallbackActs,   \* what a completion callback may do when it runs
    ResendResults,  \* what a resendCallback may return
    AuthResults,    \* what smcp_auth_handle_response may return
    ObsSeqs,        \* observe sequence numbers the server may send
    RandomIds,      \* values SMCP_FUNC_RANDOM_UINT32() may yield, as uint16
    MaxIds,         \* bound: message ids issued in a behaviour
    MaxIn,          \* bound: datagrams delivered in a behaviour
    MaxEpoch,       \* bound: smcp_transaction_begin calls per transaction
    NoObs,          \* a response without an Observe option
    NoTok,          \* a response whose token is not a 2-byte token
    ServerMid,      \* a message id chosen by the server for a separate response
    NoTxn           \* no transaction found for a response

FlagNames == {"OBSERVE", "KEEPALIVE", "DELAY_START", "ALWAYS_INVALIDATE"}

ASSUME /\ Flags \in [Txn -> SUBSET FlagNames]
       /\ HasResend \in [Txn -> BOOLEAN]
       /\ CallbackActs \subseteq {"Return", "Error", "End", "Restart"}
       /\ ResendResults \subseteq {"OK", "WAIT_FOR_DNS", "FAILURE"}
       /\ AuthResults \subseteq {"OK", "FAILURE"}
       /\ ObsSeqs \subseteq 0..(2^24 - 1)
       /\ RandomIds \subseteq 0..65535
       /\ MaxIds \in Nat /\ MaxIn \in Nat /\ MaxEpoch \in Nat

MsgId == 0..65535

VARIABLES
    tr,         \* tr[t]: the fields of struct smcp_transaction_s that steer control
    nextMsgId,  \* the static next_msg_id of smcp_get_next_msg_id
    sent,       \* requests sent so far, as [mid, tok] records
    cbLog,      \* cbLog[t]: callbacks delivered to t since its last begin (history)
    idsIssued,  \* message ids issued so far (bound bookkeeping)
    msgsIn      \* datagrams delivered so far (bound bookkeeping)

vars == <<tr, nextMsgId, sent, cbLog, idsIssued, msgsIn>>

Status == {"Content", "Reset", "Timeout", "Failure", "Invalidated"}

TxnRec == [active : BOOLEAN, mid : MsgId, tok : MsgId, waiting : BOOLEAN,
           lastObs : 0..(2^24 - 1), cb : BOOLEAN, resend : BOOLEAN,
           timer : BOOLEAN, expired : BOOLEAN, epoch : 0..MaxEpoch]

LogEntry == [st : Status, seq : ObsSeqs \cup {NoObs}, mid : MsgId]

Request == [mid : MsgId, tok : MsgId]

\* The datagrams a server may send in answer to request q: an empty ACK
\* (the answer will come separately), a piggy-backed ACK, a separate CON or
\* NON response carrying q's token, and a reset.
ResponsesTo(q) ==
    [tt : {"ACK"}, code : {0}, mid : {q.mid}, tok : {NoTok}, obs : {NoObs}, more : {FALSE}]
    \cup [tt : {"ACK"}, code : {69}, mid : {q.mid}, tok : {q.tok},
          obs : ObsSeqs \cup {NoObs}, more : BOOLEAN]
    \cup [tt : {"CON", "NON"}, code : {69}, mid : {ServerMid}, tok : {q.tok},
          obs : ObsSeqs \cup {NoObs}, more : BOOLEAN]
    \cup [tt : {"RST"}, code : {0}, mid : {q.mid}, tok : {NoTok}, obs : {NoObs}, more : {FALSE}]

-----------------------------------------------------------------------------
(* smcp_get_next_msg_id: a 16-bit counter seeded from the random source    *)
(* whenever it is zero; the value returned is not checked against the      *)
(* message ids of the transactions in the table.                           *)
IssuedId(rnd) == IF nextMsgId = 0 THEN rnd ELSE nextMsgId

NextMsgIdAfter(rnd) == (IssuedId(rnd) + 1) % 65536

\* The state changes of issuing one id with random draw rnd, or none.
IdStep(issue, rnd) ==
    /\ nextMsgId' = IF issue THEN NextMsgIdAfter(rnd) ELSE nextMsgId
    /\ idsIssued' = IF issue THEN idsIssued + 1 ELSE idsIssued

CanIssueId == idsIssued < MaxIds

(* smcp_transaction_begin after smcp_transaction_init: fresh token and     *)
(* message id, cleared state, timer scheduled.  Without a resendCallback   *)
(* the owner sends the request itself right after beginning.               *)
Begun(r, t, id) ==
    [active |-> TRUE, mid |-> id, tok |-> id, waiting |-> FALSE, lastObs |-> 0,
     cb |-> TRUE, resend |-> HasResend[t], timer |-> TRUE, expired |-> FALSE,
     epoch |-> r.epoch + 1]

(* smcp_transaction_new_msg_id: an active transaction is taken out of the  *)
(* table, given msg_id and put back under it (the assert that no other    *)
(* transaction holds msg_id is all the collision check there is); an       *)
(* inactive one is left alone.  The token stays.                           *)
NewMsgId(r, id) == IF r.active THEN [r EXCEPT !.mid = id] ELSE r

OwnerSends(r) == IF r.resend THEN {} ELSE {[mid |-> r.mid, tok |-> r.tok]}

(* smcp_transaction_end and smcp_internal_delete_transaction_: remove from *)
(* the table, invalidate the timer, and fire the callback, if still set,   *)
(* with SMCP_STATUS_TRANSACTION_INVALIDATED.                               *)
\* Mutation: ending without invalidating the timer.
EndedKeepsTimer(r) == IF r.active THEN [r EXCEPT !.active = FALSE] ELSE r

Ended(r) == IF r.active THEN [r EXCEPT !.active = FALSE, !.timer = FALSE] ELSE r

EndedLog(r, l) ==
    IF r.active /\ r.cb
    THEN Append(l, [st |-> "Invalidated", seq |-> NoObs, mid |-> r.mid])
    ELSE l

(* The completion callback runs with status st.  What it does (act): return *)
(* OK, return an error, end its transaction, or end it and begin it again. *)
(* The result is <<record, log>> after it returns.                         *)
AfterCallback(r, l, t, st, seq, act, id) ==
    LET l1 == Append(l, [st |-> st, seq |-> seq, mid |-> r.mid])
    IN  CASE act = "End"     -> <<Ended(r), EndedLog(r, l1)>>
          [] act = "Restart" -> <<Begun(Ended(r), t, id), <<>>>>
          [] OTHER           -> <<r, l1>>

EndsItself(act) == act \in {"End", "Restart"}

\* A callback act together with whether it needs a fresh message id.
ActAllowed(t, act) == act = "Restart" => (tr[t].epoch < MaxEpoch /\ CanIssueId)

-----------------------------------------------------------------------------
Init ==
    /\ tr = [t \in Txn |-> [active |-> FALSE, mid |-> 0, tok |-> 0, waiting |-> FALSE,
                            lastObs |-> 0, cb |-> FALSE, resend |-> FALSE,
                            timer |-> FALSE, expired |-> FALSE, epoch |-> 0]]
    /\ nextMsgId = 0
    /\ sent = {}
    /\ cbLog = [t \in Txn |-> <<>>]
    /\ idsIssued = 0
    /\ msgsIn = 0

\* The owner initialises and begins an inactive transaction.
Begin(t) ==
    /\ ~tr[t].active
    /\ tr[t].epoch < MaxEpoch
    /\ CanIssueId
    /\ \E rnd \in RandomIds :
         LET r == Begun(tr[t], t, IssuedId(rnd))
         IN  /\ tr' = [tr EXCEPT ![t] = r]
             /\ sent' = sent \cup OwnerSends(r)
             /\ cbLog' = [cbLog EXCEPT ![t] = <<>>]
             /\ IdStep(TRUE, rnd)
    /\ UNCHANGED msgsIn

\* The owner ends an active transaction (smcp_transaction_end).
End(t) ==
    /\ tr[t].active
    /\ tr' = [tr EXCEPT ![t] = Ended(tr[t])]
    /\ cbLog' = [cbLog EXCEPT ![t] = EndedLog(tr[t], cbLog[t])]
    /\ UNCHANGED <<nextMsgId, sent, idsIssued, msgsIn>>

\* Time passes the transaction's expiration.
Expire(t) ==
    /\ tr[t].active
    /\ ~tr[t].expired
    /\ tr' = [tr EXCEPT ![t].expired = TRUE]
    /\ UNCHANGED <<nextMsgId, sent, cbLog, idsIssued, msgsIn>>

-----------------------------------------------------------------------------
(* What a handler step does to one transaction: its new record, its new    *)
(* callback log, and whether it issued a message id.                       *)
Outcome(r, l, issue) == [rec |-> r, log |-> l, issue |-> issue]

EndOutcome(r, l, issue) == Outcome(Ended(r), EndedLog(r, l), issue)

\* Apply outcome o of a step on t; a restart inside a callback sends anew.
Apply(t, o, rnd, resent) ==
    /\ tr' = [tr EXCEPT ![t] = o.rec]
    /\ cbLog' = [cbLog EXCEPT ![t] = o.log]
    /\ sent' = sent \cup resent
                \cup (IF o.rec.epoch > tr[t].epoch THEN OwnerSends(o.rec) ELSE {})
    /\ IdStep(o.issue, rnd)
    /\ o.issue => CanIssueId

TimeoutFinishIgnoresMarker(t, r, st, act, id, issue) ==
    LET r2    == IF "ALWAYS_INVALIDATE" \in Flags[t] THEN r ELSE [r EXCEPT !.cb = FALSE]
        after == IF r.cb THEN AfterCallback(r2, cbLog[t], t, st, NoObs, act, id)
                 ELSE <<r2, cbLog[t]>>
    IN  EndOutcome(after[1], after[2], issue \/ (r.cb /\ act = "Restart"))

(* The tail of smcp_internal_transaction_timeout_ for a status other than  *)
(* OK: clear the callback unless ALWAYS_INVALIDATE, call it, and end the   *)
(* transaction unless the callback has already ended it (the              *)
(* current_transaction marker no longer names it).                        *)
TimeoutFinish(t, r, st, act, id, issue) ==
    LET r2    == IF "ALWAYS_INVALIDATE" \in Flags[t] THEN r ELSE [r EXCEPT !.cb = FALSE]
        after == IF r.cb THEN AfterCallback(r2, cbLog[t], t, st, NoObs, act, id)
                 ELSE <<r2, cbLog[t]>>
    IN  IF r.cb /\ EndsItself(act)
        THEN Outcome(after[1], after[2], issue \/ act = "Restart")
        ELSE EndOutcome(after[1], after[2], issue)

\* Mutation: every expired transaction is restarted as if it observed.
TimeoutOutcomeAlwaysRenews(t, res, act, rnd) ==
    LET r       == [tr[t] EXCEPT !.timer = FALSE]
        status0 == IF r.waiting /\ "KEEPALIVE" \notin Flags[t] THEN "OK" ELSE "Timeout"
        status  == IF status0 = "Timeout" /\ r.resend
                   THEN (IF res = "FAILURE" THEN "Failure" ELSE "OK") ELSE status0
    IN  CASE ~r.expired /\ status = "OK" -> Outcome([r EXCEPT !.timer = TRUE], cbLog[t], FALSE)
          [] ~r.expired -> TimeoutFinish(t, [r EXCEPT !.timer = TRUE], status, act, IssuedId(rnd), FALSE)
          [] OTHER -> Outcome([r EXCEPT !.waiting = FALSE, !.lastObs = 0, !.mid = IssuedId(rnd),
                                        !.expired = FALSE, !.timer = TRUE], cbLog[t], TRUE)

(* smcp_internal_transaction_timeout_, run when t's timer fires.           *)
(*  - not yet expired: resend unless waiting for a separate response      *)
(*    (and not KEEPALIVE), then reschedule; a resend error, or a timeout  *)
(*    with no resendCallback, is reported to the callback and ends t;     *)
(*  - expired observation: restart it under a fresh message id;           *)
(*  - expired otherwise: report TIMEOUT and end t.                        *)
TimeoutOutcome(t, res, act, rnd) ==
    LET r       == [tr[t] EXCEPT !.timer = FALSE]
        id      == IssuedId(rnd)
        status0 == IF r.waiting /\ "KEEPALIVE" \notin Flags[t] THEN "OK" ELSE "Timeout"
        resends == status0 = "Timeout" /\ r.resend
        status  == IF resends THEN (IF res = "FAILURE" THEN "Failure" ELSE "OK")
                   ELSE status0
        rs      == [r EXCEPT !.timer = TRUE]
    IN  CASE ~r.expired /\ status = "OK" ->
                 Outcome(rs, cbLog[t], FALSE)
          [] ~r.expired ->
                 TimeoutFinish(t, rs, status, act, id, FALSE)
          [] "OBSERVE" \in Flags[t] ->
                 Outcome([NewMsgId(r, id) EXCEPT !.waiting = FALSE, !.lastObs = 0,
                                   !.expired = FALSE, !.timer = TRUE],
                         cbLog[t], TRUE)
          [] OTHER ->
                 TimeoutFinish(t, r, "Timeout", act, id, FALSE)

\* Whether the timeout handler's step calls t's resendCallback; the request
\* is on the wire only when the callback returns OK.
Resends(t) ==
    /\ ~tr[t].expired
    /\ tr[t].resend
    /\ ~(tr[t].waiting /\ "KEEPALIVE" \notin Flags[t])

TimerFire(t) ==
    /\ tr[t].timer
    /\ \E res \in ResendResults, act \in CallbackActs, rnd \in RandomIds :
         /\ ActAllowed(t, act)
         /\ Apply(t, TimeoutOutcome(t, res, act, rnd), rnd,
                  IF Resends(t) /\ res = "OK"
                  THEN {[mid |-> tr[t].mid, tok |-> tr[t].tok]} ELSE {})
    /\ UNCHANGED msgsIn

-----------------------------------------------------------------------------
(* smcp_handle_response: find the transaction by message id, else by a     *)
(* 2-byte token, the latter only if it waits for a separate response.     *)
(* smcp_transaction_find_via_token returns the first match in table order, *)
(* that is the one with the least message id.                             *)
ByMid(d) == {t \in Txn : tr[t].active /\ tr[t].mid = d.mid}

ByTok(d) == {t \in Txn : tr[t].active /\ tr[t].tok = d.tok}

FirstByTok(d) == {t \in ByTok(d) : \A u \in ByTok(d) : tr[t].mid <= tr[u].mid}

Handlers(d) ==
    IF ByMid(d) # {} THEN ByMid(d)
    ELSE IF d.tok = NoTok \/ ByTok(d) = {} THEN {NoTxn}
    ELSE {IF tr[h].waiting THEN h ELSE NoTxn : h \in FirstByTok(d)}

(* The observe freshness test of smcp_handle_response: a notification is   *)
(* skipped as older when its sequence number is not above the last one    *)
(* and more than 0x7FFFFF below it.                                        *)
IsOlderObservation(s, last) == s <= last /\ (last - s) > 8388607

\* Mutation: a reset is passed on as its raw code 0, which reads as
\* SMCP_STATUS_OK.
ResponseStatusRawReset(d) == IF d.tt = "RST" THEN "OK" ELSE "Content"

ResponseStatus(d) == IF d.tt = "RST" THEN "Reset" ELSE "Content"

(* A notification for an observation: skip it, ending t, if older;        *)
(* otherwise record its number, call the callback and, unless the callback *)
(* ended t, wait for the next one with a renewed expiration; a callback   *)
(* error ends t.                                                           *)
ObserveOutcome(h, d, act, id) ==
    LET r     == [tr[h] EXCEPT !.lastObs = d.obs]
        after == AfterCallback(r, cbLog[h], h, ResponseStatus(d), d.obs, act, id)
        r2    == [after[1] EXCEPT !.waiting = TRUE, !.timer = TRUE, !.expired = FALSE]
    IN  CASE IsOlderObservation(d.obs, tr[h].lastObs) ->
                 EndOutcome(tr[h], cbLog[h], FALSE)
          [] EndsItself(act) -> Outcome(after[1], after[2], act = "Restart")
          [] act = "Error"   -> EndOutcome(r2, after[2], FALSE)
          [] OTHER           -> Outcome(r2, after[2], FALSE)

(* A response that is not a notification: clear the callback of a plain   *)
(* transaction and call it; then, unless the callback ended t, request the *)
(* next block (ALWAYS_INVALIDATE and the block2 more bit), end t if it is  *)
(* not an observation, or else renew its expiration; an error ends t.     *)
ResultOutcome(h, d, act, id) ==
    LET fl    == Flags[h]
        r     == IF {"ALWAYS_INVALIDATE", "OBSERVE"} \cap fl = {}
                 THEN [tr[h] EXCEPT !.cb = FALSE] ELSE tr[h]
        after == AfterCallback(r, cbLog[h], h, ResponseStatus(d), NoObs, act, id)
        r2    == [after[1] EXCEPT !.waiting = FALSE]
    IN  CASE EndsItself(act) -> Outcome(after[1], after[2], act = "Restart")
          [] act # "Error" /\ d.more /\ "ALWAYS_INVALIDATE" \in fl ->
                 Outcome([NewMsgId(r2, id) EXCEPT !.timer = TRUE], after[2], TRUE)
          [] "OBSERVE" \notin fl ->
                 EndOutcome([r2 EXCEPT !.resend = FALSE], after[2], FALSE)
          [] act = "Error" -> EndOutcome(r2, after[2], FALSE)
          [] OTHER -> Outcome([r2 EXCEPT !.timer = TRUE, !.expired = FALSE], after[2], FALSE)

ResponseOutcome(h, d, auth, act, id) ==
    CASE d.tt \in {"ACK", "NON"} /\ d.code = 0 ->
             Outcome([tr[h] EXCEPT !.waiting = TRUE], cbLog[h], FALSE)
      [] ~tr[h].cb          -> Outcome(tr[h], cbLog[h], FALSE)
      [] auth = "FAILURE"   -> EndOutcome(tr[h], cbLog[h], FALSE)
      [] "OBSERVE" \in Flags[h] /\ d.obs # NoObs -> ObserveOutcome(h, d, act, id)
      [] OTHER              -> ResultOutcome(h, d, act, id)

\* A datagram answering a sent request arrives and is handled.
Receive ==
    /\ msgsIn < MaxIn
    /\ \E q \in sent, auth \in AuthResults, act \in CallbackActs, rnd \in RandomIds :
       \E d \in ResponsesTo(q) : \E h \in Handlers(d) :
         IF h = NoTxn
         THEN UNCHANGED <<tr, cbLog, sent, nextMsgId, idsIssued>>
         ELSE /\ ActAllowed(h, act)
              /\ Apply(h, ResponseOutcome(h, d, auth, act, IssuedId(rnd)), rnd, {})
    /\ msgsIn' = msgsIn + 1

-----------------------------------------------------------------------------
Next ==
    \/ \E t \in Txn : Begin(t) \/ End(t) \/ Expire(t) \/ TimerFire(t)
    \/ Receive

Spec == Init /\ [][Next]_vars

\* The event loop (smcp_process) keeps handling due timers, and time keeps
\* passing; the owner and the network get no fairness.
FairSpec == Spec /\ \A t \in Txn : WF_vars(TimerFire(t)) /\ WF_vars(Expire(t))

-----------------------------------------------------------------------------
(***************************************************************************)
(* Properties                                                              *)
(***************************************************************************)
TypeOK ==
    /\ tr \in [Txn -> TxnRec]
    /\ nextMsgId \in MsgId
    /\ sent \subseteq Request
    /\ cbLog \in [Txn -> Seq(LogEntry)]
    /\ idsIssued \in 0..MaxIds
    /\ msgsIn \in 0..MaxIn

\* A transaction's timer is pending exactly while the transaction is in the
\* table: ending it (smcp_transaction_end, smcp_internal_delete_transaction_)
\* invalidates the timer before anything else can fire it, and every path of
\* the timeout and response handlers that keeps a transaction reschedules it,
\* so no live transaction is left without a retry or a timeout.
TimerMatchesTable == \A t \in Txn : tr[t].timer <=> tr[t].active

\* A plain transaction (neither OBSERVE nor ALWAYS_INVALIDATE).
Plain(t) == Flags[t] \cap {"OBSERVE", "ALWAYS_INVALIDATE"} = {}

RestartInCallbackSurvives ==
    [][\A t \in Txn : tr'[t].epoch > tr[t].epoch => tr'[t].active]_vars

\* Every transaction that is not an observation eventually leaves the table,
\* answered, failed or timed out, provided timers keep being serviced and
\* time keeps passing.
NonObservationTerminates ==
    \A t \in Txn : "OBSERVE" \notin Flags[t] => (tr[t].active ~> ~tr[t].active)

\* The spec (section 4.3): an out-of-date notification is swallowed silently.
\* So a received datagram ends an observation only after the observation's
\* callback has been given that datagram.
ObservationEndsOnlyViaCallback ==
    [][\A t \in Txn :
         ("OBSERVE" \in Flags[t] /\ msgsIn' = msgsIn + 1
          /\ tr[t].active /\ ~tr'[t].active /\ tr'[t].epoch = tr[t].epoch)
         => /\ Len(cbLog'[t]) > Len(cbLog[t])
            /\ cbLog'[t][Len(cbLog[t]) + 1].st # "Invalidated"]_vars
=============================================================================
