------------------------------ MODULE SmcpInbound ------------------------------
(***************************************************************************)
(* The inbound dispatcher of the SMCP engine (smcp_handle_inbound_packet,  *)
(* src/src/smcp/smcp.c) with its duplicate detection: the fasthash of      *)
(* (peer address, code, message id), the linear scan of the dupe ring, the *)
(* dispatch to the request or response handler, the insertion into the     *)
(* ring, and the automatic ACK, result or RST for a confirmable message.   *)
(*                                                                         *)
(* The fasthash state is a static of the program and is modelled bit for   *)
(* bit: a 32-bit value is a pair <<hi, lo>> of 16-bit halves.  What a      *)
(* request or response handler does is an input (its status and whether  *)
(* it sent a reply itself); SmcpTransactions models the response handler.  *)
(* The asynchronous response support (smcp_start_async_response,          *)
(* smcp_outbound_set_async_response, smcp_finish_async_response) is        *)
(* modelled with it: the snapshot taken by a request handler and the      *)
(* deferred response sent from it later, inside or outside a dispatch.     *)
(***************************************************************************)
EXTENDS Integers, Sequences, Bitwise

CONSTANTS
    Peers,          \* peer addresses
    PeerBytes,      \* [Peers -> Seq(0..255)]: the bytes of the peer's sockaddr
    TTs,            \* transaction types the peers send
    Codes,          \* message codes the peers send
    Mids,           \* message ids the peers send
    RequestResults, \* outcomes of smcp_handle_request
    ResponseResults,\* outcomes of smcp_handle_response
    RingSize,       \* SMCP_CONF_DUPE_BUFFER_SIZE
    MaxIn,          \* bound: datagrams received in a behaviour
    AsyncFlags,     \* flags a handler passes to smcp_start_async_response
    SnapshotFits,   \* whether the request header fits struct smcp_async_response_s
    SendResults,    \* outcomes of smcp_outbound_send for the async empty ACK
    MaxPending,     \* bound: async snapshots the handlers hold at once
    AnswerInDispatch \* {FALSE} or {FALSE, TRUE}: whether a handler may complete
                     \* a deferred response while dispatching another request

\* CoAP codes: the empty message, the request methods, and a 2.05 result.
EMPTY == 0
GET == 1
POST == 2
PUT == 3
DELETE == 4

IsRequest(c) == c \in 1..31
IsResult(c) == c >= 64

Datagram == [peer : Peers, tt : TTs, code : Codes, mid : Mids]

ASSUME /\ TTs \subseteq {"CON", "NON", "ACK", "RST"}
       /\ Codes \subseteq 0..255 /\ Mids \subseteq 0..65535
       /\ RingSize \in Nat \ {0} /\ MaxIn \in Nat

-----------------------------------------------------------------------------
(* 32-bit words as <<hi, lo>>.                                             *)
Half == 2^16
Word(x) == <<x \div Half, x % Half>>
Zero == <<0, 0>>
\* Xor and or of 16-bit halves, nibble by nibble from tables built once
\* from the Bitwise operators.
Nibbles == 0 .. 15
XorNibble == [a \in Nibbles, b \in Nibbles |-> a ^^ b]
OrNibble == [a \in Nibbles, b \in Nibbles |-> a | b]
HalfOp(tab, x, y) ==
    LET nib(v, k) == (v \div 16^k) % 16
    IN  tab[nib(x, 0), nib(y, 0)] + 16 * tab[nib(x, 1), nib(y, 1)]
          + 256 * tab[nib(x, 2), nib(y, 2)] + 4096 * tab[nib(x, 3), nib(y, 3)]
WXor(a, b) == <<HalfOp(XorNibble, a[1], b[1]), HalfOp(XorNibble, a[2], b[2])>>
WOr(a, b) == <<HalfOp(OrNibble, a[1], b[1]), HalfOp(OrNibble, a[2], b[2])>>
WAdd(a, b) ==
    LET lo == a[2] + b[2] IN <<(a[1] + b[1] + lo \div Half) % Half, lo % Half>>

\* h * 1664525 (= 25 * 2^16 + 26125) modulo 2^32.
TimesLcg(h) ==
    LET lo == h[2] * 26125
    IN  <<(h[1] * 26125 + h[2] * 25 + lo \div Half) % Half, lo % Half>>

\* data << (8 * lane) as a 32-bit pattern.
Lane(data, lane) ==
    CASE lane = 0 -> <<0, data>>
      [] lane = 1 -> <<0, data * 256>>
      [] lane = 2 -> <<data, 0>>
      [] lane = 3 -> <<data * 256, 0>>

(* global_fasthash_state and its operations.                              *)
\* fasthash_feed_block
FeedBlock(st, blk) ==
    [st EXCEPT !.hash = WAdd(TimesLcg(WXor(st.hash, WXor(blk, Word(st.bytes \div 4)))),
                             <<15470, 62303>>)]

\* fasthash_feed_byte
FeedByte(st, data) ==
    LET st1 == [st EXCEPT !.next = WOr(st.next, Lane(data, st.bytes % 4)),
                          !.bytes = st.bytes + 1]
    IN  IF st1.bytes % 4 = 0
        THEN [FeedBlock(st1, st1.next) EXCEPT !.next = Zero]
        ELSE st1

\* fasthash_feed: one fasthash_feed_byte per byte, in order.  (The state
\* after each byte is bound as a value by the set map, so that TLC does not
\* evaluate a chain of 31 pending FeedByte applications at once.)
RECURSIVE Feed(_, _)
Feed(st, s) ==
    IF s = <<>> THEN st
    ELSE CHOOSE r \in {Feed(st1, Tail(s)) : st1 \in {FeedByte(st, Head(s))}} : TRUE

\* fasthash_start: memset(&state, sizeof(state), 0) sets zero bytes, so the
\* state of the previous datagram is kept; then the salt is fed.
Start(st, salt) == FeedBlock(st, salt)

\* fasthash_finish_uint32: the pending bytes are fed, bytes is reset and
\* next is left as it is.
Finish(st) == IF st.bytes % 4 # 0 THEN [FeedBlock(st, st.next) EXCEPT !.bytes = 0] ELSE st

\* The bytes hashed for a datagram: the sockaddr, the code and the message
\* id as it lies in the header (network order).
HashedBytes(d) == PeerBytes[d.peer] \o <<d.code, d.mid \div 256, d.mid % 256>>

HashOf(st, d) == Finish(Feed(Start(st, Zero), HashedBytes(d)))

-----------------------------------------------------------------------------
(* Status codes (smcp_status_t) and their conversion to CoAP result codes *)
(* (smcp_convert_status_to_result_code).  A code is class * 32 + detail.   *)
Statuses == {"OK", "DUPE", "NOT_FOUND", "NOT_ALLOWED", "BAD_OPTION", "NOT_IMPLEMENTED", "FAILURE"}

ConvertStatus(s) ==
    CASE s = "OK"              -> 64    \* 2.00
      [] s = "NOT_FOUND"       -> 132   \* 4.04
      [] s = "NOT_ALLOWED"     -> 133   \* 4.05
      [] s = "BAD_OPTION"      -> 130   \* 4.02
      [] s = "NOT_IMPLEMENTED" -> 161   \* 5.01
      [] OTHER                 -> 160   \* 5.00

VARIABLES
    hs,         \* global_fasthash_state
    ring,       \* self->dupe[i].hash
    dupeIndex,  \* self->dupe_index
    pending,    \* async snapshots (struct smcp_async_response_s) held by handlers,
                \* each with the log index of its exchange (a history field)
    log,        \* history: one record per datagram handled
    answered    \* history: the snapshots answered by a deferred response

vars == <<hs, ring, dupeIndex, pending, log, answered>>

(* What a request handler did, as smcp_handle_inbound_packet sees it      *)
(* afterwards: its status, the reply it sent for its own exchange, and the *)
(* shared inbound/outbound state it left: inbound.is_fake,                 *)
(* inbound.packet->code, did_respond, and whether the last packet sent was *)
(* an empty ACK.  keep: the handler holds an async snapshot of the request.*)
\* flag: the flags the handler passed to smcp_start_async_response, if any.
Outcome(ret, sent, fake, code, respond, emptyAck, keep, answer) ==
    [ret |-> ret, sent |-> sent, fake |-> fake, code |-> code, respond |-> respond,
     emptyAck |-> emptyAck, keep |-> keep, answer |-> answer, flag |-> "none"]

NoAnswer == 0

\* A handler that answers (or not) by itself: a piggy-backed result or nothing.
PlainOutcomes(d) ==
    {Outcome(r, s, FALSE, d.code, s # "None", FALSE, FALSE, NoAnswer) :
        r \in RequestResults, s \in {"None", "Content"}}

\* Mutation: the error of the empty ACK's send is not returned (the
\* require_noerr after smcp_outbound_send dropped).
StartAsyncResponseIgnoresSendError(d, dupe, flag, fits, send) ==
    LET ack  == flag = "ACK"
        ret  == CASE ~fits -> "FAILURE" [] dupe -> "DUPE" [] OTHER -> "OK"
        sent == fits /\ ack /\ send = "OK"
    IN  [Outcome(ret, IF sent THEN "EmptyAck" ELSE "None", FALSE, d.code, sent,
                 sent /\ d.tt = "CON", ret = "OK", NoAnswer) EXCEPT !.flag = flag]

(* smcp_start_async_response(x, flags) on the datagram being dispatched    *)
(* (never fake here): a request header too big for the snapshot fails;     *)
(* otherwise it is copied, and without DONT_ACK an empty ACK is composed   *)
(* and sent, a failed send returning its error; a duplicate then returns   *)
(* SMCP_STATUS_DUPE.  The handler returns that status and keeps the        *)
(* snapshot when it is OK.                                                 *)
StartAsyncResponse(d, dupe, flag, fits, send) ==
    LET ack  == flag = "ACK"
        ret  == CASE ~fits              -> "FAILURE"
                  [] ack /\ send # "OK" -> send
                  [] dupe               -> "DUPE"
                  [] OTHER              -> "OK"
        sent == fits /\ ack /\ send = "OK"
    IN  [Outcome(ret, IF sent THEN "EmptyAck" ELSE "None", FALSE, d.code, sent,
                 sent /\ d.tt = "CON", ret = "OK", NoAnswer) EXCEPT !.flag = flag]

AsyncOutcomes(d, dupe) ==
    {StartAsyncResponse(d, dupe, f, z, s) : f \in AsyncFlags, z \in SnapshotFits, s \in SendResults}

(* The handler completes the deferred response of snapshot i first:       *)
(* smcp_outbound_set_async_response points inbound.packet at the snapshot, *)
(* sets inbound.is_fake and clears did_respond; the response is sent, with *)
(* the snapshot's type and a result code; the handler then returns r.     *)
AnsweredInDispatch(i, r) ==
    Outcome(r, "None", TRUE, pending[i].d.code, TRUE, FALSE, FALSE, i)

RequestOutcomes(d, dupe) ==
    PlainOutcomes(d)
      \cup (IF Len(pending) < MaxPending THEN AsyncOutcomes(d, dupe) ELSE {})
      \cup (IF TRUE \in AnswerInDispatch
            THEN {AnsweredInDispatch(i, r) : i \in DOMAIN pending, r \in RequestResults}
            ELSE {})

\* smcp_handle_response sends a RST only for a CON or NON result that
\* matches no transaction.
ResponseOutcomes(d) ==
    {Outcome(r, "None", FALSE, d.code, FALSE, FALSE, FALSE, NoAnswer) : r \in ResponseResults}
      \cup (IF d.tt \in {"CON", "NON"}
            THEN {Outcome("OK", "Rst", FALSE, d.code, TRUE, FALSE, FALSE, NoAnswer)} ELSE {})

Outcomes(d, dupe) ==
    CASE IsRequest(d.code) -> RequestOutcomes(d, dupe)
      [] IsResult(d.code)  -> ResponseOutcomes(d)
      [] OTHER             -> {Outcome("OK", "None", FALSE, d.code, FALSE, FALSE, FALSE, NoAnswer)}

ASSUME /\ RequestResults \cup ResponseResults \subseteq Statuses
       /\ AsyncFlags \subseteq {"ACK", "DONT_ACK"} /\ SnapshotFits \subseteq BOOLEAN
       /\ SendResults \subseteq Statuses /\ AnswerInDispatch \subseteq BOOLEAN

NoReply == [tt |-> "none", code |-> 0]

Slots == 0 .. RingSize - 1

Init ==
    /\ hs = [hash |-> Zero, bytes |-> 0, next |-> Zero]
    /\ ring = [i \in Slots |-> Zero]
    /\ dupeIndex = 0
    /\ pending = <<>>
    /\ log = <<>>
    /\ answered = <<>>

\* The while(i--) scan of the dupe ring.
IsDupe(h) == \E i \in Slots : ring[i] = h

\* Mutation: a GET answered with its content is recorded as well.
RecordedAnyGet(d, o, dupe) == o.ret = "OK" /\ ~o.fake /\ ~dupe

(* The condition for adding the exchange to the ring (lines 639-650), on   *)
(* the state the handler left: is_fake, inbound.packet->code, did_respond  *)
(* and the outbound packet.                                                *)
Recorded(d, o, dupe) ==
    /\ o.ret = "OK"
    /\ ~o.fake
    /\ ~dupe
    /\ o.code # GET \/ (o.respond /\ o.emptyAck)

\* Mutation: dupe_index is advanced without the modulo.
RecordNoWrap(h) ==
    /\ ring' = [ring EXCEPT ![dupeIndex] = h]
    /\ dupeIndex' = dupeIndex + 1

\* Writing the hash at dupe_index and advancing it modulo the ring size.
Record(h) ==
    /\ ring' = [ring EXCEPT ![dupeIndex] = h]
    /\ dupeIndex' = (dupeIndex + 1) % RingSize

\* The result code of the automatic reply to a request (lines 659-670).
AutoResultCode(d, ret, dupe) ==
    LET rc == ConvertStatus(ret)
        r  == IF dupe THEN "OK" ELSE ret
    IN  IF r # "OK" THEN rc
        ELSE CASE d.code = GET                   -> 69   \* 2.05
               [] d.code \in {POST, PUT}          -> 68   \* 2.04
               [] d.code = DELETE                 -> 66   \* 2.02
               [] OTHER                           -> rc

(* The automatic reply when did_respond is still false for a CON datagram  *)
(* (lines 656-680); the local packet, not inbound.packet, is tested.       *)
AutoReply(d, o, dupe) ==
    IF o.respond \/ d.tt # "CON" THEN NoReply
    ELSE IF IsRequest(d.code) THEN [tt |-> "reply", code |-> AutoResultCode(d, o.ret, dupe)]
    ELSE [tt |-> IF o.ret # "OK" /\ ~dupe THEN "RST" ELSE "ACK", code |-> EMPTY]

\* The hash is computed and the ring scanned before the version check
\* (lines 531-555), so every datagram that passed coap_verify_packet moves
\* the hash state.
Entry(d, st, valid, o, auto) ==
    [d |-> d, valid |-> valid, hash |-> st.hash, dupe |-> IsDupe(st.hash),
     ret |-> o.ret, sent |-> o.sent, fake |-> o.fake, flag |-> o.flag,
     deferred |-> o.keep, auto |-> auto]

\* The snapshots after dispatch: the one answered is released, a kept one added.
PendingAfter(d, o) ==
    LET rest == IF o.answer = NoAnswer THEN pending
                ELSE SubSeq(pending, 1, o.answer - 1) \o SubSeq(pending, o.answer + 1, Len(pending))
    IN  IF o.keep THEN Append(rest, [d |-> d, k |-> Len(log) + 1]) ELSE rest

(* smcp_handle_inbound_packet for a datagram of the right version: hash,   *)
(* scan, dispatch, record in the ring, automatic reply.                    *)
Receive ==
    /\ Len(log) < MaxIn
    /\ \E d \in Datagram :
        LET st   == HashOf(hs, d)
            dupe == IsDupe(st.hash)
        IN  /\ hs' = st
            /\ \E o \in Outcomes(d, dupe) :
                /\ IF Recorded(d, o, dupe) THEN Record(st.hash)
                                           ELSE UNCHANGED <<ring, dupeIndex>>
                /\ pending' = PendingAfter(d, o)
                /\ answered' = IF o.answer = NoAnswer THEN answered
                               ELSE Append(answered, pending[o.answer])
                /\ log' = Append(log, Entry(d, st, TRUE, o, AutoReply(d, o, dupe)))

\* A datagram rejected after hashing: a version other than COAP_VERSION
\* (line 555), a CON sent to a multicast address (563), or options that do
\* not end at the packet's end or a payload marker (614).  The hash state
\* has moved; the handler bails out with SMCP_STATUS_FAILURE, no reply.
ReceiveRejected ==
    /\ Len(log) < MaxIn
    /\ \E d \in Datagram :
        LET st == HashOf(hs, d) IN
        /\ hs' = st
        /\ UNCHANGED <<ring, dupeIndex, pending, answered>>
        /\ log' = Append(log, Entry(d, st, FALSE,
                    Outcome("FAILURE", "None", FALSE, d.code, FALSE, FALSE, FALSE, NoAnswer), NoReply))

(* A deferred response outside any dispatch (from a timer or the main      *)
(* loop): smcp_outbound_set_async_response on the snapshot, the response   *)
(* sent, smcp_finish_async_response.  The inbound state it leaves is reset *)
(* by the next smcp_handle_inbound_packet.                                 *)
AsyncRespond ==
    /\ \E i \in DOMAIN pending :
        /\ answered' = Append(answered, pending[i])
        /\ pending' = SubSeq(pending, 1, i - 1) \o SubSeq(pending, i + 1, Len(pending))
    /\ UNCHANGED <<hs, ring, dupeIndex, log>>

Next == Receive \/ ReceiveRejected \/ AsyncRespond

Spec == Init /\ [][Next]_vars

-----------------------------------------------------------------------------
Word32 == (0 .. Half - 1) \X (0 .. Half - 1)
Reply == [tt : {"none", "reply", "ACK", "RST"}, code : 0 .. 255]

TypeOK ==
    /\ hs \in [hash : Word32, bytes : Nat, next : Word32]
    /\ ring \in [Slots -> Word32]
    /\ dupeIndex \in Slots
    /\ pending \in Seq([d : Datagram, k : Nat]) /\ Len(pending) <= MaxPending
    /\ log \in Seq([d : Datagram, valid : BOOLEAN, hash : Word32, dupe : BOOLEAN,
                    ret : Statuses, sent : {"None", "Content", "EmptyAck", "Rst"},
                    fake : BOOLEAN, flag : {"none", "ACK", "DONT_ACK"},
                    deferred : BOOLEAN, auto : Reply])
    /\ answered \in Seq([d : Datagram, k : Nat])

\* An exchange the server has completed: a valid, non-duplicate datagram
\* whose handling succeeded, and for a GET, one whose answer is still to
\* come, acknowledged empty by an async start (the spec's "GET to an
\* unresolvable path leaves the ring unaffected").
Completed(e) ==
    /\ e.valid /\ e.ret = "OK" /\ ~e.dupe /\ ~e.fake
    /\ e.d.code # GET \/ (e.sent = "EmptyAck" /\ e.d.tt = "CON")

CompletedLog == SelectSeq(log, Completed)

(* The dupe ring of smcp_handle_inbound_packet always holds the hashes of  *)
(* the last SMCP_CONF_DUPE_BUFFER_SIZE completed exchanges, the newest at   *)
(* dupe_index - 1 and older ones behind it, and zero in the slots never     *)
(* written: the ring is a sliding window of the exchange history.          *)
RingIsRecentWindow ==
    LET n == Len(CompletedLog) IN
    \A k \in Slots :
        ring[(dupeIndex - 1 - k) % RingSize] =
            IF k < n THEN CompletedLog[n - k].hash ELSE Zero

(* Every valid confirmable datagram is answered exactly once: either by the *)
(* handler (a piggy-backed result, the empty ACK of smcp_start_async_      *)
(* response, or the RST for an unknown response) or by the automatic ACK,  *)
(* result or RST of lines 656-680, which did_respond suppresses; a NON,    *)
(* ACK or RST message never draws the automatic reply.  A deferred        *)
(* response is the answer to an earlier exchange, not to this one.         *)
ConfirmableAnsweredOnce ==
    \A k \in 1 .. Len(log) :
        LET e == log[k]
            replies == (IF e.sent # "None" THEN 1 ELSE 0) + (IF e.auto # NoReply THEN 1 ELSE 0)
        IN  /\ e.valid /\ e.d.tt = "CON" => replies = 1
            /\ e.d.tt # "CON" => e.auto = NoReply

(* Every valid, non-duplicate confirmable request gets exactly one final   *)
(* answer: a piggy-backed result or the automatic result of lines 656-680  *)
(* in its own exchange, or, when its handler deferred it behind the empty  *)
(* ACK of smcp_start_async_response, one deferred response later and      *)
(* nothing final now; a request whose deferred answer is still pending has *)
(* at most that one to come.  If the empty ACK fails to send (line 1603),  *)
(* the error must reach the automatic reply and no snapshot may be kept.   *)
(* Requests whose handler passed DONT_ACK are left out (see README).       *)
OneFinalAnswer ==
    \A k \in 1 .. Len(log) :
        LET e       == log[k]
            now     == (IF e.sent = "Content" THEN 1 ELSE 0)
                         + (IF e.auto.tt = "reply" THEN 1 ELSE 0)
            later   == Len(SelectSeq(answered, LAMBDA a : a.k = k))
            waiting == \E i \in DOMAIN pending : pending[i].k = k
        IN  /\ e.valid /\ e.d.tt = "CON" /\ IsRequest(e.d.code)
            /\ ~e.dupe /\ e.flag # "DONT_ACK"
            => /\ now + later + (IF waiting THEN 1 ELSE 0) = 1
               /\ e.sent = "EmptyAck" <=> waiting \/ later = 1

(* The spec's dedup test: a datagram that repeats the (peer, code, message  *)
(* id) of an exchange still in the ring is marked a duplicate.              *)
DedupDetectsRetransmission ==
    \A i, j \in 1 .. Len(log) :
        /\ i < j
        /\ Completed(log[i])
        /\ log[j].d = log[i].d
        /\ Len(SelectSeq(SubSeq(log, i + 1, j - 1), Completed)) < RingSize
        => log[j].dupe
=============================================================================
