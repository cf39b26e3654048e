------------------------------ MODULE SmcpBackoff ------------------------------
(***************************************************************************)
(* The retransmission timing of one transaction (src/src/smcp/smcp.c):     *)
(* calc_retransmit_timeout with the C int arithmetic the build performs,   *)
(* and the timer loop it drives: smcp_transaction_begin schedules the      *)
(* first attempt, and every run of smcp_internal_transaction_timeout_      *)
(* resends, renews an expired observation, or times the transaction out.   *)
(* Time is an integer count of milliseconds; a timer fires when the clock  *)
(* reaches its fire date (at once if the fire date is already past).      *)
(***************************************************************************)
EXTENDS Integers

CONSTANTS
    Rtt,                \* smcp_rtt = COAP_RESPONSE_TIMEOUT (ms)
    Jitters,            \* values of SMCP_FUNC_RANDOM_UINT32() % 300 that may occur
    StartDelays,        \* first-attempt delays: {0}, or 10 + rand % 290 under DELAY_START
    Expiration,         \* the expiration given to smcp_transaction_begin (ms)
    ObserveModes,       \* whether the transaction has SMCP_TRANSACTION_OBSERVE: a subset of BOOLEAN
    KeepAlive,          \* SMCP_TRANSACTION_KEEPALIVE
    KeepAliveInterval,  \* SMCP_OBSERVATION_KEEPALIVE_INTERVAL (ms)
    DefaultMaxAge,      \* SMCP_OBSERVATION_DEFAULT_MAX_AGE (ms)
    NonConfirmable,     \* whether the resendCallback sends NON requests: a subset of BOOLEAN
    ResendResults,      \* what the resendCallback may return
    MaxTime             \* bound: the clock stops being explored here

ASSUME /\ Rtt \in 1..65535
       /\ Jitters \subseteq 0..299
       /\ StartDelays \subseteq 0..299
       /\ Expiration \in 0..(2^30)
       /\ ObserveModes \subseteq BOOLEAN /\ KeepAlive \in BOOLEAN
       /\ NonConfirmable \subseteq BOOLEAN
       /\ KeepAliveInterval \in 1..(2^30) /\ DefaultMaxAge \in 1..(2^30)
       /\ ResendResults \subseteq {"OK", "WAIT_FOR_DNS", "FAILURE"}
       /\ MaxTime \in 1..(2^30)

-----------------------------------------------------------------------------
(* A C int is held as two 16-bit halves <<hi, lo>> of its 32-bit pattern,  *)
(* so that every intermediate value stays inside TLC's integers.           *)
Half == 2^16

FromNat(x) == <<x \div Half, x % Half>>

\* ret << k, for 0 <= k <= 31: the bits shifted out of the word are lost.
ShiftLeft(w, k) ==
    IF k >= 16
    THEN <<(w[2] * 2^(k - 16)) % Half, 0>>
    ELSE LET lo == w[2] * 2^k
         IN  <<(w[1] * 2^k + lo \div Half) % Half, lo % Half>>

\* ret * f for 0 <= f < 2^15, keeping the low 32 bits of the product.
Times(w, f) ==
    LET lo == w[2] * f
    IN  <<(w[1] * f + lo \div Half) % Half, lo % Half>>

\* The two's complement value of the bit pattern.
Signed(w) == IF w[1] >= 2^15 THEN (w[1] - Half) * Half + w[2] ELSE w[1] * Half + w[2]

\* C division rounds toward zero.
CQuot(a, b) == IF a >= 0 THEN a \div b ELSE (a + b - 1) \div b

(* calc_retransmit_timeout(retries_): smcp_rtt shifted left by the attempt *)
(* count, times (1000 - 150) + rand % 300, divided by 1000, capped at 5000 *)
(* from above only.  Signed overflow is undefined in C; the build wraps.   *)
RetransmitTimeout(n, j) ==
    LET v == CQuot(Signed(Times(ShiftLeft(FromNat(Rtt), n), 850 + j)), 1000)
    IN  IF v > 5000 THEN 5000 ELSE v

\* The keep-alive cap applied to every scheduled delay of a KEEPALIVE transaction.
Capped(cms) == IF KeepAlive /\ cms > KeepAliveInterval THEN KeepAliveInterval ELSE cms

Min(a, b) == IF a <= b THEN a ELSE b

\* The fixed re-check delay after the resendCallback returns WAIT_FOR_DNS.
DnsRecheck == 100

-----------------------------------------------------------------------------
VARIABLES
    now,        \* the wall clock (ms)
    expiresAt,  \* handler->expiration (absolute ms)
    wake,       \* the fire date of handler->timer
    scheduled,  \* handler->timer is scheduled
    attempt,    \* handler->attemptCount
    waiting,    \* handler->waiting_for_async_response
    non,        \* the request is non-confirmable (outbound.packet->tt)
    outcome,    \* "running", or the status the callback was ended with
    observe,    \* handler->flags & SMCP_TRANSACTION_OBSERVE
    resends     \* history: resendCallback calls since the begin or the last renewal

vars == <<now, expiresAt, wake, scheduled, attempt, waiting, non, outcome, observe, resends>>

\* smcp_transaction_begin with a resendCallback: the first attempt is due
\* at once, or after a short random delay under DELAY_START.
Init ==
    /\ now = 0
    /\ expiresAt = Expiration
    /\ wake \in {Capped(d) : d \in StartDelays}
    /\ scheduled = TRUE
    /\ attempt = 0
    /\ waiting = FALSE
    /\ non \in NonConfirmable
    /\ outcome = "running"
    /\ observe \in ObserveModes
    /\ resends = 0

\* Schedule the timer cms milliseconds from t.
Schedule(t, cms) == wake' = t + cms /\ scheduled' = TRUE

\* Whether a successful resend backs off: always for CON, for NON only on
\* the first two attempts (and never after another result).
\* Mutation: the attempt counter also advances after WAIT_FOR_DNS.
BacksOnAnyResult(res) == res # "FAILURE" /\ (~non \/ attempt < 2)

Backs(res) == res = "OK" /\ (~non \/ attempt < 2)

\* Mutation: the back-off is used without the MIN against the time left.
RetryDelayNoMin(t, res, j) ==
    CASE waiting /\ ~KeepAlive   -> Capped(expiresAt - t)
      [] res = "WAIT_FOR_DNS"    -> DnsRecheck
      [] Backs(res)              -> RetransmitTimeout(attempt, j)
      [] OTHER                   -> Capped(expiresAt - t)

\* Mutation: WAIT_FOR_DNS re-checks at once.
RetryDelayDnsAtOnce(t, res, j) ==
    CASE waiting /\ ~KeepAlive   -> Capped(expiresAt - t)
      [] res = "WAIT_FOR_DNS"    -> 0
      [] Backs(res)              -> Min(Capped(expiresAt - t), RetransmitTimeout(attempt, j))
      [] OTHER                   -> Capped(expiresAt - t)

(* The delay the handler schedules while the expiration is ahead: the time *)
(* left (capped to the keep-alive interval); after a successful resend the *)
(* MIN of that and the back-off; after WAIT_FOR_DNS a fixed re-check.      *)
RetryDelay(t, res, j) ==
    CASE waiting /\ ~KeepAlive   -> Capped(expiresAt - t)
      [] res = "WAIT_FOR_DNS"    -> DnsRecheck
      [] Backs(res)              -> Min(Capped(expiresAt - t), RetransmitTimeout(attempt, j))
      [] OTHER                   -> Capped(expiresAt - t)

(* The resend branch of smcp_internal_transaction_timeout_ while the       *)
(* expiration is still ahead: resend unless waiting for a separate         *)
(* response (and not KEEPALIVE), count the attempt if it backs off, and    *)
(* reschedule; a resend error is reported to the callback and ends it.     *)
ResendStep(t, res, j) ==
    LET resend == ~(waiting /\ ~KeepAlive)
    IN  /\ attempt' = IF resend /\ Backs(res) THEN attempt + 1 ELSE attempt
        /\ IF resend /\ res = "FAILURE"
           THEN outcome' = "Failure" /\ scheduled' = FALSE /\ UNCHANGED wake
           ELSE Schedule(t, RetryDelay(t, res, j)) /\ UNCHANGED outcome
        /\ resends' = IF resend THEN resends + 1 ELSE resends
        /\ UNCHANGED <<expiresAt, waiting, non, observe>>

\* Mutation: the renewal keeps the old attempt count.
ExpiredStepKeepsAttempt(t) ==
    IF observe
    THEN /\ expiresAt' = t + DefaultMaxAge
         /\ waiting' = FALSE
         /\ resends' = 0
         /\ \E d \in StartDelays : Schedule(t, Capped(d))
         /\ UNCHANGED <<attempt, non, outcome, observe>>
    ELSE /\ outcome' = "Timeout"
         /\ scheduled' = FALSE
         /\ UNCHANGED <<expiresAt, wake, attempt, waiting, non, observe, resends>>

\* Mutation: every expired transaction is renewed as if it observed.
ExpiredStepAlwaysRenews(t) ==
    /\ expiresAt' = t + DefaultMaxAge
    /\ attempt' = 0
    /\ waiting' = FALSE
    /\ resends' = 0
    /\ \E d \in StartDelays : Schedule(t, Capped(d))
    /\ UNCHANGED <<non, outcome, observe>>

(* The expired branches: an observation is renewed under a new message id *)
(* with a fresh default max-age window and resent at once; any other      *)
(* transaction is reported TIMEOUT and ended.                             *)
ExpiredStep(t) ==
    IF observe
    THEN /\ expiresAt' = t + DefaultMaxAge
         /\ attempt' = 0
         /\ waiting' = FALSE
         /\ resends' = 0
         /\ \E d \in StartDelays : Schedule(t, Capped(d))
         /\ UNCHANGED <<non, outcome, observe>>
    ELSE /\ outcome' = "Timeout"
         /\ scheduled' = FALSE
         /\ UNCHANGED <<expiresAt, wake, attempt, waiting, non, observe, resends>>

\* The timer fires: the clock reaches its fire date and the handler runs.
TimerFire ==
    /\ scheduled
    /\ wake <= MaxTime
    /\ LET t == IF wake > now THEN wake ELSE now
       IN  /\ now' = t
           /\ IF expiresAt - t > 0
              THEN \E res \in ResendResults, j \in Jitters : ResendStep(t, res, j)
              ELSE ExpiredStep(t)

\* An empty ACK arrives: the server will answer separately.
Acked ==
    /\ outcome = "running"
    /\ ~waiting
    /\ waiting' = TRUE
    /\ UNCHANGED <<now, expiresAt, wake, scheduled, attempt, non, outcome, observe, resends>>

Next == TimerFire \/ Acked

Spec == Init /\ [][Next]_vars

\* smcp_process services due timers whenever it runs.
FairSpec == Spec /\ WF_vars(TimerFire)

-----------------------------------------------------------------------------
\* Types; the attempt count stays below the width of the int that
\* calc_retransmit_timeout shifts by it.
TypeOK ==
    /\ now \in 0..MaxTime
    /\ expiresAt \in Int /\ wake \in Int
    /\ scheduled \in BOOLEAN /\ waiting \in BOOLEAN
    /\ attempt \in 0..31 /\ non \in BOOLEAN
    /\ outcome \in {"running", "Failure", "Timeout"}
    /\ observe \in BOOLEAN /\ resends \in Nat

\* A step of the timeout handler that resends before the expiration and
\* keeps the transaction.
RetryScheduled == TimerFire /\ expiresAt - now' > 0 /\ scheduled'

\* Every retry the timeout handler schedules lies in the future: the
\* back-off delay it takes from calc_retransmit_timeout (through MIN with
\* the time left) is positive, so the next resend waits instead of firing
\* again at once.
RetryDelayPositive == [][RetryScheduled => wake' > now']_vars

\* The timer of a live transaction never sleeps past its expiration by
\* more than the DNS re-check delay: the handler takes the MIN of the
\* back-off and the time left, so TIMEOUT (or an observation's renewal) is
\* reported when the expiration passes, not a back-off period later.
WakeNotAfterExpiration == scheduled => wake <= expiresAt + DnsRecheck

\* A transaction that is not an observation ends (times out or fails) even
\* when its resends keep failing with WAIT_FOR_DNS, as long as the event
\* loop services its timer.
EventuallyEnds == ~observe => <>(outcome # "running")

\* The largest jitter rand() % 300 may produce in the run.
MaxJitter == CHOOSE j \in Jitters : \A k \in Jitters : k <= j

\* An observation's back-off starts over when it is renewed: every resend
\* that backs off waits no longer than calc_retransmit_timeout gives for an
\* attempt count no greater than the number of resends since the
\* transaction was begun or the expired observation was renewed under a
\* new message id (line 950), so a renewed observation probes at the
\* initial rate, not at the rate it had reached.
BackoffRestartsOnRenewal ==
    [][attempt' = attempt + 1 =>
         \E r \in 0 .. resends : wake' - now' <= RetransmitTimeout(r, MaxJitter)]_vars
=============================================================================
