------------------------------ MODULE Payments ------------------------------
(***************************************************************************)
(* The payment providers (src/src/payments): concurrent authorize, capture *)
(* and refund calls for one order, against a gateway that keeps the money. *)
(* Stripe and PayPal are reached over HTTP, where a request or its answer  *)
(* may be lost; ResilientHttpClient repeats a request only when the        *)
(* adapter marks it idempotent.  PayPal calls share a cached OAuth token.  *)
(* The mock provider runs the same lifecycle in one step per call.         *)
(***************************************************************************)
EXTENDS Naturals, FiniteSets, FiniteSetsExt

CONSTANTS
    Call,           \* the calls made
    Work,           \* per call, its method and, for a refund, the amount (0 = all)
    Amount,         \* the order's total in minor units
    MaxAttempts,    \* attempts ResilientHttpClient makes of an idempotent request
    TokenTtl,       \* how long an access token lives
    TOKEN_REFRESH_MARGIN,
    MaxNow,         \* bound: the clock
    MaxFaults       \* bound: lost requests and lost answers

VARIABLES
    provider,       \* "mock", "stripe" or "paypal"
    now,
    gateway,        \* the gateway's books for this order's reference
    moved,          \* per call, how often the gateway acted on it
    call,           \* per call, where it is and what it read
    cachedToken,    \* when the cached token expires
    tokenRequest,   \* the shared token request is in flight
    mints,          \* token requests in flight
    faults

vars == <<provider, now, gateway, moved, call, cachedToken, tokenRequest, mints, faults>>

\* Provider statuses on the port's lifecycle; the refunded total decides the tail.
mapStatus(raw, refunded) ==
    CASE raw = "none" -> "unknown"
      [] raw = "created" -> "requires_action"
      [] raw = "approved" -> "authorized"
      [] raw = "pending" -> "processing"
      [] raw = "captured" ->
            IF refunded = 0 THEN "succeeded"
            ELSE IF refunded >= Amount THEN "refunded" ELSE "partially_refunded"

\* The amount to refund, or 0 when PaymentStateError is thrown.
resolveRefundAmount(payment, asked) ==
    LET remaining == Amount - payment.refunded
        requested == IF asked = 0 THEN remaining ELSE asked
    IN  IF /\ mapStatus(payment.raw, payment.refunded) \in {"succeeded", "partially_refunded"}
           /\ requested <= remaining
        THEN requested ELSE 0

idempotentAlways(c) == TRUE

\* authorize always sends a key, PayPal's capture too, a refund never.
idempotent(c) ==
    \/ Work[c].method = "authorize"
    \/ Work[c].method = "capture" /\ provider = "paypal"

FirstStage(c) == IF Work[c].method = "refund" THEN "find" ELSE "send"

Init ==
    /\ provider \in {"mock", "stripe", "paypal"}
    /\ now = 0
    /\ gateway = [raw |-> "none", refunded |-> 0, created |-> 0]
    /\ moved = [c \in Call |-> 0]
    /\ call = [c \in Call |-> [stage |-> "idle", at |-> "token", attempts |-> 0, amount |-> 0]]
    /\ cachedToken = 0
    /\ tokenRequest = FALSE
    /\ mints = 0
    /\ faults = 0

\* What the gateway does with a request; FALSE is a 4xx.
Accepts(c, g) ==
    CASE Work[c].method = "authorize" -> TRUE
      [] Work[c].method = "capture" -> g.raw = "approved" \/ (moved[c] > 0 /\ idempotent(c))
      [] Work[c].method = "refund" -> g.raw = "captured" /\ g.refunded + call[c].amount <= Amount

\* A replay the gateway recognises by its key changes nothing.
Replayed(c, g) ==
    \/ Work[c].method = "authorize" /\ g.created > 0
    \/ Work[c].method = "capture" /\ moved[c] > 0 /\ idempotent(c)

Books(c, g) ==
    CASE Replayed(c, g) -> {g}
      [] Work[c].method = "authorize" /\ ~Replayed(c, g) ->
            {[g EXCEPT !.created = @ + 1,
                       !.raw = IF provider = "mock" THEN "approved" ELSE "created"]}
      [] Work[c].method = "capture" /\ ~Replayed(c, g) ->
            {[g EXCEPT !.raw = s] : s \in IF provider = "paypal" THEN {"captured", "pending"}
                                                                  ELSE {"captured"}}
      [] Work[c].method = "refund" /\ ~Replayed(c, g) -> {[g EXCEPT !.refunded = @ + call[c].amount]}

\* The mock provider: the whole call in one step.
mock(c) ==
    LET asked == resolveRefundAmount(gateway, Work[c].amount)
    IN  /\ provider = "mock"
        /\ call[c].stage = "idle"
        /\ \/ /\ Work[c].method = "authorize"
              /\ gateway' \in Books(c, gateway)
              /\ moved' = [moved EXCEPT ![c] = IF Replayed(c, gateway) THEN @ ELSE @ + 1]
              /\ call' = [call EXCEPT ![c].stage = "done"]
           \/ /\ Work[c].method = "capture"
              /\ mapStatus(gateway.raw, gateway.refunded) = "authorized"
              /\ gateway' = [gateway EXCEPT !.raw = "captured"]
              /\ moved' = [moved EXCEPT ![c] = @ + 1]
              /\ call' = [call EXCEPT ![c].stage = "done"]
           \/ /\ Work[c].method = "refund" /\ asked > 0
              /\ gateway' = [gateway EXCEPT !.refunded = @ + asked]
              /\ moved' = [moved EXCEPT ![c] = @ + 1]
              /\ call' = [call EXCEPT ![c].stage = "done", ![c].amount = asked]
           \/ /\ \/ Work[c].method = "refund" /\ asked = 0
                 \/ /\ Work[c].method = "capture"
                    /\ mapStatus(gateway.raw, gateway.refunded) # "authorized"
              /\ call' = [call EXCEPT ![c].stage = "conflict"]
              /\ UNCHANGED <<gateway, moved>>
        /\ UNCHANGED <<provider, now, cachedToken, tokenRequest, mints, faults>>

start(c) ==
    /\ provider # "mock"
    /\ call[c].stage = "idle"
    /\ call' = [call EXCEPT ![c].stage = FirstStage(c)]
    /\ UNCHANGED <<provider, now, gateway, moved, cachedToken, tokenRequest, mints, faults>>

Asking(c) == call[c].stage \in {"find", "send", "reread"} /\ call[c].at = "token"

accessTokenUnshared(c) ==
    /\ Asking(c)
    /\ IF provider = "stripe" \/ cachedToken > now + TOKEN_REFRESH_MARGIN
       THEN /\ call' = [call EXCEPT ![c].at = "http", ![c].attempts = 0]
            /\ UNCHANGED <<tokenRequest, mints>>
       ELSE /\ call' = [call EXCEPT ![c].at = "minting"]
            /\ tokenRequest' = TRUE
            /\ mints' = mints + 1
    /\ UNCHANGED <<provider, now, gateway, moved, cachedToken, faults>>

\* A cached token not close to expiry, the request in flight, or a new one.
accessToken(c) ==
    /\ Asking(c)
    /\ IF provider = "stripe" \/ cachedToken > now + TOKEN_REFRESH_MARGIN
       THEN /\ call' = [call EXCEPT ![c].at = "http", ![c].attempts = 0]
            /\ UNCHANGED <<tokenRequest, mints>>
       ELSE /\ call' = [call EXCEPT ![c].at = "minting"]
            /\ tokenRequest' = TRUE
            /\ mints' = IF tokenRequest THEN mints ELSE mints + 1
    /\ UNCHANGED <<provider, now, gateway, moved, cachedToken, faults>>

\* The shared request settles for everyone waiting on it; a failure is not kept.
mintToken(minted) ==
    /\ tokenRequest
    /\ minted \/ faults < MaxFaults
    /\ faults' = IF minted THEN faults ELSE faults + 1
    /\ tokenRequest' = FALSE
    /\ mints' = mints - 1
    /\ cachedToken' = IF minted THEN now + TokenTtl ELSE cachedToken
    /\ call' = [c \in Call |->
                 IF call[c].at # "minting" THEN call[c]
                 ELSE IF minted THEN [call[c] EXCEPT !.at = "http", !.attempts = 0]
                 ELSE [call[c] EXCEPT !.at = "token", !.stage = "failed"]]
    /\ UNCHANGED <<provider, now, gateway, moved>>

\* find() before a refund: a GET, repeated by the ladder until it answers.
find(c) ==
    LET asked == resolveRefundAmount(gateway, Work[c].amount)
    IN  /\ call[c].stage = "find" /\ call[c].at = "http"
        /\ call' = [call EXCEPT ![c].at = "token", ![c].amount = asked,
                                ![c].stage = IF asked > 0 THEN "send" ELSE "conflict"]
        /\ UNCHANGED <<provider, now, gateway, moved, cachedToken, tokenRequest, mints, faults>>

\* The re-read after a refund.
reread(c) ==
    /\ call[c].stage = "reread" /\ call[c].at = "http"
    /\ call' = [call EXCEPT ![c].at = "token", ![c].stage = "done"]
    /\ UNCHANGED <<provider, now, gateway, moved, cachedToken, tokenRequest, mints, faults>>

\* The request reaches the gateway, and its answer may be lost on the way back.
Arrives(c) ==
    IF Accepts(c, gateway)
    THEN /\ gateway' \in Books(c, gateway)
         /\ moved' = [moved EXCEPT ![c] = IF Replayed(c, gateway) THEN @ ELSE @ + 1]
    ELSE UNCHANGED <<gateway, moved>>

\* What ResilientHttpClient makes of no answer.
Unanswered(c) ==
    /\ faults < MaxFaults
    /\ faults' = faults + 1
    /\ call' = [call EXCEPT ![c].attempts = @ + 1,
                            ![c].stage = IF idempotent(c) /\ call[c].attempts + 1 < MaxAttempts
                                         THEN @ ELSE "failed"]

\* A capture that is turned down is a PaymentStateError, a refund that find() let
\* pass a PaymentProviderError.
Refusal(c) == IF Work[c].method = "refund" THEN "rejected" ELSE "conflict"

\* send: "answered", "unanswered" after the gateway acted, or "unsent".
send(c, outcome) ==
    /\ call[c].stage = "send" /\ call[c].at = "http"
    /\ CASE outcome = "answered" ->
              /\ Arrives(c)
              /\ call' = [call EXCEPT
                           ![c].at = "token",
                           ![c].stage = IF ~Accepts(c, gateway) THEN Refusal(c)
                                        ELSE IF Work[c].method = "refund" THEN "reread"
                                        ELSE "done"]
              /\ UNCHANGED faults
         [] outcome = "unanswered" -> Arrives(c) /\ Unanswered(c)
         [] outcome = "unsent" -> Unanswered(c) /\ UNCHANGED <<gateway, moved>>
    /\ UNCHANGED <<provider, now, cachedToken, tokenRequest, mints>>

\* The buyer approves; a pending PayPal capture settles.
approve ==
    /\ gateway.raw \in {"created", "pending"}
    /\ gateway' = [gateway EXCEPT !.raw = IF @ = "created" THEN "approved" ELSE "captured"]
    /\ UNCHANGED <<provider, now, moved, call, cachedToken, tokenRequest, mints, faults>>

tick ==
    /\ provider = "paypal"
    /\ now < MaxNow
    /\ now' = now + 1
    /\ UNCHANGED <<provider, gateway, moved, call, cachedToken, tokenRequest, mints, faults>>

Next ==
    \/ \E c \in Call :
        \/ mock(c) \/ start(c) \/ accessToken(c) \/ find(c) \/ reread(c)
        \/ \E outcome \in {"answered", "unanswered", "unsent"} : send(c, outcome)
    \/ \E minted \in BOOLEAN : mintToken(minted)
    \/ approve
    \/ tick

Spec == Init /\ [][Next]_vars

-----------------------------------------------------------------------------
(* Money moves once per call, whatever is lost and repeated: one payment   *)
(* per reference, at most one effect per call, never more refunded than    *)
(* taken, and the refunded total is what the refund calls asked for        *)
(* (send's idempotent flag: "a retried keyless refund is a second          *)
(* refund"); a call that reports a state conflict, or that the gateway     *)
(* turned it down, moved nothing, one that resolves did what it says.      *)
MoneyMovesOnce ==
    /\ gateway.created <= 1
    /\ gateway.refunded <= Amount
    /\ gateway.refunded = MapThenSumSet(LAMBDA c : call[c].amount,
                                        {c \in Call : Work[c].method = "refund" /\ moved[c] = 1})
    /\ \A c \in Call :
        /\ moved[c] <= 1
        /\ call[c].stage \in {"conflict", "rejected"} => moved[c] = 0
        /\ call[c].stage = "done" => CASE Work[c].method = "authorize" -> gateway.created = 1
                                       [] OTHER -> moved[c] = 1

(* Concurrent PayPal calls share one token request (accessToken: "PayPal   *)
(* rate-limits token issuance").                                           *)
OneTokenRequest == mints <= 1
=============================================================================
