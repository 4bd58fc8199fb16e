---------------------------- MODULE ResilientHttp ----------------------------
(***************************************************************************)
(* Calls to one outbound dependency (src/common/http over                   *)
(* src/common/bulkhead): ResilientHttpClient.request() climbs its retry     *)
(* ladder under one deadline, holds a bulkhead permit for each attempt and  *)
(* none while it sleeps, and fires the attempt through opossum's circuit    *)
(* breaker, which is external.  Actions are the stretches between awaits;   *)
(* a timer is a floor and fires at most Late ticks after it is due.         *)
(***************************************************************************)
EXTENDS Integers, Sequences, FiniteSets

CONSTANTS
    Call,           \* the request() calls
    Unsafe,         \* those that are not idempotent
    MaxConcurrent,  \* the bulkhead's policy
    QueueLimits,    \* the values of its maxQueued considered
    MaxQueueWait,
    MaxTries,       \* retry.maxAttempts
    MaxDelay,       \* retry.maxMs, the ceiling of the jitter
    AttemptTime,    \* timeoutMs
    Budget,         \* deadlineMs
    Late,           \* how far a timer may overshoot
    LastStart       \* bound: no call begins after this tick

VARIABLES
    maxQueued,      \* HTTP_BULKHEAD_MAX_QUEUED, set when the process starts
    now,
    inFlight,       \* Bulkhead.inFlight
    waiting,        \* Bulkhead.waiting
    breaker,        \* "closed", "open", "halfOpen", or "probing"
    call            \* call[c]: where it stands

vars == <<maxQueued, now, inFlight, waiting, breaker, call>>

Smaller(a, b) == IF a < b THEN a ELSE b

\* at: the await; due: its timer; tries: attempts begun; last: lastResponse;
\* sent: requests put on the wire.
New == [at |-> "new", due |-> 0, deadline |-> 0, tries |-> 0, last |-> "none", sent |-> 0]

Init ==
    /\ maxQueued \in QueueLimits
    /\ now = 0 /\ inFlight = 0 /\ waiting = <<>>
    /\ breaker = "closed"
    /\ call = [c \in Call |-> New]

Ended(c) == call[c].at \in {"returned", "threw"}
Holds(c) == call[c].at \in {"admitted", "sent"}

-----------------------------------------------------------------------------
(* Bulkhead.                                                                *)

\* acquire(remaining) by a call whose record is r: a permit, a place in the
\* queue until the wait budget is spent, or a rejection.
acquire(c, r) ==
    LET wait == Smaller(r.deadline - now, MaxQueueWait) IN
    \/ /\ inFlight < MaxConcurrent
       /\ inFlight' = inFlight + 1
       /\ call' = [call EXCEPT ![c] = [r EXCEPT !.at = "admitted"]]
       /\ waiting' = waiting
    \/ /\ inFlight >= MaxConcurrent
       /\ wait > 0 /\ Len(waiting) < maxQueued
       /\ waiting' = Append(waiting, c)
       /\ call' = [call EXCEPT ![c] = [r EXCEPT !.at = "queued", !.due = now + wait]]
       /\ inFlight' = inFlight
    \/ /\ inFlight >= MaxConcurrent
       /\ wait = 0 \/ Len(waiting) >= maxQueued
       /\ call' = [call EXCEPT ![c] = [r EXCEPT !.at = "threw"]]
       /\ UNCHANGED <<inFlight, waiting>>

\* Mutant: the permit is given back before the waiter takes one.
releaseAndRetake(c, r) ==
    /\ inFlight' = inFlight - 1
    /\ IF waiting = <<>>
       THEN waiting' = waiting /\ call' = [call EXCEPT ![c] = r]
       ELSE /\ waiting' = Tail(waiting)
            /\ call' = [call EXCEPT ![c] = r, ![Head(waiting)].at = "admitted"]

\* release(), as the call goes on to r: handed over, never put down.
release(c, r) ==
    IF waiting = <<>>
    THEN /\ inFlight' = inFlight - 1
         /\ waiting' = waiting
         /\ call' = [call EXCEPT ![c] = r]
    ELSE /\ inFlight' = inFlight
         /\ waiting' = Tail(waiting)
         /\ call' = [call EXCEPT ![c] = r, ![Head(waiting)].at = "admitted"]

queueTimeout(c) ==
    /\ call[c].at = "queued" /\ now >= call[c].due
    /\ \E i \in DOMAIN waiting :
          /\ waiting[i] = c
          /\ waiting' = [k \in 1 .. Len(waiting) - 1 |-> waiting[IF k < i THEN k ELSE k + 1]]
    /\ call' = [call EXCEPT ![c].at = "threw"]
    /\ UNCHANGED <<maxQueued, now, inFlight, breaker>>

-----------------------------------------------------------------------------
(* ResilientHttpClient.                                                     *)

\* The head of the loop: is there budget left for another attempt?
Attempt(c, r) ==
    IF r.deadline - now <= 0
    THEN /\ call' = [call EXCEPT ![c] = [r EXCEPT !.at = IF r.last # "none" THEN "returned" ELSE "threw"]]
         /\ UNCHANGED <<inFlight, waiting>>
    ELSE acquire(c, [r EXCEPT !.tries = @ + 1])

request(c) ==
    /\ call[c].at = "new" /\ now <= LastStart
    /\ Attempt(c, [New EXCEPT !.deadline = now + Budget])
    /\ UNCHANGED <<maxQueued, now, breaker>>

\* Mutant: the attempt is given the time it asks for, whatever is left.
fireUnclamped(c) ==
    /\ call[c].at = "admitted"
    /\ IF call[c].deadline - now < 1 \/ breaker \in {"open", "probing"}
       THEN release(c, [call[c] EXCEPT !.at = "threw"]) /\ breaker' = breaker
       ELSE /\ call' = [call EXCEPT ![c] = [call[c] EXCEPT !.at = "sent", !.sent = @ + 1,
                            !.due = now + AttemptTime]]
            /\ breaker' = IF breaker = "halfOpen" THEN "probing" ELSE breaker
            /\ UNCHANGED <<inFlight, waiting>>
    /\ UNCHANGED <<maxQueued, now>>

\* With the permit: the clock is read again, and the breaker asked.
fire(c) ==
    /\ call[c].at = "admitted"
    /\ IF call[c].deadline - now < 1 \/ breaker \in {"open", "probing"}
       THEN release(c, [call[c] EXCEPT !.at = "threw"]) /\ breaker' = breaker
       ELSE /\ call' = [call EXCEPT ![c] = [call[c] EXCEPT !.at = "sent", !.sent = @ + 1,
                            !.due = now + Smaller(AttemptTime, call[c].deadline - now)]]
            /\ breaker' = IF breaker = "halfOpen" THEN "probing" ELSE breaker
            /\ UNCHANGED <<inFlight, waiting>>
    /\ UNCHANGED <<maxQueued, now>>

\* Mutant: an unsafe call climbs the ladder too.
ladderForAll(c) == MaxTries

\* ladder.maxAttempts
ladder(c) == IF c \in Unsafe THEN 1 ELSE MaxTries

\* The delays delayFor() may draw.  -1 is its null: the ladder is spent, or the
\* response's Retry-After is longer than the ladder allows.
delayFor(c, response) ==
    IF call[c].tries >= ladder(c) THEN {-1}
    ELSE (0 .. MaxDelay) \cup (IF response # "none" THEN {-1} ELSE {})

\* After a failed attempt, with its retryable response or without: sleep off
\* the delay, or end with the response or an error.
AfterFailure(c, response) ==
    \E delay \in delayFor(c, response) :
        LET last == IF response # "none" THEN response ELSE call[c].last
            r == [call[c] EXCEPT !.last = last] IN
        release(c, IF delay # -1 /\ delay < r.deadline - now
                   THEN [r EXCEPT !.at = "asleep", !.due = now + delay]
                   ELSE [r EXCEPT !.at = IF response # "none" THEN "returned" ELSE "threw"])

\* The breaker's own accounting (opossum): a failure may open it, and a probe
\* decides.
BreakerHears(ok) ==
    breaker' \in CASE breaker = "probing" -> IF ok THEN {"closed"} ELSE {"open"}
                   [] breaker = "closed" -> IF ok THEN {"closed"} ELSE {"closed", "open"}
                   [] OTHER -> {breaker}

answers(c) ==
    /\ call[c].at = "sent"
    /\ \/ /\ release(c, [call[c] EXCEPT !.at = "returned"])
          /\ BreakerHears(TRUE)
       \/ AfterFailure(c, "retryable") /\ BreakerHears(FALSE)
    /\ UNCHANGED <<maxQueued, now>>

\* The connection fails, or AbortSignal.timeout ends it.
breaks(c) ==
    /\ call[c].at = "sent"
    /\ AfterFailure(c, "none")
    /\ BreakerHears(FALSE)
    /\ UNCHANGED <<maxQueued, now>>

wakes(c) ==
    /\ call[c].at = "asleep" /\ now >= call[c].due
    /\ Attempt(c, call[c])
    /\ UNCHANGED <<maxQueued, now, breaker>>

resets ==
    /\ breaker = "open"
    /\ breaker' = "halfOpen"
    /\ UNCHANGED <<maxQueued, now, inFlight, waiting, call>>

\* Time passes once nothing is left to run and no timer would be too late.
tick ==
    /\ \E c \in Call : call[c].at # "new" /\ ~Ended(c)
    /\ \A c \in Call : /\ call[c].at # "admitted"
                       /\ call[c].at \in {"queued", "sent", "asleep"} => now < call[c].due + Late
    /\ now' = now + 1
    /\ UNCHANGED <<maxQueued, inFlight, waiting, breaker, call>>

Next ==
    \/ \E c \in Call : \/ request(c) \/ queueTimeout(c) \/ fire(c)
                       \/ answers(c) \/ breaks(c) \/ wakes(c)
    \/ resets \/ tick

Spec == Init /\ [][Next]_vars

-----------------------------------------------------------------------------
\* Permits are neither lost nor made up over hand-overs, queue timeouts,
\* refusals and retries, and none lies idle beside a waiter (Bulkhead).
PermitsConserved ==
    /\ inFlight = Cardinality({c \in Call : Holds(c)})
    /\ waiting # <<>> => inFlight = MaxConcurrent
    /\ {waiting[i] : i \in DOMAIN waiting} = {c \in Call : call[c].at = "queued"}

\* "a hard ceiling on one `request()` call": queue waits, attempts and sleeps
\* together never outlast the deadline by more than one timer's overshoot.
DeadlineKept ==
    \A c \in Call : call[c].at # "new" /\ ~Ended(c) => now <= call[c].deadline + Late

\* A call that is not idempotent goes on the wire once at most, and any other
\* once per rung: nothing that was refused admission is counted or resent.
SentWithinLadder ==
    \A c \in Call : call[c].sent <= IF c \in Unsafe THEN 1 ELSE MaxTries
=============================================================================
