----------------------------- MODULE LockSession -----------------------------
(***************************************************************************)
(* withLock() of src/common/locking/lock-session.ts: several callers run   *)
(* an operation under one key, each renewing its lease while it runs, over *)
(* either implementation of the DistributedLock port.                      *)
(*                                                                         *)
(* "memory" is in-memory-distributed-lock.ts: a call takes effect at once. *)
(* "redlock" is the handle of redlock.service.ts over the quorum as one    *)
(* key (module Redlock models the nodes): a call is a round trip, the      *)
(* quorum may fail to answer, and the drift allowance is written off.      *)
(***************************************************************************)
EXTENDS Integers, FiniteSets

CONSTANTS
    Caller,     \* callers of withLock on the key
    Nobody,     \* the key is free
    Backends,   \* the values of DISTRIBUTED_LOCK considered
    TTL,        \* ttlMs
    Drift,      \* the drift allowance of the redlock handle
    Interval,   \* renewIntervalMs
    Renewing,   \* the callers whose options.renew is not false
    MaxHold,    \* maxHoldMs; above MaxNow when undefined
    MaxNow      \* bound: the clock

VARIABLES
    backend,     \* DISTRIBUTED_LOCK, set when the process starts
    now,         \* the lock clock
    holder,      \* whose value is stored under the key
    until,       \* when the stored key expires
    pc,          \* where withLock is
    renewal,     \* where the renewal loop is
    startedAt,   \* the clock when the loop started
    wakeAt,      \* when the loop's sleep ends
    callStart,   \* when the extend under way began
    prolonged,   \* the extend under way reached the quorum
    expiry,      \* handle.validUntil
    live,        \* the redlock handle's flag
    result,      \* what the operation did
    outcome,     \* what withLock reported
    overlapped   \* history: another caller got the key while it ran

storeVars   == <<holder, until>>
renewalVars == <<renewal, startedAt, wakeAt, callStart, prolonged>>
handleVars  == <<expiry, live>>
vars == <<backend, now, storeVars, pc, renewalVars, handleVars, result, outcome, overlapped>>

Holds(c) == holder = c /\ now < until

Allowance == IF backend = "redlock" THEN Drift ELSE 0

Init ==
    /\ backend \in Backends
    /\ now = 0
    /\ holder = Nobody
    /\ until = 0
    /\ pc = [c \in Caller |-> "acquiring"]
    /\ renewal = [c \in Caller |-> "off"]
    /\ startedAt = [c \in Caller |-> 0]
    /\ wakeAt = [c \in Caller |-> 0]
    /\ callStart = [c \in Caller |-> 0]
    /\ prolonged = [c \in Caller |-> FALSE]
    /\ expiry = [c \in Caller |-> 0]
    /\ live = [c \in Caller |-> FALSE]
    /\ result = [c \in Caller |-> "none"]
    /\ outcome = [c \in Caller |-> "none"]
    /\ overlapped = [c \in Caller |-> FALSE]

\* Between two awaits that wait for nothing the event loop runs no timer.
Urgent == backend = "memory" /\ \E c \in Caller : pc[c] \in {"stopping", "stopped", "released"}

Tick ==
    /\ now < MaxNow
    /\ ~Urgent
    /\ now' = now + 1
    /\ UNCHANGED <<backend, storeVars, pc, renewalVars, handleVars, result, outcome, overlapped>>

\* The stored key after a release that compares the value first.
Freed(c) == IF Holds(c) THEN Nobody ELSE holder

-----------------------------------------------------------------------------
Set(f, c, x) == [f EXCEPT ![c] = x]

\* acquire() and claim(): the key is free or its lease is over.
Acquires(c) ==
    /\ pc[c] = "acquiring"
    /\ holder = Nobody \/ now >= until
    /\ holder' = c
    /\ until' = now + TTL
    /\ expiry' = Set(expiry, c, now + TTL - Allowance)
    /\ live' = Set(live, c, TRUE)
    /\ startedAt' = Set(startedAt, c, now)
    /\ wakeAt' = Set(wakeAt, c, now + Interval)
    /\ renewal' = Set(renewal, c, IF c \in Renewing THEN "asleep" ELSE "off")
    /\ overlapped' = [d \in Caller |-> overlapped[d] \/ (d # c /\ pc[d] = "running")]
    /\ pc' = Set(pc, c, "running")
    /\ UNCHANGED <<backend, now, callStart, prolonged, result, outcome>>

NotAcquired(c) ==
    /\ pc[c] = "acquiring"
    /\ outcome' = Set(outcome, c, "notAcquired")
    /\ pc' = Set(pc, c, "done")
    /\ UNCHANGED <<backend, now, storeVars, renewalVars, handleVars, result, overlapped>>

\* The operation settles, and stop() signals the renewal loop.
OperationEnds(c, what) ==
    /\ pc[c] = "running"
    /\ result' = Set(result, c, what)
    /\ pc' = Set(pc, c, "stopping")
    /\ UNCHANGED <<backend, now, storeVars, renewalVars, handleVars, outcome, overlapped>>

-----------------------------------------------------------------------------
(* The renewal loop.                                                       *)

Awake(c) == renewal[c] = "asleep" /\ (now >= wakeAt[c] \/ pc[c] # "running")

LoopStops(c) ==
    /\ Awake(c)
    /\ pc[c] # "running"
    /\ renewal' = Set(renewal, c, "finished")
    /\ UNCHANGED <<backend, now, storeVars, pc, startedAt, wakeAt, callStart, prolonged, handleVars,
                   result, outcome, overlapped>>

\* Mutant: the bound is on the time since the last renewal.
maxHoldReachedStale(c) == now - wakeAt[c] >= MaxHold

maxHoldReached(c) == now - startedAt[c] >= MaxHold

LoopGivesUp(c) ==
    /\ Awake(c)
    /\ pc[c] = "running"
    /\ maxHoldReached(c)
    /\ renewal' = Set(renewal, c, "finished")
    /\ UNCHANGED <<backend, now, storeVars, pc, startedAt, wakeAt, callStart, prolonged, handleVars,
                   result, outcome, overlapped>>

Sleeps(c) ==
    /\ renewal' = Set(renewal, c, "asleep")
    /\ wakeAt' = Set(wakeAt, c, now + Interval)

\* InMemoryDistributedLock: extend() answers without yielding.
ExtendInMemory(c) ==
    /\ backend = "memory"
    /\ Awake(c)
    /\ pc[c] = "running"
    /\ ~maxHoldReached(c)
    /\ \/ /\ Holds(c)
          /\ until' = now + TTL
          /\ expiry' = Set(expiry, c, now + TTL)
          /\ Sleeps(c)
       \/ /\ ~Holds(c)
          /\ renewal' = Set(renewal, c, "refused")
          /\ UNCHANGED <<until, expiry, wakeAt>>
    /\ UNCHANGED <<backend, now, holder, pc, startedAt, callStart, prolonged, live,
                   result, outcome, overlapped>>

\* RedlockHandle.extend: the round is sent, and reaches the quorum or not.
ExtendSent(c) ==
    /\ backend = "redlock"
    /\ Awake(c)
    /\ pc[c] = "running"
    /\ ~maxHoldReached(c)
    /\ \E reached \in {TRUE, FALSE} :
         /\ reached => Holds(c)
         /\ prolonged' = Set(prolonged, c, reached)
         /\ until' = IF reached THEN now + TTL ELSE until
    /\ callStart' = Set(callStart, c, now)
    /\ renewal' = Set(renewal, c, "extending")
    /\ UNCHANGED <<backend, now, holder, pc, startedAt, wakeAt, handleVars, result, outcome,
                   overlapped>>

validity(c) == TTL - (now - callStart[c]) - Drift

ExtendAnswered(c) ==
    /\ renewal[c] = "extending"
    /\ prolonged[c]
    /\ validity(c) > 0
    /\ expiry' = Set(expiry, c, now + validity(c))
    /\ Sleeps(c)
    /\ UNCHANGED <<backend, now, storeVars, pc, startedAt, callStart, prolonged, live,
                   result, outcome, overlapped>>

\* A quorum did not confirm in time: the key is released wherever the release
\* arrives.
ExtendRefused(c) ==
    /\ renewal[c] = "extending"
    /\ holder' \in {holder, Freed(c)}
    /\ live' = Set(live, c, FALSE)
    /\ expiry' = Set(expiry, c, now)
    /\ renewal' = Set(renewal, c, "refused")
    /\ UNCHANGED <<backend, now, until, pc, startedAt, wakeAt, callStart, prolonged,
                   result, outcome, overlapped>>

-----------------------------------------------------------------------------
(* stop(): the loop has finished, the handle is released; then the verdict. *)

RenewalFinished(c) ==
    /\ pc[c] = "stopping"
    /\ renewal[c] \in {"off", "finished", "refused"}
    /\ pc' = Set(pc, c, "stopped")
    /\ UNCHANGED <<backend, now, storeVars, renewalVars, handleVars, result, outcome, overlapped>>

ReleasesInMemory(c) ==
    /\ backend = "memory"
    /\ pc[c] = "stopped"
    /\ holder' = Freed(c)
    /\ pc' = Set(pc, c, "released")
    /\ UNCHANGED <<backend, now, until, renewalVars, handleVars, result, outcome, overlapped>>

\* RedlockHandle.release: a second call is a no-op, a first one ends the lease.
ReleasesRedlock(c) ==
    /\ backend = "redlock"
    /\ pc[c] = "stopped"
    /\ IF live[c]
       THEN /\ holder' \in {holder, Freed(c)}
            /\ expiry' = Set(expiry, c, now)
            /\ live' = Set(live, c, FALSE)
       ELSE UNCHANGED <<holder, handleVars>>
    /\ pc' = Set(pc, c, "released")
    /\ UNCHANGED <<backend, now, until, renewalVars, result, outcome, overlapped>>

remaining(c) == IF expiry[c] > now THEN expiry[c] - now ELSE 0

\* Mutant: only the renewal loop is asked.
LostUnseen(c) == renewal[c] = "refused"

Lost(c) == renewal[c] = "refused" \/ remaining(c) <= 0

Reports(c) ==
    /\ pc[c] = "released"
    /\ outcome' = Set(outcome, c,
                      CASE result[c] = "threw" -> "threw"
                        [] result[c] = "returned" /\ Lost(c) -> "lost"
                        [] result[c] = "returned" /\ ~Lost(c) -> "value")
    /\ pc' = Set(pc, c, "done")
    /\ UNCHANGED <<backend, now, storeVars, renewalVars, handleVars, result, overlapped>>

Next ==
    \/ Tick
    \/ \E c \in Caller :
         \/ Acquires(c)
         \/ NotAcquired(c)
         \/ \E what \in {"returned", "threw"} : OperationEnds(c, what)
         \/ LoopStops(c)
         \/ LoopGivesUp(c)
         \/ ExtendInMemory(c)
         \/ ExtendSent(c)
         \/ ExtendAnswered(c)
         \/ ExtendRefused(c)
         \/ RenewalFinished(c)
         \/ ReleasesInMemory(c)
         \/ ReleasesRedlock(c)
         \/ Reports(c)

Spec == Init /\ [][Next]_vars

-----------------------------------------------------------------------------
\* withLock "refuses to report success unless the lock was held for all of
\* it": a caller that is given its result shared the key with nobody while
\* its operation ran (withLock, startRenewal).
SuccessMeansExclusive ==
    \A c \in Caller : outcome[c] = "value" => ~overlapped[c]

\* maxHoldMs bounds how long a hung operation can keep the key: it is free
\* again one TTL after the bound at the latest (startRenewal).
HoldBounded ==
    \A c \in Caller : Holds(c) => now < startedAt[c] + MaxHold + TTL

\* LockLostError means that the lease lapsed while the operation ran: it is
\* never the verdict on a lease that no renewal was refused and that was not
\* old enough to lapse (withLock).
LostOnlyIfLapsed ==
    \A c \in Caller :
        outcome[c] = "lost" => renewal[c] = "refused" \/ now >= startedAt[c] + TTL - Allowance

=============================================================================
