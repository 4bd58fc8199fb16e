----------------------------- MODULE MCServices -----------------------------
(***************************************************************************)
(* Components of the application that share no state, each on a small      *)
(* instance of its own: a behaviour is one of one component, chosen at the *)
(* start.  The variables v1, v2, ... stand for the variables of whichever  *)
(* component that is, in the order its module declares them.               *)
(***************************************************************************)
EXTENDS Integers, Sequences, FiniteSets, TLC

CONSTANTS
    Order, Unserviced, Stock, MaxAttempts, Family, Token, Refresh, NoFamily,
    Call, Unsafe, MaxConcurrent, QueueLimits, MaxQueueWait, MaxTries,
    MaxDelay, AttemptTime, Budget, Late, LastStart, r1, r2, r3, Keyed,
    Fingerprint, Circumstances, ReserveAttempts, Caller, Nobody, Backends,
    TTL, Drift, Interval, Renewing, MaxHold, MaxNow, Client, Stranger,
    replayBufferSize, maxConnections, MaxSeq, MaxEpoch, MaxWire, Socket,
    User, u1, u2, Topic, Unknown, Upgrades, Capacities, maxRooms,
    highWaterMark, grace, MaxSweepTime, MaxSends, Visit, Glance,
    Transaction, NoTransaction, MaxRecords, PageSize

\* What the proofs take of the constants: absent members are absent, times,
\* limits and sizes are numbers, the accounts are finitely many and an upgrade
\* request is one of theirs, and a request is none of the answers that are no replay.
ASSUME ServicesAssumption ==
    /\ NoFamily \notin Family /\ Nobody \notin Caller /\ NoTransaction \notin Transaction
    /\ TTL \in Nat /\ Drift \in Nat /\ Interval \in Nat /\ MaxHold \in Nat /\ MaxNow \in Nat
    /\ PageSize \in Nat
    /\ Stock \in Nat
    /\ MaxConcurrent \in Nat /\ MaxQueueWait \in Nat /\ MaxTries \in Nat \ {0} /\ MaxDelay \in Nat
    /\ AttemptTime \in Nat /\ Budget \in Nat /\ Late \in Nat
    /\ maxRooms \in Nat \ {0} /\ highWaterMark \in Nat /\ Capacities \subseteq Nat
    /\ IsFiniteSet(User) /\ \A u \in Upgrades : u.principal.id \in User
    /\ \A a \in {"none", "409", "422", "503", "5xx", "hungUp"} : a \notin Keyed

VARIABLES which,   \* the component of this behaviour
    v1, v2, v3, v4, v5, v6, v7, v8, v9, v10, v11, v12, v13, v14, v15

Calls == INSTANCE CallProofs WITH
    MaxFaults <- 2, late <- v1, prompt <- v2, status <- v3, cursor <- v4,
    attempts <- v5, state <- v6, call <- v7, orphans <- v8, order <- v9,
    events <- v10, shelf <- v11, hold <- v12, payment <- v13,
    shipment <- v14, faults <- v15, maxQueued <- v1, now <- v2,
    inFlight <- v3, waiting <- v4, breaker <- v5, exchange <- v6,
    maxConnections <- v1, conn <- v3, registered <- v4, rooms <- v5,
    byRoom <- v6, account <- v7, awaitingPong <- v8, sweeping <- v9,
    sends <- v10
Records == INSTANCE RecordProofs WITH
    Request <- Refresh, MaxFaults <- 1, token <- v1, familyOf <- v2,
    expired <- v3, family <- v4, request <- v5, pruning <- v6,
    presented <- v7, detections <- v8, faults <- v9, row <- v1, live <- v2,
    locked <- v3, cached <- v4, staged <- v5, visit <- v6, entries <- v1,
    lock <- v2, tx <- v3, collided <- v4, verifier <- v5
Leases == INSTANCE LeaseProofs WITH
    MaxFaults <- 1, backend <- v1, now <- v2, holder <- v3, until <- v4,
    place <- v5, renewal <- v6, startedAt <- v7, wakeAt <- v8,
    callStart <- v9, prolonged <- v10, expiry <- v11, flag <- v12,
    result <- v13, outcome <- v14, overlapped <- v15, may <- v1,
    entry <- v2, pc <- v3, tries <- v4, open <- v5, worked <- v6,
    answer <- v7, excuses <- v8, faults <- v9
Streams == INSTANCE EventStream WITH
    epoch <- v1, log <- v2, slots <- v3, appended <- v4, open <- v5,
    stopping <- v6, gone <- v7, admin <- v8, stream <- v9, cursor <- v10,
    wire <- v11, lastId <- v12, base <- v13, got <- v14

vars == <<which, v1, v2, v3, v4, v5, v6, v7, v8, v9, v10, v11, v12, v13, v14, v15>>

\* The slots above the first n are not used by the component.
Unused(n) ==
    /\ n < 6 => v6 = 0
    /\ n < 7 => v7 = 0
    /\ n < 8 => v8 = 0
    /\ n < 9 => v9 = 0
    /\ n < 10 => v10 = 0
    /\ n < 11 => v11 = 0
    /\ n < 12 => v12 = 0
    /\ n < 13 => v13 = 0
    /\ n < 14 => v14 = 0
    /\ n < 15 => v15 = 0

Unchanged(n) ==
    /\ n < 6 => v6' = v6
    /\ n < 7 => v7' = v7
    /\ n < 8 => v8' = v8
    /\ n < 9 => v9' = v9
    /\ n < 10 => v10' = v10
    /\ n < 11 => v11' = v11
    /\ n < 12 => v12' = v12
    /\ n < 13 => v13' = v13
    /\ n < 14 => v14' = v14
    /\ n < 15 => v15' = v15

Init ==
    \/ which = "checkout" /\ Calls!Init /\ Unused(15)
    \/ which = "tokens" /\ Records!Init /\ Unused(9)
    \/ which = "users" /\ Records!Profiles!Init /\ Unused(6)
    \/ which = "audit" /\ Records!Log!Init /\ Unused(5)
    \/ which = "http" /\ Calls!Http!Init /\ Unused(6)
    \/ which = "session" /\ Leases!Locks!Init /\ Unused(15)
    \/ which = "keys" /\ Leases!Dedupe!Init /\ Unused(9)
    \/ which = "stream" /\ Streams!Init /\ Unused(14)
    \/ which = "realtime" /\ Calls!Gateway!Init /\ Unused(10)

Next ==
    /\ which' = which
    /\ \/ which = "checkout" /\ Calls!Next /\ Unchanged(15)
       \/ which = "tokens" /\ Records!Next /\ Unchanged(9)
       \/ which = "users" /\ Records!Profiles!Next /\ Unchanged(6)
       \/ which = "audit" /\ Records!Log!Next /\ Unchanged(5)
       \/ which = "http" /\ Calls!Http!Next /\ Unchanged(6)
       \/ which = "session" /\ Leases!Locks!Next /\ Unchanged(15)
       \/ which = "keys" /\ Leases!Dedupe!Next /\ Unchanged(9)
       \/ which = "stream" /\ Streams!Next /\ Unchanged(14)
       \/ which = "realtime" /\ Calls!Gateway!Next /\ Unchanged(10)

Spec == Init /\ [][Next]_vars

-----------------------------------------------------------------------------
\* A checkout that ended left nothing behind, or is paid, reserved, shipped and
\* confirmed (checkout.saga.ts), and units off the shelf are held for an order
\* (InMemoryInventoryService).
OrdersConsistent ==
    which = "checkout" => Calls!EndsConsistent /\ Calls!StockConserved

\* What a step may do: every statement of the Prisma store is a step of the
\* store of refresh tokens its callers see, or none (consume, issue, revoke,
\* prune); a parcel is booked only once the money is in (checkout.saga.ts); and
\* a request changes only its own reservation (complete, release).
StepsAllowed ==
    [][/\ which = "tokens" => Records!ContractStep
       /\ which = "checkout" => Calls!ShipsPaid
       /\ which = "keys" => Leases!Dedupe!TouchesOwn]_vars

\* A token presented twice ends its session (consume).
ReplayEndsSession == which = "tokens" => Records!ReplayEndsSession

\* Bulkhead permits are neither lost nor made up (release), the deadline bounds
\* the whole of request(), and an unsafe call is sent once, any other once per
\* rung.
CallsBounded ==
    which = "http" =>
        Calls!Http!PermitsConserved /\ Calls!Http!DeadlineKept /\ Calls!Http!SentWithinLadder

\* An effect is repeated only when its response was not kept, a replay is the
\* answer another attempt at the same operation was given, and whoever is answered
\* from the record ran nothing (recordOnce, replay).
KeyedOnce == which = "keys" => Leases!Dedupe!OncePerRecord /\ Leases!Dedupe!ReplayIsOriginal

\* Success is reported only to an exclusive holder, and maxHoldMs bounds how
\* long the key is kept (withLock, startRenewal).
SuccessMeansExclusive ==
    which = "session" => Leases!Locks!SuccessMeansExclusive /\ Leases!Locks!HoldBounded

\* A client has every event it may see up to its Last-Event-ID, once (connect).
NothingMissed == which = "stream" => Streams!NothingMissed

\* A peer is told of every frame dropped while it was behind (recover), and a
\* room's index names exactly its members (ConnectionRegistry).
NoSilentLoss ==
    which = "realtime" => Calls!Gateway!NoSilentLoss /\ Calls!Gateway!IndexConsistent

\* A conditional write replaces exactly what its client read (versionPredicate).
NoLostUpdate == which = "users" => Records!Profiles!NoLostUpdate

\* Concurrent appends never fork the audit chain or leave a gap (append).
LinearChain == which = "audit" => Records!Log!LinearChain

Circumstanced ==
    {{"hangUps"}, {"hangUps", "slowHandlers"}, {"hangUps", "slowHandlers", "unreadable"}}

\* Attempts at one operation, and another request that reuses their key.
Fingerprints == r1 :> "a" @@ r2 :> "a" @@ r3 :> "b"

\* Upgrade requests of an account and of an administrator: a token in either
\* place or in the query string, and tokens that are not access tokens of ours.
Upgrading ==
    LET u(header, offered, query, token) ==
          {[authorization |-> header, offered |-> offered, tokenInQuery |-> query, token |-> token,
            principal |-> p] : p \in {[id |-> u1, admin |-> FALSE], [id |-> u2, admin |-> TRUE]}}
    IN  u("bearer", <<>>, FALSE, "access") \cup u("none", <<"bearer", "token">>, FALSE, "access")
        \cup u("none", <<"bearer">>, FALSE, "access") \cup u("none", <<>>, TRUE, "access")
        \cup u("other", <<>>, FALSE, "access") \cup u("bearer", <<>>, FALSE, "invalid")
        \cup u("bearer", <<>>, FALSE, "foreign")
=============================================================================
