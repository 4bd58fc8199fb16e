----------------------------- MODULE KafkaBroker -----------------------------
(***************************************************************************)
(* KafkaBroker (src/src/messaging/kafka-broker.service.ts): the KafkaJS    *)
(* adapter of the MessageBroker port, one instance per process, and one    *)
(* partition of a topic.  Offsets are committed by hand after the handler; *)
(* a rejected message is sought back to and its partition paused; a        *)
(* handler that outlives its bound is abandoned, not cancelled.            *)
(* Group membership and the commit fence are the cluster's (external).     *)
(***************************************************************************)
EXTENDS Naturals, FiniteSets

CONSTANTS
    Process,        \* service replicas, one consumer of the group each
    LastOffset,     \* messages on the partition
    MaxRejections,  \* bound: rejections and timeouts
    MaxRebalances   \* bound: evictions of a member

VARIABLES
    log,            \* the offset the next produced message takes
    committed,      \* the group's committed offset: the next message to read
    owner,          \* the process the partition is assigned to
    consumer,       \* per process, its consumer
    broker,         \* per process, the adapter: closed, subscribing, subscriptions
    done,           \* offsets some handler resolved for
    abandoned,      \* <<process, offset>> of handlers running past their bound
    rejections,
    rebalances

vars == <<log, committed, owner, consumer, broker, done, abandoned, rejections, rebalances>>

Nobody == "nobody"
NoConsumer == [state |-> "none", position |-> 0, handling |-> 0, paused |-> FALSE]

Init ==
    /\ log = 1
    /\ committed = 1
    /\ owner = Nobody
    /\ consumer = [p \in Process |-> NoConsumer]
    /\ broker = [p \in Process |-> [closed |-> FALSE, connected |-> FALSE,
                                    subscribing |-> FALSE, subscribed |-> FALSE]]
    /\ done = {}
    /\ abandoned = {}
    /\ rejections = 0
    /\ rebalances = 0

connect(p) ==
    /\ ~broker[p].closed /\ ~broker[p].connected
    /\ broker' = [broker EXCEPT ![p].connected = TRUE]
    /\ UNCHANGED <<log, committed, owner, consumer, done, abandoned, rejections, rebalances>>

\* sendBatch with acks -1: resolves once the record is on the log.
produce(p) ==
    /\ ~broker[p].closed
    /\ log <= LastOffset
    /\ log' = log + 1
    /\ broker' = [broker EXCEPT ![p].connected = TRUE]
    /\ UNCHANGED <<committed, owner, consumer, done, abandoned, rejections, rebalances>>

\* The consumer connects, subscribes and runs before the group join is awaited.
subscribe(p) ==
    /\ ~broker[p].closed
    /\ consumer[p].state = "none"
    /\ consumer' = [consumer EXCEPT ![p].state = "joining"]
    /\ broker' = [broker EXCEPT ![p].subscribing = TRUE]
    /\ UNCHANGED <<log, committed, owner, done, abandoned, rejections, rebalances>>

\* The coordinator admits the member, and assigns it the partition if it is free.
groupJoin(p) ==
    /\ consumer[p].state = "joining"
    /\ consumer' = [consumer EXCEPT
                     ![p] = [state |-> "running", position |-> committed,
                             handling |-> 0, paused |-> FALSE]]
    /\ owner' = IF owner = Nobody THEN p ELSE owner
    /\ UNCHANGED <<log, committed, broker, done, abandoned, rejections, rebalances>>

\* subscribe resolves, and only now is the subscription recorded.
subscribed(p) ==
    /\ broker[p].subscribing
    /\ consumer[p].state = "running"
    /\ broker' = [broker EXCEPT ![p].subscribing = FALSE, ![p].subscribed = TRUE]
    /\ UNCHANGED <<log, committed, owner, consumer, done, abandoned, rejections, rebalances>>

\* waitForGroupJoin gives up; the consumer it was waiting for keeps running.
waitForGroupJoin(p) ==
    /\ broker[p].subscribing
    /\ consumer[p].state = "joining"
    /\ broker' = [broker EXCEPT ![p].subscribing = FALSE]
    /\ UNCHANGED <<log, committed, owner, consumer, done, abandoned, rejections, rebalances>>

\* A free partition goes to a running member, from the committed offset; an
\* evicted member rejoins between messages, not during one.
assign(p) ==
    /\ owner = Nobody
    /\ consumer[p].state = "running" /\ consumer[p].handling = 0
    /\ owner' = p
    /\ consumer' = [consumer EXCEPT ![p].position = committed, ![p].paused = FALSE]
    /\ UNCHANGED <<log, committed, broker, done, abandoned, rejections, rebalances>>

\* A member whose heartbeats stopped arriving is evicted; it does not know.
evict(p) ==
    /\ owner = p
    /\ rebalances < MaxRebalances
    /\ rebalances' = rebalances + 1
    /\ owner' = Nobody
    /\ UNCHANGED <<log, committed, consumer, broker, done, abandoned, rejections>>

Idle(p) == consumer[p].state \in {"running", "stopping"} /\ consumer[p].handling = 0

\* eachMessage: the runner's read position moves past the message it hands over.
eachMessage(p) ==
    /\ owner = p /\ consumer[p].state = "running" /\ Idle(p) /\ ~consumer[p].paused
    /\ consumer[p].position < log
    /\ consumer' = [consumer EXCEPT ![p].handling = consumer[p].position,
                                    ![p].position = @ + 1]
    /\ UNCHANGED <<log, committed, owner, broker, done, abandoned, rejections, rebalances>>

\* handle resolved, then the commit, which the fence refuses to a former owner.
handleMessage(p) ==
    LET offset == consumer[p].handling
    IN  /\ offset > 0
        /\ done' = done \cup {offset}
        /\ committed' = IF owner = p THEN offset + 1 ELSE committed
        /\ consumer' = [consumer EXCEPT ![p].handling = 0]
        /\ UNCHANGED <<log, owner, broker, abandoned, rejections, rebalances>>

Rejection(p, sought) ==
    /\ consumer[p].handling > 0
    /\ rejections < MaxRejections
    /\ rejections' = rejections + 1
    /\ consumer' = [consumer EXCEPT ![p].handling = 0, ![p].position = sought, ![p].paused = TRUE]
    /\ UNCHANGED <<log, committed, owner, broker, done, rebalances>>

rejectNoSeek(p, timedOut) ==
    /\ Rejection(p, consumer[p].position)
    /\ abandoned' = IF timedOut THEN abandoned \cup {<<p, consumer[p].handling>>} ELSE abandoned

\* handle rejected, or runHandler's bound passed: no commit, seek back, pause.
reject(p, timedOut) ==
    /\ Rejection(p, consumer[p].handling)
    /\ abandoned' = IF timedOut THEN abandoned \cup {<<p, consumer[p].handling>>} ELSE abandoned

resume(p) ==
    /\ consumer[p].paused
    /\ consumer' = [consumer EXCEPT ![p].paused = FALSE]
    /\ UNCHANGED <<log, committed, owner, broker, done, abandoned, rejections, rebalances>>

\* An abandoned handler finishes, unseen by the adapter.
finishLate(p, offset) ==
    /\ <<p, offset>> \in abandoned
    /\ abandoned' = abandoned \ {<<p, offset>>}
    /\ done' = done \cup {offset}
    /\ UNCHANGED <<log, committed, owner, consumer, broker, rejections, rebalances>>

\* disconnect stops the subscriptions it knows of, each waiting for its handler.
disconnect(p) ==
    /\ ~broker[p].closed
    /\ broker' = [broker EXCEPT ![p].closed = TRUE, ![p].subscribed = FALSE,
                                ![p].connected = FALSE]
    /\ consumer' = [consumer EXCEPT
                     ![p].state = IF broker[p].subscribed THEN "stopping" ELSE @]
    /\ UNCHANGED <<log, committed, owner, done, abandoned, rejections, rebalances>>

\* stop() resolves once the handler in flight has settled: the member leaves.
stop(p) ==
    /\ consumer[p].state = "stopping" /\ Idle(p)
    /\ consumer' = [consumer EXCEPT ![p].state = "stopped"]
    /\ owner' = IF owner = p THEN Nobody ELSE owner
    /\ UNCHANGED <<log, committed, broker, done, abandoned, rejections, rebalances>>

Next ==
    \E p \in Process :
        \/ connect(p) \/ produce(p) \/ subscribe(p) \/ groupJoin(p) \/ subscribed(p)
        \/ waitForGroupJoin(p) \/ assign(p) \/ evict(p) \/ eachMessage(p) \/ handleMessage(p)
        \/ \E timedOut \in BOOLEAN : reject(p, timedOut)
        \/ resume(p)
        \/ \E offset \in 1 .. LastOffset : finishLate(p, offset)
        \/ disconnect(p) \/ stop(p)

Spec == Init /\ [][Next]_vars

-----------------------------------------------------------------------------
(* Commit after handle: every message behind the committed offset was      *)
(* handled to completion, through rejections, timeouts, rebalances and     *)
(* shutdowns (KafkaBroker: "the failure mode is a message handled twice    *)
(* rather than a message lost").                                           *)
NothingSkipped == 1 .. (committed - 1) \subseteq done
=============================================================================
