---------------------------- MODULE MessageBroker ----------------------------
(***************************************************************************)
(* One topic, one consumer group: the in-process broker                    *)
(* (src/messaging/in-memory-broker.ts), and the handler its members run    *)
(* (domain-event-consumer.service.ts with retry-ladder.ts and              *)
(* dead-letter-queue.service.ts).                                          *)
(*                                                                         *)
(* JavaScript runs from one await to the next without interruption, so an  *)
(* action is one such stretch: a member's pass over its partitions up to   *)
(* the handler it calls or the wait it enters.  A record is its offset, and *)
(* a list of partitions, always kept in ascending order, is a set.         *)
(***************************************************************************)
EXTENDS Integers, Sequences, FiniteSets, Functions

CONSTANTS
    Member,        \* subscriptions that may join the group
    Staying,       \* those of them that are never stopped
    FromBeginning, \* those that subscribe with fromBeginning
    Partition,     \* the topic's partitions, numbered from 1
    Undecodable,   \* <<partition, offset>> of records no build can decode
    MaxAttempts,   \* KAFKA_RETRY_MAX_ATTEMPTS
    MaxLog,        \* bound: MaxLog[p] records of partition p
    MaxBatch,      \* bound: records for one partition in one produce()
    MaxFaults      \* bound: failed attempts, failed produces and timeouts

ASSUME BrokerAssumption ==
    /\ Partition = 1 .. Cardinality(Partition) /\ Partition \subseteq Nat
    /\ MaxAttempts \in Nat \ {0} /\ MaxLog \in [Partition -> Nat]
    /\ MaxBatch \in Nat /\ MaxFaults \in Nat
    /\ Staying \subseteq Member /\ FromBeginning \subseteq Member

None == -1
Nothing == [partition |-> 0, offset |-> None, attempts |-> 0, phase |-> "attempt"]

Offset(p) == 0 .. MaxLog[p] - 1

VARIABLES
    deadLettering, \* KAFKA_DEAD_LETTER_ENABLED, set when the process starts
    closed,     \* disconnect() has been called
    log,        \* log[p]: how many records the partition holds
    committed,  \* group.committed; None where it has no entry
    members,    \* group.members, in the order they joined
    assigned,   \* member.assigned
    positions,  \* member.positions; None where it has no entry
    stopped,    \* member.stopped: no, by its stop(), or cut off by disconnect()
    aborted,    \* the consumer's shutdown signal
    pending,    \* member.pending
    pc,         \* pc[m]: out, loop, handling, idle, exited, left
    todo,       \* the partitions left in the pass under way
    delivered,  \* the pass's two flags
    failed,
    current,    \* the handler call the member awaits
    orphans,    \* calls their member stopped waiting for
    handled,    \* handled[p]: offsets every subscriber has resolved
    dead,       \* dead[p]: offsets copied to the dead-letter topic
    passed,     \* history: offsets a member that reads only what arrives next began behind
    tried,      \* history: failed attempts on a record
    faults

groupVars == <<members, assigned, stopped, aborted>>
readVars  == <<committed, positions, pc, pending, passed>>
passVars  == <<todo, delivered, failed, current>>
effects   == <<handled, dead, tried, faults>>
vars == <<deadLettering, closed, log, groupVars, readVars, passVars, orphans, effects>>

Init ==
    /\ deadLettering \in BOOLEAN
    /\ closed = FALSE
    /\ log = [p \in Partition |-> 0]
    /\ committed = [p \in Partition |-> None]
    /\ members = <<>>
    /\ assigned = [m \in Member |-> {}]
    /\ positions = [m \in Member |-> [p \in Partition |-> None]]
    /\ stopped = [m \in Member |-> "no"]
    /\ aborted = [m \in Member |-> FALSE]
    /\ pending = [m \in Member |-> FALSE]
    /\ pc = [m \in Member |-> "out"]
    /\ todo = [m \in Member |-> {}]
    /\ delivered = [m \in Member |-> FALSE]
    /\ failed = [m \in Member |-> FALSE]
    /\ current = [m \in Member |-> Nothing]
    /\ orphans = {}
    /\ handled = [p \in Partition |-> {}]
    /\ dead = [p \in Partition |-> {}]
    /\ passed = [p \in Partition |-> {}]
    /\ tried = [p \in Partition |-> [o \in Offset(p) |-> 0]]
    /\ faults = 0

Fault == faults < MaxFaults /\ faults' = faults + 1
Stopped(m) == stopped[m] # "no"

\* What a stretch of the read loop starts from, and what it leaves.
Now == [committed |-> committed, positions |-> positions, passed |-> passed,
        pc |-> pc, pending |-> pending]
Becomes(g) == /\ committed' = g.committed /\ positions' = g.positions /\ passed' = g.passed
              /\ pc' = g.pc /\ pending' = g.pending

-----------------------------------------------------------------------------
(* One member's read loop, from g.                                         *)

\* Where a member starts on a partition its group has never committed.
startOffset(m, p) == IF m \in FromBeginning THEN 0 ELSE log[p]

Unresolved(m, p, g) == g.positions[m][p] = None /\ g.committed[p] = None

From(m, p, g) ==
    IF Unresolved(m, p, g) THEN startOffset(m, p)
    ELSE IF g.positions[m][p] = None THEN g.committed[p] ELSE g.positions[m][p]

\* The partitions of a list that have a record to read.
Ready(m, list, g) == {p \in list : From(m, p, g) < log[p]}

\* The partitions of a list have been looked at: each has its position now,
\* and what lies before a first position is left behind for good.
Looked(m, list, g) ==
    [g EXCEPT !.positions[m] = [p \in Partition |-> IF p \in list THEN From(m, p, g) ELSE @[p]],
              !.passed = [p \in Partition |->
                 IF p \in list /\ Unresolved(m, p, g) THEN @[p] \cup 0 .. startOffset(m, p) - 1
                 ELSE @[p]]]

\* The pass reaches the first record of `list` and hands it to the handler.
Handles(m, list, g, ok, bad) ==
    \E p \in Ready(m, list, g) :
        LET seen == {q \in list : q <= p}
            o == From(m, p, g)
        IN  /\ \A q \in Ready(m, list, g) : p <= q
            /\ current' = [current EXCEPT ![m] =
                    [partition |-> p, offset |-> o, attempts |-> 0,
                     phase |-> IF <<p, o>> \in Undecodable THEN "giveUp" ELSE "attempt"]]
            /\ todo' = [todo EXCEPT ![m] = list \ seen]
            /\ delivered' = [delivered EXCEPT ![m] = ok]
            /\ failed' = [failed EXCEPT ![m] = bad]
            /\ Becomes([Looked(m, seen, g) EXCEPT !.pc[m] = "handling"])

\* The pass is over: its flags are dropped, its handler has returned.
PassEnds(m, bad) ==
    /\ todo' = [todo EXCEPT ![m] = {}]
    /\ delivered' = [delivered EXCEPT ![m] = FALSE]
    /\ failed' = [failed EXCEPT ![m] = bad]
    /\ current' = [current EXCEPT ![m] = Nothing]

\* idle(): a wake that arrived during the pass is consumed, not slept through.
idle(m, g) ==
    [g EXCEPT !.pc[m] = IF g.pending[m] \/ Stopped(m) THEN "loop" ELSE "idle",
              !.pending[m] = FALSE]

\* The pass over `list` ends without a record: the member waits.
Rests(m, list, g, bad) ==
    /\ Ready(m, list, g) = {}
    /\ PassEnds(m, bad)
    /\ Becomes(idle(m, Looked(m, list, g)))

Exits(m, g) == PassEnds(m, FALSE) /\ Becomes([g EXCEPT !.pc[m] = "exited"])

\* A fresh pass over the partitions assigned by now, or the end of the pump.
Pass(m, list, g) ==
    \/ Stopped(m) /\ Exits(m, g)
    \/ ~Stopped(m) /\ Handles(m, list, g, FALSE, FALSE)
    \/ ~Stopped(m) /\ Rests(m, list, g, FALSE)

\* From a handler's return to the next await: the rest of the pass, over the
\* assignment it began with; then, if it delivered anything, a fresh one.
Resume(m, g, ok, bad) ==
    \/ Stopped(m) /\ Exits(m, g)
    \/ ~Stopped(m) /\ Handles(m, todo[m], g, ok, bad)
    \/ ~Stopped(m) /\ ~ok /\ Rests(m, todo[m], g, bad)
    \/ /\ ~Stopped(m) /\ ok
       /\ Ready(m, todo[m], g) = {}
       /\ Pass(m, assigned[m], Looked(m, todo[m], g))

\* The top of run()'s loop.
run(m) ==
    /\ pc[m] = "loop"
    /\ Pass(m, assigned[m], Now)
    /\ UNCHANGED <<deadLettering, closed, log, groupVars, orphans, effects>>

\* Mutant: the timer alone does not end the wait.
redeliverIfWoken(m) ==
    /\ pc[m] = "idle"
    /\ failed[m] /\ pending[m]
    /\ Becomes([Now EXCEPT !.pc[m] = "loop", !.pending[m] = FALSE])
    /\ UNCHANGED <<deadLettering, closed, log, groupVars, passVars, orphans, effects>>

\* redeliveryDelayMs has passed for a member that waits after a failure.
redeliver(m) ==
    /\ pc[m] = "idle"
    /\ failed[m]
    /\ Becomes([Now EXCEPT !.pc[m] = "loop", !.pending[m] = FALSE])
    /\ UNCHANGED <<deadLettering, closed, log, groupVars, passVars, orphans, effects>>

-----------------------------------------------------------------------------
(* Producing, joining and leaving.                                         *)

\* notify(): a waiting member is woken; any other finds the flag later.
notify(ms, g) ==
    [g EXCEPT !.pc = [m \in Member |-> IF m \in ms /\ g.pc[m] = "idle" THEN "loop" ELSE g.pc[m]],
              !.pending = [m \in Member |-> IF m \in ms THEN g.pc[m] # "idle" ELSE g.pending[m]]]

\* What produce() may be given: how many records for each partition.
Batches == [Partition -> 0 .. MaxBatch] \ {[p \in Partition |-> 0]}

\* produce(): append them all, then wake every subscriber of the topic.
produce(batch) ==
    /\ ~closed
    /\ \A p \in Partition : log[p] + batch[p] <= MaxLog[p]
    /\ log' = [p \in Partition |-> log[p] + batch[p]]
    /\ Becomes(notify(Range(members), Now))
    /\ UNCHANGED <<deadLettering, closed, groupVars, passVars, orphans, effects>>

\* The partitions dealt round the members in the order they joined.
Deal(ms, m) ==
    {p \in Partition : \E i \in DOMAIN ms : ms[i] = m /\ (p - 1) % Len(ms) = i - 1}

Assigned(ms) == [m \in Member |-> IF m \in Range(ms) THEN Deal(ms, m) ELSE assigned[m]]

\* rebalance(): a partition a member no longer holds takes its read position
\* with it, and every member is woken.
rebalance(ms, g) ==
    notify(Range(ms),
           [g EXCEPT !.positions = [m \in Member |-> [p \in Partition |->
                IF m \in Range(ms) /\ p \notin Deal(ms, m) THEN None ELSE g.positions[m][p]]]])

\* subscribe(): the member joins, the group rebalances, and the pump runs its
\* first pass before anything else does.
subscribe(m) ==
    /\ ~closed
    /\ pc[m] = "out"
    /\ members' = Append(members, m)
    /\ assigned' = Assigned(members')
    /\ Pass(m, assigned'[m], rebalance(members', [Now EXCEPT !.pc[m] = "loop"]))
    /\ UNCHANGED <<deadLettering, closed, log, stopped, aborted, orphans, effects>>

Running(m) == pc[m] \in {"loop", "handling", "idle"}

\* The consumer's stop() aborts its ladders; then, unless the member has been
\* stopped already, flags and wakes it.
stop(m) ==
    /\ m \notin Staying
    /\ Running(m)
    /\ ~aborted[m]
    /\ aborted' = [aborted EXCEPT ![m] = TRUE]
    /\ IF Stopped(m)
       THEN UNCHANGED <<stopped, readVars>>
       ELSE stopped' = [stopped EXCEPT ![m] = "stop"] /\ Becomes(notify({m}, Now))
    /\ UNCHANGED <<deadLettering, closed, log, members, assigned, passVars, orphans, effects>>

\* The rest of stop(), once the pump has ended.
leave(m) ==
    /\ pc[m] = "exited"
    /\ stopped[m] = "stop"
    /\ members' = SelectSeq(members, LAMBDA n : n # m)
    /\ assigned' = Assigned(members')
    /\ Becomes(rebalance(members', [Now EXCEPT !.pc[m] = "left"]))
    /\ UNCHANGED <<deadLettering, closed, log, stopped, aborted, passVars, orphans, effects>>

\* disconnect(): every member of the group is flagged and woken.
disconnect ==
    /\ ~closed
    /\ closed' = TRUE
    /\ stopped' = [m \in Member |->
          IF m \in Range(members) /\ ~Stopped(m) THEN "cut" ELSE stopped[m]]
    /\ Becomes(notify(Range(members), Now))
    /\ UNCHANGED <<deadLettering, log, members, assigned, aborted, passVars, orphans, effects>>

\* The rest of disconnect(), once every pump has ended.
disconnected ==
    /\ closed
    /\ members # <<>>
    /\ \A m \in Member : ~Running(m)
    /\ members' = <<>>
    /\ UNCHANGED <<deadLettering, closed, log, assigned, stopped, aborted, readVars, passVars,
                   orphans, effects>>

-----------------------------------------------------------------------------
(* The handler: dispatch(), with its retry ladder and dead-letter queue.    *)

\* nextAttemptDelayMs() returned null: no attempt is left.
Exhausted(attempts) == attempts >= MaxAttempts

\* One more attempt has failed.
FailedOnce(call) ==
    [call EXCEPT !.attempts = @ + 1,
                 !.phase = IF Exhausted(call.attempts + 1) THEN "giveUp" ELSE "sleep"]

\* The sleep between two attempts is over.
Awake(call) == [call EXCEPT !.phase = "attempt"]

\* One attempt: every subscriber resolves, or one fails and the ladder
\* sleeps, gives up, or, once shutdown is signalled, rejects.
Attempt(m, call, verdict, next) ==
    LET p == call.partition
        o == call.offset
    IN  /\ call.phase = "attempt"
        /\ \/ /\ verdict = "resolved"
              /\ next = call
              /\ handled' = [handled EXCEPT ![p] = @ \cup {o}]
              /\ UNCHANGED <<dead, tried, faults>>
           \/ /\ Fault
              /\ tried' = [tried EXCEPT ![p][o] = @ + 1]
              /\ next = FailedOnce(call)
              /\ verdict = IF next.phase = "sleep" /\ aborted[m] THEN "rejected" ELSE "running"
              /\ UNCHANGED <<handled, dead>>

\* sleep(): ends by its timer, or by the abort that rejects.
Sleep(m, call, verdict, next) ==
    /\ call.phase = "sleep"
    /\ next = Awake(call)
    /\ verdict = IF aborted[m] THEN "rejected" ELSE "running"
    /\ UNCHANGED effects

\* Mutant: a failed send is logged and swallowed.
GiveUpSwallows(m, call, verdict, next) ==
    /\ call.phase = "giveUp"
    /\ next = call
    /\ verdict = "resolved"
    /\ \/ /\ dead' = [dead EXCEPT ![call.partition] = @ \cup {call.offset}]
          /\ UNCHANGED <<handled, tried, faults>>
       \/ Fault /\ UNCHANGED <<handled, dead, tried>>

\* giveUp(): the message may stop blocking its partition only once a copy of
\* it exists in the dead-letter topic; a broker that is closed takes none.
GiveUp(m, call, verdict, next) ==
    /\ call.phase = "giveUp"
    /\ next = call
    /\ \/ /\ deadLettering /\ ~closed
          /\ verdict = "resolved"
          /\ dead' = [dead EXCEPT ![call.partition] = @ \cup {call.offset}]
          /\ UNCHANGED <<handled, tried, faults>>
       \/ /\ deadLettering /\ ~closed
          /\ verdict = "rejected"
          /\ Fault
          /\ UNCHANGED <<handled, dead, tried>>
       \/ /\ ~deadLettering \/ closed
          /\ verdict = "rejected"
          /\ UNCHANGED effects

dispatch(m, call, verdict, next) ==
    \/ Attempt(m, call, verdict, next)
    \/ Sleep(m, call, verdict, next)
    \/ GiveUp(m, call, verdict, next)

Verdicts == {"running", "resolved", "rejected"}
After(call) == {call, FailedOnce(call), Awake(call)}

\* Mutant: a rejected record's position moves on, so the pass reads past it.
ReturnsPast(m, verdict) ==
    LET p == current[m].partition
        next == current[m].offset + 1
    IN  Resume(m, [Now EXCEPT !.committed[p] = IF verdict = "resolved" THEN next ELSE @,
                              !.positions[m][p] = next], TRUE, failed[m])

\* The handler resolved: the offset is committed, then the position follows.
\* It was rejected: neither moves, and the pass goes on to its next partition.
Returns(m, verdict) ==
    LET p == current[m].partition
        next == current[m].offset + 1
    IN  IF verdict = "resolved"
        THEN Resume(m, [Now EXCEPT !.committed[p] = next, !.positions[m][p] = next],
                    TRUE, failed[m])
        ELSE Resume(m, Now, delivered[m], TRUE)

\* The awaited handler takes a step of its own, or returns.
handle(m) ==
    /\ pc[m] = "handling"
    /\ \E verdict \in Verdicts, next \in After(current[m]) :
          /\ dispatch(m, current[m], verdict, next)
          /\ IF verdict = "running"
             THEN /\ current' = [current EXCEPT ![m] = next]
                  /\ UNCHANGED <<readVars, todo, delivered, failed>>
             ELSE Returns(m, verdict)
    /\ UNCHANGED <<deadLettering, closed, log, groupVars, orphans>>

\* callHandler()'s timer wins the race: the call is rejected and runs on.
timeout(m) ==
    /\ pc[m] = "handling"
    /\ Fault
    /\ orphans' = orphans \cup {[member |-> m, call |-> current[m], since |-> faults]}
    /\ Returns(m, "rejected")
    /\ UNCHANGED <<deadLettering, closed, log, groupVars, handled, dead, tried>>

\* A call nobody waits for goes on: its effects land, its verdict is dropped.
OrphanRuns ==
    \E orphan \in orphans, verdict \in Verdicts : \E next \in After(orphan.call) :
       /\ dispatch(orphan.member, orphan.call, verdict, next)
       /\ orphans' = (orphans \ {orphan}) \cup
                        (IF verdict = "running" THEN {[orphan EXCEPT !.call = next]} ELSE {})
       /\ UNCHANGED <<deadLettering, closed, log, groupVars, readVars, passVars>>

Next ==
    \/ \E batch \in Batches : produce(batch)
    \/ \E m \in Member : \/ subscribe(m) \/ stop(m) \/ leave(m)
                         \/ run(m) \/ redeliver(m) \/ handle(m) \/ timeout(m)
    \/ disconnect \/ disconnected
    \/ OrphanRuns

\* Timers fire, promises settle within the handler timeout, and the members
\* that stay do subscribe.  Nothing makes a producer produce or a member stop.
Fairness ==
    /\ \A m \in Staying : WF_vars(subscribe(m))
    /\ \A m \in Member : /\ WF_vars(leave(m))
                         /\ WF_vars(run(m))
                         /\ WF_vars(redeliver(m))
                         /\ WF_vars(handle(m))

Spec == Init /\ [][Next]_vars
LiveSpec == Spec /\ Fairness

-----------------------------------------------------------------------------
Settled(p) == handled[p] \cup dead[p]

\* Offsets are committed after the handler, never before: every record below
\* the group's committed offset was handled, or has a copy in the
\* dead-letter topic, whoever committed it and however the group has been
\* rebalanced since, save those a member that reads only what arrives next
\* began behind; and a copy is there only of a record that cannot be
\* decoded, or for which the ladder climbed all of its rungs.
CommittedMeansSettled ==
    \A p \in Partition :
        /\ 0 .. committed[p] - 1 \subseteq Settled(p) \cup passed[p]
        /\ \A o \in dead[p] : <<p, o>> \in Undecodable \/ tried[p][o] >= MaxAttempts

\* Order within a partition: no record takes effect before every earlier
\* record of its partition has been settled, or was left behind for good by
\* the member that began the group's reading, across failures, timeouts and
\* rebalances.
NothingOvertaken ==
    \A p \in Partition : \A o \in Settled(p) : 0 .. o \subseteq Settled(p) \cup passed[p]

Backlog == \E p \in Partition : ~(0 .. log[p] - 1 \subseteq Settled(p) \cup passed[p])

\* A backlog is worked off in the end, through failures, timeouts and
\* rebalances, as long as one member stays, the broker is open and a record
\* nobody can handle may be dead-lettered (run, redeliver, runRetryLadder,
\* giveUp).
BacklogClears == (deadLettering /\ Backlog) ~> (~Backlog \/ closed)

-----------------------------------------------------------------------------
(* A small instance.                                                         *)

\* The second record has a body no build can decode.
OneUndecodable == {<<2, 1>>}

\* Room for order to matter on the partition that moves between members; the
\* other is only assigned and revoked.
EmptyAndTwo == <<0, 2>>
=============================================================================
