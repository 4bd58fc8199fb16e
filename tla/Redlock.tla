------------------------------- MODULE Redlock -------------------------------
(***************************************************************************)
(* The quorum lock of src/common/locking/redlock.service.ts, for one key:  *)
(* the Lua scripts the nodes run, the rounds acquire(), extend() and       *)
(* release() make over all the nodes, and the handle a holder is given.    *)
(*                                                                         *)
(* A command is written to a node's connection in order and the node runs  *)
(* it whenever it gets to it: withTimeout gives up on the answer without   *)
(* taking the command back, so a command may run long after its round is   *)
(* over.  `now` is the lock clock.  A node drops a key no sooner than Skew *)
(* before its TTL is over, which is what the drift allowance is for; it    *)
(* may drop it later, or never.                                            *)
(***************************************************************************)
EXTENDS Integers, Sequences, FiniteSets, TLC

CONSTANTS
    Node,         \* the Redis nodes
    Client,       \* callers of acquire(), each in a process of its own
    NoValue,      \* the key is absent
    TTL,          \* ttlMs
    Drift,        \* ttlMs * driftFactor + driftConstantMs
    MaxSafe,      \* Number.MAX_SAFE_INTEGER
    Skew,         \* how early a node's clock may drop the key
    MaxNow,       \* bound: the clock
    MaxTries,     \* bound: acquisition attempts of one client
    MaxFaults,    \* bound: answers that never arrive in one behaviour
    FirstFence    \* bound: the counters earlier acquisitions left behind

ASSUME RedlockAssumption ==
    /\ IsFiniteSet(Node) /\ Node # {}
    /\ TTL \in Nat \ {0} /\ Drift \in Nat /\ Skew \in 0 .. Drift
    /\ MaxSafe \in Nat
    /\ \A c \in Client, k \in 1 .. MaxTries : NoValue # <<c, k>>
    /\ MaxNow \in Nat /\ MaxTries \in Nat /\ MaxFaults \in Nat /\ FirstFence \in Nat

quorum == Cardinality(Node) \div 2 + 1

\* What a node answered in the current round of a client.  Scripts answer
\* -1 (refused), 0 or 1 (released, extended, published) or a token.
Waiting == -3
Errored == -2

VARIABLES
    now,       \* the lock clock
    lock,      \* lock[n]: the value stored under the key, or NoValue
    until,     \* until[n]: when the key's TTL is over
    fence,     \* fence[n]: the node's fencing counter
    wire,      \* wire[c][n]: commands written and not yet run
    votes,     \* votes[c][n]: the answers of the round under way
    pc,        \* pc[c]: which round the client awaits
    tries,     \* tries[c]: attempts so far; names the attempt's random value
    start,     \* start[c]: the clock when the round began
    token,     \* token[c]: fencingToken of the attempt or handle
    expiry,    \* expiry[c]: the handle's validUntil
    live,      \* live[c]: the handle has not been released
    faults,    \* answers lost so far
    issued,    \* history: tokens of the handles returned, in order
    floor      \* history: the tokens issued when c's attempt began

nodeVars   == <<lock, until, fence>>
handleVars == <<token, expiry, live>>
vars == <<now, nodeVars, wire, votes, pc, tries, start, handleVars, faults, issued, floor>>

value(c) == <<c, tries[c]>>
Values == Client \X (1 .. MaxTries)

Init ==
    /\ now = 0
    /\ lock = [n \in Node |-> NoValue]
    /\ until = [n \in Node |-> 0]
    /\ fence \in [Node -> 0 .. FirstFence]
    /\ wire = [c \in Client |-> [n \in Node |-> <<>>]]
    /\ votes = [c \in Client |-> [n \in Node |-> Errored]]
    /\ pc = [c \in Client |-> "idle"]
    /\ tries = [c \in Client |-> 0]
    /\ start = [c \in Client |-> 0]
    /\ token = [c \in Client |-> 0]
    /\ expiry = [c \in Client |-> 0]
    /\ live = [c \in Client |-> FALSE]
    /\ faults = 0
    /\ issued = <<>>
    /\ floor = [c \in Client |-> {}]

-----------------------------------------------------------------------------
(* The scripts: each yields the node's new key, TTL, counter and answer.   *)

ACQUIRE(n, cmd) ==
    IF lock[n] = NoValue
    THEN [lock |-> cmd.value, until |-> now + TTL,
          fence |-> fence[n] + 1, reply |-> fence[n] + 1]
    ELSE [lock |-> lock[n], until |-> until[n], fence |-> fence[n], reply |-> -1]

\* Mutant: the published token is not written back.
BUMP_FENCE_ignored(n, cmd) ==
    [lock |-> lock[n], until |-> until[n], fence |-> fence[n], reply |-> 1]

BUMP_FENCE(n, cmd) ==
    [lock |-> lock[n], until |-> until[n],
     fence |-> IF fence[n] < cmd.token THEN cmd.token ELSE fence[n], reply |-> 1]

RELEASE(n, cmd) ==
    IF lock[n] = cmd.value
    THEN [lock |-> NoValue, until |-> 0, fence |-> fence[n], reply |-> 1]
    ELSE [lock |-> lock[n], until |-> until[n], fence |-> fence[n], reply |-> 0]

EXTEND(n, cmd) ==
    IF lock[n] = cmd.value
    THEN [lock |-> lock[n], until |-> now + TTL, fence |-> fence[n], reply |-> 1]
    ELSE [lock |-> lock[n], until |-> until[n], fence |-> fence[n], reply |-> 0]

Script(n, cmd) ==
    CASE cmd.op = "acquire" -> ACQUIRE(n, cmd)
      [] cmd.op = "bump"    -> BUMP_FENCE(n, cmd)
      [] cmd.op = "release" -> RELEASE(n, cmd)
      [] cmd.op = "extend"  -> EXTEND(n, cmd)

\* A node runs the oldest command on a connection.  The answer counts when it
\* is to the round's own command and arrives before the timeout.
NodeRuns(c, n, heard) ==
    /\ wire[c][n] # <<>>
    /\ LET after == Script(n, Head(wire[c][n]))
           awaited == Len(wire[c][n]) = 1 /\ votes[c][n] = Waiting
       IN  /\ heard => awaited
           /\ lock' = [lock EXCEPT ![n] = after.lock]
           /\ until' = [until EXCEPT ![n] = after.until]
           /\ fence' = [fence EXCEPT ![n] = after.fence]
           /\ votes' = IF awaited
                       THEN [votes EXCEPT ![c][n] = IF heard THEN after.reply ELSE Errored]
                       ELSE votes
           /\ faults' = IF awaited /\ ~heard THEN faults + 1 ELSE faults
    /\ faults' <= MaxFaults
    /\ wire' = [wire EXCEPT ![c][n] = Tail(@)]
    /\ UNCHANGED <<now, pc, tries, start, handleVars, issued, floor>>

\* withTimeout: the round stops waiting for the node.
TimesOut(c, n) ==
    /\ faults < MaxFaults
    /\ faults' = faults + 1
    /\ votes[c][n] = Waiting
    /\ votes' = [votes EXCEPT ![c][n] = Errored]
    /\ UNCHANGED <<now, nodeVars, wire, pc, tries, start, handleVars, issued, floor>>

\* The connection breaks: what it carried is lost and the command rejects.
Disconnects(c, n) ==
    /\ faults < MaxFaults
    /\ faults' = faults + 1
    /\ wire[c][n] # <<>>
    /\ wire' = [wire EXCEPT ![c][n] = <<>>]
    /\ votes' = [votes EXCEPT ![c][n] = IF @ = Waiting THEN Errored ELSE @]
    /\ UNCHANGED <<now, nodeVars, pc, tries, start, handleVars, issued, floor>>

KeyExpires(n) ==
    /\ lock[n] # NoValue
    /\ now >= until[n] - Skew
    /\ lock' = [lock EXCEPT ![n] = NoValue]
    /\ until' = [until EXCEPT ![n] = 0]
    /\ UNCHANGED <<now, fence, wire, votes, pc, tries, start, handleVars, issued, floor, faults>>

Tick ==
    /\ now < MaxNow
    /\ now' = now + 1
    /\ UNCHANGED <<nodeVars, wire, votes, pc, tries, start, handleVars, issued, floor, faults>>

-----------------------------------------------------------------------------
(* The rounds.                                                             *)

Command(op, v, t) == [op |-> op, value |-> v, token |-> t]

onEveryNode(c, cmd) ==
    /\ wire' = [wire EXCEPT ![c] = [n \in Node |-> Append(@[n], cmd)]]
    /\ votes' = [votes EXCEPT ![c] = [n \in Node |-> Waiting]]

Settled(c) == \A n \in Node : votes[c][n] # Waiting

Round(c, from) == pc[c] = from /\ Settled(c)

Goto(c, next) == pc' = [pc EXCEPT ![c] = next]

\* The call returns, and its locals with it.
Returns(c, next) ==
    /\ votes' = [votes EXCEPT ![c] = [n \in Node |-> Errored]]
    /\ start' = [start EXCEPT ![c] = 0]
    /\ Goto(c, next)

\* Mutant: the drift allowance is forgotten.
validityNoDrift(c) == TTL - (now - start[c])

validityFrom(c) == TTL - (now - start[c]) - Drift

claimed(c) == {n \in Node : votes[c][n] > 0}

confirmed(c) == {n \in Node : votes[c][n] = 1}

releaseEverywhere(c) == onEveryNode(c, Command("release", value(c), 0))

\* attempt(): a fresh value, and the claim on every node.
attempt(c) ==
    /\ pc[c] = "idle"
    /\ tries[c] < MaxTries
    /\ tries' = [tries EXCEPT ![c] = @ + 1]
    /\ start' = [start EXCEPT ![c] = now]
    /\ floor' = [floor EXCEPT ![c] = {issued[i] : i \in DOMAIN issued}]
    /\ onEveryNode(c, Command("acquire", <<c, tries[c] + 1>>, 0))
    /\ Goto(c, "claiming")
    /\ UNCHANGED <<now, nodeVars, handleVars, issued, faults>>

ClaimFails(c) ==
    /\ Round(c, "claiming")
    /\ Cardinality(claimed(c)) < quorum \/ validityFrom(c) <= 0
    /\ releaseEverywhere(c)
    /\ Goto(c, "undoing")
    /\ UNCHANGED <<now, nodeVars, tries, start, handleVars, issued, floor, faults>>

\* The largest of the tokens the claims drew.
Drawn(c, t) ==
    /\ \E n \in claimed(c) : t = votes[c][n]
    /\ \A n \in claimed(c) : votes[c][n] <= t

\* The counter has left the safe integers: the attempt is undone and throws.
ClaimUnsafe(c) ==
    /\ Round(c, "claiming")
    /\ Cardinality(claimed(c)) >= quorum /\ validityFrom(c) > 0
    /\ \E t \in {votes[c][n] : n \in claimed(c)} : Drawn(c, t) /\ t > MaxSafe
    /\ releaseEverywhere(c)
    /\ Goto(c, "undoing")
    /\ UNCHANGED <<now, nodeVars, tries, start, handleVars, issued, floor, faults>>

ClaimSucceeds(c) ==
    /\ Round(c, "claiming")
    /\ Cardinality(claimed(c)) >= quorum /\ validityFrom(c) > 0
    /\ \E t \in {votes[c][n] : n \in claimed(c)} :
          /\ Drawn(c, t)
          /\ t <= MaxSafe
          /\ token' = [token EXCEPT ![c] = t]
          /\ onEveryNode(c, Command("bump", value(c), t))
    /\ Goto(c, "publishing")
    /\ UNCHANGED <<now, nodeVars, tries, start, expiry, live, issued, floor, faults>>

PublishFails(c) ==
    /\ Round(c, "publishing")
    /\ Cardinality(confirmed(c)) < quorum \/ validityFrom(c) <= 0
    /\ releaseEverywhere(c)
    /\ Goto(c, "undoing")
    /\ UNCHANGED <<now, nodeVars, tries, start, handleVars, issued, floor, faults>>

PublishSucceeds(c) ==
    /\ Round(c, "publishing")
    /\ Cardinality(confirmed(c)) >= quorum /\ validityFrom(c) > 0
    /\ expiry' = [expiry EXCEPT ![c] = now + validityFrom(c)]
    /\ live' = [live EXCEPT ![c] = TRUE]
    /\ issued' = Append(issued, token[c])
    /\ Returns(c, "held")
    /\ UNCHANGED <<now, nodeVars, wire, tries, token, floor, faults>>

\* The attempt answered "not acquired"; acquire() may try again.
UndoDone(c) ==
    /\ Round(c, "undoing")
    /\ Returns(c, "idle")
    /\ UNCHANGED <<now, nodeVars, wire, tries, handleVars, issued, floor, faults>>

extend(c) ==
    /\ pc[c] = "held"
    /\ live[c]
    /\ start' = [start EXCEPT ![c] = now]
    /\ onEveryNode(c, Command("extend", value(c), 0))
    /\ Goto(c, "extending")
    /\ UNCHANGED <<now, nodeVars, tries, handleVars, issued, floor, faults>>

ExtendSucceeds(c) ==
    /\ Round(c, "extending")
    /\ Cardinality(confirmed(c)) >= quorum /\ validityFrom(c) > 0
    /\ expiry' = [expiry EXCEPT ![c] = now + validityFrom(c)]
    /\ Returns(c, "held")
    /\ UNCHANGED <<now, nodeVars, wire, tries, token, live, issued, floor, faults>>

\* extendEverywhere lost the quorum: it lets go before the handle is told.
ExtendFails(c) ==
    /\ Round(c, "extending")
    /\ Cardinality(confirmed(c)) < quorum \/ validityFrom(c) <= 0
    /\ releaseEverywhere(c)
    /\ Goto(c, "dropping")
    /\ UNCHANGED <<now, nodeVars, tries, start, handleVars, issued, floor, faults>>

DropDone(c) ==
    /\ Round(c, "dropping")
    /\ live' = [live EXCEPT ![c] = FALSE]
    /\ expiry' = [expiry EXCEPT ![c] = now]
    /\ Returns(c, "idle")
    /\ UNCHANGED <<now, nodeVars, wire, tries, token, issued, floor, faults>>

release(c) ==
    /\ pc[c] = "held"
    /\ live[c]
    /\ live' = [live EXCEPT ![c] = FALSE]
    /\ releaseEverywhere(c)
    /\ Goto(c, "releasing")
    /\ UNCHANGED <<now, nodeVars, tries, start, token, expiry, issued, floor, faults>>

ReleaseDone(c) ==
    /\ Round(c, "releasing")
    /\ expiry' = [expiry EXCEPT ![c] = now]
    /\ Returns(c, "idle")
    /\ UNCHANGED <<now, nodeVars, wire, tries, token, live, issued, floor, faults>>

Next ==
    \/ Tick
    \/ \E n \in Node : KeyExpires(n)
    \/ \E c \in Client, n \in Node :
         \/ \E heard \in BOOLEAN : NodeRuns(c, n, heard)
         \/ TimesOut(c, n)
         \/ Disconnects(c, n)
    \/ \E c \in Client :
         \/ attempt(c)
         \/ ClaimFails(c)
         \/ ClaimUnsafe(c)
         \/ ClaimSucceeds(c)
         \/ PublishFails(c)
         \/ PublishSucceeds(c)
         \/ UndoDone(c)
         \/ extend(c)
         \/ ExtendSucceeds(c)
         \/ ExtendFails(c)
         \/ DropDone(c)
         \/ release(c)
         \/ ReleaseDone(c)

Spec == Init /\ [][Next]_vars

-----------------------------------------------------------------------------
\* The handle tells its holder that it holds the lock: remainingMs() > 0 on a
\* handle nobody has released.
Holding(c) == live[c] /\ now < expiry[c]

\* Two handles never report the key as held at the same moment, however late
\* a command runs or is answered, as long as neither is inside the window of
\* extend() after it lost the quorum (extendEverywhere, extend).
MutualExclusion ==
    \A c, d \in Client :
        /\ Holding(c) /\ pc[c] # "dropping"
        /\ Holding(d) /\ pc[d] # "dropping"
        => c = d

\* An acquisition begun after another one had returned its handle draws a
\* strictly larger fencing token than that one, whatever quorums the two were
\* granted and published on (attempt, BUMP_FENCE).
LaterTokensLarger ==
    \A c \in Client : pc[c] = "held" => \A t \in floor[c] : token[c] > t

\* Every handle returned carries a token larger than every handle returned
\* before it: "a number that strictly increases with every successful
\* acquisition", concurrent attempts included.
TokensIncrease ==
    \A i, j \in DOMAIN issued : i < j => issued[i] < issued[j]

-----------------------------------------------------------------------------
(* A small instance.                                                         *)

\* Nodes are interchangeable, and so are clients.
Symmetry == Permutations(Node) \cup Permutations(Client)
=============================================================================
