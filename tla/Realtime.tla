------------------------------ MODULE Realtime -------------------------------
(***************************************************************************)
(* The WebSocket gateway (src/realtime): RealtimeGateway keeps the open     *)
(* connections in a ConnectionRegistry, indexed by room, and writes to each *)
(* through a BackpressuredSocket, which drops frames while the peer is      *)
(* behind and tells it how many when it has caught up.  Every handler runs  *)
(* to its end without an await, so each is one step; between the steps      *)
(* peers read, stall, vanish, and time passes.                              *)
(***************************************************************************)
EXTENDS Integers, FiniteSets, Sequences

CONSTANTS
    Socket,            \* the sockets that may be opened, each once
    User,              \* the accounts; user:<id> is a room
    Topic,             \* the room events:<name>
    Unknown,           \* a room name parseRoom() refuses
    Upgrades,          \* upgrade requests: their headers, what their token is, and whose
    Capacities,        \* what maxConnections may be
    maxRooms,
    highWaterMark,     \* in frames
    grace,             \* slowConsumerGraceMs
    MaxNow,            \* bound: the clock
    MaxSends           \* bound: broadcasts and room frames

VARIABLES
    maxConnections, now,
    conn,              \* conn[s]: the socket and its BackpressuredSocket
    registered,        \* bySocket
    rooms,             \* rooms[s] of the RealtimeConnection
    byRoom,            \* byRoom[r]: the index
    account,           \* account[s]: who the handshake says it is, and the role
    awaitingPong,
    sweeping,          \* the heartbeat interval is set
    sends              \* broadcasts and room frames so far

vars == <<maxConnections, now, conn, registered, rooms, byRoom, account, awaitingPong, sweeping, sends>>

Room == User \cup {Topic}
Null == -1
lowWaterMark == highWaterMark \div 2

\* untold counts the frames dropped that no lagged frame has told the peer of.
NewConn == [state |-> "none", buffered |-> 0, laggingSince |-> Null, dropped |-> 0,
            untold |-> 0]
NoAccount == [id |-> Unknown, admin |-> FALSE]
isOpen(w) == w.state = "open"

Init ==
    /\ maxConnections \in Capacities /\ now = 0 /\ sends = 0 /\ sweeping = TRUE
    /\ conn = [s \in Socket |-> NewConn]
    /\ registered = {} /\ awaitingPong = {}
    /\ rooms = [s \in Socket |-> {}] /\ byRoom = [r \in Room |-> {}]
    /\ account = [s \in Socket |-> NoAccount]

-----------------------------------------------------------------------------
(* BackpressuredSocket, as functions of its state.                         *)

write(w) == [w EXCEPT !.buffered = @ + 1]

closeSlow(w) ==
    [w EXCEPT !.state = "closing", !.laggingSince = Null]

graceOver(w) == now - w.laggingSince >= grace

stayLagging(w) ==
    LET d == [w EXCEPT !.dropped = @ + 1, !.untold = @ + 1]
    IN  IF graceOver(w) THEN closeSlow(d) ELSE d

\* Mutant: the peer is not told.
recoverQuietly(w) == [w EXCEPT !.laggingSince = Null, !.dropped = 0]

recover(w) ==
    write([w EXCEPT !.laggingSince = Null, !.dropped = 0, !.untold = @ - w.dropped])

send(w) ==
    CASE ~isOpen(w) -> w
      [] isOpen(w) /\ w.laggingSince # Null /\ w.buffered > lowWaterMark -> stayLagging(w)
      [] isOpen(w) /\ w.laggingSince # Null /\ w.buffered <= lowWaterMark -> write(recover(w))
      [] isOpen(w) /\ w.laggingSince = Null /\ w.buffered > highWaterMark ->
            stayLagging([w EXCEPT !.laggingSince = now, !.dropped = 0])
      [] OTHER -> write(w)

review(w) ==
    CASE ~isOpen(w) \/ w.laggingSince = Null -> w
      [] isOpen(w) /\ w.laggingSince # Null /\ graceOver(w) -> closeSlow(w)
      [] isOpen(w) /\ w.laggingSince # Null /\ ~graceOver(w) /\ w.buffered <= lowWaterMark ->
            recover(w)
      [] OTHER -> w

close(w) == IF isOpen(w) THEN [w EXCEPT !.state = "closing"] ELSE w
sendUnconditionally(w) == IF isOpen(w) THEN write(w) ELSE w

-----------------------------------------------------------------------------
(* The handshake.                                                          *)

\* An Authorization header is taken as it is; without one, a pair of offered
\* subprotocols is; a token in the query is refused like none at all.
readHandshakeCredentials(u) ==
    CASE u.authorization = "bearer" -> "ok"
      [] u.authorization = "other" -> "malformed-credentials"
      [] u.authorization = "none" /\ u.offered # <<>> ->
            IF Len(u.offered) = 2 /\ u.offered[1] = "bearer" THEN "ok"
            ELSE "malformed-credentials"
      [] OTHER -> IF u.tokenInQuery THEN "token-in-query" ELSE "missing-credentials"

\* The principal comes from a token this service signed as an access token.
authenticateHandshake(u) ==
    CASE readHandshakeCredentials(u) # "ok" -> readHandshakeCredentials(u)
      [] readHandshakeCredentials(u) = "ok" /\ u.token = "invalid" -> "invalid-token"
      [] readHandshakeCredentials(u) = "ok" /\ u.token = "foreign" -> "unexpected-claims"
      [] OTHER -> "ok"

-----------------------------------------------------------------------------
(* RealtimeGateway over ConnectionRegistry.                                *)

\* join() and leave(), add() and remove(): both directions together.
index(s, names) == [r \in Room |-> IF r \in names THEN byRoom[r] \cup {s} ELSE byRoom[r]]
deindex(s, names) == [r \in Room |-> IF r \in names THEN byRoom[r] \ {s} ELSE byRoom[r]]

defaultRoomsFor(principal) == {principal.id}
roomsFor(user) == {user, Topic}

canJoin(s, r) == account[s].admin \/ r = account[s].id
isVisibleTo(user, s) == account[s].admin \/ user = account[s].id

\* A handshake that fails, and then a socket beyond capacity, is closed and
\* never registered.
handleConnection(s, upgrade) ==
    /\ conn[s].state = "none"
    /\ IF authenticateHandshake(upgrade) # "ok" \/ Cardinality(registered) >= maxConnections
       THEN /\ conn' = [conn EXCEPT ![s].state = "closing"]
            /\ UNCHANGED <<registered, rooms, byRoom, account>>
       ELSE /\ account' = [account EXCEPT ![s] = upgrade.principal]
            /\ registered' = registered \cup {s}
            /\ rooms' = [rooms EXCEPT ![s] = defaultRoomsFor(upgrade.principal)]
            /\ byRoom' = index(s, defaultRoomsFor(upgrade.principal))
            /\ conn' = [conn EXCEPT ![s] = send([NewConn EXCEPT !.state = "open"])]
    /\ UNCHANGED <<maxConnections, now, awaitingPong, sweeping, sends>>

\* The close event of a socket either side has closed.
handleDisconnect(s) ==
    /\ conn[s].state = "closing"
    /\ conn' = [conn EXCEPT ![s].state = "closed"]
    /\ registered' = registered \ {s}
    /\ byRoom' = deindex(s, rooms[s])
    /\ rooms' = [rooms EXCEPT ![s] = {}]
    /\ awaitingPong' = awaitingPong \ {s}
    /\ UNCHANGED <<maxConnections, now, account, sweeping, sends>>

\* All of the rooms or none.
parseRooms(s, names) ==
    names # {} /\ Cardinality(names) <= maxRooms /\ names \subseteq Room

handleSubscribe(s, names) ==
    /\ s \in registered /\ sends < MaxSends /\ sends' = sends + 1
    /\ IF /\ parseRooms(s, names)
          /\ \A r \in names : canJoin(s, r)
          /\ Cardinality(rooms[s] \cup names) <= maxRooms
       THEN /\ rooms' = [rooms EXCEPT ![s] = @ \cup names]
            /\ byRoom' = index(s, names)
       ELSE UNCHANGED <<rooms, byRoom>>
    /\ conn' = [conn EXCEPT ![s] = send(@)]
    /\ UNCHANGED <<maxConnections, now, registered, account, awaitingPong, sweeping>>

handleUnsubscribe(s, names) ==
    /\ s \in registered /\ sends < MaxSends /\ sends' = sends + 1
    /\ IF parseRooms(s, names)
       THEN /\ rooms' = [rooms EXCEPT ![s] = @ \ names]
            /\ byRoom' = deindex(s, names)
       ELSE UNCHANGED <<rooms, byRoom>>
    /\ conn' = [conn EXCEPT ![s] = send(@)]
    /\ UNCHANGED <<maxConnections, now, registered, account, awaitingPong, sweeping>>

\* One frame for every member of one of the event's rooms who may see it.
broadcast(user) ==
    /\ sends < MaxSends /\ sends' = sends + 1
    /\ conn' = [s \in Socket |->
                   IF (\E r \in roomsFor(user) : s \in byRoom[r]) /\ isVisibleTo(user, s)
                   THEN send(conn[s]) ELSE conn[s]]
    /\ UNCHANGED <<maxConnections, now, registered, rooms, byRoom, account, awaitingPong, sweeping>>

\* Reviews every connection; one that is still open and owes a pong is
\* terminated, any other is pinged.
runSweep ==
    /\ sweeping
    /\ LET reviewed == [s \in Socket |-> IF s \in registered THEN review(conn[s]) ELSE conn[s]]
           alive == {s \in registered : isOpen(reviewed[s])}
       IN  /\ conn' = [s \in Socket |->
                          IF s \in alive \cap awaitingPong
                          THEN [reviewed[s] EXCEPT !.state = "closing"] ELSE reviewed[s]]
           /\ awaitingPong' = awaitingPong \cup alive
    /\ UNCHANGED <<maxConnections, now, registered, rooms, byRoom, account, sweeping, sends>>

pong(s) ==
    /\ s \in awaitingPong /\ isOpen(conn[s])
    /\ awaitingPong' = awaitingPong \ {s}
    /\ UNCHANGED <<maxConnections, now, conn, registered, rooms, byRoom, account, sweeping, sends>>

beforeApplicationShutdown ==
    /\ sweeping /\ sweeping' = FALSE
    /\ conn' = [s \in Socket |->
                   IF s \in registered THEN close(sendUnconditionally(conn[s])) ELSE conn[s]]
    /\ UNCHANGED <<maxConnections, now, registered, rooms, byRoom, account, awaitingPong, sends>>

-----------------------------------------------------------------------------
(* The peers and the clock.                                                *)

Drains(s) ==
    /\ conn[s].buffered > 0 /\ isOpen(conn[s])
    /\ conn' = [conn EXCEPT ![s].buffered = 0]
    /\ UNCHANGED <<maxConnections, now, registered, rooms, byRoom, account, awaitingPong, sweeping, sends>>

Leaves(s) ==
    /\ isOpen(conn[s])
    /\ conn' = [conn EXCEPT ![s] = close(@)]
    /\ UNCHANGED <<maxConnections, now, registered, rooms, byRoom, account, awaitingPong, sweeping, sends>>

tick ==
    /\ now < MaxNow /\ now' = now + 1
    /\ UNCHANGED <<maxConnections, conn, registered, rooms, byRoom, account, awaitingPong, sweeping, sends>>

Next ==
    \/ \E s \in Socket :
          \/ \E upgrade \in Upgrades : handleConnection(s, upgrade)
          \/ handleDisconnect(s) \/ pong(s) \/ Drains(s) \/ Leaves(s)
          \/ \E names \in SUBSET (Room \cup {Unknown}) :
                handleSubscribe(s, names) \/ handleUnsubscribe(s, names)
    \/ \E user \in User : broadcast(user)
    \/ runSweep \/ beforeApplicationShutdown \/ tick

Spec == Init /\ [][Next]_vars

-----------------------------------------------------------------------------
\* No frame is lost silently: while a connection is open and not lagging, the peer
\* has been told of every frame that was dropped, and while it lags the count it
\* will be told is the number it missed (send, stayLagging, recover).
NoSilentLoss ==
    \A s \in Socket : isOpen(conn[s]) =>
        conn[s].untold = (IF conn[s].laggingSince = Null THEN 0 ELSE conn[s].dropped)

\* The index a broadcast walks names exactly the registered connections that are
\* in the room, within both limits, whatever the order of joins, leaves, closes
\* and refusals (ConnectionRegistry.add, remove, join, leave).
IndexConsistent ==
    /\ Cardinality(registered) <= maxConnections
    /\ \A s \in registered : Cardinality(rooms[s]) <= maxRooms
    /\ \A r \in Room : byRoom[r] = {s \in registered : r \in rooms[s]}
=============================================================================
