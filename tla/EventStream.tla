----------------------------- MODULE EventStream -----------------------------
(***************************************************************************)
(* The server-sent event stream (src/streaming): EventStreamHub numbers     *)
(* domain events, keeps the last few in a ReplayBuffer and pushes them to   *)
(* the open streams.  Every frame carries a cursor, which the client sends  *)
(* back when it reconnects; the hub replays what it missed or announces a   *)
(* gap.  A subscription runs synchronously from the opening frame to the    *)
(* live tail, so connect() is one step.  A connection loses the frames      *)
(* still on the wire, the process restarts with a new epoch, and the server *)
(* may notice late that a client has gone.                                  *)
(***************************************************************************)
EXTENDS Integers, Sequences

CONSTANTS
    Client,           \* the clients, each with one stream at a time
    Stranger,         \* a user who is no client
    replayBufferSize, maxConnections,
    MaxSeq,           \* bound: events per process
    MaxEpoch,         \* bound: processes, one after the other
    MaxWire           \* bound: no heartbeat is sent on a wire this long

VARIABLES
    epoch,            \* the running process
    log,              \* log[e]: the events of process e, each the user it is about
    slots, appended,  \* the ReplayBuffer: a ring of entries, and how many came
    open,             \* the hub's count of connections
    stopping,         \* onApplicationShutdown() has run
    gone,             \* streams the client left and the server has not closed
    admin,            \* the clients whose role is ADMIN
    stream,           \* stream[c]: "none", "live" or "closing"
    cursor,           \* cursor[c]: the live stream's local of that name
    wire,             \* wire[c]: frames sent and not yet received
    lastId,           \* lastId[c]: the client's Last-Event-ID
    base,             \* base[c]: where the stream it can rely on began
    got               \* got[c]: the events it received since

vars == <<epoch, log, slots, appended, open, stopping, gone, admin, stream,
          cursor, wire, lastId, base, got>>

NoId == [epoch |-> 0, seq |-> 0]      \* no header
Garbled == [epoch |-> 0, seq |-> 1]   \* one that parseCursor() refuses
seq == Len(log[epoch])
Id(n) == [epoch |-> epoch, seq |-> n]
Frame(kind, n) == [kind |-> kind, id |-> Id(n)]

Init ==
    /\ epoch = 1 /\ log = [e \in 1 .. MaxEpoch |-> <<>>]
    /\ slots = [i \in 0 .. replayBufferSize - 1 |-> 0] /\ appended = 0
    /\ open = 0 /\ stopping = FALSE /\ gone = 0
    /\ admin \in SUBSET Client
    /\ stream = [c \in Client |-> "none"]
    /\ cursor = [c \in Client |-> 0] /\ base = [c \in Client |-> 0]
    /\ wire = [c \in Client |-> <<>>] /\ got = [c \in Client |-> <<>>]
    /\ lastId \in [Client -> {NoId, Garbled}]

isVisibleTo(user, c) == c \in admin \/ user = c

-----------------------------------------------------------------------------
(* The ring.  An entry is its sequence number; 0 is an empty slot.         *)

append(n) ==
    /\ slots' = [slots EXCEPT ![appended % replayBufferSize] = n]
    /\ appended' = appended + 1

oldestIndex == IF appended > replayBufferSize THEN appended - replayBufferSize ELSE 0
oldestSeq == slots[oldestIndex % replayBufferSize]
since(n) ==
    SelectSeq([i \in 1 .. appended - oldestIndex |->
                  slots[(oldestIndex + i - 1) % replayBufferSize]],
              LAMBDA s : s > n)

-----------------------------------------------------------------------------
Resumed(n) == [from |-> n, backlog |-> since(n), gap |-> FALSE]
Live == [from |-> seq, backlog |-> <<>>, gap |-> TRUE]

\* Mutant: the oldest entry is taken for the one before it.
resolveResumeLate(id) ==
    IF \/ id \in {NoId, Garbled}
       \/ id.epoch # epoch
       \/ id.seq > seq
       \/ oldestSeq # 0 /\ id.seq < oldestSeq - 2
    THEN Live ELSE Resumed(id.seq)

resolveResume(id) ==
    IF \/ id \in {NoId, Garbled}
       \/ id.epoch # epoch
       \/ id.seq > seq
       \/ oldestSeq # 0 /\ id.seq < oldestSeq - 1
    THEN Live ELSE Resumed(id.seq)

EventFrames(c, entries) ==
    LET seen == SelectSeq(entries, LAMBDA s : isVisibleTo(log[epoch][s], c))
    IN  [i \in 1 .. Len(seen) |-> Frame("event", seen[i])]

\* The opening frame, the backlog and the live tail; once the hub is stopping,
\* the opening frame and the farewell.
connect(c) ==
    /\ stream[c] = "none" /\ open < maxConnections
    /\ LET r == resolveResume(lastId[c])
           opening == Frame(IF r.gap THEN "restart" ELSE "resume", r.from)
       IN  IF stopping
           THEN /\ stream' = [stream EXCEPT ![c] = "closing"]
                /\ wire' = [wire EXCEPT ![c] = <<opening, Frame("closing", r.from)>>]
                /\ UNCHANGED <<admin, open, cursor>>
           ELSE /\ stream' = [stream EXCEPT ![c] = "live"]
                /\ wire' = [wire EXCEPT ![c] = <<opening>> \o EventFrames(c, r.backlog)]
                /\ cursor' = [cursor EXCEPT ![c] =
                                 IF r.backlog = <<>> THEN r.from ELSE r.backlog[Len(r.backlog)]]
                /\ open' = open + 1
    /\ UNCHANGED <<admin, epoch, log, slots, appended, stopping, gone, lastId, base, got>>

\* Numbered, kept, pushed to every live stream; the cursor moves on for the
\* events the client may not see as well.
record(user) ==
    /\ seq < MaxSeq
    /\ log' = [log EXCEPT ![epoch] = Append(@, user)]
    /\ append(seq + 1)
    /\ cursor' = [c \in Client |-> IF stream[c] = "live" THEN seq + 1 ELSE cursor[c]]
    /\ wire' = [c \in Client |->
                   IF stream[c] = "live" /\ isVisibleTo(user, c)
                   THEN Append(wire[c], Frame("event", seq + 1)) ELSE wire[c]]
    /\ UNCHANGED <<admin, epoch, open, stopping, gone, stream, lastId, base, got>>

heartbeat(c) ==
    /\ stream[c] = "live" /\ Len(wire[c]) < MaxWire
    /\ wire' = [wire EXCEPT ![c] = Append(@, Frame("heartbeat", cursor[c]))]
    /\ UNCHANGED <<admin, epoch, log, slots, appended, open, stopping, gone, stream, cursor,
                   lastId, base, got>>

\* Every stream completes with a farewell, those nobody reads included.
onApplicationShutdown ==
    /\ ~stopping /\ stopping' = TRUE
    /\ open' = 0 /\ gone' = 0
    /\ stream' = [c \in Client |-> IF stream[c] = "live" THEN "closing" ELSE stream[c]]
    /\ wire' = [c \in Client |->
                   IF stream[c] = "live"
                   THEN Append(wire[c], Frame("closing", cursor[c])) ELSE wire[c]]
    /\ UNCHANGED <<admin, epoch, log, slots, appended, cursor, lastId, base, got>>

\* The process exits, orderly or not, and a new one starts.
Restart ==
    /\ epoch < MaxEpoch /\ epoch' = epoch + 1
    /\ slots' = [i \in DOMAIN slots |-> 0] /\ appended' = 0
    /\ open' = 0 /\ gone' = 0 /\ stopping' = FALSE
    /\ stream' = [c \in Client |-> "none"] /\ wire' = [c \in Client |-> <<>>]
    /\ UNCHANGED <<admin, log, cursor, lastId, base, got>>

-----------------------------------------------------------------------------
(* The client, an EventSource.                                             *)

Receive(c) ==
    /\ wire[c] # <<>>
    /\ LET f == Head(wire[c]) IN
       /\ lastId' = [lastId EXCEPT ![c] = f.id]
       /\ base' = IF f.kind = "restart" THEN [base EXCEPT ![c] = f.id.seq] ELSE base
       /\ got' = CASE f.kind = "restart" -> [got EXCEPT ![c] = <<>>]
                   [] f.kind = "event" -> [got EXCEPT ![c] = Append(@, f.id.seq)]
                   [] OTHER -> got
    /\ wire' = [wire EXCEPT ![c] = Tail(@)]
    /\ UNCHANGED <<admin, epoch, log, slots, appended, open, stopping, gone, stream, cursor>>

\* The connection breaks, with frames on the wire; or the closed stream ends.
Disconnect(c) ==
    /\ stream[c] # "none"
    /\ stream' = [stream EXCEPT ![c] = "none"] /\ wire' = [wire EXCEPT ![c] = <<>>]
    /\ gone' = IF stream[c] = "live" THEN gone + 1 ELSE gone
    /\ UNCHANGED <<admin, epoch, log, slots, appended, open, stopping, cursor, lastId, base, got>>

\* finalize() of a stream whose client has gone.
finalize ==
    /\ gone > 0 /\ gone' = gone - 1 /\ open' = open - 1
    /\ UNCHANGED <<admin, epoch, log, slots, appended, stopping, stream, cursor, wire, lastId,
                   base, got>>

Next ==
    \/ \E c \in Client : connect(c) \/ heartbeat(c) \/ Receive(c) \/ Disconnect(c)
    \/ \E user \in Client \cup {Stranger} : record(user)
    \/ onApplicationShutdown \/ Restart \/ finalize

Spec == Init /\ [][Next]_vars

-----------------------------------------------------------------------------
\* However often a client lost its connection, and whichever frames were lost with
\* it, it has received exactly the events it may see between the last announced
\* start and its Last-Event-ID, each once and in order: a resume neither skips nor
\* repeats one, and where the ring no longer reaches back the opening frame says so
\* (connect, resolveResume, ReplayBuffer.since).
NothingMissed ==
    \A c \in Client : lastId[c] \notin {NoId, Garbled} =>
        got[c] = SelectSeq([i \in 1 .. lastId[c].seq - base[c] |-> base[c] + i],
                           LAMBDA s : isVisibleTo(log[lastId[c].epoch][s], c))
=============================================================================
