----------------------------- MODULE OutboxStore -----------------------------
(***************************************************************************)
(* What the outbox store promises (OutboxStore and the in-memory           *)
(* implementation of it): rows are claimed oldest first and by one drain    *)
(* at a time, and a drain settles its rows by what became of each delivery. *)
(* A drain that is lost settles nothing and lets its rows go.               *)
(***************************************************************************)
EXTENDS Naturals, FiniteSets

CONSTANTS Event,  \* numbered in the order they are staged
          Unknown, BatchSize, MaxAttempts

VARIABLES row,         \* per event: its status, attempts, and whether it is due
          claimed,     \* the rows some drain has
          copies       \* how often the broker holds the event

vars == <<row, claimed, copies>>

Init ==
    /\ row = [e \in Event |-> [status |-> "none", attempts |-> 0, due |-> TRUE]]
    /\ claimed = {}
    /\ copies = [e \in Event |-> 0]

Moves(e, from, to) == row[e].status = from /\ row' = [row EXCEPT ![e].status = to]

\* stage(), and the end of the transaction it was called in.
stage(e) ==
    /\ Moves(e, "none", "staged")
    /\ \A f \in Event : f < e => row[f].status # "none"
    /\ UNCHANGED <<claimed, copies>>

commit(e) == Moves(e, "staged", "PENDING") /\ UNCHANGED <<claimed, copies>>

onRollback(e) == Moves(e, "staged", "rolledBack") /\ UNCHANGED <<claimed, copies>>

due(e) ==
    /\ row[e].status = "PENDING" /\ row' = [row EXCEPT ![e].due = TRUE]
    /\ UNCHANGED <<claimed, copies>>

Claimable == {e \in Event : row[e].status = "PENDING" /\ row[e].due} \ claimed

\* drain() claims a batch before any delivery starts: rows with fewer than
\* BatchSize older ones waiting.
claim(S) ==
    /\ \A e \in S : /\ e \in Claimable
                     /\ Cardinality({f \in Claimable : f < e}) < BatchSize
    /\ claimed' = claimed \cup S
    /\ UNCHANGED <<row, copies>>

\* deliver(): the event is one whose transaction committed.
deliver(e) ==
    /\ e \notin Unknown /\ row[e].status \in {"PENDING", "PUBLISHED", "DEAD"}
    /\ copies' = [copies EXCEPT ![e] = @ + 1]
    /\ UNCHANGED <<row, claimed>>

\* What deliverOne() may make of a row.
Outcomes(e) ==
    LET tried(status, isDue) ==
          [status |-> status, attempts |-> row[e].attempts + 1, due |-> isDue]
    IN  IF e \in Unknown THEN {tried("DEAD", TRUE)}
        ELSE (IF copies[e] > 0 THEN {tried("PUBLISHED", TRUE)} ELSE {})
             \cup (IF row[e].attempts + 1 < MaxAttempts THEN {tried("PENDING", FALSE)}
                   ELSE {tried("DEAD", TRUE)})

\* The drain ends.
settle(S) ==
    /\ S \subseteq claimed
    /\ claimed' = claimed \ S
    /\ \A e \in Event : IF e \in S THEN row'[e] \in Outcomes(e) ELSE row'[e] = row[e]
    /\ UNCHANGED <<copies>>

\* The drain is lost.
release(S) ==
    /\ S \subseteq claimed
    /\ claimed' = claimed \ S
    /\ UNCHANGED <<row, copies>>

Next ==
    \/ \E e \in Event : stage(e) \/ commit(e) \/ onRollback(e) \/ due(e) \/ deliver(e)
    \/ \E S \in SUBSET Event : claim(S) \/ settle(S) \/ release(S)

Spec == Init /\ [][Next]_vars
=============================================================================
