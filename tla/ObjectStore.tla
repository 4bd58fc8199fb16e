---------------------------- MODULE ObjectStore ----------------------------
(***************************************************************************)
(* What StorageAdapter promises (src/src/storage/ports): a flat keyspace   *)
(* with whole-object writes, unconditional overwrite, idempotent delete    *)
(* and pages in key order.  The in-memory adapter and S3 are this: each    *)
(* call takes effect in one step.  LocalDisk.tla shows that the disk       *)
(* adapter implements the put, get and delete half of it.                  *)
(***************************************************************************)
EXTENDS Naturals, Sequences, FiniteSets

CONSTANTS
    KeyOrder,       \* the keys, in lexicographic order
    Op,             \* the calls made
    Work,           \* per call, its method and key
    Limits          \* the page sizes a caller may ask for

Key == {KeyOrder[i] : i \in DOMAIN KeyOrder}

VARIABLES
    objects,        \* per key, the put whose body is stored, or "none"
    applied,        \* the calls that have taken effect
    got,            \* per get, the body it answered with, or "none"
    scan            \* a caller paging through the store

storeVars == <<objects, applied, got, scan>>

LIST_OBJECTS_MAX_LIMIT == 2

\* list-options.ts: out of range is clamped, never refused.
clampListLimit(limit) ==
    IF limit < 1 THEN 1
    ELSE IF limit > LIST_OBJECTS_MAX_LIMIT THEN LIST_OBJECTS_MAX_LIMIT
    ELSE limit

NoScan == [cursor |-> 0, seen |-> <<>>, stayed |-> {}, open |-> FALSE]

Init ==
    /\ objects = [k \in Key |-> "none"]
    /\ applied = {}
    /\ got = [o \in Op |-> "pending"]
    /\ scan = NoScan

put(o) ==
    /\ Work[o].kind = "put" /\ o \notin applied
    /\ objects' = [objects EXCEPT ![Work[o].key] = o]
    /\ applied' = applied \cup {o}
    /\ UNCHANGED <<got, scan>>

\* Deleting a key that is not there is a success.
delete(o) ==
    /\ Work[o].kind = "delete" /\ o \notin applied
    /\ objects' = [objects EXCEPT ![Work[o].key] = "none"]
    /\ applied' = applied \cup {o}
    /\ scan' = [scan EXCEPT !.stayed = @ \ {Work[o].key}]
    /\ UNCHANGED got

\* The whole object, or ObjectNotFoundError.
get(o) ==
    /\ Work[o].kind = "get" /\ o \notin applied
    /\ got' = [got EXCEPT ![o] = objects[Work[o].key]]
    /\ applied' = applied \cup {o}
    /\ UNCHANGED <<objects, scan>>

matchingInclusive(cursor) ==
    SelectSeq([i \in DOMAIN KeyOrder |-> i],
              LAMBDA i : i >= cursor /\ objects[KeyOrder[i]] # "none")

\* The keys past the cursor, in order.
matching(cursor) ==
    SelectSeq([i \in DOMAIN KeyOrder |-> i],
              LAMBDA i : i > cursor /\ objects[KeyOrder[i]] # "none")

\* One page; nextCursor is the last key of it, or null on the last page.
list(asked) ==
    LET limit == clampListLimit(asked)
        rest == matching(scan.cursor)
        page == SubSeq(rest, 1, IF Len(rest) < limit THEN Len(rest) ELSE limit)
    IN  /\ ~scan.open \/ scan.cursor > 0
        /\ scan' = [cursor |-> IF Len(rest) > limit THEN page[Len(page)] ELSE 0,
                    seen |-> scan.seen \o page,
                    stayed |-> IF scan.open THEN scan.stayed
                               ELSE {k \in Key : objects[k] # "none"},
                    open |-> TRUE]
        /\ UNCHANGED <<objects, applied, got>>

Next ==
    \/ \E o \in Op : put(o) \/ delete(o) \/ get(o)
    \/ \E asked \in Limits : list(asked)

Spec == Init /\ [][Next]_storeVars

-----------------------------------------------------------------------------
(* Paging to the end sees every object that was there for the whole scan,  *)
(* sees none twice, and sees them in key order, whatever puts and deletes  *)
(* land between two pages (list; "the cursor is a position in that order").*)
PagesMissNothing ==
    /\ \A i, j \in DOMAIN scan.seen : i < j => scan.seen[i] < scan.seen[j]
    /\ scan.open /\ scan.cursor = 0 =>
            \A k \in scan.stayed : \E i \in DOMAIN scan.seen : KeyOrder[scan.seen[i]] = k
=============================================================================
