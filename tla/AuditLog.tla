------------------------------ MODULE AuditLog -------------------------------
(***************************************************************************)
(* The audit chain (src/audit): AuditLog.record() appends to a hash chain   *)
(* inside the caller's transaction, under an advisory lock that the server  *)
(* releases when the transaction ends; AuditChainVerifier walks the         *)
(* committed rows page by page while appends go on.  The hash is an         *)
(* injective function of what auditEntryPreimage() covers; seq is the       *)
(* primary key, so a second row with one fails and dooms its transaction.   *)
(***************************************************************************)
EXTENDS Integers, Sequences, FiniteSets

CONSTANTS
    Transaction,     \* units of work that record something
    NoTransaction,
    MaxRecords,      \* bound: records per unit of work
    PageSize         \* VERIFY_PAGE_SIZE

VARIABLES
    entries,         \* the committed rows
    lock,            \* who holds the advisory lock
    tx,              \* tx[t]: where it stands, its own rows, the tail it read
    collided,        \* an insert met a row with its seq
    verifier         \* the walk: the entry checked last and the verdict

vars == <<entries, lock, tx, collided, verifier>>

FIRST_SEQ == 1
GENESIS_HASH == <<>>
auditEntryHash(seq, by, prevHash) == <<seq, by, prevHash>>
NoEntry == [seq |-> FIRST_SEQ - 1, by |-> NoTransaction, prevHash |-> GENESIS_HASH,
            hash |-> GENESIS_HASH]

sealAuditEntry(t, seq, prevHash) ==
    [seq |-> seq, by |-> t, prevHash |-> prevHash, hash |-> auditEntryHash(seq, t, prevHash)]

Init ==
    /\ entries = {} /\ lock = NoTransaction /\ collided = FALSE
    /\ tx = [t \in Transaction |-> [at |-> "work", own |-> {}, tail |-> NoEntry]]
    /\ verifier = [previous |-> NoEntry, verdict |-> "idle"]

Last(rows) == IF rows = {} THEN NoEntry ELSE CHOOSE e \in rows : \A f \in rows : f.seq <= e.seq

-----------------------------------------------------------------------------
(* append(): the lock, the tail, the row.                                  *)

Locking(t) ==
    /\ tx[t].at = "work" /\ Cardinality(tx[t].own) < MaxRecords
    /\ lock \in {NoTransaction, t}
    /\ tx' = [tx EXCEPT ![t].at = "locked"]
    /\ UNCHANGED <<entries, collided, verifier>>

\* Mutant: the lock ends with its statement and not with the transaction.
takeLockBriefly(t) == Locking(t) /\ UNCHANGED lock

takeLock(t) == Locking(t) /\ lock' = t

\* Through the transaction's client: the committed rows and its own.
readTail(t) ==
    /\ tx[t].at = "locked"
    /\ tx' = [tx EXCEPT ![t].at = "create", ![t].tail = Last(entries \cup tx[t].own)]
    /\ UNCHANGED <<entries, lock, collided, verifier>>

Ends(t) ==
    /\ tx' = [tx EXCEPT ![t] = [at |-> "ended", own |-> {}, tail |-> NoEntry]]
    /\ lock' = IF lock = t THEN NoTransaction ELSE lock

\* The insert waits for an uncommitted row with its key and fails on a committed one.
create(t) ==
    /\ tx[t].at = "create"
    /\ LET e == sealAuditEntry(t, tx[t].tail.seq + 1, tx[t].tail.hash) IN
       /\ \A u \in Transaction \ {t} : \A f \in tx[u].own : f.seq # e.seq
       /\ IF \E f \in entries : f.seq = e.seq
          THEN Ends(t) /\ collided' = TRUE
          ELSE /\ tx' = [tx EXCEPT ![t] = [at |-> "work", own |-> @.own \cup {e},
                                           tail |-> NoEntry]]
               /\ UNCHANGED <<lock, collided>>
    /\ UNCHANGED <<entries, verifier>>

commit(t) ==
    /\ tx[t].at = "work" /\ tx[t].own # {}
    /\ entries' = entries \cup tx[t].own
    /\ Ends(t)
    /\ UNCHANGED <<collided, verifier>>

\* The unit of work fails, before or after it recorded anything.
rollback(t) ==
    /\ tx[t].at # "ended"
    /\ Ends(t)
    /\ UNCHANGED <<entries, collided, verifier>>

-----------------------------------------------------------------------------
(* verify(): one read per page, rows after the last one checked.           *)

inspect(e, previous) ==
    /\ e.seq = previous.seq + 1
    /\ e.prevHash = previous.hash
    /\ e.hash = auditEntryHash(e.seq, e.by, e.prevHash)

startVerify ==
    /\ verifier.verdict # "walking"
    /\ verifier' = [previous |-> NoEntry, verdict |-> "walking"]
    /\ UNCHANGED <<entries, lock, tx, collided>>

verifyPage ==
    /\ verifier.verdict = "walking"
    /\ LET after == {e \in entries : e.seq > verifier.previous.seq}
           page == {e \in after : Cardinality({f \in after : f.seq < e.seq}) < PageSize}
           before(e) == Last({f \in page \cup {verifier.previous} : f.seq < e.seq})
       IN  verifier' =
              [previous |-> IF page = {} THEN verifier.previous ELSE Last(page),
               verdict |-> IF \E e \in page : ~inspect(e, before(e)) THEN "breach"
                           ELSE IF Cardinality(page) < PageSize THEN "intact" ELSE "walking"]
    /\ UNCHANGED <<entries, lock, tx, collided>>

Next ==
    \/ \E t \in Transaction :
          takeLock(t) \/ readTail(t) \/ create(t) \/ commit(t) \/ rollback(t)
    \/ startVerify \/ verifyPage

Spec == Init /\ [][Next]_vars

-----------------------------------------------------------------------------
\* Concurrent units of work, some of which roll back, never fork the chain, leave no
\* gap in it and never fail on each other's seq; so a walk beside them finds it
\* intact on every page (append, verify).
LinearChain ==
    /\ {e.seq : e \in entries} = 1 .. Cardinality(entries)
    /\ \A e \in entries : inspect(e, Last({f \in entries \cup {NoEntry} : f.seq < e.seq}))
    /\ ~collided
    /\ verifier.verdict # "breach"
=============================================================================
