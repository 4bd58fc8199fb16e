------------------------------- MODULE Outbox -------------------------------
(***************************************************************************)
(* The transactional outbox (src/outbox): operations stage an event in     *)
(* their own transaction; relays drain the table to a broker.              *)
(*                                                                         *)
(* A drain is one database transaction: it claims a batch with             *)
(* FOR UPDATE SKIP LOCKED, publishes row by row, and its row updates take  *)
(* effect when it commits.  It may instead be lost: the process dies, or   *)
(* the transaction outlives DRAIN_TIMEOUT_MS and is rolled back under a    *)
(* relay that goes on publishing until its next statement fails.           *)
(***************************************************************************)
EXTENDS Integers, FiniteSets

CONSTANTS
    Event,        \* the events operations may stage, numbered by occurredAt
    Relay,        \* replicas that run a relay
    Unknown,      \* events whose name is not in the relays' catalogue
    Staying,      \* relays that are never shut down
    BatchSize,    \* OUTBOX_BATCH_SIZE
    MaxAttempts,  \* OUTBOX_MAX_ATTEMPTS
    MaxFaults     \* bound: rejected publishes, timeouts, lost transactions

ASSUME OutboxAssumption ==
    /\ Event \subseteq Nat /\ Unknown \subseteq Event /\ Staying \subseteq Relay
    /\ "free" \notin Relay
    /\ BatchSize \in Nat \ {0} /\ MaxAttempts \in Nat \ {0} /\ MaxFaults \in Nat

VARIABLES
    row,        \* row[e]: the outbox row
    lock,       \* lock[e]: the relay whose transaction holds the row, or Free
    batch,      \* batch[r]: claimed rows not yet tried
    writes,     \* writes[r]: the updates of the relay's open transaction
    mode,       \* mode[r]: waiting, draining, expired
    stopped,    \* onModuleDestroy() has run
    late,       \* publishes abandoned by the relay that may still land
    copies,     \* copies[e]: how often the broker holds the event
    excuses,    \* history: deliveries that were not recorded as such
    faults

relayVars == <<batch, writes, mode, stopped>>
vars == <<row, lock, relayVars, late, copies, excuses, faults>>

Free == "free"
Nothing == [e \in {} |-> 0]
NewRow == [status |-> "none", attempts |-> 0, due |-> TRUE]
Statuses == {"none", "staged", "rolledBack", "PENDING", "PUBLISHED", "DEAD"}

Init ==
    /\ row = [e \in Event |-> NewRow]
    /\ lock = [e \in Event |-> Free]
    /\ batch = [r \in Relay |-> {}]
    /\ writes = [r \in Relay |-> Nothing]
    /\ mode = [r \in Relay |-> "waiting"]
    /\ stopped = [r \in Relay |-> FALSE]
    /\ late = {}
    /\ copies = [e \in Event |-> 0]
    /\ excuses = [e \in Event |-> 0]
    /\ faults = 0

Fault == faults < MaxFaults /\ faults' = faults + 1

-----------------------------------------------------------------------------
(* The operations that stage.                                              *)

\* stage(): the row is inserted in the caller's transaction, stamped now.
stage(e) ==
    /\ row[e].status = "none"
    /\ \A f \in Event : f < e => row[f].status # "none"
    /\ row' = [row EXCEPT ![e].status = "staged"]
    /\ UNCHANGED <<lock, relayVars, late, copies, excuses, faults>>

\* The transaction the event was staged in commits, or rolls back.
TransactionEnds(e) ==
    /\ row[e].status = "staged"
    /\ \E s \in {"PENDING", "rolledBack"} : row' = [row EXCEPT ![e].status = s]
    /\ UNCHANGED <<lock, relayVars, late, copies, excuses, faults>>

\* A row's nextAttemptAt has come.
Due(e) ==
    /\ row[e].status = "PENDING"
    /\ ~row[e].due
    /\ row' = [row EXCEPT ![e].due = TRUE]
    /\ UNCHANGED <<lock, relayVars, late, copies, excuses, faults>>

-----------------------------------------------------------------------------
(* The relay.                                                              *)

\* Mutant: the claim has no FOR UPDATE SKIP LOCKED.
ClaimableUnlocked(e) == row[e].status = "PENDING" /\ row[e].due

\* Mutant: dead rows are taken up again.
ClaimableDead(e) == row[e].status \in {"PENDING", "DEAD"} /\ row[e].due /\ lock[e] = Free

\* The rows the claim's WHERE clause and SKIP LOCKED leave.
Claimable(e) == row[e].status = "PENDING" /\ row[e].due /\ lock[e] = Free

\* claim(): the oldest BatchSize of them, by occurredAt.
Claimed ==
    {e \in Event : /\ Claimable(e)
                  /\ Cardinality({f \in Event : Claimable(f) /\ f < e}) < BatchSize}

\* tick(), runOnce(), drain(): the transaction opens and claims its batch.
drain(r) ==
    /\ mode[r] = "waiting"
    /\ ~stopped[r]
    /\ Claimed # {}
    /\ batch' = [batch EXCEPT ![r] = Claimed]
    /\ lock' = [e \in Event |-> IF e \in Claimed THEN r ELSE lock[e]]
    /\ mode' = [mode EXCEPT ![r] = "draining"]
    /\ UNCHANGED <<row, writes, stopped, late, copies, excuses, faults>>

\* What a failed delivery writes: retryAt() answers null once the ladder is
\* exhausted, and the row is marked DEAD.
Retry(e) ==
    LET attempts == row[e].attempts + 1
    IN  IF attempts >= MaxAttempts
        THEN [status |-> "DEAD", attempts |-> attempts, due |-> TRUE]
        ELSE [status |-> "PENDING", attempts |-> attempts, due |-> FALSE]

\* What a delivery that resolved writes.
Published(e) == [status |-> "PUBLISHED", attempts |-> row[e].attempts + 1, due |-> TRUE]

\* An event this build does not know is dead at once.
markDead(e) == [status |-> "DEAD", attempts |-> row[e].attempts + 1, due |-> TRUE]

Arrives(e) == copies' = [copies EXCEPT ![e] = @ + 1]

\* An open transaction's updates, and one more.
Written(updates, e, w) ==
    [f \in DOMAIN updates \cup {e} |-> IF f = e THEN w ELSE updates[f]]

\* The statement after the publish: a write of the open transaction, or, in
\* one already rolled back, the error that ends the drain.
Records(r, e, w) ==
    IF mode[r] = "draining"
    THEN /\ writes' = [writes EXCEPT ![r] = Written(@, e, w)]
         /\ batch' = [batch EXCEPT ![r] = @ \ {e}]
         /\ UNCHANGED <<mode, excuses>>
    ELSE /\ mode' = [mode EXCEPT ![r] = "waiting"]
         /\ batch' = [batch EXCEPT ![r] = {}]
         /\ excuses' = [excuses EXCEPT ![e] = IF w.status = "PUBLISHED" THEN @ + 1 ELSE @]
         /\ UNCHANGED writes

\* The row the relay delivers next: they are taken oldest first.
IsNext(r, e) == e \in batch[r] /\ \A f \in batch[r] : e <= f

\* deliverOne() for the next row of the batch.
deliverOne(r) ==
    /\ mode[r] # "waiting"
    /\ \E e \in Event :
         /\ IsNext(r, e)
         /\ \/ /\ e \in Unknown
               /\ Records(r, e, markDead(e))
               /\ UNCHANGED <<late, copies, faults>>
            \/ /\ e \notin Unknown
               /\ Arrives(e)
               /\ Records(r, e, Published(e))
               /\ UNCHANGED <<late, faults>>
            \/ /\ e \notin Unknown
               /\ Fault
               /\ Records(r, e, Retry(e))
               /\ late' \in {late, late \cup {e}}
               /\ UNCHANGED copies
    /\ UNCHANGED <<row, lock, stopped>>

\* A publish the relay gave up on, or was told had failed, lands after all.
LandsLate(e) ==
    /\ e \in late
    /\ late' = late \ {e}
    /\ Arrives(e)
    /\ excuses' = [excuses EXCEPT ![e] = @ + 1]
    /\ UNCHANGED <<row, lock, relayVars, faults>>

Unlock(r) == lock' = [e \in Event |-> IF lock[e] = r THEN Free ELSE lock[e]]

\* The transaction commits: every write of it takes effect.
Commit(r) ==
    /\ mode[r] = "draining"
    /\ batch[r] = {}
    /\ row' = [e \in Event |-> IF e \in DOMAIN writes[r] THEN writes[r][e] ELSE row[e]]
    /\ writes' = [writes EXCEPT ![r] = Nothing]
    /\ mode' = [mode EXCEPT ![r] = "waiting"]
    /\ Unlock(r)
    /\ UNCHANGED <<batch, stopped, late, copies, excuses, faults>>

\* The deliveries of a transaction that is rolled back are not recorded.
Unrecorded(r) ==
    excuses' = [e \in Event |->
                  IF e \in DOMAIN writes[r] /\ writes[r][e].status = "PUBLISHED"
                  THEN excuses[e] + 1 ELSE excuses[e]]

\* Mutant: tick() schedules the next pass only after one that succeeded.
AbortsForGood(r) ==
    /\ mode[r] # "waiting"
    /\ Fault
    /\ mode' = [mode EXCEPT ![r] = "waiting"]
    /\ batch' = [batch EXCEPT ![r] = {}]
    /\ writes' = [writes EXCEPT ![r] = Nothing]
    /\ stopped' = [stopped EXCEPT ![r] = TRUE]
    /\ Unlock(r)
    /\ Unrecorded(r)
    /\ UNCHANGED <<row, late, copies>>

\* The transaction is rolled back: the process died (and its supervisor
\* starts another), or the commit failed.  A publish in flight may still land.
Aborts(r) ==
    /\ mode[r] # "waiting"
    /\ Fault
    /\ mode' = [mode EXCEPT ![r] = "waiting"]
    /\ batch' = [batch EXCEPT ![r] = {}]
    /\ writes' = [writes EXCEPT ![r] = Nothing]
    /\ late' \in {late} \cup {late \cup ({e} \ Unknown) : e \in {f \in Event : IsNext(r, f)}}
    /\ Unlock(r)
    /\ Unrecorded(r)
    /\ UNCHANGED <<row, stopped, copies>>

\* DRAIN_TIMEOUT_MS passes while a publish is in flight: the database rolls
\* the transaction back and frees its rows; the relay does not know yet.
Expires(r) ==
    /\ mode[r] = "draining"
    /\ batch[r] # {}
    /\ Fault
    /\ mode' = [mode EXCEPT ![r] = "expired"]
    /\ writes' = [writes EXCEPT ![r] = Nothing]
    /\ Unlock(r)
    /\ Unrecorded(r)
    /\ UNCHANGED <<row, batch, stopped, late, copies>>

\* onModuleDestroy(): a drain in flight finishes; no other is scheduled.
onModuleDestroy(r) ==
    /\ r \notin Staying
    /\ ~stopped[r]
    /\ stopped' = [stopped EXCEPT ![r] = TRUE]
    /\ UNCHANGED <<row, lock, batch, writes, mode, late, copies, excuses, faults>>

Next ==
    \/ \E e \in Event : stage(e) \/ TransactionEnds(e) \/ Due(e) \/ LandsLate(e)
    \/ \E r \in Relay : \/ drain(r) \/ deliverOne(r) \/ Commit(r)
                        \/ Aborts(r) \/ Expires(r) \/ onModuleDestroy(r)

\* Timers fire, a publish settles within its timeout, transactions commit
\* unless a fault strikes, and a relay keeps polling.
Fairness ==
    /\ \A e \in Event : WF_vars(Due(e))
    /\ \A r \in Relay : WF_vars(drain(r) \/ deliverOne(r) \/ Commit(r))

Spec == Init /\ [][Next]_vars
LiveSpec == Spec /\ Fairness

-----------------------------------------------------------------------------

Contract == INSTANCE OutboxStore WITH claimed <- {e \in Event : lock[e] # Free}

\* However many relays drain, time out, crash and publish late, what happens to
\* the table and the broker is what the store's contract allows: an event is
\* delivered only once its transaction committed, a row is marked PUBLISHED only
\* when the broker has it and DEAD only at the end of the ladder, and neither is
\* taken up again (drain, deliverOne, claim, onRollback).
KeepsContract == Contract!Spec

\* Duplicates have the documented causes: beyond one copy of an event, each
\* is a delivery whose transaction did not commit or whose acknowledgement
\* was not seen in time, however many relays drain.
DuplicatesExplained == \A e \in Event : copies[e] <= 1 + excuses[e]

Backlog == \E e \in Event : row[e].status = "PENDING"

\* A backlog drains: committed events are published or declared dead in the
\* end, as long as one relay stays up (tick, drain, nextAttemptAt).
BacklogDrains == Backlog ~> ~Backlog
=============================================================================
