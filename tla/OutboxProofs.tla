---------------------------- MODULE OutboxProofs ----------------------------
(***************************************************************************)
(* For every number of events and relays, every batch size and ladder, and  *)
(* any number of faults: the relays do to table and broker only what the    *)
(* store's contract allows, and every duplicate has a documented cause.     *)
(*                                                                         *)
(* The argument is the row lock.  A row a transaction holds is PENDING and  *)
(* nobody else writes it (LockHeld), so an update computed from it is still *)
(* one of its outcomes when the transaction commits (UpdatesFit), and of    *)
(* the copies the broker holds at most one is neither excused nor recorded  *)
(* (CopiesAccounted).                                                       *)
(***************************************************************************)
EXTENDS Outbox, TLAPS

Committed == {"PENDING", "PUBLISHED", "DEAD"}

Mine(r) == {e \in Event : lock[e] = r}

TypeInv ==
    /\ row \in [Event -> [status : Statuses, attempts : Nat, due : BOOLEAN]]
    /\ lock \in [Event -> Relay \cup {Free}]
    /\ batch \in [Relay -> SUBSET Event]
    /\ DOMAIN writes = Relay
    /\ mode \in [Relay -> {"waiting", "draining", "expired"}]
    /\ late \subseteq Event \ Unknown
    /\ copies \in [Event -> Nat]
    /\ excuses \in [Event -> Nat]

\* A row is locked by an open transaction, which has it before it or has
\* written it.
LockHeld ==
    \A e \in Event : lock[e] # Free =>
        /\ row[e].status = "PENDING"
        /\ mode[lock[e]] = "draining"
        /\ e \in batch[lock[e]] \cup DOMAIN writes[lock[e]]

\* What is still to be tried is locked while the transaction is open, and was
\* committed in any case.
BatchCommitted ==
    \A r \in Relay : \A e \in batch[r] :
        /\ row[e].status \in Committed
        /\ mode[r] = "draining" => lock[e] = r /\ e \notin DOMAIN writes[r]

\* An update of an open transaction is an outcome of its row as it stands.
UpdatesFit ==
    \A r \in Relay : \A e \in DOMAIN writes[r] :
        /\ e \in Event
        /\ lock[e] = r
        /\ writes[r][e] \in Contract!Outcomes(e)

LateCommitted == \A e \in late : row[e].status \in Committed

\* The row says, or the transaction that holds it will say, that it was delivered.
Recorded(e) ==
    \/ row[e].status = "PUBLISHED"
    \/ /\ lock[e] # Free
       /\ e \in DOMAIN writes[lock[e]]
       /\ writes[lock[e]][e].status = "PUBLISHED"

CopiesAccounted ==
    \A e \in Event : /\ copies[e] <= excuses[e] + 1
                     /\ ~Recorded(e) => copies[e] <= excuses[e]

RelayInv ==
    TypeInv /\ LockHeld /\ BatchCommitted /\ UpdatesFit /\ LateCommitted /\ CopiesAccounted

-----------------------------------------------------------------------------
USE OutboxAssumption DEF Free

\* Nothing is staged at the start.
LEMMA InitInv == Init => RelayInv
  BY DEF Init, RelayInv, TypeInv, LockHeld, BatchCommitted, UpdatesFit, LateCommitted,
         CopiesAccounted, Recorded, NewRow, Statuses, Nothing

\* A row with an update is held by the transaction that has it.
LEMMA Holder ==
    ASSUME RelayInv, NEW r \in Relay, NEW e \in DOMAIN writes[r]
    PROVE  /\ e \in Event /\ lock[e] = r /\ mode[r] = "draining"
           /\ row[e].status = "PENDING"
           /\ writes[r][e] \in Contract!Outcomes(e)
<1>1. e \in Event /\ lock[e] = r /\ writes[r][e] \in Contract!Outcomes(e)
  BY Zenon DEF RelayInv, UpdatesFit
<1>2. lock[e] # Free
  BY Zenon, <1>1
<1>. QED  BY Zenon, <1>1, <1>2 DEF RelayInv, LockHeld

\* The outcomes of a row depend on its attempts, and grow with the copies.
LEMMA OutcomesStay ==
    ASSUME RelayInv, NEW e \in Event, row'[e].attempts = row[e].attempts,
           copies'[e] \in Nat, copies'[e] >= copies[e]
    PROVE  Contract!Outcomes(e) \subseteq Contract!Outcomes(e)'
  BY DEF Contract!Outcomes, RelayInv, TypeInv

\* Staging, the end of the staging transaction, and a row falling due touch
\* rows no relay has.
LEMMA RowInv ==
    ASSUME RelayInv, NEW e \in Event, stage(e) \/ TransactionEnds(e) \/ Due(e)
    PROVE  RelayInv'
<1>. DEFINE F(f) == /\ row'[f].attempts = row[f].attempts
                    /\ row[f].status \in Committed => row'[f].status = row[f].status
                    /\ row'[f].status = "PUBLISHED" => row[f].status = "PUBLISHED"
<1>1. /\ \A f \in Event : F(f)
      /\ row' \in [Event -> [status : Statuses, attempts : Nat, due : BOOLEAN]]
  <2>. row \in [Event -> [status : Statuses, attempts : Nat, due : BOOLEAN]]
    BY Zenon DEF RelayInv, TypeInv
  <2>1. CASE stage(e)
    BY Zenon, <2>1 DEF stage, Committed, Statuses
  <2>2. CASE TransactionEnds(e)
    <3>1. PICK s \in {"PENDING", "rolledBack"} : row' = [row EXCEPT ![e].status = s]
      BY Zenon, <2>2 DEF TransactionEnds
    <3>. QED  BY <2>2, <3>1 DEF TransactionEnds, Committed, Statuses
  <2>3. CASE Due(e)
    BY Zenon, <2>3 DEF Due, Committed, Statuses
  <2>. QED  BY Zenon, <2>1, <2>2, <2>3
<1>2. UNCHANGED <<lock, batch, writes, mode, late, copies, excuses>>
  BY Zenon DEF stage, TransactionEnds, Due, relayVars
<1>3. TypeInv' /\ LockHeld' /\ BatchCommitted' /\ LateCommitted'
  <2>1. TypeInv'
    BY Zenon, <1>1, <1>2 DEF RelayInv, TypeInv
  <2>2. LockHeld'
    BY Zenon, <1>1, <1>2 DEF RelayInv, LockHeld, Committed
  <2>3. BatchCommitted' /\ LateCommitted'
    BY Zenon, <1>1, <1>2 DEF RelayInv, TypeInv, BatchCommitted, LateCommitted
  <2>. QED  BY Zenon, <2>1, <2>2, <2>3
<1>4. UpdatesFit'
  <2>. SUFFICES ASSUME NEW r \in Relay, NEW f \in DOMAIN writes[r]
                PROVE  f \in Event /\ lock[f] = r /\ writes[r][f] \in Contract!Outcomes(f)'
    BY Zenon, <1>2 DEF UpdatesFit
  <2>1. f \in Event /\ lock[f] = r /\ writes[r][f] \in Contract!Outcomes(f)
    BY Zenon, Holder
  <2>2. Contract!Outcomes(f) \subseteq Contract!Outcomes(f)'
    <3>1. row'[f].attempts = row[f].attempts /\ copies'[f] \in Nat /\ copies'[f] >= copies[f]
      BY <1>1, <1>2, <2>1 DEF RelayInv, TypeInv
    <3>. QED  BY Zenon, <2>1, <3>1, OutcomesStay
  <2>. QED  BY Zenon, <2>1, <2>2
<1>5. CopiesAccounted'
  <2>1. \A f \in Event : Recorded(f) => Recorded(f)'
    BY Zenon, <1>1, <1>2 DEF Recorded, Committed
  <2>. QED  BY Zenon, <1>2, <2>1 DEF RelayInv, CopiesAccounted
<1>. QED  BY Zenon, <1>3, <1>4, <1>5 DEF RelayInv

\* drain: a relay locks a batch of due rows nobody else holds.
LEMMA DrainInv ==
    ASSUME RelayInv, NEW r \in Relay, drain(r)
    PROVE  RelayInv'
<1>1. \A e \in Claimed : e \in Event /\ row[e].status = "PENDING" /\ lock[e] = Free
  BY Zenon DEF Claimed, Claimable
<1>2. /\ batch' = [batch EXCEPT ![r] = Claimed]
      /\ lock' = [e \in Event |-> IF e \in Claimed THEN r ELSE lock[e]]
      /\ mode' = [mode EXCEPT ![r] = "draining"]
      /\ mode[r] = "waiting"
      /\ UNCHANGED <<row, writes, late, copies, excuses>>
  BY Zenon DEF drain
<1>3. \A q \in Relay : \A e \in DOMAIN writes[q] : e \in Event /\ q # r /\ e \notin Claimed
  BY <1>1, <1>2, Holder
<1>4. TypeInv'
  BY Zenon, <1>1, <1>2 DEF RelayInv, TypeInv
<1>5. LockHeld'
  BY Zenon, <1>1, <1>2 DEF RelayInv, TypeInv, LockHeld
<1>6. BatchCommitted' /\ LateCommitted'
  BY <1>1, <1>2, <1>3 DEF RelayInv, TypeInv, BatchCommitted, LateCommitted, Committed
<1>7. UpdatesFit'
  <2>. SUFFICES ASSUME NEW q \in Relay, NEW e \in DOMAIN writes[q]
                PROVE  e \in Event /\ lock'[e] = q /\ writes[q][e] \in Contract!Outcomes(e)'
    BY Zenon, <1>2 DEF UpdatesFit
  <2>1. e \in Event /\ lock[e] = q /\ writes[q][e] \in Contract!Outcomes(e)
    BY Zenon, Holder
  <2>2. Contract!Outcomes(e) \subseteq Contract!Outcomes(e)'
    <3>1. UNCHANGED <<row, copies>>
      BY Zenon, <1>2
    <3>2. copies[e] \in Nat
      BY Zenon, <2>1 DEF RelayInv, TypeInv
    <3>. QED  BY <2>1, <3>1, <3>2, OutcomesStay
  <2>. QED  BY Zenon, <1>2, <1>3, <2>1, <2>2
<1>8. CopiesAccounted'
  BY Zenon, <1>1, <1>2, <1>3 DEF RelayInv, TypeInv, CopiesAccounted, Recorded
<1>. QED  BY Zenon, <1>4, <1>5, <1>6, <1>7, <1>8 DEF RelayInv

\* The statement after a publish, whichever it was, and the copy it may have
\* made.  An update is recorded as PUBLISHED only with a copy.
LEMMA RecordsInv ==
    ASSUME RelayInv, NEW r \in Relay, NEW e \in batch[r], NEW w, mode[r] # "waiting",
           Records(r, e, w), UNCHANGED <<row, lock>>,
           late' \in {late, late \cup {e}}, e \in Unknown => late' = late,
           \/ copies' = copies /\ w.status # "PUBLISHED"
           \/ copies' = [copies EXCEPT ![e] = @ + 1] /\ w.status = "PUBLISHED",
           w \in Contract!Outcomes(e)'
    PROVE  RelayInv'
<1>. USE DEF RelayInv
<1>1. e \in Event /\ row[e].status \in Committed
  BY Zenon DEF TypeInv, BatchCommitted
<1>2. late' \subseteq Event \ Unknown /\ LateCommitted'
  BY Zenon, <1>1 DEF TypeInv, LateCommitted
<1>3. /\ copies' \in [Event -> Nat]
      /\ \A f \in Event : copies'[f] >= copies[f]
      /\ \A f \in Event : f # e => copies'[f] = copies[f]
      /\ copies'[e] = IF w.status = "PUBLISHED" THEN copies[e] + 1 ELSE copies[e]
  BY <1>1 DEF TypeInv
<1>4. \A f \in Event : Contract!Outcomes(f) \subseteq Contract!Outcomes(f)'
  BY Zenon, <1>3, OutcomesStay
<1>5. CASE mode[r] = "draining"
  <2>1. /\ writes' = [writes EXCEPT ![r] = Written(@, e, w)]
        /\ batch' = [batch EXCEPT ![r] = @ \ {e}]
        /\ UNCHANGED <<mode, excuses>>
    BY Zenon, <1>5 DEF Records
  <2>2. lock[e] = r /\ e \notin DOMAIN writes[r]
    BY Zenon, <1>5 DEF BatchCommitted
  <2>3. /\ DOMAIN writes' = Relay
        /\ \A q \in Relay : q # r => writes'[q] = writes[q]
        /\ DOMAIN writes'[r] = DOMAIN writes[r] \cup {e}
        /\ writes'[r][e] = w
        /\ \A f \in DOMAIN writes[r] : f # e => writes'[r][f] = writes[r][f]
    BY Zenon, <2>1 DEF TypeInv, Written
  <2>4. TypeInv'
    BY Zenon, <1>2, <1>3, <2>1, <2>3 DEF TypeInv
  <2>5. LockHeld'
    BY <2>1, <2>2, <2>3 DEF LockHeld, TypeInv
  <2>6. BatchCommitted'
    <3>1. \A q \in Relay : \A f \in batch'[q] : f \in batch[q] /\ (q = r => f # e)
      BY Zenon, <2>1 DEF TypeInv
    <3>2. \A q \in Relay : \A f \in batch'[q] : f \in DOMAIN writes'[q] => f \in DOMAIN writes[q]
      BY Zenon, <2>3, <3>1
    <3>. QED  BY Zenon, <2>1, <3>1, <3>2 DEF BatchCommitted
  <2>7. UpdatesFit'
    <3>. SUFFICES ASSUME NEW q \in Relay, NEW f \in DOMAIN writes'[q]
                  PROVE  f \in Event /\ lock[f] = q /\ writes'[q][f] \in Contract!Outcomes(f)'
      BY Zenon DEF UpdatesFit
    <3>1. CASE q = r /\ f = e
      BY Zenon, <1>1, <2>2, <2>3, <3>1
    <3>2. CASE ~(q = r /\ f = e)
      <4>1. f \in DOMAIN writes[q] /\ writes'[q][f] = writes[q][f]
        BY <2>3, <3>2
      <4>. QED  BY Zenon, <1>4, <4>1, Holder
    <3>. QED  BY Zenon, <3>1, <3>2
  <2>8. CopiesAccounted'
    <3>1. ~Recorded(e)
      BY Zenon, <1>1, <2>2 DEF Recorded, LockHeld
    <3>2. Recorded(e)' <=> w.status = "PUBLISHED"
      BY Zenon, <1>1, <2>2, <2>3 DEF Recorded, LockHeld
    <3>3. \A f \in Event : f # e => (Recorded(f)' <=> Recorded(f))
      BY <2>3 DEF Recorded, TypeInv
    <3>. QED  BY <1>1, <1>3, <2>1, <3>1, <3>2, <3>3 DEF CopiesAccounted, TypeInv
  <2>. QED  BY Zenon, <1>2, <2>4, <2>5, <2>6, <2>7, <2>8
<1>6. CASE mode[r] = "expired"
  <2>1. /\ mode' = [mode EXCEPT ![r] = "waiting"]
        /\ batch' = [batch EXCEPT ![r] = {}]
        /\ excuses' = [excuses EXCEPT ![e] = IF w.status = "PUBLISHED" THEN @ + 1 ELSE @]
        /\ UNCHANGED writes
    BY Zenon, <1>6 DEF Records
  <2>2. \A f \in Event : lock[f] # r
    BY Zenon, <1>6 DEF LockHeld
  <2>4. TypeInv'
    BY <1>1, <1>2, <1>3, <2>1 DEF TypeInv
  <2>5. LockHeld'
    BY Zenon, <2>1, <2>2 DEF LockHeld, TypeInv
  <2>6. BatchCommitted'
    BY Zenon, <1>6, <2>1 DEF BatchCommitted, TypeInv
  <2>7. UpdatesFit'
    <3>. SUFFICES ASSUME NEW q \in Relay, NEW f \in DOMAIN writes[q]
                  PROVE  f \in Event /\ lock[f] = q /\ writes[q][f] \in Contract!Outcomes(f)'
      BY Zenon, <2>1 DEF UpdatesFit
    <3>. QED  BY Zenon, <1>4, Holder
  <2>8. CopiesAccounted'
    <3>1. \A f \in Event : Recorded(f)' <=> Recorded(f)
      BY Zenon, <2>1 DEF Recorded
    <3>. QED  BY <1>1, <1>3, <2>1, <3>1 DEF CopiesAccounted, TypeInv
  <2>. QED  BY Zenon, <1>2, <2>4, <2>5, <2>6, <2>7, <2>8
<1>. QED  BY Zenon, <1>5, <1>6 DEF TypeInv

\* The three ways deliverOne() ends: what it makes of broker, timers and row.
LEMMA Delivering ==
    ASSUME RelayInv, NEW r \in Relay, deliverOne(r)
    PROVE  \E e \in batch[r] : \E w \in {markDead(e), Published(e), Retry(e)} :
              /\ mode[r] # "waiting" /\ Records(r, e, w) /\ UNCHANGED <<row, lock>>
              /\ late' \in {late, late \cup {e}} /\ (e \in Unknown => late' = late)
              /\ \/ copies' = copies /\ w.status # "PUBLISHED"
                 \/ e \notin Unknown /\ copies' = [copies EXCEPT ![e] = @ + 1] /\ w.status = "PUBLISHED"
              /\ w \in Contract!Outcomes(e)'
<1>1. PICK e \in Event :
         /\ IsNext(r, e)
         /\ \/ /\ e \in Unknown
               /\ Records(r, e, markDead(e))
               /\ UNCHANGED <<late, copies, faults>>
            \/ /\ e \notin Unknown
               /\ Arrives(e)
               /\ Records(r, e, Published(e))
               /\ UNCHANGED <<late, faults>>
            \/ /\ e \notin Unknown
               /\ Fault
               /\ Records(r, e, Retry(e))
               /\ late' \in {late, late \cup {e}}
               /\ UNCHANGED copies
  BY Zenon DEF deliverOne
<1>2. e \in batch[r] /\ mode[r] # "waiting" /\ UNCHANGED <<row, lock>>
  BY Zenon, <1>1 DEF deliverOne, IsNext
<1>3. row[e].attempts \in Nat /\ copies[e] \in Nat
  BY Zenon DEF RelayInv, TypeInv
<1>4. CASE e \in Unknown /\ Records(r, e, markDead(e)) /\ UNCHANGED <<late, copies, faults>>
  <2>1. markDead(e) \in Contract!Outcomes(e)' /\ markDead(e).status # "PUBLISHED"
    BY Zenon, <1>2, <1>3, <1>4 DEF markDead, Contract!Outcomes
  <2>. QED  BY Zenon, <1>2, <1>4, <2>1
<1>5. CASE e \notin Unknown /\ Arrives(e) /\ Records(r, e, Published(e)) /\ UNCHANGED <<late, faults>>
  <2>1. copies'[e] > 0
    BY <1>3, <1>5 DEF Arrives, RelayInv, TypeInv
  <2>2. Published(e) \in Contract!Outcomes(e)' /\ Published(e).status = "PUBLISHED"
    BY Zenon, <1>2, <1>3, <1>5, <2>1 DEF Published, Contract!Outcomes
  <2>. QED  BY Zenon, <1>2, <1>5, <2>2 DEF Arrives
<1>6. CASE /\ e \notin Unknown /\ Records(r, e, Retry(e))
           /\ late' \in {late, late \cup {e}} /\ UNCHANGED copies
  <2>1. Retry(e) \in Contract!Outcomes(e)' /\ Retry(e).status # "PUBLISHED"
    BY <1>2, <1>3, <1>6 DEF Retry, Contract!Outcomes
  <2>. QED  BY Zenon, <1>2, <1>6, <2>1
<1>. QED  BY Zenon, <1>1, <1>4, <1>5, <1>6

\* deliverOne: the next row of the batch is delivered or fails.
LEMMA DeliverInv ==
    ASSUME RelayInv, NEW r \in Relay, deliverOne(r)
    PROVE  RelayInv'
  BY Zenon, Delivering, RecordsInv

\* A delivery that timed out lands after all.
LEMMA LandsInv ==
    ASSUME RelayInv, NEW e \in Event, LandsLate(e)
    PROVE  RelayInv'
<1>. USE DEF RelayInv
<1>1. /\ late' = late \ {e}
      /\ copies' = [copies EXCEPT ![e] = @ + 1]
      /\ excuses' = [excuses EXCEPT ![e] = @ + 1]
      /\ UNCHANGED <<row, lock, batch, writes, mode>>
  BY Zenon DEF LandsLate, Arrives, relayVars
<1>2. TypeInv' /\ LockHeld' /\ BatchCommitted' /\ LateCommitted'
  BY <1>1 DEF TypeInv, LockHeld, BatchCommitted, LateCommitted
<1>3. UpdatesFit'
  <2>. SUFFICES ASSUME NEW q \in Relay, NEW f \in DOMAIN writes[q]
                PROVE  f \in Event /\ lock[f] = q /\ writes[q][f] \in Contract!Outcomes(f)'
    BY Zenon, <1>1 DEF UpdatesFit
  <2>1. f \in Event /\ lock[f] = q /\ writes[q][f] \in Contract!Outcomes(f)
    BY Zenon, Holder
  <2>2. Contract!Outcomes(f) \subseteq Contract!Outcomes(f)'
    <3>1. copies[f] \in Nat /\ copies'[f] \in {copies[f], copies[f] + 1}
      BY Zenon, <1>1, <2>1 DEF TypeInv
    <3>2. row'[f] = row[f] /\ copies'[f] \in Nat /\ copies'[f] >= copies[f]
      BY ONLY <1>1, <3>1
    <3>. QED  BY Zenon, <2>1, <3>2, OutcomesStay
  <2>. QED  BY Zenon, <2>1, <2>2
<1>4. CopiesAccounted'
  <2>1. \A f \in Event : Recorded(f)' <=> Recorded(f)
    BY Zenon, <1>1 DEF Recorded
  <2>. QED  BY <1>1, <2>1 DEF CopiesAccounted, TypeInv
<1>. QED  BY Zenon, <1>2, <1>3, <1>4

\* What a commit makes of the rows: those of the transaction get the outcome it
\* had computed, and no other row changes.
LEMMA CommitRows ==
    ASSUME RelayInv, NEW r \in Relay, Commit(r)
    PROVE  /\ DOMAIN writes[r] = Mine(r)
           /\ \A e \in Event : IF e \in Mine(r) THEN row'[e] = writes[r][e] /\ row'[e] \in Contract!Outcomes(e)
                                               ELSE row'[e] = row[e]
<1>1. DOMAIN writes[r] = Mine(r)
  <2>1. DOMAIN writes[r] \subseteq Mine(r)
    BY Zenon, Holder DEF Mine
  <2>2. Mine(r) \subseteq DOMAIN writes[r]
    BY Zenon DEF Mine, RelayInv, LockHeld, Commit
  <2>. QED  BY Zenon, <2>1, <2>2
<1>2. row' = [e \in Event |-> IF e \in DOMAIN writes[r] THEN writes[r][e] ELSE row[e]]
  BY Zenon DEF Commit
<1>. QED  BY Zenon, <1>1, <1>2, Holder

\* What a relay's transaction wrote becomes the rows.
LEMMA CommitInv ==
    ASSUME RelayInv, NEW r \in Relay, Commit(r)
    PROVE  RelayInv'
<1>. USE DEF RelayInv
<1>1. /\ writes' = [writes EXCEPT ![r] = Nothing]
      /\ mode' = [mode EXCEPT ![r] = "waiting"]
      /\ lock' = [e \in Event |-> IF lock[e] = r THEN Free ELSE lock[e]]
      /\ row' = [e \in Event |-> IF e \in DOMAIN writes[r] THEN writes[r][e] ELSE row[e]]
      /\ mode[r] = "draining" /\ batch[r] = {}
      /\ UNCHANGED <<batch, late, copies, excuses>>
  BY Zenon DEF Commit, Unlock
<1>2. /\ DOMAIN writes' = Relay /\ DOMAIN writes'[r] = {}
      /\ \A q \in Relay : q # r => writes'[q] = writes[q]
  BY Zenon, <1>1 DEF TypeInv, Nothing
<1>3. \A e \in Event :
         /\ e \in Mine(r) => row'[e] \in Contract!Outcomes(e) /\ row'[e] = writes[r][e]
         /\ e \notin Mine(r) => row'[e] = row[e]
  BY Zenon, CommitRows
<1>4. \A e \in Event : \A o \in Contract!Outcomes(e) :
         /\ o \in [status : Statuses, attempts : Nat, due : BOOLEAN]
         /\ o.status \in Committed
  <2>. SUFFICES ASSUME NEW e \in Event, NEW o \in Contract!Outcomes(e)
                PROVE  /\ o \in [status : Statuses, attempts : Nat, due : BOOLEAN]
                       /\ o.status \in Committed
    BY Zenon
  <2>1. row[e].attempts + 1 \in Nat
    BY DEF TypeInv
  <2>2. \E st \in Committed, d \in BOOLEAN :
           o = [status |-> st, attempts |-> row[e].attempts + 1, due |-> d]
    BY Zenon DEF Contract!Outcomes, Committed
  <2>. QED  BY <2>1, <2>2 DEF Statuses, Committed
<1>5. \A e \in Event : row[e].status \in Committed => row'[e].status \in Committed
  BY Zenon, <1>3, <1>4
<1>6. TypeInv'
  <2>1. \A e \in Event : row'[e] \in [status : Statuses, attempts : Nat, due : BOOLEAN]
    BY Zenon, <1>3, <1>4 DEF TypeInv
  <2>2. row' \in [Event -> [status : Statuses, attempts : Nat, due : BOOLEAN]]
    BY Zenon, <1>1, <2>1
  <2>. QED  BY Zenon, <1>1, <1>2, <2>2 DEF TypeInv
<1>7. LockHeld'
  BY <1>1, <1>2, <1>3 DEF LockHeld, Mine, TypeInv
<1>8. BatchCommitted' /\ LateCommitted'
  BY <1>1, <1>2, <1>5 DEF BatchCommitted, LateCommitted, TypeInv
<1>9. UpdatesFit'
  <2>. SUFFICES ASSUME NEW q \in Relay, NEW f \in DOMAIN writes'[q]
                PROVE  f \in Event /\ lock'[f] = q /\ writes'[q][f] \in Contract!Outcomes(f)'
    BY Zenon DEF UpdatesFit
  <2>1. q # r /\ f \in DOMAIN writes[q] /\ writes'[q][f] = writes[q][f]
    BY Zenon, <1>2
  <2>2. f \in Event /\ lock[f] = q /\ writes[q][f] \in Contract!Outcomes(f)
    BY Zenon, <2>1, Holder
  <2>3. Contract!Outcomes(f) \subseteq Contract!Outcomes(f)'
    <3>1. row'[f] = row[f]
      BY Zenon, <1>3, <2>1, <2>2 DEF Mine
    <3>2. copies'[f] \in Nat /\ copies'[f] >= copies[f]
      BY <1>1, <2>2 DEF TypeInv
    <3>. QED  BY Zenon, <2>2, <3>1, <3>2, OutcomesStay
  <2>. QED  BY Zenon, <1>1, <2>1, <2>2, <2>3
<1>10. CopiesAccounted'
  <2>1. ASSUME NEW e \in Event, Recorded(e) PROVE Recorded(e)'
    <3>1. CASE e \in Mine(r)
      <4>1. lock[e] = r /\ lock[e] # Free /\ row'[e] = writes[r][e]
        BY Zenon, <1>3, <3>1 DEF Mine
      <4>2. row[e].status = "PENDING"
        BY Zenon, <4>1 DEF LockHeld
      <4>. QED  BY Zenon, <2>1, <4>1, <4>2 DEF Recorded
    <3>2. CASE e \notin Mine(r)
      <4>1. row'[e] = row[e] /\ lock[e] # r /\ lock'[e] = lock[e]
        BY Zenon, <1>1, <1>3, <3>2 DEF Mine
      <4>2. lock[e] # Free => lock[e] \in Relay /\ writes'[lock[e]] = writes[lock[e]]
        BY Zenon, <1>2, <4>1 DEF TypeInv
      <4>. QED  BY Zenon, <2>1, <4>1, <4>2 DEF Recorded
    <3>. QED  BY Zenon, <3>1, <3>2
  <2>. QED  BY Zenon, <1>1, <2>1 DEF CopiesAccounted
<1>. QED  BY Zenon, <1>6, <1>7, <1>8, <1>9, <1>10

\* A transaction that is rolled back, with or without its relay knowing.
LEMMA LostInv ==
    ASSUME RelayInv, NEW r \in Relay, Aborts(r) \/ Expires(r)
    PROVE  RelayInv'
<1>. USE DEF RelayInv
<1>1. /\ writes' = [writes EXCEPT ![r] = Nothing]
      /\ mode' \in {[mode EXCEPT ![r] = "waiting"], [mode EXCEPT ![r] = "expired"]}
      /\ lock' = [e \in Event |-> IF lock[e] = r THEN Free ELSE lock[e]]
      /\ Unrecorded(r)
      /\ batch' \in {batch, [batch EXCEPT ![r] = {}]}
      /\ UNCHANGED <<row, copies>>
  BY Zenon DEF Aborts, Expires, Unlock
<1>2. /\ DOMAIN writes' = Relay /\ DOMAIN writes'[r] = {}
      /\ \A q \in Relay : q # r => writes'[q] = writes[q]
  BY Zenon, <1>1 DEF TypeInv, Nothing
<1>3. late' \subseteq Event \ Unknown /\ LateCommitted'
  <2>1. \A e \in late' : e \in late \/ (e \in batch[r] /\ e \in Event \ Unknown)
    BY Zenon DEF Aborts, Expires, IsNext
  <2>. QED  BY Zenon, <1>1, <2>1 DEF TypeInv, LateCommitted, BatchCommitted
<1>4. excuses' = [e \in Event |->
                   IF e \in DOMAIN writes[r] /\ writes[r][e].status = "PUBLISHED"
                   THEN excuses[e] + 1 ELSE excuses[e]]
  BY Zenon, <1>1 DEF Unrecorded
<1>5. TypeInv'
  BY <1>1, <1>2, <1>3, <1>4 DEF TypeInv
<1>6. LockHeld'
  BY <1>1, <1>2 DEF LockHeld, TypeInv
<1>7. BatchCommitted'
  BY <1>1, <1>2 DEF BatchCommitted, TypeInv
<1>8. UpdatesFit'
  <2>. SUFFICES ASSUME NEW q \in Relay, NEW f \in DOMAIN writes'[q]
                PROVE  f \in Event /\ lock'[f] = q /\ writes'[q][f] \in Contract!Outcomes(f)'
    BY Zenon DEF UpdatesFit
  <2>1. q # r /\ f \in DOMAIN writes[q] /\ writes'[q][f] = writes[q][f]
    BY Zenon, <1>2
  <2>2. f \in Event /\ lock[f] = q /\ writes[q][f] \in Contract!Outcomes(f)
    BY Zenon, <2>1, Holder
  <2>3. Contract!Outcomes(f) \subseteq Contract!Outcomes(f)'
    <3>1. row'[f] = row[f] /\ copies'[f] \in Nat /\ copies'[f] >= copies[f]
      BY <1>1, <2>2 DEF TypeInv
    <3>. QED  BY Zenon, <2>2, <3>1, OutcomesStay
  <2>. QED  BY Zenon, <1>1, <2>1, <2>2, <2>3
<1>9. CopiesAccounted'
  <2>. SUFFICES ASSUME NEW e \in Event
                PROVE  copies[e] <= excuses'[e] + 1 /\ (~Recorded(e)' => copies[e] <= excuses'[e])
    BY Zenon, <1>1 DEF CopiesAccounted
  <2>1. copies[e] \in Nat /\ excuses[e] \in Nat /\ excuses'[e] \in Nat /\ excuses'[e] >= excuses[e]
    BY <1>4 DEF TypeInv
  <2>2. CASE e \in DOMAIN writes[r] /\ writes[r][e].status = "PUBLISHED"
    <3>1. excuses'[e] = excuses[e] + 1
      BY Zenon, <1>4, <2>2
    <3>2. copies[e] <= excuses[e] + 1
      BY Zenon DEF CopiesAccounted
    <3>. QED  BY <2>1, <3>1, <3>2
  <2>3. CASE ~(e \in DOMAIN writes[r] /\ writes[r][e].status = "PUBLISHED")
    <3>1. Recorded(e) => Recorded(e)'
      BY Zenon, <1>1, <1>2, <2>3 DEF Recorded, TypeInv
    <3>. QED  BY <2>1, <3>1 DEF CopiesAccounted
  <2>. QED  BY Zenon, <2>2, <2>3
<1>. QED  BY Zenon, <1>3, <1>5, <1>6, <1>7, <1>8, <1>9

\* Steps that leave everything the invariant speaks of alone.
LEMMA IdleInv ==
    ASSUME RelayInv, UNCHANGED <<row, lock, batch, writes, mode, late, copies, excuses>>
    PROVE  RelayInv'
<1>1. TypeInv' /\ LockHeld' /\ BatchCommitted' /\ LateCommitted'
  BY Zenon DEF RelayInv, TypeInv, LockHeld, BatchCommitted, LateCommitted
<1>2. UpdatesFit' /\ CopiesAccounted'
  BY Zenon DEF RelayInv, UpdatesFit, Contract!Outcomes, CopiesAccounted, Recorded
<1>. QED  BY Zenon, <1>1, <1>2 DEF RelayInv

\* Every step preserves the invariant.
LEMMA NextInv == RelayInv /\ [Next]_vars => RelayInv'
<1>. SUFFICES ASSUME RelayInv, [Next]_vars PROVE RelayInv'
  BY Zenon
<1>1. ASSUME NEW e \in Event, stage(e) \/ TransactionEnds(e) \/ Due(e) PROVE RelayInv'
  BY Zenon, <1>1, RowInv
<1>2. ASSUME NEW e \in Event, LandsLate(e) PROVE RelayInv'
  BY Zenon, <1>2, LandsInv
<1>3. ASSUME NEW r \in Relay, drain(r) PROVE RelayInv'
  BY Zenon, <1>3, DrainInv
<1>4. ASSUME NEW r \in Relay, deliverOne(r) PROVE RelayInv'
  BY Zenon, <1>4, DeliverInv
<1>5. ASSUME NEW r \in Relay, Commit(r) PROVE RelayInv'
  BY Zenon, <1>5, CommitInv
<1>6. ASSUME NEW r \in Relay, Aborts(r) \/ Expires(r) PROVE RelayInv'
  BY Zenon, <1>6, LostInv
<1>7. ASSUME NEW r \in Relay, onModuleDestroy(r) PROVE RelayInv'
  BY Zenon, <1>7, IdleInv DEF onModuleDestroy
<1>8. CASE UNCHANGED vars
  BY Zenon, <1>8, IdleInv DEF vars, relayVars
<1>. QED  BY Zenon, <1>1, <1>2, <1>3, <1>4, <1>5, <1>6, <1>7, <1>8 DEF Next

\* The invariant holds throughout.
LEMMA Invariant == Spec => []RelayInv
  BY InitInv, NextInv, PTL DEF Spec

\* For any number of relays, timeouts, lost transactions and late publishes:
\* beyond one, each copy of an event in the broker is a delivery that was rolled
\* back or whose acknowledgement came too late (drain, deliverOne).
THEOREM DuplicatesHaveCauses == Spec => []DuplicatesExplained
<1>1. RelayInv => DuplicatesExplained
  BY DEF RelayInv, CopiesAccounted, DuplicatesExplained, TypeInv
<1>. QED  BY <1>1, Invariant, PTL

-----------------------------------------------------------------------------
Held == {e \in Event : lock[e] # Free}

\* A batch claimed, settled or let go is a step of the store.
LEMMA BatchStep ==
    ASSUME NEW S, S \subseteq Event, Contract!claim(S) \/ Contract!settle(S) \/ Contract!release(S)
    PROVE  Contract!Next
<1>1. \E T \in SUBSET Event : Contract!claim(T) \/ Contract!settle(T) \/ Contract!release(T)
  BY Zenon
<1>. QED  BY Zenon, <1>1 DEF Contract!Next

\* Every step of the relays is a step of the store, or none.
LEMMA StoreStep == RelayInv /\ [Next]_vars => [Contract!Next]_(Contract!vars)
<1>. SUFFICES ASSUME RelayInv, [Next]_vars
              PROVE  Contract!Next \/ UNCHANGED <<row, Held, copies>>
  BY Zenon DEF Contract!vars, Held
<1>1. ASSUME NEW e \in Event, stage(e) \/ TransactionEnds(e) \/ Due(e)
      PROVE  Contract!Next
  <2>. UNCHANGED <<Held, copies>>
    BY Zenon, <1>1 DEF stage, TransactionEnds, Due, Held
  <2>1. CASE stage(e)
    BY Zenon, <2>1 DEF stage, Held, Contract!Next, Contract!stage, Contract!Moves
  <2>2. CASE TransactionEnds(e)
    BY Zenon, <2>2 DEF TransactionEnds, Held, Contract!Next, Contract!commit, Contract!onRollback, Contract!Moves
  <2>3. CASE Due(e)
    BY Zenon, <2>3 DEF Due, Held, Contract!Next, Contract!due
  <2>. QED  BY Zenon, <1>1, <2>1, <2>2, <2>3
<1>2. ASSUME NEW e \in Event, LandsLate(e) PROVE Contract!Next
  <2>1. e \notin Unknown /\ row[e].status \in Committed
    BY Zenon, <1>2 DEF LandsLate, RelayInv, TypeInv, LateCommitted
  <2>2. Contract!deliver(e)
    BY Zenon, <1>2, <2>1 DEF LandsLate, Arrives, Committed, Contract!deliver
  <2>. QED  BY Zenon, <2>2 DEF Contract!Next
<1>3. ASSUME NEW r \in Relay, drain(r) PROVE Contract!Next
  <2>1. Contract!Claimable = {e \in Event : Claimable(e)}
    BY Zenon DEF Contract!Claimable, Claimable
  <2>2. \A e \in Event : {f \in Contract!Claimable : f < e} = {f \in Event : Claimable(f) /\ f < e}
    BY Zenon, <2>1
  <2>3. PICK S : S = Claimed
    BY Zenon
  <2>4. \A e \in S : /\ e \in Contract!Claimable
                    /\ Cardinality({f \in Contract!Claimable : f < e}) < BatchSize
    BY Zenon, <2>1, <2>2, <2>3 DEF Claimed
  <2>5. S \subseteq Event /\ Held' = Held \cup S /\ UNCHANGED <<row, copies>>
    BY Zenon, <1>3, <2>3 DEF drain, Held, Claimed
  <2>6. Contract!claim(S)
    <3>1. \A T : Contract!Cardinality(T) = Cardinality(T)
      BY Zenon DEF Contract!Cardinality, Cardinality, Contract!IsFiniteSet, IsFiniteSet
    <3>. QED  BY Zenon, <2>4, <2>5, <3>1 DEF Held, Contract!claim
  <2>. QED  BY Zenon, <2>5, <2>6, BatchStep
<1>4. ASSUME NEW r \in Relay, deliverOne(r) PROVE Contract!Next \/ UNCHANGED <<row, Held, copies>>
  <2>1. PICK e \in batch[r] :
          /\ UNCHANGED <<row, lock>>
          /\ \/ copies' = copies
             \/ e \notin Unknown /\ copies' = [copies EXCEPT ![e] = @ + 1]
    BY Zenon, <1>4, Delivering
  <2>2. e \in Event /\ row[e].status \in Committed
    BY Zenon DEF RelayInv, TypeInv, BatchCommitted
  <2>3. CASE copies' = copies
    BY Zenon, <2>1, <2>3 DEF Held
  <2>4. CASE e \notin Unknown /\ copies' = [copies EXCEPT ![e] = @ + 1]
    <3>1. Contract!deliver(e)
      BY Zenon, <2>1, <2>2, <2>4 DEF Committed, Contract!deliver
    <3>. QED  BY Zenon, <2>2, <3>1 DEF Contract!Next
  <2>. QED  BY Zenon, <2>1, <2>3, <2>4
<1>5. ASSUME NEW r \in Relay, Commit(r) PROVE Contract!Next
  <2>1. PICK S : S = Mine(r)
    BY Zenon
  <2>2. S \subseteq Event /\ S \subseteq Held /\ Held' = Held \ S /\ UNCHANGED copies
    BY Zenon, <1>5, <2>1 DEF Commit, Unlock, Held, Mine
  <2>3. \A e \in Event : IF e \in S THEN row'[e] \in Contract!Outcomes(e) ELSE row'[e] = row[e]
    BY Zenon, <1>5, <2>1, CommitRows
  <2>4. Contract!settle(S)
    BY Zenon, <2>2, <2>3 DEF Held, Contract!settle
  <2>. QED  BY Zenon, <2>2, <2>4, BatchStep
<1>6. ASSUME NEW r \in Relay, Aborts(r) \/ Expires(r) PROVE Contract!Next
  <2>1. PICK S : S = Mine(r)
    BY Zenon
  <2>2. S \subseteq Event /\ S \subseteq Held /\ Held' = Held \ S /\ UNCHANGED <<row, copies>>
    BY Zenon, <1>6, <2>1 DEF Aborts, Expires, Unlock, Held, Mine
  <2>3. Contract!release(S)
    BY Zenon, <2>2 DEF Held, Contract!release
  <2>. QED  BY Zenon, <2>2, <2>3, BatchStep
<1>7. ASSUME NEW r \in Relay, onModuleDestroy(r) PROVE UNCHANGED <<row, Held, copies>>
  BY Zenon, <1>7 DEF onModuleDestroy, Held
<1>8. CASE UNCHANGED vars
  BY Zenon, <1>8 DEF vars, Held
<1>. QED  BY Zenon, <1>1, <1>2, <1>3, <1>4, <1>5, <1>6, <1>7, <1>8 DEF Next

\* For every number of events, relays and faults, the relays over the Prisma
\* store implement the store's contract: nothing is delivered before its
\* transaction committed, marked PUBLISHED without a copy or DEAD before the
\* ladder's end, or taken up again after either (claim, deliverOne, drain).
THEOREM RelaysKeepContract == Spec => KeepsContract
<1>1. Init => Contract!Init
  BY DEF Init, NewRow, Contract!Init
<1>. QED  BY <1>1, StoreStep, Invariant, PTL DEF Spec, KeepsContract, Contract!Spec
=============================================================================
