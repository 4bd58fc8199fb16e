----------------------------- MODULE SagaProofs -----------------------------
(***************************************************************************)
(* The theorems about the saga engine, for every definition defineSaga     *)
(* accepts, any number of instances, lease tokens, attempts and faults,    *)
(* and the inductive invariant they rest on.                               *)
(*                                                                         *)
(* None of the engine's invariants is inductive by itself.  A save is      *)
(* correct because the record it was computed from is still the row        *)
(* (SnapshotFresh), because that record has the shape an engine run leaves *)
(* behind (Shape), and because what is about to be written is what step()  *)
(* makes of that record (StepResult).                                      *)
(***************************************************************************)
EXTENDS SagaOrchestrator, TLAPS

-----------------------------------------------------------------------------
(* What a save makes of one saga row.                                      *)

\* What Append leaves where it was, and what it adds.
LEMMA Appended ==
    ASSUME NEW S, NEW q \in Seq(S), NEW e \in S
    PROVE  /\ Append(q, e) \in Seq(S)
           /\ Len(Append(q, e)) = Len(q) + 1
           /\ \A i \in 1 .. Len(q) : Append(q, e)[i] = q[i]
           /\ Append(q, e)[Len(q) + 1] = e
  OBVIOUS

\* A sequence of length 0 is the empty one.
LEMMA NoElements == ASSUME NEW S, NEW q \in Seq(S), Len(q) = 0 PROVE q = << >>
  OBVIOUS

(* The shape of a row: steps completed in order from the first, walked     *)
(* back in order from the one after the last completed, the cursor at the  *)
(* difference, and the failures of the step in hand counted by attempts.   *)
Shape(r) ==
    /\ Len(r.done) <= N
    /\ \A i \in 1 .. Len(r.done) : r.done[i] = i - 1
    /\ \A i \in 1 .. Len(r.undone) : r.undone[i] = Len(r.done) - i + 1
    /\ r.cursor = Len(r.done) - Len(r.undone)
    /\ Len(r.undone) > 0 => Len(r.done) < N /\ Kind[Len(r.done)] # "retriable"
    /\ r.status = "RUNNING" => Len(r.undone) = 0 /\ r.cursor < N
    /\ r.status = "COMPLETED" => Len(r.undone) = 0 /\ r.cursor = N
    /\ r.status = "COMPENSATING" =>
         r.cursor >= 0 /\ Len(r.done) < N /\ Kind[Len(r.done)] # "retriable"
    /\ r.status = "COMPENSATED" => r.cursor = -1
    /\ r.status = Absent => Len(r.done) = 0 /\ Len(r.undone) = 0

Counted(r) ==
    /\ \A d \in Direction, i \in Step : r.failed[d][i] <= MaxAttempts
    /\ r.status \in {Absent, "RUNNING"} =>
         /\ r.attempts < MaxAttempts
         /\ \A i \in Step : i = r.cursor => r.failed["forward"][i] = r.attempts
         /\ \A i \in Step : i > r.cursor => r.failed["forward"][i] = 0
         /\ \A i \in Step : r.failed["backward"][i] = 0
    /\ r.status = "COMPENSATING" =>
         /\ r.attempts < MaxAttempts
         /\ \A i \in Step : i = r.cursor => r.failed["backward"][i] = r.attempts
         /\ \A i \in Step : i < r.cursor => r.failed["backward"][i] = 0

(* How many saves drive() may still make from this record.                 *)
Measure(r) == IF r.status = "RUNNING" THEN N + N + 1 - r.cursor ELSE r.cursor + 1

StepResult(r, p) ==
    \/ p = ExecuteSucceeded(r) /\ ~Backward(r)
    \/ \E u \in BOOLEAN : p = ExecuteFailed(r, u) /\ ~Backward(r)
    \/ p = WalkedBack(r, "completed") /\ Backward(r)
    \/ p = WalkedBack(r, "skipped") /\ Backward(r)
    \/ \E u \in BOOLEAN :
          p = CompensateFailed(r, u) /\ Backward(r) /\ Kind[r.cursor] = "compensatable"

(* One step of SagaProtocol, on records.                                   *)
Moved(r, q) ==
    \/ q.status = r.status /\ q.cursor = r.cursor
    \/ r.status = "RUNNING" /\ q.status = "RUNNING" /\ q.cursor = r.cursor + 1 /\ q.cursor < N
    \/ r.status = "RUNNING" /\ q.status = "COMPLETED" /\ q.cursor = N /\ r.cursor + 1 = N
    \/ r.status = "RUNNING" /\ q.status = "COMPENSATING" /\ q.cursor = r.cursor
         /\ Kind[r.cursor] # "retriable"
    \/ r.status = "COMPENSATING" /\ q.status = "COMPENSATING" /\ r.cursor > 0
         /\ q.cursor = r.cursor - 1
    \/ r.status = "COMPENSATING" /\ q.status = "COMPENSATED" /\ r.cursor = 0 /\ q.cursor = -1
    \/ r.status = "RUNNING" /\ q.status = "STUCK" /\ q.cursor = r.cursor
         /\ Kind[r.cursor] = "retriable"
    \/ r.status = "COMPENSATING" /\ q.status = "STUCK" /\ q.cursor = r.cursor
         /\ Kind[r.cursor] = "compensatable"

(* What one save makes of a row.                                           *)
SaveSound(r, p) ==
    LET q == Apply(r, p)
    IN  /\ p \in Progress
        /\ q \in Record
        /\ Shape(q)
        /\ Counted(q)
        /\ q.status # Absent
        /\ Len(r.done) <= Len(q.done)
        /\ Moved(r, q)
        /\ p.lease = "kept" => q.status \in Active /\ Measure(q) < Measure(r)

Good(r) == r \in Record /\ Shape(r) /\ Counted(r)

-----------------------------------------------------------------------------
(* A step before or at the pivot has only compensatable steps before it.   *)
LEMMA CompensatableBefore ==
    ASSUME NEW i \in Step, Kind[i] # "retriable", NEW j \in Step, j < i
    PROVE  Kind[j] = "compensatable"
BY DefinitionAssumption DEF defineSaga, Step

(* One more failure of one step in one direction.                          *)
LEMMA FailureCounted ==
    ASSUME NEW f \in [Direction -> [Step -> Nat]], NEW d \in Direction, NEW i \in Step
    PROVE  LET g == [f EXCEPT ![d][i] = @ + 1]
           IN  /\ g \in [Direction -> [Step -> Nat]]
               /\ g[d][i] = f[d][i] + 1
               /\ \A e \in Direction, j \in Step : e # d \/ j # i => g[e][j] = f[e][j]
OBVIOUS

(* The cursor is a step whenever it is the difference Shape says it is.    *)
LEMMA CursorInRange ==
    ASSUME NEW c, NEW d \in Nat, NEW u \in Nat, NEW n \in Int,
           c = d - u, c >= 0, d < n
    PROVE  c \in Int /\ 0 <= c /\ c < n /\ c \in 0 .. n - 1 /\ c <= d
OBVIOUS

(* executeStep's success, applied to the row it was computed from.         *)
LEMMA ExecuteSucceededSound ==
    ASSUME NEW r, Good(r), r.status = "RUNNING"
    PROVE  SaveSound(r, ExecuteSucceeded(r))
<1> DEFINE p == ExecuteSucceeded(r)
           q == Apply(r, p)
<1>1. r \in Record /\ Shape(r) /\ Counted(r)
  BY Zenon DEF Good
<1>2. N \in Int /\ N > 0 /\ MaxAttempts \in Int /\ MaxAttempts > 0
  BY DefinitionAssumption, EngineAssumption DEF defineSaga
<1>3. r.done \in Seq(Step) /\ Len(r.done) \in Nat
  BY <1>1 DEF Record
<1>4. r.cursor = Len(r.done) /\ r.cursor < N /\ Len(r.undone) = 0
  <2>1. r.cursor = Len(r.done) - Len(r.undone) /\ r.cursor < N /\ Len(r.undone) = 0
    BY Zenon, <1>1 DEF Shape
  <2> QED
    BY <2>1, <1>3
<1>5. r.cursor \in Int /\ 0 <= r.cursor /\ r.cursor < N
  BY <1>3, <1>4
<1>6. /\ p.cursor = r.cursor + 1 /\ p.attempts = 0
      /\ p.entry = [step |-> r.cursor, direction |-> "forward", outcome |-> "completed"]
  BY Zenon DEF ExecuteSucceeded, entry
<1>7. /\ r.cursor + 1 = N => p.status = "COMPLETED"
      /\ r.cursor + 1 < N => p.status = "RUNNING"
      /\ p.lease = "kept" => r.cursor + 1 < N
  BY <1>2, <1>5 DEF ExecuteSucceeded
<1>8. p \in Progress
  BY <1>2, <1>5 DEF ExecuteSucceeded, entry, Progress, LogEntry, Outcome, Direction, Status,
     Active, Terminal, Step
<1>9. q = [status |-> p.status, cursor |-> r.cursor + 1, attempts |-> 0,
           done |-> Append(r.done, r.cursor), undone |-> r.undone, failed |-> r.failed]
  <2> HIDE DEF p
  <2> QED
    BY ONLY <1>6 DEF q, Apply
<1> HIDE DEF p, q
<1>10. q.done \in Seq(Step) /\ Len(q.done) = Len(r.done) + 1
  BY <1>2, <1>3, <1>5, <1>9, Appended DEF Step
<1>11. \A i \in 1 .. Len(q.done) : q.done[i] = i - 1
  <2>1. \A i \in 1 .. Len(r.done) : r.done[i] = i - 1
    BY Zenon, <1>1 DEF Shape
  <2>2. /\ \A i \in 1 .. Len(r.done) : q.done[i] = r.done[i]
        /\ q.done[Len(r.done) + 1] = r.cursor
    BY <1>2, <1>3, <1>5, <1>9, Appended DEF Step
  <2> SUFFICES ASSUME NEW i \in 1 .. Len(r.done) + 1 PROVE q.done[i] = i - 1
    BY Zenon, <1>10
  <2>3. CASE i = Len(r.done) + 1
    BY <2>2, <2>3, <1>4
  <2>4. CASE i \in 1 .. Len(r.done)
    BY Zenon, <2>1, <2>2, <2>4
  <2> QED
    BY <2>3, <2>4, <1>3
<1>12. \/ q.status = "COMPLETED" /\ q.cursor = N
       \/ q.status = "RUNNING" /\ q.cursor < N
  BY <1>2, <1>5, <1>7, <1>9
<1>13. q \in Record
  <2>1. q.cursor \in -1 .. N /\ q.attempts \in Nat /\ q.status \in Status
    BY <1>2, <1>5, <1>9, <1>12 DEF Status, Active, Terminal
  <2> QED
    BY Zenon, <2>1, <1>1, <1>9, <1>10 DEF Record
<1>14. Shape(q)
  <2>1. /\ Len(q.done) \in Int /\ Len(q.done) <= N /\ Len(q.undone) = 0
        /\ q.cursor = Len(q.done) - Len(q.undone)
    <3>1. q.undone = r.undone /\ q.cursor = r.cursor + 1
      BY Zenon, <1>9
    <3> QED
      BY <3>1, <1>2, <1>3, <1>4, <1>10
  <2> QED
    BY <2>1, <1>11, <1>12 DEF Shape, Absent
<1>15. Counted(q)
  BY <1>1, <1>2, <1>5, <1>9, <1>12 DEF Counted, Absent, Step, Record, Direction
<1>16. Moved(r, q)
  BY Zenon, <1>2, <1>5, <1>9, <1>12 DEF Moved
<1>17. p.lease = "kept" => q.status \in Active /\ Measure(q) < Measure(r)
  BY <1>2, <1>5, <1>7, <1>9 DEF Measure, Active
<1> QED
  BY <1>3, <1>8, <1>10, <1>12, <1>13, <1>14, <1>15, <1>16, <1>17 DEF SaveSound, Absent, p, q

(* executeStep's failure: a retry, a turn, or STUCK past the pivot.        *)
LEMMA ExecuteFailedSound ==
    ASSUME NEW r, Good(r), r.status = "RUNNING", NEW u \in BOOLEAN
    PROVE  SaveSound(r, ExecuteFailed(r, u))
<1> DEFINE p == ExecuteFailed(r, u)
           q == Apply(r, p)
           retry == retryAt(r.attempts + 1, u)
<1>1. r \in Record /\ Shape(r) /\ Counted(r)
  BY Zenon DEF Good
<1>2. N \in Int /\ N > 0 /\ MaxAttempts \in Int /\ MaxAttempts > 0
  BY DefinitionAssumption, EngineAssumption DEF defineSaga
<1>3. r.done \in Seq(Step) /\ Len(r.done) \in Nat /\ r.attempts \in Nat
  BY <1>1 DEF Record
<1>4. r.cursor = Len(r.done) /\ r.cursor < N /\ Len(r.undone) = 0
  <2>1. r.cursor = Len(r.done) - Len(r.undone) /\ r.cursor < N /\ Len(r.undone) = 0
    BY Zenon, <1>1 DEF Shape
  <2> QED
    BY <2>1, <1>3
<1>5. r.cursor \in Int /\ 0 <= r.cursor /\ r.cursor < N /\ r.cursor \in Step
  BY <1>2, <1>3, <1>4 DEF Step
<1>6. /\ p.cursor = r.cursor
      /\ p.entry = [step |-> r.cursor, direction |-> "forward", outcome |-> "failed"]
  BY Zenon DEF ExecuteFailed, entry
<1>7. \/ p.status = "RUNNING" /\ p.attempts = r.attempts + 1 /\ p.lease = "released"
           /\ r.attempts + 1 < MaxAttempts
      \/ p.status = "STUCK" /\ p.attempts = r.attempts + 1 /\ p.lease = "released"
           /\ Kind[r.cursor] = "retriable"
      \/ p.status = "COMPENSATING" /\ p.attempts = 0 /\ p.lease = "kept"
           /\ Kind[r.cursor] # "retriable"
  <2>1. CASE retry
    BY Zenon, <2>1 DEF ExecuteFailed, retryAt
  <2>2. CASE ~retry
    BY Zenon, <2>2 DEF ExecuteFailed
  <2> QED
    BY Zenon, <2>1, <2>2
<1>8. p \in Progress
  <2>1. p.entry \in LogEntry
    BY <1>5, <1>6 DEF LogEntry, Outcome, Direction
  <2>2. p.cursor \in -1 .. N /\ p.attempts \in Nat /\ p.status \in Status
    BY <1>2, <1>3, <1>5, <1>6, <1>7 DEF Status, Active, Terminal
  <2>3. p.nextAttemptAt \in {"now", "later"} /\ p.lease \in {"kept", "released"}
    BY Zenon DEF ExecuteFailed
  <2>4. p = [status |-> p.status, cursor |-> p.cursor, attempts |-> p.attempts,
             nextAttemptAt |-> p.nextAttemptAt, entry |-> p.entry, lease |-> p.lease]
    BY Zenon DEF ExecuteFailed
  <2> HIDE DEF p
  <2> QED
    BY Zenon, <2>1, <2>2, <2>3, <2>4 DEF Progress
<1>9. q = [status |-> p.status, cursor |-> r.cursor, attempts |-> p.attempts,
           done |-> r.done, undone |-> r.undone,
           failed |-> [r.failed EXCEPT !["forward"][r.cursor] = @ + 1]]
  <2> HIDE DEF p
  <2> QED
    BY ONLY <1>6 DEF q, Apply
<1> HIDE DEF p, q, retry
<1>10. /\ q.failed \in [Direction -> [Step -> Nat]]
       /\ q.failed["forward"][r.cursor] = r.failed["forward"][r.cursor] + 1
       /\ \A e \in Direction, j \in Step :
             e # "forward" \/ j # r.cursor => q.failed[e][j] = r.failed[e][j]
  <2>1. r.failed \in [Direction -> [Step -> Nat]] /\ "forward" \in Direction
    BY Zenon, <1>1 DEF Record, Direction
  <2>2. q.failed = [r.failed EXCEPT !["forward"][r.cursor] = @ + 1]
    BY Zenon, <1>9
  <2> QED
    BY <2>1, <2>2, <1>5, FailureCounted
<1>11. /\ q.status = p.status /\ q.cursor = r.cursor /\ q.attempts = p.attempts
       /\ q.done = r.done /\ q.undone = r.undone
  BY Zenon, <1>9
<1>12. q \in Record
  <2>1. q.cursor \in -1 .. N /\ q.attempts \in Nat /\ q.status \in Status
    BY <1>2, <1>3, <1>5, <1>7, <1>11 DEF Status, Active, Terminal
  <2>2. q = [status |-> q.status, cursor |-> q.cursor, attempts |-> q.attempts,
             done |-> q.done, undone |-> q.undone, failed |-> q.failed]
    BY Zenon, <1>9
  <2> QED
    BY Zenon, <2>1, <2>2, <1>1, <1>10, <1>11 DEF Record
<1>13. Shape(q)
  BY Zenon, <1>1, <1>2, <1>3, <1>4, <1>5, <1>7, <1>11 DEF Shape, Absent
<1>14. Counted(q)
  <2>1. /\ r.attempts < MaxAttempts
        /\ r.failed["forward"][r.cursor] = r.attempts
        /\ \A i \in Step : i > r.cursor => r.failed["forward"][i] = 0
        /\ \A i \in Step : r.failed["backward"][i] = 0
        /\ \A d \in Direction, i \in Step : r.failed[d][i] <= MaxAttempts
    BY Zenon, <1>1, <1>5 DEF Counted
  <2>2. \A d \in Direction, i \in Step : q.failed[d][i] <= MaxAttempts
    <3> SUFFICES ASSUME NEW d \in Direction, NEW i \in Step
                 PROVE  q.failed[d][i] <= MaxAttempts
      BY Zenon
    <3>1. CASE d = "forward" /\ i = r.cursor
      <4>1. q.failed[d][i] = r.attempts + 1 /\ r.attempts < MaxAttempts
        BY ONLY Zenon, <3>1, <2>1, <1>10
      <4> QED
        BY ONLY <4>1, <1>2, <1>3
    <3>2. CASE d # "forward" \/ i # r.cursor
      BY ONLY Zenon, <3>2, <2>1, <1>10, d \in Direction, i \in Step
    <3> QED
      BY ONLY Zenon, <3>1, <3>2
  <2>3. \A i \in Step : q.failed["backward"][i] = 0
    BY Zenon, <2>1, <1>10 DEF Direction
  <2>4. \A i \in Step : i > r.cursor => q.failed["forward"][i] = 0
    BY <2>1, <1>5, <1>10 DEF Direction, Step
  <2> QED
    BY Zenon, <2>1, <2>2, <2>3, <2>4, <1>2, <1>3, <1>5, <1>7, <1>10, <1>11 DEF Counted, Absent
<1>15. Moved(r, q)
  BY Zenon, <1>7, <1>11 DEF Moved
<1>16. p.lease = "kept" => q.status \in Active /\ Measure(q) < Measure(r)
  <2> SUFFICES ASSUME p.lease = "kept"
               PROVE  q.status \in Active /\ Measure(q) < Measure(r)
    BY Zenon
  <2>1. q.status = "COMPENSATING" /\ q.cursor = r.cursor
    BY Zenon, <1>7, <1>11
  <2> QED
    BY <2>1, <1>2, <1>5 DEF Measure, Active
<1>17. q.status # Absent /\ Len(r.done) <= Len(q.done)
  BY <1>3, <1>7, <1>11 DEF Absent
<1> QED
  BY Zenon, <1>8, <1>12, <1>13, <1>14, <1>15, <1>16, <1>17 DEF SaveSound, p, q

(* compensateStep's success, or its recorded skip of the pivot.            *)
LEMMA WalkedBackSound ==
    ASSUME NEW r, Good(r), r.status = "COMPENSATING", NEW o \in {"completed", "skipped"}
    PROVE  SaveSound(r, WalkedBack(r, o))
<1> DEFINE p == WalkedBack(r, o)
           q == Apply(r, p)
<1>1. r \in Record /\ Shape(r) /\ Counted(r)
  BY Zenon DEF Good
<1>2. N \in Int /\ N > 0 /\ MaxAttempts \in Int /\ MaxAttempts > 0
  BY DefinitionAssumption, EngineAssumption DEF defineSaga
<1>3. /\ r.done \in Seq(Step) /\ Len(r.done) \in Nat
      /\ r.undone \in Seq(Step) /\ Len(r.undone) \in Nat
  BY <1>1 DEF Record
<1>4. /\ r.cursor = Len(r.done) - Len(r.undone) /\ 0 <= r.cursor /\ Len(r.done) < N
      /\ Kind[Len(r.done)] # "retriable"
  BY Zenon, <1>1 DEF Shape
<1>5. r.cursor \in Int /\ 0 <= r.cursor /\ r.cursor < N /\ r.cursor \in Step
  <2>1. Len(r.done) \in Nat /\ Len(r.undone) \in Nat
    BY Zenon, <1>3
  <2>2. r.cursor = Len(r.done) - Len(r.undone) /\ r.cursor >= 0 /\ Len(r.done) < N
    BY Zenon, <1>1 DEF Shape
  <2>3. N \in Int
    BY Zenon, <1>2
  <2> QED
    BY ONLY Zenon, <2>1, <2>2, <2>3, CursorInRange DEF Step
<1>6. /\ p.cursor = r.cursor - 1 /\ p.attempts = 0
      /\ p.entry = [step |-> r.cursor, direction |-> "backward", outcome |-> o]
  BY Zenon DEF WalkedBack, entry
<1>7. \/ r.cursor = 0 /\ p.status = "COMPENSATED" /\ p.lease = "released"
      \/ r.cursor > 0 /\ p.status = "COMPENSATING" /\ p.lease = "kept"
  BY <1>5 DEF WalkedBack
<1>8. p \in Progress
  BY <1>2, <1>5 DEF WalkedBack, entry, Progress, LogEntry, Outcome, Direction, Status,
     Active, Terminal
<1>9. q = [status |-> p.status, cursor |-> r.cursor - 1, attempts |-> 0,
           done |-> r.done, undone |-> Append(r.undone, r.cursor), failed |-> r.failed]
  <2>1. /\ p.entry.step = r.cursor /\ p.entry.direction = "backward"
        /\ p.entry.outcome = o /\ o # "failed"
    BY <1>6
  <2> HIDE DEF p
  <2> QED
    BY ONLY Zenon, <2>1, <1>6 DEF q, Apply
<1> HIDE DEF p, q
<1>10. q.undone \in Seq(Step) /\ Len(q.undone) = Len(r.undone) + 1
  BY <1>3, <1>5, <1>9, Appended
<1>11. /\ q.status = p.status /\ q.cursor = r.cursor - 1 /\ q.attempts = 0
       /\ q.done = r.done /\ q.failed = r.failed
  BY Zenon, <1>9
<1>12. \A i \in 1 .. Len(q.undone) : q.undone[i] = Len(q.done) - i + 1
  <2>1. \A i \in 1 .. Len(r.undone) : r.undone[i] = Len(r.done) - i + 1
    BY Zenon, <1>1 DEF Shape
  <2>2. /\ \A i \in 1 .. Len(r.undone) : q.undone[i] = r.undone[i]
        /\ q.undone[Len(r.undone) + 1] = r.cursor
    BY <1>3, <1>5, <1>9, Appended
  <2> SUFFICES ASSUME NEW i \in 1 .. Len(r.undone) + 1
               PROVE  q.undone[i] = Len(r.done) - i + 1
    BY Zenon, <1>10, <1>11
  <2>3. CASE i = Len(r.undone) + 1
    <3>1. q.undone[i] = r.cursor
      BY Zenon, <2>2, <2>3
    <3>2. Len(r.done) \in Nat /\ Len(r.undone) \in Nat
      BY Zenon, <1>3
    <3> QED
      BY <3>1, <3>2, <2>3, <1>4
  <2>4. CASE i \in 1 .. Len(r.undone)
    BY Zenon, <2>1, <2>2, <2>4
  <2> QED
    BY <2>3, <2>4, <1>3
<1>13. q \in Record
  <2>1. q.cursor \in -1 .. N /\ q.attempts \in Nat /\ q.status \in Status
    BY <1>2, <1>5, <1>7, <1>11 DEF Status, Active, Terminal
  <2>2. q = [status |-> q.status, cursor |-> q.cursor, attempts |-> q.attempts,
             done |-> q.done, undone |-> q.undone, failed |-> q.failed]
    BY Zenon, <1>9
  <2> QED
    BY Zenon, <2>1, <2>2, <1>1, <1>10, <1>11 DEF Record
<1>14. Shape(q)
  <2>1. q.cursor = Len(q.done) - Len(q.undone) /\ Len(q.done) < N /\ Len(q.done) <= N
    BY <1>2, <1>3, <1>4, <1>10, <1>11
  <2>2. Kind[Len(q.done)] # "retriable"
    BY Zenon, <1>4, <1>11
  <2>3. \A i \in 1 .. Len(q.done) : q.done[i] = i - 1
    BY Zenon, <1>1, <1>11 DEF Shape
  <2>4. \/ q.status = "COMPENSATED" /\ q.cursor = -1
        \/ q.status = "COMPENSATING" /\ q.cursor >= 0
    BY <1>5, <1>7, <1>11
  <2> QED
    BY Zenon, <2>1, <2>2, <2>3, <2>4, <1>12 DEF Shape, Absent
<1>15. Counted(q)
  <2>1. /\ \A d \in Direction, i \in Step : q.failed[d][i] <= MaxAttempts
        /\ \A i \in Step : i < r.cursor => q.failed["backward"][i] = 0
    BY Zenon, <1>1, <1>11 DEF Counted
  <2> QED
    BY <2>1, <1>2, <1>5, <1>7, <1>11 DEF Counted, Absent, Step
<1>16. Moved(r, q)
  BY <1>5, <1>7, <1>11 DEF Moved
<1>17. p.lease = "kept" => q.status \in Active /\ Measure(q) < Measure(r)
  BY <1>5, <1>7, <1>11 DEF Measure, Active
<1>18. q.status # Absent /\ Len(r.done) <= Len(q.done)
  BY <1>3, <1>7, <1>11 DEF Absent
<1> QED
  BY Zenon, <1>8, <1>13, <1>14, <1>15, <1>16, <1>17, <1>18 DEF SaveSound, p, q

(* compensateStep's failure: a retry, or STUCK.                            *)
LEMMA CompensateFailedSound ==
    ASSUME NEW r, Good(r), r.status = "COMPENSATING", Kind[r.cursor] = "compensatable",
           NEW u \in BOOLEAN
    PROVE  SaveSound(r, CompensateFailed(r, u))
<1> DEFINE p == CompensateFailed(r, u)
           q == Apply(r, p)
<1>1. r \in Record /\ Shape(r) /\ Counted(r)
  BY Zenon DEF Good
<1>2. N \in Int /\ N > 0 /\ MaxAttempts \in Int /\ MaxAttempts > 0
  BY DefinitionAssumption, EngineAssumption DEF defineSaga
<1>3. /\ r.done \in Seq(Step) /\ Len(r.done) \in Nat /\ r.attempts \in Nat
      /\ r.undone \in Seq(Step) /\ Len(r.undone) \in Nat
  BY <1>1 DEF Record
<1>4. r.cursor = Len(r.done) - Len(r.undone) /\ 0 <= r.cursor /\ Len(r.done) < N
  BY Zenon, <1>1 DEF Shape
<1>5. r.cursor \in Int /\ 0 <= r.cursor /\ r.cursor < N /\ r.cursor \in Step
  <2>1. Len(r.done) \in Nat /\ Len(r.undone) \in Nat
    BY Zenon, <1>3
  <2>2. r.cursor = Len(r.done) - Len(r.undone) /\ r.cursor >= 0 /\ Len(r.done) < N
    BY Zenon, <1>1 DEF Shape
  <2>3. N \in Int
    BY Zenon, <1>2
  <2> QED
    BY ONLY Zenon, <2>1, <2>2, <2>3, CursorInRange DEF Step
<1>6. /\ p.cursor = r.cursor /\ p.attempts = r.attempts + 1 /\ p.lease = "released"
      /\ p.entry = [step |-> r.cursor, direction |-> "backward", outcome |-> "failed"]
  BY Zenon DEF CompensateFailed, entry
<1>7. \/ p.status = "COMPENSATING" /\ r.attempts + 1 < MaxAttempts
      \/ p.status = "STUCK"
  <2>1. CASE retryAt(r.attempts + 1, u)
    BY Zenon, <2>1 DEF CompensateFailed, retryAt
  <2>2. CASE ~retryAt(r.attempts + 1, u)
    BY Zenon, <2>2 DEF CompensateFailed
  <2> QED
    BY Zenon, <2>1, <2>2
<1>8. p \in Progress
  <2>1. p.entry \in LogEntry
    BY <1>5, <1>6 DEF LogEntry, Outcome, Direction
  <2>2. p.cursor \in -1 .. N /\ p.attempts \in Nat /\ p.status \in Status
    BY <1>2, <1>3, <1>5, <1>6, <1>7 DEF Status, Active, Terminal
  <2>3. p.nextAttemptAt \in {"now", "later"} /\ p.lease \in {"kept", "released"}
    BY Zenon DEF CompensateFailed
  <2>4. p = [status |-> p.status, cursor |-> p.cursor, attempts |-> p.attempts,
             nextAttemptAt |-> p.nextAttemptAt, entry |-> p.entry, lease |-> p.lease]
    BY Zenon DEF CompensateFailed
  <2> HIDE DEF p
  <2> QED
    BY Zenon, <2>1, <2>2, <2>3, <2>4 DEF Progress
<1>9. q = [status |-> p.status, cursor |-> r.cursor, attempts |-> r.attempts + 1,
           done |-> r.done, undone |-> r.undone,
           failed |-> [r.failed EXCEPT !["backward"][r.cursor] = @ + 1]]
  <2> HIDE DEF p
  <2> QED
    BY ONLY <1>6 DEF q, Apply
<1> HIDE DEF p, q
<1>10. /\ q.failed \in [Direction -> [Step -> Nat]]
       /\ q.failed["backward"][r.cursor] = r.failed["backward"][r.cursor] + 1
       /\ \A e \in Direction, j \in Step :
             e # "backward" \/ j # r.cursor => q.failed[e][j] = r.failed[e][j]
  <2>1. r.failed \in [Direction -> [Step -> Nat]] /\ "backward" \in Direction
    BY Zenon, <1>1 DEF Record, Direction
  <2>2. q.failed = [r.failed EXCEPT !["backward"][r.cursor] = @ + 1]
    BY Zenon, <1>9
  <2> QED
    BY <2>1, <2>2, <1>5, FailureCounted
<1>11. /\ q.status = p.status /\ q.cursor = r.cursor /\ q.attempts = r.attempts + 1
       /\ q.done = r.done /\ q.undone = r.undone
  BY Zenon, <1>9
<1>12. q \in Record
  <2>1. q.cursor \in -1 .. N /\ q.attempts \in Nat /\ q.status \in Status
    BY <1>2, <1>3, <1>5, <1>7, <1>11 DEF Status, Active, Terminal
  <2>2. q = [status |-> q.status, cursor |-> q.cursor, attempts |-> q.attempts,
             done |-> q.done, undone |-> q.undone, failed |-> q.failed]
    BY Zenon, <1>9
  <2> QED
    BY Zenon, <2>1, <2>2, <1>1, <1>10, <1>11 DEF Record
<1>13. Shape(q)
  BY Zenon, <1>1, <1>7, <1>11 DEF Shape, Absent
<1>14. Counted(q)
  <2>1. /\ r.attempts < MaxAttempts
        /\ r.failed["backward"][r.cursor] = r.attempts
        /\ \A i \in Step : i < r.cursor => r.failed["backward"][i] = 0
        /\ \A d \in Direction, i \in Step : r.failed[d][i] <= MaxAttempts
    BY Zenon, <1>1, <1>5 DEF Counted
  <2>2. \A d \in Direction, i \in Step : q.failed[d][i] <= MaxAttempts
    <3> SUFFICES ASSUME NEW d \in Direction, NEW i \in Step
                 PROVE  q.failed[d][i] <= MaxAttempts
      BY Zenon
    <3>1. CASE d = "backward" /\ i = r.cursor
      BY <3>1, <2>1, <1>2, <1>3, <1>10
    <3>2. CASE d # "backward" \/ i # r.cursor
      BY Zenon, <3>2, <2>1, <1>10
    <3> QED
      BY Zenon, <3>1, <3>2
  <2>3. \A i \in Step : i < r.cursor => q.failed["backward"][i] = 0
    BY <2>1, <1>5, <1>10 DEF Direction, Step
  <2> QED
    BY Zenon, <2>1, <2>2, <2>3, <1>2, <1>3, <1>5, <1>7, <1>10, <1>11 DEF Counted, Absent
<1>15. Moved(r, q)
  BY Zenon, <1>7, <1>11 DEF Moved
<1>16. q.status # Absent /\ Len(r.done) <= Len(q.done)
  BY <1>3, <1>7, <1>11 DEF Absent
<1> QED
  BY Zenon, <1>6, <1>8, <1>12, <1>13, <1>14, <1>15, <1>16 DEF SaveSound, p, q

(* Whatever step() returned for a record, saving it onto that record is    *)
(* sound.                                                                  *)
LEMMA StepResultSound ==
    ASSUME NEW r, Good(r), r.status \in Active, NEW p, StepResult(r, p)
    PROVE  SaveSound(r, p)
<1>1. CASE r.status = "RUNNING"
  BY Zenon, <1>1, ExecuteSucceededSound, ExecuteFailedSound DEF StepResult, Backward
<1>2. CASE r.status = "COMPENSATING"
  BY Zenon, <1>2, WalkedBackSound, CompensateFailedSound DEF StepResult, Backward
<1> QED
  BY Zenon, <1>1, <1>2 DEF Active

-----------------------------------------------------------------------------
\* A saga starts with nothing done and nothing failed.
LEMMA NewRecordGood ==
    /\ Good(NewRecord) /\ Good(NoRecord)
    /\ Len(NewRecord.done) = 0 /\ NewRecord.status = "RUNNING"
    /\ NoRecord.status = Absent
<1>1. N \in Nat /\ N > 0 /\ MaxAttempts \in Nat /\ MaxAttempts > 0
  BY DefinitionAssumption, EngineAssumption DEF defineSaga
<1>2. NewRecord \in Record /\ NoRecord \in Record
  <2>1. << >> \in Seq(Step) /\ 0 \in -1 .. N
    BY <1>1
  <2>2. [d \in Direction |-> [i \in Step |-> 0]] \in [Direction -> [Step -> Nat]]
    BY Zenon
  <2> QED
    BY Zenon, <2>1, <2>2 DEF NewRecord, NoRecord, Record, Status, Active, Absent
<1>3. Shape(NewRecord) /\ Shape(NoRecord)
  BY <1>1 DEF NewRecord, NoRecord, Shape, Absent
<1>4. Counted(NewRecord) /\ Counted(NoRecord)
  BY <1>1 DEF NewRecord, NoRecord, Counted, Absent, Direction
<1> QED
  BY Zenon, <1>2, <1>3, <1>4 DEF Good, NewRecord, NoRecord, Absent

\* The progress of a pass that has not run a step.
LEMMA NoProgressTyped == NoProgress \in Progress
<1>1. N \in Nat /\ N > 0
  BY DefinitionAssumption DEF defineSaga
<1> QED
  BY <1>1 DEF NoProgress, Progress, entry, LogEntry, Outcome, Direction, Status, Active, Step

(* abandon() keeps everything of a row but its status.                     *)
LEMMA AbandonedGood ==
    ASSUME NEW r, Good(r), NEW q, q = [r EXCEPT !.status = "STUCK"]
    PROVE  Good(q) /\ q.done = r.done /\ q.status = "STUCK"
<1>1. r \in Record /\ Shape(r) /\ Counted(r)
  BY Zenon DEF Good
<1>2. /\ q.status = "STUCK" /\ q.cursor = r.cursor /\ q.attempts = r.attempts
      /\ q.done = r.done /\ q.undone = r.undone /\ q.failed = r.failed
  BY Zenon, <1>1 DEF Record
<1>3. q \in Record
  BY Zenon, <1>1 DEF Record, Status, Terminal
<1>4. Shape(q)
  BY Zenon, <1>1, <1>2 DEF Shape, Absent
<1>5. Counted(q)
  BY Zenon, <1>1, <1>2 DEF Counted, Absent
<1> QED
  BY Zenon, <1>2, <1>3, <1>4, <1>5 DEF Good

(* The record of a pass names a step, and its completed steps are a prefix *)
(* of the definition.                                                      *)
LEMMA ActiveCursor ==
    ASSUME NEW r, Good(r), r.status \in Active
    PROVE  /\ r.cursor \in Step
           /\ assertResumable(r)
           /\ r.cursor <= Len(r.done)
<1>1. r \in Record /\ Shape(r)
  BY Zenon DEF Good
<1>2. Len(r.done) \in Nat /\ Len(r.undone) \in Nat
  BY <1>1 DEF Record
<1>3. N \in Int
  BY DefinitionAssumption DEF defineSaga
<1>4. r.cursor \in Step /\ r.cursor <= Len(r.done)
  <2>1. CASE r.status = "RUNNING"
    <3>1. r.cursor = Len(r.done) - Len(r.undone) /\ r.cursor < N /\ Len(r.undone) = 0
      BY Zenon, <2>1, <1>1 DEF Shape
    <3> QED
      BY <3>1, <1>2, <1>3 DEF Step
  <2>2. CASE r.status = "COMPENSATING"
    <3>1. r.cursor = Len(r.done) - Len(r.undone) /\ r.cursor >= 0 /\ Len(r.done) < N
      BY Zenon, <2>2, <1>1 DEF Shape
    <3>2. r.cursor \in 0 .. N - 1 /\ r.cursor <= Len(r.done)
      BY ONLY Zenon, <3>1, <1>2, <1>3, CursorInRange
    <3> QED
      BY Zenon, <3>2 DEF Step
  <2> QED
    BY Zenon, <2>1, <2>2 DEF Active
<1> QED
  BY Zenon, <1>1, <1>4 DEF assertResumable, Shape

\* The steps done are counted.
LEMMA LenTyped ==
    ASSUME NEW r \in Record
    PROVE  Len(r.done) \in Nat
BY DEF Record

-----------------------------------------------------------------------------
(* The inductive invariant.                                                *)

RowsGood == \A s \in Saga : Good(row[s])

(* What a pass holds is a record the row once was, and not a terminal one. *)
HeldGood ==
    \A o \in Owner, s \in Saga :
        Holds(o, s) =>
            /\ Good(snap[o][s])
            /\ snap[o][s].status \in Active
            /\ row[s].status # Absent
            /\ Len(snap[o][s].done) <= Len(row[s].done)

PassGood(o) ==
    /\ phase[o] = "idle" => driving[o] = NoSaga
    /\ phase[o] # "idle" => driving[o] \in Saga
    /\ driving[o] \notin claimed[o]
    /\ phase[o] = "idle" => iteration[o] = 0
    /\ phase[o] # "idle" => iteration[o] + Measure(Current(o)) <= N + N + 1
    /\ phase[o] = "calling" /\ Backward(Current(o)) =>
          Kind[Current(o).cursor] = "compensatable"
    /\ phase[o] = "saving" => StepResult(Current(o), progress[o])

CalledReached == \A s \in Saga : \A i \in called[s] : i <= Len(row[s].done)

IInv ==
    /\ TypeOK
    /\ SnapshotFresh
    /\ RowsGood
    /\ HeldGood
    /\ \A o \in Owner : PassGood(o)
    /\ CalledReached

(* A pass that is over, and a pass another one's step does not concern.    *)
LEMMA PassIdle ==
    ASSUME NEW q \in Owner, phase'[q] = "idle", driving'[q] = NoSaga,
           claimed'[q] \subseteq Saga, iteration'[q] = 0
    PROVE  PassGood(q)'
BY Zenon, EngineAssumption DEF PassGood

\* A pass no step of which has moved is as good as before.
LEMMA PassSame ==
    ASSUME NEW q \in Owner, PassGood(q),
           phase'[q] = phase[q], driving'[q] = driving[q], claimed'[q] = claimed[q],
           iteration'[q] = iteration[q], progress'[q] = progress[q], snap'[q] = snap[q]
    PROVE  PassGood(q)'
BY Zenon DEF PassGood, Current

\* No saga and no pass at the start.
LEMMA InitInv == Init => IInv
<1> SUFFICES ASSUME Init PROVE IInv
  BY Zenon
<1>1. TypeOK
  BY NewRecordGood, NoProgressTyped, EngineAssumption DEF Init, TypeOK, Good, Phase
<1>2. RowsGood
  BY Zenon, NewRecordGood DEF Init, RowsGood
<1>3. \A o \in Owner, s \in Saga : ~Holds(o, s)
  BY Zenon, EngineAssumption DEF Init, Holds
<1>4. \A o \in Owner : PassGood(o)
  BY Zenon DEF Init, PassGood
<1> QED
  BY Zenon, <1>1, <1>2, <1>3, <1>4 DEF Init, IInv, SnapshotFresh, HeldGood, CalledReached

-----------------------------------------------------------------------------
(* Each action preserves the invariant.                                    *)

\* start: a row is inserted, due at once.
LEMMA StartInv ==
    ASSUME IInv, NEW s \in Saga, start(s)
    PROVE  IInv'
<1> USE DEF IInv
<1>1. TypeOK'
  BY Zenon, NewRecordGood DEF start, TypeOK, Good, leaseVars, passVars
<1>2. RowsGood'
  BY Zenon, NewRecordGood DEF start, RowsGood, TypeOK
<1>3. \A o \in Owner : ~Holds(o, s)
  BY Zenon DEF start, HeldGood
<1>4. SnapshotFresh'
  BY Zenon, <1>3 DEF start, SnapshotFresh, Holds, TypeOK, leaseVars, passVars
<1>5. HeldGood'
  BY Zenon, <1>3 DEF start, HeldGood, Holds, TypeOK, leaseVars, passVars
<1>6. \A o \in Owner : PassGood(o)'
  BY Zenon DEF start, PassGood, Current, passVars
<1>7. CalledReached'
  <2>1. Len(row[s].done) = 0
    BY Zenon DEF start, RowsGood, Good, Shape
  <2> QED
    BY Zenon, <2>1, NewRecordGood DEF start, CalledReached, TypeOK
<1> QED
  BY Zenon, <1>1, <1>2, <1>4, <1>5, <1>6, <1>7

\* A lease lapses or a retry falls due.
LEMMA TimeInv ==
    ASSUME IInv, NEW s \in Saga, LeaseRunsOut(s) \/ LeaseRunsOutEarly(s) \/ FallDue(s)
    PROVE  IInv'
<1> USE DEF IInv
<1>1. UNCHANGED <<row, lockedBy, passVars, called>>
  BY Zenon DEF LeaseRunsOut, LeaseRunsOutEarly, FallDue, leaseVars
<1>2. /\ lapsed' \in [Saga -> BOOLEAN] /\ due' \in [Saga -> BOOLEAN]
      /\ faults' \in 0 .. MaxFaults
  <2>1. CASE LeaseRunsOut(s)
    BY Zenon, <2>1 DEF TypeOK, LeaseRunsOut
  <2>2. CASE LeaseRunsOutEarly(s)
    BY <2>2, EngineAssumption DEF TypeOK, LeaseRunsOutEarly, Fault
  <2>3. CASE FallDue(s)
    BY Zenon, <2>3 DEF TypeOK, FallDue, leaseVars
  <2> QED
    BY Zenon, <2>1, <2>2, <2>3
<1>3. TypeOK'
  BY Zenon, <1>1, <1>2 DEF TypeOK, passVars
<1>4. RowsGood' /\ CalledReached'
  BY Zenon, <1>1 DEF RowsGood, CalledReached
<1>5. SnapshotFresh' /\ HeldGood'
  BY Zenon, <1>1 DEF SnapshotFresh, HeldGood, Holds, passVars
<1>6. \A o \in Owner : PassGood(o)'
  BY Zenon, <1>1 DEF PassGood, Current, passVars
<1> QED
  BY Zenon, <1>3, <1>4, <1>5, <1>6

\* A pass leases a batch of claimable rows and reads them.
LEMMA TakeInv ==
    ASSUME IInv, NEW o \in Owner, NEW batch \in SUBSET Saga, Take(o, batch)
    PROVE  IInv'
<1> USE DEF IInv
<1>1. UNCHANGED <<row, due, driving, phase, progress, iteration, called, faults>>
  BY Zenon DEF Take
<1>2. /\ lockedBy' = [s \in Saga |-> IF s \in batch THEN o ELSE lockedBy[s]]
      /\ claimed' = [claimed EXCEPT ![o] = batch]
      /\ snap' = [snap EXCEPT ![o] =
                     [s \in Saga |-> IF s \in batch THEN row[s] ELSE NoRecord]]
  BY Zenon DEF Take
<1>3. phase[o] = "idle" /\ claimed[o] = {} /\ driving[o] = NoSaga
  BY Zenon DEF Take, Fresh, PassGood
<1>4. TypeOK'
  <2>1. lapsed' \in [Saga -> BOOLEAN]
    BY Zenon DEF Take, TypeOK
  <2>2. snap' \in [Owner -> [Saga -> Record]]
    BY Zenon, <1>2, NewRecordGood DEF TypeOK, Good
  <2> QED
    BY Zenon, <1>1, <1>2, <2>1, <2>2 DEF TypeOK
<1>5. RowsGood' /\ CalledReached'
  BY Zenon, <1>1 DEF RowsGood, CalledReached
<1>6. \A q \in Owner, s \in Saga : q # o => snap'[q][s] = snap[q][s] /\ (Holds(q, s)' => Holds(q, s))
  BY Zenon, <1>1, <1>2 DEF TypeOK, Holds
<1>7. \A s \in Saga : Holds(o, s)' => s \in batch /\ snap'[o][s] = row[s]
  BY Zenon, <1>1, <1>2, <1>3, EngineAssumption DEF TypeOK, Holds
<1>8. SnapshotFresh'
  BY Zenon, <1>1, <1>2, <1>6, <1>7 DEF SnapshotFresh
<1>9. HeldGood'
  <2>1. \A s \in batch : row[s].status \in Active /\ row[s].status # Absent
    BY Zenon DEF Take, Claimable, Active, Absent
  <2>2. \A s \in Saga : Good(row[s]) /\ Len(row[s].done) <= Len(row[s].done)
    BY DEF RowsGood, Good, Record
  <2> QED
    BY Zenon, <2>1, <2>2, <1>1, <1>6, <1>7 DEF HeldGood
<1>10. \A q \in Owner : PassGood(q)'
  <2> SUFFICES ASSUME NEW q \in Owner PROVE PassGood(q)'
    BY Zenon
  <2>1. CASE q = o
    BY Zenon, <2>1, <1>1, <1>2, <1>3, EngineAssumption DEF PassGood, TypeOK
  <2>2. CASE q # o
    BY Zenon, <2>2, <1>1, <1>2, <1>6 DEF PassGood, Current, TypeOK
  <2> QED
    BY Zenon, <2>1, <2>2
<1> QED
  BY Zenon, <1>4, <1>5, <1>8, <1>9, <1>10

\* drive: the loop looks at what is left.
LEMMA DriveInv ==
    ASSUME IInv, NEW o \in Owner, NEW s \in Saga, drive(o, s)
    PROVE  IInv'
<1> USE DEF IInv
<1>1. UNCHANGED <<row, due, lockedBy, lapsed, snap, progress, iteration, called, faults>>
  BY Zenon DEF drive, leaseVars
<1>2. /\ claimed' = [claimed EXCEPT ![o] = @ \ {s}]
      /\ driving' = [driving EXCEPT ![o] = s]
      /\ phase' = [phase EXCEPT ![o] = "ready"]
      /\ s \in claimed[o]
      /\ phase[o] = "idle" /\ driving[o] = NoSaga /\ iteration[o] = 0
  BY Zenon DEF drive, PassGood
<1>3. TypeOK'
  BY Zenon, <1>1, <1>2 DEF TypeOK, Phase
<1>4. RowsGood' /\ CalledReached'
  BY Zenon, <1>1 DEF RowsGood, CalledReached
<1>5. \A q \in Owner, t \in Saga : Holds(q, t)' => Holds(q, t)
  BY Zenon, <1>2 DEF Holds, TypeOK
<1>6. SnapshotFresh' /\ HeldGood'
  BY Zenon, <1>1, <1>5 DEF SnapshotFresh, HeldGood
<1>7. Good(snap[o][s]) /\ snap[o][s].status \in Active
  BY Zenon, <1>2 DEF HeldGood, Holds
<1>8. 0 + Measure(snap[o][s]) <= N + N + 1
  <2>1. snap[o][s].cursor \in 0 .. N - 1 /\ N \in Nat
    BY Zenon, <1>7, ActiveCursor, DefinitionAssumption DEF defineSaga, Step
  <2> QED
    BY <2>1 DEF Measure
<1>9. \A q \in Owner : PassGood(q)'
  <2> SUFFICES ASSUME NEW q \in Owner PROVE PassGood(q)'
    BY Zenon
  <2>1. CASE q = o
    BY Zenon, <2>1, <1>1, <1>2, <1>8, EngineAssumption DEF PassGood, Current, TypeOK
  <2>2. CASE q # o
    BY Zenon, <2>2, <1>1, <1>2 DEF PassGood, Current, TypeOK
  <2> QED
    BY Zenon, <2>1, <2>2
<1> QED
  BY Zenon, <1>3, <1>4, <1>6, <1>9

\* abandon: the row is written STUCK by id.
LEMMA AbandonInv ==
    ASSUME IInv, NEW o \in Owner, NEW s \in Saga, abandon(o, s)
    PROVE  IInv'
<1> USE DEF IInv
<1>1. UNCHANGED <<due, driving, phase, progress, iteration, called, faults>>
  BY Zenon DEF abandon
<1>2. /\ claimed' = [claimed EXCEPT ![o] = @ \ {s}]
      /\ row' = [row EXCEPT ![s].status = "STUCK"]
      /\ lockedBy' = [lockedBy EXCEPT ![s] = NoOwner]
      /\ lapsed' = [lapsed EXCEPT ![s] = FALSE]
      /\ snap' = [snap EXCEPT ![o][s] = NoRecord]
      /\ phase[o] = "idle" /\ driving[o] = NoSaga
  BY Zenon DEF abandon, Forget, PassGood
<1>3. row'[s] = [row[s] EXCEPT !.status = "STUCK"]
  BY Zenon, <1>2 DEF TypeOK
<1>4. \A t \in Saga : t # s => row'[t] = row[t]
  BY Zenon, <1>2 DEF TypeOK
<1>5. Good(row[s])
  BY Zenon DEF RowsGood
<1>6. Good(row'[s]) /\ row'[s].done = row[s].done /\ row'[s].status = "STUCK"
  BY Zenon, <1>3, <1>5, AbandonedGood
<1>7. RowsGood'
  BY Zenon, <1>4, <1>6 DEF RowsGood
<1>8. TypeOK'
  <2>1. row' \in [Saga -> Record]
    BY Zenon, <1>2, <1>3, <1>4, <1>6 DEF TypeOK, Good
  <2>2. snap' \in [Owner -> [Saga -> Record]]
    BY Zenon, <1>2, NewRecordGood DEF TypeOK, Good
  <2> QED
    BY Zenon, <1>1, <1>2, <2>1, <2>2 DEF TypeOK
<1>9. \A q \in Owner, t \in Saga :
        Holds(q, t)' => Holds(q, t) /\ snap'[q][t] = snap[q][t]
  BY Zenon, <1>1, <1>2, EngineAssumption DEF Holds, TypeOK
<1>10. SnapshotFresh'
  BY <1>2, <1>4, <1>9, EngineAssumption DEF SnapshotFresh, TypeOK
<1>11. HeldGood'
  BY Zenon, <1>4, <1>6, <1>9 DEF HeldGood, Absent
<1>12. CalledReached'
  BY Zenon, <1>1, <1>4, <1>6 DEF CalledReached
<1>13. \A q \in Owner : PassGood(q)'
  <2> SUFFICES ASSUME NEW q \in Owner PROVE PassGood(q)'
    BY Zenon
  <2>1. CASE q = o
    BY Zenon, <2>1, <1>1, <1>2, EngineAssumption DEF PassGood, TypeOK
  <2>2. CASE q # o
    BY Zenon, <2>2, <1>1, <1>2 DEF PassGood, Current, TypeOK
  <2> QED
    BY Zenon, <2>1, <2>2
<1> QED
  BY Zenon, <1>7, <1>8, <1>10, <1>11, <1>12, <1>13

(* What the passes still hold is as fresh and as good as it was.           *)
LEMMA HeldSame ==
    ASSUME SnapshotFresh, HeldGood, UNCHANGED <<row, lockedBy>>,
           \A q \in Owner, t \in Saga :
              Holds(q, t)' => Holds(q, t) /\ snap'[q][t] = snap[q][t]
    PROVE  SnapshotFresh' /\ HeldGood'
<1>1. SnapshotFresh'
  <2> SUFFICES ASSUME NEW q \in Owner, NEW t \in Saga, Holds(q, t)', lockedBy'[t] = q
               PROVE  snap'[q][t] = row'[t]
    BY Zenon DEF SnapshotFresh
  <2>1. Holds(q, t) /\ snap'[q][t] = snap[q][t]
    BY Zenon
  <2> QED
    BY Zenon, <2>1 DEF SnapshotFresh
<1>2. HeldGood'
  <2> SUFFICES ASSUME NEW q \in Owner, NEW t \in Saga, Holds(q, t)'
               PROVE  /\ Good(snap'[q][t]) /\ snap'[q][t].status \in Active
                      /\ row'[t].status # Absent
                      /\ Len(snap'[q][t].done) <= Len(row'[t].done)
    BY Zenon DEF HeldGood
  <2>1. Holds(q, t) /\ snap'[q][t] = snap[q][t]
    BY Zenon
  <2> QED
    BY Zenon, <2>1 DEF HeldGood
<1> QED
  BY Zenon, <1>1, <1>2

\* Counts that grow twice have grown.
LEMMA LeqTransitive ==
    ASSUME NEW a \in Nat, NEW b \in Nat, NEW c \in Nat, a <= b, b <= c
    PROVE  a <= c
OBVIOUS

\* abandon fails and the pass ends.
LEMMA AbandonThrowsInv ==
    ASSUME IInv, NEW o \in Owner, NEW s \in Saga, AbandonThrows(o, s)
    PROVE  IInv'
<1> USE DEF IInv
<1>1. UNCHANGED <<row, due, lockedBy, lapsed, driving, phase, progress, iteration, called>>
  BY Zenon DEF AbandonThrows, leaseVars
<1>2. /\ claimed' = [claimed EXCEPT ![o] = @ \ {s}]
      /\ snap' = [snap EXCEPT ![o][s] = NoRecord]
      /\ phase[o] = "idle" /\ driving[o] = NoSaga
  BY Zenon DEF AbandonThrows, Forget, PassGood
<1>3. TypeOK'
  <2>1. snap' \in [Owner -> [Saga -> Record]]
    BY Zenon, <1>2, NewRecordGood DEF TypeOK, Good
  <2>2. faults' \in 0 .. MaxFaults
    BY EngineAssumption DEF AbandonThrows, Fault, TypeOK
  <2> QED
    BY Zenon, <1>1, <1>2, <2>1, <2>2 DEF TypeOK
<1>4. RowsGood' /\ CalledReached'
  BY Zenon, <1>1 DEF RowsGood, CalledReached
<1>5. \A q \in Owner, t \in Saga :
        Holds(q, t)' => Holds(q, t) /\ snap'[q][t] = snap[q][t]
  BY Zenon, <1>1, <1>2, EngineAssumption DEF Holds, TypeOK
<1>6. SnapshotFresh' /\ HeldGood'
  BY Zenon, <1>1, <1>5, HeldSame
<1>7. \A q \in Owner : PassGood(q)'
  <2> SUFFICES ASSUME NEW q \in Owner PROVE PassGood(q)'
    BY Zenon
  <2>1. CASE q = o
    BY Zenon, <2>1, <1>1, <1>2, EngineAssumption DEF PassGood, TypeOK
  <2>2. CASE q # o
    BY Zenon, <2>2, <1>1, <1>2 DEF PassGood, Current, TypeOK
  <2> QED
    BY Zenon, <2>1, <2>2
<1> QED
  BY Zenon, <1>3, <1>4, <1>6, <1>7

\* The step of the cursor is called, forward or back.
LEMMA BeginCallInv ==
    ASSUME IInv, NEW o \in Owner, BeginCall(o)
    PROVE  IInv'
<1> USE DEF IInv
<1>1. UNCHANGED <<row, due, lockedBy, lapsed, claimed, snap, driving, progress, iteration, faults>>
  BY Zenon DEF BeginCall, leaseVars
<1>2. /\ phase' = [phase EXCEPT ![o] = "calling"] /\ phase[o] = "ready"
      /\ driving[o] \in Saga
      /\ Backward(Current(o)) => Kind[Current(o).cursor] = "compensatable"
  BY Zenon DEF BeginCall, PassGood
<1>3. Holds(o, driving[o])
  BY Zenon, <1>2 DEF Holds
<1>4. /\ Good(Current(o)) /\ Current(o).status \in Active
      /\ Len(Current(o).done) <= Len(row[driving[o]].done)
  BY Zenon, <1>2, <1>3 DEF HeldGood, Current
<1>5. Current(o).cursor \in Step /\ Current(o).cursor <= Len(Current(o).done)
  BY Zenon, <1>4, ActiveCursor
<1>6. \A s \in Saga : \A i \in called'[s] :
        i \in called[s] \/ (s = driving[o] /\ i = Current(o).cursor)
  <2>1. CASE Backward(Current(o))
    BY Zenon, <2>1 DEF BeginCall
  <2>2. CASE ~Backward(Current(o))
    <3>1. called' = [called EXCEPT ![driving[o]] = @ \cup {Current(o).cursor}]
      BY Zenon, <2>2 DEF BeginCall
    <3> QED
      BY Zenon, <3>1, <1>2 DEF TypeOK
  <2> QED
    BY Zenon, <2>1, <2>2
<1>7. TypeOK'
  <2>1. called' \in [Saga -> SUBSET Step]
    BY Zenon, <1>2, <1>5 DEF BeginCall, TypeOK
  <2> QED
    BY Zenon, <1>1, <1>2, <2>1 DEF TypeOK, Phase
<1>8. RowsGood'
  BY Zenon, <1>1 DEF RowsGood
<1>9. SnapshotFresh' /\ HeldGood'
  BY Zenon, <1>1 DEF SnapshotFresh, HeldGood, Holds
<1>10. CalledReached'
  <2>1. Len(Current(o).done) \in Nat /\ Len(row[driving[o]].done) \in Nat
    BY <1>2, <1>4 DEF Good, Record, TypeOK
  <2>2. Current(o).cursor <= Len(row[driving[o]].done)
    BY <2>1, <1>4, <1>5, DefinitionAssumption DEF Step, defineSaga
  <2> QED
    BY Zenon, <2>2, <1>1, <1>6 DEF CalledReached
<1>11. \A q \in Owner : PassGood(q)'
  <2> SUFFICES ASSUME NEW q \in Owner PROVE PassGood(q)'
    BY Zenon
  <2>1. CASE q = o
    BY Zenon, <2>1, <1>1, <1>2 DEF PassGood, Current, TypeOK
  <2>2. CASE q # o
    BY Zenon, <2>2, <1>1, <1>2 DEF PassGood, Current, TypeOK
  <2> QED
    BY Zenon, <2>1, <2>2
<1> QED
  BY Zenon, <1>7, <1>8, <1>9, <1>10, <1>11

(* SkipPivot and CallReturns: a result of step() is on its way to save().  *)
LEMMA ResultInv ==
    ASSUME IInv, NEW o \in Owner, NEW p,
           phase[o] = "ready" \/ phase[o] = "calling",
           StepResult(Current(o), p),
           phase' = [phase EXCEPT ![o] = "saving"],
           progress' = [progress EXCEPT ![o] = p],
           UNCHANGED <<row, due, leaseVars, claimed, snap, driving, iteration, called, faults>>
    PROVE  IInv'
<1> USE DEF IInv
<1>1. driving[o] \in Saga /\ phase[o] # "idle"
  BY Zenon DEF PassGood
<1>2. Good(Current(o)) /\ Current(o).status \in Active
  BY Zenon, <1>1 DEF HeldGood, Current, Holds
<1>3. p \in Progress
  BY Zenon, <1>2, StepResultSound DEF SaveSound
<1>4. TypeOK'
  BY Zenon, <1>3 DEF TypeOK, Phase, leaseVars
<1>5. RowsGood' /\ CalledReached'
  BY Zenon DEF RowsGood, CalledReached
<1>6. SnapshotFresh' /\ HeldGood'
  BY Zenon DEF SnapshotFresh, HeldGood, Holds, leaseVars
<1>7. \A q \in Owner : PassGood(q)'
  <2> SUFFICES ASSUME NEW q \in Owner PROVE PassGood(q)'
    BY Zenon
  <2>1. CASE q = o
    BY Zenon, <2>1, <1>1 DEF PassGood, Current, TypeOK
  <2>2. CASE q # o
    BY Zenon, <2>2 DEF PassGood, Current, TypeOK
  <2> QED
    BY Zenon, <2>1, <2>2
<1> QED
  BY Zenon, <1>4, <1>5, <1>6, <1>7

\* A step without compensation is walked over.
LEMMA SkipPivotInv ==
    ASSUME IInv, NEW o \in Owner, SkipPivot(o)
    PROVE  IInv'
<1>1. StepResult(Current(o), WalkedBack(Current(o), "skipped"))
  BY Zenon DEF SkipPivot, StepResult
<1> QED
  BY Zenon, <1>1, ResultInv DEF SkipPivot

\* The step returns or fails, and its result awaits the checkpoint.
LEMMA StepReturnsInv ==
    ASSUME IInv, NEW o \in Owner, StepReturns(o)
    PROVE  IInv'
<1>1. phase[o] = "calling" /\ PassGood(o)
  BY Zenon DEF StepReturns, StepSucceeds, StepFails, CallReturns, IInv
<1>2. ASSUME StepSucceeds(o) PROVE IInv'
  <2>1. StepResult(Current(o), CallSucceeded(Current(o)))
    BY Zenon DEF StepResult, CallSucceeded
  <2> QED
    BY Zenon, <1>2, <2>1, ResultInv DEF StepSucceeds, CallReturns
<1>3. ASSUME NEW u \in BOOLEAN, StepFails(o, u) PROVE IInv'
  <2>1. StepResult(Current(o), CallFailed(Current(o), u))
    BY Zenon, <1>1 DEF StepResult, CallFailed, PassGood
  <2> QED
    BY Zenon, <1>3, <2>1, ResultInv DEF StepFails, CallReturns
<1> QED
  BY Zenon, <1>2, <1>3 DEF StepReturns

(* The pass is done with the instance it was driving, and the rows changed *)
(* in no way that concerns another pass.                                   *)
LEMMA EndDriveInv ==
    ASSUME IInv, NEW o \in Owner, phase[o] = "saving",
           EndDrive(o), Forget(o, driving[o]),
           RowsGood', TypeOK', UNCHANGED called,
           \A s \in Saga : /\ Len(row[s].done) <= Len(row'[s].done)
                           /\ row[s].status # Absent => row'[s].status # Absent,
           \A q \in Owner, s \in Saga :
              Holds(q, s) /\ s # driving[o] /\ lockedBy'[s] = q =>
                 lockedBy[s] = q /\ row'[s] = row[s],
           \A q \in Owner :
              q # o /\ lockedBy'[driving[o]] = q =>
                 lockedBy[driving[o]] = q /\ row'[driving[o]] = row[driving[o]]
    PROVE  IInv'
<1>0. /\ TypeOK /\ SnapshotFresh /\ HeldGood /\ CalledReached
      /\ \A q \in Owner : PassGood(q)
  BY Zenon DEF IInv
<1>1. driving[o] \in Saga /\ driving[o] \notin claimed[o]
  BY Zenon, <1>0 DEF PassGood
<1>2. /\ driving' = [driving EXCEPT ![o] = NoSaga]
      /\ phase' = [phase EXCEPT ![o] = "idle"]
      /\ progress' = [progress EXCEPT ![o] = NoProgress]
      /\ iteration' = [iteration EXCEPT ![o] = 0]
      /\ claimed' = claimed
      /\ snap' = [snap EXCEPT ![o][driving[o]] = NoRecord]
  BY Zenon DEF EndDrive, Forget
<1>3. \A q \in Owner, t \in Saga :
        Holds(q, t)' =>
           Holds(q, t) /\ snap'[q][t] = snap[q][t] /\ (q # o \/ t # driving[o])
  <2>1. /\ driving \in [Owner -> Saga \cup {NoSaga}] /\ NoSaga \notin Saga
        /\ snap \in [Owner -> [Saga -> Record]]
    BY Zenon, <1>0, EngineAssumption DEF TypeOK
  <2> SUFFICES ASSUME NEW q \in Owner, NEW t \in Saga, Holds(q, t)'
               PROVE  Holds(q, t) /\ snap'[q][t] = snap[q][t] /\ (q # o \/ t # driving[o])
    BY Zenon
  <2>2. t \in claimed'[q] \/ driving'[q] = t
    BY Zenon DEF Holds
  <2>3. CASE q = o
    <3>1. driving'[o] = NoSaga /\ claimed'[o] = claimed[o]
      BY ONLY Zenon, <2>1, <1>2, o \in Owner
    <3>2. t \in claimed[o] /\ t # driving[o]
      BY ONLY Zenon, <3>1, <2>1, <2>2, <2>3, <1>1, t \in Saga
    <3>3. snap'[o][t] = snap[o][t]
      BY ONLY Zenon, <3>2, <2>1, <1>2, o \in Owner, t \in Saga
    <3> QED
      BY ONLY Zenon, <3>2, <3>3, <2>3 DEF Holds
  <2>4. CASE q # o
    <3>1. driving'[q] = driving[q] /\ claimed'[q] = claimed[q] /\ snap'[q] = snap[q]
      BY ONLY Zenon, <2>1, <2>4, <1>2, o \in Owner, q \in Owner
    <3> QED
      BY ONLY Zenon, <3>1, <2>2, <2>4 DEF Holds
  <2> QED
    BY ONLY Zenon, <2>3, <2>4
<1>4. SnapshotFresh'
  <2> SUFFICES ASSUME NEW q \in Owner, NEW t \in Saga, Holds(q, t)', lockedBy'[t] = q
               PROVE  snap'[q][t] = row'[t]
    BY Zenon DEF SnapshotFresh
  <2>1. Holds(q, t) /\ snap'[q][t] = snap[q][t] /\ (q # o \/ t # driving[o])
    BY ONLY Zenon, <1>3, q \in Owner, t \in Saga, Holds(q, t)'
  <2>2. lockedBy[t] = q /\ row'[t] = row[t]
    BY Zenon, <2>1, <1>1
  <2> QED
    BY Zenon, <2>1, <2>2, <1>0 DEF SnapshotFresh
<1>5. ASSUME NEW t \in Saga
      PROVE  Len(row[t].done) \in Nat /\ Len(row'[t].done) \in Nat
  <2>1. row[t] \in Record /\ row'[t] \in Record
    BY ONLY Zenon, <1>0, TypeOK', t \in Saga DEF TypeOK
  <2> QED
    BY ONLY Zenon, <2>1, LenTyped
<1>6. HeldGood'
  <2> SUFFICES ASSUME NEW q \in Owner, NEW t \in Saga, Holds(q, t)'
               PROVE  /\ Good(snap'[q][t]) /\ snap'[q][t].status \in Active
                      /\ row'[t].status # Absent
                      /\ Len(snap'[q][t].done) <= Len(row'[t].done)
    BY Zenon DEF HeldGood
  <2>1. Holds(q, t) /\ snap'[q][t] = snap[q][t]
    BY ONLY Zenon, <1>3, q \in Owner, t \in Saga, Holds(q, t)'
  <2>2. /\ Good(snap[q][t]) /\ snap[q][t].status \in Active
        /\ row[t].status # Absent /\ Len(snap[q][t].done) <= Len(row[t].done)
    BY Zenon, <2>1, <1>0 DEF HeldGood
  <2>3. Len(snap[q][t].done) \in Nat
    BY ONLY Zenon, <2>2, LenTyped DEF Good
  <2>4. Len(row[t].done) <= Len(row'[t].done) /\ row'[t].status # Absent
    BY Zenon, <2>2
  <2>5. Len(snap[q][t].done) <= Len(row'[t].done)
    BY ONLY Zenon, <2>2, <2>3, <2>4, <1>5, t \in Saga, LeqTransitive
  <2> QED
    BY Zenon, <2>1, <2>2, <2>4, <2>5
<1>7. CalledReached'
  <2> SUFFICES ASSUME NEW t \in Saga, NEW i \in called[t] PROVE i <= Len(row'[t].done)
    BY Zenon DEF CalledReached
  <2>1. i \in Int /\ i <= Len(row[t].done)
    BY <1>0, DefinitionAssumption DEF CalledReached, TypeOK, Step, defineSaga
  <2> QED
    BY <2>1, <1>5
<1>8. \A q \in Owner : PassGood(q)'
  <2> SUFFICES ASSUME NEW q \in Owner PROVE PassGood(q)'
    BY Zenon
  <2>1. CASE q = o
    <3>1. /\ phase'[o] = "idle" /\ driving'[o] = NoSaga /\ iteration'[o] = 0
          /\ claimed'[o] \subseteq Saga
      BY ONLY Zenon, <1>0, <1>2, o \in Owner DEF TypeOK
    <3> QED
      BY Zenon, <2>1, <3>1, PassIdle
  <2>2. CASE q # o
    <3>1. /\ phase'[q] = phase[q] /\ driving'[q] = driving[q] /\ claimed'[q] = claimed[q]
          /\ iteration'[q] = iteration[q] /\ progress'[q] = progress[q]
          /\ snap'[q] = snap[q]
      BY ONLY Zenon, <2>2, <1>0, <1>2, o \in Owner, q \in Owner DEF TypeOK
    <3> QED
      BY Zenon, <3>1, <1>0, PassSame
  <2> QED
    BY Zenon, <2>1, <2>2
<1> QED
  BY Zenon, <1>4, <1>6, <1>7, <1>8 DEF IInv

(* What a save that reached the row makes of it.                           *)
LEMMA WriteSound ==
    ASSUME IInv, NEW o \in Owner, phase[o] = "saving", StillOwns(o),
           Write(o, driving[o])
    PROVE  /\ driving[o] \in Saga
           /\ row[driving[o]] = Current(o) /\ Current(o).status \in Active
           /\ row' = [row EXCEPT ![driving[o]] = Apply(Current(o), progress[o])]
           /\ SaveSound(Current(o), progress[o])
           /\ row' \in [Saga -> Record]
           /\ due' \in [Saga -> BOOLEAN] /\ lapsed' \in [Saga -> BOOLEAN]
           /\ lockedBy' \in [Saga -> Owner \cup {NoOwner}]
           /\ \A s \in Saga : s # driving[o] => lockedBy'[s] = lockedBy[s]
           /\ lockedBy'[driving[o]] \in {NoOwner, o}
           /\ RowsGood'
<1>0. TypeOK /\ SnapshotFresh /\ HeldGood /\ RowsGood /\ PassGood(o)
  BY Zenon DEF IInv
<1>1. driving[o] \in Saga /\ StepResult(Current(o), progress[o])
  BY Zenon, <1>0 DEF PassGood
<1>2. Holds(o, driving[o]) /\ lockedBy[driving[o]] = o
  BY Zenon DEF Holds, StillOwns
<1>3. row[driving[o]] = Current(o) /\ Good(Current(o)) /\ Current(o).status \in Active
  BY Zenon, <1>0, <1>1, <1>2 DEF SnapshotFresh, HeldGood, Current
<1>4. SaveSound(Current(o), progress[o])
  BY Zenon, <1>1, <1>3, StepResultSound
<1>5. row' = [row EXCEPT ![driving[o]] = Apply(Current(o), progress[o])]
  BY Zenon, <1>3 DEF Write
<1>6. Good(Apply(Current(o), progress[o]))
  BY Zenon, <1>4 DEF SaveSound, Good
<1>7. row' \in [Saga -> Record] /\ RowsGood'
  BY Zenon, <1>0, <1>1, <1>5, <1>6 DEF RowsGood, Good, TypeOK
<1>8. /\ lockedBy' \in [Saga -> Owner \cup {NoOwner}]
      /\ \A s \in Saga : s # driving[o] => lockedBy'[s] = lockedBy[s]
      /\ lockedBy'[driving[o]] \in {NoOwner, o}
  BY Zenon, <1>0, <1>1 DEF Write, TypeOK
<1>9. lapsed' \in [Saga -> BOOLEAN]
  BY Zenon, <1>0, <1>1 DEF Write, TypeOK
<1>10. due' \in [Saga -> BOOLEAN]
  BY Zenon, <1>0, <1>1 DEF Write, TypeOK
<1> QED
  BY Zenon, <1>1, <1>3, <1>4, <1>5, <1>7, <1>8, <1>9, <1>10

\* save: the fenced checkpoint writes the result on the row.
LEMMA SaveInv ==
    ASSUME IInv, NEW o \in Owner, save(o)
    PROVE  IInv'
<1> DEFINE s == driving[o]
           r == Current(o)
           p == progress[o]
<1>0. /\ TypeOK /\ SnapshotFresh /\ HeldGood /\ CalledReached
      /\ \A q \in Owner : PassGood(q)
  BY Zenon DEF IInv
<1>1. phase[o] = "saving" /\ StillOwns(o) /\ Write(o, s) /\ UNCHANGED <<called, faults>>
  BY Zenon DEF save
<1>2. /\ s \in Saga /\ row[s] = r /\ r.status \in Active
      /\ row' = [row EXCEPT ![s] = Apply(r, p)]
      /\ SaveSound(r, p)
      /\ row' \in [Saga -> Record]
      /\ due' \in [Saga -> BOOLEAN] /\ lapsed' \in [Saga -> BOOLEAN]
      /\ lockedBy' \in [Saga -> Owner \cup {NoOwner}]
      /\ \A t \in Saga : t # s => lockedBy'[t] = lockedBy[t]
      /\ lockedBy'[s] \in {NoOwner, o}
      /\ RowsGood'
  BY Zenon, <1>1, WriteSound
<1>3. /\ row'[s] = Apply(r, p) /\ row'[s].status # Absent
      /\ Len(r.done) <= Len(row'[s].done)
      /\ \A t \in Saga : t # s => row'[t] = row[t]
  BY Zenon, <1>0, <1>2 DEF TypeOK, SaveSound
<1>30. \A t \in Saga : Len(row[t].done) \in Nat /\ Len(row'[t].done) \in Nat
  <2> SUFFICES ASSUME NEW t \in Saga
               PROVE  Len(row[t].done) \in Nat /\ Len(row'[t].done) \in Nat
    BY Zenon
  <2>1. row[t] \in Record /\ row'[t] \in Record
    BY Zenon, <1>0, <1>2 DEF TypeOK
  <2> QED
    BY Zenon, <2>1, LenTyped
<1>31. \A t \in Saga : /\ Len(row[t].done) <= Len(row'[t].done)
                       /\ row[t].status # Absent => row'[t].status # Absent
  <2> SUFFICES ASSUME NEW t \in Saga
               PROVE  /\ Len(row[t].done) <= Len(row'[t].done)
                      /\ row[t].status # Absent => row'[t].status # Absent
    BY Zenon
  <2>1. CASE t = s
    BY ONLY Zenon, <2>1, <1>2, <1>3
  <2>2. CASE t # s
    <3>1. row'[t] = row[t] /\ Len(row[t].done) \in Nat
      BY ONLY Zenon, <2>2, <1>3, <1>30, t \in Saga
    <3> QED
      BY ONLY <3>1
  <2> QED
    BY Zenon, <2>1, <2>2
<1>4. CASE p.lease = "released"
  <2>1. EndDrive(o) /\ Forget(o, s)
    BY Zenon, <1>4 DEF save
  <2>2. TypeOK'
    <3>1. snap' \in [Owner -> [Saga -> Record]]
      BY Zenon, <2>1, <1>0, <1>2, NewRecordGood DEF TypeOK, Forget, Good
    <3> QED
      BY Zenon, <3>1, <2>1, <1>0, <1>1, <1>2, NoProgressTyped DEF TypeOK, EndDrive, Phase
  <2>4. \A q \in Owner, t \in Saga :
          Holds(q, t) /\ t # s /\ lockedBy'[t] = q => lockedBy[t] = q /\ row'[t] = row[t]
    BY Zenon, <1>2, <1>3
  <2>5. \A q \in Owner : q # o /\ lockedBy'[s] = q => lockedBy[s] = q /\ row'[s] = row[s]
    BY Zenon, <1>2, EngineAssumption
  <2> QED
    BY Zenon, <2>1, <2>2, <2>4, <2>5, <1>1, <1>2, <1>31, EndDriveInv
<1>5. CASE p.lease # "released"
  <2>1. /\ snap' = [snap EXCEPT ![o][s] = row'[s]]
        /\ phase' = [phase EXCEPT ![o] = "ready"]
        /\ progress' = [progress EXCEPT ![o] = NoProgress]
        /\ iteration' = [iteration EXCEPT ![o] = @ + 1]
        /\ UNCHANGED <<claimed, driving>>
    BY Zenon, <1>5 DEF save, Reread
  <2>2. /\ row'[s].status \in Active /\ Measure(row'[s]) < Measure(r)
        /\ Good(row'[s])
    <3>1. p.lease = "kept"
      BY Zenon, <1>0, <1>5 DEF TypeOK, Progress
    <3> QED
      BY Zenon, <3>1, <1>2, <1>3 DEF SaveSound, Good
  <2>3. TypeOK'
    <3>1. snap' \in [Owner -> [Saga -> Record]]
      BY Zenon, <2>1, <1>0, <1>2 DEF TypeOK
    <3>2. iteration' \in [Owner -> Nat]
      BY <2>1, <1>0 DEF TypeOK
    <3> QED
      BY Zenon, <3>1, <3>2, <2>1, <1>0, <1>1, <1>2, NoProgressTyped DEF TypeOK, Phase
  <2>4. \A q \in Owner, t \in Saga : Holds(q, t)' <=> Holds(q, t)
    BY Zenon, <2>1 DEF Holds
  <2>5. /\ snap'[o][s] = row'[s]
        /\ \A q \in Owner, t \in Saga : (q # o \/ t # s) => snap'[q][t] = snap[q][t]
    BY Zenon, <2>1, <1>0, <1>2 DEF TypeOK
  <2>6. SnapshotFresh'
    <3> SUFFICES ASSUME NEW q \in Owner, NEW t \in Saga, Holds(q, t)', lockedBy'[t] = q
                 PROVE  snap'[q][t] = row'[t]
      BY Zenon DEF SnapshotFresh
    <3>1. CASE t # s
      <4>1. lockedBy[t] = q /\ row'[t] = row[t] /\ snap'[q][t] = snap[q][t]
        BY Zenon, <3>1, <2>5, <1>2, <1>3
      <4> QED
        BY Zenon, <4>1, <2>4, <1>0 DEF SnapshotFresh
    <3>2. CASE t = s
      BY Zenon, <3>2, <2>5, <1>2, EngineAssumption
    <3> QED
      BY Zenon, <3>1, <3>2
  <2>7. HeldGood'
    <3> SUFFICES ASSUME NEW q \in Owner, NEW t \in Saga, Holds(q, t)'
                 PROVE  /\ Good(snap'[q][t]) /\ snap'[q][t].status \in Active
                        /\ row'[t].status # Absent
                        /\ Len(snap'[q][t].done) <= Len(row'[t].done)
      BY Zenon DEF HeldGood
    <3>1. Holds(q, t) /\ Len(row'[t].done) \in Nat /\ Len(row[t].done) \in Nat
      BY Zenon, <2>4, <1>30
    <3>2. CASE q = o /\ t = s
      <4>1. snap'[q][t] = row'[t] /\ Good(row'[t]) /\ row'[t].status \in Active
        BY ONLY Zenon, <3>2, <2>2, <2>5
      <4>2. row'[t].status # Absent /\ Len(row'[t].done) <= Len(row'[t].done)
        BY ONLY <3>1, <3>2, <1>3
      <4> QED
        BY ONLY Zenon, <4>1, <4>2
    <3>3. CASE q # o \/ t # s
      <4>1. /\ Good(snap[q][t]) /\ snap[q][t].status \in Active
            /\ row[t].status # Absent /\ Len(snap[q][t].done) <= Len(row[t].done)
            /\ snap'[q][t] = snap[q][t]
        BY Zenon, <3>1, <3>3, <2>5, <1>0 DEF HeldGood
      <4>2. Len(snap[q][t].done) \in Nat
        BY ONLY Zenon, <4>1, LenTyped DEF Good
      <4>3. Len(row[t].done) <= Len(row'[t].done) /\ row'[t].status # Absent
        BY Zenon, <4>1, <1>31
      <4>4. Len(snap[q][t].done) <= Len(row'[t].done)
        <5>1. Len(snap[q][t].done) <= Len(row[t].done) /\ Len(row[t].done) <= Len(row'[t].done)
          BY ONLY Zenon, <4>1, <4>3
        <5>2. Len(row[t].done) \in Nat /\ Len(row'[t].done) \in Nat
          BY Zenon, <3>1
        <5> QED
          BY ONLY Zenon, <5>1, <5>2, <4>2, LeqTransitive
      <4> QED
        BY Zenon, <4>1, <4>3, <4>4
    <3> QED
      BY Zenon, <3>2, <3>3
  <2>8. CalledReached'
    <3> SUFFICES ASSUME NEW t \in Saga, NEW i \in called[t] PROVE i <= Len(row'[t].done)
      BY Zenon, <1>1 DEF CalledReached
    <3>1. i \in Int /\ i <= Len(row[t].done)
      BY <1>0, DefinitionAssumption DEF CalledReached, TypeOK, Step, defineSaga
    <3>2. Len(row'[t].done) \in Nat /\ Len(row[t].done) \in Nat
      BY Zenon, <1>30
    <3>3. Len(row[t].done) <= Len(row'[t].done)
      BY Zenon, <1>31
    <3> QED
      BY <3>1, <3>2, <3>3
  <2>9. \A q \in Owner : PassGood(q)'
    <3> SUFFICES ASSUME NEW q \in Owner PROVE PassGood(q)'
      BY Zenon
    <3>1. CASE q = o
      <4>1. Current(o)' = row'[s]
        BY Zenon, <2>1, <2>5 DEF Current
      <4>2. iteration'[o] = iteration[o] + 1 /\ phase'[o] = "ready"
        BY Zenon, <2>1, <1>0 DEF TypeOK
      <4>3. iteration'[o] + Measure(row'[s]) <= N + N + 1
        <5>1. iteration[o] \in Nat /\ iteration[o] + Measure(r) <= N + N + 1 /\ N \in Int
          <6>1. iteration[o] \in Nat
            BY Zenon, <1>0 DEF TypeOK
          <6>2. N \in Int
            BY DefinitionAssumption DEF defineSaga
          <6>3. iteration[o] + Measure(r) <= N + N + 1
            BY <1>0, <1>1, Zenon DEF PassGood
          <6> QED
            BY Zenon, <6>1, <6>2, <6>3
        <5>2. Good(r)
          BY Zenon, <1>0, <1>2 DEF HeldGood, Current, Holds
        <5>3. r.cursor \in Step /\ row'[s].cursor \in Step
          BY ONLY Zenon, <5>2, <2>2, <1>2, ActiveCursor
        <5>4. r.cursor \in Int /\ row'[s].cursor \in Int
          BY ONLY <5>1, <5>3 DEF Step
        <5>5. Measure(r) \in Int /\ Measure(row'[s]) \in Int
          BY ONLY <5>1, <5>4 DEF Measure
        <5> QED
          BY ONLY <5>1, <5>5, <4>2, <2>2
      <4>4. driving'[o] = s /\ s \notin claimed'[o]
        BY Zenon, <2>1, <1>0, <1>1 DEF PassGood
      <4> QED
        BY Zenon, <3>1, <4>1, <4>2, <4>3, <4>4, <1>2 DEF PassGood
    <3>2. CASE q # o
      BY Zenon, <3>2, <2>1, <1>0 DEF PassGood, Current, TypeOK
    <3> QED
      BY Zenon, <3>1, <3>2
  <2> QED
    BY Zenon, <2>3, <2>6, <2>7, <2>8, <2>9, <1>2 DEF IInv
<1> QED
  BY Zenon, <1>4, <1>5

\* save finds another owner, and the pass ends without a write.
LEMMA LeaseLostInv ==
    ASSUME IInv, NEW o \in Owner, LeaseLost(o)
    PROVE  IInv'
<1>0. TypeOK /\ RowsGood /\ PassGood(o)
  BY Zenon DEF IInv
<1>1. UNCHANGED <<row, due, lockedBy, lapsed, called, faults>>
  BY Zenon DEF LeaseLost, leaseVars
<1>2. phase[o] = "saving" /\ EndDrive(o) /\ Forget(o, driving[o]) /\ lockedBy[driving[o]] # o
  BY Zenon DEF LeaseLost, StillOwns
<1>3. TypeOK'
  <2>1. snap' \in [Owner -> [Saga -> Record]]
    BY Zenon, <1>0, <1>2, NewRecordGood DEF TypeOK, Forget, Good
  <2> QED
    BY Zenon, <2>1, <1>0, <1>1, <1>2, NoProgressTyped DEF TypeOK, EndDrive, Phase
<1>4. RowsGood'
  BY Zenon, <1>0, <1>1 DEF RowsGood
<1>5. \A t \in Saga : /\ Len(row[t].done) <= Len(row'[t].done)
                      /\ row[t].status # Absent => row'[t].status # Absent
  BY <1>0, <1>1, LenTyped DEF TypeOK
<1> QED
  BY Zenon, <1>1, <1>2, <1>3, <1>4, <1>5, EndDriveInv

\* save fails and the pass ends.
LEMMA SaveThrowsInv ==
    ASSUME IInv, NEW o \in Owner, SaveThrows(o)
    PROVE  IInv'
<1>0. TypeOK /\ RowsGood /\ PassGood(o)
  BY Zenon DEF IInv
<1>1. /\ phase[o] = "saving" /\ EndDrive(o) /\ Forget(o, driving[o])
      /\ UNCHANGED called /\ faults' \in 0 .. MaxFaults /\ driving[o] \in Saga
  <2>1. /\ phase[o] = "saving" /\ EndDrive(o) /\ Forget(o, driving[o])
        /\ UNCHANGED called /\ Fault
    BY Zenon DEF SaveThrows
  <2>2. faults' \in 0 .. MaxFaults
    BY <2>1, <1>0, EngineAssumption DEF Fault, TypeOK
  <2>3. driving[o] \in Saga
    BY Zenon, <2>1, <1>0 DEF PassGood
  <2> QED
    BY Zenon, <2>1, <2>2, <2>3
<1>2. snap' \in [Owner -> [Saga -> Record]]
  BY Zenon, <1>0, <1>1, NewRecordGood DEF TypeOK, Forget, Good
<1>3. CASE UNCHANGED <<row, due, leaseVars>>
  <2>1. UNCHANGED <<row, due, lockedBy, lapsed>>
    BY Zenon, <1>3 DEF leaseVars
  <2>2. TypeOK'
    BY Zenon, <2>1, <1>0, <1>1, <1>2, NoProgressTyped DEF TypeOK, EndDrive, Phase
  <2>3. RowsGood'
    BY Zenon, <1>0, <2>1 DEF RowsGood
  <2>4. \A t \in Saga : /\ Len(row[t].done) <= Len(row'[t].done)
                        /\ row[t].status # Absent => row'[t].status # Absent
    BY <1>0, <2>1, LenTyped DEF TypeOK
  <2> QED
    BY Zenon, <2>1, <2>2, <2>3, <2>4, <1>1, EndDriveInv
<1>4. CASE StillOwns(o) /\ Write(o, driving[o])
  <2> DEFINE s == driving[o]
  <2>1. /\ row[s] = Current(o)
        /\ row' = [row EXCEPT ![s] = Apply(Current(o), progress[o])]
        /\ SaveSound(Current(o), progress[o])
        /\ row' \in [Saga -> Record]
        /\ due' \in [Saga -> BOOLEAN] /\ lapsed' \in [Saga -> BOOLEAN]
        /\ lockedBy' \in [Saga -> Owner \cup {NoOwner}]
        /\ \A t \in Saga : t # s => lockedBy'[t] = lockedBy[t]
        /\ lockedBy'[s] \in {NoOwner, o}
        /\ RowsGood'
    BY Zenon, <1>1, <1>4, WriteSound
  <2>2. /\ row'[s].status # Absent /\ Len(row[s].done) <= Len(row'[s].done)
        /\ \A t \in Saga : t # s => row'[t] = row[t]
    BY Zenon, <2>1, <1>0, <1>1 DEF TypeOK, SaveSound
  <2>3. TypeOK'
    BY Zenon, <2>1, <1>0, <1>1, <1>2, NoProgressTyped DEF TypeOK, EndDrive, Phase
  <2>4. \A t \in Saga : /\ Len(row[t].done) <= Len(row'[t].done)
                        /\ row[t].status # Absent => row'[t].status # Absent
    <3> SUFFICES ASSUME NEW t \in Saga
                 PROVE  /\ Len(row[t].done) <= Len(row'[t].done)
                        /\ row[t].status # Absent => row'[t].status # Absent
      BY Zenon
    <3>1. CASE t = s
      BY Zenon, <3>1, <2>2
    <3>2. CASE t # s
      <4>1. row[t] \in Record /\ row'[t] = row[t]
        BY Zenon, <3>2, <2>2, <1>0 DEF TypeOK
      <4> QED
        BY <4>1, LenTyped
    <3> QED
      BY Zenon, <3>1, <3>2
  <2>5. \A q \in Owner, t \in Saga :
          Holds(q, t) /\ t # s /\ lockedBy'[t] = q => lockedBy[t] = q /\ row'[t] = row[t]
    BY Zenon, <2>1, <2>2
  <2>6. \A q \in Owner : q # o /\ lockedBy'[s] = q => lockedBy[s] = q /\ row'[s] = row[s]
    BY Zenon, <2>1, EngineAssumption
  <2> QED
    BY Zenon, <2>1, <2>3, <2>4, <2>5, <2>6, <1>1, EndDriveInv
<1> QED
  BY Zenon, <1>3, <1>4 DEF SaveThrows

\* A process dies with whatever it held.
LEMMA CrashInv ==
    ASSUME IInv, NEW o \in Owner, Crash(o)
    PROVE  IInv'
<1>0. /\ TypeOK /\ SnapshotFresh /\ HeldGood /\ CalledReached /\ RowsGood
      /\ \A q \in Owner : PassGood(q)
  BY Zenon DEF IInv
<1>1. UNCHANGED <<row, due, lockedBy, lapsed, called>>
  BY Zenon DEF Crash, leaseVars
<1>2. /\ claimed' = [claimed EXCEPT ![o] = {}]
      /\ snap' = [snap EXCEPT ![o] = [s \in Saga |-> NoRecord]]
      /\ driving' = [driving EXCEPT ![o] = NoSaga]
      /\ phase' = [phase EXCEPT ![o] = "idle"]
      /\ progress' = [progress EXCEPT ![o] = NoProgress]
      /\ iteration' = [iteration EXCEPT ![o] = 0]
      /\ faults' \in 0 .. MaxFaults
  BY <1>0, EngineAssumption DEF Crash, Fault, TypeOK
<1>3. TypeOK'
  <2>1. snap' \in [Owner -> [Saga -> Record]]
    BY Zenon, <1>0, <1>2, NewRecordGood DEF TypeOK, Good
  <2> QED
    BY Zenon, <2>1, <1>0, <1>1, <1>2, NoProgressTyped DEF TypeOK, Phase
<1>4. RowsGood' /\ CalledReached'
  BY Zenon, <1>0, <1>1 DEF RowsGood, CalledReached
<1>5. \A q \in Owner, t \in Saga :
        Holds(q, t)' => Holds(q, t) /\ snap'[q][t] = snap[q][t]
  BY Zenon, <1>0, <1>2, EngineAssumption DEF Holds, TypeOK
<1>6. SnapshotFresh' /\ HeldGood'
  BY Zenon, <1>0, <1>1, <1>5, HeldSame
<1>7. \A q \in Owner : PassGood(q)'
  <2> SUFFICES ASSUME NEW q \in Owner PROVE PassGood(q)'
    BY Zenon
  <2>1. CASE q = o
    <3>1. /\ phase'[o] = "idle" /\ driving'[o] = NoSaga /\ iteration'[o] = 0
          /\ claimed'[o] \subseteq Saga
      BY Zenon, <1>0, <1>2 DEF TypeOK
    <3> QED
      BY Zenon, <2>1, <3>1, PassIdle
  <2>2. CASE q # o
    <3>1. /\ phase'[q] = phase[q] /\ driving'[q] = driving[q] /\ claimed'[q] = claimed[q]
          /\ iteration'[q] = iteration[q] /\ progress'[q] = progress[q]
          /\ snap'[q] = snap[q]
      BY Zenon, <2>2, <1>0, <1>2 DEF TypeOK
    <3> QED
      BY Zenon, <3>1, <1>0, PassSame
  <2> QED
    BY Zenon, <2>1, <2>2
<1> QED
  BY Zenon, <1>3, <1>4, <1>6, <1>7 DEF IInv

\* Nothing happens.
LEMMA StutterInv == IInv /\ UNCHANGED vars => IInv'
<1> SUFFICES ASSUME IInv, UNCHANGED vars PROVE IInv'
  BY Zenon
<1>1. /\ UNCHANGED <<row, due, lockedBy, lapsed, claimed, driving, snap, phase>>
      /\ UNCHANGED <<iteration, progress, called, faults>>
  BY Zenon DEF vars
<1>2. TypeOK' /\ RowsGood' /\ CalledReached'
  BY Zenon, <1>1 DEF IInv, TypeOK, RowsGood, CalledReached
<1>3. SnapshotFresh' /\ HeldGood'
  BY Zenon, <1>1 DEF IInv, SnapshotFresh, HeldGood, Holds
<1>4. \A q \in Owner : PassGood(q)'
  BY Zenon, <1>1, PassSame DEF IInv
<1> QED
  BY Zenon, <1>2, <1>3, <1>4 DEF IInv

(* Every step of the engine preserves the invariant.                       *)
LEMMA NextInv == IInv /\ [Next]_vars => IInv'
<1> SUFFICES ASSUME IInv, [Next]_vars PROVE IInv'
  BY Zenon
<1>1. ASSUME NEW s \in Saga, start(s) PROVE IInv'
  BY Zenon, <1>1, StartInv
<1>2. ASSUME NEW s \in Saga, LeaseRunsOut(s) \/ LeaseRunsOutEarly(s) \/ FallDue(s) PROVE IInv'
  BY Zenon, <1>2, TimeInv
<1>3. ASSUME NEW o \in Owner, NEW s \in Saga, advance(o, s) PROVE IInv'
  BY Zenon, <1>3, TakeInv DEF advance
<1>4. ASSUME NEW o \in Owner, NEW s \in Saga, drive(o, s) PROVE IInv'
  BY Zenon, <1>4, DriveInv
<1>5. ASSUME NEW o \in Owner, NEW s \in Saga, abandon(o, s) PROVE IInv'
  BY Zenon, <1>5, AbandonInv
<1>6. ASSUME NEW o \in Owner, NEW s \in Saga, AbandonThrows(o, s) PROVE IInv'
  BY Zenon, <1>6, AbandonThrowsInv
<1>7. ASSUME NEW o \in Owner, NEW batch \in SUBSET Saga, runOnce(o, batch) PROVE IInv'
  BY Zenon, <1>7, TakeInv DEF runOnce
<1>8. ASSUME NEW o \in Owner, BeginCall(o) PROVE IInv'
  BY Zenon, <1>8, BeginCallInv
<1>9. ASSUME NEW o \in Owner, SkipPivot(o) PROVE IInv'
  BY Zenon, <1>9, SkipPivotInv
<1>10. ASSUME NEW o \in Owner, StepReturns(o) PROVE IInv'
  BY Zenon, <1>10, StepReturnsInv
<1>11. ASSUME NEW o \in Owner, save(o) PROVE IInv'
  BY Zenon, <1>11, SaveInv
<1>12. ASSUME NEW o \in Owner, LeaseLost(o) PROVE IInv'
  BY Zenon, <1>12, LeaseLostInv
<1>13. ASSUME NEW o \in Owner, SaveThrows(o) PROVE IInv'
  BY Zenon, <1>13, SaveThrowsInv
<1>14. ASSUME NEW o \in Owner, Crash(o) PROVE IInv'
  BY Zenon, <1>14, CrashInv
<1>15. CASE UNCHANGED vars
  BY Zenon, <1>15, StutterInv
<1> QED
  BY Zenon, <1>1, <1>2, <1>3, <1>4, <1>5, <1>6, <1>7, <1>8, <1>9, <1>10, <1>11, <1>12, <1>13, <1>14,
     <1>15 DEF Next


-----------------------------------------------------------------------------
(* The invariant holds of every behaviour of the engine.                   *)
THEOREM EngineInvariant == Spec => []IInv
BY InitInv, NextInv, PTL DEF Spec

(* Type correctness of the engine's state.                                 *)
THEOREM TypeCorrect == Spec => []TypeOK
<1>1. IInv => TypeOK
  BY Zenon DEF IInv
<1> QED
  BY <1>1, EngineInvariant, PTL

(* The fencing token works: while a row still names a pass, the record the *)
(* pass holds is the row (save's WHERE "lockedBy" = owner).                *)
THEOREM FencingWorks == Spec => []SnapshotFresh
<1>1. IInv => SnapshotFresh
  BY Zenon DEF IInv
<1> QED
  BY <1>1, EngineInvariant, PTL

\* A saga under way can be driven from its row alone.
LEMMA InvResumable == IInv => AlwaysResumable
<1> SUFFICES ASSUME IInv, NEW o \in Owner, phase[o] = "ready"
             PROVE  /\ assertResumable(Current(o)) /\ Current(o).status \in Active
                    /\ iteration[o] < maxIterations
  BY Zenon DEF AlwaysResumable
<1>1. TypeOK /\ HeldGood /\ PassGood(o)
  BY Zenon DEF IInv
<1>2. driving[o] \in Saga /\ iteration[o] + Measure(Current(o)) <= N + N + 1
  BY Zenon, <1>1 DEF PassGood
<1>3. Good(Current(o)) /\ Current(o).status \in Active
  BY Zenon, <1>1, <1>2 DEF HeldGood, Holds, Current
<1>4. assertResumable(Current(o)) /\ Current(o).cursor \in Step
  BY Zenon, <1>3, ActiveCursor
<1>5. N \in Nat /\ iteration[o] \in Nat
  BY Zenon, <1>1, DefinitionAssumption DEF TypeOK, defineSaga
<1>6. Measure(Current(o)) \in Int /\ Measure(Current(o)) >= 1
  BY <1>4, <1>5 DEF Measure, Step
<1>7. iteration[o] < N + N + 2
  BY <1>2, <1>5, <1>6
<1>8. 2 * N = N + N
  BY <1>5
<1>9. iteration[o] < maxIterations
  BY Zenon, <1>5, <1>7, <1>8 DEF maxIterations
<1> QED
  BY Zenon, <1>3, <1>4, <1>9

(* drive() never meets a SagaResumeError, a terminal record or its own     *)
(* iteration guard, in fresh and in stale passes.                          *)
THEOREM NeverUnresumable == Spec => []AlwaysResumable
BY InvResumable, EngineInvariant, PTL

(* The logs of a row, and what the log of a row walked back to the start holds. *)
LEMMA RecordLogs ==
    ASSUME NEW r \in Record
    PROVE  /\ r.done \in Seq(Step) /\ r.undone \in Seq(Step)
           /\ Len(r.done) \in Nat /\ Len(r.undone) \in Nat
           /\ DOMAIN r.undone = 1 .. Len(r.undone)
<1>1. r.done \in Seq(Step) /\ r.undone \in Seq(Step)
  BY Zenon DEF Record
<1>2. ASSUME NEW q \in Seq(Step) PROVE Len(q) \in Nat /\ DOMAIN q = 1 .. Len(q)
  OBVIOUS
<1> QED
  BY <1>1, <1>2, Zenon

\* A row walked back to the start has undone each step done, last first.
LEMMA WalkedBackAll ==
    ASSUME NEW r \in Record, Shape(r), r.status = "COMPENSATED"
    PROVE  /\ \A c \in Step : c <= Len(r.done) => c \in {r.undone[i] : i \in DOMAIN r.undone}
           /\ \A i, j \in DOMAIN r.undone : i < j => r.undone[i] > r.undone[j]
<1> DEFINE d == Len(r.done)
           u == Len(r.undone)
<1>1. d \in Nat /\ u \in Nat /\ DOMAIN r.undone = 1 .. u
  BY Zenon, RecordLogs
<1>2. /\ r.cursor = -1 /\ r.cursor = d - u
      /\ \A i \in 1 .. u : r.undone[i] = d - i + 1
  BY Zenon DEF Shape
<1>3. ASSUME NEW c \in Step, c <= d
      PROVE  c \in {r.undone[i] : i \in DOMAIN r.undone}
  <2> HIDE DEF d, u
  <2>1. c \in Nat
    BY DefinitionAssumption DEF Step, defineSaga
  <2>2. d - c + 1 \in 1 .. u /\ d - (d - c + 1) + 1 = c
    BY <1>1, <1>2, <1>3, <2>1
  <2> QED
    BY Zenon, <1>1, <1>2, <2>2
<1>4. ASSUME NEW i \in DOMAIN r.undone, NEW j \in DOMAIN r.undone, i < j
      PROVE  r.undone[i] > r.undone[j]
  <2> HIDE DEF d, u
  <2>1. i \in 1 .. u /\ j \in 1 .. u
    BY Zenon, <1>1
  <2>2. r.undone[i] = d - i + 1 /\ r.undone[j] = d - j + 1
    BY Zenon, <2>1, <1>2
  <2> QED
    BY <2>1, <2>2, <1>1, <1>4
<1> QED
  BY Zenon, <1>3, <1>4

\* The compensated have undone everything, in reverse.
LEMMA InvCompensation == IInv => CompensationComplete
<1> SUFFICES ASSUME IInv, NEW s \in Saga, row[s].status = "COMPENSATED"
             PROVE  /\ called[s] \subseteq {row[s].undone[i] : i \in DOMAIN row[s].undone}
                    /\ \A i, j \in DOMAIN row[s].undone :
                          i < j => row[s].undone[i] > row[s].undone[j]
  BY Zenon DEF CompensationComplete
<1>1. row[s] \in Record /\ Shape(row[s]) /\ CalledReached /\ TypeOK
  BY Zenon DEF IInv, RowsGood, Good
<1>2. called[s] \subseteq Step /\ \A c \in called[s] : c <= Len(row[s].done)
  BY Zenon, <1>1 DEF CalledReached, TypeOK
<1> QED
  BY <1>1, <1>2, WalkedBackAll, Zenon

(* COMPENSATED means every step execute() was ever called on was walked    *)
(* back, once each and last first.                                         *)
THEOREM CompensationSound == Spec => []CompensationComplete
BY InvCompensation, EngineInvariant, PTL

\* The completed have done everything, in order.
LEMMA InvCompletion == IInv => CompletionComplete
<1> SUFFICES ASSUME IInv, NEW s \in Saga, row[s].status = "COMPLETED"
             PROVE  row[s].done = [i \in 1 .. N |-> i - 1]
  BY Zenon DEF CompletionComplete
<1>1. row[s] \in Record /\ Shape(row[s])
  BY Zenon DEF IInv, RowsGood, Good
<1>2. row[s].done \in Seq(Step) /\ Len(row[s].done) \in Nat
  BY <1>1 DEF Record
<1>3. /\ row[s].cursor = N /\ Len(row[s].undone) = 0
      /\ row[s].cursor = Len(row[s].done) - Len(row[s].undone)
      /\ \A i \in 1 .. Len(row[s].done) : row[s].done[i] = i - 1
  BY Zenon, <1>1 DEF Shape
<1>4. Len(row[s].done) = N
  BY <1>2, <1>3
<1>5. row[s].done = [i \in 1 .. N |-> row[s].done[i]]
  BY <1>2, <1>4
<1> QED
  BY Zenon, <1>3, <1>4, <1>5

(* COMPLETED means every step's success was recorded, in order.            *)
THEOREM CompletionSound == Spec => []CompletionComplete
BY InvCompletion, EngineInvariant, PTL

\* Nothing is undone behind a pivot.
LEMMA InvPivot == IInv => PivotCommits
<1> SUFFICES ASSUME IInv, NEW s \in Saga, NEW i \in DOMAIN row[s].done,
                    Kind[row[s].done[i]] = "pivot"
             PROVE  /\ row[s].undone = << >>
                    /\ row[s].status \notin {"COMPENSATING", "COMPENSATED"}
  BY Zenon DEF PivotCommits
<1> DEFINE d == Len(row[s].done)
<1>1. row[s] \in Record /\ Shape(row[s])
  BY Zenon DEF IInv, RowsGood, Good
<1>2. /\ row[s].done \in Seq(Step) /\ d \in Nat /\ DOMAIN row[s].done = 1 .. d
      /\ row[s].undone \in Seq(Step) /\ Len(row[s].undone) \in Nat
  BY <1>1 DEF Record
<1>3. N \in Nat
  BY Zenon, DefinitionAssumption DEF defineSaga
<1>4. row[s].done[i] = i - 1 /\ i \in 1 .. d /\ d <= N
  BY Zenon, <1>1, <1>2 DEF Shape
<1>5. Kind[i - 1] = "pivot" /\ i - 1 \in Step /\ i - 1 < d
  BY <1>2, <1>3, <1>4 DEF Step
<1>6. ~(d < N /\ Kind[d] # "retriable")
  <2> SUFFICES ASSUME d < N, Kind[d] # "retriable" PROVE FALSE
    BY Zenon
  <2>1. d \in Step
    BY <1>2, <1>3 DEF Step
  <2>2. Kind[i - 1] = "compensatable"
    BY Zenon, <2>1, <1>5, CompensatableBefore
  <2> QED
    BY Zenon, <2>2, <1>5
<1>7. Len(row[s].undone) = 0
  BY <1>1, <1>2, <1>6 DEF Shape
<1>8. row[s].undone = << >>
  BY Zenon, <1>2, <1>7, NoElements
<1>9. row[s].status # "COMPENSATING"
  BY Zenon, <1>1, <1>6 DEF Shape
<1>10. row[s].status # "COMPENSATED"
  <2> SUFFICES ASSUME row[s].status = "COMPENSATED" PROVE FALSE
    BY Zenon
  <2>1. row[s].cursor = -1 /\ row[s].cursor = d - Len(row[s].undone)
    BY Zenon, <1>1 DEF Shape
  <2> QED
    BY <2>1, <1>2, <1>7
<1> QED
  BY Zenon, <1>8, <1>9, <1>10

(* Once the pivot's success is recorded nothing is ever walked back.       *)
THEOREM PivotSound == Spec => []PivotCommits
BY InvPivot, EngineInvariant, PTL

(* No step fails more often than the policy allows, in either direction.   *)
THEOREM AttemptsSound == Spec => []AttemptsBounded
<1>1. IInv => AttemptsBounded
  BY Zenon DEF IInv, RowsGood, Good, Counted, AttemptsBounded
<1> QED
  BY <1>1, EngineInvariant, PTL

-----------------------------------------------------------------------------
(* When every process has the definition, a step of the engine starts one  *)
(* instance, moves one active instance, or leaves every row alone.         *)
LEMMA RowStep ==
    ASSUME Unaware = {}, IInv, [Next]_vars
    PROVE  \/ row' = row
           \/ \E s \in Saga :
                 /\ \A t \in Saga : t # s => row'[t] = row[t]
                 /\ \/ row[s].status = Absent /\ row[s].cursor = 0 /\ row'[s] = NewRecord
                    \/ row[s].status \in Active /\ Moved(row[s], row'[s])
<1>1. ASSUME NEW s \in Saga, start(s)
      PROVE  /\ \A t \in Saga : t # s => row'[t] = row[t]
             /\ row[s].status = Absent /\ row[s].cursor = 0 /\ row'[s] = NewRecord
  <2>1. row \in [Saga -> Record] /\ row' = [row EXCEPT ![s] = NewRecord] /\ row[s].status = Absent
    BY Zenon, <1>1 DEF start, IInv, TypeOK
  <2>2. Good(row[s])
    BY Zenon DEF IInv, RowsGood
  <2>3. Len(row[s].done) = 0 /\ Len(row[s].undone) = 0
        /\ row[s].cursor = Len(row[s].done) - Len(row[s].undone)
    BY Zenon, <2>1, <2>2 DEF Good, Shape
  <2> QED
    BY <2>1, <2>3
<1>2. ASSUME NEW o \in Owner, phase[o] = "saving", StillOwns(o), Write(o, driving[o])
      PROVE  /\ driving[o] \in Saga
             /\ \A t \in Saga : t # driving[o] => row'[t] = row[t]
             /\ row[driving[o]].status \in Active
             /\ Moved(row[driving[o]], row'[driving[o]])
  <2>1. /\ driving[o] \in Saga
        /\ row[driving[o]] = Current(o) /\ Current(o).status \in Active
        /\ row' = [row EXCEPT ![driving[o]] = Apply(Current(o), progress[o])]
        /\ SaveSound(Current(o), progress[o])
    BY Zenon, <1>2, WriteSound
  <2>2. row \in [Saga -> Record]
    BY Zenon DEF IInv, TypeOK
  <2> QED
    BY Zenon, <2>1, <2>2 DEF SaveSound
<1>3. ASSUME NEW o \in Owner, save(o) \/ SaveThrows(o)
      PROVE  row' = row \/ (phase[o] = "saving" /\ StillOwns(o) /\ Write(o, driving[o]))
  BY Zenon, <1>3 DEF save, SaveThrows
<1>4. ASSUME NEW s \in Saga, LeaseRunsOut(s) \/ LeaseRunsOutEarly(s) \/ FallDue(s)
      PROVE  row' = row
  BY Zenon, <1>4 DEF LeaseRunsOut, LeaseRunsOutEarly, FallDue
<1>5. ASSUME NEW o \in Owner, NEW s \in Saga,
             advance(o, s) \/ drive(o, s) \/ abandon(o, s) \/ AbandonThrows(o, s)
      PROVE  row' = row
  BY Zenon, <1>5 DEF advance, Take, drive, abandon, AbandonThrows
<1>6. ASSUME NEW o \in Owner, NEW batch \in SUBSET Saga, runOnce(o, batch)
      PROVE  row' = row
  BY Zenon, <1>6 DEF runOnce, Take
<1>7. ASSUME NEW o \in Owner,
             BeginCall(o) \/ SkipPivot(o) \/ StepReturns(o) \/ LeaseLost(o) \/ Crash(o)
      PROVE  row' = row
  BY Zenon, <1>7 DEF BeginCall, SkipPivot, StepReturns, StepSucceeds, StepFails, CallReturns,
     LeaseLost, Crash
<1>8. CASE UNCHANGED vars
  BY Zenon, <1>8 DEF vars
<1>9. CASE \E s \in Saga : start(s)
  BY Zenon, <1>1, <1>9
<1>10. CASE \E o \in Owner : save(o) \/ SaveThrows(o)
  BY Zenon, <1>2, <1>3, <1>10
<1> QED
  BY Zenon, <1>4, <1>5, <1>6, <1>7, <1>8, <1>9, <1>10 DEF Next

(* With one definition deployed everywhere, a terminal row is never        *)
(* written again.                                                          *)
THEOREM TerminalSound ==
    ASSUME Unaware = {} PROVE Spec => TerminalIsFinal
<1>1. IInv /\ [Next]_vars =>
        [\A s \in Saga : row[s].status \in Terminal => row'[s] = row[s]]_vars
  <2> SUFFICES ASSUME IInv, [Next]_vars, NEW s \in Saga, row[s].status \in Terminal
               PROVE  row'[s] = row[s]
    BY Zenon
  <2>1. row[s].status \notin Active /\ row[s].status # Absent
    BY Zenon DEF Terminal, Active, Absent
  <2> QED
    BY Zenon, <2>1, RowStep
<1> QED
  BY <1>1, EngineInvariant, PTL DEF Spec, TerminalIsFinal

(* The engine implements SagaProtocol: whatever runners, leases, late      *)
(* saves and crashes are underneath, each instance is one sequential saga. *)
THEOREM EngineImplementsProtocol ==
    ASSUME Unaware = {} PROVE Spec => FollowsProtocol
<1>1. Init => Protocol!ProtocolInit
  BY DEF Init, Protocol!ProtocolInit, NoRecord, NewRecord, Absent
<1>2. IInv /\ [Next]_vars => [Protocol!ProtocolNext]_(Protocol!protocolVars)
  <2> SUFFICES ASSUME IInv, [Next]_vars
               PROVE  Protocol!ProtocolNext \/ UNCHANGED Protocol!protocolVars
    BY Zenon
  <2>1. CASE row' = row
    BY Zenon, <2>1 DEF Protocol!protocolVars
  <2>2. ASSUME NEW s \in Saga, \A t \in Saga : t # s => row'[t] = row[t]
        PROVE  /\ [t \in Saga |-> row'[t].status] =
                     [[t \in Saga |-> row[t].status] EXCEPT ![s] = row'[s].status]
               /\ [t \in Saga |-> row'[t].cursor] =
                     [[t \in Saga |-> row[t].cursor] EXCEPT ![s] = row'[s].cursor]
    BY Zenon, <2>2
  <2>3. ASSUME NEW s \in Saga, \A t \in Saga : t # s => row'[t] = row[t],
               row[s].status = Absent, row[s].cursor = 0, row'[s] = NewRecord
        PROVE  Protocol!ProtocolNext
    <3>1. row'[s].status = "RUNNING" /\ row'[s].cursor = 0
      BY <2>3 DEF NewRecord
    <3>2. Protocol!Started(s)
      BY Zenon, <3>1, <2>2, <2>3 DEF Protocol!Started, Protocol!Move, Absent
    <3> QED
      BY Zenon, <3>2 DEF Protocol!ProtocolNext
  <2>4. ASSUME NEW s \in Saga, \A t \in Saga : t # s => row'[t] = row[t],
               row[s].status \in Active, Moved(row[s], row'[s])
        PROVE  Protocol!ProtocolNext \/ UNCHANGED Protocol!protocolVars
    <3>2. CASE row'[s].status = row[s].status /\ row'[s].cursor = row[s].cursor
      BY Zenon, <3>2, <2>2, <2>4 DEF Protocol!protocolVars
    <3>3. CASE /\ row[s].status = "RUNNING" /\ row'[s].status = "RUNNING"
               /\ row'[s].cursor = row[s].cursor + 1 /\ row'[s].cursor < N
      <4>1. Protocol!Forward(s)
        BY Zenon, <3>3, <2>2, <2>4 DEF Protocol!Forward, Protocol!Move
      <4> QED
        BY Zenon, <4>1 DEF Protocol!ProtocolNext
    <3>4. CASE /\ row[s].status = "RUNNING" /\ row'[s].status = "COMPLETED"
               /\ row'[s].cursor = N /\ row[s].cursor + 1 = N
      <4>1. Protocol!Forward(s)
        BY Zenon, <3>4, <2>2, <2>4 DEF Protocol!Forward, Protocol!Move
      <4> QED
        BY Zenon, <4>1 DEF Protocol!ProtocolNext
    <3>5. CASE /\ row[s].status = "RUNNING" /\ row'[s].status = "COMPENSATING"
               /\ row'[s].cursor = row[s].cursor /\ Kind[row[s].cursor] # "retriable"
      <4>1. Protocol!TurnRound(s)
        BY Zenon, <3>5, <2>2, <2>4 DEF Protocol!TurnRound, Protocol!Move
      <4> QED
        BY Zenon, <4>1 DEF Protocol!ProtocolNext
    <3>6. CASE /\ row[s].status = "COMPENSATING" /\ row'[s].status = "COMPENSATING"
               /\ row[s].cursor > 0 /\ row'[s].cursor = row[s].cursor - 1
      <4>1. Protocol!Back(s)
        BY Zenon, <3>6, <2>2, <2>4 DEF Protocol!Back, Protocol!Move
      <4> QED
        BY Zenon, <4>1 DEF Protocol!ProtocolNext
    <3>7. CASE /\ row[s].status = "COMPENSATING" /\ row'[s].status = "COMPENSATED"
               /\ row[s].cursor = 0 /\ row'[s].cursor = -1
      <4>1. Protocol!Back(s)
        BY Zenon, <3>7, <2>2, <2>4 DEF Protocol!Back, Protocol!Move
      <4> QED
        BY Zenon, <4>1 DEF Protocol!ProtocolNext
    <3>8. CASE /\ row'[s].status = "STUCK" /\ row'[s].cursor = row[s].cursor
               /\ \/ row[s].status = "RUNNING" /\ Kind[row[s].cursor] = "retriable"
                  \/ row[s].status = "COMPENSATING" /\ Kind[row[s].cursor] = "compensatable"
      <4>1. Protocol!GetStuck(s)
        BY Zenon, <3>8, <2>2, <2>4 DEF Protocol!GetStuck, Protocol!Move
      <4> QED
        BY Zenon, <4>1 DEF Protocol!ProtocolNext
    <3> QED
      BY <3>2, <3>3, <3>4, <3>5, <3>6, <3>7, <3>8, <2>4, Zenon DEF Moved
  <2> QED
    BY Zenon, <2>1, <2>3, <2>4, RowStep
<1> QED
  BY <1>1, <1>2, EngineInvariant, PTL DEF Spec, FollowsProtocol, Protocol!ProtocolSpec
=============================================================================
