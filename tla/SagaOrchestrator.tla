-------------------------- MODULE SagaOrchestrator --------------------------
(***************************************************************************)
(* The saga engine: instance rows, the leases runners take on them, and    *)
(* the loop that drives one claimed instance step by step                  *)
(* (src/saga/saga-orchestrator.service.ts, prisma-saga.store.ts,           *)
(* saga-recovery.service.ts, saga-definition.ts).                          *)
(*                                                                         *)
(* Time is abstracted.  `lockedUntil <= now` compares two hosts' wall      *)
(* clocks, so a lease may lapse at any moment (`lapsed`), and a scheduled  *)
(* retry may fall due at any moment (`due`).                               *)
(*                                                                         *)
(* The log column is kept by what the code and the properties read of it:  *)
(* the steps completed forward in order (`done`, the filter                *)
(* assertResumable takes), the steps walked back in order (`undone`), and  *)
(* how often each step failed in each direction (`failed`).                *)
(***************************************************************************)
EXTENDS Integers, Sequences, FiniteSets

CONSTANTS
    Saga,         \* saga instances (rows)
    Owner,        \* lease tokens: one per advance() or runOnce() in flight
    NoOwner,      \* lockedBy IS NULL
    NoSaga,       \* this pass is between two instances
    N,            \* definition.steps.length
    Kind,         \* Kind[i]: the kind of definition.steps[i]
    MaxAttempts,  \* SAGA_MAX_ATTEMPTS
    BatchSize,    \* SAGA_RECOVERY_BATCH_SIZE
    Unaware,      \* tokens of processes whose registry lacks the definition
    MaxFaults     \* bound: crashes, failed saves and stalls in one behaviour

Step == 0 .. N - 1
Direction == {"forward", "backward"}

(* defineSaga: compensatable steps, then at most one pivot, then retriable *)
(* ones; a definition with no pivot is compensatable throughout.           *)
defineSaga ==
    /\ N \in Nat \ {0}
    /\ Kind \in [Step -> {"compensatable", "pivot", "retriable"}]
    /\ \E boundary \in 0 .. N :
         /\ \A i \in Step : i < boundary => Kind[i] = "compensatable"
         /\ \A i \in Step : i = boundary => Kind[i] = "pivot"
         /\ \A i \in Step : i > boundary => Kind[i] = "retriable"

ASSUME DefinitionAssumption == defineSaga

ASSUME EngineAssumption ==
    /\ NoOwner \notin Owner
    /\ NoSaga \notin Saga
    /\ MaxAttempts \in Nat \ {0}
    /\ BatchSize \in Nat \ {0}
    /\ MaxFaults \in Nat
    /\ Unaware \subseteq Owner

-----------------------------------------------------------------------------
VARIABLES
    row,        \* the saga_instances rows
    due,        \* nextAttemptAt <= now
    lockedBy,   \* the lease's owner
    lapsed,     \* lockedUntil <= now
    claimed,    \* claimed[o]: instances this pass holds and has not driven yet
    snap,       \* snap[o][s]: the record this pass last read of s
    driving,    \* driving[o]: the instance drive() is working on
    phase,      \* where drive() is
    progress,   \* progress[o]: what step() returned, on its way to save()
    iteration,  \* iteration[o]: drive()'s loop counter
    called,     \* history: the steps whose execute() was ever called
    faults      \* history: faults so far

vars == <<row, due, lockedBy, lapsed, claimed, snap, driving, phase, progress,
          iteration, called, faults>>

Absent == "ABSENT"
Terminal == {"COMPLETED", "COMPENSATED", "STUCK"}
Active == {"RUNNING", "COMPENSATING"}
Status == Active \cup Terminal
Phase == {"idle", "ready", "calling", "saving"}

Record ==
    [status   : Status \cup {Absent},
     cursor   : -1 .. N,
     attempts : Nat,
     done     : Seq(Step),
     undone   : Seq(Step),
     failed   : [Direction -> [Step -> Nat]]]

Outcome == {"completed", "skipped", "failed"}
LogEntry == [step : Step, direction : Direction, outcome : Outcome]

Progress ==
    [status : Status, cursor : -1 .. N, attempts : Nat, nextAttemptAt : {"now", "later"},
     entry : LogEntry, lease : {"kept", "released"}]

NewRecord ==
    [status |-> "RUNNING",
     cursor |-> 0,
     attempts |-> 0,
     done     |-> << >>,
     undone   |-> << >>,
     failed   |-> [d \in Direction |-> [i \in Step |-> 0]]]

NoRecord == [NewRecord EXCEPT !.status = Absent]

entry(step, direction, outcome) ==
    [step |-> step, direction |-> direction, outcome |-> outcome]

NoProgress ==
    [status |-> "RUNNING", cursor |-> 0, attempts |-> 0, nextAttemptAt |-> "now",
     entry |-> entry(0, "forward", "completed"), lease |-> "kept"]

-----------------------------------------------------------------------------
(* What step() returns: one SagaProgress per way a step can go.            *)

(* retryAt is non-null: the error may be retried and attempts are left.    *)
retryAt(attempt, unretryable) == ~unretryable /\ attempt < MaxAttempts

ExecuteSucceeded(r) ==
    LET cursor == r.cursor + 1
        done   == cursor >= N
    IN  [status |-> IF done THEN "COMPLETED" ELSE "RUNNING",
         cursor |-> cursor,
         attempts |-> 0,
         nextAttemptAt |-> "now",
         entry |-> entry(r.cursor, "forward", "completed"),
         lease |-> IF done THEN "released" ELSE "kept"]

(* Mutant: a step past the pivot is compensated like any other.            *)
ExecuteFailedNoPivot(r, unretryable) ==
    LET retry == retryAt(r.attempts + 1, unretryable)
    IN  [status |-> IF retry THEN "RUNNING" ELSE "COMPENSATING",
         cursor |-> r.cursor,
         attempts |-> IF retry THEN r.attempts + 1 ELSE 0,
         nextAttemptAt |-> IF retry THEN "later" ELSE "now",
         entry |-> entry(r.cursor, "forward", "failed"),
         lease |-> IF retry THEN "released" ELSE "kept"]

ExecuteFailed(r, unretryable) ==
    LET attempt == r.attempts + 1
        retry   == retryAt(attempt, unretryable)
        stuck   == ~retry /\ Kind[r.cursor] = "retriable"
        turn    == ~retry /\ ~stuck
    IN  [status |-> IF retry THEN "RUNNING"
                      ELSE IF stuck THEN "STUCK" ELSE "COMPENSATING",
         cursor |-> r.cursor,
         attempts |-> IF turn THEN 0 ELSE attempt,
         nextAttemptAt |-> IF retry THEN "later" ELSE "now",
         entry |-> entry(r.cursor, "forward", "failed"),
         lease |-> IF turn THEN "kept" ELSE "released"]

(* Mutant: the last step to walk back is taken for the end of the walk.    *)
WalkedBackEarly(r, outcome) ==
    [status |-> IF r.cursor <= 1 THEN "COMPENSATED" ELSE "COMPENSATING",
     cursor |-> r.cursor - 1,
     attempts |-> 0,
     nextAttemptAt |-> "now",
     entry |-> entry(r.cursor, "backward", outcome),
     lease |-> IF r.cursor <= 1 THEN "released" ELSE "kept"]

WalkedBack(r, outcome) ==
    LET cursor == r.cursor - 1
        done   == cursor < 0
    IN  [status |-> IF done THEN "COMPENSATED" ELSE "COMPENSATING",
         cursor |-> cursor,
         attempts |-> 0,
         nextAttemptAt |-> "now",
         entry |-> entry(r.cursor, "backward", outcome),
         lease |-> IF done THEN "released" ELSE "kept"]

(* Mutant: a compensation to be retried is saved as a step to be retried.  *)
CompensateFailedForward(r, unretryable) ==
    LET attempt == r.attempts + 1
        retry   == retryAt(attempt, unretryable)
    IN  [status |-> IF retry THEN "RUNNING" ELSE "STUCK",
         cursor |-> r.cursor,
         attempts |-> attempt,
         nextAttemptAt |-> IF retry THEN "later" ELSE "now",
         entry |-> entry(r.cursor, "backward", "failed"),
         lease |-> "released"]

CompensateFailed(r, unretryable) ==
    LET attempt == r.attempts + 1
        retry   == retryAt(attempt, unretryable)
    IN  [status |-> IF retry THEN "COMPENSATING" ELSE "STUCK",
         cursor |-> r.cursor,
         attempts |-> attempt,
         nextAttemptAt |-> IF retry THEN "later" ELSE "now",
         entry |-> entry(r.cursor, "backward", "failed"),
         lease |-> "released"]

Backward(r) == r.status = "COMPENSATING"

CallSucceeded(r) ==
    IF Backward(r) THEN WalkedBack(r, "completed") ELSE ExecuteSucceeded(r)

CallFailed(r, unretryable) ==
    IF Backward(r) THEN CompensateFailed(r, unretryable)
    ELSE ExecuteFailed(r, unretryable)

(* assertResumable, and the cursor check of step().                        *)
assertResumable(r) ==
    /\ Len(r.done) <= N
    /\ \A i \in 1 .. Len(r.done) : r.done[i] = i - 1
    /\ r.cursor \in Step

(* save(): the entry is appended to the row's own log, in SQL.             *)
Apply(r, p) ==
    [status |-> p.status,
     cursor |-> p.cursor,
     attempts |-> p.attempts,
     done     |-> IF p.entry.direction = "forward" /\ p.entry.outcome = "completed"
                  THEN Append(r.done, p.entry.step) ELSE r.done,
     undone   |-> IF p.entry.direction = "backward" /\ p.entry.outcome # "failed"
                  THEN Append(r.undone, p.entry.step) ELSE r.undone,
     failed   |-> IF p.entry.outcome = "failed"
                  THEN [r.failed EXCEPT ![p.entry.direction][p.entry.step] = @ + 1]
                  ELSE r.failed]

-----------------------------------------------------------------------------
Init ==
    /\ row = [s \in Saga |-> NoRecord]
    /\ due = [s \in Saga |-> FALSE]
    /\ lockedBy = [s \in Saga |-> NoOwner]
    /\ lapsed = [s \in Saga |-> FALSE]
    /\ claimed = [o \in Owner |-> {}]
    /\ snap = [o \in Owner |-> [s \in Saga |-> NoRecord]]
    /\ driving = [o \in Owner |-> NoSaga]
    /\ phase = [o \in Owner |-> "idle"]
    /\ progress = [o \in Owner |-> NoProgress]
    /\ iteration = [o \in Owner |-> 0]
    /\ called = [s \in Saga |-> {}]
    /\ faults = 0

passVars == <<claimed, snap, driving, phase, progress, iteration>>
leaseVars == <<lockedBy, lapsed>>

(* start(): the row is created RUNNING, due now and unlocked.              *)
start(s) ==
    /\ row[s].status = Absent
    /\ row' = [row EXCEPT ![s] = NewRecord]
    /\ due' = [due EXCEPT ![s] = TRUE]
    /\ UNCHANGED <<leaseVars, passVars, called, faults>>

(* Mutant: only a row with no lease at all is claimed.                     *)
ClaimableUnlocked(s) ==
    /\ row[s].status \in Active
    /\ due[s]
    /\ lockedBy[s] = NoOwner

(* The WHERE clause of claim() and claimDue().                             *)
Claimable(s) ==
    /\ row[s].status \in Active
    /\ due[s]
    /\ lockedBy[s] = NoOwner \/ lapsed[s]

(* A lease token is a fresh UUID: no row names it and no pass is using it. *)
Fresh(o) ==
    /\ phase[o] = "idle"
    /\ claimed[o] = {}
    /\ \A s \in Saga : lockedBy[s] # o

Take(o, batch) ==
    /\ Fresh(o)
    /\ \A s \in batch : Claimable(s)
    /\ lockedBy' = [s \in Saga |-> IF s \in batch THEN o ELSE lockedBy[s]]
    /\ lapsed' = [s \in Saga |-> IF s \in batch THEN FALSE ELSE lapsed[s]]
    /\ claimed' = [claimed EXCEPT ![o] = batch]
    /\ snap' = [snap EXCEPT ![o] =
                   [s \in Saga |-> IF s \in batch THEN row[s] ELSE NoRecord]]
    /\ UNCHANGED <<row, due, driving, phase, progress, iteration, called, faults>>

(* advance(): claims one instance; a refused claim only reads the row.     *)
advance(o, s) == Take(o, {s})

(* runOnce(): one token for a batch of due instances.  SKIP LOCKED leaves  *)
(* out whichever rows another statement is updating, so any batch of       *)
(* claimable rows within the limit may be the one returned.                *)
runOnce(o, batch) ==
    /\ batch # {}
    /\ Cardinality(batch) <= BatchSize
    /\ Take(o, batch)

-----------------------------------------------------------------------------
(* drive() ends for this instance; the pass goes on to the next one.       *)
EndDrive(o) ==
    /\ driving' = [driving EXCEPT ![o] = NoSaga]
    /\ phase' = [phase EXCEPT ![o] = "idle"]
    /\ progress' = [progress EXCEPT ![o] = NoProgress]
    /\ iteration' = [iteration EXCEPT ![o] = 0]
    /\ UNCHANGED claimed

Forget(o, s) == snap' = [snap EXCEPT ![o][s] = NoRecord]

drive(o, s) ==
    /\ phase[o] = "idle"
    /\ s \in claimed[o]
    /\ o \notin Unaware
    /\ claimed' = [claimed EXCEPT ![o] = @ \ {s}]
    /\ driving' = [driving EXCEPT ![o] = s]
    /\ phase' = [phase EXCEPT ![o] = "ready"]
    /\ UNCHANGED <<row, due, leaseVars, snap, progress, iteration, called, faults>>

(* abandon(): no definition under this name in this process.  Whatever the *)
(* row is by now, and whoever holds it, it is STUCK.  The other caller of  *)
(* abandon, a SagaResumeError, is unreachable: see AlwaysResumable.        *)
abandon(o, s) ==
    /\ phase[o] = "idle"
    /\ s \in claimed[o]
    /\ o \in Unaware
    /\ claimed' = [claimed EXCEPT ![o] = @ \ {s}]
    /\ row' = [row EXCEPT ![s].status = "STUCK"]
    /\ lockedBy' = [lockedBy EXCEPT ![s] = NoOwner]
    /\ lapsed' = [lapsed EXCEPT ![s] = FALSE]
    /\ Forget(o, s)
    /\ UNCHANGED <<due, driving, phase, progress, iteration, called, faults>>

maxIterations == 2 * N + 2

Current(o) == snap[o][driving[o]]

(* step() calls into the step: execute() going forward, compensate() going *)
(* back.  The lease is not read again first.                               *)
BeginCall(o) ==
    /\ phase[o] = "ready"
    /\ iteration[o] < maxIterations
    /\ assertResumable(Current(o))
    /\ Backward(Current(o)) => Kind[Current(o).cursor] = "compensatable"
    /\ phase' = [phase EXCEPT ![o] = "calling"]
    /\ called' = IF Backward(Current(o)) THEN called
                 ELSE [called EXCEPT ![driving[o]] = @ \cup {Current(o).cursor}]
    /\ UNCHANGED <<row, due, leaseVars, claimed, snap, driving, progress,
                   iteration, faults>>

(* compensateStep() at the pivot: nothing to call, a recorded skip.        *)
SkipPivot(o) ==
    /\ phase[o] = "ready"
    /\ iteration[o] < maxIterations
    /\ assertResumable(Current(o))
    /\ Backward(Current(o))
    /\ Kind[Current(o).cursor] # "compensatable"
    /\ phase' = [phase EXCEPT ![o] = "saving"]
    /\ progress' = [progress EXCEPT ![o] = WalkedBack(Current(o), "skipped")]
    /\ UNCHANGED <<row, due, leaseVars, claimed, snap, driving, iteration,
                   called, faults>>

(* call() settles: with the step's value, with its error, or with the      *)
(* timeout, which is a retryable error.                                    *)
CallReturns(o, p) ==
    /\ phase[o] = "calling"
    /\ phase' = [phase EXCEPT ![o] = "saving"]
    /\ progress' = [progress EXCEPT ![o] = p]
    /\ UNCHANGED <<row, due, leaseVars, claimed, snap, driving, iteration,
                   called, faults>>

StepSucceeds(o) == CallReturns(o, CallSucceeded(Current(o)))
StepFails(o, unretryable) == CallReturns(o, CallFailed(Current(o), unretryable))

(* Mutant: save() trusts the lease it took earlier.                        *)
StillOwnsAssumed(o) == TRUE

(* save()'s WHERE clause: the row still names this owner.  The lease's     *)
(* deadline is not looked at.                                              *)
StillOwns(o) == lockedBy[driving[o]] = o

(* Mutant: drive() goes on with the record it had.                         *)
RereadStale(o, s) == UNCHANGED snap

(* current = saved: the row as the UPDATE returned it.                     *)
Reread(o, s) == snap' = [snap EXCEPT ![o][s] = row'[s]]

(* The UPDATE of save().                                                   *)
Write(o, s) ==
    LET p == progress[o]
    IN  /\ row' = [row EXCEPT ![s] = Apply(row[s], p)]
        /\ due' = [due EXCEPT ![s] = p.nextAttemptAt = "now"]
        /\ lockedBy' = [lockedBy EXCEPT ![s] = IF p.lease = "released" THEN NoOwner ELSE o]
        /\ lapsed' = [lapsed EXCEPT ![s] = FALSE]

save(o) ==
    LET s == driving[o]
        p == progress[o]
    IN  /\ phase[o] = "saving"
        /\ StillOwns(o)
        /\ Write(o, s)
        /\ IF p.lease = "released"
           THEN EndDrive(o) /\ Forget(o, s)
           ELSE /\ Reread(o, s)
                /\ phase' = [phase EXCEPT ![o] = "ready"]
                /\ progress' = [progress EXCEPT ![o] = NoProgress]
                /\ iteration' = [iteration EXCEPT ![o] = @ + 1]
                /\ UNCHANGED <<claimed, driving>>
        /\ UNCHANGED <<called, faults>>

(* save() resolved null: the lease moved on, and this runner stops.        *)
LeaseLost(o) ==
    /\ phase[o] = "saving"
    /\ ~StillOwns(o)
    /\ EndDrive(o)
    /\ Forget(o, driving[o])
    /\ UNCHANGED <<row, due, leaseVars, called, faults>>

-----------------------------------------------------------------------------
Fault == faults < MaxFaults /\ faults' = faults + 1

(* save() threw: the statement failed, or committed and its answer was     *)
(* lost.  advanceOne() swallows the error; the lease is left to lapse.     *)
SaveThrows(o) ==
    LET s == driving[o]
    IN  /\ phase[o] = "saving"
        /\ Fault
        /\ \/ UNCHANGED <<row, due, leaseVars>>
           \/ StillOwns(o) /\ Write(o, s)
        /\ EndDrive(o)
        /\ Forget(o, s)
        /\ UNCHANGED called

(* abandon() threw: nothing was written, and the lease is left to lapse.   *)
AbandonThrows(o, s) ==
    /\ phase[o] = "idle"
    /\ s \in claimed[o]
    /\ o \in Unaware
    /\ Fault
    /\ claimed' = [claimed EXCEPT ![o] = @ \ {s}]
    /\ Forget(o, s)
    /\ UNCHANGED <<row, due, leaseVars, driving, phase, progress, iteration, called>>

(* The process dies: the pass is gone, its leases are still on the rows.   *)
Crash(o) ==
    /\ phase[o] # "idle" \/ claimed[o] # {}
    /\ Fault
    /\ claimed' = [claimed EXCEPT ![o] = {}]
    /\ snap' = [snap EXCEPT ![o] = [s \in Saga |-> NoRecord]]
    /\ driving' = [driving EXCEPT ![o] = NoSaga]
    /\ phase' = [phase EXCEPT ![o] = "idle"]
    /\ progress' = [progress EXCEPT ![o] = NoProgress]
    /\ iteration' = [iteration EXCEPT ![o] = 0]
    /\ UNCHANGED <<row, due, leaseVars, called>>

Holds(o, s) == s \in claimed[o] \/ driving[o] = s

(* A lease nobody is working under any more runs out.                      *)
LeaseRunsOut(s) ==
    /\ lockedBy[s] # NoOwner
    /\ ~lapsed[s]
    /\ ~Holds(lockedBy[s], s)
    /\ lapsed' = [lapsed EXCEPT ![s] = TRUE]
    /\ UNCHANGED <<row, due, lockedBy, passVars, called, faults>>

(* A lease runs out under a live pass: a stall, a skewed clock, or the     *)
(* instances ahead of this one in the batch taking too long.               *)
LeaseRunsOutEarly(s) ==
    /\ lockedBy[s] # NoOwner
    /\ ~lapsed[s]
    /\ Holds(lockedBy[s], s)
    /\ Fault
    /\ lapsed' = [lapsed EXCEPT ![s] = TRUE]
    /\ UNCHANGED <<row, due, lockedBy, passVars, called>>

(* nextAttemptAt passes.                                                   *)
FallDue(s) ==
    /\ row[s].status \in Active
    /\ ~due[s]
    /\ due' = [due EXCEPT ![s] = TRUE]
    /\ UNCHANGED <<row, leaseVars, passVars, called, faults>>

StepReturns(o) == StepSucceeds(o) \/ \E u \in BOOLEAN : StepFails(o, u)

Next ==
    \/ \E s \in Saga : start(s) \/ LeaseRunsOut(s) \/ LeaseRunsOutEarly(s) \/ FallDue(s)
    \/ \E o \in Owner, s \in Saga : advance(o, s) \/ drive(o, s) \/ abandon(o, s)
                                \/ AbandonThrows(o, s)
    \/ \E o \in Owner, batch \in SUBSET Saga : runOnce(o, batch)
    \/ \E o \in Owner :
         \/ BeginCall(o) \/ SkipPivot(o) \/ StepReturns(o)
         \/ save(o) \/ LeaseLost(o) \/ SaveThrows(o) \/ Crash(o)

Spec == Init /\ [][Next]_vars

(* The poller's timer re-arms after every pass, an awaited call settles    *)
(* within the step timeout, and time passes.                               *)
Fairness ==
    /\ WF_vars(\E o \in Owner, batch \in SUBSET Saga : runOnce(o, batch))
    /\ \A o \in Owner :
         /\ WF_vars(\E s \in Saga : drive(o, s) \/ abandon(o, s))
         /\ WF_vars(BeginCall(o))
         /\ WF_vars(SkipPivot(o))
         /\ WF_vars(StepReturns(o))
         /\ WF_vars(save(o))
         /\ WF_vars(LeaseLost(o))
    /\ \A s \in Saga : WF_vars(LeaseRunsOut(s)) /\ WF_vars(FallDue(s))

FairSpec == Spec /\ Fairness

-----------------------------------------------------------------------------
TypeOK ==
    /\ row \in [Saga -> Record]
    /\ due \in [Saga -> BOOLEAN]
    /\ lockedBy \in [Saga -> Owner \cup {NoOwner}]
    /\ lapsed \in [Saga -> BOOLEAN]
    /\ claimed \in [Owner -> SUBSET Saga]
    /\ snap \in [Owner -> [Saga -> Record]]
    /\ driving \in [Owner -> Saga \cup {NoSaga}]
    /\ phase \in [Owner -> Phase]
    /\ progress \in [Owner -> Progress]
    /\ iteration \in [Owner -> Nat]
    /\ called \in [Saga -> SUBSET Step]
    /\ faults \in 0 .. MaxFaults

(* The fencing token works: while a row still names this pass as its owner *)
(* the record the pass holds is the row, so what save() writes follows     *)
(* from what is there, however many passes were claimed, stalled or        *)
(* crashed in between (prisma-saga.store.ts save, drive's `current`).      *)
SnapshotFresh ==
    \A o \in Owner, s \in Saga :
        Holds(o, s) /\ lockedBy[s] = o => snap[o][s] = row[s]

(* With one definition, drive() never meets a SagaResumeError, never finds *)
(* a terminal record in its loop and never reaches its iteration guard:    *)
(* "a guard rather than a limit anything reaches".  It holds of stale      *)
(* passes too, which drive a record the row has left behind.               *)
AlwaysResumable ==
    \A o \in Owner :
        phase[o] = "ready" =>
            /\ assertResumable(Current(o))
            /\ Current(o).status \in Active
            /\ iteration[o] < maxIterations

(* A saga is COMPENSATED only once every step any runner ever called       *)
(* execute() on was walked back, the step that failed included, and each   *)
(* exactly once, last first (compensateStep's cursor - 1).                 *)
CompensationComplete ==
    \A s \in Saga :
        row[s].status = "COMPENSATED" =>
            /\ called[s] \subseteq {row[s].undone[i] : i \in DOMAIN row[s].undone}
            /\ \A i, j \in DOMAIN row[s].undone :
                  i < j => row[s].undone[i] > row[s].undone[j]

(* COMPLETED means every step's success was recorded, in definition order. *)
CompletionComplete ==
    \A s \in Saga :
        row[s].status = "COMPLETED" => row[s].done = [i \in 1 .. N |-> i - 1]

(* Once the pivot's success is recorded nothing is ever walked back: the   *)
(* saga only goes forward, finishes, or gets STUCK.                        *)
PivotCommits ==
    \A s \in Saga :
        (\E i \in DOMAIN row[s].done : Kind[row[s].done[i]] = "pivot") =>
            row[s].undone = << >> /\ row[s].status \notin {"COMPENSATING", "COMPENSATED"}

(* No step is recorded as failed more than SAGA_MAX_ATTEMPTS times in      *)
(* either direction, whichever runners tried it (nextAttemptAt's ladder).  *)
AttemptsBounded ==
    \A s \in Saga, d \in Direction, i \in Step :
        row[s].failed[d][i] <= MaxAttempts

(* "The statuses nothing will move on its own": a terminal row is never    *)
(* written again, late saves and stale passes included.                    *)
TerminalIsFinal ==
    [][\A s \in Saga : row[s].status \in Terminal => row'[s] = row[s]]_vars

(* Seen from outside, each instance behaves as one sequential saga: the    *)
(* rows step as SagaProtocol steps, whatever runners, lapsed leases, late  *)
(* saves and crashes there are underneath.                                 *)
Protocol == INSTANCE SagaProtocol WITH
    status <- [s \in Saga |-> row[s].status],
    cursor <- [s \in Saga |-> row[s].cursor]

FollowsProtocol == Protocol!ProtocolSpec

(* A started saga ends, whatever crashes, failed saves and stalls happened *)
(* on the way (SagaRecoveryService's reason to exist).                     *)
Settles ==
    \A s \in Saga : row[s].status # Absent ~> row[s].status \in Terminal

-----------------------------------------------------------------------------
(* A small instance.                                                         *)

\* One step of each kind.
Kind3 == <<"compensatable", "pivot", "retriable">>
EachKind == [i \in 0 .. 2 |-> Kind3[i + 1]]
=============================================================================
