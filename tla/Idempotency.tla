----------------------------- MODULE Idempotency -----------------------------
(***************************************************************************)
(* Idempotency-Key (src/common/idempotency): requests that carry one key,  *)
(* the record the dedupe store keeps under it, and the interceptor that    *)
(* reserves, records, replays and releases.  A request's lease is its own  *)
(* identity; its fingerprint says which operation it is an attempt at.     *)
(* The store is Redis: SET NX, GET and the two scripts are atomic, what    *)
(* happens between them is not.                                            *)
(***************************************************************************)
EXTENDS Integers, FiniteSets

CONSTANTS
    Request,          \* the requests that carry the key
    Fingerprint,      \* Fingerprint[r]: what the request is an attempt at
    Circumstances,    \* what may go wrong, besides the faults
    ReserveAttempts,  \* RESERVE_ATTEMPTS
    MaxFaults         \* bound: store commands that fail, processes that die

VARIABLES
    may,      \* the trouble this behaviour may meet: a client may close its connection
              \* before the answer ("hangUps"), a handler outlive IDEMPOTENCY_TTL_SECONDS
              \* ("slowHandlers"), the key hold something not a record ("unreadable")
    entry,    \* what the store holds under the key
    pc,       \* pc[r]: where the request is
    tries,    \* tries[r]: rounds of reserve() begun
    open,     \* open[r]: the response has not been settled
    worked,   \* worked[r]: the handler's effect has happened
    answer,   \* answer[r]: what the client was given
    excuses,  \* history: effects whose response was not recorded
    faults

vars == <<may, entry, pc, tries, open, worked, answer, excuses, faults>>

Missing == [state |-> "missing"]
Garbage == [state |-> "garbage"]
InFlight(r) == [state |-> "in-flight", lease |-> r]
Completed(r) == [state |-> "completed", lease |-> r]
IsRecord(e) == e.state \in {"in-flight", "completed"}
Leased(r) == IsRecord(entry) /\ entry.lease = r

Init ==
    /\ may \in Circumstances
    /\ entry \in {Missing} \cup (IF "unreadable" \in may THEN {Garbage} ELSE {})
    /\ pc = [r \in Request |-> "new"]
    /\ tries = [r \in Request |-> 0]
    /\ open = [r \in Request |-> TRUE]
    /\ worked = [r \in Request |-> FALSE]
    /\ answer = [r \in Request |-> "none"]
    /\ excuses = 0
    /\ faults = 0

Fault == faults < MaxFaults /\ faults' = faults + 1

Goes(r, to) == pc' = [pc EXCEPT ![r] = to]

Answered(r, what) ==
    /\ Goes(r, "done")
    /\ answer' = [answer EXCEPT ![r] = what]

\* An effect that no record will vouch for.
Excuse(r) == excuses' = excuses + (IF worked[r] THEN 1 ELSE 0)

-----------------------------------------------------------------------------
(* reserve()                                                               *)

\* SET NX: the request owns the key, or has to read who does.
setNX(r) ==
    /\ pc[r] \in {"new", "retry"}
    /\ tries[r] < ReserveAttempts
    /\ tries' = [tries EXCEPT ![r] = @ + 1]
    /\ IF entry = Missing
       THEN entry' = InFlight(r) /\ Goes(r, "running")
       ELSE entry' = entry /\ Goes(r, "read")
    /\ UNCHANGED <<may, open, worked, answer, excuses, faults>>

\* Mutant: the fingerprints are not compared.
readAnyPrint(r) ==
    /\ pc[r] = "read"
    /\ \/ entry = Missing /\ Goes(r, "retry") /\ UNCHANGED answer
       \/ entry = Garbage /\ Goes(r, "claim") /\ UNCHANGED answer
       \/ /\ IsRecord(entry)
          /\ IF entry.state = "in-flight" THEN Answered(r, "409")
             ELSE Answered(r, entry.lease)
    /\ UNCHANGED <<may, entry, tries, open, worked, excuses, faults>>

\* GET, and what intercept() makes of the record.
readEntry(r) ==
    /\ pc[r] = "read"
    /\ \/ entry = Missing /\ Goes(r, "retry") /\ UNCHANGED answer
       \/ entry = Garbage /\ Goes(r, "claim") /\ UNCHANGED answer
       \/ /\ IsRecord(entry)
          /\ IF Fingerprint[entry.lease] # Fingerprint[r] THEN Answered(r, "422")
             ELSE IF entry.state = "in-flight" THEN Answered(r, "409")
             ELSE Answered(r, entry.lease)
    /\ UNCHANGED <<may, entry, tries, open, worked, excuses, faults>>

\* An entry that cannot be read is overwritten: SET without NX.
claimOutright(r) ==
    /\ pc[r] = "claim"
    /\ entry' = InFlight(r)
    /\ Goes(r, "running")
    /\ UNCHANGED <<may, tries, open, worked, answer, excuses, faults>>

\* The key expired in every round.
reserveGivesUp(r) ==
    /\ pc[r] = "retry"
    /\ tries[r] = ReserveAttempts
    /\ Answered(r, "503")
    /\ UNCHANGED <<may, entry, tries, open, worked, excuses, faults>>

\* The store fails, or its answer to a SET that ran is lost: fail closed.
storeUnavailable(r) ==
    /\ pc[r] \in {"new", "retry", "read", "claim"}
    /\ Fault
    /\ \/ entry' = entry
       \/ /\ pc[r] # "read"
          /\ pc[r] = "claim" \/ entry = Missing
          /\ entry' = InFlight(r)
    /\ Answered(r, "503")
    /\ UNCHANGED <<may, tries, open, worked, excuses>>

\* The script that resolves a reservation its caller still holds.
COMPLETE_IF_LEASED(r) == entry' = IF Leased(r) THEN Completed(r) ELSE entry

\* The script that drops a reservation its caller still holds.
RELEASE_IF_LEASED(r) == entry' = IF Leased(r) THEN Missing ELSE entry

-----------------------------------------------------------------------------
(* The handler, and recordOnce().                                          *)

\* The operation's effect, somewhere in the handler.
work(r) ==
    /\ pc[r] = "running"
    /\ ~worked[r]
    /\ worked' = [worked EXCEPT ![r] = TRUE]
    /\ excuses' = excuses + (IF open[r] THEN 0 ELSE 1)
    /\ UNCHANGED <<may, entry, pc, tries, open, answer, faults>>

\* Mutant: a recordable answer is released instead.
finishForgets(r) ==
    /\ pc[r] = "running"
    /\ open[r]
    /\ open' = [open EXCEPT ![r] = FALSE]
    /\ Goes(r, "releasing")
    /\ answer' = [answer EXCEPT ![r] = r]
    /\ UNCHANGED <<may, entry, tries, worked, excuses, faults>>

\* finish: an answer below 500 that went through res.send() is recorded, be it what
\* the handler did or a refusal, a pipe's among them, that left nothing done ...
finish(r) ==
    /\ pc[r] = "running"
    /\ open[r]
    /\ open' = [open EXCEPT ![r] = FALSE]
    /\ Goes(r, "completing")
    /\ answer' = [answer EXCEPT ![r] = r]
    /\ UNCHANGED <<may, entry, tries, worked, excuses, faults>>

\* ... a 5xx, or a streamed body, is not; the handler may have worked or not.
finishUnreplayable(r) ==
    /\ pc[r] = "running"
    /\ open[r]
    /\ open' = [open EXCEPT ![r] = FALSE]
    /\ Goes(r, "releasing")
    /\ answer' = [answer EXCEPT ![r] = "5xx"]
    /\ Excuse(r)
    /\ UNCHANGED <<may, entry, tries, worked, faults>>

\* close without finish: the client hung up.  The key is released at once;
\* nothing stops the handler.
close(r) ==
    /\ "hangUps" \in may
    /\ pc[r] = "running"
    /\ open[r]
    /\ open' = [open EXCEPT ![r] = FALSE]
    /\ \/ RELEASE_IF_LEASED(r) /\ faults' = faults
       \/ entry' = entry /\ Fault
    /\ answer' = [answer EXCEPT ![r] = "hungUp"]
    /\ Excuse(r)
    /\ UNCHANGED <<may, pc, tries, worked>>

\* The handler of a settled response ends; nobody records it.
EndsUnseen(r) ==
    /\ pc[r] = "running"
    /\ ~open[r]
    /\ Goes(r, "done")
    /\ UNCHANGED <<may, entry, tries, open, worked, answer, excuses, faults>>

\* persist(): the record is completed.  If the command fails, whether or not
\* it ran, the key is released.
persist(r) ==
    /\ pc[r] = "completing"
    /\ \/ /\ COMPLETE_IF_LEASED(r)
          /\ excuses' = excuses + (IF worked[r] /\ ~Leased(r) THEN 1 ELSE 0)
          /\ Goes(r, "done")
          /\ faults' = faults
       \/ /\ Fault
          /\ COMPLETE_IF_LEASED(r) \/ entry' = entry
          /\ Excuse(r)
          /\ Goes(r, "releasing")
    /\ UNCHANGED <<may, tries, open, worked, answer>>

\* release(): a failure is logged, and the reservation stays until it expires.
release(r) ==
    /\ pc[r] = "releasing"
    /\ \/ RELEASE_IF_LEASED(r) /\ faults' = faults
       \/ entry' = entry /\ Fault
    /\ Goes(r, "done")
    /\ UNCHANGED <<may, tries, open, worked, answer, excuses>>

\* The process dies with the request in it.
Crash(r) ==
    /\ pc[r] \in {"running", "completing", "releasing"}
    /\ Fault
    /\ Goes(r, "done")
    /\ excuses' = excuses + (IF worked[r] /\ (open[r] \/ pc[r] = "completing") THEN 1 ELSE 0)
    /\ UNCHANGED <<may, entry, tries, open, worked, answer>>

\* The TTL.  Unless handlers are slow, no request is outlived by its own.
Expire ==
    /\ IsRecord(entry)
    /\ "slowHandlers" \in may \/ pc[entry.lease] = "done"
    /\ entry' = Missing
    /\ excuses' = excuses + (IF entry.state = "completed" /\ worked[entry.lease] THEN 1 ELSE 0)
    /\ UNCHANGED <<may, pc, tries, open, worked, answer, faults>>

Next ==
    \/ Expire
    \/ \E r \in Request :
          \/ setNX(r) \/ readEntry(r) \/ claimOutright(r) \/ reserveGivesUp(r)
          \/ storeUnavailable(r) \/ work(r) \/ finish(r) \/ finishUnreplayable(r)
          \/ close(r) \/ EndsUnseen(r) \/ persist(r) \/ release(r) \/ Crash(r)

Spec == Init /\ [][Next]_vars

-----------------------------------------------------------------------------
\* A second request that arrives while the first is still running gets 409:
\* no two handlers run under one key at a time.
OneRunning == Cardinality({r \in Request : pc[r] = "running"}) <= 1

\* The operation is not done twice: every effect beyond the first follows
\* one whose response was not recorded, or whose record has expired, as long
\* as handlers finish within the TTL and the key holds a record.
OncePerRecord ==
    may \subseteq {"hangUps"} => Cardinality({r \in Request : worked[r]}) <= 1 + excuses

\* A replay is the answer an attempt at the same operation was given itself,
\* and a request that is answered from the record or refused by it (409, 422,
\* 503) has not run its handler: nothing is done and then denied.
ReplayIsOriginal ==
    \A r \in Request :
        /\ answer[r] \in Request =>
            /\ Fingerprint[answer[r]] = Fingerprint[r]
            /\ answer[answer[r]] = answer[r]
        /\ answer[r] \notin {"none", "5xx", "hungUp", r} => ~worked[r]

\* The lease is a fencing token: no request ever changes a record another
\* one has reserved, however late its own write arrives, unless both found
\* the key unreadable.
TouchesOwn ==
    \A r \in Request : "unreadable" \notin may /\ pc'[r] # pc[r]
                       /\ IsRecord(entry) /\ entry.lease # r
        => entry' = entry

-----------------------------------------------------------------------------
(* A small instance.                                                         *)

\* Every request is an attempt at the same operation, and clients may hang up.
SameFingerprint == [r \in Request |-> "same"]

HangUpsOnly == {{"hangUps"}}
=============================================================================
