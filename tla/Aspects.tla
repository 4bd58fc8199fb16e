------------------------------- MODULE Aspects -------------------------------
(***************************************************************************)
(* One decorated method in every process that runs it (src/common/aspects). *)
(* Whatever the order of its decorators, AspectWeaver wraps @Timed around   *)
(* @Cacheable around @Lock around @Retry around the method; the cache and   *)
(* the lock are shared by the processes, the map of calls in flight is not. *)
(* All calls have one key.  Leases are renewed and do not lapse here: what  *)
(* happens when they do is in LockSession.                                  *)
(***************************************************************************)
EXTENDS Integers, FiniteSets

CONSTANTS
    Process,
    Caller,         \* the calls of the method
    At,             \* At[c]: the process that makes the call
    Decorations,    \* the sets of decorators considered
    MaxAttempts,    \* @Retry({attempts})
    MaxFaults       \* bound: store commands that fail

Nobody == "nobody"

VARIABLES
    decorators,     \* what the method carries
    owner,          \* what it is a method of
    sync,           \* it does not return a promise
    phase,          \* phase[p]: whether weave() has run
    cached,         \* the store has an entry
    holder,         \* the call that holds the lock
    inFlight,       \* inFlight[p]: the call whose promise the map has
    call,           \* call[c]: where it stands, attempts begun
    timings,        \* timings[c]: samples given to the recorder
    faults

vars == <<decorators, owner, sync, phase, cached, holder, inFlight, call, timings, faults>>
setup == <<decorators, owner, sync, phase>>

Init ==
    /\ decorators \in Decorations
    /\ owner \in {"provider", "scoped", "controller"}
    /\ sync \in BOOLEAN
    /\ phase = [p \in Process |-> "init"]
    /\ cached = FALSE /\ holder = Nobody
    /\ inFlight = [p \in Process |-> Nobody]
    /\ call = [c \in Caller |-> [at |-> "idle", tries |-> 0]]
    /\ timings = [c \in Caller |-> 0]
    /\ faults = 0

-----------------------------------------------------------------------------
\* Mutant: a decorator that cannot be installed is only warned about.
weaveWarns(p) ==
    /\ phase[p] = "init"
    /\ phase' = [phase EXCEPT ![p] = IF owner = "provider" THEN "woven" ELSE "plain"]
    /\ UNCHANGED <<decorators, owner, sync, cached, holder, inFlight, call, timings, faults>>

\* The router has a controller's handlers already, and a scoped provider's
\* instances come later: nothing is installed on either, and a skipped @Lock
\* refuses the boot.
weave(p) ==
    /\ phase[p] = "init"
    /\ phase' = [phase EXCEPT ![p] = IF owner = "provider" THEN "woven"
                                     ELSE IF "lock" \in decorators THEN "refused" ELSE "plain"]
    /\ UNCHANGED <<decorators, owner, sync, cached, holder, inFlight, call, timings, faults>>

Has(c, aspect) == phase[At[c]] = "woven" /\ aspect \in decorators

Moves(c, at) == call' = [call EXCEPT ![c].at = at]
Peers(c) == {d \in Caller : At[d] = At[c]}
Joined(c) == {d \in Peers(c) : call[d].at = "joined"}

\* @Timed records one sample, whatever becomes of the recorder.
record(ended) ==
    timings' = [c \in Caller |-> timings[c] + (IF c \in ended /\ Has(c, "timed") THEN 1 ELSE 0)]

Ends(ended, how) ==
    /\ call' = [c \in Caller |-> IF c \in ended THEN [call[c] EXCEPT !.at = how] ELSE call[c]]
    /\ record(ended)

\* What the method's own invocation goes through first, inside the cache.
Inner(c) == IF Has(c, "lock") THEN "locking" ELSE "attempt"

begin(c) ==
    /\ call[c].at = "idle" /\ phase[At[c]] \in {"woven", "plain"}
    /\ Moves(c, IF Has(c, "cacheable") THEN "lookup" ELSE Inner(c))
    /\ UNCHANGED <<setup, cached, holder, inFlight, timings, faults>>

-----------------------------------------------------------------------------
(* @Cacheable.                                                              *)

\* Mutant: whether somebody is on the way is not asked again after the lookup.
MissesAlone(c) ==
    /\ Moves(c, Inner(c))
    /\ inFlight' = [inFlight EXCEPT ![At[c]] = c]

Misses(c) ==
    IF inFlight[At[c]] # Nobody
    THEN Moves(c, "joined") /\ inFlight' = inFlight
    ELSE Moves(c, Inner(c)) /\ inFlight' = [inFlight EXCEPT ![At[c]] = c]

\* load(): the answer of the store comes first, the map of promises after it.
load(c) ==
    /\ call[c].at = "lookup"
    /\ \/ /\ cached
          /\ Ends({c}, "returned")
          /\ UNCHANGED <<inFlight, faults>>
       \/ /\ ~cached /\ Misses(c)
          /\ UNCHANGED <<timings, faults>>
       \/ /\ cached /\ faults < MaxFaults     \* a store that fails is a miss
          /\ faults' = faults + 1
          /\ Misses(c)
          /\ UNCHANGED timings
    /\ UNCHANGED <<setup, cached, holder>>

\* The leader's promise settles, for itself and for those who joined it.
Settles(c, how) ==
    IF inFlight[At[c]] = c
    THEN Ends({c} \cup Joined(c), how) /\ inFlight' = [inFlight EXCEPT ![At[c]] = Nobody]
    ELSE Ends({c}, how) /\ inFlight' = inFlight

writeBack(c) ==
    /\ call[c].at = "storing"
    /\ \/ cached' = TRUE /\ faults' = faults
       \/ cached' = cached /\ faults < MaxFaults /\ faults' = faults + 1
    /\ Settles(c, "returned")
    /\ UNCHANGED <<setup, holder>>

expire ==
    /\ cached /\ cached' = FALSE
    /\ UNCHANGED <<setup, holder, inFlight, call, timings, faults>>

-----------------------------------------------------------------------------
(* @Lock, @Retry and the method.                                            *)

Released(c) == IF holder = c THEN Nobody ELSE holder

acquire(c) ==
    /\ call[c].at = "locking"
    /\ \/ holder = Nobody /\ holder' = c /\ Moves(c, "attempt") /\ UNCHANGED <<timings, inFlight>>
       \/ holder # Nobody /\ holder' = holder /\ Settles(c, "threw")   \* waitMs is over
    /\ UNCHANGED <<setup, cached, faults>>

attempt(c) ==
    /\ call[c].at = "attempt"
    /\ call' = [call EXCEPT ![c] = [at |-> "running", tries |-> @.tries + 1]]
    /\ UNCHANGED <<setup, cached, holder, inFlight, timings, faults>>

\* An asynchronous method, and any other whose value nobody needs to await.
Awaited(c) == \E a \in {"cacheable", "lock", "retry"} : Has(c, a)

succeeds(c) ==
    /\ call[c].at = "running" /\ (sync => ~Awaited(c))
    /\ holder' = Released(c)
    /\ IF Has(c, "cacheable") THEN Moves(c, "storing") /\ UNCHANGED <<timings, inFlight>>
                              ELSE Settles(c, "returned")
    /\ UNCHANGED <<setup, cached, faults>>

\* retryIf: transient, and the last attempt is not made yet.
Retries(c, transient) == Has(c, "retry") /\ transient /\ call[c].tries < MaxAttempts

\* Mutant: the ladder is outside the lock.
failsUnlocked(c) ==
    /\ call[c].at = "running"
    /\ holder' = Released(c)
    /\ \E transient \in BOOLEAN :
          IF Retries(c, transient)
          THEN Moves(c, "asleep") /\ UNCHANGED <<timings, inFlight>>
          ELSE Settles(c, "threw")
    /\ UNCHANGED <<setup, cached, faults>>

\* With @Retry inside, the lock is kept over the sleep.
fails(c) ==
    /\ call[c].at = "running"
    /\ \E transient \in IF sync /\ Awaited(c) THEN {FALSE} ELSE BOOLEAN :   \* AspectUsageError
          IF Retries(c, transient)
          THEN Moves(c, "asleep") /\ UNCHANGED <<holder, timings, inFlight>>
          ELSE holder' = Released(c) /\ Settles(c, "threw")
    /\ UNCHANGED <<setup, cached, faults>>

wakes(c) ==
    /\ call[c].at = "asleep"
    /\ Moves(c, "attempt")
    /\ UNCHANGED <<setup, cached, holder, inFlight, timings, faults>>

Next ==
    \/ expire
    \/ \E p \in Process : weave(p)
    \/ \E c \in Caller : \/ begin(c) \/ load(c) \/ writeBack(c) \/ acquire(c)
                         \/ attempt(c) \/ succeeds(c) \/ fails(c) \/ wakes(c)

Spec == Init /\ [][Next]_vars

-----------------------------------------------------------------------------
Working(c) == call[c].at \in {"attempt", "running", "asleep"}

\* A method that carries @Lock is in the middle of one call at a time in the
\* whole deployment, its retries and the sleeps between them included, and a
\* process that could not install it does not serve (buildChain, weave).
LockCoversLadder ==
    "lock" \in decorators => Cardinality({c \in Caller : Working(c)}) <= 1

\* A process has one call per key on its way behind @Cacheable, whatever the
\* lookups before it took, and nobody waits for a promise that is gone (load).
SingleFlight ==
    \A p \in Process : phase[p] = "woven" /\ "cacheable" \in decorators =>
        LET ours == {c \in Caller : At[c] = p} IN
        /\ Cardinality({c \in ours : Working(c) \/ call[c].at \in {"locking", "storing"}}) <= 1
        /\ (\E c \in ours : call[c].at = "joined") => inFlight[p] # Nobody
=============================================================================
