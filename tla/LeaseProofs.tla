---------------------------- MODULE LeaseProofs -----------------------------
(***************************************************************************)
(* For every number of callers, requests and clock readings: what leases on*)
(* a shared store guarantee.  A session of withLock that returns a value   *)
(* was never overlapped, and holds no longer than its maximum; a handler   *)
(* runs once for each record of its idempotency key.                       *)
(*                                                                         *)
(* Both specifications are instances with state of their own.  The lemmas  *)
(* say what a step does to an inductive invariant; ServiceProofs makes     *)
(* theorems of them.                                                       *)
(***************************************************************************)
EXTENDS Integers, FiniteSets, TLAPS

CONSTANTS Caller, Nobody, Backends, TTL, Drift, Interval, Renewing, MaxHold, MaxNow,
          Keyed, Fingerprint, Circumstances, ReserveAttempts, MaxFaults

VARIABLES backend, now, holder, until, place, renewal, startedAt, wakeAt, callStart, prolonged,
          expiry, flag, result, outcome, overlapped,
          may, entry, pc, tries, open, worked, answer, excuses, faults

Locks == INSTANCE LockSession WITH pc <- place, live <- flag
Dedupe == INSTANCE Idempotency WITH Request <- Keyed

\* What is taken from the theory of finite sets and of the naturals.
SetFacts ==
    /\ IsFiniteSet({}) /\ Cardinality({}) = 0
    /\ \A S, T : IsFiniteSet(T) /\ S \subseteq T =>
           /\ IsFiniteSet(S) /\ Cardinality(S) \in Nat /\ Cardinality(T) \in Nat
           /\ Cardinality(S) <= Cardinality(T)
    /\ \A S, x : IsFiniteSet(S) =>
           /\ IsFiniteSet(S \cup {x})
           /\ Cardinality(S \cup {x}) \in {Cardinality(S), Cardinality(S) + 1}

-----------------------------------------------------------------------------
(* Lock sessions.  The time a handle reports is covered by the key's own   *)
(* TTL on the store, or has run out: so whoever takes the key from another *)
(* caller finds that caller's handle over.                                 *)

SessionAssumption ==
    /\ Nobody \notin Caller
    /\ TTL \in Nat /\ Drift \in Nat /\ Interval \in Nat /\ MaxHold \in Nat /\ MaxNow \in Nat

SessionType ==
    /\ now \in Int /\ until \in Int /\ until <= now + TTL
    /\ startedAt \in [Caller -> Int] /\ callStart \in [Caller -> Int] /\ expiry \in [Caller -> Int]
    /\ DOMAIN place = Caller /\ DOMAIN renewal = Caller /\ DOMAIN outcome = Caller
    /\ DOMAIN prolonged = Caller /\ DOMAIN result = Caller
    /\ overlapped \in [Caller -> BOOLEAN]

\* What c's handle reports is covered by the stored key or over.
Covered(c) ==
    /\ place[c] \in {"running", "stopping", "stopped"} /\ renewal[c] # "refused" =>
          (holder = c /\ expiry[c] <= until - Locks!Allowance) \/ expiry[c] <= now
    /\ renewal[c] = "extending" /\ prolonged[c] =>
          (holder = c /\ until = callStart[c] + TTL) \/ now >= callStart[c] + TTL
    /\ renewal[c] = "extending" => backend = "redlock" /\ place[c] \in {"running", "stopping"}

\* A caller that another one overlapped has lost its handle for good.
Overtaken(c) ==
    /\ overlapped[c] => holder # c /\ (renewal[c] = "refused" \/ expiry[c] <= now)
    /\ place[c] = "acquiring" => ~overlapped[c]
    /\ outcome[c] = "value" => place[c] = "done" /\ ~overlapped[c]
    /\ place[c] \in {"stopping", "stopped", "released"} => result[c] \in {"returned", "threw"}

Within(c) == holder = c => until <= startedAt[c] + MaxHold + TTL

SessionInv ==
    SessionType /\ \A c \in Caller : Covered(c) /\ Overtaken(c) /\ Within(c)

\* The invariant holds before anybody has asked for the lock.
LEMMA SessionInit == ASSUME SessionAssumption, Locks!Init PROVE SessionInv
  <1>1. SessionType
    BY DEF SessionAssumption, Locks!Init, SessionType
  <1>2. ASSUME NEW c \in Caller PROVE Covered(c) /\ Overtaken(c) /\ Within(c)
    <2>1. place[c] = "acquiring" /\ renewal[c] = "off" /\ outcome[c] = "none"
          /\ overlapped[c] = FALSE
          /\ holder = Nobody
      BY Zenon DEF Locks!Init
    <2> QED BY Zenon, <2>1 DEF Covered, Overtaken, Within, SessionAssumption
  <1> QED BY Zenon, <1>1, <1>2 DEF SessionInv

\* The drift that a backend takes off a lease.
LEMMA Allows ==
    ASSUME SessionAssumption
    PROVE  /\ Locks!Allowance \in {0, Drift} /\ Locks!Allowance \in Nat
           /\ backend = "redlock" => Locks!Allowance = Drift
           /\ backend' = backend => Locks!Allowance' = Locks!Allowance
           /\ backend = "memory" => Locks!Allowance = 0
  BY Zenon DEF SessionAssumption, Locks!Allowance

\* Time passing keeps the invariant.
LEMMA Ticks == ASSUME SessionAssumption, SessionInv, Locks!Tick PROVE SessionInv'
  <1>1. now' = now + 1 /\ UNCHANGED <<backend, holder, until, place, renewal, startedAt, callStart,
           prolonged, expiry, result, outcome, overlapped>>
    BY Zenon DEF Locks!Tick, Locks!storeVars, Locks!renewalVars, Locks!handleVars
  <1>2. SessionType'
    BY <1>1 DEF SessionInv, SessionType, SessionAssumption
  <1>3. ASSUME NEW c \in Caller PROVE Covered(c)' /\ Overtaken(c)' /\ Within(c)'
    <2>1. expiry[c] \in Int /\ callStart[c] \in Int /\ now \in Int
      BY Zenon DEF SessionInv, SessionType
    <2>2. Covered(c) /\ Overtaken(c) /\ Within(c)
      BY Zenon DEF SessionInv
    <2>3. \A x \in Int : x <= now => x <= now'
      BY <1>1, <2>1
    <2>4. callStart[c] + TTL \in Int
      BY <2>1 DEF SessionAssumption
    <2>5. now >= callStart[c] + TTL => now' >= callStart[c] + TTL
      BY <2>4, <2>1, <1>1
    <2>6. Locks!Allowance' = Locks!Allowance
      BY Zenon, <1>1, Allows
    <2>7. Covered(c)'
      BY Zenon, <1>1, <2>1, <2>2, <2>3, <2>5, <2>6 DEF Covered
    <2>8. Overtaken(c)' /\ Within(c)'
      BY Zenon, <1>1, <2>1, <2>2, <2>3 DEF Overtaken, Within
    <2> QED BY Zenon, <2>7, <2>8
  <1> QED BY Zenon, <1>2, <1>3 DEF SessionInv

\* A step of c leaves what the others have.
OthersStand(c) ==
    \A d \in Caller \ {c} :
        /\ place'[d] = place[d] /\ renewal'[d] = renewal[d] /\ outcome'[d] = outcome[d]
        /\ startedAt'[d] = startedAt[d] /\ callStart'[d] = callStart[d]
        /\ result'[d] = result[d] /\ prolonged'[d] = prolonged[d] /\ expiry'[d] = expiry[d]
        /\ overlapped'[d] = overlapped[d]

\* A step of the caller c, told by what it leaves of its own state and of the key.
LEMMA CallerStep ==
    ASSUME SessionAssumption, SessionInv, NEW c \in Caller, SessionType',
           UNCHANGED <<backend, now>>,
           OthersStand(c),
           holder' \in {holder, Nobody}, holder # c => holder' = holder /\ until' = until,
           Covered(c)', Overtaken(c)', Within(c)'
    PROVE  SessionInv'
  <1>1. ASSUME NEW d \in Caller, d # c PROVE Covered(d)' /\ Overtaken(d)' /\ Within(d)'
    <2>1. Covered(d) /\ Overtaken(d) /\ Within(d)
      BY Zenon DEF SessionInv
    <2>2. d \in Caller \ {c}
      BY Zenon, <1>1
    <2>3. Locks!Allowance' = Locks!Allowance
      BY Zenon, Allows
    <2>4. holder = d => holder' = holder /\ until' = until
      BY Zenon, <1>1
    <2>5. holder' = d => holder = d
      BY Zenon DEF SessionAssumption
    <2>6. Covered(d)'
      BY Zenon, <2>1, <2>2, <2>3, <2>4, <2>5 DEF Covered, OthersStand
    <2>7. Overtaken(d)'
      BY Zenon, <2>1, <2>2, <2>5 DEF Overtaken, OthersStand
    <2>8. Within(d)'
      BY Zenon, <2>1, <2>2, <2>4, <2>5 DEF Within, OthersStand
    <2> QED BY Zenon, <2>6, <2>7, <2>8
  <1> QED BY Zenon, <1>1 DEF SessionInv

\* What an update of one caller's entry leaves.
LEMMA SetAt ==
    ASSUME NEW f, DOMAIN f = Caller, NEW c \in Caller, NEW x
    PROVE  /\ DOMAIN Locks!Set(f, c, x) = Caller /\ Locks!Set(f, c, x)[c] = x
           /\ \A d \in Caller \ {c} : Locks!Set(f, c, x)[d] = f[d]
           /\ \A T : f \in [Caller -> T] /\ x \in T => Locks!Set(f, c, x) \in [Caller -> T]
  BY Zenon DEF Locks!Set

\* What the invariant says of one caller.
LEMMA Typed ==
    ASSUME SessionInv, NEW c \in Caller
    PROVE  /\ now \in Int /\ until \in Int /\ until <= now + TTL /\ startedAt[c] \in Int /\ callStart[c] \in Int
           /\ expiry[c] \in Int /\ overlapped[c] \in BOOLEAN
           /\ DOMAIN place = Caller /\ DOMAIN renewal = Caller /\ DOMAIN outcome = Caller
           /\ DOMAIN prolonged = Caller /\ DOMAIN result = Caller /\ DOMAIN expiry = Caller
           /\ DOMAIN callStart = Caller
           /\ DOMAIN startedAt = Caller
           /\ Covered(c) /\ Overtaken(c) /\ Within(c)
  BY Zenon DEF SessionInv, SessionType

\* A step that moves withLock or the loop on and leaves the key and the handle.
LEMMA MovesOn ==
    ASSUME SessionAssumption, SessionInv, NEW c \in Caller, SessionType', OthersStand(c),
           UNCHANGED <<backend, now, holder, until, startedAt, callStart, prolonged, expiry, overlapped>>,
           place'[c] \in {"running", "stopping", "stopped"} =>
              place[c] \in {"running", "stopping", "stopped"},
           renewal[c] = "refused" => renewal'[c] = "refused",
           place'[c] = "acquiring" => place[c] = "acquiring",
           place'[c] \in {"stopping", "stopped", "released"} => result'[c] \in {"returned", "threw"},
           renewal'[c] = "extending" => renewal[c] = "extending"
               /\ place'[c] \in {"running", "stopping"},
           outcome'[c] = "value" => place'[c] = "done" /\ ~overlapped[c]
    PROVE  SessionInv'
  <1>3. Covered(c) /\ Overtaken(c) /\ Within(c)
    BY Zenon, Typed
  <1>4. Locks!Allowance' = Locks!Allowance
    BY Zenon, Allows
  <1>5. Covered(c)'
    BY Zenon, <1>3, <1>4 DEF Covered
  <1>6. Overtaken(c)' /\ Within(c)'
    BY Zenon, <1>3 DEF Overtaken, Within
  <1> QED BY Zenon, <1>5, <1>6, CallerStep

\* Steps that leave the key alone keep the invariant.
LEMMA Quiet ==
    ASSUME SessionAssumption, SessionInv, NEW c \in Caller,
           \/ Locks!NotAcquired(c)
           \/ \E what \in {"returned", "threw"} : Locks!OperationEnds(c, what)
           \/ Locks!LoopStops(c) \/ Locks!LoopGivesUp(c) \/ Locks!RenewalFinished(c)
           \/ Locks!Reports(c)
    PROVE  SessionInv'
  <1>0. Covered(c) /\ Overtaken(c) /\ Within(c)
    BY Zenon, Typed
  <1>1. UNCHANGED <<backend, now, holder, until, startedAt, callStart, prolonged, expiry, overlapped>>
    BY Zenon DEF Locks!NotAcquired, Locks!OperationEnds, Locks!LoopStops, Locks!LoopGivesUp,
           Locks!RenewalFinished, Locks!Reports, Locks!storeVars, Locks!renewalVars, Locks!handleVars
  <1>2. CASE Locks!NotAcquired(c)
    <2>1. place' = Locks!Set(place, c, "done") /\ outcome' = Locks!Set(outcome, c, "notAcquired")
          /\ UNCHANGED <<renewal, result>> /\ place[c] = "acquiring"
      BY Zenon, <1>2 DEF Locks!NotAcquired, Locks!renewalVars
    <2>2. place'[c] = "done" /\ outcome'[c] = "notAcquired" /\ SessionType' /\ OthersStand(c)
      BY <1>1, <2>1, Typed, SetAt DEF OthersStand, SessionInv, SessionType
    <2> QED BY Zenon, <1>0, <1>1, <2>1, <2>2, MovesOn DEF Covered
  <1>3. ASSUME NEW what \in {"returned", "threw"}, Locks!OperationEnds(c, what) PROVE SessionInv'
    <2>1. place' = Locks!Set(place, c, "stopping") /\ UNCHANGED <<renewal, outcome>>
          /\ place[c] = "running" /\ result' = Locks!Set(result, c, what)
      BY Zenon, <1>3 DEF Locks!OperationEnds, Locks!renewalVars
    <2>2. place'[c] = "stopping" /\ result'[c] = what /\ SessionType' /\ OthersStand(c)
      BY <1>1, <2>1, Typed, SetAt DEF OthersStand, SessionInv, SessionType
    <2> QED BY Zenon, <1>0, <1>1, <2>1, <2>2, MovesOn DEF Overtaken
  <1>4. CASE Locks!LoopStops(c) \/ Locks!LoopGivesUp(c)
    <2>1. renewal' = Locks!Set(renewal, c, "finished") /\ UNCHANGED <<place, outcome, result>>
          /\ renewal[c] = "asleep"
      BY Zenon, <1>4 DEF Locks!LoopStops, Locks!LoopGivesUp, Locks!Awake
    <2>2. renewal'[c] = "finished" /\ SessionType' /\ OthersStand(c)
      BY <1>1, <2>1, Typed, SetAt DEF OthersStand, SessionInv, SessionType
    <2> QED BY Zenon, <1>0, <1>1, <2>1, <2>2, MovesOn DEF Overtaken
  <1>5. CASE Locks!RenewalFinished(c)
    <2>1. place' = Locks!Set(place, c, "stopped") /\ UNCHANGED <<renewal, outcome, result>>
          /\ place[c] = "stopping" /\ renewal[c] # "extending"
      BY Zenon, <1>5 DEF Locks!RenewalFinished, Locks!renewalVars
    <2>2. place'[c] = "stopped" /\ SessionType' /\ OthersStand(c)
      BY <1>1, <2>1, Typed, SetAt DEF OthersStand, SessionInv, SessionType
    <2> QED BY Zenon, <1>0, <1>1, <2>1, <2>2, MovesOn DEF Overtaken
  <1>6. CASE Locks!Reports(c)
    <2>1. PICK o : /\ outcome' = Locks!Set(outcome, c, o)
                   /\ o = CASE result[c] = "threw" -> "threw"
                            [] result[c] = "returned" /\ Locks!Lost(c) -> "lost"
                            [] result[c] = "returned" /\ ~Locks!Lost(c) -> "value"
      BY Zenon, <1>6 DEF Locks!Reports
    <2>2. place' = Locks!Set(place, c, "done") /\ UNCHANGED <<renewal, result>>
          /\ place[c] = "released"
      BY Zenon, <1>6 DEF Locks!Reports, Locks!renewalVars
    <2>3. outcome'[c] = o /\ DOMAIN outcome' = Caller /\ \A d \in Caller \ {c} : outcome'[d] = outcome[d]
      <3>1. DOMAIN outcome = Caller /\ outcome' = Locks!Set(outcome, c, o)
        BY ONLY Zenon, <2>1, Typed, SessionInv, c \in Caller
      <3> HIDE <2>1
      <3> QED BY ONLY <3>1, SetAt, c \in Caller
    <2>5. place'[c] = "done" /\ SessionType' /\ OthersStand(c)
      BY <1>1, <2>3, <2>2, Typed, SetAt DEF OthersStand, SessionInv, SessionType
    <2>4. o = "value" => ~overlapped[c]
      <3>1. (result[c] = "returned" /\ Locks!Lost(c)) \/ result[c] = "threw" => o # "value"
        BY Zenon, <2>1
      <3>2. ~Locks!Lost(c) => renewal[c] # "refused" /\ ~(expiry[c] <= now)
        BY Typed DEF Locks!Lost, Locks!remaining
      <3>3. result[c] \in {"returned", "threw"}
        BY Zenon, <1>0, <2>2 DEF Overtaken
      <3> QED BY Zenon, <1>0, <3>1, <3>2, <3>3 DEF Overtaken
    <2> QED BY Zenon, <1>0, <1>1, <2>2, <2>3, <2>4, <2>5, MovesOn DEF Covered
  <1> QED BY Zenon, <1>2, <1>3, <1>4, <1>5, <1>6

\* What the extension of a lease and its end leave.
LEMMA KeyStep ==
    ASSUME SessionAssumption, SessionInv, NEW c \in Caller,
           \/ Locks!ExtendInMemory(c) \/ Locks!ExtendSent(c) \/ Locks!ExtendAnswered(c)
           \/ Locks!ExtendRefused(c) \/ Locks!ReleasesInMemory(c) \/ Locks!ReleasesRedlock(c)
    PROVE  SessionInv'
  <1>0. /\ Covered(c) /\ Overtaken(c) /\ Within(c) /\ Nobody # c
        /\ now \in Int /\ until \in Int /\ until <= now + TTL /\ startedAt[c] \in Int
        /\ callStart[c] \in Int
        /\ expiry[c] \in Int /\ overlapped[c] \in BOOLEAN
        /\ TTL \in Nat /\ Drift \in Nat /\ MaxHold \in Nat
    BY Zenon, Typed DEF SessionAssumption
  <1>1. UNCHANGED <<backend, now, startedAt, overlapped, outcome, result>>
    BY Zenon DEF Locks!ExtendInMemory, Locks!ExtendSent, Locks!ExtendAnswered, Locks!ExtendRefused,
           Locks!ReleasesInMemory, Locks!ReleasesRedlock, Locks!renewalVars
  <1>2. Locks!Allowance' = Locks!Allowance /\ Locks!Allowance \in Nat
        /\ (backend = "redlock" => Locks!Allowance = Drift) /\ (backend = "memory" => Locks!Allowance = 0)
    BY Zenon, <1>1, Allows
  <1>3. holder # c => Locks!Freed(c) = holder
    BY Zenon DEF Locks!Freed, Locks!Holds
  <1>4. Locks!Freed(c) \in {holder, Nobody}
    BY Zenon DEF Locks!Freed
  <1>5. CASE Locks!ExtendInMemory(c)
    <2>1. /\ backend = "memory" /\ place[c] = "running" /\ renewal[c] = "asleep"
          /\ ~(now - startedAt[c] >= MaxHold) /\ UNCHANGED <<holder, place, callStart, prolonged>>
      BY Zenon, <1>5 DEF Locks!ExtendInMemory, Locks!Awake, Locks!maxHoldReached
    <2>2. CASE /\ Locks!Holds(c) /\ until' = now + TTL /\ expiry' = Locks!Set(expiry, c, now + TTL)
               /\ renewal' = Locks!Set(renewal, c, "asleep")
      <3>1. holder = c /\ now + TTL \in Int /\ until' <= now + TTL
        BY <1>0, <2>2 DEF Locks!Holds
      <3>2. renewal'[c] = "asleep" /\ expiry'[c] = now + TTL /\ SessionType' /\ OthersStand(c)
        <4>1. renewal'[c] = "asleep" /\ expiry'[c] = now + TTL /\ DOMAIN renewal' = Caller
              /\ \A d \in Caller \ {c} : renewal'[d] = renewal[d] /\ expiry'[d] = expiry[d]
          BY ONLY <2>2, Typed, SetAt, SessionInv, c \in Caller
        <4>2. expiry' \in [Caller -> Int]
          BY ONLY Zenon, <2>2, <3>1, SetAt, SessionInv, c \in Caller DEF SessionInv, SessionType
        <4> QED BY Zenon, <1>0, <1>1, <2>1, <2>2, <3>1, <4>1, <4>2 DEF OthersStand, SessionInv,
              SessionType
      <3>3. Covered(c)'
        BY <1>0, <1>1, <1>2, <2>1, <2>2, <3>1, <3>2 DEF Covered
      <3>4. Overtaken(c)' /\ Within(c)'
        BY <1>0, <1>1, <2>1, <2>2, <3>1, <3>2 DEF Overtaken, Within
      <3> QED BY Zenon, <1>1, <2>1, <3>1, <3>2, <3>3, <3>4, CallerStep
    <2>3. CASE renewal' = Locks!Set(renewal, c, "refused") /\ UNCHANGED <<until, expiry>>
      <3>1. renewal'[c] = "refused" /\ SessionType' /\ OthersStand(c)
        <4>1. renewal'[c] = "refused" /\ DOMAIN renewal' = Caller
              /\ \A d \in Caller \ {c} : renewal'[d] = renewal[d]
          BY ONLY <2>3, Typed, SetAt, SessionInv, c \in Caller
        <4> QED BY Zenon, <1>0, <1>1, <2>1, <2>3, <4>1 DEF OthersStand, SessionInv, SessionType
      <3>2. Covered(c)' /\ Overtaken(c)' /\ Within(c)'
        BY Zenon, <1>0, <1>1, <2>1, <2>3, <3>1 DEF Covered, Overtaken, Within
      <3> QED BY Zenon, <1>1, <2>1, <2>3, <3>1, <3>2, CallerStep
    <2> QED BY Zenon, <1>5, <2>2, <2>3 DEF Locks!ExtendInMemory, Locks!Sleeps
  <1>6. CASE Locks!ExtendSent(c)
    <2>1. /\ backend = "redlock" /\ place[c] = "running" /\ renewal[c] = "asleep"
          /\ ~(now - startedAt[c] >= MaxHold) /\ UNCHANGED <<holder, place, expiry>>
          /\ callStart' = Locks!Set(callStart, c, now) /\ renewal' = Locks!Set(renewal, c, "extending")
      BY Zenon, <1>6 DEF Locks!ExtendSent, Locks!Awake, Locks!maxHoldReached, Locks!handleVars
    <2>2. PICK reached \in {TRUE, FALSE} :
             /\ reached => Locks!Holds(c)
             /\ prolonged' = Locks!Set(prolonged, c, reached)
             /\ until' = IF reached THEN now + TTL ELSE until
      BY Zenon, <1>6 DEF Locks!ExtendSent
    <2>3. until' \in Int /\ until' <= now + TTL /\ (reached => holder = c /\ now < until)
      BY <1>0, <2>2 DEF Locks!Holds
    <2>4. renewal'[c] = "extending" /\ callStart'[c] = now /\ prolonged'[c] = reached
      BY <2>1, <2>2, Typed, SetAt
    <2>9. /\ DOMAIN renewal' = Caller /\ DOMAIN prolonged' = Caller
          /\ \A d \in Caller \ {c} : /\ callStart'[d] = callStart[d] /\ renewal'[d] = renewal[d]
                                  /\ prolonged'[d] = prolonged[d]
      BY <2>1, <2>2, Typed, SetAt
    <2>10. callStart' \in [Caller -> Int]
      BY Zenon, <1>0, <2>1, SetAt DEF SessionInv, SessionType
    <2>5. SessionType' /\ OthersStand(c)
      BY Zenon, <1>0, <1>1, <2>1, <2>3, <2>9, <2>10 DEF OthersStand, SessionInv, SessionType
    <2>6. Covered(c)'
      <3>1. CASE reached
        <4>1. until' = now + TTL /\ holder = c
          BY Zenon, <2>2, <2>3, <3>1
        <4>2. expiry[c] <= until - Drift \/ expiry[c] <= now
          BY Zenon, <1>0, <1>2, <2>1 DEF Covered
        <4>3. expiry[c] <= until' - Drift \/ expiry[c] <= now
          BY ONLY <4>1, <4>2, <1>0
        <4>4. holder' = c /\ until' = callStart'[c] + TTL
          BY Zenon, <2>1, <2>4, <4>1
        <4> QED BY Zenon, <1>1, <1>2, <2>1, <2>4, <4>3, <4>4 DEF Covered
      <3>2. CASE ~reached
        BY Zenon, <1>0, <1>1, <1>2, <2>1, <2>2, <2>3, <2>4, <3>2 DEF Covered
      <3> QED BY Zenon, <3>1, <3>2
    <2>7. Overtaken(c)'
      BY Zenon, <1>0, <1>1, <2>1, <2>4 DEF Overtaken
    <2>8. Within(c)'
      <3>1. CASE reached
        <4>1. until' <= startedAt[c] + MaxHold + TTL
          BY ONLY <1>0, <2>1, <2>2, <3>1
        <4> QED BY Zenon, <1>1, <4>1 DEF Within
      <3>2. CASE ~reached
        BY Zenon, <1>0, <1>1, <2>1, <2>2, <3>2 DEF Within
      <3> QED BY Zenon, <3>1, <3>2
    <2> QED BY Zenon, <1>1, <2>1, <2>2, <2>3, <2>5, <2>6, <2>7, <2>8, CallerStep
  <1>7. CASE Locks!ExtendAnswered(c)
    <2>1. /\ renewal[c] = "extending" /\ prolonged[c]
          /\ UNCHANGED <<holder, until, place, callStart, prolonged>>
          /\ renewal' = Locks!Set(renewal, c, "asleep")
      BY Zenon, <1>7 DEF Locks!ExtendAnswered, Locks!Sleeps, Locks!storeVars
    <2>2. PICK x : x = now + Locks!validity(c) /\ expiry' = Locks!Set(expiry, c, x) /\ Locks!validity(c) > 0
      BY Zenon, <1>7 DEF Locks!ExtendAnswered
    <2>3. x \in Int /\ x = callStart[c] + TTL - Drift /\ x > now
      BY <1>0, <2>2 DEF Locks!validity
    <2>4. backend = "redlock" /\ place[c] \in {"running", "stopping"} /\ holder = c
          /\ until = callStart[c] + TTL
      BY <1>0, <2>1, <2>3 DEF Covered
    <2>5. renewal'[c] = "asleep" /\ expiry'[c] = x
      BY <2>1, <2>2, Typed, SetAt
    <2>6. SessionType' /\ OthersStand(c)
      <3>1. DOMAIN renewal' = Caller
            /\ \A d \in Caller \ {c} : renewal'[d] = renewal[d] /\ expiry'[d] = expiry[d]
        BY ONLY <2>1, <2>2, Typed, SetAt, SessionInv, c \in Caller
      <3>2. expiry' \in [Caller -> Int]
        BY ONLY Zenon, <2>2, <2>3, SetAt, SessionInv, c \in Caller DEF SessionInv, SessionType
      <3> QED BY Zenon, <1>0, <1>1, <2>1, <2>3, <3>1, <3>2 DEF OthersStand, SessionInv, SessionType
    <2>7. Covered(c)'
      <3>1. x <= until - Drift
        BY ONLY <1>0, <2>3, <2>4
      <3> QED BY Zenon, <1>1, <1>2, <2>1, <2>4, <2>5, <3>1 DEF Covered
    <2>8. Overtaken(c)' /\ Within(c)'
      BY Zenon, <1>0, <1>1, <2>1, <2>4, <2>5 DEF Overtaken, Within
    <2> QED BY Zenon, <1>1, <2>1, <2>6, <2>7, <2>8, CallerStep
  <1>8. CASE Locks!ExtendRefused(c)
    <2>1. /\ holder' \in {holder, Locks!Freed(c)} /\ expiry' = Locks!Set(expiry, c, now)
          /\ renewal' = Locks!Set(renewal, c, "refused") /\ UNCHANGED <<until, place, callStart, prolonged>>
      BY Zenon, <1>8 DEF Locks!ExtendRefused
    <2>5. /\ renewal'[c] = "refused" /\ expiry'[c] = now /\ DOMAIN renewal' = Caller
          /\ \A d \in Caller \ {c} : expiry'[d] = expiry[d] /\ renewal'[d] = renewal[d]
      BY <2>1, Typed, SetAt
    <2>6. expiry' \in [Caller -> Int]
      BY Zenon, <1>0, <2>1, SetAt DEF SessionInv, SessionType
    <2>2. SessionType' /\ OthersStand(c)
      BY Zenon, <1>0, <1>1, <2>1, <2>5, <2>6 DEF OthersStand, SessionInv, SessionType
    <2>3. holder' \in {holder, Nobody} /\ (holder # c => holder' = holder)
      BY Zenon, <1>3, <1>4, <2>1
    <2>4. Covered(c)' /\ Overtaken(c)' /\ Within(c)'
      BY Zenon, <1>0, <1>1, <2>1, <2>2, <2>3, <2>5 DEF Covered, Overtaken, Within
    <2> QED BY Zenon, <1>1, <2>1, <2>2, <2>3, <2>4, CallerStep
  <1>9. CASE Locks!ReleasesInMemory(c) \/ Locks!ReleasesRedlock(c)
    <2>1. /\ place[c] = "stopped" /\ place' = Locks!Set(place, c, "released")
          /\ UNCHANGED <<until, renewal, callStart, prolonged>>
          /\ holder' \in {holder, Locks!Freed(c)}
          /\ expiry' = Locks!Set(expiry, c, now) \/ expiry' = expiry
      BY Zenon, <1>9 DEF Locks!ReleasesInMemory, Locks!ReleasesRedlock, Locks!renewalVars,
            Locks!handleVars
    <2>6. /\ place'[c] = "released" /\ expiry'[c] \in {expiry[c], now} /\ DOMAIN place' = Caller
          /\ \A d \in Caller \ {c} : expiry'[d] = expiry[d] /\ place'[d] = place[d]
      BY <2>1, Typed, SetAt
    <2>7. expiry' \in [Caller -> Int]
      <3>1. expiry \in [Caller -> Int] /\ DOMAIN expiry = Caller
        BY Zenon DEF SessionInv, SessionType
      <3>2. Locks!Set(expiry, c, now) \in [Caller -> Int]
        BY Zenon, <1>0, <3>1, SetAt
      <3> QED BY Zenon, <2>1, <3>1, <3>2
    <2>2. SessionType' /\ OthersStand(c)
      BY Zenon, <1>0, <1>1, <2>1, <2>6, <2>7 DEF OthersStand, SessionInv, SessionType
    <2>3. holder' \in {holder, Nobody} /\ (holder # c => holder' = holder)
      BY Zenon, <1>3, <1>4, <2>1
    <2>4. renewal[c] # "extending"
      BY Zenon, <1>0, <2>1 DEF Covered
    <2>5. Covered(c)' /\ Overtaken(c)' /\ Within(c)'
      <3>1. expiry[c] <= now => expiry'[c] <= now
        BY ONLY <1>0, <2>6
      <3>2. Covered(c)'
        BY Zenon, <1>1, <2>1, <2>4, <2>6 DEF Covered
      <3>3. holder' = c => holder = c
        BY Zenon, <1>0, <2>3
      <3>4. Overtaken(c)' /\ Within(c)'
        BY Zenon, <1>0, <1>1, <2>1, <2>6, <3>1, <3>3 DEF Overtaken, Within
      <3> QED BY Zenon, <3>2, <3>4
    <2> QED BY Zenon, <1>1, <2>1, <2>2, <2>3, <2>5, CallerStep
  <1> QED BY Zenon, <1>5, <1>6, <1>7, <1>8, <1>9

\* The key goes to c: whoever had it has no time left on its handle.
LEMMA Acquired ==
    ASSUME SessionAssumption, SessionInv, NEW c \in Caller, Locks!Acquires(c)
    PROVE  SessionInv'
  <1>1. /\ place[c] = "acquiring" /\ (holder = Nobody \/ now >= until) /\ holder' = c
        /\ until' = now + TTL
        /\ UNCHANGED <<backend, now, callStart, prolonged, result, outcome>>
        /\ startedAt' = Locks!Set(startedAt, c, now) /\ place' = Locks!Set(place, c, "running")
        /\ overlapped' = [d \in Caller |-> overlapped[d] \/ (d # c /\ place[d] = "running")]
    BY Zenon DEF Locks!Acquires
  <1>2. PICK x, q : /\ x = now + TTL - Locks!Allowance /\ expiry' = Locks!Set(expiry, c, x)
                    /\ q = (IF c \in Renewing THEN "asleep" ELSE "off")
                    /\ renewal' = Locks!Set(renewal, c, q)
    BY Zenon DEF Locks!Acquires
  <1>3. /\ now \in Int /\ until \in Int /\ TTL \in Nat /\ Locks!Allowance \in Nat
        /\ Locks!Allowance' = Locks!Allowance /\ MaxHold \in Nat /\ x \in Int
    <2>1. /\ now \in Int /\ until \in Int /\ TTL \in Nat /\ Locks!Allowance \in Nat
          /\ Locks!Allowance' = Locks!Allowance /\ MaxHold \in Nat
      BY Zenon, <1>1, Typed, Allows DEF SessionAssumption
    <2> QED BY ONLY <1>2, <2>1
  <1>4. /\ startedAt'[c] = now /\ place'[c] = "running" /\ expiry'[c] = x /\ renewal'[c] = q
        /\ q \in {"asleep", "off"} /\ overlapped'[c] = overlapped[c]
    <2>1. startedAt'[c] = now /\ place'[c] = "running"
      BY ONLY <1>1, Typed, SetAt, SessionInv, c \in Caller
    <2>2. expiry'[c] = x /\ renewal'[c] = q /\ q \in {"asleep", "off"}
      BY ONLY <1>2, Typed, SetAt, SessionInv, c \in Caller
    <2>3. overlapped'[c] = overlapped[c]
      BY ONLY Zenon, <1>1, SessionInv, c \in Caller DEF SessionInv, SessionType
    <2> QED BY ONLY Zenon, <2>1, <2>2, <2>3
  <1>5. SessionType'
    <2>1. startedAt' \in [Caller -> Int] /\ expiry' \in [Caller -> Int]
      BY Zenon, <1>1, <1>2, <1>3, SetAt DEF SessionInv, SessionType
    <2>2. overlapped' \in [Caller -> BOOLEAN]
      BY Zenon, <1>1 DEF SessionInv, SessionType
    <2>3. DOMAIN place' = Caller /\ DOMAIN renewal' = Caller
      BY <1>1, <1>2, SetAt, Typed
    <2>4. now' \in Int /\ until' \in Int /\ until' <= now' + TTL
      BY ONLY <1>1, <1>3
    <2> QED BY Zenon, <1>1, <2>1, <2>2, <2>3, <2>4 DEF SessionInv, SessionType
  <1>6. Covered(c)' /\ Overtaken(c)' /\ Within(c)'
    <2>1. Overtaken(c)
      BY Zenon, Typed
    <2>2. ~overlapped'[c]
      BY Zenon, <1>1, <1>4, <2>1 DEF Overtaken
    <2>3. outcome[c] # "value"
      BY Zenon, <1>1, <2>1 DEF Overtaken
    <2> QED BY <1>1, <1>2, <1>3, <1>4, <2>1, <2>2, <2>3 DEF Covered, Overtaken, Within
  <1>7. ASSUME NEW d \in Caller, d # c PROVE Covered(d)' /\ Overtaken(d)' /\ Within(d)'
    <2>1. /\ place'[d] = place[d] /\ renewal'[d] = renewal[d] /\ startedAt'[d] = startedAt[d]
          /\ expiry'[d] = expiry[d] /\ overlapped'[d] = (overlapped[d] \/ place[d] = "running")
      BY <1>1, <1>2, <1>7, Typed, SetAt
    <2>2. Covered(d) /\ Overtaken(d) /\ expiry[d] \in Int /\ callStart[d] \in Int
      BY Zenon, Typed
    <2>3. holder = d => now >= until
      BY Zenon, <1>1 DEF SessionAssumption
    <2>4. Covered(d)'
      BY <1>1, <1>3, <1>7, <2>1, <2>2, <2>3 DEF Covered
    <2>5. place[d] = "running" => renewal[d] = "refused" \/ expiry[d] <= now
      BY <1>3, <2>2, <2>3 DEF Covered
    <2>6. Overtaken(d)' /\ Within(d)'
      BY Zenon, <1>1, <1>7, <2>1, <2>2, <2>5 DEF Overtaken, Within
    <2> QED BY Zenon, <2>4, <2>6
  <1> QED BY Zenon, <1>5, <1>6, <1>7 DEF SessionInv

\* Every step of the sessions keeps the invariant.
LEMMA SessionStep ==
    ASSUME SessionAssumption, SessionInv, [Locks!Next]_(Locks!vars)
    PROVE  SessionInv'
  <1>1. CASE UNCHANGED Locks!vars
    <2>1. UNCHANGED <<backend, now, holder, until, place, renewal, startedAt, callStart, prolonged,
                      expiry, result, outcome, overlapped>>
      BY Zenon, <1>1 DEF Locks!vars, Locks!storeVars, Locks!renewalVars, Locks!handleVars
    <2>2. Locks!Allowance' = Locks!Allowance
      BY Zenon, <2>1, Allows
    <2> QED BY Zenon, <2>1, <2>2 DEF SessionInv, SessionType, Covered, Overtaken, Within
  <1> QED BY Zenon, <1>1, Ticks, Acquired, Quiet, KeyStep DEF Locks!Next

\* The invariant says that success means exclusive, and that a hold is bounded.
LEMMA SessionSafe ==
    ASSUME SessionAssumption, SessionInv
    PROVE  Locks!SuccessMeansExclusive /\ Locks!HoldBounded
  <1>1. Locks!SuccessMeansExclusive
    BY Zenon DEF SessionInv, Overtaken, Locks!SuccessMeansExclusive
  <1>2. ASSUME NEW c \in Caller, Locks!Holds(c) PROVE now < startedAt[c] + MaxHold + TTL
    BY <1>2, Typed DEF Within, Locks!Holds, SessionAssumption
  <1> QED BY Zenon, <1>1, <1>2 DEF Locks!HoldBounded

-----------------------------------------------------------------------------
(* Idempotency keys.  Effects that no record stands for are counted: each  *)
(* of them has an excuse, a hang-up or a record that expired.              *)

\* A request is not one of the answers that are not a replay.
KeysAssumption == \A a \in {"none", "409", "422", "503", "5xx", "hungUp"} : a \notin Keyed

Records ==
    {Dedupe!Missing, Dedupe!Garbage}
        \cup {Dedupe!InFlight(r) : r \in Keyed} \cup {Dedupe!Completed(r) : r \in Keyed}

KeysType ==
    /\ entry \in Records /\ excuses \in Nat
    /\ DOMAIN pc = Keyed /\ DOMAIN answer = Keyed
    /\ open \in [Keyed -> BOOLEAN] /\ worked \in [Keyed -> BOOLEAN]

\* The handler of a request that was refused or answered from the record never ran.
Unserved(r) ==
    /\ pc[r] \in {"new", "retry", "read", "claim"} => ~worked[r]
    /\ answer[r] \notin {"none", "5xx", "hungUp", r} => pc[r] = "done" /\ ~worked[r]

\* An answer of r's own is final, and nobody else's answer was a handler's work.
OwnAnswer(r) ==
    /\ Unserved(r)
    /\ pc[r] = "completing" => answer[r] = r
    /\ answer[r] = r => ~open[r] /\ pc[r] \in {"completing", "releasing", "done"}
    /\ entry = Dedupe!Completed(r) => answer[r] = r
    /\ answer[r] \in Keyed =>
          /\ Fingerprint[answer[r]] = Fingerprint[r]
          /\ answer[answer[r]] = answer[r]

Readable == "unreadable" \notin may =>
                entry # Dedupe!Garbage /\ \A r \in Keyed : pc[r] # "claim"

Pending(r) == (pc[r] = "running" /\ open[r]) \/ pc[r] = "completing"

\* Effects that the record under the key stands for, or will.
Vouched == {r \in Keyed : Pending(r) \/ (entry = Dedupe!Completed(r) /\ pc[r] = "done")}

Unvouched == {r \in Keyed : worked[r]} \ Vouched

Accounted ==
    may \subseteq {"hangUps"} =>
        /\ \A r \in Keyed : Pending(r) => entry = Dedupe!InFlight(r)
        /\ IsFiniteSet(Unvouched) /\ Cardinality(Unvouched) <= excuses

KeysInv == KeysType /\ (\A r \in Keyed : OwnAnswer(r)) /\ Readable /\ Accounted

\* The values a record can have are told apart.
LEMMA Forms ==
    /\ Dedupe!Missing # Dedupe!Garbage
    /\ \A r, q : /\ Dedupe!InFlight(r) \notin {Dedupe!Missing, Dedupe!Garbage, Dedupe!Completed(q)}
                 /\ Dedupe!Completed(r) \notin {Dedupe!Missing, Dedupe!Garbage}
                 /\ Dedupe!InFlight(r) = Dedupe!InFlight(q) => r = q
                 /\ Dedupe!Completed(r) = Dedupe!Completed(q) => r = q
    /\ \A r : Dedupe!InFlight(r).lease = r /\ Dedupe!Completed(r).lease = r
              /\ Dedupe!IsRecord(Dedupe!InFlight(r)) /\ Dedupe!IsRecord(Dedupe!Completed(r))
              /\ Dedupe!InFlight(r).state = "in-flight" /\ Dedupe!Completed(r).state = "completed"
    /\ ~Dedupe!IsRecord(Dedupe!Missing) /\ ~Dedupe!IsRecord(Dedupe!Garbage)
  <1>1. Dedupe!Missing.state = "missing" /\ Dedupe!Garbage.state = "garbage"
    BY Zenon DEF Dedupe!Missing, Dedupe!Garbage
  <1>2. \A r : /\ Dedupe!InFlight(r).lease = r /\ Dedupe!Completed(r).lease = r
               /\ Dedupe!InFlight(r).state = "in-flight" /\ Dedupe!Completed(r).state = "completed"
    BY Zenon DEF Dedupe!InFlight, Dedupe!Completed
  <1> QED BY <1>1, <1>2 DEF Dedupe!IsRecord

\* Whose lease a record is.
LEMMA LeasedBy ==
    ASSUME entry \in Records, NEW r \in Keyed
    PROVE  Dedupe!Leased(r) <=> entry \in {Dedupe!InFlight(r), Dedupe!Completed(r)}
  <1>1. CASE entry \in {Dedupe!Missing, Dedupe!Garbage}
    BY Zenon, <1>1, Forms DEF Dedupe!Leased
  <1>2. ASSUME NEW q \in Keyed, entry = Dedupe!InFlight(q) \/ entry = Dedupe!Completed(q)
        PROVE  /\ Dedupe!Leased(r) <=> entry \in {Dedupe!InFlight(r), Dedupe!Completed(r)}
               /\ entry.lease = q /\ Dedupe!IsRecord(entry)
    <2>1. entry.lease = q /\ Dedupe!IsRecord(entry)
      BY Zenon, <1>2, Forms
    <2>2. Dedupe!Leased(r) <=> q = r
      BY Zenon, <2>1 DEF Dedupe!Leased
    <2>3. entry \in {Dedupe!InFlight(r), Dedupe!Completed(r)} => entry.lease = r
      BY Zenon, Forms
    <2> QED BY Zenon, <1>2, <2>1, <2>2, <2>3
  <1> QED BY Zenon, <1>1, <1>2, Forms DEF Records

\* A record belongs to a request.
LEMMA RecordOf ==
    ASSUME entry \in Records, Dedupe!IsRecord(entry)
    PROVE  /\ entry.lease \in Keyed
           /\ entry \in {Dedupe!InFlight(entry.lease), Dedupe!Completed(entry.lease)}
  <1>1. PICK q \in Keyed : entry = Dedupe!InFlight(q) \/ entry = Dedupe!Completed(q)
    BY Zenon, Forms DEF Records
  <1>2. entry.lease = q
    BY Zenon, <1>1, Forms
  <1> QED BY Zenon, <1>1, <1>2

\* The invariant holds before any request has come.
LEMMA KeysInit == ASSUME SetFacts, KeysAssumption, Dedupe!Init PROVE KeysInv
  <1>c. IsFiniteSet({}) /\ Cardinality({}) = 0
    BY Zenon DEF SetFacts
  <1>1. /\ entry \in {Dedupe!Missing, Dedupe!Garbage} /\ ("unreadable" \notin may => entry = Dedupe!Missing)
        /\ excuses = 0 /\ pc = [r \in Keyed |-> "new"] /\ open = [r \in Keyed |-> TRUE]
        /\ worked = [r \in Keyed |-> FALSE] /\ answer = [r \in Keyed |-> "none"]
    BY Zenon DEF Dedupe!Init
  <1>2. KeysType
    BY Zenon, <1>1 DEF KeysType, Records
  <1>3. \A r \in Keyed : OwnAnswer(r)
    <2> SUFFICES ASSUME NEW r \in Keyed PROVE OwnAnswer(r)
      BY Zenon
    <2>1. answer[r] = "none" /\ answer[r] \notin Keyed /\ pc[r] = "new"
      BY Zenon, <1>1 DEF KeysAssumption
    <2>2. entry # Dedupe!Completed(r)
      BY Zenon, <1>1, Forms
    <2>3. Unserved(r)
      BY Zenon, <1>1, <2>1 DEF Unserved
    <2> QED BY Zenon, <2>1, <2>2, <2>3 DEF OwnAnswer
  <1>4. Readable
    BY Zenon, <1>1, Forms DEF Readable
  <1>5. Accounted
    <2>1. Unvouched = {}
      BY Zenon, <1>1 DEF Unvouched
    <2>2. IsFiniteSet(Unvouched) /\ Cardinality(Unvouched) <= excuses
      BY <1>1, <2>1, <1>c
    <2>3. \A r \in Keyed : ~Pending(r)
      BY Zenon, <1>1 DEF Pending
    <2> QED BY Zenon, <2>2, <2>3 DEF Accounted
  <1> QED BY Zenon, <1>2, <1>3, <1>4, <1>5 DEF KeysInv

\* At most one effect is vouched for.
LEMMA OneVouched ==
    ASSUME KeysInv, may \subseteq {"hangUps"}, NEW r \in Vouched, NEW q \in Vouched
    PROVE  r = q
  <1>1. \A s \in Vouched : entry \in {Dedupe!InFlight(s), Dedupe!Completed(s)}
    BY Zenon DEF Vouched, KeysInv, Accounted
  <1>2. \A s \in Vouched : entry.lease = s
    BY Zenon, <1>1, Forms
  <1> QED BY Zenon, <1>2

\* Effects without a record grow no faster than the excuses.
LEMMA CountStep ==
    ASSUME SetFacts, NEW A, NEW B, NEW x, NEW j \in Nat, NEW k \in Nat,
           IsFiniteSet(A), Cardinality(A) <= j, B \subseteq A \cup {x},
           (B \subseteq A /\ j <= k) \/ j + 1 <= k
    PROVE  IsFiniteSet(B) /\ Cardinality(B) <= k
  <1>0. Cardinality(A) \in Nat
    BY Zenon DEF SetFacts
  <1>1. CASE B \subseteq A /\ j <= k
    <2>1. IsFiniteSet(B) /\ Cardinality(B) <= Cardinality(A) /\ Cardinality(B) \in Nat
      BY Zenon, <1>1 DEF SetFacts
    <2> QED BY <1>0, <1>1, <2>1
  <1>2. CASE j + 1 <= k
    <2>1. /\ IsFiniteSet(A \cup {x})
          /\ Cardinality(A \cup {x}) \in {Cardinality(A), Cardinality(A) + 1}
      BY Zenon DEF SetFacts
    <2>2. /\ IsFiniteSet(B) /\ Cardinality(B) <= Cardinality(A \cup {x})
          /\ Cardinality(B) \in Nat
      BY Zenon, <2>1 DEF SetFacts
    <2> QED BY <1>0, <1>2, <2>1, <2>2
  <1> QED BY Zenon, <1>1, <1>2

OthersHold(r) ==
    \A q \in Keyed \ {r} : /\ pc'[q] = pc[q] /\ open'[q] = open[q]
                           /\ worked'[q] = worked[q] /\ answer'[q] = answer[q]

\* What a step of r makes of the record.
Recorded(r) ==
    \/ entry' = entry
    \/ entry' = Dedupe!Missing /\ Dedupe!Leased(r)
    \/ entry' = Dedupe!InFlight(r) /\ (entry = Dedupe!Missing \/ pc[r] = "claim")
    \/ entry' = Dedupe!Completed(r) /\ Dedupe!Leased(r) /\ answer'[r] = r

\* The record is r's while its answer is due, and an effect of r's that no
\* record stands for any more is an excuse.
Told(r) ==
    /\ Pending(r)' => entry' = Dedupe!InFlight(r)
    /\ \/ excuses' = excuses /\ (r \in Unvouched' => r \in Unvouched)
       \/ excuses' >= excuses + 1

\* A step of one request.
LEMMA OneRequest ==
    ASSUME SetFacts, KeysAssumption, KeysInv, NEW r \in Keyed, KeysType', may' = may,
           OthersHold(r), Recorded(r), worked[r] => worked'[r],
           answer[r] = r => answer'[r] = r,
           pc'[r] = "completing" => answer'[r] = r,
           answer'[r] = r => ~open'[r] /\ pc'[r] \in {"completing", "releasing", "done"},
           Unserved(r)',
           answer'[r] \in Keyed /\ answer'[r] # r =>
              \/ answer'[r] = answer[r]
              \/ entry = Dedupe!Completed(answer'[r]) /\ Fingerprint[answer'[r]] = Fingerprint[r],
           pc'[r] = "claim" => pc[r] = "claim" \/ entry = Dedupe!Garbage,
           may \subseteq {"hangUps"} => Told(r)
    PROVE  KeysInv'
  <1>1. ASSUME NEW q \in Keyed, entry' = Dedupe!Completed(q) PROVE answer'[q] = q
    <2>1. CASE entry' = entry
      <3>1. answer[q] = q
        BY ONLY Zenon, <1>1, <2>1, KeysInv DEF KeysInv, OwnAnswer
      <3> QED BY ONLY Zenon, <3>1, q \in Keyed, OthersHold(r),
            answer[r] = r => answer'[r] = r DEF OthersHold
    <2>2. CASE entry' = Dedupe!Completed(r) /\ answer'[r] = r
      <3>1. q = r
        BY ONLY Zenon, <1>1, <2>2, r \in Keyed, Forms
      <3> QED BY ONLY Zenon, <2>2, <3>1
    <2> QED BY Zenon, <1>1, <2>1, <2>2, Forms DEF Recorded
  <1>2. ASSUME NEW q \in Keyed, answer[q] = q PROVE answer'[q] = q
    BY Zenon, <1>2 DEF OthersHold
  <1>3. ASSUME NEW q \in Keyed, answer'[q] \in Keyed
        PROVE  Fingerprint[answer'[q]] = Fingerprint[q] /\ answer'[answer'[q]] = answer'[q]
    <2>1. CASE q # r \/ answer'[q] = answer[q]
      <3>1. answer'[q] = answer[q]
        BY Zenon, <2>1 DEF OthersHold
      <3> QED BY Zenon, <1>2, <1>3, <3>1 DEF KeysInv, OwnAnswer
    <2>2. CASE q = r /\ answer'[r] = r
      BY Zenon, <2>2
    <2>3. CASE q = r /\ entry = Dedupe!Completed(answer'[r])
          /\ Fingerprint[answer'[r]] = Fingerprint[r]
      BY Zenon, <1>2, <1>3, <2>3 DEF KeysInv, OwnAnswer
    <2> QED BY Zenon, <1>3, <2>1, <2>2, <2>3
  <1>4. \A q \in Keyed : OwnAnswer(q)'
    <2> SUFFICES ASSUME NEW q \in Keyed PROVE OwnAnswer(q)'
      BY Zenon
    <2>1. CASE q = r
      BY Zenon, <1>1, <1>3, <2>1 DEF OwnAnswer
    <2>2. CASE q # r
      <3>1. OwnAnswer(q) /\ q \in Keyed \ {r}
        BY Zenon, <2>2 DEF KeysInv
      <3>2. pc'[q] = pc[q] /\ open'[q] = open[q] /\ worked'[q] = worked[q] /\ answer'[q] = answer[q]
        BY Zenon, <3>1 DEF OthersHold
      <3>3. /\ pc'[q] = "completing" => answer'[q] = q
            /\ answer'[q] = q => ~open'[q] /\ pc'[q] \in {"completing", "releasing", "done"}
        BY Zenon, <3>1, <3>2 DEF OwnAnswer
      <3>4. Unserved(q)'
        BY Zenon, <3>1, <3>2 DEF OwnAnswer, Unserved
      <3> QED BY Zenon, <1>1, <1>3, <3>3, <3>4 DEF OwnAnswer
    <2> QED BY Zenon, <2>1, <2>2
  <1>5. Readable'
    BY Zenon, Forms DEF Readable, Recorded, OthersHold, KeysInv
  <1>6. Accounted'
    <2> SUFFICES ASSUME may \subseteq {"hangUps"}
                 PROVE  /\ \A q \in Keyed : Pending(q)' => entry' = Dedupe!InFlight(q)
                        /\ IsFiniteSet(Unvouched') /\ Cardinality(Unvouched') <= excuses'
      BY Zenon DEF Accounted
    <2>1. pc[r] # "claim"
      BY Zenon DEF KeysInv, Readable
    <2>2. \A q \in Keyed : Pending(q) => entry = Dedupe!InFlight(q)
      BY Zenon DEF KeysInv, Accounted
    <2>3. ASSUME NEW q \in Keyed, q # r, entry \in {Dedupe!InFlight(q), Dedupe!Completed(q)}
          PROVE  entry' = entry
      <3>1. entry \in Records
        BY Zenon DEF KeysInv, KeysType
      <3>2. ~Dedupe!Leased(r)
        <4>1. entry.lease = q
          BY Zenon, <2>3, Forms
        <4> QED BY Zenon, <2>3, <4>1 DEF Dedupe!Leased
      <3>3. entry # Dedupe!Missing
        BY Zenon, <2>3, Forms
      <3> QED BY Zenon, <2>1, <3>2, <3>3 DEF Recorded
    <2>4. ASSUME NEW q \in Keyed, Pending(q)' PROVE entry' = Dedupe!InFlight(q)
      <3>1. CASE q = r
        BY Zenon, <2>4, <3>1 DEF Told
      <3>2. CASE q # r
        <4>1. Pending(q)
          BY Zenon, <2>4, <3>2 DEF Pending, OthersHold
        <4> QED BY Zenon, <2>2, <2>3, <3>2, <4>1
      <3> QED BY Zenon, <3>1, <3>2
    <2>5. ASSUME NEW q \in Unvouched', q # r PROVE q \in Unvouched
      <3>1. q \in Keyed /\ worked[q] /\ q \notin Vouched'
        BY Zenon, <2>5 DEF Unvouched, OthersHold
      <3>2. q \notin Vouched
        <4> SUFFICES ASSUME q \in Vouched PROVE FALSE
          BY Zenon
        <4>1. Pending(q) => Pending(q)'
          BY Zenon, <2>5, <3>1 DEF Pending, OthersHold
        <4>2. entry \in {Dedupe!InFlight(q), Dedupe!Completed(q)}
          BY Zenon, <2>2, <3>1 DEF Vouched
        <4>3. entry' = entry
          BY Zenon, <2>3, <2>5, <3>1, <4>2
        <4> QED BY Zenon, <2>5, <3>1, <4>1, <4>3 DEF Vouched, OthersHold
      <3> QED BY Zenon, <3>1, <3>2 DEF Unvouched
    <2>6. Unvouched' \subseteq Unvouched \cup {r}
      BY Zenon, <2>5
    <2>7. excuses \in Nat /\ excuses' \in Nat
      BY Zenon DEF KeysInv, KeysType
    <2>8. (Unvouched' \subseteq Unvouched /\ excuses <= excuses') \/ excuses + 1 <= excuses'
      BY <2>5, <2>7 DEF Told
    <2>9. IsFiniteSet(Unvouched) /\ Cardinality(Unvouched) <= excuses
      BY Zenon DEF KeysInv, Accounted
    <2>10. PICK A, B, j, k : A = Unvouched /\ B = Unvouched' /\ j = excuses /\ k = excuses'
      BY Zenon
    <2>11. IsFiniteSet(B) /\ Cardinality(B) <= k
      BY Zenon, <2>6, <2>7, <2>8, <2>9, <2>10, CountStep
    <2> QED BY Zenon, <2>4, <2>10, <2>11
  <1> QED BY Zenon, <1>4, <1>5, <1>6 DEF KeysInv

\* Every outcome of reserve() keeps the invariant.
LEMMA Reserves ==
    ASSUME SetFacts, KeysAssumption, KeysInv, NEW r \in Keyed,
           \/ Dedupe!setNX(r) \/ Dedupe!readEntry(r) \/ Dedupe!claimOutright(r)
           \/ Dedupe!reserveGivesUp(r) \/ Dedupe!storeUnavailable(r)
    PROVE  KeysInv'
  <1>0. /\ OwnAnswer(r) /\ entry \in Records /\ excuses \in Nat /\ DOMAIN pc = Keyed
        /\ DOMAIN answer = Keyed /\ "409" \notin Keyed /\ "422" \notin Keyed /\ "503" \notin Keyed
    BY Zenon DEF KeysInv, KeysType, KeysAssumption
  <1>1. /\ UNCHANGED <<may, open, worked, excuses>>
        /\ pc[r] \in {"new", "retry", "read", "claim"} /\ answer[r] # r
    <2>1. UNCHANGED <<may, open, worked, excuses>> /\ pc[r] \in {"new", "retry", "read", "claim"}
      BY Zenon DEF Dedupe!setNX, Dedupe!readEntry, Dedupe!claimOutright, Dedupe!reserveGivesUp,
             Dedupe!storeUnavailable
    <2> QED BY Zenon, <1>0, <2>1 DEF OwnAnswer
  <1>2. PICK to \in {"running", "read", "retry", "claim", "done"} :
          /\ pc' = [pc EXCEPT ![r] = to]
          /\ to = "running" => entry' = Dedupe!InFlight(r)
          /\ to = "claim" => entry = Dedupe!Garbage
    BY Zenon DEF Dedupe!setNX, Dedupe!readEntry, Dedupe!claimOutright, Dedupe!reserveGivesUp,
           Dedupe!storeUnavailable, Dedupe!Goes, Dedupe!Answered
  <1>3. /\ DOMAIN answer' = Keyed /\ \A q \in Keyed \ {r} : answer'[q] = answer[q]
        /\ \/ answer'[r] \in {answer[r], "409", "422", "503"}
           \/ entry = Dedupe!Completed(answer'[r]) /\ Fingerprint[answer'[r]] = Fingerprint[r]
    <2>1. \/ UNCHANGED answer
          \/ \E a \in {"409", "422", "503"} : Dedupe!Answered(r, a)
          \/ /\ Dedupe!IsRecord(entry) /\ Fingerprint[entry.lease] = Fingerprint[r]
             /\ entry.state # "in-flight" /\ Dedupe!Answered(r, entry.lease)
      BY Zenon DEF Dedupe!setNX, Dedupe!readEntry, Dedupe!claimOutright, Dedupe!reserveGivesUp,
               Dedupe!storeUnavailable
    <2>2. CASE UNCHANGED answer
      BY Zenon, <1>0, <2>2
    <2>3. ASSUME NEW a, Dedupe!Answered(r, a)
          PROVE  /\ DOMAIN answer' = Keyed /\ \A q \in Keyed \ {r} : answer'[q] = answer[q]
                 /\ answer'[r] = a
      BY Zenon, <1>0, <2>3 DEF Dedupe!Answered
    <2>4. CASE /\ Dedupe!IsRecord(entry) /\ Fingerprint[entry.lease] = Fingerprint[r]
               /\ entry.state # "in-flight" /\ Dedupe!Answered(r, entry.lease)
      <3>1. entry = Dedupe!Completed(entry.lease)
        BY Zenon, <1>0, <2>4, Forms, RecordOf
      <3> QED BY Zenon, <2>3, <2>4, <3>1
    <2> QED BY Zenon, <2>1, <2>2, <2>3, <2>4
  <1>4. Recorded(r)
    BY Zenon DEF Dedupe!setNX, Dedupe!readEntry, Dedupe!claimOutright, Dedupe!reserveGivesUp,
           Dedupe!storeUnavailable, Recorded
  <1>5. pc'[r] = to /\ OthersHold(r) /\ DOMAIN pc' = Keyed
    BY Zenon, <1>0, <1>1, <1>2, <1>3 DEF OthersHold
  <1>6. entry' \in Records
    BY Zenon, <1>0, <1>4 DEF Recorded, Records
  <1>7. KeysType'
    BY Zenon, <1>1, <1>3, <1>5, <1>6 DEF KeysInv, KeysType
  <1>8. answer'[r] # r
    <2>1. entry # Dedupe!Completed(r)
      BY Zenon, <1>0, <1>1 DEF OwnAnswer
    <2> QED BY Zenon, <1>0, <1>1, <1>3, <2>1
  <1>9. answer'[r] \in Keyed =>
           \/ answer'[r] = answer[r]
           \/ entry = Dedupe!Completed(answer'[r]) /\ Fingerprint[answer'[r]] = Fingerprint[r]
    BY Zenon, <1>0, <1>3
  <1>10. Pending(r)' => entry' = Dedupe!InFlight(r)
    BY Zenon, <1>2, <1>5 DEF Pending
  <1>11. excuses' = excuses /\ (r \in Unvouched' => r \in Unvouched)
    <2>1. ~Pending(r) /\ pc[r] # "done"
      BY Zenon, <1>1 DEF Pending
    <2> QED BY Zenon, <1>1, <2>1 DEF Unvouched, Vouched
  <1>14. Told(r)
    BY Zenon, <1>10, <1>11 DEF Told
  <1>12. pc'[r] # "completing" /\ (pc'[r] = "claim" => entry = Dedupe!Garbage)
    BY Zenon, <1>2, <1>5
  <1>13. may' = may /\ worked'[r] = worked[r] /\ answer[r] # r
    BY Zenon, <1>1
  <1>15. Unserved(r)'
    <2>1. ~worked'[r] /\ answer[r] \in {"none", "5xx", "hungUp", r}
      BY Zenon, <1>0, <1>1 DEF OwnAnswer, Unserved
    <2>2. answer' = answer \/ Dedupe!Goes(r, "done")
      BY Zenon DEF Dedupe!setNX, Dedupe!readEntry, Dedupe!claimOutright, Dedupe!reserveGivesUp,
             Dedupe!storeUnavailable, Dedupe!Answered
    <2>3. Dedupe!Goes(r, "done") => pc'[r] = "done"
      BY Zenon, <1>0 DEF Dedupe!Goes
    <2> QED BY Zenon, <2>1, <2>2, <2>3 DEF Unserved
  <1> QED BY Zenon, <1>15, <1>4, <1>5, <1>7, <1>8, <1>9, <1>12, <1>13, <1>14, OneRequest

\* The steps of a handler's response, by what they leave.
LEMMA Responds ==
    ASSUME SetFacts, KeysAssumption, KeysInv, NEW r \in Keyed, may' = may, KeysType',
           pc[r] \in {"running", "completing", "releasing"},
           pc'[r] \in {"running", "completing", "releasing", "done"},
           OthersHold(r), Recorded(r), worked[r] => worked'[r],
           pc'[r] = "completing" => answer'[r] = r,
           answer'[r] # r => answer'[r] \in {answer[r], "5xx", "hungUp"},
           answer[r] = r => answer'[r] = r,
           answer'[r] = r => ~open'[r] /\ pc'[r] # "running",
           may \subseteq {"hangUps"} => Told(r)
    PROVE  KeysInv'
  <1>1. answer'[r] \in Keyed /\ answer'[r] # r => answer'[r] = answer[r]
    BY Zenon DEF KeysAssumption
  <1>2. answer'[r] = r => ~open'[r] /\ pc'[r] \in {"completing", "releasing", "done"}
    BY Zenon
  <1>3. pc'[r] # "claim"
    BY Zenon
  <1>4. Unserved(r)'
    <2>1. answer[r] \in {"none", "5xx", "hungUp", r}
      BY Zenon DEF KeysInv, OwnAnswer, Unserved
    <2> QED BY Zenon, <2>1 DEF Unserved
  <1> QED BY Zenon, <1>1, <1>2, <1>3, <1>4, OneRequest

\* The handler's effect keeps it.
LEMMA Works ==
    ASSUME SetFacts, KeysAssumption, KeysInv, NEW r \in Keyed, Dedupe!work(r)
    PROVE  KeysInv'
  <1>0. OwnAnswer(r) /\ KeysType
    BY Zenon DEF KeysInv
  <1>1. /\ pc[r] = "running" /\ ~worked[r] /\ UNCHANGED <<may, entry, pc, open, answer>>
        /\ worked' = [worked EXCEPT ![r] = TRUE] /\ excuses' = excuses + (IF open[r] THEN 0 ELSE 1)
    BY Zenon DEF Dedupe!work
  <1>2. KeysType' /\ worked'[r] = TRUE /\ OthersHold(r) /\ Recorded(r)
    BY <1>0, <1>1 DEF KeysType, OthersHold, Recorded
  <1>3. answer[r] # r
    BY Zenon, <1>0, <1>1 DEF OwnAnswer
  <1>4. may \subseteq {"hangUps"} => Told(r)
    <2> SUFFICES ASSUME may \subseteq {"hangUps"} PROVE Told(r)
      BY Zenon
    <2>1. Pending(r)' => Pending(r)
      BY Zenon, <1>1 DEF Pending
    <2>2. Pending(r) => entry' = Dedupe!InFlight(r)
      BY Zenon, <1>1 DEF KeysInv, Accounted
    <2>3. CASE open[r]
      <3>1. excuses' = excuses
        BY <1>0, <1>1, <2>3 DEF KeysType
      <3>2. Pending(r)'
        BY Zenon, <1>1, <2>3 DEF Pending
      <3>3. r \in Vouched'
        BY Zenon, <3>2 DEF Vouched
      <3> QED BY Zenon, <2>1, <2>2, <3>1, <3>3 DEF Told, Unvouched
    <2>4. CASE ~open[r]
      <3>1. excuses' >= excuses + 1
        BY <1>0, <1>1, <2>4 DEF KeysType
      <3> QED BY Zenon, <2>1, <2>2, <3>1 DEF Told
    <2> QED BY Zenon, <2>3, <2>4
  <1> QED BY Zenon, <1>1, <1>2, <1>3, <1>4, Responds

\* A response that can be replayed keeps it.
LEMMA Finishes ==
    ASSUME SetFacts, KeysAssumption, KeysInv, NEW r \in Keyed, Dedupe!finish(r)
    PROVE  KeysInv'
  <1>0. OwnAnswer(r) /\ KeysType
    BY Zenon DEF KeysInv
  <1>1. /\ pc[r] = "running" /\ open[r] /\ UNCHANGED <<may, entry, worked, excuses>>
        /\ open' = [open EXCEPT ![r] = FALSE] /\ pc' = [pc EXCEPT ![r] = "completing"]
        /\ answer' = [answer EXCEPT ![r] = r]
    BY Zenon DEF Dedupe!finish, Dedupe!Goes
  <1>2. /\ KeysType' /\ OthersHold(r) /\ Recorded(r)
        /\ open'[r] = FALSE /\ pc'[r] = "completing" /\ answer'[r] = r
    BY Zenon, <1>0, <1>1 DEF KeysType, OthersHold, Recorded
  <1>3. may \subseteq {"hangUps"} => Told(r)
    <2>1. Pending(r) /\ Pending(r)'
      BY Zenon, <1>1, <1>2 DEF Pending
    <2>2. may \subseteq {"hangUps"} => entry' = Dedupe!InFlight(r)
      BY Zenon, <1>1, <2>1 DEF KeysInv, Accounted
    <2> QED BY Zenon, <1>1, <2>1, <2>2 DEF Told, Unvouched, Vouched
  <1> QED BY Zenon, <1>1, <1>2, <1>3, Responds

\* A response that cannot be replayed, or a client that hangs up, keeps it.
LEMMA GivesUp ==
    ASSUME SetFacts, KeysAssumption, KeysInv, NEW r \in Keyed, Dedupe!finishUnreplayable(r) \/ Dedupe!close(r)
    PROVE  KeysInv'
  <1>0. OwnAnswer(r) /\ KeysType
    BY Zenon DEF KeysInv
  <1>1. /\ pc[r] = "running" /\ open[r] /\ UNCHANGED <<may, worked>>
        /\ open' = [open EXCEPT ![r] = FALSE]
        /\ (worked[r] /\ excuses' = excuses + 1) \/ (~worked[r] /\ excuses' = excuses + 0)
    BY Zenon DEF Dedupe!finishUnreplayable, Dedupe!close, Dedupe!Excuse
  <1>2. PICK to \in {"running", "releasing"}, a \in {"5xx", "hungUp"} :
            /\ DOMAIN pc' = Keyed /\ pc'[r] = to /\ \A q \in Keyed \ {r} : pc'[q] = pc[q]
            /\ answer' = [answer EXCEPT ![r] = a]
    <2>1. CASE Dedupe!finishUnreplayable(r)
      <3>1. pc' = [pc EXCEPT ![r] = "releasing"] /\ answer' = [answer EXCEPT ![r] = "5xx"]
        BY Zenon, <2>1 DEF Dedupe!finishUnreplayable, Dedupe!Goes
      <3> QED BY Zenon, <1>0, <3>1 DEF KeysType
    <2>2. CASE Dedupe!close(r)
      <3>1. pc' = pc /\ answer' = [answer EXCEPT ![r] = "hungUp"]
        BY Zenon, <2>2 DEF Dedupe!close
      <3> QED BY Zenon, <1>0, <1>1, <3>1 DEF KeysType
    <2> QED BY Zenon, <2>1, <2>2
  <1>3. Recorded(r)
    BY Zenon DEF Recorded, Dedupe!finishUnreplayable, Dedupe!close, Dedupe!RELEASE_IF_LEASED
  <1>4. entry' \in Records
    BY Zenon, <1>0, <1>3 DEF Recorded, Records, KeysType
  <1>9. excuses \in Nat
    BY Zenon, <1>0 DEF KeysType
  <1>10. excuses' = excuses + 1 \/ excuses' = excuses + 0
    BY Zenon, <1>1
  <1>5. excuses' \in Nat
    BY ONLY <1>9, <1>10
  <1>6. KeysType' /\ OthersHold(r) /\ open'[r] = FALSE /\ answer'[r] = a
    BY Zenon, <1>0, <1>1, <1>2, <1>4, <1>5 DEF KeysType, OthersHold
  <1>7. a # r /\ answer[r] # r
    BY Zenon, <1>0, <1>1 DEF KeysAssumption, OwnAnswer
  <1>8. Told(r)
    <2>1. ~Pending(r)'
      BY Zenon, <1>2, <1>6 DEF Pending
    <2>2. CASE worked[r]
      <3>2. excuses' = excuses + 1
        BY Zenon, <1>1, <2>2
      <3>1. excuses' >= excuses + 1
        BY ONLY <1>9, <3>2
      <3> QED BY Zenon, <2>1, <3>1 DEF Told
    <2>3. CASE ~worked[r]
      <3>3. excuses' = excuses + 0
        BY Zenon, <1>1, <2>3
      <3>1. excuses' = excuses
        BY ONLY <1>9, <3>3
      <3>2. r \notin Unvouched'
        BY Zenon, <1>1, <2>3 DEF Unvouched
      <3> QED BY Zenon, <2>1, <3>1, <3>2 DEF Told
    <2> QED BY Zenon, <2>2, <2>3
  <1> QED BY Zenon, <1>1, <1>2, <1>3, <1>6, <1>7, <1>8, Responds

\* Completing or releasing the record, or dying before, keeps it.
LEMMA Persists ==
    ASSUME SetFacts, KeysAssumption, KeysInv, NEW r \in Keyed,
           \/ Dedupe!EndsUnseen(r) \/ Dedupe!persist(r) \/ Dedupe!release(r) \/ Dedupe!Crash(r)
    PROVE  KeysInv'
  <1>0. OwnAnswer(r) /\ KeysType
    BY Zenon DEF KeysInv
  <1>1. /\ pc[r] \in {"running", "completing", "releasing"} /\ UNCHANGED <<may, open, worked, answer>>
    BY Zenon DEF Dedupe!EndsUnseen, Dedupe!persist, Dedupe!release, Dedupe!Crash
  <1>2. PICK to \in {"releasing", "done"} : pc' = [pc EXCEPT ![r] = to]
    BY Zenon DEF Dedupe!EndsUnseen, Dedupe!persist, Dedupe!release, Dedupe!Crash, Dedupe!Goes
  <1>3. pc'[r] = to /\ DOMAIN pc' = Keyed /\ OthersHold(r)
    BY Zenon, <1>0, <1>1, <1>2 DEF KeysType, OthersHold
  <1>4. Recorded(r)
    BY Zenon, <1>0, <1>1 DEF Recorded, Dedupe!EndsUnseen, Dedupe!persist, Dedupe!release,
          Dedupe!Crash,
           Dedupe!RELEASE_IF_LEASED, Dedupe!COMPLETE_IF_LEASED, OwnAnswer
  <1>5. entry' \in Records
    BY Zenon, <1>0, <1>4 DEF Recorded, Records, KeysType
  <1>6. ~Pending(r)'
    BY Zenon, <1>2, <1>3 DEF Pending
  <1>7. excuses \in Nat /\ (worked[r] \/ ~worked[r])
    BY Zenon, <1>0 DEF KeysType
  <1>8. excuses' \in Nat /\ (excuses' = excuses \/ excuses' >= excuses + 1)
    <2>1. CASE Dedupe!EndsUnseen(r) \/ Dedupe!release(r)
      BY Zenon, <1>7, <2>1 DEF Dedupe!EndsUnseen, Dedupe!release
    <2>2. CASE Dedupe!persist(r) \/ Dedupe!Crash(r)
      <3>1. \E i \in {0, 1} : excuses' = excuses + i
        BY Zenon, <2>2 DEF Dedupe!persist, Dedupe!Crash, Dedupe!Excuse
      <3> QED BY ONLY <1>7, <3>1
    <2> QED BY Zenon, <2>1, <2>2
  <1>9. KeysType'
    BY Zenon, <1>0, <1>1, <1>3, <1>5, <1>8 DEF KeysType
  <1>10. ASSUME may \subseteq {"hangUps"} PROVE Told(r)
    <2>1. Pending(r) => entry = Dedupe!InFlight(r) /\ Dedupe!Leased(r)
      BY Zenon, <1>0, <1>10, LeasedBy DEF KeysInv, Accounted, KeysType
    <2>2. CASE ~Pending(r)
      <3>1. pc[r] # "done"
        BY Zenon, <1>1
      <3>2. r \in Unvouched' => r \in Unvouched
        BY Zenon, <1>1, <2>2, <3>1 DEF Unvouched, Vouched
      <3> QED BY Zenon, <1>6, <1>8, <3>2 DEF Told
    <2>3. CASE ~worked[r]
      <3>1. r \notin Unvouched'
        BY Zenon, <1>1, <2>3 DEF Unvouched
      <3> QED BY Zenon, <1>6, <1>8, <3>1 DEF Told
    <2>6. CASE Pending(r) /\ worked[r] /\ Dedupe!persist(r)
      <3>1. pc[r] = "completing"
        BY Zenon, <2>6 DEF Dedupe!persist
      <3>2. CASE entry' = Dedupe!Completed(r) /\ pc' = [pc EXCEPT ![r] = "done"]
                 /\ excuses' = excuses + 0
        <4>1. r \in Vouched'
          BY Zenon, <1>0, <3>2 DEF Vouched, KeysType
        <4>2. excuses' = excuses
          BY ONLY <1>7, <3>2
        <4> QED BY Zenon, <1>6, <4>1, <4>2 DEF Told, Unvouched
      <3>3. CASE excuses' = excuses + 1
        <4>1. excuses' >= excuses + 1
          BY ONLY <1>7, <3>3
        <4> QED BY Zenon, <1>6, <4>1 DEF Told
      <3> QED BY Zenon, <2>1, <2>6, <3>1, <3>2, <3>3 DEF Dedupe!persist, Dedupe!Goes, Dedupe!Excuse,
                 Dedupe!COMPLETE_IF_LEASED
    <2>4. CASE Pending(r) /\ worked[r] /\ Dedupe!Crash(r)
      <3>1. excuses' = excuses + 1
        BY Zenon, <2>4 DEF Dedupe!Crash, Pending
      <3>2. excuses' >= excuses + 1
        BY ONLY <1>7, <3>1
      <3> QED BY Zenon, <1>6, <3>2 DEF Told
    <2>5. CASE Pending(r) /\ (Dedupe!EndsUnseen(r) \/ Dedupe!release(r))
      BY Zenon, <2>5 DEF Pending, Dedupe!EndsUnseen, Dedupe!release
    <2> QED BY Zenon, <2>2, <2>3, <2>4, <2>5, <2>6
  <1>11. answer[r] = r => ~open'[r] /\ pc'[r] # "running"
    BY Zenon, <1>0, <1>1, <1>2, <1>3 DEF OwnAnswer
  <1>12. pc'[r] # "completing"
    BY Zenon, <1>2, <1>3
  <1> QED BY Zenon, <1>1, <1>2, <1>3, <1>4, <1>9, <1>10, <1>11, <1>12, Responds

\* A record that expires keeps it.
LEMMA Expires == ASSUME SetFacts, KeysAssumption, KeysInv, Dedupe!Expire PROVE KeysInv'
  <1>0. KeysType
    BY Zenon DEF KeysInv
  <1>1. /\ Dedupe!IsRecord(entry) /\ entry' = Dedupe!Missing
        /\ UNCHANGED <<may, pc, open, worked, answer>>
        /\ "slowHandlers" \in may \/ pc[entry.lease] = "done"
        /\ excuses' = excuses + (IF entry.state = "completed" /\ worked[entry.lease] THEN 1 ELSE 0)
    BY Zenon DEF Dedupe!Expire
  <1>2. PICK r \in Keyed : r = entry.lease /\ entry \in {Dedupe!InFlight(r), Dedupe!Completed(r)}
    BY Zenon, <1>0, <1>1, RecordOf DEF KeysType
  <1>3. excuses \in Nat /\ (excuses' = excuses \/ excuses' = excuses + 1)
        /\ (entry = Dedupe!Completed(r) /\ worked[r] => excuses' = excuses + 1)
    <2>1. excuses \in Nat /\ (entry = Dedupe!Completed(r) => entry.state = "completed")
      BY Zenon, <1>0, Forms DEF KeysType
    <2> QED BY <1>1, <1>2, <2>1
  <1>4. entry' \in Records
    BY Zenon, <1>1 DEF Records
  <1>5. KeysType'
    BY <1>0, <1>1, <1>3, <1>4 DEF KeysType
  <1>6. ASSUME NEW q \in Keyed PROVE OwnAnswer(q)'
    BY Zenon, <1>1, Forms DEF KeysInv, OwnAnswer, Unserved
  <1>7. Readable'
    BY Zenon, <1>1, Forms DEF KeysInv, Readable
  <1>8. ASSUME may \subseteq {"hangUps"}
        PROVE  /\ \A q \in Keyed : Pending(q)' => entry' = Dedupe!InFlight(q)
               /\ IsFiniteSet(Unvouched') /\ Cardinality(Unvouched') <= excuses'
    <2>1. pc[r] = "done"
      BY Zenon, <1>1, <1>2, <1>8
    <2>2. \A q \in Keyed : Pending(q) => entry = Dedupe!InFlight(q)
      BY Zenon, <1>8 DEF KeysInv, Accounted
    <2>3. ASSUME NEW q \in Keyed, Pending(q) PROVE FALSE
      <3>1. entry.lease = q
        BY Zenon, <2>2, <2>3, Forms
      <3> QED BY Zenon, <1>2, <2>1, <2>3, <3>1 DEF Pending
    <2>4. \A q \in Keyed : ~Pending(q)'
      BY Zenon, <1>1, <2>3 DEF Pending
    <2>5. ASSUME NEW q \in Vouched PROVE q = r /\ entry = Dedupe!Completed(r)
      <3>1. entry = Dedupe!Completed(q)
        BY Zenon, <2>3 DEF Vouched
      <3>2. q = r
        BY Zenon, <1>2, <3>1, Forms
      <3> QED BY Zenon, <3>1, <3>2
    <2>6. Unvouched' \subseteq Unvouched \cup {r}
      BY Zenon, <1>1, <2>5 DEF Unvouched
    <2>7. ~(entry = Dedupe!Completed(r) /\ worked[r]) => Unvouched' \subseteq Unvouched
      BY Zenon, <1>1, <2>5 DEF Unvouched
    <2>8. excuses' \in Nat /\ ((Unvouched' \subseteq Unvouched /\ excuses <= excuses') \/ excuses + 1 <= excuses')
      BY <1>3, <2>7
    <2>9. IsFiniteSet(Unvouched) /\ Cardinality(Unvouched) <= excuses
      BY Zenon, <1>8 DEF KeysInv, Accounted
    <2>10. PICK A, B, j, k : A = Unvouched /\ B = Unvouched' /\ j = excuses /\ k = excuses'
      BY Zenon
    <2>11. IsFiniteSet(B) /\ Cardinality(B) <= k
      BY Zenon, <1>3, <2>6, <2>8, <2>9, <2>10, CountStep
    <2> QED BY Zenon, <2>4, <2>10, <2>11
  <1>9. Accounted'
    BY Zenon, <1>1, <1>8 DEF Accounted
  <1> QED BY Zenon, <1>5, <1>6, <1>7, <1>9 DEF KeysInv

\* Every step of the requests keeps the invariant.
LEMMA KeysStep ==
    ASSUME SetFacts, KeysAssumption, KeysInv, [Dedupe!Next]_(Dedupe!vars)
    PROVE  KeysInv'
  <1>1. CASE UNCHANGED Dedupe!vars
    <2>1. UNCHANGED <<may, entry, pc, open, worked, answer, excuses>>
      BY Zenon, <1>1 DEF Dedupe!vars
    <2>2. Unvouched' = Unvouched /\ \A r \in Keyed : Pending(r)' = Pending(r)
          /\ OwnAnswer(r)' = OwnAnswer(r)
      BY Zenon, <2>1 DEF Unvouched, Vouched, Pending, OwnAnswer, Unserved
    <2>3. KeysType' /\ Readable'
      BY Zenon, <2>1 DEF KeysInv, KeysType, Readable
    <2>4. Accounted'
      BY Zenon, <2>1, <2>2 DEF KeysInv, Accounted
    <2> QED BY Zenon, <2>2, <2>3, <2>4 DEF KeysInv
  <1> QED BY Zenon, <1>1, Expires, Reserves, Works, Finishes, GivesUp, Persists DEF Dedupe!Next

\* The invariant says that a handler runs once per record, and what replays are.
LEMMA KeysSafe == ASSUME SetFacts, KeysInv PROVE Dedupe!OncePerRecord /\ Dedupe!ReplayIsOriginal
  <1>1. Dedupe!ReplayIsOriginal
    BY Zenon DEF KeysInv, OwnAnswer, Unserved, Dedupe!ReplayIsOriginal
  <1>2. ASSUME may \subseteq {"hangUps"}
        PROVE  Dedupe!Cardinality({r \in Keyed : worked[r]}) <= 1 + excuses
    <2>1. IsFiniteSet(Unvouched) /\ Cardinality(Unvouched) <= excuses /\ excuses \in Nat
      BY Zenon, <1>2 DEF KeysInv, KeysType, Accounted
    <2>2. PICK x : {r \in Keyed : worked[r]} \subseteq Unvouched \cup {x}
      <3>1. CASE Vouched = {}
        BY Zenon, <3>1 DEF Unvouched
      <3>2. ASSUME NEW x \in Vouched PROVE {r \in Keyed : worked[r]} \subseteq Unvouched \cup {x}
        BY Zenon, <1>2, <3>2, OneVouched DEF Unvouched
      <3> QED BY Zenon, <3>1, <3>2
    <2>3. PICK A, B, j, k : /\ A = Unvouched /\ B = {r \in Keyed : worked[r]}
                            /\ j = excuses /\ k = 1 + excuses
      BY Zenon
    <2>4. k \in Nat /\ j + 1 <= k
      BY ONLY <2>1, <2>3
    <2>5. Cardinality(B) <= k
      BY Zenon, <2>1, <2>2, <2>3, <2>4, CountStep
    <2>6. \A S : Dedupe!Cardinality(S) = Cardinality(S)
      BY Zenon DEF Dedupe!Cardinality, Cardinality
    <2> QED BY Zenon, <2>3, <2>5, <2>6
  <1> QED BY Zenon, <1>1, <1>2 DEF Dedupe!OncePerRecord

\* No step of a request touches a record another one leased.
LEMMA KeysTouch == ASSUME KeysInv, [Dedupe!Next]_(Dedupe!vars) PROVE Dedupe!TouchesOwn
  <1> SUFFICES ASSUME NEW r \in Keyed, "unreadable" \notin may, pc'[r] # pc[r],
                      Dedupe!IsRecord(entry), entry.lease # r
               PROVE  entry' = entry
    BY Zenon DEF Dedupe!TouchesOwn
  <1>1. ~Dedupe!Leased(r) /\ entry # Dedupe!Missing /\ pc[r] # "claim"
    BY Zenon, Forms DEF Dedupe!Leased, KeysInv, Readable
  <1>2. DOMAIN pc = Keyed
    BY Zenon DEF KeysInv, KeysType
  <1>3. ~UNCHANGED pc
    BY Zenon
  <1>4. PICK q \in Keyed :
          \/ Dedupe!setNX(q) \/ Dedupe!readEntry(q) \/ Dedupe!claimOutright(q) \/ Dedupe!reserveGivesUp(q)
          \/ Dedupe!storeUnavailable(q) \/ Dedupe!finish(q) \/ Dedupe!finishUnreplayable(q)
          \/ Dedupe!EndsUnseen(q) \/ Dedupe!persist(q) \/ Dedupe!release(q) \/ Dedupe!Crash(q)
    BY Zenon, <1>3 DEF Dedupe!Next, Dedupe!vars, Dedupe!Expire, Dedupe!work, Dedupe!close
  <1>5. \E to : pc' = [pc EXCEPT ![q] = to]
    BY Zenon, <1>4 DEF Dedupe!setNX, Dedupe!readEntry, Dedupe!claimOutright, Dedupe!reserveGivesUp,
       Dedupe!storeUnavailable, Dedupe!finish, Dedupe!finishUnreplayable, Dedupe!EndsUnseen,
       Dedupe!persist, Dedupe!release, Dedupe!Crash, Dedupe!Goes, Dedupe!Answered
  <1>6. q = r
    BY Zenon, <1>2, <1>5
  <1> QED BY Zenon, <1>1, <1>4, <1>6 DEF Dedupe!setNX, Dedupe!readEntry, Dedupe!claimOutright,
       Dedupe!reserveGivesUp, Dedupe!storeUnavailable, Dedupe!finish, Dedupe!finishUnreplayable,
       Dedupe!EndsUnseen, Dedupe!persist, Dedupe!release, Dedupe!Crash,
       Dedupe!RELEASE_IF_LEASED, Dedupe!COMPLETE_IF_LEASED
=============================================================================
