--------------------------- MODULE ServiceProofs ----------------------------
(***************************************************************************)
(* What the suite MCServices checks of all its components but one, for     *)
(* every value of its constants: the lemmas of RecordProofs, LeaseProofs   *)
(* and CallProofs about the steps of each, lifted to the behaviours that   *)
(* start as one of them.  The facts about finite sets and naturals those   *)
(* lemmas suppose are established at the end, where the library's theorems *)
(* come in.                                                                *)
(***************************************************************************)
EXTENDS MCServices, TLAPS

\* What the lemmas suppose of the constants.
LEMMA Assumptions ==
    /\ Records!AuditAssumption /\ Leases!SessionAssumption /\ Leases!KeysAssumption
    /\ Calls!OrdersAssumption /\ Calls!HttpAssumption /\ Calls!GatewayAssumption
  <1>1. /\ Records!AuditAssumption /\ Leases!SessionAssumption /\ Leases!KeysAssumption
    BY Zenon, ServicesAssumption
       DEF Records!AuditAssumption, Leases!SessionAssumption, Leases!KeysAssumption
  <1>2. Calls!OrdersAssumption
    BY ServicesAssumption DEF Calls!OrdersAssumption
  <1>3. Calls!HttpAssumption
    BY Zenon, ServicesAssumption DEF Calls!HttpAssumption
  <1>4. Calls!GatewayAssumption
    <2>1. Calls!IsFiniteSet(User)
      BY Zenon, ServicesAssumption DEF Calls!IsFiniteSet, IsFiniteSet
    <2> QED BY Zenon, <2>1, ServicesAssumption DEF Calls!GatewayAssumption
  <1> QED BY Zenon, <1>1, <1>2, <1>3, <1>4

\* A step of MCServices is one of the component chosen at the start.
LEMMA Lifts ==
    ASSUME [Next]_vars
    PROVE  /\ which' = which
           /\ which = "users" => [Records!Profiles!Next]_(Records!Profiles!vars)
           /\ which = "audit" => [Records!Log!Next]_(Records!Log!vars)
           /\ which = "tokens" => [Records!Next]_(Records!vars)
           /\ which = "session" => [Leases!Locks!Next]_(Leases!Locks!vars)
           /\ which = "keys" => [Leases!Dedupe!Next]_(Leases!Dedupe!vars)
           /\ which = "checkout" => [Calls!Next]_(Calls!vars)
           /\ which = "http" => [Calls!Http!Next]_(Calls!Http!vars)
           /\ which = "realtime" => [Calls!Gateway!Next]_(Calls!Gateway!vars)
  <1>1. CASE UNCHANGED vars
    <2>1. UNCHANGED <<which, v1, v2, v3, v4, v5, v6, v7, v8, v9, v10, v11, v12, v13, v14, v15>>
      BY Zenon, <1>1 DEF vars
    <2>2. /\ UNCHANGED Records!Profiles!vars /\ UNCHANGED Records!Log!vars /\ UNCHANGED Records!vars
          /\ UNCHANGED Leases!Locks!vars /\ UNCHANGED Leases!Dedupe!vars
      BY Zenon, <2>1 DEF Records!Profiles!vars, Records!Log!vars, Records!vars, Leases!Locks!vars,
                         Leases!Locks!storeVars, Leases!Locks!renewalVars, Leases!Locks!handleVars,
                         Leases!Dedupe!vars
    <2>3. UNCHANGED Calls!vars /\ UNCHANGED Calls!Http!vars /\ UNCHANGED Calls!Gateway!vars
      BY Zenon, <2>1 DEF Calls!vars, Calls!flags, Calls!engine, Calls!world, Calls!Http!vars,
                         Calls!Gateway!vars
    <2> QED BY Zenon, <2>1, <2>2, <2>3
  <1>2. CASE Next
    BY ZenonT(40), <1>2 DEF Next
  <1> QED BY Zenon, <1>1, <1>2

\* What the lemmas suppose of finite sets and of naturals.
Facts == Records!SetFacts /\ Leases!SetFacts /\ Calls!SetFacts

\* The inductive invariant of whichever component the behaviour is one of.
Kept ==
    /\ which = "users" => Records!UserInv
    /\ which = "tokens" => Records!TokenInv
    /\ which = "audit" => Records!AuditInv
    /\ which = "session" => Leases!SessionInv
    /\ which = "keys" => Leases!KeysInv
    /\ which = "checkout" => Calls!OrdersInv
    /\ which = "http" => Calls!HttpInv
    /\ which = "realtime" => Calls!GatewayInv

\* Each component starts in its invariant.
LEMMA KeptInit == ASSUME Facts, Init PROVE Kept
  BY ZenonT(40), Assumptions, Records!UserInit, Records!InitInv, Records!AuditInit, Leases!SessionInit,
     Leases!KeysInit, Calls!OrdersInit, Calls!HttpInit, Calls!GatewayInit DEF Init, Kept, Facts

\* A step of a component preserves its invariant, and the rest says nothing.
LEMMA KeptStep == ASSUME Facts, Kept, [Next]_vars PROVE Kept'
  BY ZenonT(40), Lifts, Assumptions, Records!UserStep, Records!NextInv, Records!AuditStep,
     Leases!SessionStep, Leases!KeysStep, Calls!OrdersStep, Calls!HttpStep, Calls!GatewayStep
     DEF Kept, Facts

\* What the run checks of these components.
Safe ==
    /\ NoLostUpdate /\ ReplayEndsSession /\ LinearChain /\ SuccessMeansExclusive /\ KeyedOnce
    /\ OrdersConsistent /\ CallsBounded /\ NoSilentLoss

\* Each component's invariant gives the property the suite states of it.
LEMMA KeptSafe == ASSUME Facts, Kept PROVE Safe
  BY ZenonT(40), Assumptions, Records!UserSafe, Records!ReplaySafe, Records!AuditSafe,
     Leases!SessionSafe, Leases!KeysSafe, Calls!OrdersSafe, Calls!HttpSafe, Calls!GatewaySafe
     DEF Kept, Facts, Safe, NoLostUpdate, ReplayEndsSession, LinearChain, SuccessMeansExclusive,
         KeyedOnce, OrdersConsistent, CallsBounded, NoSilentLoss

\* What the run says a step may do.
Allowed ==
    /\ which = "tokens" => Records!ContractStep
    /\ which = "checkout" => Calls!ShipsPaid
    /\ which = "keys" => Leases!Dedupe!TouchesOwn

\* A step from a component's invariant does only what is allowed it.
LEMMA KeptAllowed == ASSUME Kept, [Next]_vars PROVE Allowed
  <1>1. which = "tokens" => Records!ContractStep
    BY Zenon, Lifts, ServicesAssumption, Records!StoreStep DEF Kept, Records!ContractStep
  <1>2. which = "checkout" => Calls!ShipsPaid
    BY Zenon, Lifts, Calls!OrdersShip DEF Kept
  <1>3. which = "keys" => Leases!Dedupe!TouchesOwn
    BY Zenon, Lifts, Leases!KeysTouch DEF Kept
  <1> QED BY Zenon, <1>1, <1>2, <1>3 DEF Allowed

-----------------------------------------------------------------------------
(* The facts the lemmas suppose, by the library's theorems.                *)

Sets == INSTANCE FiniteSetTheorems

\* A part of a finite set is finite and no larger; a set numbered from 1 to n
\* without repetition has n members; naturals have a least one.
LEMMA FactsHold == Facts
  <1>0. \A S : /\ (Records!IsFiniteSet(S) <=> Sets!IsFiniteSet(S))
               /\ (Leases!IsFiniteSet(S) <=> Sets!IsFiniteSet(S))
               /\ Records!Cardinality(S) = Sets!Cardinality(S)
               /\ Leases!Cardinality(S) = Sets!Cardinality(S)
               /\ (Calls!IsFiniteSet(S) <=> Sets!IsFiniteSet(S))
               /\ Calls!Cardinality(S) = Sets!Cardinality(S)
    BY Zenon DEF Records!IsFiniteSet, Leases!IsFiniteSet, Sets!IsFiniteSet, Calls!IsFiniteSet,
                 Records!Cardinality, Leases!Cardinality, Sets!Cardinality, Calls!Cardinality
  <1>1. \A S, T : Sets!IsFiniteSet(T) /\ S \subseteq T =>
           /\ Sets!IsFiniteSet(S) /\ Sets!Cardinality(S) \in Nat /\ Sets!Cardinality(T) \in Nat
           /\ Sets!Cardinality(S) <= Sets!Cardinality(T)
    BY Zenon, Sets!FS_Subset, Sets!FS_CardinalityType
  <1>2. ASSUME NEW R, NEW n \in Nat, NEW at \in [1 .. n -> R],
               \A i, j \in 1 .. n : at[i] = at[j] => i = j,
               \A e \in R : \E i \in 1 .. n : at[i] = e
        PROVE  Sets!IsFiniteSet(R) /\ Sets!Cardinality(R) = n
    <2>1. Sets!ExistsBijection(1 .. n, R)
      BY Zenon, <1>2 DEF Sets!ExistsBijection, Sets!Bijection, Sets!Injection, Sets!Surjection,
                         Sets!IsInjective
    <2>2. Sets!IsFiniteSet(1 .. n) /\ Sets!Cardinality(1 .. n) = n
      BY Sets!FS_Interval
    <2> QED BY Zenon, <2>1, <2>2, Sets!FS_Bijection
  <1>3. ASSUME NEW T, T \subseteq Nat, T # {} PROVE \E x \in T : \A y \in T : x <= y
    <2>1. PICK x \in T : \A y \in T : <<y, x>> \notin Sets!OpToRel(<, Nat)
      BY Zenon, <1>3, Sets!NatLessThanWellFounded, Sets!WFMin
    <2>2. \A y \in T : ~(y < x)
      BY Zenon, <1>3, <2>1 DEF Sets!OpToRel
    <2>3. \A y \in T : x <= y
      BY <1>3, <2>2
    <2> QED BY Zenon, <2>3
  <1>4. Records!SetFacts
    <2>1. \A S, T : Records!IsFiniteSet(T) /\ S \subseteq T =>
             /\ Records!IsFiniteSet(S) /\ Records!Cardinality(S) \in Nat /\ Records!Cardinality(T) \in Nat
             /\ Records!Cardinality(S) <= Records!Cardinality(T)
      BY Zenon, <1>0, <1>1
    <2>2. ASSUME NEW R, NEW n \in Nat, NEW at \in [1 .. n -> R],
                 \A i, j \in 1 .. n : at[i] = at[j] => i = j,
                 \A e \in R : \E i \in 1 .. n : at[i] = e
          PROVE  Records!IsFiniteSet(R) /\ Records!Cardinality(R) = n
      BY Zenon, <2>2, <1>0, <1>2
    <2> QED BY Zenon, <2>1, <2>2, <1>3 DEF Records!SetFacts
  <1>5. Leases!SetFacts
    BY Zenon, <1>0, <1>1, Sets!FS_EmptySet, Sets!FS_AddElement DEF Leases!SetFacts
  <1>6. Calls!SetFacts
    <2>1. \A S, x : Sets!IsFiniteSet(S) /\ x \in S =>
             Sets!IsFiniteSet(S \ {x}) /\ Sets!Cardinality(S \ {x}) = Sets!Cardinality(S) - 1
      BY Zenon, Sets!FS_RemoveElement
    <2>2. \A S, x : Sets!IsFiniteSet(S) /\ x \notin S =>
             Sets!IsFiniteSet(S \cup {x}) /\ Sets!Cardinality(S \cup {x}) = Sets!Cardinality(S) + 1
      BY Zenon, Sets!FS_AddElement
    <2>3. Sets!IsFiniteSet({}) /\ Sets!Cardinality({}) = 0
      BY Zenon, Sets!FS_EmptySet
    <2> QED BY Zenon, <1>0, <1>1, <2>1, <2>2, <2>3 DEF Calls!SetFacts
  <1> QED BY Zenon, <1>4, <1>5, <1>6 DEF Facts

\* The properties together, from the invariants together.
LEMMA Invariant == Spec => []Safe
  <1>1. (Init => Kept) /\ (Kept /\ [Next]_vars => Kept') /\ (Kept => Safe)
    BY Zenon, FactsHold, KeptInit, KeptStep, KeptSafe
  <1> QED BY <1>1, PTL DEF Spec

\* Every statement of auth/prisma-refresh-token.store.ts is a step of the store its
\* callers were promised; where captures settle at once and no call outlives its
\* timeout, no parcel is booked before the money is in and the goods are held
\* (checkout.saga.ts); and a request under an idempotency key changes no reservation
\* but its own: for any number of each, and any faults.
THEOREM StepsAreAllowed == Spec => StepsAllowed
  <1>1. (Init => Kept) /\ (Kept /\ [Next]_vars => Kept') /\ (Kept /\ [Next]_vars => Allowed)
    BY Zenon, FactsHold, KeptInit, KeptStep, KeptAllowed
  <1> QED BY <1>1, PTL DEF Spec, StepsAllowed, Allowed

\* A checkout of orders/checkout.saga.ts that ended is done or undone in every
\* service it called, and the units off the shelf are those held, for any number
\* of orders and any faults.
THEOREM CheckoutsConsistent == Spec => []OrdersConsistent
  BY Invariant, PTL DEF Safe

\* common/http never loses a bulkhead permit nor makes one up, keeps the budget of
\* request() over every wait and retry, and sends no more than its ladder has
\* rungs, for any number of calls and any limits.
THEOREM CallsAreBounded == Spec => []CallsBounded
  BY Invariant, PTL DEF Safe

\* A peer of realtime/ learns of every frame it missed, and a broadcast reaches
\* exactly the members of its rooms, for any number of sockets, accounts and
\* frames.
THEOREM NoFrameUntold == Spec => []NoSilentLoss
  BY Invariant, PTL DEF Safe

\* A conditional write of users/prisma-users.repository.ts replaces exactly what
\* its client read, for any number of writers and readers of the cache.
THEOREM UpdatesNotLost == Spec => []NoLostUpdate
  BY Invariant, PTL DEF Safe

\* A refresh token presented twice to auth/prisma-refresh-token.store.ts ends its
\* session, for any number of families, tokens and concurrent refreshes.
THEOREM ReplayNoticed == Spec => []ReplayEndsSession
  BY Invariant, PTL DEF Safe

\* Concurrent appends of audit/ never fork the chain nor leave a gap, for any
\* number of transactions, commits and roll-backs in any order.
THEOREM ChainLinear == Spec => []LinearChain
  BY Invariant, PTL DEF Safe

\* withLock of common/locking/lock-session.ts reports success only to a session
\* nobody overlapped, and keeps no key past maxHoldMs, for any lease, drift and
\* renewal interval.
THEOREM SuccessExclusive == Spec => []SuccessMeansExclusive
  BY Invariant, PTL DEF Safe

\* An effect under a key of common/idempotency is repeated only when the response
\* to it was not kept, a replay is the answer another attempt at the same operation
\* was given, and whoever is answered from the record ran nothing, for any number of
\* requests and any faults.
THEOREM OncePerKey == Spec => []KeyedOnce
  BY Invariant, PTL DEF Safe
=============================================================================
