------------------------------ MODULE Checkout ------------------------------
(***************************************************************************)
(* The checkout (src/orders): PlaceOrderHandler starts a saga, and the     *)
(* five steps of checkout.saga.ts call the order table, the inventory, the *)
(* payment provider and the carrier, the last three taken for services     *)
(* that outlive this process.  The engine is the protocol that             *)
(* SagaOrchestrator is proved to implement, plus what it cannot hide: a    *)
(* step runs again when its outcome was not recorded, an await may fail    *)
(* before or after it took effect, and a call nobody waits for goes on.    *)
(***************************************************************************)
EXTENDS Integers, FiniteSets

CONSTANTS
    Order,         \* the orders placed
    Unserviced,    \* those of them going where no carrier goes
    Stock,         \* units on the shelf; every order wants one
    MaxAttempts,   \* SAGA_MAX_ATTEMPTS
    MaxFaults      \* bound: failed awaits, crashes, timeouts, lapsed leases,
                   \* deleted accounts and moves the gateway makes by itself

VARIABLES
    late,       \* may a call outlive SAGA_STEP_TIMEOUT_MS or its lease?
    prompt,     \* does the gateway settle a capture before it answers?
    status,     \* the saga row: status, cursor, attempts, state
    cursor,
    attempts,
    state,      \* state[o]: the ids the steps have recorded
    call,       \* call[o]: the call the runner awaits
    orphans,    \* orphans[o]: calls nobody waits for any more
    order,      \* order[o]: the status of the order row, or "none"
    events,     \* events[o]: events staged, by name
    shelf,      \* units of the SKU that are not reserved
    hold,       \* hold[o]: the reservation under the step's key
    payment,    \* payment[o]: the payment under the step's reference
    shipment,   \* shipment[o]: a parcel is booked under the step's key
    faults

Steps == <<"accept", "reserve", "charge", "ship", "confirm">>
kind == [i \in 0 .. 4 |-> IF i < 3 THEN "compensatable" ELSE IF i = 3 THEN "pivot" ELSE "retriable"]

INSTANCE SagaProtocol WITH Saga <- Order, N <- 5, Kind <- kind

world    == <<order, events, shelf, hold, payment, shipment>>
engine   == <<status, cursor, attempts, state>>
flags    == <<late, prompt>>
vars     == <<flags, engine, call, orphans, world, faults>>

Idle == [step |-> "none", forward |-> TRUE, at |-> "idle"]
NothingStaged == [placed |-> 0, confirmed |-> 0, cancelled |-> 0]

Init ==
    /\ late \in BOOLEAN /\ prompt \in BOOLEAN
    /\ late => prompt    \* bound: one complication at a time
    /\ ProtocolInit
    /\ attempts = [o \in Order |-> 0]
    /\ state = [o \in Order |-> {}]
    /\ call = [o \in Order |-> Idle]
    /\ orphans = [o \in Order |-> {}]
    /\ order = [o \in Order |-> "none"]
    /\ events = [o \in Order |-> NothingStaged]
    /\ shelf = Stock
    /\ hold = [o \in Order |-> "none"]
    /\ payment = [o \in Order |-> "none"]
    /\ shipment = [o \in Order |-> FALSE]
    /\ faults = 0

Fault == faults < MaxFaults /\ faults' = faults + 1

\* PlaceOrderHandler: the saga, the order and its event in one transaction.
placeOrder(o) ==
    /\ Started(o)
    /\ order' = [order EXCEPT ![o] = "PENDING"]
    /\ events' = [events EXCEPT ![o].placed = @ + 1]
    /\ UNCHANGED <<flags, attempts, state, call, orphans, shelf, hold, payment, shipment, faults>>

\* The account is deleted, and its orders with it.
AccountDeleted(o) ==
    /\ Fault
    /\ order[o] # "none"
    /\ order' = [order EXCEPT ![o] = "none"]
    /\ UNCHANGED <<flags, engine, call, orphans, events, shelf, hold, payment, shipment>>

-----------------------------------------------------------------------------
(* The steps, one await at a time.  A stretch of call c from await c.at    *)
(* yields out: "more" (and the await it stops at next), "completed",       *)
(* "failed" or "unretryable".                                              *)

\* orders.transition() and the events staged with it, in one transaction: by
\* id, whatever the status is by now; it fails where there is no row.
Transition(o, to, staged, out) ==
    IF order[o] = "none"
    THEN out = "failed" /\ UNCHANGED <<order, events>>
    ELSE /\ out = "completed"
         /\ order' = [order EXCEPT ![o] = to]
         /\ events' = [events EXCEPT ![o] = [e \in DOMAIN @ |-> IF e \in staged THEN @[e] + 1 ELSE @[e]]]

acceptOrder(o, c, out, at) ==
    /\ c.step = "accept" /\ c.forward
    /\ \/ /\ c.at = "find"
          /\ out = CASE order[o] = "none"    -> "failed"
                     [] order[o] = "PENDING" -> "more"
                     [] OTHER                -> "completed"
          /\ at = "write"
          /\ UNCHANGED world
       \/ /\ c.at = "write" /\ at = "idle"
          /\ Transition(o, "PROCESSING", {}, out)
          /\ UNCHANGED <<shelf, hold, payment, shipment>>

cancelOrder(o, c, out, at) ==
    /\ c.step = "accept" /\ ~c.forward
    /\ \/ /\ c.at = "find"
          /\ out = IF order[o] \in {"none", "CANCELLED"} THEN "completed" ELSE "more"
          /\ at = "write"
          /\ UNCHANGED world
       \/ /\ c.at = "write" /\ at = "idle"
          /\ Transition(o, "CANCELLED", {"cancelled"}, out)
          /\ UNCHANGED <<shelf, hold, payment, shipment>>

\* inventory.reserve(): a reservation under this id is answered as it is,
\* released or not; otherwise every line is taken or none is.
reserve(o, out) ==
    \/ /\ hold[o] # "none"
       /\ out = "completed"
       /\ UNCHANGED <<shelf, hold>>
    \/ /\ hold[o] = "none" /\ shelf = 0
       /\ out = "unretryable"
       /\ UNCHANGED <<shelf, hold>>
    \/ /\ hold[o] = "none" /\ shelf > 0
       /\ shelf' = shelf - 1
       /\ hold' = [hold EXCEPT ![o] = "held"]
       /\ out = "completed"

\* Mutant: what was released is put back again.
releaseTwice(o) ==
    IF hold[o] # "none"
    THEN shelf' = shelf + 1 /\ hold' = [hold EXCEPT ![o] = "released"]
    ELSE UNCHANGED <<shelf, hold>>

\* inventory.release(): nothing for an id that is unknown or released.
release(o) ==
    IF hold[o] = "held"
    THEN shelf' = shelf + 1 /\ hold' = [hold EXCEPT ![o] = "released"]
    ELSE UNCHANGED <<shelf, hold>>

reserveStock(o, c, out, at) ==
    /\ c.step = "reserve" /\ at = "idle"
    /\ IF c.forward THEN reserve(o, out) ELSE release(o) /\ out = "completed"
    /\ UNCHANGED <<order, events, payment, shipment>>

\* provider.authorize(): the payment under this reference, or a new one,
\* which the provider may leave waiting for the buyer.
Authorize(o) ==
    IF payment[o] = "none"
    THEN \E s \in {"authorized", "requires_action"} : payment' = [payment EXCEPT ![o] = s]
    ELSE payment' = payment

\* The money has been taken, and not all of it returned.
Captured == {"succeeded", "partially_refunded"}

\* provider.capture() of an authorized payment answers with it as it is then,
\* which need not be captured yet, or ever; from any other status it throws.
capture(o, out) ==
    IF payment[o] = "authorized"
    THEN /\ \E s \in {"succeeded"} \cup (IF prompt THEN {} ELSE {"processing", "failed"}) :
              payment' = [payment EXCEPT ![o] = s]
         /\ out = "completed"
    ELSE payment' = payment /\ out = "more"

\* What the gateway does by itself: the buyer approves, an authorisation is
\* called off or lapses, a capture settles, the merchant refunds a part.
Moves ==
    {<<"requires_action", "authorized">>, <<"requires_action", "canceled">>,
     <<"authorized", "canceled">>, <<"processing", "succeeded">>, <<"processing", "failed">>,
     <<"succeeded", "partially_refunded">>}

GatewayMoves(o) ==
    /\ Fault
    /\ \E m \in Moves : payment[o] = m[1] /\ payment' = [payment EXCEPT ![o] = m[2]]
    /\ UNCHANGED <<flags, engine, call, orphans, order, events, shelf, hold, shipment>>

\* provider.refund() of all that is left; of what was not captured it throws.
refund(o, out) ==
    IF payment[o] \in Captured
    THEN payment' = [payment EXCEPT ![o] = "refunded"] /\ out = "completed"
    ELSE payment' = payment /\ out = "failed"

\* Mutant: an authorized payment passes for a captured one.
captureSkipped(s) == IF s \in Captured \cup {"authorized"} THEN "completed" ELSE "unretryable"

\* captureIfNeeded() on a payment in this status.
captureIfNeeded(s) ==
    CASE s \in Captured    -> "completed"
      [] s = "authorized" -> "more"
      [] OTHER            -> "unretryable"

chargePayment(o, c, out, at) ==
    /\ c.step = "charge" /\ c.forward
    /\ \/ /\ c.at = "authorize"
          /\ Authorize(o)
          /\ out = captureIfNeeded(payment'[o])
          /\ at = "capture"
       \/ /\ c.at = "capture"
          /\ at = "recheck"
          /\ capture(o, out)
       \/ /\ c.at = "recheck"
          /\ at = "idle"
          /\ out = IF payment[o] \in Captured THEN "completed" ELSE "unretryable"
          /\ payment' = payment
    /\ UNCHANGED <<order, events, shelf, hold, shipment>>

\* resolvePayment(): by its recorded id, or by authorizing the reference again,
\* which makes a payment if there was none.
resolvePayment(o) == IF "payment" \in state[o] THEN payment' = payment ELSE Authorize(o)

\* Mutant: a payment whose id was never recorded is taken for none.
refundRecorded(o, c, out, at) ==
    /\ c.step = "charge" /\ ~c.forward
    /\ \/ /\ c.at = "resolve"
          /\ at = "refund"
          /\ payment' = payment
          /\ out = IF "payment" \in state[o] /\ payment[o] \in Captured
                   THEN "more" ELSE "completed"
       \/ /\ c.at = "refund"
          /\ at = "idle"
          /\ refund(o, out)
    /\ UNCHANGED <<order, events, shelf, hold, shipment>>

\* Only what was captured is refunded.
refundPayment(o, c, out, at) ==
    /\ c.step = "charge" /\ ~c.forward
    /\ \/ /\ c.at = "resolve"
          /\ at = "refund"
          /\ resolvePayment(o)
          /\ out = IF payment'[o] \in Captured THEN "more" ELSE "completed"
       \/ /\ c.at = "refund"
          /\ at = "idle"
          /\ refund(o, out)
    /\ UNCHANGED <<order, events, shelf, hold, shipment>>

\* shipping.createShipment(): the parcel under this id, or a new one.
book(o, out) ==
    IF o \in Unserviced
    THEN shipment' = shipment /\ out = "unretryable"
    ELSE shipment' = [shipment EXCEPT ![o] = TRUE] /\ out = "completed"

createShipment(o, c, out, at) ==
    /\ c.step = "ship" /\ c.forward /\ at = "idle"
    /\ book(o, out)
    /\ UNCHANGED <<order, events, shelf, hold, payment>>

confirmOrder(o, c, out, at) ==
    /\ c.step = "confirm" /\ c.forward
    /\ \/ /\ c.at = "find"
          /\ out = IF ~({"payment", "shipment"} \subseteq state[o]) \/ order[o] = "none" THEN "failed"
                   ELSE IF order[o] = "CONFIRMED" THEN "completed" ELSE "more"
          /\ at = "write"
          /\ UNCHANGED world
       \/ /\ c.at = "write" /\ at = "idle"
          /\ Transition(o, "CONFIRMED", {"confirmed"}, out)
          /\ UNCHANGED <<shelf, hold, payment, shipment>>

Stretch(o, c, out, at) ==
    \/ acceptOrder(o, c, out, at)   \/ cancelOrder(o, c, out, at)
    \/ reserveStock(o, c, out, at)
    \/ chargePayment(o, c, out, at) \/ refundPayment(o, c, out, at)
    \/ createShipment(o, c, out, at) \/ confirmOrder(o, c, out, at)

Outcomes == {"more", "completed", "failed", "unretryable"}

\* The awaits a stretch from this one may stop at.
Onward(at) ==
    CASE at = "find"      -> {"write"}
      [] at = "authorize" -> {"capture"}
      [] at = "capture"   -> {"recheck"}
      [] at = "resolve"   -> {"refund"}
      [] OTHER            -> {"idle"}

-----------------------------------------------------------------------------
(* The engine's side of a call.                                            *)

\* The first await of a step.
FirstAwait(step, forward) ==
    CASE step \in {"accept", "confirm"} -> "find"
      [] step = "charge" -> IF forward THEN "authorize" ELSE "resolve"
      [] OTHER -> "only"

\* What save() records of a step's result.
Recorded(step) ==
    CASE step = "reserve" -> {"reservation"}
      [] step = "charge"  -> {"payment"}
      [] step = "ship"    -> {"shipment"}
      [] OTHER            -> {}

Hangs(o) == call' = [call EXCEPT ![o] = Idle]

\* The runner that holds the lease calls the step under the cursor.
BeginCall(o) ==
    /\ call[o] = Idle
    /\ status[o] \in {"RUNNING", "COMPENSATING"}
    /\ status[o] = "RUNNING" \/ kind[cursor[o]] # "pivot"
    /\ call' = [call EXCEPT ![o] =
                  [step |-> Steps[cursor[o] + 1], forward |-> status[o] = "RUNNING",
                   at |-> FirstAwait(Steps[cursor[o] + 1], status[o] = "RUNNING")]]
    /\ UNCHANGED <<flags, engine, orphans, world, faults>>

\* A pivot that failed has no compensation.
SkipPivot(o) ==
    /\ call[o] = Idle
    /\ status[o] = "COMPENSATING" /\ kind[cursor[o]] = "pivot"
    /\ Back(o)
    /\ UNCHANGED <<flags, attempts, state, call, orphans, world, faults>>

Succeeds(o, c) ==
    /\ IF c.forward THEN Forward(o) ELSE Back(o)
    /\ attempts' = [attempts EXCEPT ![o] = 0]
    /\ state' = [state EXCEPT ![o] = IF c.forward THEN @ \cup Recorded(c.step) ELSE @]

\* No attempt is left: the saga turns round, or gets stuck.
GivesUp(o) ==
    /\ TurnRound(o) \/ GetStuck(o)
    /\ attempts' = [attempts EXCEPT ![o] = 0]
    /\ state' = state

Fails(o) ==
    IF attempts[o] + 1 < MaxAttempts
    THEN attempts' = [attempts EXCEPT ![o] = @ + 1] /\ UNCHANGED <<status, cursor, state>>
    ELSE GivesUp(o)

\* The awaited call runs on to its next await, or ends and is recorded.
Runs(o) ==
    /\ call[o] # Idle
    /\ \E out \in Outcomes, at \in Onward(call[o].at) :
         /\ Stretch(o, call[o], out, at)
         /\ CASE out = "more" -> call' = [call EXCEPT ![o].at = at] /\ UNCHANGED engine
              [] out = "completed" -> Hangs(o) /\ Succeeds(o, call[o])
              [] out = "failed" -> Hangs(o) /\ Fails(o)
              [] out = "unretryable" -> Hangs(o) /\ GivesUp(o)
    /\ UNCHANGED <<flags, orphans, faults>>

\* The await fails: it did nothing, or what it did is not known here.
Throws(o) ==
    /\ call[o] # Idle
    /\ Fault
    /\ \/ UNCHANGED world
       \/ \E out \in Outcomes, at \in Onward(call[o].at) : Stretch(o, call[o], out, at)
    /\ Hangs(o)
    /\ Fails(o)
    /\ UNCHANGED <<flags, orphans>>

\* The process dies, or save() fails after the step has ended: the row stays.
Lost(o) ==
    /\ call[o] # Idle
    /\ Fault
    /\ \/ UNCHANGED world
       \/ \E out \in Outcomes, at \in Onward(call[o].at) : Stretch(o, call[o], out, at)
    /\ Hangs(o)
    /\ UNCHANGED <<flags, engine, orphans>>

Orphaned(o) ==
    /\ late
    /\ call[o] # Idle
    /\ Fault
    /\ orphans' = [orphans EXCEPT ![o] = @ \cup {call[o]}]
    /\ Hangs(o)

\* SAGA_STEP_TIMEOUT_MS: the orchestrator stops waiting, the step goes on.
TimesOut(o) == Orphaned(o) /\ Fails(o) /\ UNCHANGED <<flags, world>>

\* The lease moves on under a live runner.
LeaseLapses(o) == Orphaned(o) /\ UNCHANGED <<flags, engine, world>>

OrphanRuns(o) ==
    /\ \E c \in orphans[o] : \E out \in Outcomes, at \in Onward(c.at) :
         /\ Stretch(o, c, out, at)
         /\ orphans' = [orphans EXCEPT ![o] =
                (@ \ {c}) \cup (IF out = "more" THEN {[c EXCEPT !.at = at]} ELSE {})]
    /\ UNCHANGED <<flags, engine, call, faults>>

Next ==
    \E o \in Order :
        \/ placeOrder(o) \/ AccountDeleted(o) \/ GatewayMoves(o) \/ BeginCall(o) \/ SkipPivot(o) \/ Runs(o)
        \/ Throws(o) \/ Lost(o) \/ TimesOut(o) \/ LeaseLapses(o) \/ OrphanRuns(o)

Spec == Init /\ [][Next]_vars

-----------------------------------------------------------------------------
\* A checkout that has ended left everything consistent, over a gateway that
\* settles a capture before it answers.  COMPENSATED means undone: the order is
\* cancelled or gone, its stock is back and no money is kept, whichever awaits
\* failed, ran twice or lost their answers, as long as no call outlives its
\* timeout.  COMPLETED means done: paid for, reserved and shipped, late calls or
\* not, and confirmed exactly once where there are none (checkout.saga.ts, the
\* steps and their compensations).
EndsConsistent ==
    \A o \in Order : prompt =>
        /\ status[o] = "COMPENSATED" /\ ~late =>
              /\ order[o] = "none" \/ (order[o] = "CANCELLED" /\ events[o].cancelled = 1)
              /\ hold[o] # "held"
              /\ payment[o] \notin Captured
        /\ status[o] = "COMPLETED" =>
              /\ payment[o] \in Captured /\ hold[o] = "held" /\ shipment[o]
              /\ ~late => order[o] \in {"CONFIRMED", "none"} /\ events[o].confirmed = 1

\* Units are neither lost nor made up: what is off the shelf is held for an
\* order, however often reserve and release run (InMemoryInventoryService).
StockConserved ==
    shelf + Cardinality({o \in Order : hold[o] = "held"}) = Stock

\* A parcel is booked only for an order that is paid for and whose stock is
\* held at that moment (checkout.saga.ts, the order of the steps).
ShipsPaid ==
    \A o \in Order : prompt /\ ~late /\ shipment'[o] # shipment[o] =>
        payment[o] \in Captured /\ hold[o] = "held"

\* "nothing may be dispatched until the money is in", whatever the gateway
\* answers to a capture.
PaidBeforeShipped ==
    \A o \in Order : shipment[o] => payment[o] \in Captured \cup {"refunded"}
=============================================================================
