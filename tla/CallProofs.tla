----------------------------- MODULE CallProofs -----------------------------
(***************************************************************************)
(* For every number of orders, calls and sockets: what those who call      *)
(* services that fail, or write to peers that fall behind, keep straight.  *)
(* A checkout that ends is done or undone, and ships only what is paid for *)
(* and in hand; a bulkhead's permits are never lost, nor a deadline missed *)
(* by more than a timer is late; and no frame is dropped untold.           *)
(*                                                                         *)
(* The checkout's specification is extended, the other two are instances   *)
(* with state of their own.  The lemmas say what a step does to an         *)
(* inductive invariant; ServiceProofs makes theorems of them.              *)
(***************************************************************************)
EXTENDS Checkout, Sequences, TLAPS

\* What is taken from the theory of finite sets.
SetFacts ==
    /\ IsFiniteSet({}) /\ Cardinality({}) = 0
    /\ \A S : IsFiniteSet(S) => Cardinality(S) \in Nat
    /\ \A S, x : IsFiniteSet(S) /\ x \notin S =>
           IsFiniteSet(S \cup {x}) /\ Cardinality(S \cup {x}) = Cardinality(S) + 1
    /\ \A S, x : IsFiniteSet(S) /\ x \in S =>
           IsFiniteSet(S \ {x}) /\ Cardinality(S \ {x}) = Cardinality(S) - 1
    /\ \A S, T : IsFiniteSet(T) /\ S \subseteq T => IsFiniteSet(S) /\ Cardinality(S) <= Cardinality(T)

-----------------------------------------------------------------------------
(* Checkouts.  Going forward, what a step is for is there once the cursor  *)
(* is past it; going back, it is gone once the cursor is.  A late call     *)
(* spoils the second and not the first: a saga that has not turned round   *)
(* has only forward calls behind it.                                       *)

OrdersAssumption == Stock \in Int

Statuses == {"ABSENT", "RUNNING", "COMPENSATING", "COMPLETED", "COMPENSATED", "STUCK"}
Staged == [placed : Nat, confirmed : Nat, cancelled : Nat]
Awaits == {"find", "write", "capture", "recheck", "refund", "idle"}
Calls ==
    [step : {"none", "accept", "reserve", "charge", "ship", "confirm"}, forward : BOOLEAN,
     at : Awaits \cup {"authorize", "resolve", "only"}]

OrdersType ==
    /\ late \in BOOLEAN /\ prompt \in BOOLEAN
    /\ status \in [Order -> Statuses]
    /\ cursor \in [Order -> Int]
    /\ call \in [Order -> Calls]
    /\ orphans \in [Order -> SUBSET Calls]
    /\ order \in [Order -> {"none", "PENDING", "PROCESSING", "CONFIRMED", "CANCELLED"}]
    /\ events \in [Order -> Staged]
    /\ shelf \in Int
    /\ hold \in [Order -> {"none", "held", "released"}]
    /\ payment \in [Order -> {"none", "authorized", "requires_action", "processing", "failed",
                              "canceled", "succeeded", "partially_refunded", "refunded"}]
    /\ shipment \in [Order -> BOOLEAN]

\* The saga of o is under way or over without having turned round, and the step
\* at position n is behind it.
Passed(o, n) == status[o] = "COMPLETED" \/ (status[o] = "RUNNING" /\ cursor[o] > n)

\* It has turned round, and the step at position n is undone.
Undone(o, n) == status[o] = "COMPENSATED" \/ (status[o] = "COMPENSATING" /\ cursor[o] < n)

\* The runner awaits the step under the cursor, in the saga's direction.
CallFits(o) ==
    /\ status[o] = "RUNNING" => cursor[o] \in 0 .. 4
    /\ status[o] = "COMPENSATING" => cursor[o] \in 0 .. 3
    /\ call[o] # Idle =>
          /\ status[o] \in {"RUNNING", "COMPENSATING"}
          /\ call[o].forward = (status[o] = "RUNNING")
          /\ call[o].step = Steps[cursor[o] + 1]
    /\ orphans[o] # {} => late
    /\ status[o] \in {"ABSENT", "RUNNING", "COMPLETED"} => \A c \in orphans[o] : c.forward

\* Nothing has been done for an order that was not placed.
Untouched(o) ==
    status[o] = "ABSENT" =>
        /\ order[o] = "none" /\ events[o].confirmed = 0 /\ events[o].cancelled = 0
        /\ hold[o] = "none" /\ payment[o] = "none" /\ orphans[o] = {}

\* What is behind a saga going forward is done.
Done(o) ==
    /\ status[o] \in {"RUNNING", "COMPLETED"} => hold[o] # "released"
    /\ Passed(o, 1) => hold[o] = "held"
    /\ prompt => payment[o] # "processing"
    /\ prompt /\ Passed(o, 2) => payment[o] \in Captured
    /\ Passed(o, 3) => shipment[o]

\* What a saga going forward has not come to has not been begun, and what is
\* behind one going back is undone.
Clean(o) ==
    /\ status[o] = "RUNNING" /\ cursor[o] < 1 => hold[o] = "none"
    /\ status[o] = "RUNNING" /\ cursor[o] < 2 => payment[o] = "none"
    /\ Undone(o, 1) => hold[o] # "held"
    /\ prompt /\ Undone(o, 2) => payment[o] \notin Captured

\* The row and the events staged agree, and a write that is still to come
\* will change the row.
Written(o) ==
    /\ order[o] = "CANCELLED" => events[o].cancelled = 1
    /\ events[o].cancelled # 0 => order[o] \in {"CANCELLED", "none"}
    /\ status[o] \in {"ABSENT", "RUNNING"} => events[o].cancelled = 0
    /\ order[o] = "CONFIRMED" => events[o].confirmed = 1
    /\ events[o].confirmed # 0 => order[o] \in {"CONFIRMED", "none"} /\ events[o].confirmed = 1
    /\ events[o].confirmed # 0 => status[o] \in {"COMPLETED", "STUCK"} \/ Passed(o, 3)
    /\ call[o].step = "accept" /\ ~call[o].forward /\ call[o].at = "write" =>
          events[o].cancelled = 0 \/ order[o] = "none"
    /\ call[o].step = "confirm" /\ call[o].at = "write" => events[o].confirmed = 0 \/ order[o] = "none"
    /\ status[o] = "COMPENSATED" => order[o] \in {"CANCELLED", "none"}
    /\ status[o] = "COMPLETED" => events[o].confirmed = 1

OrderInv(o) ==
    CallFits(o) /\ Untouched(o) /\ Done(o) /\ (~late => Clean(o) /\ Written(o))

Held == {o \in Order : hold[o] = "held"}

OrdersInv ==
    /\ OrdersType
    /\ \A o \in Order : OrderInv(o)
    /\ IsFiniteSet(Held) /\ shelf + Cardinality(Held) = Stock
\* A stretch stops at an await, if it stops.
LEMMA OnwardTyped == \A at : Onward(at) \subseteq Awaits
  BY DEF Onward, Awaits

\* Nothing has been placed at first, and every unit is on the shelf.
LEMMA OrdersInit == ASSUME SetFacts, OrdersAssumption, Init PROVE OrdersInv
  <1>1. OrdersType
    <2>1. Idle \in Calls /\ NothingStaged \in Staged
      BY DEF Idle, Calls, Awaits, NothingStaged, Staged
    <2> QED BY <2>1 DEF Init, ProtocolInit, OrdersType, Statuses, OrdersAssumption
  <1>2. ASSUME NEW o \in Order PROVE OrderInv(o)
    <2>1. /\ status[o] = "ABSENT" /\ call[o] = Idle /\ orphans[o] = {} /\ order[o] = "none"
          /\ events[o] = NothingStaged /\ hold[o] = "none" /\ payment[o] = "none"
      BY DEF Init, ProtocolInit
    <2>2. events[o].confirmed = 0 /\ events[o].cancelled = 0 /\ call[o].step = "none"
      BY <2>1 DEF NothingStaged, Idle
    <2> QED BY <2>1, <2>2 DEF OrderInv, CallFits, Untouched, Done, Clean, Written, Passed, Undone
  <1>3. Held = {}
    BY DEF Init, Held
  <1> QED BY <1>1, <1>2, <1>3 DEF OrdersInv, Init, SetFacts, OrdersAssumption

-----------------------------------------------------------------------------
(* What one stretch of a call does to its order, and to no other.          *)

Elsewhere(o) ==
    \A p \in Order \ {o} :
        /\ order'[p] = order[p] /\ events'[p] = events[p]
        /\ hold'[p] = hold[p] /\ payment'[p] = payment[p] /\ shipment'[p] = shipment[p]

WorldType ==
    /\ order \in [Order -> {"none", "PENDING", "PROCESSING", "CONFIRMED", "CANCELLED"}]
    /\ events \in [Order -> Staged]
    /\ shelf \in Int
    /\ hold \in [Order -> {"none", "held", "released"}]
    /\ payment \in [Order -> {"none", "authorized", "requires_action", "processing", "failed",
                              "canceled", "succeeded", "partially_refunded", "refunded"}]
    /\ shipment \in [Order -> BOOLEAN]

SameRow(o) == order'[o] = order[o] /\ events'[o] = events[o]
SameStock(o) == shelf' = shelf /\ hold' = hold
SameMoney(o) == payment'[o] = payment[o]
SameParcel(o) == shipment'[o] = shipment[o]

\* One unit moves between the shelf and o's reservation, or none does.
StockMoves(o) ==
    \/ shelf' = shelf /\ hold' = hold
    \/ hold[o] = "none" /\ shelf' = shelf - 1 /\ hold' = [hold EXCEPT ![o] = "held"]
    \/ hold[o] = "held" /\ shelf' = shelf + 1 /\ hold' = [hold EXCEPT ![o] = "released"]

RowMoves(o, c, out, at) ==
    CASE c.step = "accept" /\ c.forward ->
            events'[o] = events[o] /\ order'[o] \in {order[o], "PROCESSING"}
      [] c.step = "accept" /\ ~c.forward ->
            \/ /\ SameRow(o)
               /\ out = "completed" => order[o] \in {"none", "CANCELLED"}
               /\ out = "more" => order[o] # "CANCELLED"
            \/ /\ c.at = "write" /\ out = "completed" /\ order[o] # "none" /\ order'[o] = "CANCELLED"
               /\ events'[o].cancelled = events[o].cancelled + 1
               /\ events'[o].confirmed = events[o].confirmed
      [] c.step = "confirm" ->
            \/ /\ SameRow(o)
               /\ out = "completed" => order[o] = "CONFIRMED"
               /\ out = "more" => order[o] # "CONFIRMED"
            \/ /\ c.at = "write" /\ out = "completed" /\ order[o] # "none" /\ order'[o] = "CONFIRMED"
               /\ events'[o].confirmed = events[o].confirmed + 1
               /\ events'[o].cancelled = events[o].cancelled
      [] OTHER -> SameRow(o)

MoneyMoves(o, c, out) ==
    /\ prompt /\ payment[o] # "processing" => payment'[o] # "processing"
    /\ c.step # "charge" => SameMoney(o)
    /\ c.forward /\ payment[o] \in Captured => payment'[o] \in Captured
    /\ c.step = "charge" /\ c.forward /\ prompt /\ out = "completed" => payment'[o] \in Captured
    /\ ~c.forward /\ payment[o] \notin Captured => payment'[o] \notin Captured
    /\ c.step = "charge" /\ ~c.forward /\ out = "completed" => payment'[o] \notin Captured

HoldMoves(o, c, out) ==
    /\ c.step # "reserve" => hold' = hold
    /\ c.step = "reserve" /\ c.forward =>
          /\ hold'[o] = hold[o] \/ (hold[o] = "none" /\ hold'[o] = "held")
          /\ out = "completed" => hold'[o] # "none"
    /\ ~c.forward => hold'[o] = hold[o] \/ hold'[o] = "released"
    /\ c.step = "reserve" /\ ~c.forward /\ out = "completed" => hold'[o] # "held"

ParcelMoves(o, c, out) ==
    /\ c.step # "ship" => SameParcel(o)
    /\ shipment[o] => shipment'[o]
    /\ c.step = "ship" /\ out = "completed" => shipment'[o]

Effect(o, c, out, at) ==
    /\ WorldType' /\ Elsewhere(o) /\ StockMoves(o)
    /\ RowMoves(o, c, out, at) /\ MoneyMoves(o, c, out) /\ HoldMoves(o, c, out)
    /\ ParcelMoves(o, c, out)

\* A transition of the order row touches that row and its events alone.
LEMMA TransitionEffect ==
    ASSUME WorldType, NEW o \in Order, NEW to \in {"PROCESSING", "CONFIRMED", "CANCELLED"},
           NEW staged \in {{}, {"confirmed"}, {"cancelled"}}, NEW out, Transition(o, to, staged, out)
    PROVE  /\ order' \in [Order -> {"none", "PENDING", "PROCESSING", "CONFIRMED", "CANCELLED"}]
           /\ events' \in [Order -> Staged]
           /\ \A p \in Order \ {o} : order'[p] = order[p] /\ events'[p] = events[p]
           /\ \/ SameRow(o) /\ out = "failed"
              \/ /\ out = "completed" /\ order[o] # "none" /\ order'[o] = to
                 /\ events'[o].confirmed = events[o].confirmed + (IF "confirmed" \in staged THEN 1 ELSE 0)
                 /\ events'[o].cancelled = events[o].cancelled + (IF "cancelled" \in staged THEN 1 ELSE 0)
                 /\ staged = {} => events'[o] = events[o]
  <1>1. CASE order[o] = "none"
    <2>1. out = "failed" /\ order' = order /\ events' = events
      BY Zenon, <1>1 DEF Transition
    <2> QED BY Zenon, <2>1 DEF WorldType, SameRow
  <1>2. CASE order[o] # "none"
    <2> DEFINE ev == [e \in DOMAIN events[o] |-> IF e \in staged THEN events[o][e] + 1 ELSE events[o][e]]
    <2>1. out = "completed" /\ order' = [order EXCEPT ![o] = to] /\ events' = [events EXCEPT ![o] = ev]
      BY <1>2 DEF Transition
    <2>2. events[o] \in Staged
      BY Zenon DEF WorldType
    <2>3. /\ DOMAIN events[o] = {"placed", "confirmed", "cancelled"}
          /\ events[o].placed \in Nat /\ events[o].confirmed \in Nat /\ events[o].cancelled \in Nat
      BY <2>2 DEF Staged
    <2>4. /\ ev.confirmed = events[o].confirmed + (IF "confirmed" \in staged THEN 1 ELSE 0)
          /\ ev.cancelled = events[o].cancelled + (IF "cancelled" \in staged THEN 1 ELSE 0)
          /\ ev \in Staged
          /\ staged = {} => ev = events[o]
      BY <2>2, <2>3 DEF Staged
    <2> HIDE DEF ev
    <2> QED BY <1>2, <2>1, <2>4 DEF WorldType
  <1> QED BY Zenon, <1>1, <1>2
\* Each step does what it is for to its own order, and touches no other.
LEMMA StretchEffect ==
    ASSUME WorldType, prompt \in BOOLEAN, NEW o \in Order, NEW c \in Calls, NEW out, NEW at,
           Stretch(o, c, out, at)
    PROVE  Effect(o, c, out, at)
  <1>0. c.forward \in BOOLEAN
    BY DEF Calls
  <1>1. CASE acceptOrder(o, c, out, at) \/ cancelOrder(o, c, out, at) \/ confirmOrder(o, c, out, at)
    <2>1. UNCHANGED <<shelf, hold, payment, shipment>>
      BY Zenon, <1>1 DEF acceptOrder, cancelOrder, confirmOrder, world
    <2>2. c.step \in {"accept", "confirm"}
      BY Zenon, <1>1 DEF acceptOrder, cancelOrder, confirmOrder
    <2>3. /\ order' \in [Order -> {"none", "PENDING", "PROCESSING", "CONFIRMED", "CANCELLED"}]
          /\ events' \in [Order -> Staged]
          /\ \A p \in Order \ {o} : order'[p] = order[p] /\ events'[p] = events[p]
          /\ RowMoves(o, c, out, at)
      <3>1. CASE acceptOrder(o, c, out, at)
        <4>1. CASE order' = order /\ events' = events
          BY Zenon, <3>1, <4>1 DEF WorldType, acceptOrder, RowMoves
        <4>2. CASE Transition(o, "PROCESSING", {}, out)
          <5>1. c.step = "accept" /\ c.forward
            BY Zenon, <3>1 DEF acceptOrder
          <5> QED BY Zenon, <5>1, <4>2, TransitionEffect DEF RowMoves, SameRow
        <4> QED BY Zenon, <3>1, <4>1, <4>2 DEF acceptOrder, world
      <3>2. CASE cancelOrder(o, c, out, at)
        <4>0. c.step = "accept" /\ ~c.forward
          BY Zenon, <3>2 DEF cancelOrder
        <4>1. CASE c.at = "find"
          <5>1. /\ order' = order /\ events' = events
                /\ out = IF order[o] \in {"none", "CANCELLED"} THEN "completed" ELSE "more"
            BY <3>2, <4>1 DEF cancelOrder, world
          <5> QED BY <5>1, <4>0 DEF WorldType, RowMoves, SameRow
        <4>2. CASE c.at # "find"
          <5>1. c.at = "write" /\ Transition(o, "CANCELLED", {"cancelled"}, out)
            BY Zenon, <3>2, <4>2 DEF cancelOrder
          <5>2. /\ order' \in [Order -> {"none", "PENDING", "PROCESSING", "CONFIRMED", "CANCELLED"}]
                /\ events' \in [Order -> Staged]
                /\ \A p \in Order \ {o} : order'[p] = order[p] /\ events'[p] = events[p]
                /\ \/ SameRow(o) /\ out = "failed"
                   \/ /\ out = "completed" /\ order[o] # "none" /\ order'[o] = "CANCELLED"
                      /\ events'[o].confirmed = events[o].confirmed + 0
                      /\ events'[o].cancelled = events[o].cancelled + 1
            BY <5>1, TransitionEffect
          <5>3. events[o].confirmed \in Nat
            BY DEF WorldType, Staged
          <5> QED BY <4>0, <5>1, <5>2, <5>3 DEF RowMoves
        <4> QED BY Zenon, <4>1, <4>2
      <3>3. CASE confirmOrder(o, c, out, at)
        <4>0. c.step = "confirm"
          BY Zenon, <3>3 DEF confirmOrder
        <4>1. CASE c.at = "find"
          <5>1. /\ order' = order /\ events' = events
                /\ out = "completed" => order[o] = "CONFIRMED"
                /\ out = "more" => order[o] # "CONFIRMED"
            BY <3>3, <4>1 DEF confirmOrder, world
          <5> QED BY <5>1, <4>0 DEF WorldType, RowMoves, SameRow
        <4>2. CASE c.at # "find"
          <5>1. c.at = "write" /\ Transition(o, "CONFIRMED", {"confirmed"}, out)
            BY Zenon, <3>3, <4>2 DEF confirmOrder
          <5>2. /\ order' \in [Order -> {"none", "PENDING", "PROCESSING", "CONFIRMED", "CANCELLED"}]
                /\ events' \in [Order -> Staged]
                /\ \A p \in Order \ {o} : order'[p] = order[p] /\ events'[p] = events[p]
                /\ \/ SameRow(o) /\ out = "failed"
                   \/ /\ out = "completed" /\ order[o] # "none" /\ order'[o] = "CONFIRMED"
                      /\ events'[o].confirmed = events[o].confirmed + 1
                      /\ events'[o].cancelled = events[o].cancelled + 0
            BY <5>1, TransitionEffect
          <5>3. events[o].cancelled \in Nat
            BY DEF WorldType, Staged
          <5> QED BY <4>0, <5>1, <5>2, <5>3 DEF RowMoves
        <4> QED BY Zenon, <4>1, <4>2
      <3> QED BY Zenon, <1>1, <3>1, <3>2, <3>3
    <2>4. WorldType' /\ Elsewhere(o) /\ StockMoves(o)
      BY Zenon, <2>1, <2>3 DEF WorldType, Elsewhere, StockMoves
    <2>5. MoneyMoves(o, c, out) /\ HoldMoves(o, c, out) /\ ParcelMoves(o, c, out)
      BY <2>1, <2>2 DEF MoneyMoves, HoldMoves, ParcelMoves, SameMoney, SameParcel
    <2> QED BY Zenon, <2>3, <2>4, <2>5 DEF Effect
  <1>2. CASE reserveStock(o, c, out, at)
    <2>1. UNCHANGED <<order, events, payment, shipment>> /\ c.step = "reserve"
      BY Zenon, <1>2 DEF reserveStock
    <2>2. IF c.forward THEN reserve(o, out) ELSE release(o) /\ out = "completed"
      BY Zenon, <1>2 DEF reserveStock
    <2>3. /\ hold' \in [Order -> {"none", "held", "released"}] /\ shelf' \in Int
          /\ \A p \in Order \ {o} : hold'[p] = hold[p]
          /\ StockMoves(o) /\ HoldMoves(o, c, out)
      <3>1. CASE c.forward
        BY <2>1, <2>2, <3>1 DEF reserve, WorldType, StockMoves, HoldMoves
      <3>2. CASE ~c.forward
        BY <2>1, <2>2, <3>2 DEF release, WorldType, StockMoves, HoldMoves
      <3> QED BY Zenon, <1>0, <3>1, <3>2
    <2>4. WorldType' /\ Elsewhere(o)
      BY Zenon, <2>1, <2>3 DEF WorldType, Elsewhere
    <2>5. RowMoves(o, c, out, at) /\ MoneyMoves(o, c, out) /\ ParcelMoves(o, c, out)
      BY <2>1 DEF RowMoves, MoneyMoves, ParcelMoves, SameMoney, SameParcel, SameRow
    <2> QED BY Zenon, <2>3, <2>4, <2>5 DEF Effect
  <1>3. CASE chargePayment(o, c, out, at) \/ refundPayment(o, c, out, at)
    <2>1. UNCHANGED <<order, events, shelf, hold, shipment>> /\ c.step = "charge"
      BY Zenon, <1>3 DEF chargePayment, refundPayment
    <2> DEFINE PS == {"none", "authorized", "requires_action", "processing", "failed",
                      "canceled", "succeeded", "partially_refunded", "refunded"}
    <2>2. payment \in [Order -> PS] /\ payment[o] \in PS
      BY DEF WorldType
    <2>3. /\ payment' \in [Order -> PS]
          /\ \A p \in Order \ {o} : payment'[p] = payment[p]
          /\ MoneyMoves(o, c, out)
      <3>1. CASE chargePayment(o, c, out, at)
        <4>0. c.forward
          BY Zenon, <3>1 DEF chargePayment
        <4>1. CASE Authorize(o) /\ out = captureIfNeeded(payment'[o])
          <5>1. /\ payment' \in [Order -> PS]
                /\ \A p \in Order \ {o} : payment'[p] = payment[p]
                /\ payment'[o] = payment[o] \/ payment'[o] \in {"authorized", "requires_action"}
                /\ payment[o] # "none" => payment'[o] = payment[o]
            BY <4>1, <2>2 DEF Authorize
          <5>2. out = "completed" => payment'[o] \in Captured
            BY <4>1 DEF captureIfNeeded
          <5> QED BY <5>1, <5>2, <4>0, <2>1 DEF MoneyMoves, Captured, SameMoney
        <4>2. CASE capture(o, out)
          BY <4>2, <4>0, <2>1, <2>2 DEF MoneyMoves, Captured, SameMoney, capture
        <4>3. CASE /\ payment' = payment
                   /\ out = IF payment[o] \in Captured THEN "completed" ELSE "unretryable"
          BY <4>3, <4>0, <2>1, <2>2 DEF MoneyMoves, SameMoney
        <4> QED BY Zenon, <3>1, <4>1, <4>2, <4>3 DEF chargePayment
      <3>2. CASE refundPayment(o, c, out, at)
        <4>0. ~c.forward
          BY Zenon, <3>2 DEF refundPayment
        <4>1. CASE /\ Authorize(o) \/ payment' = payment
                   /\ out = IF payment'[o] \in Captured THEN "more" ELSE "completed"
          <5>1. /\ payment' \in [Order -> PS]
                /\ \A p \in Order \ {o} : payment'[p] = payment[p]
                /\ payment'[o] = payment[o] \/ payment'[o] \in {"authorized", "requires_action"}
            BY <4>1, <2>2 DEF Authorize
          <5> QED BY <5>1, <4>1, <4>0, <2>1 DEF MoneyMoves, Captured, SameMoney
        <4>2. CASE refund(o, out)
          BY <4>2, <4>0, <2>1, <2>2 DEF MoneyMoves, Captured, SameMoney, refund
        <4> QED BY Zenon, <3>2, <4>1, <4>2 DEF refundPayment, resolvePayment
      <3> QED BY Zenon, <1>3, <3>1, <3>2
    <2>4. WorldType' /\ Elsewhere(o) /\ StockMoves(o)
      BY Zenon, <2>1, <2>3 DEF WorldType, Elsewhere, StockMoves
    <2>5. RowMoves(o, c, out, at) /\ HoldMoves(o, c, out) /\ ParcelMoves(o, c, out)
      BY <2>1 DEF RowMoves, HoldMoves, ParcelMoves, SameParcel, SameRow
    <2> QED BY Zenon, <2>3, <2>4, <2>5 DEF Effect
  <1>4. CASE createShipment(o, c, out, at)
    <2>1. UNCHANGED <<order, events, shelf, hold, payment>> /\ c.step = "ship" /\ book(o, out)
      BY Zenon, <1>4 DEF createShipment
    <2>2. /\ shipment' \in [Order -> BOOLEAN] /\ \A p \in Order \ {o} : shipment'[p] = shipment[p]
          /\ ParcelMoves(o, c, out)
      BY <2>1 DEF book, WorldType, ParcelMoves
    <2>3. WorldType' /\ Elsewhere(o) /\ StockMoves(o)
      BY Zenon, <2>1, <2>2 DEF WorldType, Elsewhere, StockMoves
    <2>4. RowMoves(o, c, out, at) /\ HoldMoves(o, c, out) /\ MoneyMoves(o, c, out)
      BY <2>1 DEF RowMoves, HoldMoves, MoneyMoves, SameMoney, SameRow
    <2> QED BY Zenon, <2>1, <2>2, <2>3, <2>4 DEF Effect
  <1> QED BY Zenon, <1>1, <1>2, <1>3, <1>4 DEF Stretch
-----------------------------------------------------------------------------
(* What the engine does to a saga, and to no other.                        *)

SagaElsewhere(o) == \A p \in Order \ {o} : status'[p] = status[p] /\ cursor'[p] = cursor[p]
SagaType == status \in [Order -> Statuses] /\ cursor \in [Order -> Int]

Stays(o) == status'[o] = status[o] /\ cursor'[o] = cursor[o]
StepsOn(o) ==
    /\ status[o] = "RUNNING"
    /\ \/ cursor[o] < 4 /\ status'[o] = "RUNNING" /\ cursor'[o] = cursor[o] + 1
       \/ cursor[o] = 4 /\ status'[o] = "COMPLETED"
StepsBack(o) ==
    /\ status[o] = "COMPENSATING"
    /\ \/ cursor[o] > 0 /\ status'[o] = "COMPENSATING" /\ cursor'[o] = cursor[o] - 1
       \/ cursor[o] = 0 /\ status'[o] = "COMPENSATED"
Stops(o) ==
    \/ status[o] = "RUNNING" /\ cursor[o] < 4 /\ status'[o] = "COMPENSATING" /\ cursor'[o] = cursor[o]
    \/ status[o] \in {"RUNNING", "COMPENSATING"} /\ status'[o] = "STUCK"

\* A step of the protocol is one of these.
LEMMA EngineMoves ==
    ASSUME SagaType, NEW o \in Order, CallFits(o)
    PROVE  /\ UNCHANGED <<status, cursor>> => SagaType' /\ SagaElsewhere(o) /\ Stays(o)
           /\ Forward(o) => SagaType' /\ SagaElsewhere(o) /\ StepsOn(o)
           /\ Back(o) => SagaType' /\ SagaElsewhere(o) /\ StepsBack(o)
           /\ TurnRound(o) \/ GetStuck(o) => SagaType' /\ SagaElsewhere(o) /\ Stops(o)
  <1>1. UNCHANGED <<status, cursor>> => SagaType' /\ SagaElsewhere(o) /\ Stays(o)
    BY DEF SagaType, SagaElsewhere, Stays
  <1>2. ASSUME Forward(o) PROVE SagaType' /\ SagaElsewhere(o) /\ StepsOn(o)
    BY <1>2 DEF Forward, Move, SagaType, SagaElsewhere, StepsOn, Statuses, CallFits
  <1>3. ASSUME Back(o) PROVE SagaType' /\ SagaElsewhere(o) /\ StepsBack(o)
    BY <1>3 DEF Back, Move, SagaType, SagaElsewhere, StepsBack, Statuses, CallFits
  <1>4. ASSUME TurnRound(o) PROVE SagaType' /\ SagaElsewhere(o) /\ Stops(o)
    BY <1>4 DEF TurnRound, Move, SagaType, SagaElsewhere, Stops, Statuses, CallFits, kind
  <1>5. ASSUME GetStuck(o) PROVE SagaType' /\ SagaElsewhere(o) /\ Stops(o)
    BY <1>5 DEF GetStuck, Move, SagaType, SagaElsewhere, Stops, Statuses
  <1> QED BY Zenon, <1>1, <1>2, <1>3, <1>4, <1>5

\* An order of which nothing changes keeps its invariant.
LEMMA Frame ==
    ASSUME NEW p \in Order, OrderInv(p), UNCHANGED flags,
           status'[p] = status[p], cursor'[p] = cursor[p], call'[p] = call[p],
           orphans'[p] = orphans[p], order'[p] = order[p], events'[p] = events[p],
           hold'[p] = hold[p], payment'[p] = payment[p], shipment'[p] = shipment[p]
    PROVE  OrderInv(p)'
  <1>1. late' = late /\ prompt' = prompt
    BY Zenon DEF flags
  <1>2. CallFits(p)' /\ Untouched(p)'
    <2>1. Idle' = Idle /\ \A i : Steps[i]' = Steps[i]
      BY DEF Idle, Steps
    <2>2. CallFits(p) /\ Untouched(p)
      BY Zenon DEF OrderInv
    <2> QED BY <1>1, <2>1, <2>2 DEF CallFits, Untouched
  <1>3. Done(p)'
    BY Zenon, <1>1 DEF OrderInv, Done, Passed, Captured
  <1>4. ~late => Clean(p)' /\ Written(p)'
    BY Zenon, <1>1 DEF OrderInv, Clean, Written, Passed, Undone, Captured
  <1> QED BY Zenon, <1>1, <1>2, <1>3, <1>4 DEF OrderInv

\* The step under the cursor.
LEMMA StepAt ==
    ASSUME NEW o \in Order, CallFits(o), call[o] # Idle
    PROVE  /\ status[o] = "RUNNING" \/ status[o] = "COMPENSATING"
           /\ cursor[o] \in 0 .. 4
           /\ call[o].forward <=> status[o] = "RUNNING"
           /\ call[o].step = "accept" <=> cursor[o] = 0
           /\ call[o].step = "reserve" <=> cursor[o] = 1
           /\ call[o].step = "charge" <=> cursor[o] = 2
           /\ call[o].step = "ship" <=> cursor[o] = 3
           /\ call[o].step = "confirm" <=> cursor[o] = 4
  <1>1. /\ status[o] \in {"RUNNING", "COMPENSATING"} /\ cursor[o] \in 0 .. 4
        /\ call[o].forward = (status[o] = "RUNNING")
        /\ call[o].step = Steps[cursor[o] + 1]
    BY DEF CallFits
  <1>2. /\ Steps[1] = "accept" /\ Steps[2] = "reserve" /\ Steps[3] = "charge" /\ Steps[4] = "ship"
        /\ Steps[5] = "confirm"
    BY DEF Steps
  <1>3. cursor[o] = 0 \/ cursor[o] = 1 \/ cursor[o] = 2 \/ cursor[o] = 3 \/ cursor[o] = 4
    BY <1>1
  <1>4. call[o].forward <=> status[o] = "RUNNING"
    BY Zenon, <1>1
  <1> QED BY <1>1, <1>2, <1>3, <1>4

\* What the awaited call does, with what the engine makes of its outcome.
CallMoves(o, out, at) ==
    \/ call'[o] = Idle /\ Stays(o)
    \/ call'[o] = Idle /\ Stops(o)
    \/ call'[o] = Idle /\ out = "completed" /\ call[o].forward /\ StepsOn(o)
    \/ call'[o] = Idle /\ out = "completed" /\ ~call[o].forward /\ StepsBack(o)
    \/ out = "more" /\ Stays(o) /\ call'[o] = [call[o] EXCEPT !.at = at]

\* The awaited call of an order preserves what is said of it.
LEMMA CallStep ==
    ASSUME OrdersType, NEW o \in Order, OrderInv(o), call[o] # Idle, UNCHANGED flags,
           orphans'[o] = orphans[o], NEW out, NEW at, Effect(o, call[o], out, at),
           CallMoves(o, out, at)
    PROVE  OrderInv(o)'
  <1>0. late' = late /\ prompt' = prompt
    BY Zenon DEF flags
  <1>t. /\ status[o] \in Statuses /\ cursor[o] \in Int /\ call[o] \in Calls
        /\ events[o] \in Staged /\ events'[o] \in Staged
    BY Zenon DEF OrdersType, Effect, WorldType
  <1>s. CallFits(o)
    BY Zenon DEF OrderInv
  <1>a. /\ status[o] = "RUNNING" \/ status[o] = "COMPENSATING"
        /\ cursor[o] \in 0 .. 4
        /\ call[o].forward <=> status[o] = "RUNNING"
        /\ call[o].step = "accept" <=> cursor[o] = 0
        /\ call[o].step = "reserve" <=> cursor[o] = 1
        /\ call[o].step = "charge" <=> cursor[o] = 2
        /\ call[o].step = "ship" <=> cursor[o] = 3
        /\ call[o].step = "confirm" <=> cursor[o] = 4
    BY Zenon, <1>s, StepAt
  <1>c. /\ call'[o] = Idle \/ (call'[o].step = call[o].step /\ call'[o].forward = call[o].forward)
    BY <1>t DEF CallMoves, Calls
  <1>1. CallFits(o)'
    <2>1. CASE Stays(o)
      BY <1>s, <1>c, <1>0, <2>1 DEF CallFits, Stays
    <2>2. CASE ~Stays(o)
      <3>1. call'[o] = Idle /\ (Stops(o) \/ StepsOn(o) \/ StepsBack(o))
        BY Zenon, <2>2 DEF CallMoves
      <3>2. /\ status'[o] = "RUNNING" => status[o] = "RUNNING" /\ cursor'[o] \in 0 .. 4
            /\ status'[o] = "COMPENSATING" => cursor'[o] \in 0 .. 3
            /\ status'[o] \in {"ABSENT", "RUNNING", "COMPLETED"} => status[o] = "RUNNING"
        BY <3>1, <1>a, <1>s DEF Stops, StepsOn, StepsBack, CallFits
      <3> QED BY <3>1, <3>2, <1>s, <1>0 DEF CallFits
    <2> QED BY Zenon, <2>1, <2>2
  <1>2. Untouched(o)'
    BY <1>a DEF CallMoves, Untouched, Stays, StepsOn, StepsBack, Stops
  <1>3. Done(o)'
    <2>1. /\ status'[o] \in {"RUNNING", "COMPLETED"} => status[o] = "RUNNING"
          /\ Passed(o, 1)' => status[o] = "RUNNING" /\ (cursor[o] > 1 \/ (cursor[o] = 1 /\ out = "completed"))
          /\ Passed(o, 2)' => status[o] = "RUNNING" /\ (cursor[o] > 2 \/ (cursor[o] = 2 /\ out = "completed"))
          /\ Passed(o, 3)' => status[o] = "RUNNING" /\ (cursor[o] > 3 \/ (cursor[o] = 3 /\ out = "completed"))
      BY <1>a DEF CallMoves, Passed, Stays, StepsOn, StepsBack, Stops
    <2>2. Done(o)
      BY Zenon DEF OrderInv
    <2>3. HoldMoves(o, call[o], out) /\ MoneyMoves(o, call[o], out) /\ ParcelMoves(o, call[o], out)
      BY Zenon DEF Effect
    <2>4. /\ status'[o] \in {"RUNNING", "COMPLETED"} => hold'[o] # "released"
          /\ Passed(o, 1)' => hold'[o] = "held"
      <3>1. hold[o] \in {"none", "held", "released"} /\ hold'[o] \in {"none", "held", "released"}
        BY Zenon DEF OrdersType, Effect, WorldType
      <3> QED BY <2>1, <2>2, <2>3, <3>1, <1>a DEF Done, HoldMoves, Passed
    <2>5. /\ prompt => payment'[o] # "processing"
          /\ prompt /\ Passed(o, 2)' => payment'[o] \in Captured
      BY <2>1, <2>2, <2>3, <1>a DEF Done, MoneyMoves, SameMoney, Passed
    <2>6. Passed(o, 3)' => shipment'[o]
      BY <2>1, <2>2, <2>3, <1>a DEF Done, ParcelMoves, SameParcel, Passed
    <2> QED BY <2>4, <2>5, <2>6, <1>0 DEF Done, Captured
  <1>4. ASSUME ~late PROVE Clean(o)'
    <2>1. /\ status'[o] = "RUNNING" /\ cursor'[o] < 1 => status[o] = "RUNNING" /\ cursor[o] = 0
          /\ status'[o] = "RUNNING" /\ cursor'[o] < 2 =>
                status[o] = "RUNNING" /\ cursor[o] < 2
          /\ Undone(o, 1)' => \/ status[o] = "COMPENSATING" /\ cursor[o] = 0
                              \/ status[o] = "COMPENSATING" /\ cursor[o] = 1 /\ out = "completed"
                              \/ status[o] = "RUNNING" /\ cursor[o] = 0
          /\ Undone(o, 2)' => \/ status[o] = "COMPENSATING" /\ cursor[o] < 2
                              \/ status[o] = "COMPENSATING" /\ cursor[o] = 2 /\ out = "completed"
                              \/ status[o] = "RUNNING" /\ cursor[o] < 2
      BY <1>a DEF CallMoves, Undone, Stays, StepsOn, StepsBack, Stops
    <2>2. Clean(o)
      BY Zenon, <1>4 DEF OrderInv
    <2>3. HoldMoves(o, call[o], out) /\ MoneyMoves(o, call[o], out)
      BY Zenon DEF Effect
    <2>4. /\ status'[o] = "RUNNING" /\ cursor'[o] < 1 => hold'[o] = "none"
          /\ Undone(o, 1)' => hold'[o] # "held"
      BY <2>1, <2>2, <2>3, <1>a DEF Clean, HoldMoves, Undone
    <2>5. /\ status'[o] = "RUNNING" /\ cursor'[o] < 2 => payment'[o] = "none"
          /\ prompt /\ Undone(o, 2)' => payment'[o] \notin Captured
      <3>1. "none" \notin Captured
        BY DEF Captured
      <3> QED BY <2>1, <2>2, <2>3, <3>1, <1>a DEF Clean, MoneyMoves, SameMoney, Undone
    <2> QED BY <2>4, <2>5, <1>0 DEF Clean, Captured
  <1>5. ASSUME ~late PROVE Written(o)'
    <2>1. Written(o)
      BY Zenon, <1>5 DEF OrderInv
    <2>2. RowMoves(o, call[o], out, at)
      BY Zenon DEF Effect
    <2>3. /\ events[o].cancelled \in Nat /\ events[o].confirmed \in Nat
          /\ events'[o].cancelled \in Nat /\ events'[o].confirmed \in Nat
      BY <1>t DEF Staged
    <2>4. /\ status'[o] = "RUNNING" => status[o] = "RUNNING"
          /\ status'[o] # "ABSENT"
          /\ status[o] = "RUNNING" /\ cursor[o] = 4 =>
                status'[o] \in {"COMPLETED", "STUCK"} \/ Passed(o, 3)'
          /\ status'[o] = "COMPENSATED" =>
                status[o] = "COMPENSATING" /\ cursor[o] = 0 /\ out = "completed"
          /\ status'[o] = "COMPLETED" => status[o] = "RUNNING" /\ cursor[o] = 4 /\ out = "completed"
      BY <1>a DEF CallMoves, Passed, Stays, StepsOn, StepsBack, Stops
    <2>5. /\ status[o] = "COMPENSATING" => events[o].confirmed = 0
          /\ status[o] = "RUNNING" => events[o].cancelled = 0
          /\ status[o] = "RUNNING" /\ cursor[o] < 4 => events[o].confirmed = 0
      BY <2>1, <1>a DEF Written, Passed
    <2>6. call'[o] = Idle \/ out = "more"
      BY Zenon DEF CallMoves
    <2>7. call'[o] = Idle => call'[o].step = "none"
      BY DEF Idle
    <2>8. CASE SameRow(o)
      BY <1>a, <1>c, <2>1, <2>2, <2>3, <2>4, <2>5, <2>6, <2>7, <2>8 DEF Written, SameRow, RowMoves
    <2>9. CASE ~SameRow(o)
      <3>1. CASE call[o].step = "accept" /\ call[o].forward
        <4>1. events'[o] = events[o] /\ order'[o] = "PROCESSING"
          BY <2>2, <2>9, <3>1 DEF RowMoves, SameRow
        <4> QED BY <1>a, <1>c, <2>3, <2>4, <2>5, <2>6, <2>7, <3>1, <4>1 DEF Written
      <3>2. CASE call[o].step = "accept" /\ ~call[o].forward
        <4>1. /\ call[o].at = "write" /\ out = "completed" /\ order[o] # "none" /\ order'[o] = "CANCELLED"
              /\ events'[o].cancelled = events[o].cancelled + 1
              /\ events'[o].confirmed = events[o].confirmed
          BY <2>2, <2>9, <3>2 DEF RowMoves
        <4>2. events[o].cancelled = 0
          BY <2>1, <3>2, <4>1 DEF Written
        <4> QED BY <1>a, <2>3, <2>4, <2>5, <2>6, <2>7, <3>2, <4>1, <4>2 DEF Written
      <3>3. CASE call[o].step = "confirm"
        <4>1. /\ call[o].at = "write" /\ out = "completed" /\ order[o] # "none" /\ order'[o] = "CONFIRMED"
              /\ events'[o].confirmed = events[o].confirmed + 1
              /\ events'[o].cancelled = events[o].cancelled
          BY <2>2, <2>9, <3>3 DEF RowMoves
        <4>2. events[o].confirmed = 0
          BY <2>1, <3>3, <4>1 DEF Written
        <4>3. status[o] = "RUNNING"
          BY <1>a, <1>s, <3>3 DEF CallFits
        <4> QED BY <1>a, <2>3, <2>4, <2>5, <2>6, <2>7, <3>3, <4>1, <4>2, <4>3 DEF Written
      <3> QED BY <2>2, <2>9, <3>1, <3>2, <3>3 DEF RowMoves
    <2> QED BY Zenon, <2>8, <2>9
  <1> QED BY Zenon, <1>0, <1>1, <1>2, <1>3, <1>4, <1>5 DEF OrderInv
\* An await that did nothing is a stretch that failed.
LEMMA NoEffect ==
    ASSUME WorldType, NEW o \in Order, NEW c \in Calls, UNCHANGED world
    PROVE  Effect(o, c, "failed", "idle")
  <1>1. /\ order' = order /\ events' = events /\ shelf' = shelf /\ hold' = hold
        /\ payment' = payment /\ shipment' = shipment
    BY Zenon DEF world
  <1>2. WorldType' /\ Elsewhere(o) /\ StockMoves(o)
    BY Zenon, <1>1 DEF WorldType, Elsewhere, StockMoves
  <1>3. RowMoves(o, c, "failed", "idle")
    BY <1>1 DEF RowMoves, SameRow
  <1>4. MoneyMoves(o, c, "failed") /\ HoldMoves(o, c, "failed") /\ ParcelMoves(o, c, "failed")
    BY <1>1 DEF MoneyMoves, HoldMoves, ParcelMoves, SameMoney, SameParcel
  <1> QED BY Zenon, <1>2, <1>3, <1>4 DEF Effect

\* Units stay in step with the reservations.
LEMMA StockKept ==
    ASSUME SetFacts, OrdersAssumption, OrdersType, IsFiniteSet(Held), shelf + Cardinality(Held) = Stock,
           NEW o \in Order, StockMoves(o)
    PROVE  IsFiniteSet(Held') /\ shelf' + Cardinality(Held') = Stock
  <1>1. shelf \in Int /\ Stock \in Int /\ Cardinality(Held) \in Nat
    BY Zenon DEF OrdersType, OrdersAssumption, SetFacts
  <1>2. CASE shelf' = shelf /\ hold' = hold
    BY Zenon, <1>2 DEF Held
  <1>3. CASE hold[o] = "none" /\ shelf' = shelf - 1 /\ hold' = [hold EXCEPT ![o] = "held"]
    <2>1. Held' = Held \cup {o} /\ o \notin Held
      BY <1>3 DEF Held, OrdersType
    <2>2. IsFiniteSet(Held') /\ Cardinality(Held') = Cardinality(Held) + 1
      BY Zenon, <2>1 DEF SetFacts
    <2> QED BY <1>1, <1>3, <2>2
  <1>4. CASE hold[o] = "held" /\ shelf' = shelf + 1 /\ hold' = [hold EXCEPT ![o] = "released"]
    <2>1. Held' = Held \ {o} /\ o \in Held
      BY <1>4 DEF Held, OrdersType
    <2>2. IsFiniteSet(Held') /\ Cardinality(Held') = Cardinality(Held) - 1
      BY Zenon, <2>1 DEF SetFacts
    <2> QED BY <1>1, <1>4, <2>2
  <1> QED BY Zenon, <1>2, <1>3, <1>4 DEF StockMoves

\* What a step of o leaves of the invariant to show: what is said of o.
CallsType == call \in [Order -> Calls] /\ orphans \in [Order -> SUBSET Calls]
CallElsewhere(o) == \A p \in Order \ {o} : call'[p] = call[p] /\ orphans'[p] = orphans[p]

\* A step of one order leaves the invariant of every other as it was.
LEMMA OneOrder ==
    ASSUME SetFacts, OrdersAssumption, OrdersInv, NEW o \in Order, UNCHANGED flags,
           SagaType', CallsType', WorldType', SagaElsewhere(o), CallElsewhere(o), Elsewhere(o),
           StockMoves(o), OrderInv(o)'
    PROVE  OrdersInv'
  <1>1. OrdersType'
    <2>1. late' = late /\ prompt' = prompt
      BY Zenon DEF flags
    <2>2. late \in BOOLEAN /\ prompt \in BOOLEAN
      BY Zenon DEF OrdersInv, OrdersType
    <2> QED BY Zenon, <2>1, <2>2 DEF OrdersType, SagaType, CallsType, WorldType
  <1>2. ASSUME NEW p \in Order PROVE OrderInv(p)'
    <2>1. CASE p = o
      BY Zenon, <2>1
    <2>2. CASE p # o
      <3>1. OrderInv(p) /\ p \in Order \ {o}
        BY Zenon, <2>2 DEF OrdersInv
      <3> QED BY Zenon, <3>1, Frame DEF SagaElsewhere, CallElsewhere, Elsewhere
    <2> QED BY Zenon, <2>1, <2>2
  <1>3. IsFiniteSet(Held') /\ shelf' + Cardinality(Held') = Stock
    BY Zenon, StockKept DEF OrdersInv
  <1> QED BY Zenon, <1>1, <1>2, <1>3 DEF OrdersInv

\* The invariant's types, by part.
LEMMA Types ==
    ASSUME OrdersInv
    PROVE  OrdersType /\ SagaType /\ CallsType /\ WorldType
  BY Zenon DEF OrdersInv, OrdersType, SagaType, CallsType, WorldType

\* A call that ends, or that the engine gives up on, touches only its order.
LEMMA AwaitedCall ==
    ASSUME SetFacts, OrdersAssumption, OrdersInv, NEW o \in Order, call[o] # Idle, UNCHANGED flags,
           orphans' = orphans, NEW out, NEW at, Effect(o, call[o], out, at), CallMoves(o, out, at),
           SagaType', SagaElsewhere(o), NEW c \in Calls, call' = [call EXCEPT ![o] = c]
    PROVE  OrdersInv'
  <1>1. OrdersType /\ CallsType /\ OrderInv(o)
    BY Zenon, Types DEF OrdersInv
  <1>2. CallsType' /\ CallElsewhere(o)
    BY <1>1 DEF CallsType, CallElsewhere
  <1>3. OrderInv(o)'
    BY Zenon, <1>1, CallStep
  <1> QED BY Zenon, <1>2, <1>3, OneOrder DEF Effect
\* A failure counts, or ends the direction the saga was going in.
LEMMA FailsMoves ==
    ASSUME SagaType, NEW o \in Order, CallFits(o), Fails(o) \/ GivesUp(o)
    PROVE  SagaType' /\ SagaElsewhere(o) /\ (Stays(o) \/ Stops(o))
  <1>1. UNCHANGED <<status, cursor>> \/ TurnRound(o) \/ GetStuck(o)
    BY Zenon DEF Fails, GivesUp
  <1> QED BY Zenon, <1>1, EngineMoves

\* Every action of one order preserves the invariant.
LEMMA OrderStep ==
    ASSUME SetFacts, OrdersAssumption, OrdersInv, NEW o \in Order,
           \/ placeOrder(o) \/ AccountDeleted(o) \/ GatewayMoves(o) \/ BeginCall(o) \/ SkipPivot(o)
           \/ Runs(o) \/ Throws(o) \/ Lost(o) \/ TimesOut(o) \/ LeaseLapses(o) \/ OrphanRuns(o)
    PROVE  OrdersInv'
  <1>0. /\ OrdersType /\ SagaType /\ CallsType /\ WorldType
        /\ OrderInv(o) /\ CallFits(o)
    BY Zenon, Types DEF OrdersInv, OrderInv
  <1>c. call[o] \in Calls /\ Idle \in Calls /\ orphans[o] \subseteq Calls
    BY <1>0 DEF CallsType, Idle, Calls, Awaits
  <1>h. Hangs(o) => call' = [call EXCEPT ![o] = Idle] /\ call'[o] = Idle
    BY <1>0 DEF Hangs, CallsType
  <1>p. prompt \in BOOLEAN
    BY Zenon, <1>0 DEF OrdersType
  <1>r. /\ status[o] = "RUNNING" => cursor[o] \in 0 .. 4
        /\ status[o] = "COMPENSATING" => cursor[o] \in 0 .. 3
        /\ orphans[o] # {} => late
        /\ status[o] \in {"ABSENT", "RUNNING", "COMPLETED"} => \A c \in orphans[o] : c.forward
    BY Zenon, <1>0 DEF CallFits
  <1>1. CASE placeOrder(o)
    <2>1. /\ status[o] = "ABSENT" /\ status' = [status EXCEPT ![o] = "RUNNING"]
          /\ cursor' = [cursor EXCEPT ![o] = 0]
          /\ order' = [order EXCEPT ![o] = "PENDING"]
          /\ events' = [events EXCEPT ![o].placed = @ + 1]
          /\ UNCHANGED flags /\ call' = call /\ orphans' = orphans /\ shelf' = shelf /\ hold' = hold
          /\ payment' = payment /\ shipment' = shipment
      BY Zenon, <1>1 DEF placeOrder, Started, Move
    <2>2. SagaType' /\ SagaElsewhere(o) /\ status'[o] = "RUNNING" /\ cursor'[o] = 0
      BY <1>0, <2>1 DEF SagaType, SagaElsewhere, Statuses
    <2>3. /\ WorldType' /\ Elsewhere(o) /\ order'[o] = "PENDING"
          /\ events'[o].confirmed = events[o].confirmed /\ events'[o].cancelled = events[o].cancelled
      BY <1>0, <2>1 DEF WorldType, Elsewhere, Staged
    <2>4. StockMoves(o) /\ CallsType' /\ CallElsewhere(o)
      BY Zenon, <1>0, <2>1 DEF StockMoves, CallsType, CallElsewhere
    <2>5. OrderInv(o)'
      <3>1. /\ call[o] = Idle /\ orphans[o] = {} /\ hold[o] = "none" /\ payment[o] = "none"
            /\ events[o].confirmed = 0 /\ events[o].cancelled = 0
        BY <1>0, <2>1 DEF OrderInv, CallFits, Untouched
      <3>2. CallFits(o)' /\ Untouched(o)'
        BY <2>1, <2>2, <3>1 DEF CallFits, Untouched
      <3>3. Done(o)' /\ Clean(o)'
        BY <2>1, <2>2, <3>1 DEF Done, Clean, Passed, Undone
      <3>4. Written(o)'
        BY <2>1, <2>2, <2>3, <3>1 DEF Written, Idle
      <3> QED BY Zenon, <3>2, <3>3, <3>4 DEF OrderInv
    <2> QED BY Zenon, <2>1, <2>2, <2>3, <2>4, <2>5, OneOrder
  <1>2. CASE AccountDeleted(o)
    <2>1. /\ order' = [order EXCEPT ![o] = "none"] /\ events' = events
          /\ UNCHANGED flags /\ status' = status /\ cursor' = cursor /\ call' = call /\ orphans' = orphans
          /\ shelf' = shelf /\ hold' = hold /\ payment' = payment /\ shipment' = shipment
      BY Zenon, <1>2 DEF AccountDeleted, engine
    <2>2. WorldType' /\ Elsewhere(o) /\ order'[o] = "none"
      BY <1>0, <2>1 DEF WorldType, Elsewhere
    <2>3. StockMoves(o) /\ CallsType' /\ CallElsewhere(o) /\ SagaType' /\ SagaElsewhere(o)
      BY Zenon, <1>0, <2>1 DEF StockMoves, CallsType, CallElsewhere, SagaType, SagaElsewhere
    <2>4. OrderInv(o)'
      <3>1. late' = late /\ prompt' = prompt
        BY Zenon, <2>1 DEF flags
      <3>2. CallFits(o)' /\ Untouched(o)' /\ Done(o)'
        BY <1>0, <2>1, <2>2, <3>1 DEF OrderInv, CallFits, Untouched, Done, Passed
      <3>3. ~late => Clean(o)' /\ Written(o)'
        BY <1>0, <2>1, <2>2, <3>1 DEF OrderInv, Clean, Written, Passed, Undone
      <3> QED BY Zenon, <3>1, <3>2, <3>3 DEF OrderInv
    <2> QED BY Zenon, <2>1, <2>2, <2>3, <2>4, OneOrder
  <1>3. CASE GatewayMoves(o)
    <2>0. PICK m \in Moves : payment[o] = m[1] /\ payment' = [payment EXCEPT ![o] = m[2]]
      BY Zenon, <1>3 DEF GatewayMoves
    <2>1. /\ order' = order /\ events' = events
          /\ UNCHANGED flags /\ status' = status /\ cursor' = cursor /\ call' = call /\ orphans' = orphans
          /\ shelf' = shelf /\ hold' = hold /\ shipment' = shipment
      BY Zenon, <1>3 DEF GatewayMoves, engine
    <2>2. /\ WorldType' /\ Elsewhere(o) /\ payment[o] # "none" /\ payment'[o] # "processing"
          /\ payment[o] \in Captured => payment'[o] \in Captured
          /\ payment[o] \notin Captured /\ payment[o] # "processing" => payment'[o] \notin Captured
      BY <1>0, <2>0, <2>1 DEF WorldType, Elsewhere, Moves, Captured
    <2>3. StockMoves(o) /\ CallsType' /\ CallElsewhere(o) /\ SagaType' /\ SagaElsewhere(o)
      BY Zenon, <1>0, <2>1 DEF StockMoves, CallsType, CallElsewhere, SagaType, SagaElsewhere
    <2>4. OrderInv(o)'
      <3>1. late' = late /\ prompt' = prompt /\ Captured' = Captured
        BY Zenon, <2>1 DEF flags, Captured
      <3>2. CallFits(o)' /\ Untouched(o)' /\ Done(o)'
        BY <1>0, <2>1, <2>2, <3>1 DEF OrderInv, CallFits, Untouched, Done, Passed
      <3>3. ~late => Clean(o)' /\ Written(o)'
        BY <1>0, <2>1, <2>2, <3>1 DEF OrderInv, Clean, Written, Passed, Undone, Done
      <3> QED BY Zenon, <3>1, <3>2, <3>3 DEF OrderInv
    <2> QED BY Zenon, <2>1, <2>2, <2>3, <2>4, OneOrder
  <1>4. CASE BeginCall(o)
    <2> DEFINE c == [step |-> Steps[cursor[o] + 1], forward |-> status[o] = "RUNNING",
                     at |-> FirstAwait(Steps[cursor[o] + 1], status[o] = "RUNNING")]
    <2>1. /\ UNCHANGED flags /\ status' = status /\ cursor' = cursor /\ orphans' = orphans
          /\ order' = order /\ events' = events
          /\ shelf' = shelf /\ hold' = hold /\ payment' = payment /\ shipment' = shipment
          /\ status[o] \in {"RUNNING", "COMPENSATING"} /\ call' = [call EXCEPT ![o] = c]
      BY Zenon, <1>4 DEF BeginCall, engine, world
    <2>2. /\ c.step = Steps[cursor[o] + 1] /\ c.forward = (status[o] = "RUNNING")
          /\ c.at # "write" /\ c \in Calls
      <3>0. status[o] \in {"RUNNING", "COMPENSATING"}
        BY Zenon, <2>1
      <3>1. cursor[o] \in 0 .. 4
        BY ONLY <1>r, <3>0, SMT
      <3>2. Steps[cursor[o] + 1] \in {"accept", "reserve", "charge", "ship", "confirm"}
        BY <3>1 DEF Steps
      <3> QED BY <3>2 DEF FirstAwait, Calls, Awaits
    <2> HIDE DEF c
    <2>3. CallsType' /\ CallElsewhere(o) /\ call'[o] = c
      BY <1>0, <2>1, <2>2 DEF CallsType, CallElsewhere
    <2>4. StockMoves(o) /\ WorldType' /\ Elsewhere(o) /\ SagaType' /\ SagaElsewhere(o)
      BY Zenon, <1>0, <2>1 DEF StockMoves, WorldType, Elsewhere, SagaType, SagaElsewhere
    <2>5. OrderInv(o)'
      <3>1. late' = late /\ prompt' = prompt
        BY Zenon, <2>1 DEF flags
      <3>2. CallFits(o)'
        BY <1>0, <2>1, <2>2, <2>3, <3>1 DEF CallFits
      <3>3. Untouched(o)' /\ Done(o)'
        BY <1>0, <2>1, <3>1 DEF OrderInv, Untouched, Done, Passed
      <3>4. ~late => Clean(o)' /\ Written(o)'
        BY <1>0, <2>1, <2>2, <2>3, <3>1 DEF OrderInv, Clean, Written, Passed, Undone
      <3> QED BY Zenon, <3>1, <3>2, <3>3, <3>4 DEF OrderInv
    <2> QED BY Zenon, <2>1, <2>3, <2>4, <2>5, OneOrder
  <1>5. CASE SkipPivot(o)
    <2>1. /\ UNCHANGED flags /\ call' = call /\ orphans' = orphans /\ call[o] = Idle
          /\ order' = order /\ events' = events
          /\ shelf' = shelf /\ hold' = hold /\ payment' = payment /\ shipment' = shipment
          /\ status[o] = "COMPENSATING" /\ kind[cursor[o]] = "pivot" /\ Back(o)
      BY Zenon, <1>5 DEF SkipPivot, world
    <2>2. SagaType' /\ SagaElsewhere(o) /\ StepsBack(o)
      BY Zenon, <1>0, <2>1, EngineMoves
    <2>3. cursor[o] = 3
      <3>1. cursor[o] \in 0 .. 3 /\ kind[cursor[o]] = "pivot"
        BY Zenon, <1>r, <2>1
      <3> QED BY ONLY <3>1, SMT DEF kind
    <2>4. status'[o] = "COMPENSATING" /\ cursor'[o] = 2
      <3>1. StepsBack(o)
        BY Zenon, <2>2
      <3> QED BY ONLY <2>3, <3>1, SMT DEF StepsBack
    <2>5. StockMoves(o) /\ WorldType' /\ Elsewhere(o) /\ CallsType' /\ CallElsewhere(o)
      BY Zenon, <1>0, <2>1 DEF StockMoves, WorldType, Elsewhere, CallsType, CallElsewhere
    <2>6. OrderInv(o)'
      <3>1. late' = late /\ prompt' = prompt
        BY Zenon, <2>1 DEF flags
      <3>0. /\ status[o] = "COMPENSATING" /\ status'[o] = "COMPENSATING" /\ cursor[o] = 3 /\ cursor'[o] = 2
            /\ call'[o] = Idle /\ orphans'[o] = orphans[o] /\ order'[o] = order[o]
            /\ events'[o] = events[o] /\ hold'[o] = hold[o] /\ payment'[o] = payment[o]
            /\ shipment'[o] = shipment[o] /\ call'[o] = call[o]
        BY Zenon, <2>1, <2>3, <2>4
      <3>2. CallFits(o)'
        BY ONLY <1>r, <3>0, <3>1, SMT DEF CallFits
      <3>3. Untouched(o)' /\ Done(o)'
        <4>1. Done(o)
          BY Zenon, <1>0 DEF OrderInv
        <4> QED BY ONLY <3>0, <3>1, <4>1, SMT DEF Untouched, Done, Passed, Captured
      <3>4. ~late => Clean(o)' /\ Written(o)'
        <4>1. ~late => Clean(o) /\ Written(o)
          BY Zenon, <1>0 DEF OrderInv
        <4> QED BY ONLY <3>0, <3>1, <4>1, SMT DEF Clean, Written, Passed, Undone, Captured
      <3> QED BY Zenon, <3>1, <3>2, <3>3, <3>4 DEF OrderInv
    <2> QED BY Zenon, <2>1, <2>2, <2>5, <2>6, OneOrder
  <1>6. CASE Runs(o)
    <2>1. call[o] # Idle /\ UNCHANGED flags /\ orphans' = orphans
      BY Zenon, <1>6 DEF Runs
    <2>2. PICK out \in Outcomes, at \in Awaits :
             /\ Stretch(o, call[o], out, at)
             /\ CASE out = "more" -> call' = [call EXCEPT ![o].at = at] /\ UNCHANGED engine
                  [] out = "completed" -> Hangs(o) /\ Succeeds(o, call[o])
                  [] out = "failed" -> Hangs(o) /\ Fails(o)
                  [] out = "unretryable" -> Hangs(o) /\ GivesUp(o)
      BY Zenon, <1>6, OnwardTyped DEF Runs
    <2>3. Effect(o, call[o], out, at)
      BY Zenon, <1>0, <1>c, <1>p, <2>2, StretchEffect
    <2>4. CASE out = "more"
      <3>1. call' = [call EXCEPT ![o] = [call[o] EXCEPT !.at = at]] /\ status' = status /\ cursor' = cursor
        BY <2>2, <2>4 DEF engine
      <3>2. /\ [call[o] EXCEPT !.at = at] \in Calls
            /\ call'[o] = [call[o] EXCEPT !.at = at]
        BY <1>0, <1>c, <3>1 DEF Calls, CallsType
      <3>3. SagaType' /\ SagaElsewhere(o) /\ Stays(o)
        BY Zenon, <1>0, <3>1, EngineMoves
      <3>4. CallMoves(o, out, at)
        BY Zenon, <2>4, <3>2, <3>3 DEF CallMoves
      <3> QED BY Zenon, <1>0, <2>1, <2>3, <3>1, <3>2, <3>3, <3>4, AwaitedCall
    <2>5. CASE out = "completed"
      <3>1. Hangs(o) /\ (IF call[o].forward THEN Forward(o) ELSE Back(o))
        BY <2>2, <2>5 DEF Succeeds
      <3>2. /\ SagaType' /\ SagaElsewhere(o)
            /\ (call[o].forward /\ StepsOn(o)) \/ (~call[o].forward /\ StepsBack(o))
        BY Zenon, <1>0, <3>1, EngineMoves
      <3>3. CallMoves(o, out, at)
        BY Zenon, <1>h, <2>5, <3>1, <3>2 DEF CallMoves
      <3> QED BY Zenon, <1>0, <1>c, <1>h, <2>1, <2>3, <3>1, <3>2, <3>3, AwaitedCall
    <2>6. CASE out = "failed" \/ out = "unretryable"
      <3>1. Hangs(o) /\ (Fails(o) \/ GivesUp(o))
        BY <2>2, <2>6
      <3>2. SagaType' /\ SagaElsewhere(o) /\ (Stays(o) \/ Stops(o))
        BY Zenon, <1>0, <3>1, FailsMoves
      <3>3. CallMoves(o, out, at)
        BY Zenon, <1>h, <3>1, <3>2 DEF CallMoves
      <3> QED BY Zenon, <1>0, <1>c, <1>h, <2>1, <2>3, <3>1, <3>2, <3>3, AwaitedCall
    <2> QED BY Zenon, <2>4, <2>5, <2>6 DEF Outcomes
  <1>7. CASE Throws(o) \/ Lost(o)
    <2>1. call[o] # Idle /\ UNCHANGED flags /\ orphans' = orphans /\ Hangs(o)
      BY Zenon, <1>7 DEF Throws, Lost
    <2>2. PICK out, at : Effect(o, call[o], out, at)
      <3>1. UNCHANGED world \/ \E out \in Outcomes, at \in Awaits : Stretch(o, call[o], out, at)
        BY Zenon, <1>7, OnwardTyped DEF Throws, Lost
      <3> QED BY Zenon, <1>0, <1>c, <1>p, <3>1, NoEffect, StretchEffect
    <2>3. SagaType' /\ SagaElsewhere(o) /\ (Stays(o) \/ Stops(o))
      <3>1. CASE Throws(o)
        BY Zenon, <1>0, <3>1, FailsMoves DEF Throws
      <3>2. CASE Lost(o)
        BY Zenon, <1>0, <3>2, EngineMoves DEF Lost, engine
      <3> QED BY Zenon, <1>7, <3>1, <3>2
    <2>4. CallMoves(o, out, at)
      BY Zenon, <1>h, <2>1, <2>3 DEF CallMoves
    <2> QED BY Zenon, <1>0, <1>c, <1>h, <2>1, <2>2, <2>3, <2>4, AwaitedCall
  <1>8. CASE TimesOut(o) \/ LeaseLapses(o)
    <2>1. /\ late /\ call[o] # Idle /\ UNCHANGED flags /\ Hangs(o)
          /\ orphans' = [orphans EXCEPT ![o] = @ \cup {call[o]}]
          /\ order' = order /\ events' = events
          /\ shelf' = shelf /\ hold' = hold /\ payment' = payment /\ shipment' = shipment
      BY Zenon, <1>8 DEF TimesOut, LeaseLapses, Orphaned, world
    <2>2. SagaType' /\ SagaElsewhere(o) /\ (Stays(o) \/ Stops(o))
      <3>1. CASE TimesOut(o)
        BY Zenon, <1>0, <3>1, FailsMoves DEF TimesOut
      <3>2. CASE LeaseLapses(o)
        BY Zenon, <1>0, <3>2, EngineMoves DEF LeaseLapses, engine
      <3> QED BY Zenon, <1>8, <3>1, <3>2
    <2>3. CallsType' /\ CallElsewhere(o) /\ orphans'[o] = orphans[o] \cup {call[o]} /\ call'[o] = Idle
      BY <1>0, <1>c, <1>h, <2>1 DEF CallsType, CallElsewhere
    <2>4. StockMoves(o) /\ WorldType' /\ Elsewhere(o)
      BY Zenon, <1>0, <2>1 DEF StockMoves, WorldType, Elsewhere
    <2>5. OrderInv(o)'
      <3>0. late' = late /\ prompt' = prompt
        BY Zenon, <2>1 DEF flags
      <3>1. /\ status[o] = "RUNNING" \/ status[o] = "COMPENSATING"
            /\ cursor[o] \in 0 .. 4
            /\ call[o].forward <=> status[o] = "RUNNING"
        BY Zenon, <1>0, <2>1, StepAt
      <3>2. CallFits(o)'
        <4>1. /\ Stays(o) \/ Stops(o)
              /\ orphans'[o] = orphans[o] \cup {call[o]} /\ call'[o] = Idle /\ late
          BY Zenon, <2>1, <2>2, <2>3
        <4>2. status'[o] \in {"ABSENT", "RUNNING", "COMPLETED"} => \A c \in orphans'[o] : c.forward
          <5>1. status'[o] \in {"ABSENT", "RUNNING", "COMPLETED"} => status[o] = "RUNNING"
            BY ONLY <3>1, <4>1, SMT DEF Stays, Stops
          <5>2. status[o] = "RUNNING" => \A c \in orphans[o] : c.forward
            BY Zenon, <1>r
          <5> QED BY Zenon, <3>1, <4>1, <5>1, <5>2
        <4>3. /\ status'[o] = "RUNNING" => cursor'[o] \in 0 .. 4
              /\ status'[o] = "COMPENSATING" => cursor'[o] \in 0 .. 3
          BY ONLY <1>r, <3>1, <4>1, SMT DEF Stays, Stops
        <4> QED BY Zenon, <3>0, <4>1, <4>2, <4>3 DEF CallFits
      <3>3. Untouched(o)' /\ Done(o)'
        BY <1>0, <2>1, <2>2, <3>0, <3>1 DEF OrderInv, Untouched, Done, Passed, Stays, Stops
      <3> QED BY Zenon, <2>1, <3>0, <3>2, <3>3 DEF OrderInv
    <2> QED BY Zenon, <2>1, <2>2, <2>3, <2>4, <2>5, OneOrder
  <1>9. CASE OrphanRuns(o)
    <2>1. PICK c \in orphans[o], out \in Outcomes, at \in Awaits :
             /\ Stretch(o, c, out, at)
             /\ orphans' = [orphans EXCEPT ![o] =
                    (@ \ {c}) \cup (IF out = "more" THEN {[c EXCEPT !.at = at]} ELSE {})]
      BY Zenon, <1>9, OnwardTyped DEF OrphanRuns
    <2>2. UNCHANGED flags /\ status' = status /\ cursor' = cursor /\ call' = call
      BY Zenon, <1>9 DEF OrphanRuns, engine
    <2>3. Effect(o, c, out, at) /\ c \in Calls
      BY Zenon, <1>0, <1>c, <1>p, <2>1, StretchEffect
    <2>4. [c EXCEPT !.at = at] \in Calls /\ [c EXCEPT !.at = at].forward = c.forward
      BY <2>1, <2>3 DEF Calls
    <2>5. /\ CallsType' /\ CallElsewhere(o)
          /\ orphans'[o] \subseteq orphans[o] \cup {[c EXCEPT !.at = at]}
      BY <1>0, <2>1, <2>2, <2>4 DEF CallsType, CallElsewhere
    <2>6. SagaType' /\ SagaElsewhere(o)
      BY Zenon, <1>0, <2>2, EngineMoves
    <2>7. OrderInv(o)'
      <3>0. late' = late /\ prompt' = prompt
        BY Zenon, <2>2 DEF flags
      <3>1. late /\ status[o] # "ABSENT"
        BY <1>0, <2>1 DEF OrderInv, CallFits, Untouched
      <3>2. status[o] \in {"RUNNING", "COMPLETED"} => c.forward
        BY <1>0, <2>1 DEF CallFits
      <3>3. CallFits(o)'
        BY <1>0, <2>1, <2>2, <2>4, <2>5, <3>0, <3>1, <3>2 DEF CallFits
      <3>4. Untouched(o)'
        BY <2>2, <3>1 DEF Untouched
      <3>5. Done(o)'
        <4>1. Done(o) /\ MoneyMoves(o, c, out) /\ HoldMoves(o, c, out) /\ ParcelMoves(o, c, out)
          BY Zenon, <1>0, <2>3 DEF OrderInv, Effect
        <4>2. hold[o] \in {"none", "held", "released"}
          BY <1>0 DEF WorldType
        <4>3. c.step # "reserve" => hold'[o] = hold[o]
          BY Zenon, <4>1 DEF HoldMoves
        <4>4. Captured' = Captured
          BY DEF Captured
        <4>5. /\ status[o] \in {"RUNNING", "COMPLETED"} => hold'[o] # "released"
              /\ Passed(o, 1) => hold'[o] = "held"
          BY <3>2, <4>1, <4>2, <4>3 DEF Done, HoldMoves, Passed
        <4>6. /\ prompt => payment'[o] # "processing"
              /\ prompt /\ Passed(o, 2) => payment'[o] \in Captured
          BY <3>2, <4>1 DEF Done, MoneyMoves, Passed
        <4>7. Passed(o, 3) => shipment'[o]
          BY <4>1 DEF Done, ParcelMoves
        <4> QED BY <2>2, <3>0, <4>4, <4>5, <4>6, <4>7 DEF Done, Passed
      <3> QED BY Zenon, <3>0, <3>1, <3>3, <3>4, <3>5 DEF OrderInv
    <2> QED BY Zenon, <2>2, <2>3, <2>5, <2>6, <2>7, OneOrder DEF Effect
  <1> QED BY Zenon, <1>1, <1>2, <1>3, <1>4, <1>5, <1>6, <1>7, <1>8, <1>9
\* Every step of the checkouts preserves the invariant.
LEMMA OrdersStep == ASSUME SetFacts, OrdersAssumption, OrdersInv, [Next]_vars PROVE OrdersInv'
  <1>1. CASE Next
    BY Zenon, <1>1, OrderStep DEF Next
  <1>2. CASE UNCHANGED vars
    <2>1. /\ UNCHANGED flags /\ status' = status /\ cursor' = cursor /\ call' = call /\ orphans' = orphans
          /\ order' = order /\ events' = events /\ shelf' = shelf /\ hold' = hold
          /\ payment' = payment /\ shipment' = shipment
      BY Zenon, <1>2 DEF vars, engine, world
    <2>2. OrdersType'
      BY Zenon, <2>1 DEF OrdersInv, OrdersType, flags
    <2>3. \A o \in Order : OrderInv(o)'
      BY Zenon, <2>1, Frame DEF OrdersInv
    <2>4. Held' = Held
      BY Zenon, <2>1 DEF Held
    <2> QED BY Zenon, <2>1, <2>2, <2>3, <2>4 DEF OrdersInv
  <1> QED BY Zenon, <1>1, <1>2

\* The invariant says how checkouts end, and where the units are.
LEMMA OrdersSafe == ASSUME OrdersInv PROVE EndsConsistent /\ StockConserved
  <1>1. StockConserved
    BY Zenon DEF OrdersInv, StockConserved, Held
  <1>2. ASSUME NEW o \in Order, prompt
        PROVE  /\ status[o] = "COMPENSATED" /\ ~late =>
                    /\ order[o] = "none" \/ (order[o] = "CANCELLED" /\ events[o].cancelled = 1)
                    /\ hold[o] # "held"
                    /\ payment[o] \notin Captured
               /\ status[o] = "COMPLETED" =>
                    /\ payment[o] \in Captured /\ hold[o] = "held" /\ shipment[o]
                    /\ ~late => order[o] \in {"CONFIRMED", "none"} /\ events[o].confirmed = 1
    <2>1. OrderInv(o)
      BY Zenon DEF OrdersInv
    <2>2. ASSUME status[o] = "COMPENSATED", ~late
          PROVE  /\ order[o] = "none" \/ (order[o] = "CANCELLED" /\ events[o].cancelled = 1)
                 /\ hold[o] # "held" /\ payment[o] \notin Captured
      BY Zenon, <1>2, <2>1, <2>2 DEF OrderInv, Clean, Written, Undone
    <2>3. ASSUME status[o] = "COMPLETED"
          PROVE  payment[o] \in Captured /\ hold[o] = "held" /\ shipment[o]
      BY Zenon, <1>2, <2>1, <2>3 DEF OrderInv, Done, Passed
    <2>4. ASSUME status[o] = "COMPLETED", ~late
          PROVE  order[o] \in {"CONFIRMED", "none"} /\ events[o].confirmed = 1
      <3>1. Written(o)
        BY Zenon, <2>1, <2>4 DEF OrderInv
      <3> QED BY <2>4, <3>1 DEF Written
    <2> QED BY Zenon, <2>2, <2>3, <2>4
  <1> QED BY Zenon, <1>1, <1>2 DEF EndsConsistent

\* A parcel is booked by the awaited call of the fourth step alone, as long as
\* no call is late; the order is paid for and its stock held by then.
LEMMA OrdersShip == ASSUME OrdersInv, [Next]_vars PROVE ShipsPaid
  <1> SUFFICES ASSUME NEW p \in Order, prompt, ~late, shipment'[p] # shipment[p]
               PROVE  payment[p] \in Captured /\ hold[p] = "held"
    BY Zenon DEF ShipsPaid
  <1>1. PICK o \in Order :
           \/ placeOrder(o) \/ AccountDeleted(o) \/ GatewayMoves(o) \/ BeginCall(o) \/ SkipPivot(o)
           \/ Runs(o) \/ Throws(o) \/ Lost(o) \/ TimesOut(o) \/ LeaseLapses(o) \/ OrphanRuns(o)
    BY Zenon DEF Next, vars, world
  <1>2. /\ OrdersType /\ WorldType /\ CallsType /\ OrderInv(o) /\ CallFits(o)
        /\ prompt \in BOOLEAN
    BY Zenon, Types DEF OrdersInv, OrderInv, OrdersType
  <1>3. ~OrphanRuns(o)
    BY <1>2 DEF OrphanRuns, CallFits
  <1>4. \E out \in Outcomes, at \in Awaits : call[o] # Idle /\ Stretch(o, call[o], out, at)
    BY Zenon, <1>1, <1>3, OnwardTyped
       DEF placeOrder, AccountDeleted, GatewayMoves, BeginCall, SkipPivot, Runs, Throws, Lost, TimesOut,
           LeaseLapses, Orphaned, world
  <1>5. PICK out \in Outcomes, at \in Awaits : call[o] # Idle /\ Stretch(o, call[o], out, at)
    BY Zenon, <1>4
  <1>6. Elsewhere(o) /\ ParcelMoves(o, call[o], out)
    BY Zenon, <1>2, <1>5, StretchEffect DEF Effect, CallsType
  <1>7. p = o /\ call[o].step = "ship"
    BY Zenon, <1>6 DEF Elsewhere, ParcelMoves, SameParcel
  <1>8. call[o].forward
    BY <1>5, <1>7
       DEF Stretch, acceptOrder, cancelOrder, reserveStock, chargePayment, refundPayment,
           createShipment, confirmOrder
  <1>9. status[o] = "RUNNING" /\ cursor[o] = 3
    BY Zenon, <1>2, <1>5, <1>7, <1>8, StepAt
  <1> QED BY <1>2, <1>7, <1>9 DEF OrderInv, Done, Passed

-----------------------------------------------------------------------------
(* Calls to a dependency.  Who holds a permit and who waits for one are    *)
(* disjoint, every timer is due by the call's deadline, and an attempt is  *)
(* counted before it may be sent.                                          *)

CONSTANTS Call, Unsafe, MaxConcurrent, QueueLimits, MaxQueueWait, MaxTries, MaxDelay, AttemptTime,
          Budget, Late, LastStart

VARIABLES maxQueued, now, inFlight, waiting, breaker, exchange

Http == INSTANCE ResilientHttp WITH call <- exchange

HttpAssumption ==
    /\ MaxConcurrent \in Nat /\ MaxQueueWait \in Nat /\ MaxTries \in Nat \ {0} /\ MaxDelay \in Nat
    /\ AttemptTime \in Nat /\ Budget \in Nat /\ Late \in Nat

Timed == {"queued", "sent", "asleep"}

Exchanges ==
    [at : {"new", "admitted", "returned", "threw"} \cup Timed, due : Int, deadline : Int, tries : Int,
     last : {"none", "retryable"}, sent : Int]

HttpType ==
    /\ now \in Int /\ inFlight \in Int
    /\ waiting \in Seq(Call) /\ exchange \in [Call -> Exchanges]

Holders == {c \in Call : Http!Holds(c)}
Queued == {c \in Call : exchange[c].at = "queued"}

\* The permits in use are the calls that hold one; the queue holds each waiting
\* call once, and only while no permit is free.
Permits ==
    /\ IsFiniteSet(Holders) /\ inFlight = Cardinality(Holders) /\ inFlight <= MaxConcurrent
    /\ waiting # <<>> => inFlight = MaxConcurrent
    /\ \A i \in 1 .. Len(waiting) : waiting[i] \in Queued
    /\ \A c \in Queued : \E i \in 1 .. Len(waiting) : waiting[i] = c
    /\ \A i, j \in 1 .. Len(waiting) : waiting[i] = waiting[j] => i = j

\* A call's timers are due by its deadline, and its attempts are counted.
InTime(c) ==
    LET e == exchange[c] IN
    /\ e.at \in Timed => e.due <= e.deadline
    /\ e.at \in Timed \cup {"admitted"} => now <= e.deadline + Late
    /\ e.at = "new" => e.tries = 0
    /\ e.sent <= e.tries /\ e.tries <= Http!ladder(c)
    /\ e.at \in {"queued", "admitted"} => e.sent < e.tries
    /\ e.at = "asleep" => e.tries < Http!ladder(c)

HttpInv == HttpType /\ Permits /\ \A c \in Call : InTime(c)

\* No call has begun, and every permit is free.
LEMMA HttpInit == ASSUME SetFacts, HttpAssumption, Http!Init PROVE HttpInv
  <1>1. now = 0 /\ inFlight = 0 /\ waiting = <<>> /\ exchange = [c \in Call |-> Http!New]
    BY Zenon DEF Http!Init
  <1>2. Http!New \in Exchanges /\ Http!New.at = "new" /\ Http!New.tries = 0 /\ Http!New.sent = 0
    BY DEF Http!New, Exchanges, Timed
  <1>3. HttpType
    BY <1>1, <1>2 DEF HttpType
  <1>4. Holders = {} /\ Queued = {}
    BY <1>1, <1>2 DEF Holders, Queued, Http!Holds
  <1>5. Permits
    BY <1>1, <1>4 DEF Permits, SetFacts, HttpAssumption
  <1>6. \A c \in Call : InTime(c)
    BY <1>1, <1>2 DEF InTime, Http!ladder, HttpAssumption, Timed
  <1> QED BY Zenon, <1>3, <1>5, <1>6 DEF HttpInv

\* A call that does not change, while time stands still, stays in time.
LEMMA HttpFrame ==
    ASSUME NEW c \in Call, InTime(c), now' = now, exchange'[c] = exchange[c]
    PROVE  InTime(c)'
  BY DEF InTime, Http!ladder

\* What a call may come to, seen apart from the bulkhead.
Sound(c, r) ==
    /\ r \in Exchanges
    /\ r.at \in Timed => r.due <= r.deadline
    /\ r.at \in Timed \cup {"admitted"} => now <= r.deadline + Late
    /\ r.at = "new" => r.tries = 0
    /\ r.sent <= r.tries /\ r.tries <= Http!ladder(c)
    /\ r.at \in {"queued", "admitted"} => r.sent < r.tries
    /\ r.at = "asleep" => r.tries < Http!ladder(c)

\* release() hands the permit of c to the first in the queue, if there is one.
LEMMA ReleaseKeeps ==
    ASSUME SetFacts, HttpAssumption, HttpInv, NEW c \in Call, Http!Holds(c), now' = now, NEW r,
           Sound(c, r), r.at \notin {"admitted", "sent", "queued"}, Http!release(c, r)
    PROVE  HttpInv'
  <1>0. /\ HttpType /\ Permits /\ \A d \in Call : InTime(d)
        /\ exchange \in [Call -> Exchanges] /\ waiting \in Seq(Call) /\ inFlight \in Int
        /\ c \in Holders /\ c \notin Queued /\ r \in Exchanges
    BY DEF HttpInv, HttpType, Holders, Queued, Http!Holds, Sound
  <1>1. CASE waiting = <<>>
    <2>1. inFlight' = inFlight - 1 /\ waiting' = waiting /\ exchange' = [exchange EXCEPT ![c] = r]
      BY Zenon, <1>1 DEF Http!release
    <2>2. HttpType'
      BY <1>0, <2>1 DEF HttpType
    <2>3. Holders' = Holders \ {c} /\ Queued' = Queued
      BY <1>0, <2>1 DEF Holders, Queued, Http!Holds
    <2>4. IsFiniteSet(Holders') /\ Cardinality(Holders') = Cardinality(Holders) - 1
      BY Zenon, <1>0, <2>3 DEF Permits, SetFacts
    <2>5. Permits'
      BY <1>0, <1>1, <2>1, <2>3, <2>4 DEF Permits, HttpAssumption
    <2>6. ASSUME NEW d \in Call PROVE InTime(d)'
      <3>1. CASE d # c
        <4>1. exchange'[d] = exchange[d]
          BY <1>0, <2>1, <3>1
        <4> QED BY Zenon, <1>0, <4>1, HttpFrame
      <3>2. CASE d = c
        <4>1. exchange'[d] = r
          BY <1>0, <2>1, <3>2
        <4> QED BY <3>2, <4>1 DEF Sound, InTime, Http!ladder
      <3> QED BY Zenon, <3>1, <3>2
    <2> QED BY Zenon, <2>2, <2>5, <2>6 DEF HttpInv
  <1>2. CASE waiting # <<>>
    <2> DEFINE h == Head(waiting)
    <2>1. /\ inFlight' = inFlight /\ waiting' = Tail(waiting)
          /\ exchange' = [exchange EXCEPT ![c] = r, ![h].at = "admitted"]
      BY Zenon, <1>2 DEF Http!release
    <2>2. /\ h = waiting[1] /\ Len(waiting) \in Nat /\ Len(waiting) >= 1 /\ waiting' \in Seq(Call)
          /\ Len(waiting') = Len(waiting) - 1
          /\ \A i \in 1 .. Len(waiting') : waiting'[i] = waiting[i + 1]
      BY <1>0, <1>2, <2>1
    <2>3. h \in Queued /\ h \in Call /\ h # c /\ h \notin Holders
      BY <1>0, <2>2 DEF Permits, Queued, Holders, Http!Holds
    <2> HIDE DEF h
    <2>4. /\ exchange' \in [Call -> Exchanges] /\ exchange'[c] = r
          /\ exchange'[h] = [exchange[h] EXCEPT !.at = "admitted"]
          /\ \A d \in Call \ {c, h} : exchange'[d] = exchange[d]
      <3>1. [exchange[h] EXCEPT !.at = "admitted"] \in Exchanges
        BY <1>0, <2>3 DEF Exchanges
      <3>2. exchange' = [[exchange EXCEPT ![c] = r] EXCEPT ![h] = [exchange[h] EXCEPT !.at = "admitted"]]
        BY <1>0, <2>1, <2>3
      <3> QED BY <1>0, <2>3, <3>1, <3>2
    <2>5. HttpType'
      BY <1>0, <2>1, <2>2, <2>4 DEF HttpType
    <2>6. exchange'[h].at = "admitted"
      BY <1>0, <2>3, <2>4 DEF Exchanges
    <2>7. Holders' = (Holders \ {c}) \cup {h} /\ Queued' = Queued \ {h}
      <3>1. /\ exchange'[c].at \notin {"admitted", "sent", "queued"}
            /\ \A d \in Call : d \notin {c, h} => exchange'[d].at = exchange[d].at
        BY Zenon, <2>4
      <3>2. /\ \A d : d \in Holders' <=> d \in Call /\ exchange'[d].at \in {"admitted", "sent"}
            /\ \A d : d \in Holders <=> d \in Call /\ exchange[d].at \in {"admitted", "sent"}
            /\ \A d : d \in Queued' <=> d \in Call /\ exchange'[d].at = "queued"
            /\ \A d : d \in Queued <=> d \in Call /\ exchange[d].at = "queued"
        BY Zenon DEF Holders, Queued, Http!Holds
      <3>3. Holders' = (Holders \ {c}) \cup {h}
        BY ONLY <2>3, <2>6, <3>1, <3>2, SMT
      <3>4. Queued' = Queued \ {h}
        BY ONLY <1>0, <2>3, <2>6, <3>1, <3>2, SMT
      <3> QED BY Zenon, <3>3, <3>4
    <2>8. /\ IsFiniteSet(Holders \ {c}) /\ Cardinality(Holders \ {c}) = Cardinality(Holders) - 1
          /\ h \notin Holders \ {c}
      BY Zenon, <1>0, <2>3 DEF Permits, SetFacts
    <2>9. IsFiniteSet(Holders') /\ Cardinality(Holders') = Cardinality(Holders \ {c}) + 1
      BY Zenon, <2>7, <2>8 DEF SetFacts
    <2>10. Cardinality(Holders') = Cardinality(Holders)
      BY <1>0, <2>8, <2>9 DEF Permits
    <2>11. \A i \in 1 .. Len(waiting') : waiting'[i] \in Queued'
      BY <1>0, <2>2, <2>7 DEF Permits
    <2>12. \A d \in Queued' : \E i \in 1 .. Len(waiting') : waiting'[i] = d
      <3> SUFFICES ASSUME NEW d \in Queued, d # h PROVE \E i \in 1 .. Len(waiting') : waiting'[i] = d
        BY Zenon, <2>7
      <3>1. PICK i \in 1 .. Len(waiting) : waiting[i] = d
        BY Zenon, <1>0 DEF Permits
      <3>2. i # 1
        BY <2>2, <3>1
      <3>3. i - 1 \in 1 .. Len(waiting') /\ waiting'[i - 1] = waiting[i]
        BY <2>2, <3>2
      <3> QED BY Zenon, <3>1, <3>3
    <2>13. \A i, j \in 1 .. Len(waiting') : waiting'[i] = waiting'[j] => i = j
      BY <1>0, <2>2 DEF Permits
    <2>14. Permits'
      <3>1. waiting' # <<>> => inFlight' = MaxConcurrent
        BY Zenon, <1>0, <1>2, <2>1 DEF Permits
      <3> QED BY Zenon, <1>0, <2>1, <2>9, <2>10, <2>11, <2>12, <2>13, <3>1 DEF Permits
    <2>15. ASSUME NEW d \in Call PROVE InTime(d)'
      <3>1. CASE d \notin {c, h}
        BY Zenon, <1>0, <2>4, <3>1, HttpFrame
      <3>2. CASE d = c
        BY <2>4, <3>2 DEF Sound, InTime, Http!ladder
      <3>3. CASE d = h
        <4>1. /\ exchange'[h].at = "admitted" /\ exchange'[h].due = exchange[h].due
              /\ exchange'[h].deadline = exchange[h].deadline /\ exchange'[h].tries = exchange[h].tries
              /\ exchange'[h].sent = exchange[h].sent
          BY <1>0, <2>3, <2>4 DEF Exchanges
        <4>2. exchange[h].at = "queued" /\ InTime(h)
          BY Zenon, <1>0, <2>3 DEF Queued
        <4> QED BY <3>3, <4>1, <4>2 DEF InTime, Http!ladder, Timed
      <3> QED BY Zenon, <3>1, <3>2, <3>3
    <2> QED BY Zenon, <2>5, <2>14, <2>15 DEF HttpInv
  <1> QED BY Zenon, <1>1, <1>2
\* A call without a permit or a place in the queue ends.
LEMMA EndsKeeps ==
    ASSUME HttpInv, NEW c \in Call, exchange[c].at \in {"new", "asleep"},
           now' = now, waiting' = waiting, inFlight' = inFlight,
           NEW r \in Exchanges, r.at \in {"returned", "threw"}, r.sent <= r.tries, r.tries <= Http!ladder(c),
           exchange' = [exchange EXCEPT ![c] = r]
    PROVE  HttpInv'
  <1>0. /\ HttpType /\ Permits /\ \A d \in Call : InTime(d) /\ exchange \in [Call -> Exchanges]
    BY Zenon DEF HttpInv, HttpType
  <1>1. /\ exchange' \in [Call -> Exchanges] /\ exchange'[c] = r
        /\ \A d \in Call : d # c => exchange'[d] = exchange[d]
    BY <1>0
  <1>2. Holders' = Holders /\ Queued' = Queued
    <2>1. /\ \A d : d \in Holders' <=> d \in Call /\ exchange'[d].at \in {"admitted", "sent"}
          /\ \A d : d \in Holders <=> d \in Call /\ exchange[d].at \in {"admitted", "sent"}
          /\ \A d : d \in Queued' <=> d \in Call /\ exchange'[d].at = "queued"
          /\ \A d : d \in Queued <=> d \in Call /\ exchange[d].at = "queued"
      BY Zenon DEF Holders, Queued, Http!Holds
    <2> QED BY <1>1, <2>1
  <1>3. Permits' /\ HttpType'
    BY Zenon, <1>0, <1>1, <1>2 DEF Permits, HttpType
  <1>4. ASSUME NEW d \in Call PROVE InTime(d)'
    <2>1. CASE d # c
      BY Zenon, <1>0, <1>1, <2>1, HttpFrame
    <2>2. CASE d = c
      BY <1>1, <2>2 DEF InTime, Timed, Http!ladder
    <2> QED BY Zenon, <2>1, <2>2
  <1> QED BY Zenon, <1>3, <1>4 DEF HttpInv

\* acquire() gives c a permit, a place in the queue, or an error.
LEMMA AcquireKeeps ==
    ASSUME SetFacts, HttpAssumption, HttpInv, NEW c \in Call, exchange[c].at \in {"new", "asleep"},
           now' = now, NEW r \in Exchanges, r.deadline > now, r.sent < r.tries, r.tries <= Http!ladder(c),
           Http!acquire(c, r)
    PROVE  HttpInv'
  <1>0. /\ HttpType /\ Permits /\ \A d \in Call : InTime(d)
        /\ exchange \in [Call -> Exchanges] /\ waiting \in Seq(Call) /\ inFlight \in Int /\ now \in Int
        /\ c \notin Holders /\ c \notin Queued
        /\ r.deadline \in Int /\ r.due \in Int /\ r.sent \in Int /\ r.tries \in Int
    BY DEF HttpInv, HttpType, Holders, Queued, Http!Holds, Exchanges
  <1>c. c \in Call /\ c \notin Holders /\ c \notin Queued
    BY Zenon, <1>0
  <1> DEFINE wait == Http!Smaller(r.deadline - now, MaxQueueWait)
  <1>w. wait \in Int /\ wait <= r.deadline - now
    BY <1>0 DEF Http!Smaller, HttpAssumption
  <1>l. Http!ladder(c)' = Http!ladder(c)
    BY DEF Http!ladder
  <1>1. CASE /\ inFlight < MaxConcurrent /\ inFlight' = inFlight + 1 /\ waiting' = waiting
             /\ exchange' = [exchange EXCEPT ![c] = [r EXCEPT !.at = "admitted"]]
    <2>1. /\ exchange' \in [Call -> Exchanges] /\ exchange'[c] = [r EXCEPT !.at = "admitted"]
          /\ \A d \in Call \ {c} : exchange'[d] = exchange[d]
      <3>1. [r EXCEPT !.at = "admitted"] \in Exchanges
        BY DEF Exchanges
      <3> QED BY <1>0, <1>1, <3>1
    <2>2. /\ exchange'[c].at = "admitted" /\ exchange'[c].deadline = r.deadline
          /\ exchange'[c].tries = r.tries /\ exchange'[c].sent = r.sent
      BY <2>1 DEF Exchanges
    <2>3. Holders' = Holders \cup {c} /\ Queued' = Queued
      <3>1. /\ \A d : d \in Holders' <=> d \in Call /\ exchange'[d].at \in {"admitted", "sent"}
            /\ \A d : d \in Holders <=> d \in Call /\ exchange[d].at \in {"admitted", "sent"}
            /\ \A d : d \in Queued' <=> d \in Call /\ exchange'[d].at = "queued"
            /\ \A d : d \in Queued <=> d \in Call /\ exchange[d].at = "queued"
        BY Zenon DEF Holders, Queued, Http!Holds
      <3>2. \A d \in Call : d # c => exchange'[d].at = exchange[d].at
        BY Zenon, <2>1
      <3>3. Holders' = Holders \cup {c}
        BY ONLY <1>c, <2>2, <3>1, <3>2, SMT
      <3>4. Queued' = Queued
        <4>1. \A d : d \in Queued' <=> d \in Queued
          BY ONLY <1>c, <2>2, <3>1, <3>2, SMT
        <4> QED BY Zenon, <4>1
      <3> QED BY Zenon, <3>3, <3>4
    <2>4. IsFiniteSet(Holders') /\ Cardinality(Holders') = Cardinality(Holders) + 1
      BY Zenon, <1>0, <2>3 DEF Permits, SetFacts
    <2>5. waiting = <<>>
      BY <1>0, <1>1 DEF Permits, HttpAssumption
    <2>6. Permits'
      BY <1>0, <1>1, <2>3, <2>4, <2>5 DEF Permits, HttpAssumption
    <2>7. ASSUME NEW d \in Call PROVE InTime(d)'
      <3>1. CASE d # c
        BY Zenon, <1>0, <2>1, <3>1, HttpFrame
      <3>2. CASE d = c
        BY <1>0, <1>l, <2>2, <3>2 DEF InTime, Timed, HttpAssumption
      <3> QED BY Zenon, <3>1, <3>2
    <2>8. HttpType'
      BY <1>0, <1>1, <2>1 DEF HttpType
    <2> QED BY Zenon, <2>6, <2>7, <2>8 DEF HttpInv
  <1>2. CASE /\ inFlight >= MaxConcurrent /\ wait > 0
             /\ waiting' = Append(waiting, c) /\ inFlight' = inFlight
             /\ exchange' = [exchange EXCEPT ![c] = [r EXCEPT !.at = "queued", !.due = now + wait]]
    <2> HIDE DEF wait
    <2> DEFINE q == [r EXCEPT !.at = "queued", !.due = now + wait]
    <2>0. /\ q \in Exchanges /\ q.at = "queued" /\ q.due = now + wait /\ q.deadline = r.deadline
          /\ q.tries = r.tries /\ q.sent = r.sent
      <3>1. now + wait \in Int
        BY <1>0, <1>w
      <3>2. \A w \in Int :
               /\ [r EXCEPT !.at = "queued", !.due = w] \in Exchanges
               /\ [r EXCEPT !.at = "queued", !.due = w].at = "queued"
               /\ [r EXCEPT !.at = "queued", !.due = w].due = w
               /\ [r EXCEPT !.at = "queued", !.due = w].deadline = r.deadline
               /\ [r EXCEPT !.at = "queued", !.due = w].tries = r.tries
               /\ [r EXCEPT !.at = "queued", !.due = w].sent = r.sent
        BY DEF Exchanges, Timed
      <3> QED BY Zenon, <3>1, <3>2
    <2> HIDE DEF q
    <2>1. /\ exchange' \in [Call -> Exchanges] /\ exchange'[c] = q
          /\ \A d \in Call \ {c} : exchange'[d] = exchange[d]
      BY <1>0, <1>2, <2>0 DEF q
    <2>2. /\ waiting' \in Seq(Call) /\ Len(waiting) \in Nat /\ Len(waiting') = Len(waiting) + 1
          /\ waiting'[Len(waiting) + 1] = c
          /\ \A i \in 1 .. Len(waiting) : waiting'[i] = waiting[i]
      BY <1>0, <1>2
    <2>3. Holders' = Holders /\ Queued' = Queued \cup {c}
      <3>1. /\ \A d : d \in Holders' <=> d \in Call /\ exchange'[d].at \in {"admitted", "sent"}
            /\ \A d : d \in Holders <=> d \in Call /\ exchange[d].at \in {"admitted", "sent"}
            /\ \A d : d \in Queued' <=> d \in Call /\ exchange'[d].at = "queued"
            /\ \A d : d \in Queued <=> d \in Call /\ exchange[d].at = "queued"
        BY Zenon DEF Holders, Queued, Http!Holds
      <3>2. \A d \in Call : d # c => exchange'[d].at = exchange[d].at
        BY Zenon, <2>1
      <3> QED BY ONLY <1>c, <2>0, <2>1, <3>1, <3>2, SMT
    <2>4. inFlight' = MaxConcurrent
      BY <1>0, <1>2 DEF Permits, HttpAssumption
    <2>5. \A i \in 1 .. Len(waiting') : waiting'[i] \in Queued'
      BY <1>0, <2>2, <2>3 DEF Permits
    <2>6. ASSUME NEW d \in Queued' PROVE \E i \in 1 .. Len(waiting') : waiting'[i] = d
      <3>1. CASE d = c
        BY <2>2, <3>1
      <3>2. CASE d # c
        <4>1. PICK i \in 1 .. Len(waiting) : waiting[i] = d
          BY Zenon, <1>0, <2>3, <3>2 DEF Permits
        <4> QED BY <2>2, <4>1
      <3> QED BY Zenon, <3>1, <3>2
    <2>7. ASSUME NEW i \in 1 .. Len(waiting'), NEW j \in 1 .. Len(waiting'), waiting'[i] = waiting'[j]
          PROVE  i = j
      <3>1. /\ i # Len(waiting) + 1 => i \in 1 .. Len(waiting) /\ waiting'[i] = waiting[i]
            /\ j # Len(waiting) + 1 => j \in 1 .. Len(waiting) /\ waiting'[j] = waiting[j]
        BY <2>2
      <3>2. \A k \in 1 .. Len(waiting) : waiting[k] # c
        BY Zenon, <1>0 DEF Permits
      <3> QED BY Zenon, <1>0, <2>2, <2>7, <3>1, <3>2 DEF Permits
    <2>8. Permits'
      <3>1. inFlight' = inFlight
        BY Zenon, <1>2
      <3> QED BY Zenon, <1>0, <2>3, <2>4, <2>5, <2>6, <2>7, <3>1 DEF Permits
    <2>9. ASSUME NEW d \in Call PROVE InTime(d)'
      <3>1. CASE d # c
        BY Zenon, <1>0, <2>1, <3>1, HttpFrame
      <3>2. CASE d = c
        BY <1>0, <1>w, <1>l, <2>0, <2>1, <3>2 DEF InTime, Timed, HttpAssumption
      <3> QED BY Zenon, <3>1, <3>2
    <2>10. HttpType'
      BY Zenon, <1>0, <1>2, <2>1, <2>2 DEF HttpType
    <2> QED BY Zenon, <2>8, <2>9, <2>10 DEF HttpInv
  <1>3. CASE /\ waiting' = waiting /\ inFlight' = inFlight
             /\ exchange' = [exchange EXCEPT ![c] = [r EXCEPT !.at = "threw"]]
    <2>1. /\ [r EXCEPT !.at = "threw"] \in Exchanges
          /\ [r EXCEPT !.at = "threw"].at = "threw" /\ [r EXCEPT !.at = "threw"].tries = r.tries
          /\ [r EXCEPT !.at = "threw"].sent = r.sent
      BY DEF Exchanges
    <2>2. r.sent <= r.tries
      BY <1>0
    <2> QED BY Zenon, <1>0, <1>3, <2>1, <2>2, EndsKeeps
  <1> QED BY Zenon, <1>1, <1>2, <1>3 DEF Http!acquire
\* The head of the loop ends the call or asks for a permit.
LEMMA AttemptKeeps ==
    ASSUME SetFacts, HttpAssumption, HttpInv, NEW c \in Call, exchange[c].at \in {"new", "asleep"},
           now' = now, NEW r \in Exchanges, r.sent <= r.tries, r.tries < Http!ladder(c),
           Http!Attempt(c, r)
    PROVE  HttpInv'
  <1>0. /\ r.deadline \in Int /\ r.sent \in Int /\ r.tries \in Int /\ now \in Int
        /\ Http!ladder(c) \in Int
    BY DEF HttpInv, HttpType, Exchanges, HttpAssumption, Http!ladder
  <1>1. CASE r.deadline - now <= 0
    <2> DEFINE e == [r EXCEPT !.at = IF r.last # "none" THEN "returned" ELSE "threw"]
    <2>1. /\ e \in Exchanges /\ e.at \in {"returned", "threw"} /\ e.tries = r.tries /\ e.sent = r.sent
      BY DEF Exchanges
    <2>2. exchange' = [exchange EXCEPT ![c] = e] /\ waiting' = waiting /\ inFlight' = inFlight
      BY Zenon, <1>1 DEF Http!Attempt
    <2> HIDE DEF e
    <2>3. e.sent <= e.tries /\ e.tries <= Http!ladder(c)
      BY <1>0, <2>1
    <2> QED BY Zenon, <2>1, <2>2, <2>3, EndsKeeps
  <1>2. CASE ~(r.deadline - now <= 0)
    <2> DEFINE e == [r EXCEPT !.tries = @ + 1]
    <2>1. e \in Exchanges /\ e.deadline = r.deadline /\ e.tries = r.tries + 1 /\ e.sent = r.sent
      BY <1>0 DEF Exchanges
    <2>2. Http!acquire(c, e)
      BY Zenon, <1>2 DEF Http!Attempt
    <2> HIDE DEF e
    <2>3. e.deadline > now /\ e.sent < e.tries /\ e.tries <= Http!ladder(c)
      BY <1>0, <1>2, <2>1
    <2> QED BY Zenon, <2>1, <2>2, <2>3, AcquireKeeps
  <1> QED BY Zenon, <1>1, <1>2

\* A failed attempt lets the permit go, and sleeps within the deadline or ends.
LEMMA FailureKeeps ==
    ASSUME SetFacts, HttpAssumption, HttpInv, NEW c \in Call, exchange[c].at = "sent",
           now' = now, NEW response \in {"none", "retryable"}, Http!AfterFailure(c, response)
    PROVE  HttpInv'
  <1>0. /\ exchange[c] \in Exchanges /\ InTime(c) /\ now \in Int /\ Http!Holds(c) /\ Http!ladder(c) \in Int
    BY DEF HttpInv, HttpType, Http!Holds, HttpAssumption, Http!ladder
  <1>1. PICK delay \in Http!delayFor(c, response) :
           LET last == IF response # "none" THEN response ELSE exchange[c].last
               r == [exchange[c] EXCEPT !.last = last] IN
           Http!release(c, IF delay # -1 /\ delay < r.deadline - now
                           THEN [r EXCEPT !.at = "asleep", !.due = now + delay]
                           ELSE [r EXCEPT !.at = IF response # "none" THEN "returned" ELSE "threw"])
    BY Zenon DEF Http!AfterFailure
  <1> DEFINE last == IF response # "none" THEN response ELSE exchange[c].last
             r == [exchange[c] EXCEPT !.last = last]
             e == IF delay # -1 /\ delay < r.deadline - now
                  THEN [r EXCEPT !.at = "asleep", !.due = now + delay]
                  ELSE [r EXCEPT !.at = IF response # "none" THEN "returned" ELSE "threw"]
  <1>2. Http!release(c, e)
    BY Zenon, <1>1
  <1>3. delay \in Int /\ (delay # -1 => exchange[c].tries < Http!ladder(c))
    BY <1>0 DEF Http!delayFor, HttpAssumption, Exchanges
  <1>4. /\ r \in Exchanges /\ r.deadline = exchange[c].deadline /\ r.tries = exchange[c].tries
        /\ r.sent = exchange[c].sent
    BY <1>0 DEF Exchanges
  <1>5. exchange[c].sent <= exchange[c].tries /\ exchange[c].tries <= Http!ladder(c)
        /\ now <= exchange[c].deadline + Late
    BY <1>0 DEF InTime, Timed
  <1> HIDE DEF r
  <1>6. Sound(c, e) /\ e.at \notin {"admitted", "sent", "queued"}
    <2>1. CASE delay # -1 /\ delay < r.deadline - now
      <3>1. e = [r EXCEPT !.at = "asleep", !.due = now + delay]
        BY Zenon, <2>1
      <3> HIDE DEF e
      <3>2. /\ e \in Exchanges /\ e.at = "asleep" /\ e.due = now + delay /\ e.deadline = r.deadline
            /\ e.tries = r.tries /\ e.sent = r.sent
        <4>1. now + delay \in Int
          BY <1>0, <1>3
        <4>2. \A w \in Int :
                 /\ [r EXCEPT !.at = "asleep", !.due = w] \in Exchanges
                 /\ [r EXCEPT !.at = "asleep", !.due = w].at = "asleep"
                 /\ [r EXCEPT !.at = "asleep", !.due = w].due = w
                 /\ [r EXCEPT !.at = "asleep", !.due = w].deadline = r.deadline
                 /\ [r EXCEPT !.at = "asleep", !.due = w].tries = r.tries
                 /\ [r EXCEPT !.at = "asleep", !.due = w].sent = r.sent
          BY <1>4 DEF Exchanges, Timed
        <4> QED BY Zenon, <3>1, <4>1, <4>2
      <3>3. r.deadline \in Int
        BY <1>4 DEF Exchanges
      <3> QED BY <1>0, <1>3, <1>4, <1>5, <2>1, <3>2, <3>3 DEF Sound
    <2>2. CASE ~(delay # -1 /\ delay < r.deadline - now)
      <3>1. e = [r EXCEPT !.at = "returned"] \/ e = [r EXCEPT !.at = "threw"]
        BY Zenon, <2>2
      <3>2. /\ e \in Exchanges /\ e.at \in {"returned", "threw"} /\ e.tries = r.tries /\ e.sent = r.sent
        BY <1>4, <3>1 DEF Exchanges
      <3> QED BY <1>4, <1>5, <3>2 DEF Sound, Timed
    <2> QED BY Zenon, <2>1, <2>2
  <1> HIDE DEF e
  <1> QED BY Zenon, <1>0, <1>2, <1>6, ReleaseKeeps
\* Every step preserves the invariant.
LEMMA HttpStep == ASSUME SetFacts, HttpAssumption, HttpInv, [Http!Next]_(Http!vars) PROVE HttpInv'
  <1>0. /\ HttpType /\ Permits /\ \A d \in Call : InTime(d)
        /\ exchange \in [Call -> Exchanges] /\ waiting \in Seq(Call) /\ now \in Int
    BY Zenon DEF HttpInv, HttpType
  <1>1. ASSUME NEW c \in Call, Http!request(c) PROVE HttpInv'
    <2> DEFINE r == [Http!New EXCEPT !.deadline = now + Budget]
    <2>1. exchange[c].at = "new" /\ Http!Attempt(c, r) /\ now' = now
      BY Zenon, <1>1 DEF Http!request
    <2>2. r \in Exchanges /\ r.sent = 0 /\ r.tries = 0
      BY <1>0 DEF Http!New, Exchanges, HttpAssumption, Timed
    <2> HIDE DEF r
    <2>3. r.sent <= r.tries /\ r.tries < Http!ladder(c)
      BY <2>2 DEF Http!ladder, HttpAssumption
    <2> QED BY Zenon, <2>1, <2>2, <2>3, AttemptKeeps
  <1>2. ASSUME NEW c \in Call, Http!queueTimeout(c) PROVE HttpInv'
    <2>0. PICK i \in DOMAIN waiting :
             /\ waiting[i] = c
             /\ waiting' = [k \in 1 .. Len(waiting) - 1 |-> waiting[IF k < i THEN k ELSE k + 1]]
      BY Zenon, <1>2 DEF Http!queueTimeout
    <2>1. /\ exchange[c].at = "queued" /\ now' = now /\ inFlight' = inFlight
          /\ exchange' = [exchange EXCEPT ![c].at = "threw"]
      BY Zenon, <1>2 DEF Http!queueTimeout
    <2>2. /\ Len(waiting) \in Nat /\ i \in 1 .. Len(waiting)
          /\ waiting' \in Seq(Call) /\ Len(waiting') = Len(waiting) - 1
          /\ \A k \in 1 .. Len(waiting') : waiting'[k] = waiting[IF k < i THEN k ELSE k + 1]
      <3>1. Len(waiting) \in Nat /\ i \in 1 .. Len(waiting)
        BY <1>0, <2>0
      <3>2. \A k \in 1 .. Len(waiting) - 1 : waiting[IF k < i THEN k ELSE k + 1] \in Call
        BY <1>0, <3>1
      <3>3. waiting' \in [1 .. Len(waiting) - 1 -> Call] /\ Len(waiting) - 1 \in Nat
        BY <2>0, <3>1, <3>2
      <3>4. waiting' \in Seq(Call) /\ Len(waiting') = Len(waiting) - 1
        BY <3>3
      <3> QED BY <2>0, <3>1, <3>4
    <2>3. /\ exchange' \in [Call -> Exchanges] /\ exchange'[c] = [exchange[c] EXCEPT !.at = "threw"]
          /\ exchange'[c].at = "threw" /\ exchange'[c].tries = exchange[c].tries
          /\ exchange'[c].sent = exchange[c].sent
          /\ \A d \in Call : d # c => exchange'[d] = exchange[d]
      <3>1. exchange[c] \in Exchanges
        BY Zenon, <1>0
      <3>2. /\ [exchange[c] EXCEPT !.at = "threw"] \in Exchanges
            /\ [exchange[c] EXCEPT !.at = "threw"].at = "threw"
            /\ [exchange[c] EXCEPT !.at = "threw"].tries = exchange[c].tries
            /\ [exchange[c] EXCEPT !.at = "threw"].sent = exchange[c].sent
        BY <3>1 DEF Exchanges
      <3> QED BY <1>0, <2>1, <3>2
    <2>4. Holders' = Holders /\ Queued' = Queued \ {c}
      <3>1. /\ \A d : d \in Holders' <=> d \in Call /\ exchange'[d].at \in {"admitted", "sent"}
            /\ \A d : d \in Holders <=> d \in Call /\ exchange[d].at \in {"admitted", "sent"}
            /\ \A d : d \in Queued' <=> d \in Call /\ exchange'[d].at = "queued"
            /\ \A d : d \in Queued <=> d \in Call /\ exchange[d].at = "queued"
        BY Zenon DEF Holders, Queued, Http!Holds
      <3>2. \A d : d \in Holders' <=> d \in Holders
        BY ONLY <1>2, <2>1, <2>3, <3>1, SMT
      <3>3. \A d : d \in Queued' <=> d \in Queued \ {c}
        BY ONLY <1>2, <2>1, <2>3, <3>1, SMT
      <3> QED BY Zenon, <3>2, <3>3
    <2>5. ASSUME NEW k \in 1 .. Len(waiting')
          PROVE  waiting'[k] \in Queued'
      <3> DEFINE n == IF k < i THEN k ELSE k + 1
      <3>1. n \in 1 .. Len(waiting) /\ n # i /\ waiting'[k] = waiting[n]
        BY <2>2
      <3> QED BY Zenon, <1>0, <2>0, <2>2, <2>4, <3>1 DEF Permits
    <2>6. ASSUME NEW d \in Queued' PROVE \E k \in 1 .. Len(waiting') : waiting'[k] = d
      <3>1. PICK n \in 1 .. Len(waiting) : waiting[n] = d
        BY Zenon, <1>0, <2>4 DEF Permits
      <3>2. n # i
        BY Zenon, <2>0, <2>4, <3>1
      <3>3. CASE n < i
        <4>1. n \in 1 .. Len(waiting') /\ waiting'[n] = waiting[n]
          BY <2>2, <3>3
        <4> QED BY Zenon, <3>1, <4>1
      <3>4. CASE ~(n < i)
        <4>1. n - 1 \in 1 .. Len(waiting') /\ waiting'[n - 1] = waiting[n]
          BY <2>2, <3>2, <3>4
        <4> QED BY Zenon, <3>1, <4>1
      <3> QED BY Zenon, <3>3, <3>4
    <2>7. ASSUME NEW k \in 1 .. Len(waiting'), NEW l \in 1 .. Len(waiting'), waiting'[k] = waiting'[l]
          PROVE  k = l
      <3> DEFINE f(x) == IF x < i THEN x ELSE x + 1
      <3>1. /\ f(k) \in 1 .. Len(waiting) /\ f(l) \in 1 .. Len(waiting)
            /\ waiting'[k] = waiting[f(k)] /\ waiting'[l] = waiting[f(l)]
        BY <2>2
      <3>2. f(k) = f(l)
        BY Zenon, <1>0, <2>7, <3>1 DEF Permits
      <3> QED BY <2>2, <3>2
    <2>8. waiting' # <<>> => inFlight' = MaxConcurrent
      <3>1. waiting # <<>>
        BY <2>2
      <3> QED BY Zenon, <1>0, <2>1, <3>1 DEF Permits
    <2>9. Permits'
      BY Zenon, <1>0, <2>1, <2>4, <2>5, <2>6, <2>7, <2>8 DEF Permits
    <2>10. ASSUME NEW d \in Call PROVE InTime(d)'
      <3>1. CASE d # c
        BY Zenon, <1>0, <2>1, <2>3, <3>1, HttpFrame
      <3>2. CASE d = c
        BY <1>0, <2>3, <3>2 DEF InTime, Timed, Http!ladder
      <3> QED BY Zenon, <3>1, <3>2
    <2>11. HttpType'
      BY Zenon, <1>0, <2>1, <2>2, <2>3 DEF HttpType
    <2> QED BY Zenon, <2>9, <2>10, <2>11 DEF HttpInv
  <1>3. ASSUME NEW c \in Call, Http!fire(c) PROVE HttpInv'
    <2>0. /\ exchange[c].at = "admitted" /\ now' = now /\ exchange[c] \in Exchanges /\ InTime(c)
          /\ Http!Holds(c)
      BY <1>0, <1>3 DEF Http!fire, Http!Holds
    <2>1. CASE Http!release(c, [exchange[c] EXCEPT !.at = "threw"])
      <3> DEFINE r == [exchange[c] EXCEPT !.at = "threw"]
      <3>1. r \in Exchanges /\ r.at = "threw" /\ r.tries = exchange[c].tries /\ r.sent = exchange[c].sent
        BY <2>0 DEF Exchanges
      <3> HIDE DEF r
      <3>2. Sound(c, r) /\ r.at \notin {"admitted", "sent", "queued"}
        BY <2>0, <3>1 DEF Sound, InTime, Timed
      <3> QED BY Zenon, <2>0, <2>1, <3>2, ReleaseKeeps DEF r
    <2>2. CASE ~Http!release(c, [exchange[c] EXCEPT !.at = "threw"])
      <3> DEFINE due == now + Http!Smaller(AttemptTime, exchange[c].deadline - now)
                 r == [exchange[c] EXCEPT !.at = "sent", !.sent = @ + 1, !.due = due]
      <3>1. /\ exchange' = [exchange EXCEPT ![c] = r] /\ inFlight' = inFlight /\ waiting' = waiting
        BY Zenon, <1>3, <2>2 DEF Http!fire
      <3>2. due \in Int /\ due <= exchange[c].deadline
        BY <1>0, <2>0 DEF Http!Smaller, HttpAssumption, Exchanges
      <3> HIDE DEF due
      <3>3. /\ r \in Exchanges /\ r.at = "sent" /\ r.due = due /\ r.deadline = exchange[c].deadline
            /\ r.tries = exchange[c].tries /\ r.sent = exchange[c].sent + 1
        <4>1. exchange[c].sent + 1 \in Int
          BY <2>0 DEF Exchanges
        <4> DEFINE s(n, w) == [exchange[c] EXCEPT !.at = "sent", !.sent = n, !.due = w]
        <4>2. \A n, w \in Int :
                 /\ s(n, w) \in Exchanges /\ s(n, w).at = "sent" /\ s(n, w).due = w /\ s(n, w).sent = n
                 /\ s(n, w).deadline = exchange[c].deadline /\ s(n, w).tries = exchange[c].tries
          BY <2>0 DEF Exchanges, Timed
        <4>3. r = s(exchange[c].sent + 1, due)
          BY Zenon
        <4> HIDE DEF s, r
        <4> QED BY Zenon, <3>2, <4>1, <4>2, <4>3
      <3> HIDE DEF r
      <3>4. /\ exchange' \in [Call -> Exchanges] /\ exchange'[c] = r
            /\ \A d \in Call : d # c => exchange'[d] = exchange[d]
        BY <1>0, <3>1, <3>3
      <3>5. Holders' = Holders /\ Queued' = Queued
        <4>1. /\ \A d : d \in Holders' <=> d \in Call /\ exchange'[d].at \in {"admitted", "sent"}
              /\ \A d : d \in Holders <=> d \in Call /\ exchange[d].at \in {"admitted", "sent"}
              /\ \A d : d \in Queued' <=> d \in Call /\ exchange'[d].at = "queued"
              /\ \A d : d \in Queued <=> d \in Call /\ exchange[d].at = "queued"
          BY Zenon DEF Holders, Queued, Http!Holds
        <4>2. \A d : d \in Holders' <=> d \in Holders
          BY ONLY <1>3, <2>0, <3>3, <3>4, <4>1, SMT
        <4>3. \A d : d \in Queued' <=> d \in Queued
          BY ONLY <1>3, <2>0, <3>3, <3>4, <4>1, SMT
        <4> QED BY Zenon, <4>2, <4>3
      <3>6. Permits' /\ HttpType'
        BY Zenon, <1>0, <2>0, <3>1, <3>4, <3>5 DEF Permits, HttpType
      <3>7. ASSUME NEW d \in Call PROVE InTime(d)'
        <4>1. CASE d # c
          BY Zenon, <1>0, <2>0, <3>4, <4>1, HttpFrame
        <4>2. CASE d = c
          <5>1. exchange[c].sent \in Int /\ exchange[c].tries \in Int
            BY <2>0 DEF Exchanges
          <5>2. /\ now <= exchange[c].deadline + Late /\ exchange[c].sent < exchange[c].tries
                /\ exchange[c].tries <= Http!ladder(c)
            BY Zenon, <2>0 DEF InTime, Timed
          <5>3. /\ exchange'[c].at = "sent" /\ exchange'[c].due = due /\ exchange'[c].deadline = exchange[c].deadline
                /\ exchange'[c].tries = exchange[c].tries /\ exchange'[c].sent = exchange[c].sent + 1
            BY Zenon, <3>3, <3>4
          <5>4. exchange[c].sent + 1 <= exchange[c].tries
            BY ONLY <5>1, <5>2, SMT
          <5> QED BY Zenon, <2>0, <3>2, <4>2, <5>2, <5>3, <5>4 DEF InTime, Timed, Http!ladder
        <4> QED BY Zenon, <4>1, <4>2
      <3> QED BY Zenon, <3>6, <3>7 DEF HttpInv
    <2> QED BY Zenon, <2>1, <2>2
  <1>4. ASSUME NEW c \in Call, Http!answers(c) PROVE HttpInv'
    <2>0. /\ exchange[c].at = "sent" /\ now' = now /\ exchange[c] \in Exchanges /\ InTime(c)
          /\ Http!Holds(c)
      BY <1>0, <1>4 DEF Http!answers, Http!Holds
    <2>1. CASE Http!release(c, [exchange[c] EXCEPT !.at = "returned"])
      <3> DEFINE r == [exchange[c] EXCEPT !.at = "returned"]
      <3>1. r \in Exchanges /\ r.at = "returned" /\ r.tries = exchange[c].tries /\ r.sent = exchange[c].sent
        BY <2>0 DEF Exchanges
      <3> HIDE DEF r
      <3>2. Sound(c, r) /\ r.at \notin {"admitted", "sent", "queued"}
        BY <2>0, <3>1 DEF Sound, InTime, Timed
      <3> QED BY Zenon, <2>0, <2>1, <3>2, ReleaseKeeps DEF r
    <2>2. CASE Http!AfterFailure(c, "retryable")
      BY Zenon, <2>0, <2>2, FailureKeeps
    <2> QED BY Zenon, <1>4, <2>1, <2>2 DEF Http!answers
  <1>5. ASSUME NEW c \in Call, Http!breaks(c) PROVE HttpInv'
    BY Zenon, <1>5, FailureKeeps DEF Http!breaks
  <1>6. ASSUME NEW c \in Call, Http!wakes(c) PROVE HttpInv'
    <2>1. exchange[c].at = "asleep" /\ Http!Attempt(c, exchange[c]) /\ now' = now /\ exchange[c] \in Exchanges
      BY Zenon, <1>0, <1>6 DEF Http!wakes
    <2>2. exchange[c].sent <= exchange[c].tries /\ exchange[c].tries < Http!ladder(c)
      BY <1>0, <2>1 DEF InTime
    <2> QED BY Zenon, <2>1, <2>2, AttemptKeeps
  <1>7. ASSUME inFlight' = inFlight, waiting' = waiting, exchange' = exchange,
               now' \in Int, \A c \in Call : InTime(c)'
        PROVE  HttpInv'
    <2>1. Holders' = Holders /\ Queued' = Queued
      BY Zenon, <1>7 DEF Holders, Queued, Http!Holds
    <2> QED BY Zenon, <1>0, <1>7, <2>1 DEF HttpInv, HttpType, Permits
  <1>8. CASE Http!tick
    <2>1. now' = now + 1 /\ inFlight' = inFlight /\ waiting' = waiting /\ exchange' = exchange
      BY Zenon, <1>8 DEF Http!tick
    <2>2. ASSUME NEW c \in Call PROVE InTime(c)'
      <3>1. /\ exchange[c].at # "admitted" /\ InTime(c) /\ exchange[c] \in Exchanges
            /\ exchange[c].at \in Timed => now < exchange[c].due + Late
        BY Zenon, <1>0, <1>8 DEF Http!tick, Timed
      <3>2. exchange[c].due \in Int /\ exchange[c].deadline \in Int
        BY <3>1 DEF Exchanges
      <3> QED BY <1>0, <2>1, <3>1, <3>2 DEF InTime, Timed, Http!ladder, HttpAssumption
    <2>3. now' \in Int
      BY <1>0, <2>1
    <2> QED BY Zenon, <1>7, <2>1, <2>2, <2>3
  <1>9. CASE Http!resets \/ UNCHANGED Http!vars
    <2>1. now' = now /\ inFlight' = inFlight /\ waiting' = waiting /\ exchange' = exchange
      BY Zenon, <1>9 DEF Http!resets, Http!vars
    <2>2. \A c \in Call : InTime(c)'
      BY Zenon, <1>0, <2>1, HttpFrame
    <2> QED BY Zenon, <1>0, <1>7, <2>1, <2>2
  <1> QED BY Zenon, <1>1, <1>2, <1>3, <1>4, <1>5, <1>6, <1>8, <1>9 DEF Http!Next

\* The invariant says what the run checks of the calls.
LEMMA HttpSafe ==
    ASSUME HttpAssumption, HttpInv
    PROVE  Http!PermitsConserved /\ Http!DeadlineKept /\ Http!SentWithinLadder
  <1>1. Http!PermitsConserved
    <2>1. DOMAIN waiting = 1 .. Len(waiting)
      BY DEF HttpInv, HttpType
    <2>2. {waiting[i] : i \in DOMAIN waiting} = {c \in Call : exchange[c].at = "queued"}
      <3>1. /\ \A i \in 1 .. Len(waiting) : waiting[i] \in Queued
            /\ \A c \in Queued : \E i \in 1 .. Len(waiting) : waiting[i] = c
        BY Zenon DEF HttpInv, Permits
      <3>2. {waiting[i] : i \in 1 .. Len(waiting)} = Queued
        BY <3>1
      <3> QED BY Zenon, <2>1, <3>2 DEF Queued
    <2>3. Http!Cardinality(Holders) = Cardinality(Holders)
      BY Zenon DEF Http!Cardinality, Cardinality
    <2> QED BY Zenon, <2>2, <2>3 DEF HttpInv, Permits, Holders, Http!PermitsConserved
  <1>2. Http!DeadlineKept
    <2> SUFFICES ASSUME NEW c \in Call, exchange[c].at # "new", ~Http!Ended(c)
                 PROVE  now <= exchange[c].deadline + Late
      BY Zenon DEF Http!DeadlineKept
    <2>1. exchange[c] \in Exchanges /\ InTime(c)
      BY Zenon DEF HttpInv, HttpType
    <2>2. exchange[c].at \in Timed \cup {"admitted"}
      BY <2>1 DEF Exchanges, Http!Ended
    <2> QED BY Zenon, <2>1, <2>2 DEF InTime
  <1>3. Http!SentWithinLadder
    <2> SUFFICES ASSUME NEW c \in Call PROVE exchange[c].sent <= IF c \in Unsafe THEN 1 ELSE MaxTries
      BY Zenon DEF Http!SentWithinLadder
    <2>1. exchange[c] \in Exchanges /\ InTime(c)
      BY Zenon DEF HttpInv, HttpType
    <2>2. exchange[c].sent \in Int /\ exchange[c].tries \in Int
      BY <2>1 DEF Exchanges
    <2> QED BY <2>1, <2>2 DEF InTime, Http!ladder, HttpAssumption
  <1> QED BY Zenon, <1>1, <1>2, <1>3

-----------------------------------------------------------------------------
(* Sockets.  What a peer was not told of is what it will be told, and the  *)
(* index of rooms is the connections' own rooms turned round.              *)

CONSTANTS Socket, User, Topic, Unknown, Upgrades, Capacities, maxRooms, highWaterMark, grace,
          MaxSweepTime, MaxSends

VARIABLES maxConnections, conn, registered, rooms, byRoom, account, awaitingPong, sweeping, sends

Gateway == INSTANCE Realtime WITH MaxNow <- MaxSweepTime

GatewayAssumption ==
    /\ maxRooms \in Nat \ {0} /\ highWaterMark \in Nat /\ Capacities \subseteq Nat /\ IsFiniteSet(User)
    /\ \A u \in Upgrades : u.principal.id \in User

Conns ==
    [state : {"none", "open", "closing", "closed"}, buffered : Int, laggingSince : Int, dropped : Int,
     untold : Int]

\* The peer knows what it missed, or will be told.
Told(w) == w.state = "open" => w.untold = (IF w.laggingSince = -1 THEN 0 ELSE w.dropped)

GatewayType ==
    /\ now \in Nat /\ maxConnections \in Nat
    /\ conn \in [Socket -> Conns] /\ rooms \in [Socket -> SUBSET Gateway!Room]
    /\ registered \subseteq Socket

Indexed ==
    /\ IsFiniteSet(registered) /\ Cardinality(registered) <= maxConnections
    /\ \A s \in registered : conn[s].state # "none" /\ Cardinality(rooms[s]) <= maxRooms
    /\ \A r \in Gateway!Room : byRoom[r] = {s \in registered : r \in rooms[s]}

GatewayInv == GatewayType /\ Indexed /\ \A s \in Socket : Told(conn[s])

\* Nobody is connected at first.
LEMMA GatewayInit == ASSUME SetFacts, GatewayAssumption, Gateway!Init PROVE GatewayInv
  <1>1. /\ maxConnections \in Nat /\ now = 0 /\ registered = {}
        /\ conn = [s \in Socket |-> Gateway!NewConn] /\ rooms = [s \in Socket |-> {}]
        /\ byRoom = [r \in Gateway!Room |-> {}]
    BY Zenon DEF Gateway!Init, GatewayAssumption
  <1>2. Gateway!NewConn \in Conns /\ Told(Gateway!NewConn)
    BY DEF Gateway!NewConn, Conns, Told, Gateway!Null
  <1>3. GatewayType
    BY <1>1, <1>2 DEF GatewayType
  <1>4. Indexed
    BY <1>1 DEF Indexed, SetFacts
  <1> QED BY <1>1, <1>2, <1>3, <1>4 DEF GatewayInv

\* What a socket does with a frame or a review keeps the count.
Keeps(w, x) == x \in Conns /\ Told(x) /\ (w.state # "none" => x.state # "none")

\* A frame written raises the buffer and nothing else (BackpressuredSocket.write).
LEMMA WriteKeeps ==
    ASSUME NEW w \in Conns, Told(w)
    PROVE  Keeps(w, Gateway!write(w)) /\ Gateway!write(w).laggingSince = w.laggingSince
  BY DEF Gateway!write, Conns, Told, Keeps

\* A slow consumer is closed, and owed nothing any more (closeSlow).
LEMMA CloseSlowKeeps ==
    ASSUME NEW w \in Conns
    PROVE  Keeps(w, Gateway!closeSlow(w))
  <1> DEFINE x == [w EXCEPT !.state = "closing", !.laggingSince = -1]
  <1>1. x \in Conns /\ x.state = "closing"
    <2>1. \A l \in Int : /\ [w EXCEPT !.state = "closing", !.laggingSince = l] \in Conns
                         /\ [w EXCEPT !.state = "closing", !.laggingSince = l].state = "closing"
      BY DEF Conns
    <2>2. -1 \in Int
      OBVIOUS
    <2> QED BY Zenon, <2>1, <2>2
  <1>2. Gateway!closeSlow(w) = x
    BY Zenon DEF Gateway!closeSlow, Gateway!Null
  <1> HIDE DEF x
  <1> QED BY <1>1, <1>2 DEF Told, Keeps

\* A frame dropped is one more to tell of, or the last (stayLagging).
LEMMA StayKeeps ==
    ASSUME NEW w \in Conns, Told(w), w.laggingSince # -1
    PROVE  Keeps(w, Gateway!stayLagging(w))
  <1> DEFINE d == [w EXCEPT !.dropped = @ + 1, !.untold = @ + 1]
  <1>0. w.dropped \in Int /\ w.untold \in Int /\ w.dropped + 1 \in Int /\ w.untold + 1 \in Int
    BY DEF Conns
  <1>1. d \in Conns /\ Told(d) /\ d.state = w.state
    <2> DEFINE x(m, n) == [w EXCEPT !.dropped = m, !.untold = n]
    <2>1. \A m, n \in Int : /\ x(m, n) \in Conns /\ x(m, n).dropped = m /\ x(m, n).untold = n
                            /\ x(m, n).state = w.state /\ x(m, n).laggingSince = w.laggingSince
      BY DEF Conns
    <2>a. d = x(w.dropped + 1, w.untold + 1)
      BY Zenon
    <2> HIDE DEF d, x
    <2>2. /\ d \in Conns /\ d.dropped = w.dropped + 1 /\ d.untold = w.untold + 1 /\ d.state = w.state
          /\ d.laggingSince = w.laggingSince
      BY Zenon, <1>0, <2>1, <2>a
    <2> QED BY <1>0, <2>2 DEF Told
  <1>2. Gateway!stayLagging(w) \in {d, Gateway!closeSlow(d)}
    BY Zenon DEF Gateway!stayLagging
  <1> HIDE DEF d
  <1> QED BY Zenon, <1>1, <1>2, CloseSlowKeeps DEF Keeps

\* A peer that caught up is told of all it missed (recover).
LEMMA RecoverKeeps ==
    ASSUME NEW w \in Conns, Told(w), w.state = "open", w.laggingSince # -1
    PROVE  Keeps(w, Gateway!recover(w))
  <1> DEFINE x == [w EXCEPT !.laggingSince = -1, !.dropped = 0, !.untold = @ - w.dropped]
  <1>1. x \in Conns /\ Told(x) /\ x.state = w.state
    <2>0. w.dropped \in Int /\ w.untold \in Int /\ w.untold - w.dropped \in Int
      BY DEF Conns
    <2>1. \A l, m, n \in Int :
             /\ [w EXCEPT !.laggingSince = l, !.dropped = m, !.untold = n] \in Conns
             /\ [w EXCEPT !.laggingSince = l, !.dropped = m, !.untold = n].untold = n
             /\ [w EXCEPT !.laggingSince = l, !.dropped = m, !.untold = n].state = w.state
             /\ [w EXCEPT !.laggingSince = l, !.dropped = m, !.untold = n].laggingSince = l
      BY DEF Conns
    <2>2. -1 \in Int /\ 0 \in Int
      OBVIOUS
    <2>3. \A n \in Int :
             /\ [w EXCEPT !.laggingSince = -1, !.dropped = 0, !.untold = n] \in Conns
             /\ [w EXCEPT !.laggingSince = -1, !.dropped = 0, !.untold = n].untold = n
             /\ [w EXCEPT !.laggingSince = -1, !.dropped = 0, !.untold = n].state = w.state
             /\ [w EXCEPT !.laggingSince = -1, !.dropped = 0, !.untold = n].laggingSince = -1
      BY Zenon, <2>1, <2>2
    <2>4. /\ x \in Conns /\ x.untold = w.untold - w.dropped /\ x.state = w.state
          /\ x.laggingSince = -1
      BY Zenon, <2>0, <2>3
    <2> HIDE DEF x
    <2> QED BY <2>0, <2>4 DEF Told
  <1>2. Gateway!recover(w) = Gateway!write(x)
    BY DEF Gateway!recover, Gateway!Null
  <1> HIDE DEF x
  <1> QED BY Zenon, <1>1, <1>2, WriteKeeps DEF Keeps

\* So whatever send() does with a frame, the count is kept.
LEMMA SendKeeps ==
    ASSUME GatewayAssumption, now \in Nat, NEW w \in Conns, Told(w)
    PROVE  Keeps(w, Gateway!send(w))
  <1>0. w.buffered \in Int /\ Gateway!lowWaterMark \in Int
    BY DEF Conns, Gateway!lowWaterMark, GatewayAssumption
  <1>1. CASE w.state # "open"
    <2>1. Gateway!send(w) = w
      BY <1>1 DEF Gateway!send, Gateway!isOpen
    <2> QED BY Zenon, <2>1 DEF Keeps
  <1>2. CASE w.state = "open" /\ w.laggingSince # -1 /\ w.buffered > Gateway!lowWaterMark
    <2>1. Gateway!send(w) = Gateway!stayLagging(w)
      BY <1>0, <1>2 DEF Gateway!send, Gateway!isOpen, Gateway!Null
    <2> QED BY Zenon, <1>2, <2>1, StayKeeps
  <1>3. CASE w.state = "open" /\ w.laggingSince # -1 /\ ~(w.buffered > Gateway!lowWaterMark)
    <2>1. Gateway!send(w) = Gateway!write(Gateway!recover(w))
      BY <1>0, <1>3 DEF Gateway!send, Gateway!isOpen, Gateway!Null
    <2>2. Keeps(w, Gateway!recover(w))
      BY Zenon, <1>3, RecoverKeeps
    <2> QED BY Zenon, <2>1, <2>2, WriteKeeps DEF Keeps
  <1>4. CASE w.state = "open" /\ w.laggingSince = -1 /\ w.buffered > highWaterMark
    <2> DEFINE x == [w EXCEPT !.laggingSince = now, !.dropped = 0]
    <2>1. Gateway!send(w) = Gateway!stayLagging(x)
      BY <1>4 DEF Gateway!send, Gateway!isOpen, Gateway!Null
    <2>2. x \in Conns /\ Told(x) /\ x.laggingSince # -1 /\ x.state = w.state
      <3>1. \A l, m \in Int :
               /\ [w EXCEPT !.laggingSince = l, !.dropped = m] \in Conns
               /\ [w EXCEPT !.laggingSince = l, !.dropped = m].laggingSince = l
               /\ [w EXCEPT !.laggingSince = l, !.dropped = m].dropped = m
               /\ [w EXCEPT !.laggingSince = l, !.dropped = m].state = w.state
               /\ [w EXCEPT !.laggingSince = l, !.dropped = m].untold = w.untold
        BY DEF Conns
      <3>2. now \in Int /\ now # -1 /\ 0 \in Int
        OBVIOUS
      <3>3. /\ x \in Conns /\ x.laggingSince = now /\ x.dropped = 0 /\ x.state = w.state
            /\ x.untold = w.untold
        BY Zenon, <3>1, <3>2
      <3> HIDE DEF x
      <3> QED BY <1>4, <3>2, <3>3 DEF Told
    <2> HIDE DEF x
    <2> QED BY Zenon, <2>1, <2>2, StayKeeps DEF Keeps
  <1>5. CASE w.state = "open" /\ w.laggingSince = -1 /\ ~(w.buffered > highWaterMark)
    <2>1. Gateway!send(w) = Gateway!write(w)
      BY <1>5 DEF Gateway!send, Gateway!isOpen, Gateway!Null
    <2> QED BY Zenon, <2>1, WriteKeeps
  <1> QED BY Zenon, <1>1, <1>2, <1>3, <1>4, <1>5

\* And whatever review() finds at a heartbeat.
LEMMA ReviewKeeps ==
    ASSUME NEW w \in Conns, Told(w)
    PROVE  Keeps(w, Gateway!review(w))
  <1>1. CASE w.state # "open" \/ w.laggingSince = -1
    <2>1. Gateway!review(w) = w
      BY <1>1 DEF Gateway!review, Gateway!isOpen, Gateway!Null
    <2> QED BY Zenon, <2>1 DEF Keeps
  <1>2. CASE w.state = "open" /\ w.laggingSince # -1
    <2>1. Gateway!review(w) \in {w, Gateway!closeSlow(w), Gateway!recover(w)}
      BY <1>2 DEF Gateway!review, Gateway!isOpen, Gateway!Null
    <2> QED BY Zenon, <1>2, <2>1, CloseSlowKeeps, RecoverKeeps DEF Keeps
  <1> QED BY Zenon, <1>1, <1>2

\* And when the gateway closes a socket with a last frame.
LEMMA CloseKeeps ==
    ASSUME NEW w \in Conns, Told(w)
    PROVE  Keeps(w, Gateway!close(w)) /\ Keeps(w, Gateway!sendUnconditionally(w))
  <1>1. Keeps(w, Gateway!close(w))
    BY DEF Gateway!close, Gateway!isOpen, Conns, Told, Keeps
  <1>2. Gateway!sendUnconditionally(w) \in {w, Gateway!write(w)}
    BY Zenon DEF Gateway!sendUnconditionally
  <1> QED BY Zenon, <1>1, <1>2, WriteKeeps DEF Keeps

\* Sockets change one at a time or all together, and the index with them.
LEMMA GatewayStep ==
    ASSUME SetFacts, GatewayAssumption, GatewayInv, [Gateway!Next]_(Gateway!vars)
    PROVE  GatewayInv'
  <1>0. /\ GatewayType /\ Indexed /\ now \in Nat
        /\ \A s \in Socket : conn[s] \in Conns /\ Told(conn[s])
        /\ conn \in [Socket -> Conns] /\ rooms \in [Socket -> SUBSET Gateway!Room]
    BY Zenon DEF GatewayInv, GatewayType
  <1>f. \A S : S \in SUBSET Gateway!Room => IsFiniteSet(S) /\ Cardinality(S) \in Nat
    <2>1. IsFiniteSet(Gateway!Room)
      <3>1. CASE Topic \in User
        <4>1. Gateway!Room = User
          BY Zenon, <3>1 DEF Gateway!Room
        <4> QED BY Zenon, <4>1 DEF GatewayAssumption
      <3>2. CASE Topic \notin User
        BY Zenon, <3>2 DEF Gateway!Room, GatewayAssumption, SetFacts
      <3> QED BY Zenon, <3>1, <3>2
    <2> QED BY Zenon, <2>1 DEF SetFacts
  <1>c. \A S : Gateway!Cardinality(S) = Cardinality(S)
    BY Zenon DEF Gateway!Cardinality, Cardinality
  \* One socket changes.
  <1>s. ASSUME NEW s \in Socket, NEW w, Keeps(conn[s], w), conn' = [conn EXCEPT ![s] = w]
        PROVE  conn' \in [Socket -> Conns] /\ \A t \in Socket : Keeps(conn[t], conn'[t])
    <2>1. \A t \in Socket : conn'[t] = IF t = s THEN w ELSE conn[t]
      BY Zenon, <1>0, <1>s
    <2>2. \A t \in Socket : Keeps(conn[t], conn'[t])
      BY Zenon, <1>0, <1>s, <2>1 DEF Keeps
    <2> QED BY Zenon, <1>0, <1>s, <2>2 DEF Keeps
  \* Sockets keep their counts, and the index follows the rooms.
  <1>i. ASSUME now' = now, maxConnections' = maxConnections, registered' = registered,
               conn' \in [Socket -> Conns], \A t \in Socket : Keeps(conn[t], conn'[t]),
               rooms' \in [Socket -> SUBSET Gateway!Room],
               \A t \in registered : Cardinality(rooms'[t]) <= maxRooms,
               \A r \in Gateway!Room, t \in Socket :
                  t \in byRoom'[r] <=> t \in registered /\ r \in rooms'[t],
               \A r \in Gateway!Room : byRoom'[r] \subseteq Socket
        PROVE  GatewayInv'
    <2>1. GatewayType'
      BY Zenon, <1>0, <1>i DEF GatewayType, Gateway!Room
    <2>2. Indexed'
      <3>1. \A t \in registered : conn'[t].state # "none"
        BY Zenon, <1>0, <1>i DEF Indexed, GatewayType, Keeps
      <3>2. \A r \in Gateway!Room : byRoom'[r] = {t \in registered : r \in rooms'[t]}
        BY Zenon, <1>0, <1>i DEF GatewayType
      <3> QED BY Zenon, <1>0, <1>i, <3>1, <3>2 DEF Indexed, Gateway!Room
    <2>3. \A t \in Socket : Told(conn'[t])
      BY Zenon, <1>i DEF Keeps
    <2>4. \A t \in Socket : Told(conn[t])'
      BY Zenon, <2>3 DEF Told
    <2> QED BY Zenon, <2>1, <2>2, <2>4 DEF GatewayInv
  \* Sockets change by keeping steps, and nobody comes or goes.
  <1>k. ASSUME now' \in Nat, maxConnections' = maxConnections, registered' = registered,
               conn' \in [Socket -> Conns], \A t \in Socket : Keeps(conn[t], conn'[t]),
               rooms' = rooms, byRoom' = byRoom
        PROVE  GatewayInv'
    <2>1. GatewayType'
      BY Zenon, <1>0, <1>k DEF GatewayType, Gateway!Room
    <2>2. Indexed'
      <3>1. \A t \in registered : conn'[t].state # "none"
        BY Zenon, <1>0, <1>k DEF Indexed, GatewayType, Keeps
      <3> QED BY Zenon, <1>0, <1>k, <3>1 DEF Indexed, Gateway!Room
    <2>3. \A t \in Socket : Told(conn'[t])
      BY Zenon, <1>k DEF Keeps
    <2>4. \A t \in Socket : Told(conn[t])'
      BY Zenon, <2>3 DEF Told
    <2> QED BY Zenon, <2>1, <2>2, <2>4 DEF GatewayInv
  \* A frame to one socket keeps its count.
  <1>w. \A s \in Socket : Keeps(conn[s], Gateway!send(conn[s]))
    BY Zenon, <1>0, SendKeeps
  <1>m. \A r \in Gateway!Room : byRoom[r] \subseteq Socket
    BY Zenon, <1>0 DEF Indexed, GatewayType
  <1>1. ASSUME NEW s \in Socket, NEW upgrade \in Upgrades, Gateway!handleConnection(s, upgrade)
        PROVE  GatewayInv'
    <2>1. CASE conn' = [conn EXCEPT ![s].state = "closing"]
               /\ UNCHANGED <<registered, rooms, byRoom, account>>
      <3> DEFINE w == [conn[s] EXCEPT !.state = "closing"]
      <3>1. Keeps(conn[s], w)
        BY <1>0 DEF Keeps, Conns, Told
      <3>2. conn' = [conn EXCEPT ![s] = w]
        BY Zenon, <2>1
      <3> HIDE DEF w
      <3>3. now' = now /\ maxConnections' = maxConnections
        BY Zenon, <1>1 DEF Gateway!handleConnection
      <3> QED BY Zenon, <1>0, <1>s, <1>k, <2>1, <3>1, <3>2, <3>3
    <2>2. CASE /\ ~(Gateway!Cardinality(registered) >= maxConnections)
               /\ registered' = registered \cup {s}
               /\ rooms' = [rooms EXCEPT ![s] = Gateway!defaultRoomsFor(upgrade.principal)]
               /\ byRoom' = Gateway!index(s, Gateway!defaultRoomsFor(upgrade.principal))
               /\ conn' = [conn EXCEPT ![s] = Gateway!send([Gateway!NewConn EXCEPT !.state = "open"])]
      <3> DEFINE w == [Gateway!NewConn EXCEPT !.state = "open"]
                 u == upgrade.principal.id
      <3>1. w \in Conns /\ Told(w) /\ w.state # "none"
        BY DEF Conns, Told, Gateway!NewConn, Gateway!Null
      <3> HIDE DEF w
      <3>2. Keeps(w, Gateway!send(w))
        BY Zenon, <1>0, <3>1, SendKeeps
      <3>3. /\ conn' = [conn EXCEPT ![s] = Gateway!send(w)] /\ u \in Gateway!Room
            /\ rooms' = [rooms EXCEPT ![s] = {u}]
            /\ byRoom' = [r \in Gateway!Room |-> IF r \in {u} THEN byRoom[r] \cup {s} ELSE byRoom[r]]
            /\ now' = now /\ maxConnections' = maxConnections /\ conn[s].state = "none"
        BY Zenon, <1>1, <2>2 DEF w, Gateway!handleConnection, Gateway!defaultRoomsFor, Gateway!index,
           GatewayAssumption, Gateway!Room
      <3> HIDE DEF u
      <3>4. s \notin registered
        BY Zenon, <1>0, <3>3 DEF Indexed
      <3>5. \A t \in Socket : /\ conn'[t] = IF t = s THEN Gateway!send(w) ELSE conn[t]
                              /\ rooms'[t] = IF t = s THEN {u} ELSE rooms[t]
        BY Zenon, <1>0, <3>3
      <3>6. GatewayType'
        <4>1. conn' \in [Socket -> Conns] /\ rooms' \in [Socket -> SUBSET Gateway!Room]
          BY Zenon, <1>0, <3>2, <3>3 DEF Keeps
        <4> QED BY Zenon, <1>0, <2>2, <3>3, <4>1 DEF GatewayType, Gateway!Room
      <3>7. Indexed'
        <4>1. IsFiniteSet(registered') /\ Cardinality(registered') = Cardinality(registered) + 1
          BY Zenon, <1>0, <2>2, <3>4 DEF SetFacts, Indexed
        <4>2. Cardinality(registered') <= maxConnections'
          <5>1. Cardinality(registered) \in Nat /\ maxConnections \in Nat
            BY Zenon, <1>0 DEF SetFacts, Indexed, GatewayType
          <5>2. ~(Cardinality(registered) >= maxConnections)
            BY Zenon, <1>c, <2>2
          <5> QED BY <3>3, <4>1, <5>1, <5>2
        <4>3. \A t \in registered' : conn'[t].state # "none" /\ Cardinality(rooms'[t]) <= maxRooms
          <5>1. Cardinality({u}) <= maxRooms
            <6>1. Cardinality({}) = 0 /\ IsFiniteSet({}) /\ {u} = {} \cup {u} /\ u \notin {}
              BY Zenon DEF SetFacts
            <6>2. Cardinality({u}) = 1
              <7>1. Cardinality({} \cup {u}) = Cardinality({}) + 1
                BY Zenon, <6>1 DEF SetFacts
              <7> QED BY <6>1, <7>1
            <6> QED BY <6>2 DEF GatewayAssumption
          <5> QED BY Zenon, <1>0, <2>2, <3>1, <3>2, <3>5, <5>1 DEF Indexed, GatewayType, Keeps
        <4>4. \A r \in Gateway!Room : byRoom'[r] = {t \in registered' : r \in rooms'[t]}
          <5> SUFFICES ASSUME NEW r \in Gateway!Room
                       PROVE  byRoom'[r] = {t \in registered' : r \in rooms'[t]}
            OBVIOUS
          <5>1. byRoom[r] = {t \in registered : r \in rooms[t]} /\ registered \subseteq Socket
            BY Zenon, <1>0 DEF Indexed, GatewayType
          <5>2. byRoom'[r] = IF r = u THEN byRoom[r] \cup {s} ELSE byRoom[r]
            BY Zenon, <3>3
          <5>3. \A t : t \in byRoom[r] <=> t \in registered /\ r \in rooms[t]
            BY Zenon, <5>1
          <5>4. ASSUME NEW t PROVE t \in byRoom'[r] <=> t \in registered' /\ r \in rooms'[t]
            <6>1. t \in byRoom'[r] <=> t \in byRoom[r] \/ (r = u /\ t = s)
              BY <5>2
            <6>2. t \in registered' <=> t \in registered \/ t = s
              BY <2>2
            <6>3. CASE t = s
              <7>1. r \in rooms'[t] <=> r = u
                BY <3>5, <6>3
              <7> QED BY Zenon, <3>4, <5>3, <6>1, <6>2, <6>3, <7>1
            <6>4. CASE t # s
              <7>1. t \in registered => rooms'[t] = rooms[t]
                BY Zenon, <3>5, <5>1, <6>4
              <7> QED BY Zenon, <5>3, <6>1, <6>2, <6>4, <7>1
            <6> QED BY Zenon, <6>3, <6>4
          <5> QED BY Zenon, <5>4
        <4> QED BY Zenon, <4>1, <4>2, <4>3, <4>4 DEF Indexed, Gateway!Room
      <3>8. \A t \in Socket : Told(conn'[t])
        BY Zenon, <1>0, <3>2, <3>5 DEF Keeps
      <3>9. \A t \in Socket : Told(conn[t])'
        BY Zenon, <3>8 DEF Told
      <3> QED BY Zenon, <3>6, <3>7, <3>9 DEF GatewayInv
    <2> QED BY Zenon, <1>1, <2>1, <2>2 DEF Gateway!handleConnection
  <1>2. ASSUME NEW s \in Socket, Gateway!handleDisconnect(s)
        PROVE  GatewayInv'
    <2> DEFINE w == [conn[s] EXCEPT !.state = "closed"]
    <2>1. Keeps(conn[s], w)
      BY <1>0 DEF Keeps, Conns, Told
    <2>2. /\ conn' = [conn EXCEPT ![s] = w] /\ registered' = registered \ {s}
          /\ rooms' = [rooms EXCEPT ![s] = {}] /\ now' = now /\ maxConnections' = maxConnections
          /\ byRoom' = [r \in Gateway!Room |-> IF r \in rooms[s] THEN byRoom[r] \ {s} ELSE byRoom[r]]
      BY Zenon, <1>2 DEF Gateway!handleDisconnect, Gateway!deindex
    <2> HIDE DEF w
    <2>3. conn' \in [Socket -> Conns] /\ \A t \in Socket : Keeps(conn[t], conn'[t])
      BY Zenon, <1>s, <2>1, <2>2
    <2>4. \A t \in Socket : rooms'[t] = IF t = s THEN {} ELSE rooms[t]
      BY Zenon, <1>0, <2>2
    <2>5. GatewayType'
      <3>1. rooms' \in [Socket -> SUBSET Gateway!Room]
        BY Zenon, <1>0, <2>2
      <3> QED BY Zenon, <1>0, <2>2, <2>3, <3>1 DEF GatewayType, Gateway!Room
    <2>6. Indexed'
      <3>1. IsFiniteSet(registered') /\ Cardinality(registered') <= maxConnections'
        <4>1. IsFiniteSet(registered') /\ Cardinality(registered') <= Cardinality(registered)
          BY Zenon, <1>0, <2>2 DEF SetFacts, Indexed
        <4>2. Cardinality(registered) \in Nat /\ Cardinality(registered') \in Nat /\ maxConnections \in Nat
              /\ Cardinality(registered) <= maxConnections
          BY Zenon, <1>0, <4>1 DEF SetFacts, Indexed, GatewayType
        <4> QED BY <2>2, <4>1, <4>2
      <3>2. \A t \in registered' : conn'[t].state # "none" /\ Cardinality(rooms'[t]) <= maxRooms
        BY Zenon, <1>0, <2>2, <2>3, <2>4 DEF Indexed, GatewayType, Keeps
      <3>3. \A r \in Gateway!Room : byRoom'[r] = {t \in registered' : r \in rooms'[t]}
        <4> SUFFICES ASSUME NEW r \in Gateway!Room
                     PROVE  byRoom'[r] = {t \in registered' : r \in rooms'[t]}
          OBVIOUS
        <4>1. byRoom[r] = {t \in registered : r \in rooms[t]} /\ registered \subseteq Socket
          BY Zenon, <1>0 DEF Indexed, GatewayType
        <4>2. byRoom'[r] = IF r \in rooms[s] THEN byRoom[r] \ {s} ELSE byRoom[r]
          BY Zenon, <2>2
        <4>3. \A t : t \in byRoom'[r] <=> t \in registered' /\ r \in rooms'[t]
          BY Zenon, <2>2, <2>4, <4>1, <4>2
        <4> QED BY Zenon, <4>3
      <3> QED BY Zenon, <3>1, <3>2, <3>3 DEF Indexed, Gateway!Room
    <2>7. \A t \in Socket : Told(conn'[t])
      BY Zenon, <2>3 DEF Keeps
    <2>8. \A t \in Socket : Told(conn[t])'
      BY Zenon, <2>7 DEF Told
    <2> QED BY Zenon, <2>5, <2>6, <2>8 DEF GatewayInv
  <1>3. ASSUME NEW s \in Socket, NEW names \in SUBSET (Gateway!Room \cup {Unknown}),
               Gateway!handleSubscribe(s, names)
        PROVE  GatewayInv'
    <2>1. /\ s \in registered /\ conn' = [conn EXCEPT ![s] = Gateway!send(conn[s])]
          /\ now' = now /\ maxConnections' = maxConnections /\ registered' = registered
      BY Zenon, <1>3 DEF Gateway!handleSubscribe
    <2>2. conn' \in [Socket -> Conns] /\ \A t \in Socket : Keeps(conn[t], conn'[t])
      BY Zenon, <1>s, <1>w, <2>1
    <2>3. CASE UNCHANGED <<rooms, byRoom>>
      BY Zenon, <1>0, <1>k, <2>1, <2>2, <2>3
    <2>4. CASE /\ names \subseteq Gateway!Room
               /\ Gateway!Cardinality(rooms[s] \cup names) <= maxRooms
               /\ rooms' = [rooms EXCEPT ![s] = @ \cup names]
               /\ byRoom' = Gateway!index(s, names)
      <3>1. \A t \in Socket : rooms'[t] = IF t = s THEN rooms[t] \cup names ELSE rooms[t]
        BY Zenon, <1>0, <2>4
      <3>2. rooms' \in [Socket -> SUBSET Gateway!Room]
        BY Zenon, <1>0, <2>4, <3>1
      <3>3. \A t \in registered : Cardinality(rooms'[t]) <= maxRooms
        BY Zenon, <1>0, <1>c, <2>4, <3>1 DEF Indexed, GatewayType
      <3>4. \A r \in Gateway!Room : byRoom'[r] = IF r \in names THEN byRoom[r] \cup {s} ELSE byRoom[r]
        BY Zenon, <2>4 DEF Gateway!index
      <3>5. \A r \in Gateway!Room : byRoom'[r] \subseteq Socket
        BY Zenon, <1>m, <3>4
      <3>6. \A r \in Gateway!Room, t \in Socket :
               t \in byRoom'[r] <=> t \in registered /\ r \in rooms'[t]
        <4> SUFFICES ASSUME NEW r \in Gateway!Room, NEW t \in Socket
                     PROVE  t \in byRoom'[r] <=> t \in registered /\ r \in rooms'[t]
          BY Zenon
        <4>1. t \in byRoom[r] <=> t \in registered /\ r \in rooms[t]
          BY Zenon, <1>0 DEF Indexed
        <4>2. t \in byRoom'[r] <=> t \in byRoom[r] \/ (r \in names /\ t = s)
          BY <3>4
        <4>3. r \in rooms'[t] <=> r \in rooms[t] \/ (t = s /\ r \in names)
          BY <3>1
        <4>4. CASE t = s
          BY Zenon, <2>1, <4>1, <4>2, <4>3, <4>4
        <4>5. CASE t # s
          BY Zenon, <4>1, <4>2, <4>3, <4>5
        <4> QED BY Zenon, <4>4, <4>5
      <3> QED BY Zenon, <1>i, <2>1, <2>2, <3>2, <3>3, <3>5, <3>6
    <2> QED BY Zenon, <1>3, <2>3, <2>4 DEF Gateway!handleSubscribe, Gateway!parseRooms
  <1>4. ASSUME NEW s \in Socket, NEW names \in SUBSET (Gateway!Room \cup {Unknown}),
               Gateway!handleUnsubscribe(s, names)
        PROVE  GatewayInv'
    <2>1. /\ s \in registered /\ conn' = [conn EXCEPT ![s] = Gateway!send(conn[s])]
          /\ now' = now /\ maxConnections' = maxConnections /\ registered' = registered
      BY Zenon, <1>4 DEF Gateway!handleUnsubscribe
    <2>2. conn' \in [Socket -> Conns] /\ \A t \in Socket : Keeps(conn[t], conn'[t])
      BY Zenon, <1>s, <1>w, <2>1
    <2>3. CASE UNCHANGED <<rooms, byRoom>>
      BY Zenon, <1>0, <1>k, <2>1, <2>2, <2>3
    <2>4. CASE rooms' = [rooms EXCEPT ![s] = @ \ names] /\ byRoom' = Gateway!deindex(s, names)
      <3>1. \A t \in Socket : rooms'[t] = IF t = s THEN rooms[t] \ names ELSE rooms[t]
        BY Zenon, <1>0, <2>4
      <3>2. rooms' \in [Socket -> SUBSET Gateway!Room]
        BY Zenon, <1>0, <2>4, <3>1
      <3>3. \A t \in registered : Cardinality(rooms'[t]) <= maxRooms
        <4> SUFFICES ASSUME NEW t \in registered
                     PROVE  Cardinality(rooms'[t]) <= maxRooms
          OBVIOUS
        <4>1. /\ rooms[t] \in SUBSET Gateway!Room /\ rooms'[t] \subseteq rooms[t]
              /\ Cardinality(rooms[t]) <= maxRooms
          BY Zenon, <1>0, <3>1 DEF Indexed, GatewayType
        <4>2. /\ Cardinality(rooms'[t]) <= Cardinality(rooms[t])
              /\ Cardinality(rooms'[t]) \in Nat /\ Cardinality(rooms[t]) \in Nat
          BY Zenon, <1>f, <4>1 DEF SetFacts
        <4> QED BY <4>1, <4>2 DEF GatewayAssumption
      <3>4. \A r \in Gateway!Room : byRoom'[r] = IF r \in names THEN byRoom[r] \ {s} ELSE byRoom[r]
        BY Zenon, <2>4 DEF Gateway!deindex
      <3>5. \A r \in Gateway!Room : byRoom'[r] \subseteq Socket
        BY Zenon, <1>m, <3>4
      <3>6. \A r \in Gateway!Room, t \in Socket :
               t \in byRoom'[r] <=> t \in registered /\ r \in rooms'[t]
        <4> SUFFICES ASSUME NEW r \in Gateway!Room, NEW t \in Socket
                     PROVE  t \in byRoom'[r] <=> t \in registered /\ r \in rooms'[t]
          BY Zenon
        <4>1. t \in byRoom[r] <=> t \in registered /\ r \in rooms[t]
          BY Zenon, <1>0 DEF Indexed
        <4>2. byRoom'[r] = IF r \in names THEN byRoom[r] \ {s} ELSE byRoom[r]
          BY Zenon, <3>4
        <4>3. rooms'[t] = IF t = s THEN rooms[t] \ names ELSE rooms[t]
          BY Zenon, <3>1
        <4>4. CASE t = s
          BY Zenon, <2>1, <4>1, <4>2, <4>3, <4>4
        <4>5. CASE t # s
          BY Zenon, <4>1, <4>2, <4>3, <4>5
        <4> QED BY Zenon, <4>4, <4>5
      <3> QED BY Zenon, <1>i, <2>1, <2>2, <3>2, <3>3, <3>5, <3>6
    <2> QED BY Zenon, <1>4, <2>3, <2>4 DEF Gateway!handleUnsubscribe
  <1>5. ASSUME NEW user \in User, Gateway!broadcast(user)
        PROVE  GatewayInv'
    <2>1. /\ UNCHANGED <<maxConnections, now, registered, rooms, byRoom>>
          /\ \A t \in Socket : conn'[t] \in {conn[t], Gateway!send(conn[t])}
          /\ conn' = [t \in Socket |-> conn'[t]]
      BY Zenon, <1>5 DEF Gateway!broadcast
    <2>2. \A t \in Socket : Keeps(conn[t], conn'[t])
      BY Zenon, <1>0, <1>w, <2>1 DEF Keeps
    <2>3. conn' \in [Socket -> Conns]
      BY Zenon, <2>1, <2>2 DEF Keeps
    <2> QED BY Zenon, <1>0, <1>k, <2>1, <2>2, <2>3
  <1>6. ASSUME Gateway!runSweep
        PROVE  GatewayInv'
    <2>1. /\ UNCHANGED <<maxConnections, now, registered, rooms, byRoom>>
          /\ \A t \in Socket : \E v \in {conn[t], Gateway!review(conn[t])} :
                conn'[t] \in {v, [v EXCEPT !.state = "closing"]}
          /\ conn' = [t \in Socket |-> conn'[t]]
      BY Zenon, <1>6 DEF Gateway!runSweep
    <2>2. \A v \in Conns : [v EXCEPT !.state = "closing"] \in Conns
                           /\ [v EXCEPT !.state = "closing"].state = "closing"
      BY DEF Conns
    <2>3. \A t \in Socket : Keeps(conn[t], conn'[t])
      <3> SUFFICES ASSUME NEW t \in Socket PROVE Keeps(conn[t], conn'[t])
        OBVIOUS
      <3>1. PICK v \in {conn[t], Gateway!review(conn[t])} : conn'[t] \in {v, [v EXCEPT !.state = "closing"]}
        BY Zenon, <2>1
      <3>2. Keeps(conn[t], v)
        BY Zenon, <1>0, ReviewKeeps DEF Keeps
      <3>3. CASE conn'[t] = v
        BY Zenon, <3>2, <3>3
      <3>4. CASE conn'[t] = [v EXCEPT !.state = "closing"]
        <4>1. conn'[t] \in Conns /\ conn'[t].state = "closing"
          BY Zenon, <2>2, <3>2, <3>4 DEF Keeps
        <4> QED BY <4>1 DEF Keeps, Told
      <3> QED BY Zenon, <3>1, <3>3, <3>4
    <2>4. conn' \in [Socket -> Conns]
      BY Zenon, <2>1, <2>3 DEF Keeps
    <2> QED BY Zenon, <1>0, <1>k, <2>1, <2>3, <2>4
  <1>7. ASSUME NEW s \in Socket, Gateway!pong(s)
        PROVE  GatewayInv'
    <2>1. UNCHANGED <<maxConnections, now, conn, registered, rooms, byRoom>>
      BY Zenon, <1>7 DEF Gateway!pong
    <2> QED BY Zenon, <1>0, <1>k, <2>1 DEF Keeps
  <1>8. ASSUME Gateway!beforeApplicationShutdown
        PROVE  GatewayInv'
    <2>1. /\ UNCHANGED <<maxConnections, now, registered, rooms, byRoom>>
          /\ \A t \in Socket :
                conn'[t] \in {conn[t], Gateway!close(Gateway!sendUnconditionally(conn[t]))}
          /\ conn' = [t \in Socket |-> conn'[t]]
      BY Zenon, <1>8 DEF Gateway!beforeApplicationShutdown
    <2>2. \A t \in Socket : Keeps(conn[t], Gateway!close(Gateway!sendUnconditionally(conn[t])))
      BY Zenon, <1>0, CloseKeeps DEF Keeps
    <2>3. \A t \in Socket : Keeps(conn[t], conn'[t])
      BY Zenon, <1>0, <2>1, <2>2 DEF Keeps
    <2>4. conn' \in [Socket -> Conns]
      BY Zenon, <2>1, <2>3 DEF Keeps
    <2> QED BY Zenon, <1>0, <1>k, <2>1, <2>3, <2>4
  <1>9. ASSUME NEW s \in Socket, Gateway!Drains(s)
        PROVE  GatewayInv'
    <2> DEFINE w == [conn[s] EXCEPT !.buffered = 0]
    <2>1. Keeps(conn[s], w)
      BY <1>0 DEF Keeps, Conns, Told
    <2>2. conn' = [conn EXCEPT ![s] = w] /\ UNCHANGED <<maxConnections, now, registered, rooms, byRoom>>
      BY Zenon, <1>9 DEF Gateway!Drains
    <2> HIDE DEF w
    <2> QED BY Zenon, <1>0, <1>s, <1>k, <2>1, <2>2
  <1>10. ASSUME NEW s \in Socket, Gateway!Leaves(s)
         PROVE  GatewayInv'
    <2>1. /\ conn' = [conn EXCEPT ![s] = Gateway!close(conn[s])]
          /\ UNCHANGED <<maxConnections, now, registered, rooms, byRoom>>
      BY Zenon, <1>10 DEF Gateway!Leaves
    <2>2. Keeps(conn[s], Gateway!close(conn[s]))
      BY Zenon, <1>0, CloseKeeps
    <2> QED BY Zenon, <1>0, <1>s, <1>k, <2>1, <2>2
  <1>11. ASSUME Gateway!tick \/ UNCHANGED Gateway!vars
         PROVE  GatewayInv'
    <2>1. UNCHANGED <<maxConnections, conn, registered, rooms, byRoom>> /\ now' \in {now, now + 1}
      BY Zenon, <1>11 DEF Gateway!tick, Gateway!vars
    <2>2. now' \in Nat
      BY <1>0, <2>1
    <2> QED BY Zenon, <1>0, <1>k, <2>1, <2>2 DEF Keeps
  <1> QED BY Zenon, <1>1, <1>2, <1>3, <1>4, <1>5, <1>6, <1>7, <1>8, <1>9, <1>10, <1>11 DEF Gateway!Next

\* What the peers and the index rely on.
LEMMA GatewaySafe ==
    ASSUME GatewayInv
    PROVE  Gateway!NoSilentLoss /\ Gateway!IndexConsistent
  <1>1. \A S : Gateway!Cardinality(S) = Cardinality(S)
    BY Zenon DEF Gateway!Cardinality, Cardinality
  <1>2. Gateway!NoSilentLoss
    BY Zenon DEF GatewayInv, Told, Gateway!NoSilentLoss, Gateway!isOpen, Gateway!Null
  <1>3. Gateway!IndexConsistent
    BY Zenon, <1>1 DEF GatewayInv, Indexed, Gateway!IndexConsistent
  <1> QED BY Zenon, <1>2, <1>3
=============================================================================
