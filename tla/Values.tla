------------------------------- MODULE Values -------------------------------
(***************************************************************************)
(* Values (src/common/immutable, src/orders, src/payments): objects shared *)
(* frozen, and amounts of money.  The two share no state: each is a        *)
(* specification of its own.                                               *)
(***************************************************************************)
EXTENDS Integers, Sequences, TLC, FiniteSets, SequencesExt

-----------------------------------------------------------------------------
(***************************************************************************)
(* The immutability helpers (src/common/immutable): deepFreeze(), the pipe  *)
(* that applies it to request payloads, and the update helpers that share   *)
(* whatever an update leaves alone.  Objects live in a heap; a value is a   *)
(* reference (1, 2, ...), undefined (0) or a primitive (below 0).           *)
(***************************************************************************)

CONSTANTS
    Key,          \* property names; of an array, its indices
    Primitive,    \* primitive values, negative
    Production,   \* the values NODE_ENV = "production" may take in a run
    MaxObjects    \* bound: objects allocated

VARIABLES
    enabled,      \* freezingEnabledFor(NODE_ENV)
    heap,         \* a sequence of [kind, fields, frozen]
    guarded       \* values handed out as deeply frozen

sharingVars == <<enabled, heap, guarded>>

undefined == 0
Kinds == {"object", "array", "map", "leaf", "opaque"}

-----------------------------------------------------------------------------
(* deep-freeze.ts                                                          *)

\* Functions, buffers and promises are left exactly as they are.
isOpaque(o) == o.kind = "opaque"

\* Dates and regular expressions are frozen, not descended into.
isLeaf(o) == o.kind = "leaf"

\* What a walk descends into: the entries of a collection, the data properties.
Below(h, r) ==
    IF isLeaf(h[r]) THEN {} ELSE {h[r].fields[k] : k \in DOMAIN h[r].fields} \cap DOMAIN h

RECURSIVE visited(_, _, _)
visited(h, frontier, seen) ==
    LET fresh == {r \in frontier \ seen : ~isOpaque(h[r])} IN
    IF fresh = {} THEN seen
    ELSE visited(h, UNION {Below(h, r) : r \in fresh}, seen \cup fresh)

Walk(h, v) == visited(h, {v} \cap DOMAIN h, {})

Frozen(h, refs) == [r \in DOMAIN h |-> IF r \in refs THEN [h[r] EXCEPT !.frozen = TRUE] ELSE h[r]]

freezeInto(h, v) == Frozen(h, Walk(h, v))

-----------------------------------------------------------------------------
(* structural-sharing.ts: what a helper leaves in the heap, and returns    *)

\* Mutant: Object.freeze() of the new version only.
preserveFrozennessShallow(h, source, next) ==
    IF h[source].frozen THEN Frozen(h, {next}) ELSE h

preserveFrozenness(h, source, next) ==
    IF h[source].frozen THEN freezeInto(h, next) ELSE h

Unchanged(h, source) == [heap |-> h, value |-> source]

Version(h, source, kind, fields) ==
    LET next == Len(h) + 1 IN
    [heap |-> preserveFrozenness(
                Append(h, [kind |-> kind, fields |-> fields, frozen |-> FALSE]), source, next),
     value |-> next]

Holds(h, source, key, value) ==
    key \in DOMAIN h[source].fields /\ h[source].fields[key] = value

setKey(h, source, key, value) ==
    IF Holds(h, source, key, value) THEN Unchanged(h, source)
    ELSE Version(h, source, "object", (key :> value) @@ h[source].fields)

\* Keys whose value is undefined are ignored.
Changed(h, source, changes) ==
    {k \in DOMAIN changes : changes[k] # undefined /\ ~Holds(h, source, k, changes[k])}

patch(h, source, changes) ==
    LET changed == Changed(h, source, changes) IN
    IF changed = {} THEN Unchanged(h, source)
    ELSE Version(h, source, "object", [k \in changed |-> changes[k]] @@ h[source].fields)

\* updateKey(source, key, (current) => patch(current, changes)), the nested form.
updateKey(h, source, key, changes) ==
    LET inner == patch(h, h[source].fields[key], changes) IN
    setKey(inner.heap, source, key, inner.value)

removeKey(h, source, key) ==
    IF key \notin DOMAIN h[source].fields THEN Unchanged(h, source)
    ELSE LET rest == DOMAIN h[source].fields \ {key} IN
         Version(h, source, "object", [k \in rest |-> h[source].fields[k]])

\* map(item) replaces the items equal to from by to.
mapArray(h, source, from, to) ==
    LET next == [k \in DOMAIN h[source].fields |->
                   IF h[source].fields[k] = from THEN to ELSE h[source].fields[k]] IN
    IF next = h[source].fields THEN Unchanged(h, source)
    ELSE Version(h, source, "array", next)

-----------------------------------------------------------------------------
\* One frozen constant, DEFAULT_USER_PREFERENCES, whatever the environment.
SharingInit ==
    /\ enabled \in {~production : production \in Production}
    /\ \E p \in Primitive :
         heap = <<[kind |-> "object", fields |-> [k \in Key |-> p], frozen |-> TRUE]>>
    /\ guarded = {1}

Defined == Primitive \cup DOMAIN heap
Slot == Defined \cup {undefined}

\* A caller builds a value out of others.
construct ==
    /\ Len(heap) < MaxObjects
    /\ \E kind \in Kinds, k \in Key, v \in Defined :
         heap' = Append(heap, [kind |-> kind, fields |-> (k :> v), frozen |-> FALSE])
    /\ UNCHANGED <<enabled, guarded>>

\* DeepFreezePipe.transform(): a DTO outside production, nothing else.
transform(r) ==
    /\ enabled /\ heap[r].kind = "object"
    /\ heap' = freezeInto(heap, r)
    /\ guarded' = guarded \cup {r}
    /\ UNCHANGED enabled

\* A helper's result is handed on; it is guarded when its source was frozen.
Returns(result, source) ==
    /\ Len(result.heap) <= MaxObjects
    /\ heap' = result.heap
    /\ guarded' = IF heap[source].frozen THEN guarded \cup {result.value} ELSE guarded
    /\ UNCHANGED enabled

update(r) ==
    /\ heap[r].kind = "object"
    /\ \E k \in Key, v \in Slot :
         \/ Returns(setKey(heap, r, k, v), r)
         \/ Returns(patch(heap, r, (k :> v)), r)
         \/ /\ k \in DOMAIN heap[r].fields
            /\ heap[r].fields[k] \in DOMAIN heap /\ heap[heap[r].fields[k]].kind = "object"
            /\ \E inner \in Key : Returns(updateKey(heap, r, k, (inner :> v)), r)

remove(r) ==
    /\ heap[r].kind = "object"
    /\ \E k \in Key : Returns(removeKey(heap, r, k), r)

mapped(r) ==
    /\ heap[r].kind = "array"
    /\ \E from, to \in Defined : Returns(mapArray(heap, r, from, to), r)

\* A holder assigns to a property.  Every module is strict, so a frozen object
\* throws; the entries of a Map, the time of a Date and the bytes of a Buffer are
\* in slots no freeze reaches.
assign(r) ==
    /\ ~heap[r].frozen \/ heap[r].kind \in {"map", "leaf"}
    /\ \E k \in Key, v \in Defined :
         heap' = [heap EXCEPT ![r].fields = (k :> v) @@ @]
    /\ UNCHANGED <<enabled, guarded>>

SharingNext ==
    \/ construct
    \/ \E r \in DOMAIN heap : transform(r) \/ update(r) \/ remove(r) \/ mapped(r) \/ assign(r)

SharingSpec == SharingInit /\ [][SharingNext]_sharingVars

-----------------------------------------------------------------------------
\* The graph below a value holds no Map and no opaque object.
Plain(v) ==
    /\ \A r \in Walk(heap, v) : heap[r].kind # "map"
    /\ \A r \in Walk(heap, v) : \A c \in Below(heap, r) : ~isOpaque(heap[c])

\* Sharing is safe: through a value handed out as frozen, and through every
\* version derived from one, every holder reads the same properties for ever,
\* however the value was built and whatever it shares (deepFreeze,
\* preserveFrozenness).  What a Date among them says may change, and nothing is
\* said of a value that holds a Map or a Buffer.
NeverRewritten ==
    \A v \in guarded :
        Plain(v) => \A r \in Walk(heap, v) :
            ~isLeaf(heap[r]) => heap'[r] = heap[r]

SharedStands == [][NeverRewritten]_sharingVars

-----------------------------------------------------------------------------
(***************************************************************************)
(* What an order costs, from the basket to the gateway and back: the        *)
(* basket is merged and priced (src/orders/basket.ts, catalogue.ts), the    *)
(* total goes out in minor units (Stripe) or as a decimal string (PayPal),  *)
(* and every later read of the payment sums what the gateway says was       *)
(* refunded (src/payments/money.ts, refund-rules.ts, providers).  Digits    *)
(* are modelled one by one, because the conversions are what can go wrong.  *)
(***************************************************************************)

CONSTANTS
    Baskets,               \* baskets as callers send them: sequences of [sku, quantity]
    Price,                 \* the catalogue: per SKU sold, its price in minor units
    Currency,              \* the currencies the catalogue may be priced in
    ZERO_DECIMAL_CURRENCIES,
    MAX_QUANTITY_PER_SKU,
    MAX_SAFE_INTEGER,
    Asked,                 \* amounts refunds are asked for; 0 asks for all that is left
    MaxRefunds             \* bound: refund requests

VARIABLES
    provider,              \* "stripe" or "paypal"
    currency,
    lines,                 \* the basket as it was sent
    order,                 \* what priceOrder answered
    remote,                \* the gateway's record of the payment
    returned,              \* the gateway's own books: minor units given back
    payment                \* what the provider last returned

pricingVars == <<provider, currency, lines, order, remote, returned, payment>>

Nothing == [status |-> "none"]

-----------------------------------------------------------------------------
(* basket.ts, catalogue.ts                                                 *)

mergeLinesLast(sent) ==
    FoldLeft(LAMBDA merged, line :
                IF \E i \in DOMAIN merged : merged[i].sku = line.sku
                THEN [i \in DOMAIN merged |-> IF merged[i].sku = line.sku THEN line ELSE merged[i]]
                ELSE Append(merged, line),
             <<>>, sent)

\* One line per SKU, in order of first appearance, quantities summed.
mergeLines(sent) ==
    FoldLeft(LAMBDA merged, line :
                IF \E i \in DOMAIN merged : merged[i].sku = line.sku
                THEN [i \in DOMAIN merged |->
                        IF merged[i].sku = line.sku
                        THEN [merged[i] EXCEPT !.quantity = @ + line.quantity] ELSE merged[i]]
                ELSE Append(merged, line),
             <<>>, sent)

Total(items) == FoldLeft(LAMBDA sum, item : sum + Price[item.sku] * item.quantity, 0, items)

\* The per-SKU bound, checkable once the lines are merged.
canonicaliseBasket(sent) ==
    LET basket == mergeLines(sent)
    IN  IF \E i \in DOMAIN basket : basket[i].quantity > MAX_QUANTITY_PER_SKU
        THEN [status |-> "LineQuantityExceededError"]
        ELSE [status |-> "priced", items |-> basket, total |-> Total(basket)]

\* Existence is checked first, over the lines as sent.
priceOrder(sent) ==
    IF \E i \in DOMAIN sent : sent[i].sku \notin DOMAIN Price
    THEN [status |-> "UnknownSkuError"]
    ELSE canonicaliseBasket(sent)

-----------------------------------------------------------------------------
(* money.ts: a decimal string is its digits before and after the point.    *)

\* Currency and integrality are given; the representable range is checked.
normaliseMoney(minor) == IF minor \in 0..MAX_SAFE_INTEGER THEN minor ELSE -1

minorUnitExponent(c) == IF c \in ZERO_DECIMAL_CURRENCIES THEN 0 ELSE 2

\* String(n), n >= 0.
Digits(n) ==
    LET width == CHOOSE w \in 1..10 : n < 10^w /\ (w = 1 \/ n >= 10^(w - 1))
    IN  [i \in 1..width |-> (n \div 10^(width - i)) % 10]

\* Number(s) of a string of digits.
Value(digits) == FoldLeft(LAMBDA n, d : 10 * n + d, 0, digits)

Zeros(n) == [i \in 1..n |-> 0]
padStart(s, n) == IF Len(s) >= n THEN s ELSE Zeros(n - Len(s)) \o s
padEnd(s, n) == IF Len(s) >= n THEN s ELSE s \o Zeros(n - Len(s))

toDecimalString(minor, c) ==
    LET e == minorUnitExponent(c)
        digits == padStart(Digits(minor), e + 1)
    IN  [whole |-> SubSeq(digits, 1, Len(digits) - e),
         fraction |-> SubSeq(digits, Len(digits) - e + 1, Len(digits))]

fromDecimalStringUnpadded(value, c) ==
    LET minor == Value(value.whole \o value.fraction)
    IN  IF Len(value.fraction) > minorUnitExponent(c) \/ minor > MAX_SAFE_INTEGER THEN -1 ELSE minor

\* -1 is InvalidMoneyError: too precise for the currency, or out of range.
fromDecimalString(value, c) ==
    LET e == minorUnitExponent(c)
        minor == Value(value.whole \o padEnd(value.fraction, e))
    IN  IF Len(value.fraction) > e \/ minor > MAX_SAFE_INTEGER THEN -1 ELSE minor

-----------------------------------------------------------------------------
(* The providers' reading of the gateway's record.                         *)

\* What went out for an amount: minor units to Stripe, a decimal to PayPal.
Sent(minor) == IF provider = "paypal" THEN toDecimalString(minor, currency) ELSE minor

\* PayPal may write the same amount back without trailing zeros.
Rendered(value) ==
    IF provider = "stripe" THEN {value}
    ELSE {value} \cup {[value EXCEPT !.fraction = SubSeq(@, 1, k)] :
                         k \in {k \in 0..Len(value.fraction) :
                                  \A i \in (k + 1)..Len(value.fraction) : value.fraction[i] = 0}}

sumRefundsAll(r) ==
    FoldLeft(LAMBDA total, refund : total + fromDecimalString(refund.value, currency), 0, r.refunds)

\* CANCELLED and FAILED refunds never moved money.
sumRefunds(r) ==
    FoldLeft(LAMBDA total, refund :
                IF refund.status \in {"CANCELLED", "FAILED"} THEN total
                ELSE total + fromDecimalString(refund.value, currency),
             0, r.refunds)

\* Statuses on the port's lifecycle; the refunded total decides the tail.
mapStatus(r, amount, refunded) ==
    CASE r.status = "CREATED" -> "requires_action"
      [] r.status = "APPROVED" -> "authorized"
      [] r.status = "COMPLETED" /\ r.capture = "DECLINED" -> "failed"
      [] r.status = "COMPLETED" /\ r.capture = "PENDING" -> "processing"
      [] r.status = "COMPLETED" /\ r.capture = "COMPLETED" ->
            IF refunded <= 0 THEN "succeeded"
            ELSE IF refunded >= amount THEN "refunded" ELSE "partially_refunded"

toPayment(r) ==
    LET amount == IF provider = "paypal" THEN fromDecimalString(r.value, currency)
                                         ELSE normaliseMoney(r.value)
        refunded == IF provider = "paypal" THEN sumRefunds(r) ELSE r.amountRefunded
    IN  [status |-> mapStatus(r, amount, refunded), amount |-> amount, amountRefunded |-> refunded]

\* The amount to refund, or -1 when PaymentStateError is thrown.
resolveRefundAmount(p, asked) ==
    LET remaining == p.amount - p.amountRefunded
        requested == IF asked = 0 THEN remaining ELSE normaliseMoney(asked)
    IN  IF p.status \in {"succeeded", "partially_refunded"} /\ requested \in 1..remaining
        THEN requested ELSE -1

-----------------------------------------------------------------------------
PricingInit ==
    /\ provider \in {"stripe", "paypal"}
    /\ currency \in Currency
    /\ lines \in Baskets
    /\ order = Nothing /\ remote = Nothing /\ payment = Nothing
    /\ returned = 0

\* PlaceOrderHandler: the order is priced from the catalogue.
place ==
    /\ order = Nothing
    /\ order' = priceOrder(lines)
    /\ UNCHANGED <<provider, currency, lines, remote, returned, payment>>

\* An amount that is out of range fails before the network.
authorize ==
    /\ order.status = "priced" /\ remote = Nothing /\ payment = Nothing
    /\ IF normaliseMoney(order.total) = -1
       THEN /\ payment' = [status |-> "InvalidMoneyError"]
            /\ UNCHANGED remote
       ELSE \E v \in Rendered(Sent(order.total)) :
              /\ remote' = [status |-> "CREATED", capture |-> "none", value |-> v,
                            refunds |-> <<>>, amountRefunded |-> 0]
              /\ payment' = toPayment(remote')
    /\ UNCHANGED <<provider, currency, lines, order, returned>>

\* The buyer approves on the gateway's own pages.
approve ==
    /\ remote.status = "CREATED"
    /\ remote' = [remote EXCEPT !.status = "APPROVED"]
    /\ UNCHANGED <<provider, currency, lines, order, returned, payment>>

capture(outcome) ==
    /\ remote.status = "APPROVED"
    /\ provider = "stripe" => outcome = "COMPLETED"
    /\ remote' = [remote EXCEPT !.status = "COMPLETED", !.capture = outcome]
    /\ payment' = toPayment(remote')
    /\ UNCHANGED <<provider, currency, lines, order, returned>>

\* Read, check, request, read again.  A refund PayPal does not settle at once
\* is PENDING; what a settled or pending one gives back is on its books.
refund(asked, outcome) ==
    LET amount == resolveRefundAmount(toPayment(remote), asked)
    IN  /\ remote # Nothing
        /\ Len(remote.refunds) < MaxRefunds
        /\ provider = "stripe" => outcome = "COMPLETED"
        /\ IF amount = -1 THEN UNCHANGED <<remote, returned, payment>>
           ELSE \E v \in Rendered(Sent(amount)) :
                  /\ remote' = [remote EXCEPT
                                 !.refunds = Append(@, [status |-> outcome, value |-> v, minor |-> amount]),
                                 !.amountRefunded = @ + amount]
                  /\ returned' = returned + (IF outcome = "FAILED" THEN 0 ELSE amount)
                  /\ payment' = toPayment(remote')
        /\ UNCHANGED <<provider, currency, lines, order>>

\* A pending capture or refund is decided on PayPal's side.
settle ==
    /\ remote # Nothing
    /\ \/ /\ remote.capture = "PENDING"
          /\ \E outcome \in {"COMPLETED", "DECLINED"} :
                remote' = [remote EXCEPT !.capture = outcome]
          /\ UNCHANGED returned
       \/ \E i \in DOMAIN remote.refunds, outcome \in {"COMPLETED", "CANCELLED"} :
            /\ remote.refunds[i].status = "PENDING"
            /\ remote' = [remote EXCEPT !.refunds[i].status = outcome]
            /\ returned' = returned - (IF outcome = "COMPLETED" THEN 0 ELSE remote.refunds[i].minor)
    /\ UNCHANGED <<provider, currency, lines, order, payment>>

find ==
    /\ remote # Nothing
    /\ payment' = toPayment(remote)
    /\ UNCHANGED <<provider, currency, lines, order, remote, returned>>

PricingNext ==
    \/ place \/ authorize \/ approve \/ settle \/ find
    \/ \E outcome \in {"COMPLETED", "PENDING", "DECLINED"} : capture(outcome)
    \/ \E asked \in Asked, outcome \in {"COMPLETED", "PENDING", "FAILED"} : refund(asked, outcome)

PricingSpec == PricingInit /\ [][PricingNext]_pricingVars

-----------------------------------------------------------------------------
(* The buyer pays for what was sent and gets back at most that: an order    *)
(* is accepted exactly when every SKU is sold and no SKU's lines add up to   *)
(* more than the bound, its total is the sum over the lines as sent, the     *)
(* amount every provider reads back is that total, and the refunds it reads   *)
(* add up to what the gateway gave back (mergeLines: "Nothing is dropped",   *)
(* toDecimalString, fromDecimalString, sumRefunds).                          *)
AmountsAgree ==
    LET Of(sku) == SelectSeq(lines, LAMBDA l : l.sku = sku)
        Units(sku) == FoldLeft(LAMBDA n, l : n + l.quantity, 0, Of(sku))
        Named == {lines[i].sku : i \in DOMAIN lines}
    IN  /\ order # Nothing =>
            (order.status = "priced" <=>
                Named \subseteq DOMAIN Price /\ \A s \in Named : Units(s) <= MAX_QUANTITY_PER_SKU)
        /\ order.status = "priced" =>
            /\ order.total = Total(lines)
            /\ \A s \in Named : \E i \in DOMAIN order.items :
                order.items[i] = [sku |-> s, quantity |-> Units(s)]
            /\ Len(order.items) = Cardinality(Named)
        /\ remote # Nothing =>
            LET read == toPayment(remote)
            IN  /\ read.amount = order.total
                /\ read.amountRefunded = returned
                /\ returned \in 0..order.total
                /\ read.status = "refunded" => returned = order.total
=============================================================================
