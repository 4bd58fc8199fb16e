--------------------------- MODULE FieldEncryption ---------------------------
(***************************************************************************)
(* Column encryption (src/crypto) under the order store that uses it: order *)
(* lines are sealed under data keys that a provider mints and wraps;        *)
(* DataKeyCache keeps the key in use per column and the keys unwrapped      *)
(* lately.  Node runs a call up to its next await without interruption;     *)
(* those who await one promise go on one by one once it is settled, before  *)
(* any timer or socket is served again.                                     *)
(***************************************************************************)
EXTENDS Integers, Sequences, FiniteSets, SequencesExt

CONSTANTS
    Field,              \* the encrypted columns
    Row,                \* the orders
    Foreign,            \* of them, rows another build wrote in a format of its own
    Caller,             \* requests in progress at one time
    Configured,         \* the providers the deployments have settings for
    ttl, maxUses, maxDecryptEntries, refreshPercent,
    MaxKeys, MaxNow, MaxFaults     \* bounds

VARIABLES
    now,
    provider,   \* the provider of this process; "none" when it refused to boot
    active,     \* active[f]: the key in use and its budget
    minting,    \* minting[f]: the key being minted, 0 for none
    unwrapped,  \* the unwrapped keys, oldest first, each a promise of a caller
    stored,     \* stored[f, r]: the envelope in the row
    call,       \* call[c]: where a request stands
    sealed,     \* sealed[k]: values under k; whether one was handed a retired k
    minted,     \* keys asked for so far
    faults

vars == <<now, provider, active, minting, unwrapped, stored, call, sealed, minted, faults>>

NoKey == [key |-> 0]
NoRow == [version |-> 0]
Idle == [at |-> "idle"]
Version == 1
Settled == "settled"

-----------------------------------------------------------------------------
(* The providers.  A wrapped key opens under the provider and the encryption *)
(* context, one per column, that wrapped it; and the envelope.               *)

generateDataKey(k, f) == [key |-> k, context |-> f, by |-> provider]
unwrapDataKey(wrapped, f) == wrapped.by = provider /\ wrapped.context = f

\* What a value is bound to: its column and its row.
recordAad(f, r) == <<f, r>>

\* The envelope carries the wrapped key beside the ciphertext.
sealField(wrapped, f, r) == [version |-> Version, wrapped |-> wrapped, aad |-> recordAad(f, r)]
parseEnvelope(envelope) == envelope.version = Version
openField(key, envelope, f, r) == key = envelope.wrapped.key /\ envelope.aad = recordAad(f, r)

-----------------------------------------------------------------------------
(* DataKeyCache: the key in use.                                           *)

newEntry(wrapped) ==
    [key |-> wrapped.key, wrapped |-> wrapped, uses |-> 0, expiresAt |-> now + ttl,
     refreshAt |-> now + (ttl * refreshPercent) \div 100]

\* At least one use short of the limit.
refreshAfterUses == LET n == (maxUses * refreshPercent) \div 100 IN IF n < 1 THEN 1 ELSE n

\* Mutant: only the clock retires a key.
isSpentTime(e) == now >= e.expiresAt

isSpent(e) == now >= e.expiresAt \/ e.uses >= maxUses
shouldRefresh(e) == now >= e.refreshAt \/ e.uses >= refreshAfterUses
Usable(f) == active[f] # NoKey /\ ~isSpent(active[f])

\* A mint in flight is shared by everybody who needs the column's key.
mint(f) ==
    IF minting[f] # 0 THEN UNCHANGED <<minting, minted>>
    ELSE /\ minted < MaxKeys
         /\ minted' = minted + 1
         /\ minting' = [minting EXCEPT ![f] = minted + 1]

\* A background refresh only begins when none is under way.
refreshInBackground(f, e) ==
    IF shouldRefresh(e) THEN mint(f) ELSE UNCHANGED <<minting, minted>>

-----------------------------------------------------------------------------
(* DataKeyCache: unwrapped keys.  A promise is named by the caller that     *)
(* began it, and by Settled once the provider has answered.                 *)

\* Mutant: the cache is keyed by the column alone.
HitColumn(f, wrapped) == {i \in DOMAIN unwrapped : unwrapped[i].field = f}

Hit(f, wrapped) ==
    {i \in DOMAIN unwrapped : unwrapped[i].field = f /\ unwrapped[i].wrapped = wrapped}
Fresh(i) == unwrapped[i].expiresAt > now

Forget(f, wrapped) ==
    SelectSeq(unwrapped, LAMBDA e : ~(e.field = f /\ e.wrapped = wrapped))

evictOldestUnwrapped(s) ==
    IF Len(s) > maxDecryptEntries THEN SubSeq(s, 1 + Len(s) - maxDecryptEntries, Len(s)) ELSE s

Reads(c, f, r, envelope, promise, key) ==
    call' = [call EXCEPT ![c] = [at |-> "unwrap", field |-> f, row |-> r, envelope |-> envelope,
                                 promise |-> promise, key |-> key]]

\* decrypt() begins: the key comes from the cache, or from one call to the
\* provider that later readers share.
unwrap(c, f, r, envelope) ==
    LET w == envelope.wrapped  hit == Hit(f, w) IN
    \/ \E i \in hit :
         /\ Fresh(i)
         /\ Reads(c, f, r, envelope, unwrapped[i].promise, unwrapped[i].wrapped.key)
         /\ UNCHANGED unwrapped
    \/ /\ \A i \in hit : ~Fresh(i)
       /\ Reads(c, f, r, envelope, c, w.key)
       /\ unwrapped' = evictOldestUnwrapped(
            Append(Forget(f, w), [field |-> f, wrapped |-> w, promise |-> c, expiresAt |-> now + ttl]))

-----------------------------------------------------------------------------
(* PrismaOrderStore: create() encrypts, inserts and reads back its own row; *)
(* find() reads.                                                            *)

Unclaimed(f, r) ==
    /\ stored[f, r] = NoRow
    /\ \A c \in Caller : call[c] # Idle => call[c].field # f \/ call[c].row # r

Inserts(f, r, envelope) == [at |-> "insert", field |-> f, row |-> r, envelope |-> envelope]

\* encrypt(): a usable key is counted and used at once, and replaced in the
\* background once most of its budget is gone; otherwise the caller waits.
encrypt(c, f, r) ==
    /\ provider # "none" /\ call[c] = Idle /\ Unclaimed(f, r)
    /\ \/ /\ Usable(f)
          /\ LET e == [active[f] EXCEPT !.uses = @ + 1] IN
               /\ active' = [active EXCEPT ![f] = e]
               /\ refreshInBackground(f, e)
               /\ sealed' = [sealed EXCEPT ![e.key] =
                     [count |-> @.count + 1,
                      late |-> @.late \/ now >= e.expiresAt \/ @.count >= maxUses]]
               /\ call' = [call EXCEPT ![c] = Inserts(f, r, sealField(e.wrapped, f, r))]
       \/ /\ ~Usable(f)
          /\ mint(f)
          /\ call' = [call EXCEPT ![c] = [at |-> "mint", field |-> f, row |-> r, key |-> minting'[f]]]
          /\ UNCHANGED <<active, sealed>>
    /\ UNCHANGED <<now, provider, unwrapped, stored, faults>>

Waiting(k) == {c \in Caller : call[c].at = "mint" /\ call[c].key = k}

\* The key is there and in use, before anybody who awaited it goes on.
mintReturns(f) ==
    /\ minting[f] # 0
    /\ active' = [active EXCEPT ![f] = newEntry(generateDataKey(minting[f], f))]
    /\ minting' = [minting EXCEPT ![f] = 0]
    /\ UNCHANGED <<now, provider, unwrapped, stored, call, sealed, minted, faults>>

\* The mint this caller awaited has settled.
Resumable(c) == call[c].at = "mint" /\ minting[call[c].field] # call[c].key

\* Mutant: a caller who waited does not count.
resumeUncounted(c) ==
    /\ Resumable(c)
    /\ LET f == call[c].field  k == call[c].key IN
         /\ sealed' = [sealed EXCEPT ![k].count = @ + 1]
         /\ call' = [call EXCEPT ![c] =
                       Inserts(f, @.row, sealField(generateDataKey(k, f), f, @.row))]
    /\ UNCHANGED <<now, provider, active, minting, unwrapped, stored, minted, faults>>

\* encryptionKey() after its await: a use is counted, and no budget looked at.
resume(c) ==
    /\ Resumable(c)
    /\ LET f == call[c].field  k == call[c].key IN
         /\ active' = [active EXCEPT ![f] = IF @.key = k THEN [@ EXCEPT !.uses = @ + 1] ELSE @]
         /\ sealed' = [sealed EXCEPT ![k].count = @ + 1]
         /\ call' = [call EXCEPT ![c] =
                       Inserts(f, @.row, sealField(generateDataKey(k, f), f, @.row))]
    /\ UNCHANGED <<now, provider, minting, unwrapped, stored, minted, faults>>

\* The provider refuses: those who wait fail, a background refresh does not.
mintFails(f) ==
    /\ minting[f] # 0
    /\ faults < MaxFaults /\ faults' = faults + 1
    /\ minting' = [minting EXCEPT ![f] = 0]
    /\ call' = [c \in Caller |-> IF c \in Waiting(minting[f]) THEN Idle ELSE call[c]]
    /\ UNCHANGED <<now, provider, active, unwrapped, stored, sealed, minted>>

\* The row is in, and the record that create() returns is read from it.
create(c) ==
    /\ call[c].at = "insert"
    /\ stored' = [stored EXCEPT ![call[c].field, call[c].row] = call[c].envelope]
    /\ unwrap(c, call[c].field, call[c].row, call[c].envelope)
    /\ UNCHANGED <<now, provider, active, minting, sealed, minted, faults>>

find(c, f, r) ==
    /\ provider # "none" /\ call[c] = Idle
    /\ stored[f, r] # NoRow /\ parseEnvelope(stored[f, r])
    /\ unwrap(c, f, r, stored[f, r])
    /\ UNCHANGED <<now, provider, active, minting, stored, sealed, minted, faults>>

On(c) == {d \in Caller : call[d].at = "unwrap" /\ call[d].promise = c}

\* A settled promise is handed to everybody who awaits it.
unwrapReturns(c) ==
    /\ c \in On(c)
    /\ unwrapDataKey(call[c].envelope.wrapped, call[c].field)
    /\ unwrapped' = [i \in DOMAIN unwrapped |->
                       IF unwrapped[i].promise = c THEN [unwrapped[i] EXCEPT !.promise = Settled]
                       ELSE unwrapped[i]]
    /\ call' = [d \in Caller |-> IF d \in On(c) THEN [call[d] EXCEPT !.promise = Settled] ELSE call[d]]
    /\ UNCHANGED <<now, provider, active, minting, stored, sealed, minted, faults>>

\* A refused unwrap is forgotten, so that it can be tried again.
unwrapFails(c) ==
    /\ c \in On(c)
    /\ \/ ~unwrapDataKey(call[c].envelope.wrapped, call[c].field) /\ faults' = faults
       \/ faults < MaxFaults /\ faults' = faults + 1
    /\ unwrapped' = Forget(call[c].field, call[c].envelope.wrapped)
    /\ call' = [d \in Caller |-> IF d \in On(c) THEN Idle ELSE call[d]]
    /\ UNCHANGED <<now, provider, active, minting, stored, sealed, minted>>

\* The value is opened and returned.
decrypt(c) ==
    /\ call[c].at = "unwrap" /\ call[c].promise = Settled
    /\ call' = [call EXCEPT ![c] = Idle]
    /\ UNCHANGED <<now, provider, active, minting, unwrapped, stored, sealed, minted, faults>>

-----------------------------------------------------------------------------
\* onApplicationBootstrap() asks for the column's key ahead of the first write.
prepare(f) ==
    /\ provider # "none" /\ ~Usable(f)
    /\ mint(f) /\ minting' # minting
    /\ UNCHANGED <<now, provider, active, unwrapped, stored, call, sealed, faults>>

\* Another build or another provider is deployed: memory is lost, and a
\* provider that has no settings refuses to boot (selectKeyProvider).
selectKeyProvider(p) ==
    /\ faults < MaxFaults /\ faults' = faults + 1
    /\ provider' = IF p \in Configured THEN p ELSE "none"
    /\ active' = [f \in Field |-> NoKey] /\ minting' = [f \in Field |-> 0]
    /\ unwrapped' = <<>> /\ call' = [c \in Caller |-> Idle]
    /\ UNCHANGED <<now, stored, sealed, minted>>

Tick ==
    /\ \A c \in Caller : ~Resumable(c)
    /\ now < MaxNow /\ now' = now + 1
    /\ UNCHANGED <<provider, active, minting, unwrapped, stored, call, sealed, minted, faults>>

Init ==
    /\ now = 0 /\ provider \in Configured
    /\ active = [f \in Field |-> NoKey] /\ minting = [f \in Field |-> 0]
    /\ unwrapped = <<>>
    /\ stored = [x \in Field \X Row |-> IF x[2] \in Foreign THEN [version |-> Version + 1] ELSE NoRow]
    /\ call = [c \in Caller |-> Idle]
    /\ sealed = [k \in 1 .. MaxKeys |-> [count |-> 0, late |-> FALSE]]
    /\ minted = 0 /\ faults = 0

Next ==
    \/ \E c \in Caller, f \in Field, r \in Row : encrypt(c, f, r) \/ find(c, f, r)
    \/ \E f \in Field : mintReturns(f) \/ mintFails(f) \/ prepare(f)
    \/ \E c \in Caller : resume(c) \/ create(c) \/ unwrapReturns(c) \/ unwrapFails(c) \/ decrypt(c)
    \/ \E p \in {"local", "kms"} : selectKeyProvider(p)
    \/ Tick

Spec == Init /\ [][Next]_vars

-----------------------------------------------------------------------------
\* No caller is handed a key from the cache once maxUses values, whoever sealed
\* them, are under it or its time is up, however mints, refreshes, failures and
\* restarts fall (encryptionKey, isSpent).  Callers who waited for a key to be
\* minted are handed it whatever their number: to them the budget does not apply.
KeysRetire == \A k \in DOMAIN sealed : ~sealed[k].late

\* A reader is given the key that its row was sealed under, whether it came
\* from the cache, from another reader's call or from the provider (unwrap).
OpensOwn ==
    \A c \in Caller : call[c].at = "unwrap" /\ call[c].promise = Settled =>
        openField(call[c].key, call[c].envelope, call[c].field, call[c].row)
=============================================================================
