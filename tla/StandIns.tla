------------------------------ MODULE StandIns ------------------------------
(***************************************************************************)
(* Stores kept in a Map, beside those they stand in for: InMemorySagaStore   *)
(* (src/test-utils/in-memory-saga.store.ts), which the specs of the          *)
(* orchestrator trust to answer as the table of PrismaSagaStore              *)
(* (src/saga/prisma-saga.store.ts) would; InMemoryIdempotencyStore, which a  *)
(* deployment without Redis runs on (src/common/idempotency/stores); and     *)
(* InMemoryUsersRepository (src/test-utils/in-memory-users.repository.ts)    *)
(* for PrismaUsersRepository, with a reader who pages through the users      *)
(* (src/common/pagination) while they come and go.  The two stores of a port *)
(* are driven by the same calls, each through its own code.  A call is what  *)
(* it leaves behind and what it resolves to.  Bookkeeping instants           *)
(* (updatedAt, a saga's createdAt), the participants' state and the columns  *)
(* no call tells apart are left out; a unit of work is one step.  Two users  *)
(* are never created in one instant, no taken address is created again, and  *)
(* a cursor names a row the list holds: there the Map promises nothing.      *)
(***************************************************************************)
EXTENDS Integers, Sequences, FiniteSets, SequencesExt

CONSTANTS
    Order,      \* the saga instances' ids, ascending
    Owner,      \* the runners that claim
    Progresses, \* what a step may save: [status, delay, release]
    leaseMs,
    Lease,      \* the leases of requests with one idempotency key
    Asked,      \* Asked[l]: the fingerprint of the request with the lease
    Response,
    Ttls,       \* the ttlMs the interceptor passes
    Emails,
    Names,      \* names given to users
    Search,     \* texts searched for; Found[q]: the names and addresses that hold q
    Found,
    Expected,   \* what If-Match said: [mode] or [mode, tags], a tag being [weak, version]
    Patches,    \* changes to preferences, with "undefined" for a key not mentioned
    MaxLog,     \* bound: entries in a saga's log
    LastNow     \* bound: the clock, per port; for users, the writes

VARIABLES
    port,       \* "sagas", "keys" or "users": whose stores are driven
    stored,     \* the table's rows, or Redis' value under the key and when it expires
    map,        \* the Map: <<id, record>> pairs in insertion order, or the key's entry
    now,
    walk        \* the reader of the users' pages

vars == <<port, stored, map, now, walk>>

NoWalk == [open |-> FALSE]

Id == Range(Order)
Rank(i) == CHOOSE n \in DOMAIN Order : Order[n] = i
Null == [status |-> "none"]

\* A new instance, as both stores write it.
Fresh(at) ==
    [status |-> "RUNNING", nextAttemptAt |-> at, log |-> <<>>, lastError |-> "none",
     lockedBy |-> "none", lockedUntil |-> -1]

Unlocked(row) == [row EXCEPT !.lockedBy = "none", !.lockedUntil = -1]

Saved(row, o, p, at) ==
    [row EXCEPT !.status = p.status, !.nextAttemptAt = at + p.delay,
                !.log = Append(@, o),
                !.lockedBy = IF p.release THEN "none" ELSE o,
                !.lockedUntil = IF p.release THEN -1 ELSE at + leaseMs]

-----------------------------------------------------------------------------
(* prisma-saga.store.ts: one statement each, over the set of rows.         *)

Present(table) == {i \in Id : table[i] # Null}

\* UPDATE ... SET ... WHERE id IN chosen RETURNING *
Update(table, chosen, Set(_)) ==
    LET after == [i \in Id |-> IF i \in chosen THEN Set(table[i]) ELSE table[i]]
    IN  [rows |-> after, answer |-> [i \in chosen |-> after[i]]]

sqlCreate(table, i, commits) ==
    IF commits THEN [table EXCEPT ![i] = Fresh(now)] ELSE table

\* The condition of claim's and of claimDue's WHERE.
Due(table) ==
    {i \in Present(table) :
        /\ table[i].status \in {"RUNNING", "COMPENSATING"}
        /\ table[i].nextAttemptAt <= now
        /\ table[i].lockedUntil = -1 \/ table[i].lockedUntil <= now}

Leased(row, o) == [row EXCEPT !.lockedBy = o, !.lockedUntil = now + leaseMs]

sqlClaim(table, i, o) == Update(table, Due(table) \cap {i}, LAMBDA row : Leased(row, o))

\* ORDER BY nextAttemptAt, id LIMIT n
Before(table, i, j) ==
    \/ table[i].nextAttemptAt < table[j].nextAttemptAt
    \/ table[i].nextAttemptAt = table[j].nextAttemptAt /\ Rank(i) < Rank(j)

sqlClaimDue(table, o, limit) ==
    LET due == Due(table)
        first == {i \in due : Cardinality({j \in due : Before(table, j, i)}) < limit}
    IN  Update(table, first, LAMBDA row : Leased(row, o))

sqlSaveUnfenced(table, i, o, p) ==
    Update(table, Present(table) \cap {i}, LAMBDA row : Saved(row, o, p, now))

sqlSave(table, i, o, p) ==
    Update(table, {j \in Present(table) \cap {i} : table[j].lockedBy = o},
           LAMBDA row : Saved(row, o, p, now))

sqlAbandon(table, i) ==
    [table EXCEPT ![i] = [Unlocked(@) EXCEPT !.status = "STUCK", !.lastError = "reason"]]

sqlFindMany(table, ids) == [i \in Present(table) \cap Range(ids) |-> table[i]]

sqlCountByStatus(table) ==
    [s \in {table[i].status : i \in Present(table)} |->
        Cardinality({i \in Present(table) : table[i].status = s})]

-----------------------------------------------------------------------------
(* in-memory-saga.store.ts: a walk over a Map.                             *)

At(m, i) == SelectInSeq(m, LAMBDA e : e[1] = i)
\* this.rows.get(id), this.rows.set(id, record), this.rows.delete(id)
Get(m, i) == IF At(m, i) = 0 THEN Null ELSE m[At(m, i)][2]
Put(m, i, record) ==
    IF At(m, i) = 0 THEN Append(m, <<i, record>>) ELSE [m EXCEPT ![At(m, i)] = <<i, record>>]
Delete(m, i) == SelectSeq(m, LAMBDA e : e[1] # i)

create(m, i, commits) ==
    LET staged == Put(m, i, Fresh(now))
    IN  IF commits THEN staged ELSE Delete(staged, i)

isClaimableBefore(row) ==
    /\ row.status \in {"RUNNING", "COMPENSATING"}
    /\ ~(row.nextAttemptAt > now)
    /\ row.lockedUntil = -1 \/ row.lockedUntil < now

isClaimable(row) ==
    /\ row.status \in {"RUNNING", "COMPENSATING"}
    /\ ~(row.nextAttemptAt > now)
    /\ row.lockedUntil = -1 \/ row.lockedUntil <= now

lease(m, i, o) == Put(m, i, Leased(Get(m, i), o))

claim(m, i, o) ==
    IF Get(m, i) = Null \/ ~isClaimable(Get(m, i)) THEN [map |-> m, answer |-> Null]
    ELSE [map |-> lease(m, i, o), answer |-> Get(lease(m, i, o), i)]

\* filter, sort, slice(0, limit), and a lease for each.
claimDue(m, o, limit) ==
    LET due == SelectSeq(m, LAMBDA e : isClaimable(e[2]))
        sorted == SortSeq(due, LAMBDA d, e :
                    \/ d[2].nextAttemptAt < e[2].nextAttemptAt
                    \/ d[2].nextAttemptAt = e[2].nextAttemptAt /\ Rank(d[1]) < Rank(e[1]))
        ids == [n \in 1..(IF limit < Len(sorted) THEN limit ELSE Len(sorted)) |-> sorted[n][1]]
        after == FoldLeft(LAMBDA t, i : lease(t, i, o), m, ids)
    IN  [map |-> after, answer |-> [n \in DOMAIN ids |-> <<ids[n], Get(after, ids[n])>>]]

save(m, i, o, p) ==
    IF Get(m, i) = Null \/ Get(m, i).lockedBy # o THEN [map |-> m, answer |-> Null]
    ELSE LET updated == Saved(Get(m, i), o, p, now)
         IN  [map |-> Put(m, i, updated), answer |-> updated]

abandon(m, i) ==
    IF Get(m, i) = Null THEN m
    ELSE Put(m, i, [Unlocked(Get(m, i)) EXCEPT !.status = "STUCK", !.lastError = "reason"])

\* for (const id of new Set(ids))
findMany(m, ids) ==
    LET distinct == FoldLeft(LAMBDA s, i : IF Contains(s, i) THEN s ELSE Append(s, i), <<>>, ids)
    IN  SelectSeq([n \in DOMAIN distinct |-> <<distinct[n], Get(m, distinct[n])>>],
                  LAMBDA e : e[2] # Null)

countByStatus(m) ==
    FoldLeft(LAMBDA counts, e : [counts EXCEPT ![e[2].status] = @ + 1],
             [s \in {"RUNNING", "COMPENSATING", "COMPLETED", "COMPENSATED", "STUCK"} |-> 0], m)

-----------------------------------------------------------------------------
(* The records of one idempotency key.                                      *)

Nothing == [state |-> "nothing"]
Empty == [record |-> Nothing, expiresAt |-> 0]
InFlight(l) == [state |-> "in-flight", fingerprint |-> Asked[l], lease |-> l]
Completed(record, r) ==
    [state |-> "completed", fingerprint |-> record.fingerprint, lease |-> record.lease, response |-> r]
Kept(record, ttl) == [record |-> record, expiresAt |-> now + ttl]
Answers(entry, answer) == [entry |-> entry, answer |-> answer]

-----------------------------------------------------------------------------
(* redis-idempotency.store.ts                                              *)

normaliseTtl(ttl) == IF ttl < 1 THEN 1 ELSE ttl

\* SET NX, and the record of whoever came first.
redisReserve(e, l, ttl) ==
    IF e = Empty THEN Answers(Kept(InFlight(l), normaliseTtl(ttl)), Nothing)
    ELSE Answers(e, e.record)

\* COMPLETE_IF_LEASED keeps the stored record's fingerprint.
redisComplete(e, l, r, ttl) ==
    IF e = Empty \/ e.record.lease # l THEN Answers(e, FALSE)
    ELSE Answers(Kept(Completed(e.record, r), normaliseTtl(ttl)), TRUE)

\* RELEASE_IF_LEASED
redisRelease(e, l) == IF e = Empty \/ e.record.lease # l THEN Answers(e, FALSE) ELSE Answers(Empty, TRUE)

redisGet(e) == e.record

\* PX: a key is gone the moment its time is up.
Expires(e, at) == IF e # Empty /\ e.expiresAt <= at THEN Empty ELSE e

-----------------------------------------------------------------------------
(* in-memory-idempotency.store.ts                                          *)

readStale(e) == e

\* An entry past its time is swept by the read that finds it.
read(e) == IF e = Empty \/ e.expiresAt <= now THEN Empty ELSE e

reserve(e, l, ttl) ==
    IF read(e) # Empty THEN Answers(read(e), read(e).record)
    ELSE Answers(Kept(InFlight(l), ttl), Nothing)

completeKeepsTtl(e, l, r, ttl) ==
    IF read(e) = Empty \/ read(e).record.lease # l THEN Answers(read(e), FALSE)
    ELSE Answers([read(e) EXCEPT !.record = Completed(@, r)], TRUE)

complete(e, l, r, ttl) ==
    IF read(e) = Empty \/ read(e).record.lease # l THEN Answers(read(e), FALSE)
    ELSE Answers(Kept(Completed(read(e).record, r), ttl), TRUE)

release(e, l) ==
    IF read(e) = Empty \/ read(e).record.lease # l THEN Answers(read(e), FALSE)
    ELSE Answers(Empty, TRUE)

get(e) == read(e).record

-----------------------------------------------------------------------------
(* users/prisma-users.repository.ts, common/prisma/prisma.extensions.ts      *)

NoPrefs == [theme |-> "null"]
DEFAULT_USER_PREFERENCES == [theme |-> "system", language |-> "en"]
UserId == 1..LastNow["users"]

mergePreferences(current, changes) ==
    [k \in DOMAIN current |-> IF changes[k] = "undefined" THEN current[k] ELSE changes[k]]

\* What a column that may be null holds, over the defaults.
Preferred(prefs) ==
    IF prefs = NoPrefs THEN DEFAULT_USER_PREFERENCES ELSE mergePreferences(DEFAULT_USER_PREFERENCES, prefs)

Row(row) == [kind |-> "row", row |-> row]
VersionConflict(version) == [kind |-> "VersionConflictError", version |-> version]
NotFound == [kind |-> "error"]

Preferring(preferences, version) == [preferences |-> preferences, version |-> version]

NewUser(email, name) ==
    [email |-> email, name |-> name, version |-> 0, createdAt |-> now, preferences |-> NoPrefs]

Users(table) == {i \in UserId : table[i] # Null}

versionPredicateWeak(expected, version) ==
    expected.mode = "list" => version \in {expected.tags[n].version : n \in DOMAIN expected.tags}

\* version IN the strong tags' versions; no predicate without a list.
versionPredicate(expected, version) ==
    expected.mode = "list" =>
        version \in {expected.tags[n].version : n \in {n \in DOMAIN expected.tags : ~expected.tags[n].weak}}

isSatisfiedBy(expected, actual) ==
    expected.mode = "list" =>
        \E n \in DOMAIN expected.tags : ~expected.tags[n].weak /\ expected.tags[n].version = actual

\* P2025 says only that no row matched: the row is read back.
explainWriteFailure(table, i, expected) ==
    IF i \in Users(table) /\ ~isSatisfiedBy(expected, table[i].version)
    THEN VersionConflict(table[i].version) ELSE NotFound

\* A write WHERE id = i AND the version predicate, in a transaction.
sqlWrite(table, i, expected, Set(_), Answer(_)) ==
    IF i \in Users(table) /\ versionPredicate(expected, table[i].version)
    THEN [rows |-> [table EXCEPT ![i] = Set(@)], answer |-> Row(Answer(table[i]))]
    ELSE [rows |-> table, answer |-> explainWriteFailure(table, i, expected)]

Renamed(row, name) ==
    [row EXCEPT !.name = IF name = "undefined" THEN @ ELSE name, !.version = @ + 1]

sqlInsert(table, i, email, name) == [table EXCEPT ![i] = NewUser(email, name)]

sqlUpdate(table, i, name, expected) ==
    sqlWrite(table, i, expected, LAMBDA row : Renamed(row, name), LAMBDA row : Renamed(row, name))

sqlDelete(table, i, expected) ==
    sqlWrite(table, i, expected, LAMBDA row : Null, LAMBDA row : row)

sqlSetPreferences(table, i, changes, expected) ==
    LET Patched(row) == [row EXCEPT !.preferences = mergePreferences(Preferred(@), changes),
                                    !.version = @ + 1]
    IN  sqlWrite(table, i, expected, Patched, LAMBDA row : Preferring(Patched(row).preferences, row.version + 1))

sqlGetPreferences(table, i) ==
    IF i \in Users(table) THEN Preferred(table[i].preferences) ELSE DEFAULT_USER_PREFERENCES

sqlFindByEmail(table, email) == {i \in Users(table) : table[i].email = email}

NoCursor == 0
Matches(row, search) == search = "" \/ {row.name, row.email} \cap Found[search] # {}

\* WHERE, ORDER BY "createdAt", the rows after the cursor's, LIMIT limit + 1
sqlFindUsers(table, cursor, limit, search) ==
    LET after == {i \in Users(table) :
                    /\ Matches(table[i], search)
                    /\ cursor # NoCursor => table[i].createdAt > table[cursor].createdAt}
        sorted == SetToSortSeq(after, LAMBDA i, j : table[i].createdAt < table[j].createdAt)
    IN  SubSeq(sorted, 1, IF limit + 1 < Len(sorted) THEN limit + 1 ELSE Len(sorted))

-----------------------------------------------------------------------------
(* in-memory-users.repository.ts                                           *)

\* Two Maps: the users, and their preferences.
Maps(users, preferences) == [users |-> users, preferences |-> preferences]

\* create, with the compensation a unit of work that fails runs.
createUser(m, i, email, name, commits) ==
    LET written == Maps(Put(m.users, i, NewUser(email, name)), m.preferences)
    IN  IF commits THEN written ELSE Maps(Delete(written.users, i), written.preferences)

\* The two early returns of every conditional write.
Refusal(m, i, expected) ==
    LET existing == Get(m.users, i)
    IN  IF existing = Null THEN <<NotFound>>
        ELSE IF ~isSatisfiedBy(expected, existing.version) THEN <<VersionConflict(existing.version)>>
        ELSE <<>>

updateUser(m, i, name, expected, commits) ==
    LET existing == Get(m.users, i)
        written == Put(m.users, i, Renamed(existing, name))
    IN  IF Refusal(m, i, expected) # <<>> THEN [map |-> m, answer |-> Refusal(m, i, expected)[1]]
        ELSE [map |-> Maps(IF commits THEN written ELSE Put(written, i, existing), m.preferences),
              answer |-> Row(Renamed(existing, name))]

deleteUser(m, i, expected, commits) ==
    LET existing == Get(m.users, i)
        gone == Maps(Delete(m.users, i), [m.preferences EXCEPT ![i] = NoPrefs])
    IN  IF Refusal(m, i, expected) # <<>> THEN [map |-> m, answer |-> Refusal(m, i, expected)[1]]
        ELSE [map |-> IF commits THEN gone
                      ELSE Maps(Put(gone.users, i, existing),
                                 [gone.preferences EXCEPT ![i] = m.preferences[i]]),
              answer |-> Row(existing)]

getPreferences(m, i) == Preferred(m.preferences[i])

setPreferencesApart(m, i, changes, expected) ==
    LET merged == mergePreferences(getPreferences(m, i), changes)
    IN  IF Refusal(m, i, expected) # <<>> THEN [map |-> m, answer |-> Refusal(m, i, expected)[1]]
        ELSE [map |-> Maps(m.users, [m.preferences EXCEPT ![i] = merged]),
              answer |-> Row(Preferring(merged, Get(m.users, i).version))]

\* Preferences have a Map of their own, and still move the user's version.
setPreferences(m, i, changes, expected) ==
    LET merged == mergePreferences(getPreferences(m, i), changes)
        user == [Get(m.users, i) EXCEPT !.version = @ + 1]
    IN  IF Refusal(m, i, expected) # <<>> THEN [map |-> m, answer |-> Refusal(m, i, expected)[1]]
        ELSE [map |-> Maps(Put(m.users, i, user), [m.preferences EXCEPT ![i] = merged]),
              answer |-> Row(Preferring(merged, user.version))]

findByEmail(m, email) ==
    LET index == SelectInSeq(m.users, LAMBDA e : e[2].email = email)
    IN  IF index = 0 THEN {} ELSE {m.users[index][1]}

\* sort, filter, findIndex, slice
findUsers(m, cursor, limit, search) ==
    LET sorted == SortSeq(m.users, LAMBDA d, e : d[2].createdAt < e[2].createdAt)
        found == SelectSeq(sorted, LAMBDA e : Matches(e[2], search))
        index == SelectInSeq(found, LAMBDA e : e[1] = cursor)
        left == IF cursor = NoCursor THEN found ELSE SubSeq(found, index + 1, Len(found))
    IN  [n \in 1..(IF limit + 1 < Len(left) THEN limit + 1 ELSE Len(left)) |-> left[n][1]]

-----------------------------------------------------------------------------
(* common/pagination/build-cursor-page.ts                                  *)

encodeCursor(id) == [base64url |-> id]
decodeCursor(cursor) == cursor.base64url

buildCursorPageAtExtra(rows, limit) ==
    [items |-> IF Len(rows) > limit THEN SubSeq(rows, 1, limit) ELSE rows,
     nextCursor |-> IF Len(rows) > limit THEN <<encodeCursor(Last(rows))>> ELSE <<>>,
     hasNextPage |-> Len(rows) > limit]

\* rows were fetched with limit + 1; a page size is at least 1.
buildCursorPage(rows, limit) ==
    LET items == IF Len(rows) > limit THEN SubSeq(rows, 1, limit) ELSE rows
    IN  [items |-> items,
         nextCursor |-> IF Len(rows) > limit THEN <<encodeCursor(Last(items))>> ELSE <<>>,
         hasNextPage |-> Len(rows) > limit]

-----------------------------------------------------------------------------
(* The orchestrator and its runners call.                                  *)

SagaInit ==
    /\ stored = [i \in Id |-> Null]
    /\ map = <<>>

\* The orchestrator stages an instance in a unit of work that commits or not.
start(i, commits) ==
    /\ port = "sagas"
    /\ stored[i] = Null
    /\ stored' = sqlCreate(stored, i, commits)
    /\ map' = create(map, i, commits)
    /\ UNCHANGED <<port, now, walk>>

advance(i, o) ==
    /\ port = "sagas"
    /\ stored' = sqlClaim(stored, i, o).rows
    /\ map' = claim(map, i, o).map
    /\ UNCHANGED <<port, now, walk>>

poll(o, limit) ==
    /\ port = "sagas"
    /\ stored' = sqlClaimDue(stored, o, limit).rows
    /\ map' = claimDue(map, o, limit).map
    /\ UNCHANGED <<port, now, walk>>

\* A runner reports, whether or not the lease is still its own.
report(i, o, p) ==
    /\ port = "sagas"
    /\ stored[i] # Null => Len(stored[i].log) < MaxLog
    /\ stored' = sqlSave(stored, i, o, p).rows
    /\ map' = save(map, i, o, p).map
    /\ UNCHANGED <<port, now, walk>>

\* Only an instance some runner has read is abandoned.
give(i) ==
    /\ port = "sagas"
    /\ stored[i] # Null
    /\ stored' = sqlAbandon(stored, i)
    /\ map' = abandon(map, i)
    /\ UNCHANGED <<port, now, walk>>

SagaNext ==
    \/ \E i \in Id, commits \in BOOLEAN : start(i, commits)
    \/ \E i \in Id, o \in Owner : advance(i, o)
    \/ \E o \in Owner, limit \in 1..2 : poll(o, limit)
    \/ \E i \in Id, o \in Owner, p \in Progresses : report(i, o, p)
    \/ \E i \in Id : give(i)

-----------------------------------------------------------------------------
(* The idempotency interceptor calls, at any time and in any order.        *)

KeyInit ==
    /\ stored = Empty
    /\ map = Empty

reserves(l, ttl) ==
    /\ port = "keys"
    /\ stored' = redisReserve(stored, l, ttl).entry
    /\ map' = reserve(map, l, ttl).entry
    /\ UNCHANGED <<port, now, walk>>

completes(l, r, ttl) ==
    /\ port = "keys"
    /\ stored' = redisComplete(stored, l, r, ttl).entry
    /\ map' = complete(map, l, r, ttl).entry
    /\ UNCHANGED <<port, now, walk>>

releases(l) ==
    /\ port = "keys"
    /\ stored' = redisRelease(stored, l).entry
    /\ map' = release(map, l).entry
    /\ UNCHANGED <<port, now, walk>>

KeyNext ==
    \/ \E l \in Lease, ttl \in Ttls : reserves(l, ttl) \/ \E r \in Response : completes(l, r, ttl)
    \/ \E l \in Lease : releases(l)

-----------------------------------------------------------------------------
(* Handlers write users, and a reader lists them page by page.               *)

UserInit ==
    /\ stored = [i \in UserId |-> Null]
    /\ map = [users |-> <<>>, preferences |-> [i \in UserId |-> NoPrefs]]

\* Every write has an instant of its own, which also serves as the new id.
Writing == port = "users" /\ now < LastNow["users"] /\ now' = now + 1 /\ UNCHANGED port

\* The unit of work of RegisterUser commits or not.
creates(email, name, commits) ==
    /\ Writing
    /\ \A i \in Users(stored) : stored[i].email # email
    /\ stored' = IF commits THEN sqlInsert(stored, now + 1, email, name) ELSE stored
    /\ map' = createUser(map, now + 1, email, name, commits)
    /\ UNCHANGED walk

updates(i, name, expected, commits) ==
    /\ Writing
    /\ stored' = IF commits THEN sqlUpdate(stored, i, name, expected).rows ELSE stored
    /\ map' = updateUser(map, i, name, expected, commits).map
    /\ UNCHANGED walk

deletes(i, expected, commits) ==
    /\ Writing
    /\ stored' = IF commits THEN sqlDelete(stored, i, expected).rows ELSE stored
    /\ map' = deleteUser(map, i, expected, commits).map
    /\ walk' = IF ~walk.open \/ stored'[i] # Null THEN walk
               ELSE [walk EXCEPT !.stayed = @ \ {i}, !.lost = @ \/ walk.next = <<encodeCursor(i)>>]

prefers(i, changes, expected) ==
    /\ Writing
    /\ stored' = sqlSetPreferences(stored, i, changes, expected).rows
    /\ map' = setPreferences(map, i, changes, expected).map
    /\ UNCHANGED walk

\* The first request of a reader.
opens(limit) ==
    /\ port = "users" /\ ~walk.open
    /\ walk' = [open |-> TRUE, limit |-> limit, seen |-> <<>>, next |-> <<>>, done |-> FALSE,
                stayed |-> Users(stored), lost |-> FALSE]
    /\ UNCHANGED <<port, stored, map, now>>

\* ListUsersHandler.execute with the cursor of the page before.
lists ==
    LET cursor == IF walk.next = <<>> THEN NoCursor ELSE decodeCursor(walk.next[1])
        page == buildCursorPage(sqlFindUsers(stored, cursor, walk.limit, ""), walk.limit)
    IN  /\ walk.open /\ ~walk.done /\ ~walk.lost
        /\ walk' = [walk EXCEPT !.seen = @ \o page.items, !.next = page.nextCursor, !.done = ~page.hasNextPage]
        /\ UNCHANGED <<port, stored, map, now>>

UserNext ==
    \/ \E email \in Emails, name \in Names \cup {"null"}, commits \in BOOLEAN : creates(email, name, commits)
    \/ \E i \in 1..now, expected \in Expected :
        \/ \E name \in Names \cup {"undefined"}, commits \in BOOLEAN : updates(i, name, expected, commits)
        \/ \E commits \in BOOLEAN : deletes(i, expected, commits)
        \/ \E changes \in Patches : prefers(i, changes, expected)
    \/ \E limit \in 1..2 : opens(limit)
    \/ lists

-----------------------------------------------------------------------------
Init ==
    /\ \/ port = "sagas" /\ SagaInit
       \/ port = "keys" /\ KeyInit
       \/ port = "users" /\ UserInit
    /\ now = 0
    /\ walk = NoWalk

\* Redis drops a key when its time is up; the Maps keep what they hold.
Tick ==
    /\ port # "users"
    /\ now < LastNow[port]
    /\ now' = now + 1
    /\ stored' = IF port = "keys" THEN Expires(stored, now + 1) ELSE stored
    /\ UNCHANGED <<port, map, walk>>

Next == SagaNext \/ KeyNext \/ UserNext \/ Tick

Spec == Init /\ [][Next]_vars

-----------------------------------------------------------------------------
\* A single row or nothing, and rows in whatever order.
One(answer) == IF answer = Null THEN {} ELSE {answer}
Some(answer) == {answer[i] : i \in DOMAIN answer}
Keyed(f) == {<<i, f[i]>> : i \in DOMAIN f}

(* A spec that passes on the double says something about the table: after    *)
(* any calls the two hold the same rows, and the next call, whichever it is, *)
(* is answered alike: the same instance claimed or refused, the same batch   *)
(* due, a runner that lost its lease told so by both                         *)
(* (in-memory-saga.store.ts; save: "The fencing check").                     *)
DoubleIsTable ==
    port = "sagas" =>
        /\ \A i \in Id : Get(map, i) = stored[i]
        /\ \A i \in Id, o \in Owner :
            /\ One(claim(map, i, o).answer) = Some(sqlClaim(stored, i, o).answer)
            /\ \A p \in Progresses : One(save(map, i, o, p).answer) = Some(sqlSave(stored, i, o, p).answer)
        /\ \A o \in Owner, limit \in 1..2 :
            Range(claimDue(map, o, limit).answer) = Keyed(sqlClaimDue(stored, o, limit).answer)
        /\ \A ids \in {<<>>, Order, Order \o <<Order[1]>>} :
            /\ Range(findMany(map, ids)) = Keyed(sqlFindMany(stored, ids))
            /\ Len(findMany(map, ids)) = Cardinality(DOMAIN sqlFindMany(stored, ids))
        /\ \A s \in DOMAIN countByStatus(map) :
            LET n == countByStatus(map)[s]
            IN  IF n = 0 THEN s \notin DOMAIN sqlCountByStatus(stored) ELSE sqlCountByStatus(stored)[s] = n

(* Either store gives the interceptor the same answers, however reservations,*)
(* completions, releases and expiry follow one another: who is first, whose  *)
(* lease still stands, what is replayed and for how long (the contract both  *)
(* stores are tested against, with the sweep on read in place of PX).        *)
MapIsRedis ==
    port = "keys" =>
        /\ get(map) = redisGet(stored)
        /\ stored # Empty => map = stored
        /\ \A l \in Lease, ttl \in Ttls :
            /\ reserve(map, l, ttl).answer = redisReserve(stored, l, ttl).answer
            /\ release(map, l).answer = redisRelease(stored, l).answer
            /\ \A r \in Response : complete(map, l, r, ttl).answer = redisComplete(stored, l, r, ttl).answer

\* A user of the Map with the preferences the other Map holds.
Whole(m, i) ==
    IF Get(m.users, i) = Null THEN Null ELSE [Get(m.users, i) EXCEPT !.preferences = m.preferences[i]]
\* An answer without the preferences, which are the other Map's.
Shown(answer) == IF answer.kind = "row" THEN [answer EXCEPT !.row.preferences = NoPrefs] ELSE answer

(* A user in the Map is the row: after any writes, units of work that failed *)
(* included, the two hold the same users with the same versions and          *)
(* preferences, refuse the same conditional writes for the same reason, and  *)
(* list, search and page alike (users-store.contract.ts: "a double whose     *)
(* version counter drifted from the real one would make every conflict test  *)
(* pass without proving anything about Postgres").                           *)
UsersAlike ==
    port = "users" =>
        /\ \A i \in UserId :
            /\ Whole(map, i) = stored[i]
            /\ getPreferences(map, i) = sqlGetPreferences(stored, i)
        /\ \A i \in UserId, e \in Expected :
            /\ \A name \in Names \cup {"undefined"} :
                Shown(updateUser(map, i, name, e, TRUE).answer) = Shown(sqlUpdate(stored, i, name, e).answer)
            /\ Shown(deleteUser(map, i, e, TRUE).answer) = Shown(sqlDelete(stored, i, e).answer)
            /\ \A p \in Patches :
                setPreferences(map, i, p, e).answer = sqlSetPreferences(stored, i, p, e).answer
        /\ \A email \in Emails : findByEmail(map, email) = sqlFindByEmail(stored, email)
        /\ \A q \in Search \cup {""}, limit \in 1..2 :
            \A cursor \in {NoCursor} \cup {i \in Users(stored) : Matches(stored[i], q)} :
                findUsers(map, cursor, limit, q) = sqlFindUsers(stored, cursor, limit, q)

(* A reader who follows the cursors while users come, change and go sees     *)
(* nobody twice, in the order they came, and at the end everybody who was    *)
(* there throughout, unless the very row a cursor names is deleted           *)
(* (buildCursorPage: "The last visible item's ID becomes the next cursor").  *)
WalkWhole ==
    walk.open /\ ~walk.lost =>
        /\ \A m, n \in DOMAIN walk.seen : m < n => walk.seen[m] < walk.seen[n]
        /\ walk.done => walk.stayed \subseteq Range(walk.seen)
=============================================================================
