-------------------------------- MODULE Users --------------------------------
(***************************************************************************)
(* One user's row, its cached representation, and the requests that read    *)
(* and write it (src/users, src/common/concurrency, src/common/cache).      *)
(* A client reads the user (through the cache) or the preferences, then     *)
(* writes with If-Match: the command checks the version it names against    *)
(* the row, and the statement that writes repeats the check.  Every await   *)
(* between the two, and between a write and the eviction that follows it,   *)
(* is a place where other requests run.                                     *)
(***************************************************************************)
EXTENDS Integers, FiniteSets

CONSTANTS
    Request,     \* the requests, each a read and then at most one write
    Reader,      \* those of them that only read
    Nobody       \* no request

VARIABLES
    row,         \* version, who last wrote the profile, the patches in preferences
    live,        \* the row exists
    locked,      \* the request whose open transaction has deleted the row
    cached,      \* the cache entry of GET /users/:id; version 0 is no entry
    staged,      \* user.deleted is committed and not yet projected
    request      \* request[r]: where r stands and what it knows

vars == <<row, live, locked, cached, staged, request>>

NoEntry == [version |-> 0, profile |-> Nobody, prefs |-> {}]
Idle == [at |-> "idle", read |-> "none", saw |-> NoEntry, op |-> "none", mode |-> "list",
         base |-> {}, over |-> NoEntry]

Init ==
    /\ row = [version |-> 1, profile |-> Nobody, prefs |-> {}] /\ live = TRUE
    /\ locked = Nobody /\ cached = NoEntry /\ staged = FALSE
    /\ request = [r \in Request |-> Idle]

Becomes(r, new) == request' = [request EXCEPT ![r] = new]
Refused == [Idle EXCEPT !.at = "refused"]   \* 404, 412, 428 or a failed transaction
Moves(r, at) == Becomes(r, [request[r] EXCEPT !.at = at])
Answered(r) == Becomes(r, [Idle EXCEPT !.at = "ok", !.op = request[r].op, !.mode = request[r].mode])

-----------------------------------------------------------------------------
(* GET /users/:id: the cache interceptor around findById.                  *)

cacheHit(r) ==
    /\ request[r].at = "idle" /\ cached # NoEntry
    /\ Becomes(r, [Idle EXCEPT !.at = "seen", !.read = "user", !.saw = cached])
    /\ UNCHANGED <<row, live, locked, cached, staged>>

cacheMiss(r) ==
    /\ request[r].at = "idle" /\ cached = NoEntry
    /\ Becomes(r, [Idle EXCEPT !.at = "reading", !.read = "user"])
    /\ UNCHANGED <<row, live, locked, cached, staged>>

findById(r) ==
    /\ request[r].at = "reading"
    /\ Becomes(r, IF live THEN [request[r] EXCEPT !.at = "filling", !.saw = row]
                          ELSE Refused)
    /\ UNCHANGED <<row, live, locked, cached, staged>>

fill(r) ==
    /\ request[r].at = "filling"
    /\ cached' = request[r].saw
    /\ Moves(r, "seen")
    /\ UNCHANGED <<row, live, locked, staged>>

\* GET /users/:id/preferences: the version first, the preferences after it.
requireUser(r) ==
    /\ request[r].at = "idle"
    /\ Becomes(r, IF live THEN [Idle EXCEPT !.at = "version", !.read = "prefs",
                                            !.saw.version = row.version]
                          ELSE Refused)
    /\ UNCHANGED <<row, live, locked, cached, staged>>

getPreferences(r) ==
    /\ request[r].at = "version"
    /\ Becomes(r, [request[r] EXCEPT !.at = "seen",
                                     !.saw.prefs = IF live THEN row.prefs ELSE {}])
    /\ UNCHANGED <<row, live, locked, cached, staged>>

-----------------------------------------------------------------------------
(* The commands.  mode: "list" names the version seen, "any" is "*", and    *)
(* "unconditional" is a request without If-Match.                           *)

isSatisfiedBy(r) == request[r].mode = "list" => request[r].saw.version = row.version

\* Mutant: the statement that writes trusts the check made before it.
versionPredicateChecked(r) == live

\* The row the statement's WHERE matches, if any.
versionPredicate(r) == live /\ isSatisfiedBy(r)

FirstAwait == [profile |-> "write", avatar |-> "upload", prefs |-> "merge", delete |-> "delete"]

\* 404, then 428, then 412, before anything is done.
assertPrecondition(r) ==
    /\ request[r].at = "seen" /\ r \notin Reader
    /\ \E op \in DOMAIN FirstAwait, mode \in {"list", "any", "unconditional"} :
          LET ok == /\ live
                    /\ mode # "unconditional"
                    /\ mode = "list" => request[r].saw.version = row.version
          IN  Becomes(r, IF ok THEN [request[r] EXCEPT !.op = op, !.mode = mode,
                                                       !.at = FirstAwait[op]]
                               ELSE Refused)
    /\ UNCHANGED <<row, live, locked, cached, staged>>

uploadBuffer(r) ==
    /\ request[r].at = "upload"
    /\ Moves(r, "write")
    /\ UNCHANGED <<row, live, locked, cached, staged>>

\* An UPDATE waits for a transaction that has deleted the row; it bumps the version.
update(r, new) ==
    /\ locked = Nobody
    /\ IF versionPredicate(r)
       THEN /\ row' = [new EXCEPT !.version = @ + 1]
            /\ Becomes(r, [request[r] EXCEPT !.at = "evict", !.base = {}, !.over = row])
       ELSE /\ Becomes(r, Refused)
            /\ UNCHANGED row
    /\ UNCHANGED <<live, locked, cached, staged>>

applyUpdate(r) ==
    /\ request[r].at = "write"
    /\ update(r, [row EXCEPT !.profile = r])

\* setPreferences(): read, merge, write.
mergePreferences(r) ==
    /\ request[r].at = "merge"
    /\ Becomes(r, IF live THEN [request[r] EXCEPT !.at = "writePrefs", !.base = row.prefs]
                          ELSE Refused)
    /\ UNCHANGED <<row, live, locked, cached, staged>>

setPreferences(r) ==
    /\ request[r].at = "writePrefs"
    /\ update(r, [row EXCEPT !.prefs = request[r].base \cup {r}])

evictUser(r) ==
    /\ request[r].at = "evict"
    /\ cached' = NoEntry
    /\ Answered(r)
    /\ UNCHANGED <<row, live, locked, staged>>

\* The delete: one transaction, with the eviction inside it.
delete(r) ==
    /\ request[r].at = "delete" /\ locked = Nobody
    /\ IF versionPredicate(r)
       THEN /\ locked' = r
            /\ Becomes(r, [request[r] EXCEPT !.at = "evictInside", !.over = row])
       ELSE /\ Becomes(r, Refused)
            /\ UNCHANGED locked
    /\ UNCHANGED <<row, live, cached, staged>>

evictInside(r) ==
    /\ request[r].at = "evictInside"
    /\ cached' = NoEntry
    /\ Moves(r, "commit")
    /\ UNCHANGED <<row, live, locked, staged>>

\* With the staged event and the audit entry.
commit(r) ==
    /\ request[r].at = "commit"
    /\ live' = FALSE /\ locked' = Nobody /\ staged' = TRUE
    /\ Answered(r)
    /\ UNCHANGED <<row, cached>>

rollback(r) ==
    /\ request[r].at \in {"evictInside", "commit"}
    /\ locked' = Nobody
    /\ Becomes(r, Refused)
    /\ UNCHANGED <<row, live, cached, staged>>

\* The projector on user.deleted, and the entry's TTL.
handle ==
    /\ staged /\ staged' = FALSE /\ cached' = NoEntry
    /\ UNCHANGED <<row, live, locked, request>>

expire ==
    /\ cached # NoEntry /\ cached' = NoEntry
    /\ UNCHANGED <<row, live, locked, staged, request>>

Next ==
    \/ \E r \in Request :
          \/ cacheHit(r) \/ cacheMiss(r) \/ findById(r) \/ fill(r)
          \/ requireUser(r) \/ getPreferences(r) \/ assertPrecondition(r)
          \/ uploadBuffer(r) \/ applyUpdate(r) \/ mergePreferences(r) \/ setPreferences(r)
          \/ evictUser(r) \/ delete(r) \/ evictInside(r) \/ commit(r) \/ rollback(r)
    \/ handle \/ expire

Spec == Init /\ [][Next]_vars

-----------------------------------------------------------------------------
Writing(r) == request[r].over # NoEntry    \* the statement has run

\* A write that named a version replaced exactly what its client had read, from the
\* cache or not, and the preferences it was shown are no older than that version;
\* and as long as nobody writes with "*", an accepted patch stays in the preferences
\* (assertPrecondition, versionPredicate, setPreferences, get-user-preferences).
NoLostUpdate ==
    /\ \A r \in Request : Writing(r) /\ request[r].mode = "list" =>
          IF request[r].read = "user"
          THEN request[r].saw = request[r].over
          ELSE request[r].saw.prefs = request[r].over.prefs
    /\ (\A r \in Request : request[r].mode # "any") =>
          \A r \in Request : request[r].op = "prefs" /\ request[r].at \in {"evict", "ok"} =>
              r \in row.prefs
=============================================================================
