----------------------------- MODULE LocalDisk -----------------------------
(***************************************************************************)
(* LocalDiskStorageAdapter, one filesystem call per step: every key is a   *)
(* directory with a body and a sidecar, writes go to a temporary file that *)
(* is renamed into place, and a delete prunes the directories it emptied.  *)
(* Calls of several processes on one root interleave at every await, a     *)
(* disk call may fail, and the process may die between two of them.        *)
(***************************************************************************)
EXTENDS Naturals, Sequences, FiniteSets

CONSTANTS
    KeyOrder,       \* the keys: sequences of path segments, in key order
    Op,             \* the calls made
    Work,           \* per call, its method and key; a "list" pages through all there is
    PageLimit,      \* the limit it asks for
    MaxFaults       \* bound: disk failures and crashes

Key == {KeyOrder[i] : i \in DOMAIN KeyOrder}

Root == <<>>

Parent(d) == SubSeq(d, 1, Len(d) - 1)

Within(d) == {SubSeq(d, 1, n) : n \in 0..Len(d)}

Position(k) == CHOOSE i \in DOMAIN KeyOrder : KeyOrder[i] = k

VARIABLES
    dirs,           \* the root, once there is one, and the directories under it
    body,           \* per key, the put whose bytes .object holds, or "none"
    sidecar,        \* per key, the put whose .meta.json it is, "torn" or "none"
    temp,           \* <<key, put>> for each temporary file
    pc,             \* per call, the next step
    pruning,        \* per delete, the directory it tries to remove next
    got,            \* per get, the body it answered with
    found,          \* per list, the keys its walk has found and what is left of it; the
                    \* cursor and the keys of the pages so far; the objects that stood
                    \* all the while, and whether a directory vanished under a walk
    faults

vars == <<dirs, body, sidecar, temp, pc, pruning, got, found, faults>>

k_(o) == Work[o].key

Start(kind) == CASE kind = "put" -> "mkdir" [] kind = "delete" -> "rmBody"
                 [] kind = "get" -> "stat" [] kind = "list" -> "list"

Init ==
    /\ dirs = {}
    /\ body = [k \in Key |-> "none"]
    /\ sidecar = [k \in Key |-> "none"]
    /\ temp = {}
    /\ pc = [o \in Op |-> Start(Work[o].kind)]
    /\ pruning = [o \in Op |-> k_(o)]
    /\ got = [o \in Op |-> "pending"]
    /\ found = [o \in Op |-> [keys |-> {}, left |-> {Root}, cursor |-> 0, seen |-> {},
                              stood |-> {}, vanished |-> FALSE]]
    /\ faults = 0

goto(o, step) == pc' = [pc EXCEPT ![o] = step]

\* put: mkdir -p, write the temporary file, the sidecar, rename, stat.
mkdir(o) ==
    /\ pc[o] = "mkdir"
    /\ dirs' = dirs \cup Within(k_(o))
    /\ goto(o, "write")
    /\ UNCHANGED <<body, sidecar, temp, got, found, faults, pruning>>

\* ENOENT when a delete pruned the directory meanwhile.
writeTemp(o) ==
    /\ pc[o] = "write"
    /\ IF k_(o) \in dirs
       THEN /\ temp' = temp \cup {<<k_(o), o>>}
            /\ goto(o, "truncate")
       ELSE /\ goto(o, "failed")
            /\ UNCHANGED temp
    /\ UNCHANGED <<dirs, body, sidecar, got, found, faults, pruning>>

\* writeFile on the sidecar truncates it, then writes it.
truncateSidecar(o) ==
    /\ pc[o] = "truncate"
    /\ sidecar' = [sidecar EXCEPT ![k_(o)] = "torn"]
    /\ goto(o, "sidecar")
    /\ UNCHANGED <<dirs, body, temp, got, found, faults, pruning>>

writeSidecar(o) ==
    /\ pc[o] = "sidecar"
    /\ sidecar' = [sidecar EXCEPT ![k_(o)] = o]
    /\ goto(o, "rename")
    /\ UNCHANGED <<dirs, body, temp, got, found, faults, pruning>>

rename(o) ==
    /\ pc[o] = "rename"
    /\ body' = [body EXCEPT ![k_(o)] = o]
    /\ temp' = temp \ {<<k_(o), o>>}
    /\ goto(o, "stored")
    /\ UNCHANGED <<dirs, sidecar, got, found, faults, pruning>>

\* The size for the answer; a delete in between makes put reject after the fact.
statStored(o) ==
    /\ pc[o] = "stored"
    /\ goto(o, "done")
    /\ UNCHANGED <<dirs, body, sidecar, temp, got, found, faults, pruning>>

\* A disk call of put fails: the temporary file is removed and put rejects.
putFails(o) ==
    /\ pc[o] \in {"mkdir", "write", "truncate", "sidecar", "rename"}
    /\ faults < MaxFaults
    /\ faults' = faults + 1
    /\ temp' = temp \ {<<k_(o), o>>}
    /\ goto(o, "failed")
    /\ UNCHANGED <<dirs, body, sidecar, got, found, pruning>>

\* delete: rm -f of both files, then rmdir upwards until one fails.
rmBody(o) ==
    /\ pc[o] = "rmBody"
    /\ body' = [body EXCEPT ![k_(o)] = "none"]
    /\ found' = [l \in Op |-> [found[l] EXCEPT !.stood = @ \ {k_(o)}]]
    /\ goto(o, "rmSidecar")
    /\ UNCHANGED <<dirs, sidecar, temp, got, faults, pruning>>

rmSidecar(o) ==
    /\ pc[o] = "rmSidecar"
    /\ sidecar' = [sidecar EXCEPT ![k_(o)] = "none"]
    /\ goto(o, "prune")
    /\ UNCHANGED <<dirs, body, temp, got, found, faults, pruning>>

Empty(d) ==
    /\ \A e \in dirs : e # Root => Parent(e) # d
    /\ d \in Key => body[d] = "none" /\ sidecar[d] = "none"
    /\ \A t \in temp : t[1] # d

\* rm -r instead of rmdir: takes whatever else is in the directory with it.
pruneRecursively(o) ==
    /\ pc[o] = "prune"
    /\ dirs' = {d \in dirs : pruning[o] \notin Within(d)}
    /\ body' = [k \in Key |-> IF pruning[o] \in Within(k) THEN "none" ELSE body[k]]
    /\ goto(o, "done")
    /\ UNCHANGED <<sidecar, temp, got, found, faults, pruning>>

pruneEmptyParents(o) ==
    /\ pc[o] = "prune"
    /\ IF pruning[o] # Root /\ pruning[o] \in dirs /\ Empty(pruning[o])
       THEN /\ dirs' = dirs \ {pruning[o]}
            /\ pruning' = [pruning EXCEPT ![o] = Parent(@)]
            /\ UNCHANGED pc
       ELSE /\ goto(o, "done")
            /\ UNCHANGED <<dirs, pruning>>
    /\ UNCHANGED <<body, sidecar, temp, got, found, faults>>

\* get: head, then the body.  The sidecar head reads gives the content type and
\* never fails the call.
stat(o) ==
    /\ pc[o] = "stat"
    /\ IF body[k_(o)] = "none"
       THEN /\ got' = [got EXCEPT ![o] = "none"]
            /\ goto(o, "done")
       ELSE /\ goto(o, "read")
            /\ UNCHANGED got
    /\ UNCHANGED <<dirs, body, sidecar, temp, found, faults, pruning>>

readBody(o) ==
    /\ pc[o] = "read"
    /\ got' = [got EXCEPT ![o] = body[k_(o)]]
    /\ goto(o, "done")
    /\ UNCHANGED <<dirs, body, sidecar, temp, found, faults, pruning>>

Stored == {k \in Key : body[k] # "none"}

\* What stood when the first page was asked for.
StoodSince(o) == IF pc[o] = "list" /\ found[o].cursor = 0 THEN Stored ELSE found[o].stood

\* A directory is an object or holds others, never both.
walkEither(o) ==
    /\ pc[o] \in {"list", "walk"}
    /\ \E d \in found[o].left :
        /\ \A e \in found[o].left : Len(e) <= Len(d)
        /\ IF d \in dirs
           THEN /\ found' = [found EXCEPT
                      ![o].stood = StoodSince(o),
                      ![o].left = (@ \ {d}) \cup {e \in dirs \ {Root} : Parent(e) = d /\ d \notin Stored},
                      ![o].keys = @ \cup ({d} \cap Stored)]
                /\ goto(o, "walk")
           ELSE /\ found' = [found EXCEPT ![o].stood = StoodSince(o), ![o].vanished = d # Root]
                /\ goto(o, "done")
    /\ UNCHANGED <<dirs, body, sidecar, temp, got, faults, pruning>>

\* list: readdir of one directory after another, depth first.  One that is gone is ENOENT,
\* which list() takes for a root that was never created: an empty page, and the last.
walk(o) ==
    /\ pc[o] \in {"list", "walk"}
    /\ \E d \in found[o].left :
        /\ \A e \in found[o].left : Len(e) <= Len(d)
        /\ IF d \in dirs
           THEN /\ found' = [found EXCEPT
                      ![o].stood = StoodSince(o),
                      ![o].left = (@ \ {d}) \cup {e \in dirs \ {Root} : Parent(e) = d},
                      ![o].keys = @ \cup ({d} \cap Stored)]
                /\ goto(o, "walk")
           ELSE /\ found' = [found EXCEPT ![o].stood = StoodSince(o), ![o].vanished = d # Root]
                /\ goto(o, "done")
    /\ UNCHANGED <<dirs, body, sidecar, temp, got, faults, pruning>>

\* The heads of the page, all at once; one that is gone rejects the listing.  The
\* caller asks for the next page, from the last key of this one, while there is one.
heads(o) ==
    LET matching == {k \in found[o].keys : Position(k) > found[o].cursor}
        page == {k \in matching :
                   Cardinality({j \in matching : Position(j) < Position(k)}) < PageLimit}
        more == page # matching
    IN  /\ pc[o] = "walk" /\ found[o].left = {}
        /\ goto(o, IF page \ Stored # {} THEN "failed" ELSE IF more THEN "list" ELSE "done")
        /\ found' = IF page \ Stored # {} THEN found
                    ELSE [found EXCEPT
                            ![o].seen = @ \cup page, ![o].keys = {}, ![o].left = {Root},
                            ![o].cursor = IF more THEN CHOOSE n \in {Position(k) : k \in page} :
                                                         \A k \in page : Position(k) <= n
                                          ELSE 0]
        /\ UNCHANGED <<dirs, body, sidecar, temp, got, faults, pruning>>

\* The process dies: its calls end where they are, its files stay.
crash ==
    /\ faults < MaxFaults
    /\ faults' = faults + 1
    /\ pc' = [o \in Op |-> IF pc[o] = Start(Work[o].kind) THEN pc[o]
                           ELSE IF pc[o] \in {"stored", "rmSidecar", "prune", "done"}
                           THEN "done" ELSE "failed"]
    /\ UNCHANGED <<dirs, body, sidecar, temp, got, found, pruning>>

Next ==
    \/ \E o \in Op :
        \/ mkdir(o) \/ writeTemp(o) \/ truncateSidecar(o) \/ writeSidecar(o)
        \/ rename(o) \/ statStored(o) \/ putFails(o)
        \/ rmBody(o) \/ rmSidecar(o) \/ pruneEmptyParents(o)
        \/ stat(o) \/ readBody(o) \/ walk(o) \/ heads(o)
    \/ crash

Spec == Init /\ [][Next]_vars

-----------------------------------------------------------------------------
\* The calls that have taken effect on the store the callers see.
Applied(o) ==
    CASE Work[o].kind = "put" -> pc[o] \in {"stored", "done"}
      [] Work[o].kind = "delete" -> pc[o] \in {"rmSidecar", "prune", "done"}
      [] Work[o].kind = "get" -> pc[o] = "done"

Calls == {o \in Op : Work[o].kind # "list"}

Store == INSTANCE ObjectStore WITH
    Op <- Calls, Limits <- {},
    objects <- body, applied <- {o \in Calls : Applied(o)},
    got <- [o \in Calls |-> got[o]],
    scan <- [cursor |-> 0, seen |-> <<>>, stayed |-> {}, open |-> FALSE]

(* The disk adapter implements the port: as callers see it, each put, get  *)
(* and delete happens in one step and whole, or not at all when it failed  *)
(* before its rename, with keys nested in one another, directories pruned  *)
(* under a put, failing disk calls and crashes (put's rename, get after    *)
(* head, pruneEmptyParents).                                               *)
StoreStep == Store!Next \/ UNCHANGED Store!storeVars

\* Whoever pages to the end of the disk has seen every object that stood all the
\* while, with objects nested in one another, puts and deletes under the walk and
\* between pages, unless a directory was pruned under a walk: then the listing ends
\* with an empty page, whatever else there is (list, walk).
ListsWhole ==
    \A o \in Op \ Calls :
        pc[o] = "done" /\ ~found[o].vanished => found[o].stood \subseteq found[o].seen
=============================================================================
