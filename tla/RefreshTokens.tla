---------------------------- MODULE RefreshTokens ----------------------------
(***************************************************************************)
(* Refresh-token rotation (src/auth): AuthService.refresh() over            *)
(* PrismaRefreshTokenStore.  A sign-in starts a family of tokens, a refresh *)
(* spends one and issues its successor, and a spent token presented again   *)
(* revokes the family.  consume() is one transaction under two row locks    *)
(* (token, then family); what it writes shows when it commits.  The         *)
(* successor is issued afterwards, by a statement of its own.               *)
(***************************************************************************)
EXTENDS Integers, FiniteSets

CONSTANTS
    Token,       \* the tokens that may be minted
    Family,      \* the sign-ins that may happen
    NoFamily,    \* of a token not minted yet
    Request,     \* refreshes in progress at one time
    MaxFaults    \* bound: lock timeouts, aborted transactions, crashes

VARIABLES
    token,       \* token[t]: "unminted", "live", "spent" or "deleted"
    familyOf,    \* familyOf[t]: the family a minted token belongs to
    expired,     \* the tokens whose expiresAt has passed
    family,      \* family[f]: "none", "live", the revokedReason, or "deleted"
    request,     \* request[q]: where a refresh stands, its token, the row it read
    pruning,     \* the families prune() has found to be all expired
    presented,   \* presented[t]: times a consume() of t committed (2: or more)
    detections,  \* detections[f]: times a replay was reported for f
    faults

vars == <<token, familyOf, expired, family, request, pruning, presented, detections, faults>>

Revoked == {"LOGOUT", "REUSE_DETECTED"}
NoRequest == [at |-> "idle"]

Init ==
    /\ token = [t \in Token |-> "unminted"]
    /\ familyOf = [t \in Token |-> NoFamily]
    /\ expired = {} /\ pruning = {}
    /\ family = [f \in Family |-> "none"]
    /\ request = [q \in Request |-> NoRequest]
    /\ presented = [t \in Token |-> 0]
    /\ detections = [f \in Family |-> 0]
    /\ faults = 0

-----------------------------------------------------------------------------
(* Row locks: held from the locking SELECT to the end of the transaction.  *)

TokenLocked(t) == \E q \in Request : request[q].at \in {"family", "decide"} /\ request[q].token = t
FamilyLocked(f) == \E q \in Request : request[q].at = "decide" /\ familyOf[request[q].token] = f

Becomes(q, r) == request' = [request EXCEPT ![q] = r]
Ends(q) == Becomes(q, NoRequest)

Mint(t, f) ==
    /\ token[t] = "unminted"
    /\ token' = [token EXCEPT ![t] = "live"]
    /\ familyOf' = [familyOf EXCEPT ![t] = f]

\* issueTokens() of a fresh sign-in: the family and its token in one insert.
login(f) ==
    /\ family[f] = "none"
    /\ family' = [family EXCEPT ![f] = "live"]
    /\ \E t \in Token : Mint(t, f)
    /\ UNCHANGED <<expired, request, pruning, presented, detections, faults>>

\* refresh() is called with a token that was handed out at some time.
refresh(q) ==
    /\ request[q] = NoRequest
    /\ \E t \in Token : token[t] # "unminted" /\ Becomes(q, [at |-> "token", token |-> t])
    /\ UNCHANGED <<token, familyOf, expired, family, pruning, presented, detections, faults>>

\* Mutant: the row is read without its lock.
lockTokenUnlocked(q) ==
    /\ request[q].at = "token"
    /\ LET t == request[q].token IN
         IF token[t] = "deleted" THEN Ends(q)
         ELSE Becomes(q, [at |-> "family", token |-> t, row |-> token[t]])
    /\ UNCHANGED <<token, familyOf, expired, family, pruning, presented, detections, faults>>

\* consume(): lock the token's row and read it; no row is "unknown".
lockToken(q) ==
    /\ request[q].at = "token"
    /\ ~TokenLocked(request[q].token)
    /\ LET t == request[q].token IN
         IF token[t] = "deleted" THEN Ends(q)
         ELSE Becomes(q, [at |-> "family", token |-> t, row |-> token[t]])
    /\ UNCHANGED <<token, familyOf, expired, family, pruning, presented, detections, faults>>

lockFamily(q) ==
    /\ request[q].at = "family"
    /\ ~FamilyLocked(familyOf[request[q].token])
    /\ Becomes(q, [request[q] EXCEPT !.at = "decide"])
    /\ UNCHANGED <<token, familyOf, expired, family, pruning, presented, detections, faults>>

Presented(t) == presented' = [presented EXCEPT ![t] = IF @ < 2 THEN @ + 1 ELSE @]

\* revokeFamily(), and the claim that reports it to recordReuse().
revokeFamily(f) ==
    /\ family' = [family EXCEPT ![f] = "REUSE_DETECTED"]
    /\ detections' = [detections EXCEPT ![f] = @ + 1]

Claim(q, t) ==
    /\ token' = [token EXCEPT ![t] = "spent"]
    /\ IF t \in expired THEN Ends(q) ELSE Becomes(q, [at |-> "issue", token |-> t])

\* Mutant: a spent token is merely unknown.
decideUnknown(q) ==
    /\ request[q].at = "decide"
    /\ LET t == request[q].token  f == familyOf[request[q].token] IN
         /\ Presented(t)
         /\ UNCHANGED <<family, detections>>
         /\ IF request[q].row = "live" /\ family[f] = "live"
            THEN Claim(q, t) ELSE Ends(q) /\ token' = token
    /\ UNCHANGED <<familyOf, expired, pruning, faults>>

\* Mutant: an unspent token is claimed whatever became of its family.
decideUnspent(q) ==
    /\ request[q].at = "decide"
    /\ LET t == request[q].token  f == familyOf[request[q].token] IN
         /\ Presented(t)
         /\ CASE request[q].row = "live" -> Claim(q, t) /\ UNCHANGED <<family, detections>>
              [] family[f] = "live" -> revokeFamily(f) /\ Ends(q) /\ token' = token
              [] OTHER -> Ends(q) /\ UNCHANGED <<token, family, detections>>
    /\ UNCHANGED <<familyOf, expired, pruning, faults>>

\* consume(): read the family, decide, write and commit.  A claim of an
\* expired token has spent it; otherwise its successor is to be issued.
decide(q) ==
    /\ request[q].at = "decide"
    /\ LET t == request[q].token  f == familyOf[request[q].token] IN
         /\ Presented(t)
         /\ \/ /\ request[q].row = "spent" /\ family[f] = "live"
               /\ revokeFamily(f) /\ Ends(q) /\ token' = token
            \/ /\ request[q].row = "live" /\ family[f] = "live"
               /\ Claim(q, t)
               /\ UNCHANGED <<family, detections>>
            \/ /\ family[f] # "live"
               /\ Ends(q)
               /\ UNCHANGED <<token, family, detections>>
    /\ UNCHANGED <<familyOf, expired, pruning, faults>>

\* issueTokens() of a rotation: a plain insert, which the foreign key refuses
\* when the family is gone and nothing else does.
issue(q) ==
    /\ request[q].at = "issue"
    /\ LET f == familyOf[request[q].token] IN
         IF family[f] = "deleted" THEN UNCHANGED <<token, familyOf>>
         ELSE \E t \in Token : Mint(t, f)
    /\ Ends(q)
    /\ UNCHANGED <<expired, family, pruning, presented, detections, faults>>

\* The lock wait times out, the transaction is rolled back, the insert fails
\* or the process dies.
fail(q) ==
    /\ request[q] # NoRequest
    /\ faults < MaxFaults /\ faults' = faults + 1
    /\ Ends(q)
    /\ UNCHANGED <<token, familyOf, expired, family, pruning, presented, detections>>

-----------------------------------------------------------------------------
\* logout(): an update of the family row, which waits for its lock and
\* matches only a family that is not revoked by then.
revoke(t) ==
    /\ token[t] \in {"live", "spent"}
    /\ ~FamilyLocked(familyOf[t])
    /\ family[familyOf[t]] = "live"
    /\ family' = [family EXCEPT ![familyOf[t]] = "LOGOUT"]
    /\ UNCHANGED <<token, familyOf, expired, request, pruning, presented, detections, faults>>

expire(t) ==
    /\ token[t] \in {"live", "spent"} /\ t \notin expired
    /\ expired' = expired \cup {t}
    /\ UNCHANGED <<token, familyOf, family, request, pruning, presented, detections, faults>>

TokensOf(f) == {t \in Token : familyOf[t] = f}

\* prune(): families are matched on the statement's snapshot, and deleted,
\* their tokens with them, once no transaction holds the rows.
pruneMatch(f) ==
    /\ family[f] \in {"live"} \cup Revoked /\ f \notin pruning
    /\ TokensOf(f) \subseteq expired
    /\ pruning' = pruning \cup {f}
    /\ UNCHANGED <<token, familyOf, expired, family, request, presented, detections, faults>>

prune(f) ==
    /\ f \in pruning
    /\ ~FamilyLocked(f) /\ \A t \in TokensOf(f) : ~TokenLocked(t)
    /\ family' = [family EXCEPT ![f] = "deleted"]
    /\ token' = [t \in Token |-> IF t \in TokensOf(f) THEN "deleted" ELSE token[t]]
    /\ pruning' = pruning \ {f}
    /\ UNCHANGED <<familyOf, expired, request, presented, detections, faults>>

Next ==
    \/ \E q \in Request : refresh(q) \/ lockToken(q) \/ lockFamily(q) \/ decide(q) \/ issue(q) \/ fail(q)
    \/ \E t \in Token : revoke(t) \/ expire(t)
    \/ \E f \in Family : login(f) \/ pruneMatch(f) \/ prune(f)

Spec == Init /\ [][Next]_vars

-----------------------------------------------------------------------------
\* A token whose consumption has committed twice belongs to a session that is
\* over, whether the replay raced the first use or came later, and "detection
\* is an event": one compromise is reported once (consume, revokeFamily).
ReplayEndsSession ==
    /\ \A t \in Token : presented[t] = 2 => family[familyOf[t]] # "live"
    /\ \A f \in Family : detections[f] <= 1

Contract == INSTANCE TokenStore WITH
    Caller <- Request,
    matched <- pruning,
    owed <- [q \in Request |->
               IF request[q].at = "issue" THEN familyOf[request[q].token] ELSE NoFamily]

ContractStep == Contract!Next \/ UNCHANGED Contract!vars

\* Two row locks and a transaction make consume() what the store's contract
\* says it is: however refreshes, replays, sign-outs and pruning interleave and
\* fail, every step is one of the store that decides each claim at one instant.
KeepsContract == Contract!Spec
=============================================================================
