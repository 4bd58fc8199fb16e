---------------------------- MODULE RecordProofs ----------------------------
(***************************************************************************)
(* For every number of tokens, sign-ins, requests and transactions: what   *)
(* the SQL stores keep straight among concurrent writers.  A refresh token *)
(* used twice ends its session, and the store of refresh tokens does what  *)
(* its contract allows; no accepted write to a profile overwrites one its  *)
(* client had not read; the audit log is one unbroken chain.               *)
(*                                                                         *)
(* The tokens' specification is extended, the other two are instances with *)
(* state of their own.  Their lemmas say what a step does to an inductive  *)
(* invariant; ServiceProofs makes theorems of them.                        *)
(***************************************************************************)
EXTENDS RefreshTokens, TLAPS

CONSTANTS Visit, Glance, Nobody, Transaction, NoTransaction, MaxRecords, PageSize

VARIABLES row, live, locked, cached, staged, visit, entries, lock, tx, collided, verifier

Profiles == INSTANCE Users WITH Request <- Visit, Reader <- Glance, request <- visit
Log == INSTANCE AuditLog

\* What is taken from the theory of finite sets and of the naturals.
SetFacts ==
    /\ \A S, T : IsFiniteSet(T) /\ S \subseteq T =>
           /\ IsFiniteSet(S) /\ Cardinality(S) \in Nat /\ Cardinality(T) \in Nat
           /\ Cardinality(S) <= Cardinality(T)
    /\ \A R : \A n \in Nat : \A at \in [1 .. n -> R] :
           /\ \A i, j \in 1 .. n : at[i] = at[j] => i = j
           /\ \A e \in R : \E i \in 1 .. n : at[i] = e
           => IsFiniteSet(R) /\ Cardinality(R) = n
    /\ \A T : T \subseteq Nat /\ T # {} => \E x \in T : \A y \in T : x <= y

-----------------------------------------------------------------------------
(* Refresh tokens.  The row a transaction read is the row as it stands when*)
(* the transaction decides, because the token's lock is its alone from the *)
(* read on: that is RowsRead with TokenLockAlone, and what lets the        *)
(* decision be taken for the whole claim.                                  *)

InTransaction(q) == request[q].at \in {"family", "decide"}

Minted == {"live", "spent", "deleted"}

RequestType ==
    {NoRequest}
    \cup [at : {"token", "issue"}, token : Token]
    \cup [at : {"family", "decide"}, token : Token, row : {"live", "spent"}]

TypeInv ==
    /\ token \in [Token -> {"unminted"} \cup Minted]
    /\ familyOf \in [Token -> Family \cup {NoFamily}]
    /\ expired \subseteq Token /\ pruning \subseteq Family
    /\ family \in [Family -> {"none", "live", "deleted", "LOGOUT", "REUSE_DETECTED"}]
    /\ request \in [Request -> RequestType]
    /\ presented \in [Token -> 0 .. 2]
    /\ detections \in [Family -> 0 .. 1]

\* A token that was minted belongs to a sign-in that happened.
MintedInFamily ==
    \A t \in Token : token[t] # "unminted" => familyOf[t] \in Family /\ family[familyOf[t]] # "none"

\* A refresh works on a token that was handed out.
OnMinted == \A q \in Request : request[q] # NoRequest => token[request[q].token] # "unminted"

\* The token's lock has one holder, and what it read still stands.
TokenLockAlone ==
    \A p, q \in Request :
        InTransaction(p) /\ InTransaction(q) /\ request[p].token = request[q].token => p = q
RowsRead == \A q \in Request : InTransaction(q) => request[q].row = token[request[q].token]

\* A sign-in that is on, or still to come, has had no replay reported, and the
\* tokens it has seen are spent.
CleanWhileLive ==
    /\ \A f \in Family : family[f] \in {"none", "live"} => detections[f] = 0
    /\ \A t \in Token : token[t] = "unminted" => presented[t] = 0
    /\ \A t \in Token :
         token[t] # "unminted" /\ family[familyOf[t]] = "live" =>
             presented[t] = 0 \/ (presented[t] = 1 /\ token[t] = "spent")

TokenInv ==
    TypeInv /\ MintedInFamily /\ OnMinted /\ TokenLockAlone /\ RowsRead /\ CleanWhileLive

-----------------------------------------------------------------------------
\* What the invariant says of a refresh that is past its start.
LEMMA Started ==
    ASSUME TypeInv, NEW q \in Request, request[q] # NoRequest
    PROVE  /\ request[q].at \in {"token", "issue", "family", "decide"}
           /\ request[q].token \in Token
           /\ InTransaction(q) => request[q].row \in {"live", "spent"}
  BY Zenon DEF TypeInv, RequestType, NoRequest, InTransaction

\* The invariant holds before anybody has signed in.
LEMMA InitInv == Init => TokenInv
  BY DEF Init, TokenInv, TypeInv, MintedInFamily, OnMinted, TokenLockAlone, RowsRead,
         CleanWhileLive, InTransaction, RequestType, NoRequest, Minted

\* A sign-in keeps it (issue() with a new family).
LEMMA LoginInv ==
    ASSUME TokenInv, NEW f \in Family, login(f)
    PROVE  TokenInv'
  <1>1. PICK t \in Token : Mint(t, f)
    BY Zenon DEF login
  <1> USE <1>1 DEF login, Mint, TokenInv
  <1>2. TypeInv'
    BY Zenon DEF TypeInv, Minted
  <1>3. MintedInFamily'
    BY Zenon DEF MintedInFamily, TypeInv, Minted
  <1>4. OnMinted'
    BY Zenon, Started DEF OnMinted, TypeInv
  <1>5. TokenLockAlone' /\ RowsRead'
    BY Started DEF TokenLockAlone, RowsRead, OnMinted, InTransaction, TypeInv, NoRequest
  <1>6. CleanWhileLive'
    BY DEF CleanWhileLive, MintedInFamily, TypeInv, Minted
  <1> QED
    BY Zenon, <1>2, <1>3, <1>4, <1>5, <1>6

\* A step that only moves one refresh, to a state that fits its token.
LEMMA MovesInv ==
    ASSUME TokenInv, NEW q \in Request, NEW r \in RequestType, Becomes(q, r),
           UNCHANGED <<token, familyOf, expired, family, pruning, presented, detections>>,
           r # NoRequest => token[r.token] # "unminted",
           r.at \in {"family", "decide"} =>
               /\ r.row = token[r.token]
               /\ \A p \in Request : InTransaction(p) /\ request[p].token = r.token => p = q
    PROVE  TokenInv'
  <1> USE DEF Becomes, TokenInv
  <1>1. request' \in [Request -> RequestType] /\ request'[q] = r
        /\ \A p \in Request : p # q => request'[p] = request[p]
    BY Zenon DEF TypeInv
  <1>2. TypeInv'
    BY Zenon, <1>1 DEF TypeInv
  <1>3. MintedInFamily'
    BY Zenon DEF MintedInFamily
  <1>4. OnMinted'
    BY Zenon, <1>1 DEF OnMinted
  <1>5. TokenLockAlone'
    BY Zenon, <1>1 DEF TokenLockAlone, InTransaction
  <1>6. RowsRead'
    BY Zenon, <1>1 DEF RowsRead, InTransaction
  <1>7. CleanWhileLive'
    BY Zenon DEF CleanWhileLive
  <1> QED
    BY Zenon, <1>2, <1>3, <1>4, <1>5, <1>6, <1>7

\* A request that presents a token keeps it.
LEMMA RefreshInv ==
    ASSUME TokenInv, NEW q \in Request, refresh(q)
    PROVE  TokenInv'
  <1>1. PICK t \in Token : token[t] # "unminted" /\ Becomes(q, [at |-> "token", token |-> t])
    BY Zenon DEF refresh
  <1>2. [at |-> "token", token |-> t] \in RequestType
    BY Zenon DEF RequestType
  <1> QED
    BY Zenon, <1>1, <1>2, MovesInv DEF refresh

\* So does a request that is over.
LEMMA EndsInv ==
    ASSUME TokenInv, NEW q \in Request, Ends(q),
           UNCHANGED <<token, familyOf, expired, family, pruning, presented, detections>>
    PROVE  TokenInv'
  <1>1. NoRequest \in RequestType /\ NoRequest.at = "idle"
    BY Zenon DEF RequestType, NoRequest
  <1> QED
    BY Zenon, <1>1, MovesInv DEF Ends

\* Taking the token's row lock and reading the row under it keeps it.
LEMMA LockTokenInv ==
    ASSUME TokenInv, NEW q \in Request, lockToken(q)
    PROVE  TokenInv'
  <1> DEFINE t == request[q].token
             r == [at |-> "family", token |-> t, row |-> token[t]]
  <1>1. request[q] # NoRequest
    BY DEF lockToken, NoRequest
  <1>2. t \in Token /\ token[t] \in {"live", "spent", "deleted"}
    BY Zenon, <1>1, Started DEF TokenInv, OnMinted, TypeInv, Minted
  <1>3. CASE token[t] = "deleted"
    BY Zenon, <1>3, EndsInv DEF lockToken
  <1>4. CASE token[t] # "deleted"
    <2>1. Becomes(q, r)
      BY Zenon, <1>4 DEF lockToken
    <2>2. r \in RequestType
      BY Zenon, <1>2, <1>4 DEF RequestType
    <2>3. \A p \in Request : InTransaction(p) /\ request[p].token = t => p = q
      BY Zenon DEF lockToken, TokenLocked, InTransaction
    <2> QED
      BY Zenon, <1>2, <1>4, <2>1, <2>2, <2>3, MovesInv DEF lockToken
  <1> QED
    BY Zenon, <1>3, <1>4

\* Taking the family's row lock keeps it.
LEMMA LockFamilyInv ==
    ASSUME TokenInv, NEW q \in Request, lockFamily(q)
    PROVE  TokenInv'
  <1> DEFINE r == [request[q] EXCEPT !.at = "decide"]
  <1>1. request[q] \in [at : {"family", "decide"}, token : Token, row : {"live", "spent"}]
    BY DEF lockFamily, TokenInv, TypeInv, RequestType, NoRequest
  <1>2. r \in RequestType /\ r.token = request[q].token /\ r.row = request[q].row
    BY Zenon, <1>1 DEF RequestType
  <1>3. InTransaction(q) /\ request[q] # NoRequest
    BY DEF lockFamily, InTransaction, NoRequest
  <1>4. token[r.token] # "unminted" /\ r.row = token[r.token]
    BY Zenon, <1>2, <1>3 DEF TokenInv, OnMinted, RowsRead
  <1>5. \A p \in Request : InTransaction(p) /\ request[p].token = r.token => p = q
    BY Zenon, <1>2, <1>3 DEF TokenInv, TokenLockAlone
  <1> QED
    BY Zenon, <1>2, <1>4, <1>5, MovesInv DEF lockFamily

\* What a transaction about to decide knows of its token and its family.
LEMMA Deciding ==
    ASSUME TokenInv, NEW q \in Request, request[q].at = "decide"
    PROVE  /\ request[q].token \in Token
           /\ request[q].row = token[request[q].token]
           /\ request[q].row \in {"live", "spent"}
           /\ familyOf[request[q].token] \in Family
           /\ \A p \in Request : InTransaction(p) /\ request[p].token = request[q].token => p = q
  <1>1. request[q] # NoRequest /\ InTransaction(q)
    BY DEF NoRequest, InTransaction
  <1>2. request[q].token \in Token /\ request[q].row \in {"live", "spent"}
    BY Zenon, <1>1, Started DEF TokenInv
  <1>3. request[q].row = token[request[q].token]
    BY Zenon, <1>1 DEF TokenInv, RowsRead
  <1> QED
    BY Zenon, <1>1, <1>2, <1>3 DEF TokenInv, MintedInFamily, TokenLockAlone

\* The decision of consume() keeps it: replay, revoked family, or claim.
LEMMA DecideInv ==
    ASSUME TokenInv, NEW q \in Request, decide(q)
    PROVE  TokenInv'
  <1> DEFINE t == request[q].token
             f == familyOf[t]
  <1>1. request[q].at = "decide"
    BY Zenon DEF decide
  <1>2. /\ t \in Token /\ f \in Family
        /\ token[t] = request[q].row /\ token[t] \in {"live", "spent"}
        /\ \A p \in Request : InTransaction(p) /\ request[p].token = t => p = q
    BY Zenon, <1>1, Deciding
  <1> HIDE DEF t, f
  <1>3. /\ presented' = [presented EXCEPT ![t] = IF @ < 2 THEN @ + 1 ELSE @]
        /\ UNCHANGED <<familyOf, expired, pruning>>
    BY Zenon DEF decide, Presented, t
  <1>4. PICK r \in {NoRequest, [at |-> "issue", token |-> t]} :
            request' = [request EXCEPT ![q] = r]
    BY Zenon DEF decide, Claim, Becomes, Ends, t
  <1>5. r \in RequestType /\ r.at \notin {"family", "decide"}
        /\ (r # NoRequest => r.token = t)
    BY <1>2, <1>4 DEF RequestType, NoRequest
  <1>6. \A p \in Request : p # q => request'[p] = request[p]
    BY Zenon, <1>4 DEF TokenInv, TypeInv
  <1>7. request' \in [Request -> RequestType] /\ request'[q] = r
    BY Zenon, <1>4, <1>5 DEF TokenInv, TypeInv
  <1>8. \/ /\ token[t] = "spent" /\ family[f] = "live" /\ token' = token
           /\ family' = [family EXCEPT ![f] = "REUSE_DETECTED"]
           /\ detections' = [detections EXCEPT ![f] = @ + 1]
        \/ /\ token[t] = "live" /\ family[f] = "live"
           /\ token' = [token EXCEPT ![t] = "spent"]
           /\ UNCHANGED <<family, detections>>
        \/ /\ family[f] # "live"
           /\ UNCHANGED <<token, family, detections>>
    BY Zenon, <1>2 DEF decide, revokeFamily, Claim, t, f
  <1>9. TypeInv'
    <2>1. presented' \in [Token -> 0 .. 2]
      BY <1>2, <1>3 DEF TokenInv, TypeInv
    <2>2. detections' \in [Family -> 0 .. 1]
      BY <1>2, <1>8 DEF TokenInv, TypeInv, CleanWhileLive
    <2>3. token' \in [Token -> {"unminted"} \cup Minted]
          /\ family' \in [Family -> {"none", "live", "deleted", "LOGOUT", "REUSE_DETECTED"}]
      BY Zenon, <1>2, <1>8 DEF TokenInv, TypeInv, Minted
    <2> QED
      BY Zenon, <1>3, <1>7, <2>1, <2>2, <2>3 DEF TokenInv, TypeInv
  <1>10. \A x \in Token : x # t => token'[x] = token[x] /\ presented'[x] = presented[x]
    BY Zenon, <1>3, <1>8 DEF TokenInv, TypeInv
  <1>11. \A x \in Token : token'[x] = "unminted" <=> token[x] = "unminted"
    BY Zenon, <1>2, <1>8, <1>10 DEF TokenInv, TypeInv
  <1>12. \A g \in Family : /\ family'[g] = "none" <=> family[g] = "none"
                           /\ family'[g] = "live" => family[g] = "live"
                           /\ family'[g] = "live" \/ g # f => detections'[g] = detections[g]
    BY Zenon, <1>2, <1>8 DEF TokenInv, TypeInv
  <1>13. MintedInFamily'
    BY Zenon, <1>3, <1>11, <1>12 DEF TokenInv, MintedInFamily
  <1>14. OnMinted'
    BY Zenon, <1>2, <1>5, <1>6, <1>7, <1>11, Started DEF TokenInv, OnMinted
  <1>15. TokenLockAlone'
    BY Zenon, <1>5, <1>6, <1>7 DEF TokenInv, TokenLockAlone, InTransaction
  <1>16. RowsRead'
    <2> SUFFICES ASSUME NEW p \in Request, InTransaction(p)'
                 PROVE  (request[p].row = token[request[p].token])'
      BY Zenon DEF RowsRead
    <2>1. p # q /\ InTransaction(p) /\ request'[p] = request[p]
      BY Zenon, <1>5, <1>6, <1>7 DEF InTransaction
    <2>2. request[p].token \in Token /\ request[p].token # t
      BY <1>2, <2>1, Started DEF TokenInv, InTransaction, NoRequest
    <2> QED
      BY Zenon, <1>10, <2>1, <2>2 DEF TokenInv, RowsRead
  <1>17. CleanWhileLive'
    <2>1. \A g \in Family : family'[g] \in {"none", "live"} => detections'[g] = 0
      BY <1>2, <1>8, <1>12 DEF TokenInv, TypeInv, CleanWhileLive
    <2>2. \A x \in Token : token'[x] = "unminted" => presented'[x] = 0
      BY Zenon, <1>2, <1>10, <1>11 DEF TokenInv, CleanWhileLive
    <2>3. ASSUME NEW x \in Token, token'[x] # "unminted", family'[familyOf'[x]] = "live"
          PROVE  presented'[x] = 0 \/ (presented'[x] = 1 /\ token'[x] = "spent")
      <3>1. CASE x # t
        <4>1. token[x] # "unminted" /\ familyOf'[x] = familyOf[x] /\ familyOf[x] \in Family
          BY Zenon, <1>3, <1>11, <2>3 DEF TokenInv, MintedInFamily
        <4> QED
          BY <1>10, <1>12, <2>3, <3>1, <4>1 DEF TokenInv, CleanWhileLive
      <3>2. CASE x = t
        <4>1. family'[f] = "live" /\ family[f] = "live"
          BY Zenon, <1>2, <1>3, <1>12, <2>3, <3>2 DEF f
        <4>2. token[t] = "live" /\ token' = [token EXCEPT ![t] = "spent"]
          BY Zenon, <1>2, <1>8, <4>1 DEF TokenInv, TypeInv
        <4>3. presented[t] = 0
          BY Zenon, <1>2, <4>1, <4>2 DEF TokenInv, CleanWhileLive, f
        <4> QED
          BY <1>2, <1>3, <3>2, <4>2, <4>3 DEF TokenInv, TypeInv
      <3> QED
        BY Zenon, <3>1, <3>2
    <2> QED
      BY Zenon, <2>1, <2>2, <2>3 DEF CleanWhileLive
  <1> QED
    BY Zenon, <1>9, <1>13, <1>14, <1>15, <1>16, <1>17 DEF TokenInv

\* Handing out the successor keeps it.
LEMMA IssueInv ==
    ASSUME TokenInv, NEW q \in Request, issue(q)
    PROVE  TokenInv'
  <1> DEFINE f == familyOf[request[q].token]
  <1>1. request[q] # NoRequest /\ Ends(q) /\ f \in Family
    BY Started DEF issue, NoRequest, TokenInv, OnMinted, MintedInFamily
  <1>2. CASE family[f] = "deleted"
    BY Zenon, <1>1, <1>2, EndsInv DEF issue
  <1>3. CASE family[f] # "deleted"
    <2>1. PICK t \in Token : Mint(t, f)
      BY Zenon, <1>3 DEF issue
    <2>2. family[f] # "none"
      BY Zenon, <1>1, Started DEF TokenInv, OnMinted, MintedInFamily
    <2> HIDE DEF f
    <2>3. /\ token[t] = "unminted" /\ token' = [token EXCEPT ![t] = "live"]
          /\ familyOf' = [familyOf EXCEPT ![t] = f]
          /\ UNCHANGED <<expired, family, pruning, presented, detections>>
      BY Zenon, <2>1 DEF issue, Mint
    <2>4. request' \in [Request -> RequestType] /\ request'[q] = NoRequest
          /\ \A p \in Request : p # q => request'[p] = request[p]
      BY Zenon, <1>1 DEF TokenInv, TypeInv, Ends, Becomes, RequestType
    <2>5. TypeInv'
      BY Zenon, <1>1, <2>3, <2>4 DEF TokenInv, TypeInv, Minted
    <2>6. \A x \in Token : x # t => token'[x] = token[x] /\ familyOf'[x] = familyOf[x]
      BY Zenon, <2>3 DEF TokenInv, TypeInv
    <2>7. token'[t] = "live" /\ familyOf'[t] = f
      BY Zenon, <2>3 DEF TokenInv, TypeInv
    <2>8. MintedInFamily'
      BY Zenon, <1>1, <2>2, <2>3, <2>6, <2>7 DEF TokenInv, MintedInFamily
    <2>9. OnMinted'
      BY Zenon, <2>4, <2>6, <2>7, Started DEF TokenInv, OnMinted
    <2>10. TokenLockAlone'
      BY <2>4 DEF TokenInv, TokenLockAlone, InTransaction, NoRequest
    <2>11. RowsRead'
      <3> SUFFICES ASSUME NEW p \in Request, InTransaction(p)'
                   PROVE  (request[p].row = token[request[p].token])'
        BY Zenon DEF RowsRead
      <3>1. request'[p] = request[p] /\ InTransaction(p)
        BY <2>4 DEF InTransaction, NoRequest
      <3>2. request[p].token \in Token /\ token[request[p].token] # "unminted"
        BY <3>1, Started DEF TokenInv, OnMinted, InTransaction, NoRequest
      <3> QED
        BY <2>3, <2>6, <3>1, <3>2 DEF TokenInv, RowsRead
    <2>12. CleanWhileLive'
      BY <2>3, <2>6, <2>7 DEF TokenInv, CleanWhileLive
    <2> QED
      BY Zenon, <2>5, <2>8, <2>9, <2>10, <2>11, <2>12 DEF TokenInv
  <1> QED
    BY Zenon, <1>2, <1>3

\* A logout keeps it.
LEMMA RevokeInv ==
    ASSUME TokenInv, NEW t \in Token, revoke(t)
    PROVE  TokenInv'
  <1>1. familyOf[t] \in Family
    BY Zenon DEF revoke, TokenInv, MintedInFamily
  <1>2. TypeInv'
    BY Zenon, <1>1 DEF revoke, TokenInv, TypeInv
  <1>3. \A g \in Family : /\ family'[g] = "none" <=> family[g] = "none"
                          /\ family'[g] = "live" => family[g] = "live"
    BY Zenon, <1>1 DEF revoke, TokenInv, TypeInv
  <1>4. MintedInFamily' /\ CleanWhileLive'
    BY <1>3 DEF revoke, TokenInv, MintedInFamily, CleanWhileLive
  <1>5. OnMinted' /\ TokenLockAlone' /\ RowsRead'
    BY Zenon DEF revoke, TokenInv, OnMinted, TokenLockAlone, RowsRead, InTransaction
  <1> QED
    BY Zenon, <1>2, <1>4, <1>5 DEF TokenInv

\* A step that leaves everything but the expiry marks or the pruning matches.
LEMMA MarksInv ==
    ASSUME TokenInv, expired' \subseteq Token, pruning' \subseteq Family,
           UNCHANGED <<token, familyOf, family, request, presented, detections>>
    PROVE  TokenInv'
  BY Zenon DEF TokenInv, TypeInv, MintedInFamily, OnMinted, TokenLockAlone, RowsRead,
         CleanWhileLive, InTransaction

\* So does the pruning of expired families.
LEMMA PruneInv ==
    ASSUME TokenInv, NEW f \in Family, prune(f)
    PROVE  TokenInv'
  <1>1. TypeInv'
    BY Zenon DEF prune, TokenInv, TypeInv, Minted
  <1>2. /\ family'[f] = "deleted"
        /\ \A g \in Family : g # f => family'[g] = family[g]
    BY Zenon DEF prune, TokenInv, TypeInv
  <1>3. \A x \in Token : /\ familyOf[x] = f => token'[x] = "deleted"
                         /\ familyOf[x] # f => token'[x] = token[x]
    BY Zenon DEF prune, TokensOf
  <1>4. UNCHANGED <<familyOf, expired, request, presented, detections>>
    BY Zenon DEF prune
  <1>5. ASSUME NEW x \in Token, token[x] = "unminted"
        PROVE  presented[x] = 0
    BY Zenon, <1>5 DEF TokenInv, CleanWhileLive
  <1>6. MintedInFamily'
    <2> SUFFICES ASSUME NEW x \in Token, token'[x] # "unminted"
                 PROVE  familyOf[x] \in Family /\ family'[familyOf[x]] # "none"
      BY Zenon, <1>4 DEF MintedInFamily
    <2>1. CASE familyOf[x] = f
      BY Zenon, <1>2, <2>1
    <2>2. CASE familyOf[x] # f
      BY Zenon, <1>2, <1>3, <2>2 DEF TokenInv, MintedInFamily
    <2> QED
      BY Zenon, <2>1, <2>2
  <1>7. OnMinted'
    <2> SUFFICES ASSUME NEW q \in Request, request[q] # NoRequest
                 PROVE  token'[request[q].token] # "unminted"
      BY Zenon, <1>4 DEF OnMinted
    <2>1. request[q].token \in Token /\ token[request[q].token] # "unminted"
      BY Zenon, Started DEF TokenInv, OnMinted
    <2> QED
      BY Zenon, <1>3, <2>1
  <1>8. TokenLockAlone'
    BY Zenon, <1>4 DEF TokenInv, TokenLockAlone, InTransaction
  <1>9. RowsRead'
    <2> SUFFICES ASSUME NEW q \in Request, InTransaction(q)
                 PROVE  request[q].row = token'[request[q].token]
      BY Zenon, <1>4 DEF RowsRead, InTransaction
    <2>1. request[q].token \in Token
      BY Started DEF TokenInv, InTransaction, NoRequest
    <2>2. familyOf[request[q].token] # f
      BY Zenon, <2>1 DEF prune, TokensOf, TokenLocked, InTransaction
    <2> QED
      BY Zenon, <1>3, <2>1, <2>2 DEF TokenInv, RowsRead
  <1>10. CleanWhileLive'
    <2>1. \A g \in Family : family'[g] \in {"none", "live"} => detections'[g] = 0
      BY Zenon, <1>2, <1>4 DEF TokenInv, CleanWhileLive
    <2>2. \A x \in Token : token'[x] = "unminted" => presented'[x] = 0
      BY Zenon, <1>3, <1>4, <1>5
    <2>3. \A x \in Token : token'[x] # "unminted" /\ family'[familyOf'[x]] = "live" =>
              familyOf[x] # f /\ token'[x] = token[x] /\ family[familyOf[x]] = "live"
      BY Zenon, <1>2, <1>3, <1>4 DEF TokenInv, MintedInFamily
    <2> QED
      BY Zenon, <1>4, <2>1, <2>2, <2>3 DEF TokenInv, CleanWhileLive
  <1> QED
    BY Zenon, <1>1, <1>6, <1>7, <1>8, <1>9, <1>10 DEF TokenInv

\* Every step keeps the invariant.
LEMMA NextInv == TokenInv /\ [Next]_vars => TokenInv'
  <1> SUFFICES ASSUME TokenInv, [Next]_vars
               PROVE  TokenInv'
    BY Zenon
  <1>1. ASSUME NEW q \in Request, refresh(q) \/ lockToken(q) \/ lockFamily(q) \/ decide(q) \/ issue(q)
        PROVE  TokenInv'
    BY Zenon, <1>1, RefreshInv, LockTokenInv, LockFamilyInv, DecideInv, IssueInv
  <1>2. ASSUME NEW q \in Request, fail(q)
        PROVE  TokenInv'
    BY Zenon, <1>2, EndsInv DEF fail
  <1>3. ASSUME NEW t \in Token, revoke(t)
        PROVE  TokenInv'
    BY Zenon, <1>3, RevokeInv
  <1>4. ASSUME NEW t \in Token, expire(t)
        PROVE  TokenInv'
    BY Zenon, <1>4, MarksInv DEF expire, TokenInv, TypeInv
  <1>5. ASSUME NEW f \in Family, login(f) \/ prune(f)
        PROVE  TokenInv'
    BY Zenon, <1>5, LoginInv, PruneInv
  <1>6. ASSUME NEW f \in Family, pruneMatch(f)
        PROVE  TokenInv'
    BY Zenon, <1>6, MarksInv DEF pruneMatch, TokenInv, TypeInv
  <1>7. CASE UNCHANGED vars
    BY Zenon, <1>7, MarksInv DEF vars, TokenInv, TypeInv
  <1> QED
    BY Zenon, <1>1, <1>2, <1>3, <1>4, <1>5, <1>6, <1>7 DEF Next

\* TokenInv holds in every reachable state.
LEMMA Invariant == Spec => []TokenInv
  BY InitInv, NextInv, PTL DEF Spec

\* No token of a session that is open was consumed twice, and a compromise is
\* reported once.
LEMMA ReplaySafe == TokenInv => ReplayEndsSession
  BY DEF TokenInv, TypeInv, CleanWhileLive, ReplayEndsSession, MintedInFamily

\* A token whose consumption committed twice belongs to a session that is over,
\* and one compromise is reported once, for any number of tokens, sign-ins and
\* refreshes in progress (consume, revokeFamily).
THEOREM ReplayEnds == Spec => []ReplayEndsSession
  BY ReplaySafe, Invariant, PTL

-----------------------------------------------------------------------------
(* The refinement: a refresh past its claim is a successor owed.            *)

owedBy ==
    [q \in Request |-> IF request[q].at = "issue" THEN familyOf[request[q].token] ELSE NoFamily]

\* What a refresh owes, and that a step that keeps the families of the tokens
\* handed out changes it for the refreshes it moves only.
LEMMA Owed ==
    ASSUME TokenInv, NEW q \in Request
    PROVE  /\ request[q].at = "issue" => owedBy[q] = familyOf[request[q].token] /\ owedBy[q] \in Family
           /\ request[q].at # "issue" => owedBy[q] = NoFamily
  BY Started DEF owedBy, TokenInv, OnMinted, MintedInFamily, NoRequest

\* A refresh that moves elsewhere leaves what the others are owed.
LEMMA OwedMoves ==
    ASSUME TokenInv, NEW q \in Request, NEW r, Becomes(q, r),
           \A t \in Token : token[t] # "unminted" => familyOf'[t] = familyOf[t]
    PROVE  owedBy' = [owedBy EXCEPT ![q] =
                        IF r.at = "issue" THEN familyOf'[r.token] ELSE NoFamily]
  <1>1. ASSUME NEW p \in Request, p # q
        PROVE  owedBy'[p] = owedBy[p]
    <2>1. request'[p] = request[p]
      BY Zenon, <1>1 DEF Becomes, TokenInv, TypeInv
    <2>2. CASE request[p].at = "issue"
      <3>1. request[p].token \in Token /\ token[request[p].token] # "unminted"
        BY <2>2, Started DEF TokenInv, OnMinted, NoRequest
      <3> QED
        BY Zenon, <2>1, <2>2, <3>1 DEF owedBy
    <2>3. CASE request[p].at # "issue"
      BY Zenon, <2>1, <2>3 DEF owedBy
    <2> QED
      BY Zenon, <2>2, <2>3
  <1>2. request'[q] = r
    BY Zenon DEF Becomes, TokenInv, TypeInv
  <1> QED
    BY Zenon, <1>1, <1>2 DEF owedBy

\* Until it decides, a refresh does nothing the contract sees.
LEMMA RequestStep ==
    ASSUME TokenInv, NoFamily \notin Family, NEW q \in Request,
           refresh(q) \/ lockToken(q) \/ lockFamily(q)
    PROVE  UNCHANGED Contract!vars
  <1>1. PICK r : Becomes(q, r) /\ r.at # "issue"
    <2>1. CASE refresh(q)
      BY <2>1 DEF refresh
    <2>2. CASE lockToken(q)
      BY <2>2 DEF lockToken, Ends, NoRequest
    <2>3. CASE lockFamily(q)
      <3>1. request[q] \in [at : {"family", "decide"}, token : Token, row : {"live", "spent"}]
        BY <2>3 DEF lockFamily, TokenInv, TypeInv, RequestType, NoRequest
      <3>2. [request[q] EXCEPT !.at = "decide"].at = "decide"
        BY Zenon, <3>1
      <3> QED
        BY Zenon, <2>3, <3>2 DEF lockFamily
    <2> QED
      BY Zenon, <2>1, <2>2, <2>3
  <1>2. request[q].at # "issue"
    BY DEF refresh, lockToken, lockFamily, NoRequest
  <1>3. UNCHANGED <<token, familyOf, expired, family, pruning, detections>>
    BY Zenon DEF refresh, lockToken, lockFamily
  <1>4. owedBy' = [owedBy EXCEPT ![q] = NoFamily]
    BY Zenon, <1>1, <1>3, OwedMoves
  <1>5. UNCHANGED owedBy
    BY Zenon, <1>2, <1>4, Owed DEF owedBy
  <1> QED
    BY Zenon, <1>3, <1>5 DEF Contract!vars, owedBy

\* The decision of consume() is one the contract allows.
LEMMA DecideStep ==
    ASSUME TokenInv, NoFamily \notin Family, NEW q \in Request, decide(q)
    PROVE  (\E t \in Token : Contract!claim(q, t)) \/ UNCHANGED Contract!vars
  <1>1. request[q].at = "decide"
    BY Zenon DEF decide
  <1>t. PICK t \in Token : t = request[q].token
    BY Zenon, <1>1, Deciding
  <1> DEFINE f == familyOf[t]
  <1>2. f \in Family /\ request[q].row = token[t] /\ token[t] \in {"live", "spent"}
    BY Zenon, <1>1, <1>t, Deciding
  <1>3. owedBy[q] = NoFamily
    BY Zenon, <1>1, Owed
  <1>4. UNCHANGED <<familyOf, expired, pruning>>
    BY Zenon DEF decide
  <1>5. ASSUME Ends(q) PROVE UNCHANGED owedBy
    <2>1. owedBy' = [owedBy EXCEPT ![q] = NoFamily]
      BY <1>4, <1>5, OwedMoves DEF Ends, NoRequest
    <2> QED
      BY Zenon, <1>3, <2>1 DEF owedBy
  <1>6. CASE request[q].row = "spent" /\ family[f] = "live" /\ revokeFamily(f) /\ Ends(q)
        /\ token' = token
    <2>1. Contract!revokeFamily(f)
      BY Zenon, <1>6 DEF revokeFamily, Contract!revokeFamily
    <2>2. Contract!claim(q, t)
      BY Zenon, <1>2, <1>3, <1>4, <1>5, <1>6, <2>1 DEF Contract!claim, owedBy
    <2> QED
      BY Zenon, <2>2
  <1>7. CASE request[q].row = "live" /\ family[f] = "live" /\ Claim(q, t)
        /\ UNCHANGED <<family, detections>>
    <2>1. owedBy' = [owedBy EXCEPT ![q] = IF t \in expired THEN NoFamily ELSE f]
      <3>1. CASE t \in expired
        BY <1>4, <1>7, <3>1, OwedMoves DEF Claim, Ends, NoRequest
      <3>2. CASE t \notin expired
        BY Zenon, <1>4, <1>7, <3>2, OwedMoves DEF Claim
      <3> QED
        BY Zenon, <3>1, <3>2
    <2>2. Contract!claim(q, t)
      BY Zenon, <1>2, <1>3, <1>4, <1>7, <2>1 DEF Claim, Contract!claim, owedBy
    <2> QED
      BY Zenon, <2>2
  <1>8. CASE family[f] # "live" /\ Ends(q) /\ UNCHANGED <<token, family, detections>>
    BY Zenon, <1>4, <1>5, <1>8 DEF Contract!vars, owedBy
  <1> QED
    BY Zenon, <1>t, <1>6, <1>7, <1>8 DEF decide

\* Handing out the successor is a step of the contract.
LEMMA IssueStep ==
    ASSUME TokenInv, NoFamily \notin Family, NEW q \in Request, issue(q)
    PROVE  Contract!forgo(q) \/ \E t \in Token : Contract!issueNext(q, t)
  <1> DEFINE f == familyOf[request[q].token]
  <1>0. request[q].at = "issue"
    BY Zenon DEF issue
  <1>1. owedBy[q] = f /\ f \in Family
    BY Zenon, <1>0, Owed
  <1> HIDE DEF f
  <1>2. CASE family[f] = "deleted"
    <2>1. UNCHANGED <<token, familyOf, expired, family, pruning, detections>> /\ Ends(q)
      BY Zenon, <1>2 DEF issue, f
    <2>2. Becomes(q, NoRequest) /\ NoRequest.at = "idle"
      BY Zenon, <2>1 DEF Ends, NoRequest
    <2>3. owedBy' = [owedBy EXCEPT ![q] = NoFamily]
      BY Zenon, <2>1, <2>2, OwedMoves
    <2> QED
      BY Zenon, <1>1, <2>1, <2>3 DEF Contract!forgo, owedBy
  <1>3. CASE family[f] # "deleted"
    <2>1. PICK t \in Token : Mint(t, f)
      BY Zenon, <1>3 DEF issue, f
    <2>2. UNCHANGED <<expired, family, pruning, detections>> /\ Ends(q)
      BY Zenon DEF issue
    <2>3. \A x \in Token : token[x] # "unminted" => familyOf'[x] = familyOf[x]
      BY Zenon, <2>1 DEF Mint, TokenInv, TypeInv
    <2>4. owedBy' = [owedBy EXCEPT ![q] = NoFamily]
      BY <2>2, <2>3, OwedMoves DEF Ends, NoRequest
    <2>5. Contract!Stored(t, owedBy[q])
      BY Zenon, <1>1, <2>1 DEF Mint, Contract!Stored
    <2> QED
      BY Zenon, <1>1, <1>3, <2>2, <2>4, <2>5 DEF Contract!issueNext, owedBy
  <1> QED
    BY Zenon, <1>2, <1>3

\* A request that fails is a step of the contract or none.
LEMMA FailStep ==
    ASSUME TokenInv, NoFamily \notin Family, NEW q \in Request, fail(q)
    PROVE  Contract!forgo(q) \/ UNCHANGED Contract!vars
  <1>1. owedBy' = [owedBy EXCEPT ![q] = NoFamily]
    BY OwedMoves DEF fail, Ends, NoRequest
  <1>2. UNCHANGED <<token, familyOf, expired, family, pruning, detections>>
    BY Zenon DEF fail
  <1>3. CASE owedBy[q] = NoFamily
    <2>1. UNCHANGED owedBy
      BY Zenon, <1>1, <1>3 DEF owedBy
    <2> QED
      BY Zenon, <1>2, <2>1 DEF Contract!vars, owedBy
  <1>4. CASE owedBy[q] # NoFamily
    BY Zenon, <1>1, <1>2, <1>4 DEF Contract!forgo, owedBy
  <1> QED
    BY Zenon, <1>3, <1>4

\* A step of no refresh changes nothing that is owed.
LEMMA OwedStays ==
    ASSUME TokenInv, UNCHANGED request,
           \A t \in Token : token[t] # "unminted" => familyOf'[t] = familyOf[t]
    PROVE  UNCHANGED owedBy
  <1>1. ASSUME NEW q \in Request, request[q].at = "issue"
        PROVE  familyOf'[request[q].token] = familyOf[request[q].token]
    BY <1>1, Started DEF TokenInv, OnMinted, NoRequest
  <1> QED
    BY Zenon, <1>1 DEF owedBy

\* Every step of the store is a step or a stutter of its contract.
LEMMA StoreStep ==
    ASSUME TokenInv, [Next]_vars, NoFamily \notin Family
    PROVE  Contract!Next \/ UNCHANGED Contract!vars
  <1>1. ASSUME NEW q \in Request, refresh(q) \/ lockToken(q) \/ lockFamily(q)
        PROVE  UNCHANGED Contract!vars
    BY Zenon, <1>1, RequestStep
  <1>2. ASSUME NEW q \in Request, decide(q) \/ issue(q) \/ fail(q)
        PROVE  Contract!Next \/ UNCHANGED Contract!vars
    <2>1. CASE decide(q)
      BY Zenon, <2>1, DecideStep DEF Contract!Next
    <2>2. CASE issue(q)
      BY Zenon, <2>2, IssueStep DEF Contract!Next
    <2>3. CASE fail(q)
      BY Zenon, <2>3, FailStep DEF Contract!Next
    <2> QED
      BY Zenon, <1>2, <2>1, <2>2, <2>3
  <1>3. ASSUME NEW t \in Token, revoke(t) \/ expire(t)
        PROVE  Contract!Next
    <2>1. UNCHANGED owedBy
      BY Zenon, <1>3, OwedStays DEF revoke, expire
    <2>2. Contract!revoke(t) \/ Contract!expire(t)
      BY Zenon, <1>3, <2>1 DEF revoke, expire, Contract!revoke, Contract!expire, owedBy
    <2> QED
      BY Zenon, <2>2 DEF Contract!Next
  <1>4. ASSUME NEW f \in Family, login(f)
        PROVE  Contract!Next
    <2>1. PICK t \in Token : Mint(t, f)
      BY Zenon, <1>4 DEF login
    <2>2. UNCHANGED owedBy
      BY Zenon, <1>4, <2>1, OwedStays DEF login, Mint, TokenInv, TypeInv
    <2>3. Contract!issueFirst(t, f)
      BY Zenon, <1>4, <2>1, <2>2 DEF login, Mint, Contract!issueFirst, Contract!Stored, owedBy
    <2> QED
      BY Zenon, <2>3 DEF Contract!Next
  <1>5. ASSUME NEW f \in Family, pruneMatch(f) \/ prune(f)
        PROVE  Contract!Next
    <2>1. UNCHANGED owedBy
      BY Zenon, <1>5, OwedStays DEF pruneMatch, prune
    <2>2. Contract!match(f) \/ Contract!prune(f)
      BY Zenon, <1>5, <2>1 DEF pruneMatch, prune, TokensOf, Revoked, Contract!match, Contract!prune,
                        Contract!TokensOf, owedBy
    <2> QED
      BY Zenon, <2>2 DEF Contract!Next
  <1>6. CASE UNCHANGED vars
    BY Zenon, <1>6 DEF vars, Contract!vars
  <1> QED
    BY Zenon, <1>1, <1>2, <1>3, <1>4, <1>5, <1>6 DEF Next

\* The store over Prisma implements the store its callers were promised: every
\* consume(), whatever it interleaves with and wherever it fails, is decided at
\* one instant, its successor is issued once or not at all, a revoked sign-in
\* stays revoked (PrismaRefreshTokenStore against RefreshTokenStore).
THEOREM Implements ==
    ASSUME NoFamily \notin Family
    PROVE  Spec => KeepsContract
  <1>1. Init => Contract!Init
    BY DEF Init, Contract!Init, NoRequest
  <1>2. TokenInv /\ [Next]_vars => [Contract!Next]_(Contract!vars)
    BY Zenon, StoreStep
  <1> QED
    BY <1>1, <1>2, Invariant, PTL DEF Spec, KeepsContract, Contract!Spec

-----------------------------------------------------------------------------
(* Conditional writes (Users).                                             *)

-----------------------------------------------------------------------------
(* Profiles.  Nothing locks the row between a client's read and its write: *)
(* what carries the proof is that a row never returns to an earlier        *)
(* version, so whoever finds the version it read finds what it read.       *)

Entry == [version : Nat, profile : Visit \cup {Nobody}, prefs : SUBSET Visit]

Places == {"idle", "seen", "reading", "filling", "version", "refused", "write", "upload", "merge",
           "writePrefs", "delete", "evict", "evictInside", "commit", "ok"}

Visits == [at : Places, read : {"none", "user", "prefs"}, saw : Entry,
           op : {"none", "profile", "avatar", "prefs", "delete"}, mode : {"list", "any"},
           base : SUBSET Visit, over : Entry]

\* What a visit knows of the row: whatever it read under a version is what
\* the row holds as long as it has that version.
Knows(q) ==
    /\ q.saw.version <= row.version
    /\ q.read = "none" => q.saw.version = 0
    /\ q.at \in {"reading", "filling"} => q.read = "user"
    /\ q.at = "version" => q.read = "prefs"
    /\ q.at \in {"upload", "write"} => q.op # "prefs"
    /\ q.at \in {"delete", "evictInside", "commit"} => q.op = "delete"
    /\ q.read = "user" /\ q.saw.version = row.version => q.saw = row
    /\ q.read = "prefs" /\ q.at # "version" /\ live /\ q.saw.version = row.version =>
          q.saw.prefs = row.prefs
    /\ q.at = "writePrefs" /\ q.saw.version = row.version => q.base = row.prefs

\* What it wrote over is what its client had read.
Replaced(q) ==
    /\ q.over # Profiles!NoEntry => q.at \in {"evict", "evictInside", "commit"}
    /\ q.over # Profiles!NoEntry /\ q.mode = "list" =>
          IF q.read = "user" THEN q.saw = q.over ELSE q.saw.prefs = q.over.prefs

Written == {"evict", "ok"}

\* Unless "*" has overwritten them, accepted patches are in the preferences.
PatchesKept ==
    (\A r \in Visit : visit[r].mode = "any" => visit[r].at \notin Written) =>
        \A r \in Visit : visit[r].op = "prefs" /\ visit[r].at \in Written => r \in row.prefs

UserInv ==
    /\ row \in Entry /\ row.version > 0
    /\ cached \in Entry /\ cached.version <= row.version /\ (cached.version = row.version => cached = row)
    /\ visit \in [Visit -> Visits]
    /\ \A r \in Visit : Knows(visit[r]) /\ Replaced(visit[r])
    /\ PatchesKept

\* The forms a visit starts from and is refused with.
LEMMA IdleTyped ==
    /\ Profiles!NoEntry \in Entry /\ Profiles!NoEntry.version = 0
    /\ Profiles!Idle \in Visits /\ Profiles!Refused \in Visits
    /\ Profiles!Refused = [Profiles!Idle EXCEPT !.at = "refused"]
    /\ Profiles!Idle.read = "none" /\ Profiles!Idle.saw = Profiles!NoEntry
    /\ Profiles!Idle.over = Profiles!NoEntry /\ Profiles!Idle.op = "none"
    /\ Profiles!Idle.mode = "list"
    /\ Profiles!Idle.at = "idle"
  BY Zenon DEF Profiles!NoEntry, Profiles!Idle, Profiles!Refused, Entry, Visits, Places

\* The invariant holds before anybody has read the profile.
LEMMA UserInit == Profiles!Init => UserInv
  <1> SUFFICES ASSUME Profiles!Init PROVE UserInv
    BY Zenon
  <1>1. row \in Entry /\ row.version = 1 /\ cached = Profiles!NoEntry /\ visit \in [Visit -> Visits]
        /\ \A r \in Visit : visit[r] = Profiles!Idle
    BY Zenon, IdleTyped DEF Profiles!Init, Entry
  <1>2. \A r \in Visit : Knows(visit[r]) /\ Replaced(visit[r])
    BY <1>1, IdleTyped DEF Knows, Replaced
  <1>3. PatchesKept
    BY Zenon, <1>1, IdleTyped DEF PatchesKept, Written
  <1> QED BY <1>1, <1>2, <1>3, IdleTyped DEF UserInv

\* A step of one visit that leaves the row alone.
LEMMA UserMoves ==
    ASSUME UserInv, NEW r \in Visit, NEW new \in Visits, Profiles!Becomes(r, new),
           UNCHANGED row, live' => live, cached' \in Entry,
           cached'.version <= row.version /\ (cached'.version = row.version => cached' = row),
           Knows(new), Replaced(new),
           new.at \in Written => new.op = visit[r].op /\ new.mode = visit[r].mode,
           new.at \in Written /\ visit[r].at \notin Written => new.mode = "any" \/ new.op # "prefs",
           visit[r].at \in Written => new.at \in Written
    PROVE  UserInv'
  <1>1. /\ visit' \in [Visit -> Visits] /\ visit'[r] = new
        /\ \A s \in Visit : s # r => visit'[s] = visit[s]
    BY Zenon DEF UserInv, Profiles!Becomes
  <1>2. ASSUME NEW s \in Visit PROVE Knows(visit[s])' /\ Replaced(visit[s])'
    <2>1. PICK q \in Visits : q = visit'[s] /\ Knows(q) /\ Replaced(q)
      BY Zenon, <1>1 DEF UserInv
    <2>2. Knows(q)' /\ Replaced(q)'
      BY Zenon, <2>1 DEF Knows, Replaced
    <2> QED BY <2>1, <2>2 DEF Knows, Replaced
  <1>3. PatchesKept'
    BY Zenon, <1>1 DEF UserInv, PatchesKept
  <1> QED BY Zenon, <1>1, <1>2, <1>3 DEF UserInv

\* A statement that writes the row: it finds the version its client named, or
\* its client named none.
LEMMA UserWrites ==
    ASSUME UserInv, NEW r \in Visit, NEW new \in Entry, new.version = row.version,
           visit[r].at \in {"write", "writePrefs"}, Profiles!update(r, new),
           visit[r].mode = "list" /\ visit[r].saw.version = row.version =>
               row.prefs \subseteq new.prefs /\ (visit[r].op = "prefs" => r \in new.prefs)
    PROVE  UserInv'
  <1>1. CASE ~Profiles!versionPredicate(r)
    <2>1. Profiles!Becomes(r, Profiles!Refused) /\ UNCHANGED <<row, live, cached>>
      BY Zenon, <1>1 DEF Profiles!update
    <2>2. Knows(Profiles!Refused) /\ Replaced(Profiles!Refused) /\ Profiles!Refused.at = "refused"
      BY IdleTyped DEF Knows, Replaced, UserInv, Entry
    <2> QED BY Zenon, <2>1, <2>2, IdleTyped, UserMoves DEF UserInv, Written
  <1>2. CASE Profiles!versionPredicate(r)
    <2>2. /\ visit[r] \in Visits /\ row \in Entry /\ row.version > 0
          /\ Knows(visit[r]) /\ Replaced(visit[r])
      BY Zenon DEF UserInv
    <2>a. [visit[r] EXCEPT !.at = "evict", !.base = {}, !.over = row] \in Visits
      BY Zenon, <2>2 DEF Visits, Places
    <2>b. PICK q \in Visits : q = [visit[r] EXCEPT !.at = "evict", !.base = {}, !.over = row]
      BY Zenon, <2>a
    <2>1. /\ row' = [new EXCEPT !.version = @ + 1] /\ Profiles!Becomes(r, q)
          /\ UNCHANGED <<live, cached>> /\ live
          /\ visit[r].mode = "list" => visit[r].saw.version = row.version
      BY Zenon, <1>2, <2>b DEF Profiles!update, Profiles!versionPredicate, Profiles!isSatisfiedBy
    <2>3. /\ row' \in Entry /\ row'.version = row.version + 1 /\ row'.prefs = new.prefs
      BY <2>1 DEF Entry
    <2>4. /\ q \in Visits /\ q.at = "evict" /\ q.over = row /\ q.saw = visit[r].saw
          /\ q.read = visit[r].read /\ q.mode = visit[r].mode /\ q.op = visit[r].op
      BY <2>2, <2>b DEF Visits, Places
    <2>5. /\ visit' \in [Visit -> Visits] /\ visit'[r] = q
          /\ \A s \in Visit : s # r => visit'[s] = visit[s]
      BY Zenon, <2>1, <2>4 DEF UserInv, Profiles!Becomes
    <2>6. \A p \in Visits : Knows(p) => Knows(p)'
      BY <2>1, <2>2, <2>3 DEF Knows, Visits, Entry
    <2>7. \A p \in Visits : Replaced(p) => Replaced(p)'
      BY Zenon DEF Replaced
    <2>8. Knows(q)'
      BY <2>1, <2>2, <2>3, <2>4 DEF Knows, Visits, Entry
    <2>9. Replaced(q)'
      <3>1. ASSUME q.mode = "list"
            PROVE  IF q.read = "user" THEN q.saw = row ELSE q.saw.prefs = row.prefs
        BY <3>1, <2>1, <2>2, <2>4 DEF Knows, Visits
      <3> QED BY Zenon, <2>4, <3>1 DEF Replaced
    <2>10. ASSUME NEW s \in Visit PROVE Knows(visit[s])' /\ Replaced(visit[s])'
      <3>1. PICK p \in Visits : p = visit'[s] /\ Knows(p)' /\ Replaced(p)'
        BY Zenon, <2>4, <2>5, <2>6, <2>7, <2>8, <2>9 DEF UserInv
      <3> QED BY <3>1 DEF Knows, Replaced
    <2>11. PatchesKept'
      <3> SUFFICES ASSUME \A s \in Visit : visit'[s].mode = "any" => visit'[s].at \notin Written,
                          NEW t \in Visit, visit'[t].op = "prefs", visit'[t].at \in Written
                   PROVE  t \in row'.prefs
        BY Zenon DEF PatchesKept, Written
      <3>1. q.mode = "list"
        BY Zenon, <2>2, <2>4, <2>5 DEF Written, Visits
      <3>2. row.prefs \subseteq row'.prefs /\ (visit[r].op = "prefs" => r \in row'.prefs)
        BY Zenon, <2>1, <2>3, <2>4, <3>1
      <3>3. \A s \in Visit : visit[s].mode = "any" => visit[s].at \notin Written
        BY Zenon, <2>5 DEF Written
      <3> QED BY Zenon, <2>4, <2>5, <3>2, <3>3 DEF UserInv, PatchesKept
    <2>12. cached' \in Entry /\ cached'.version <= row'.version /\ cached'.version # row'.version
      BY <2>1, <2>2, <2>3 DEF UserInv, Entry
    <2> QED BY <2>3, <2>5, <2>10, <2>11, <2>12, <2>2 DEF UserInv, Entry
  <1> QED BY Zenon, <1>1, <1>2

\* The visit new is q, directed to its first await.
Follows(q, op, at, new) ==
    /\ new \in Visits /\ new.at = at /\ new.saw = q.saw /\ new.over = q.over
    /\ new.read = q.read /\ new.op = op

\* Choosing the operation leaves what the visit has read.
LEMMA Directed ==
    ASSUME NEW q \in Visits, NEW op \in {"profile", "avatar", "prefs", "delete"},
           NEW mode \in {"list", "any"}, NEW at \in Places
    PROVE  Follows(q, op, at, [q EXCEPT !.op = op, !.mode = mode, !.at = at])
  BY Zenon DEF Follows, Visits

\* Reads, through the cache or past it, keep the invariant.
LEMMA UserReads ==
    ASSUME UserInv, NEW r \in Visit,
           \/ Profiles!cacheHit(r) \/ Profiles!cacheMiss(r) \/ Profiles!findById(r) \/ Profiles!fill(r)
           \/ Profiles!requireUser(r) \/ Profiles!getPreferences(r)
    PROVE  UserInv'
  <1> USE DEF UserInv
  <1>q. visit[r] \in Visits /\ Knows(visit[r]) /\ Replaced(visit[r])
    BY Zenon
  <1>r. Knows(Profiles!Refused) /\ Replaced(Profiles!Refused) /\ Profiles!Refused.at = "refused"
    BY IdleTyped DEF Knows, Replaced, Entry
  <1>1. CASE Profiles!cacheHit(r)
    <2> DEFINE new == [Profiles!Idle EXCEPT !.at = "seen", !.read = "user", !.saw = cached]
    <2>1. /\ new \in Visits /\ new.at = "seen" /\ new.saw = cached /\ new.read = "user"
          /\ new.over = Profiles!NoEntry
      BY Zenon, IdleTyped DEF Visits, Places
    <2>2. Knows(new) /\ Replaced(new)
      BY Zenon, <2>1 DEF Knows, Replaced
    <2> HIDE DEF new
    <2> QED BY Zenon, <1>1, <2>1, <2>2, UserMoves DEF Profiles!cacheHit, Written, new
  <1>2. CASE Profiles!cacheMiss(r)
    <2> DEFINE new == [Profiles!Idle EXCEPT !.at = "reading", !.read = "user"]
    <2>1. /\ new \in Visits /\ new.at = "reading" /\ new.saw = Profiles!NoEntry /\ new.read = "user"
          /\ new.over = Profiles!NoEntry
      BY Zenon, IdleTyped DEF Visits, Places
    <2>2. Knows(new) /\ Replaced(new)
      BY <2>1, IdleTyped DEF Knows, Replaced, Entry
    <2> HIDE DEF new
    <2> QED BY Zenon, <1>2, <2>1, <2>2, UserMoves DEF Profiles!cacheMiss, Written, new
  <1>3. CASE Profiles!findById(r)
    <2>1. CASE live
      <3> DEFINE new == [visit[r] EXCEPT !.at = "filling", !.saw = row]
      <3>1. /\ new \in Visits /\ new.at = "filling" /\ new.saw = row /\ new.read = visit[r].read
            /\ new.over = visit[r].over /\ new.mode = visit[r].mode /\ new.op = visit[r].op
        BY Zenon, <1>q DEF Visits, Places
      <3>2. Profiles!Becomes(r, new) /\ visit[r].at = "reading" /\ UNCHANGED <<row, live, cached>>
        BY Zenon, <1>3, <2>1 DEF Profiles!findById
      <3>3. Knows(new)
        BY <3>1, <3>2 DEF Knows, Entry
      <3>4. Replaced(new)
        BY Zenon, <3>1, <3>2, <1>q DEF Replaced
      <3> HIDE DEF new
      <3> QED BY Zenon, <3>1, <3>2, <3>3, <3>4, UserMoves DEF Written
    <2>2. CASE ~live
      BY Zenon, <1>3, <1>r, <2>2, IdleTyped, UserMoves DEF Profiles!findById, Written
    <2> QED BY Zenon, <2>1, <2>2
  <1>4. CASE Profiles!fill(r)
    <2> DEFINE new == [visit[r] EXCEPT !.at = "seen"]
    <2>1. /\ new \in Visits /\ new.at = "seen" /\ new.saw = visit[r].saw /\ new.read = visit[r].read
          /\ new.over = visit[r].over /\ new.mode = visit[r].mode /\ visit[r].saw \in Entry
      BY Zenon, <1>q DEF Visits, Places
    <2>2. /\ Profiles!Becomes(r, new) /\ visit[r].at = "filling" /\ UNCHANGED <<row, live>>
          /\ cached' = visit[r].saw
      BY Zenon, <1>4 DEF Profiles!fill, Profiles!Moves
    <2>3. Knows(new)
      BY Zenon, <1>q, <2>1, <2>2 DEF Knows
    <2>4. Replaced(new)
      BY Zenon, <2>1, <2>2, <1>q DEF Replaced
    <2> HIDE DEF new
    <2> QED BY Zenon, <1>q, <2>1, <2>2, <2>3, <2>4, UserMoves DEF Written, Knows
  <1>5. CASE Profiles!requireUser(r)
    <2>1. CASE live
      <3> DEFINE new == [Profiles!Idle EXCEPT !.at = "version", !.read = "prefs", !.saw.version = row.version]
      <3>1. /\ new \in Visits /\ new.at = "version" /\ new.saw.version = row.version
            /\ new.read = "prefs"
            /\ new.over = Profiles!NoEntry
        <4>1. PICK e \in Entry : e = [Profiles!Idle.saw EXCEPT !.version = row.version]
          BY Zenon, IdleTyped DEF Entry
        <4>2. new = [Profiles!Idle EXCEPT !.at = "version", !.read = "prefs", !.saw = e]
              /\ e.version = row.version
          BY Zenon, <4>1, IdleTyped DEF Visits, Entry
        <4> QED BY ONLY <4>2, e \in Entry, IdleTyped DEF Visits, Places
      <3>2. Profiles!Becomes(r, new) /\ visit[r].at = "idle" /\ UNCHANGED <<row, live, cached>>
        BY Zenon, <1>5, <2>1 DEF Profiles!requireUser
      <3>3. Knows(new) /\ Replaced(new)
        BY <3>1 DEF Knows, Replaced, Entry
      <3> HIDE DEF new
      <3> QED BY Zenon, <3>1, <3>2, <3>3, UserMoves DEF Written
    <2>2. CASE ~live
      BY Zenon, <1>5, <1>r, <2>2, IdleTyped, UserMoves DEF Profiles!requireUser, Written
    <2> QED BY Zenon, <2>1, <2>2
  <1>6. CASE Profiles!getPreferences(r)
    <2> DEFINE got == IF live THEN row.prefs ELSE {}
               new == [visit[r] EXCEPT !.at = "seen", !.saw.prefs = got]
    <2>1. /\ new \in Visits /\ new.at = "seen" /\ new.saw.version = visit[r].saw.version
          /\ new.saw.prefs = got /\ new.read = visit[r].read
          /\ new.over = visit[r].over /\ new.mode = visit[r].mode /\ new.op = visit[r].op
      <3>1. PICK e \in Entry : e = [visit[r].saw EXCEPT !.prefs = got]
        BY Zenon, <1>q DEF Entry, Visits
      <3>2. /\ new = [visit[r] EXCEPT !.at = "seen", !.saw = e]
            /\ e.version = visit[r].saw.version /\ e.prefs = got
        BY Zenon, <3>1, <1>q DEF Visits, Entry
      <3> QED BY Zenon, <3>2, <1>q DEF Visits, Places
    <2>2. Profiles!Becomes(r, new) /\ visit[r].at = "version" /\ UNCHANGED <<row, live, cached>>
      BY Zenon, <1>6 DEF Profiles!getPreferences
    <2>3. Knows(new)
      BY Zenon, <1>q, <2>1, <2>2 DEF Knows
    <2>4. Replaced(new)
      BY Zenon, <2>1, <2>2, <1>q DEF Replaced
    <2> HIDE DEF new
    <2> QED BY Zenon, <2>1, <2>2, <2>3, <2>4, UserMoves DEF Written
  <1> QED BY Zenon, <1>1, <1>2, <1>3, <1>4, <1>5, <1>6

\* The checks before the statement, and everything around it but the write.
LEMMA UserProceeds ==
    ASSUME UserInv, NEW r \in Visit,
           \/ Profiles!assertPrecondition(r) \/ Profiles!uploadBuffer(r) \/ Profiles!mergePreferences(r)
           \/ Profiles!evictUser(r) \/ Profiles!delete(r) \/ Profiles!evictInside(r)
           \/ Profiles!commit(r) \/ Profiles!rollback(r)
    PROVE  UserInv'
  <1> USE DEF UserInv
  <1>q. visit[r] \in Visits /\ Knows(visit[r]) /\ Replaced(visit[r])
    BY Zenon
  <1>r. Knows(Profiles!Refused) /\ Replaced(Profiles!Refused) /\ Profiles!Refused.at = "refused"
    BY IdleTyped DEF Knows, Replaced, Entry
  <1>1. CASE Profiles!assertPrecondition(r)
    <2>1. CASE Profiles!Becomes(r, Profiles!Refused)
      BY Zenon, <1>1, <1>r, <2>1, IdleTyped, UserMoves DEF Profiles!assertPrecondition, Written
    <2>2. CASE ~Profiles!Becomes(r, Profiles!Refused)
      <3>1. PICK op \in {"profile", "avatar", "prefs", "delete"}, mode \in {"list", "any"} :
              Profiles!Becomes(r, [visit[r] EXCEPT !.op = op, !.mode = mode, !.at = Profiles!FirstAwait[op]])
        BY Zenon, <1>1, <2>2 DEF Profiles!assertPrecondition, Profiles!FirstAwait
      <3>2. /\ Profiles!FirstAwait[op] \in {"write", "upload", "merge", "delete"}
            /\ Profiles!FirstAwait[op] \in {"write", "upload"} => op # "prefs"
            /\ Profiles!FirstAwait[op] = "delete" => op = "delete"
        BY DEF Profiles!FirstAwait
      <3> DEFINE new == [visit[r] EXCEPT !.op = op, !.mode = mode, !.at = Profiles!FirstAwait[op]]
      <3>3. /\ new \in Visits /\ new.at \in {"write", "upload", "merge", "delete"}
            /\ new.saw = visit[r].saw
            /\ new.over = visit[r].over /\ new.read = visit[r].read /\ new.op = op
            /\ new.at = Profiles!FirstAwait[op]
        <4>1. visit[r] \in Visits
          BY Zenon, <1>q
        <4>2. Profiles!FirstAwait[op] \in Places
          BY Zenon, <3>2 DEF Places
        <4>3. Profiles!FirstAwait[op] \in {"write", "upload", "merge", "delete"}
          BY Zenon, <3>2
        <4>4. Follows(visit[r], op, Profiles!FirstAwait[op], new)
          BY ONLY Zenon, <4>1, <4>2, Directed,
             op \in {"profile", "avatar", "prefs", "delete"}, mode \in {"list", "any"}
        <4> QED BY Zenon, <4>3, <4>4 DEF Follows
      <3>4. visit[r].at = "seen" /\ UNCHANGED <<row, live, cached>>
        BY Zenon, <1>1 DEF Profiles!assertPrecondition
      <3>5. Knows(new) /\ Replaced(new)
        BY Zenon, <1>q, <3>2, <3>3, <3>4 DEF Knows, Replaced
      <3> HIDE DEF new
      <3> QED BY Zenon, <3>1, <3>3, <3>4, <3>5, UserMoves DEF Written, new
    <2> QED BY Zenon, <2>1, <2>2
  <1>2. ASSUME NEW at \in {"write", "commit"}, Profiles!Moves(r, at), visit[r].at \in {"upload", "evictInside"},
               at = "commit" <=> visit[r].at = "evictInside",
               UNCHANGED <<row, live>>, cached' \in {cached, Profiles!NoEntry}
        PROVE  UserInv'
    <2> DEFINE new == [visit[r] EXCEPT !.at = at]
    <2>1. /\ new \in Visits /\ new.at = at /\ new.saw = visit[r].saw /\ new.read = visit[r].read
          /\ new.over = visit[r].over /\ new.mode = visit[r].mode /\ new.op = visit[r].op
      BY Zenon, <1>q DEF Visits, Places
    <2>2. Knows(new) /\ Replaced(new)
      BY Zenon, <1>q, <1>2, <2>1 DEF Knows, Replaced
    <2>3. cached' \in Entry /\ cached'.version <= row.version
          /\ (cached'.version = row.version => cached' = row)
      BY <1>2, IdleTyped DEF Entry
    <2> HIDE DEF new
    <2> QED BY Zenon, <1>2, <2>1, <2>2, <2>3, UserMoves DEF Profiles!Moves, Written, new
  <1>3. CASE Profiles!uploadBuffer(r) \/ Profiles!evictInside(r)
    BY Zenon, <1>2, <1>3 DEF Profiles!uploadBuffer, Profiles!evictInside
  <1>4. CASE Profiles!mergePreferences(r)
    <2>1. CASE live
      <3> DEFINE new == [visit[r] EXCEPT !.at = "writePrefs", !.base = row.prefs]
      <3>1. /\ new \in Visits /\ new.at = "writePrefs" /\ new.saw = visit[r].saw
            /\ new.read = visit[r].read
            /\ new.over = visit[r].over /\ new.mode = visit[r].mode /\ new.op = visit[r].op
            /\ new.base = row.prefs
        BY Zenon, <1>q DEF Visits, Places, Entry
      <3>2. Profiles!Becomes(r, new) /\ visit[r].at = "merge" /\ UNCHANGED <<row, live, cached>>
        BY Zenon, <1>4, <2>1 DEF Profiles!mergePreferences
      <3>3. Knows(new) /\ Replaced(new)
        BY Zenon, <1>q, <3>1, <3>2 DEF Knows, Replaced
      <3> HIDE DEF new
      <3> QED BY Zenon, <3>1, <3>2, <3>3, UserMoves DEF Written
    <2>2. CASE ~live
      BY Zenon, <1>4, <1>r, <2>2, IdleTyped, UserMoves DEF Profiles!mergePreferences, Written
    <2> QED BY Zenon, <2>1, <2>2
  <1>5. ASSUME Profiles!Answered(r), visit[r].at = "evict" \/ visit[r].at = "commit",
               visit[r].at = "commit" => visit[r].op = "delete",
               UNCHANGED row, live' => live, cached' \in {cached, Profiles!NoEntry}
        PROVE  UserInv'
    <2> DEFINE new == [Profiles!Idle EXCEPT !.at = "ok", !.op = visit[r].op, !.mode = visit[r].mode]
    <2>1. /\ new \in Visits /\ new.at = "ok" /\ new.saw = Profiles!NoEntry /\ new.read = "none"
          /\ new.over = Profiles!NoEntry /\ new.mode = visit[r].mode /\ new.op = visit[r].op
      BY Zenon, <1>q, IdleTyped DEF Visits, Places
    <2>2. Knows(new) /\ Replaced(new)
      BY <2>1, IdleTyped DEF Knows, Replaced, Entry
    <2>3. cached' \in Entry /\ cached'.version <= row.version
          /\ (cached'.version = row.version => cached' = row)
      BY <1>5, IdleTyped DEF Entry
    <2> HIDE DEF new
    <2> QED BY Zenon, <1>5, <2>1, <2>2, <2>3, UserMoves DEF Profiles!Answered, Written, new
  <1>6. CASE Profiles!evictUser(r) \/ Profiles!commit(r)
    BY Zenon, <1>5, <1>6, <1>q DEF Profiles!evictUser, Profiles!commit, Knows
  <1>7. CASE Profiles!delete(r)
    <2>1. CASE Profiles!versionPredicate(r)
      <3> DEFINE new == [visit[r] EXCEPT !.at = "evictInside", !.over = row]
      <3>1. /\ new \in Visits /\ new.at = "evictInside" /\ new.saw = visit[r].saw
            /\ new.read = visit[r].read
            /\ new.over = row /\ new.mode = visit[r].mode /\ new.op = visit[r].op
        BY Zenon, <1>q DEF Visits, Places
      <3>2. /\ Profiles!Becomes(r, new) /\ visit[r].at = "delete" /\ UNCHANGED <<row, live, cached>>
            /\ live /\ (visit[r].mode = "list" => visit[r].saw.version = row.version)
        BY Zenon, <1>7, <2>1 DEF Profiles!delete, Profiles!versionPredicate, Profiles!isSatisfiedBy
      <3>3. Knows(new)
        BY Zenon, <1>q, <3>1, <3>2 DEF Knows
      <3>4. Replaced(new)
        BY <1>q, <3>1, <3>2 DEF Replaced, Knows, Visits
      <3> HIDE DEF new
      <3> QED BY Zenon, <3>1, <3>2, <3>3, <3>4, UserMoves DEF Written
    <2>2. CASE ~Profiles!versionPredicate(r)
      BY Zenon, <1>7, <1>r, <2>2, IdleTyped, UserMoves DEF Profiles!delete, Written
    <2> QED BY Zenon, <2>1, <2>2
  <1>8. CASE Profiles!rollback(r)
    BY Zenon, <1>8, <1>r, IdleTyped, UserMoves DEF Profiles!rollback, Written
  <1> QED BY Zenon, <1>1, <1>3, <1>4, <1>6, <1>7, <1>8

\* Every step of the profile's requests keeps the invariant.
LEMMA UserStep == UserInv /\ [Profiles!Next]_(Profiles!vars) => UserInv'
  <1> SUFFICES ASSUME UserInv, [Profiles!Next]_(Profiles!vars) PROVE UserInv'
    BY Zenon
  <1>1. ASSUME NEW r \in Visit, Profiles!applyUpdate(r) PROVE UserInv'
    <2>1. visit[r].at = "write" /\ Profiles!update(r, [row EXCEPT !.profile = r])
      BY Zenon, <1>1 DEF Profiles!applyUpdate
    <2>2. PICK new \in Entry : new = [row EXCEPT !.profile = r]
      BY Zenon DEF UserInv, Entry
    <2>3. new.version = row.version /\ new.prefs = row.prefs
      BY Zenon, <2>2 DEF UserInv, Entry
    <2>4. visit[r].op # "prefs"
      BY Zenon, <2>1 DEF UserInv, Knows
    <2> QED BY Zenon, <2>1, <2>2, <2>3, <2>4, UserWrites
  <1>2. ASSUME NEW r \in Visit, Profiles!setPreferences(r) PROVE UserInv'
    <2>1. /\ visit[r].at = "writePrefs" /\ visit[r] \in Visits /\ Knows(visit[r])
          /\ Profiles!update(r, [row EXCEPT !.prefs = visit[r].base \cup {r}])
      BY Zenon, <1>2 DEF Profiles!setPreferences, UserInv
    <2>2. PICK new \in Entry : new = [row EXCEPT !.prefs = visit[r].base \cup {r}]
      BY Zenon, <2>1 DEF UserInv, Entry, Visits
    <2>3. new.version = row.version /\ new.prefs = visit[r].base \cup {r}
      BY Zenon, <2>2 DEF UserInv, Entry
    <2>4. visit[r].saw.version = row.version => visit[r].base = row.prefs
      BY Zenon, <2>1 DEF Knows
    <2> QED BY Zenon, <2>1, <2>2, <2>3, <2>4, UserWrites
  <1>3. CASE Profiles!handle \/ Profiles!expire \/ UNCHANGED Profiles!vars
    <2>1. UNCHANGED <<row, live, visit>> /\ cached' \in {cached, Profiles!NoEntry}
      BY Zenon, <1>3 DEF Profiles!handle, Profiles!expire, Profiles!vars
    <2>2. \A r \in Visit : Knows(visit[r])' /\ Replaced(visit[r])'
      BY Zenon, <2>1 DEF UserInv, Knows, Replaced
    <2>3. PatchesKept'
      BY Zenon, <2>1 DEF UserInv, PatchesKept
    <2> QED BY <2>1, <2>2, <2>3, IdleTyped DEF UserInv, Entry
  <1> QED BY Zenon, <1>1, <1>2, <1>3, UserReads, UserProceeds DEF Profiles!Next

\* The invariant says that no update is lost.
LEMMA UserSafe == UserInv => Profiles!NoLostUpdate
  BY Zenon DEF UserInv, Replaced, PatchesKept, Written, Profiles!NoLostUpdate, Profiles!Writing

-----------------------------------------------------------------------------
(* The audit log.  Under the advisory lock the uncommitted rows of its     *)
(* holder continue the committed chain, and nobody else has any.           *)

AuditAssumption == NoTransaction \notin Transaction /\ PageSize \in Nat

\* R is an unbroken chain of n rows.
Chain(R, n) ==
    /\ \A i \in 1 .. n : \E e \in R : e.seq = i
    /\ \A e \in R : e.seq \in 1 .. n /\ e.hash = Log!auditEntryHash(e.seq, e.by, e.prevHash)
    /\ \A e, f \in R : e.seq = f.seq => e = f
    /\ \A e \in R, p \in R \cup {Log!NoEntry} : e.seq = p.seq + 1 => e.prevHash = p.hash

\* Uncommitted rows continue the committed chain, and the tail their
\* transaction read is the end of the two.
Fits(at, own, tail, n) ==
    \E m \in Nat :
        /\ Chain(entries \cup own, m)
        /\ \A e \in own : e.seq > n
        /\ at = "create" => tail \in entries \cup own \cup {Log!NoEntry} /\ tail.seq = m

Continues(t, n) == Fits(tx[t].at, tx[t].own, tx[t].tail, n)

Alone(t) == tx[t].at \in {"locked", "create"} \/ tx[t].own # {} => lock = t

AuditInv ==
    /\ DOMAIN tx = Transaction
    /\ \A t \in Transaction : tx[t] = [at |-> tx[t].at, own |-> tx[t].own, tail |-> tx[t].tail]
    /\ \A t \in Transaction : Alone(t)
    /\ \E n \in Nat : Chain(entries, n) /\ \A t \in Transaction : Continues(t, n)
    /\ ~collided
    /\ verifier.previous \in entries \cup {Log!NoEntry}
    /\ verifier.verdict # "breach"

\* The row before the first has number 0.
LEMMA NoRow == Log!NoEntry.seq = 0
  BY DEF Log!NoEntry, Log!FIRST_SEQ

\* Last() is the row with the largest number.
LEMMA LastIs ==
    ASSUME NEW R, NEW e \in R, \A f \in R : f.seq \in Nat /\ f.seq <= e.seq,
           \A f, g \in R : f.seq = g.seq => f = g
    PROVE  Log!Last(R) = e
  <1> DEFINE P(x) == x \in R /\ \A f \in R : f.seq <= x.seq
  <1>1. P(e)
    BY Zenon
  <1>2. \A x : P(x) => x = e
    <2> SUFFICES ASSUME NEW x, P(x) PROVE x = e
      BY Zenon
    <2>1. x.seq \in Nat /\ e.seq \in Nat /\ x.seq <= e.seq /\ e.seq <= x.seq
      BY Zenon
    <2>2. x.seq = e.seq
      BY ONLY <2>1
    <2> QED BY Zenon, <2>2
  <1>3. Log!Last(R) = CHOOSE x \in R : \A f \in R : f.seq <= x.seq
    BY Zenon DEF Log!Last
  <1>4. P(CHOOSE x \in R : \A f \in R : f.seq <= x.seq)
    BY Zenon, <1>1
  <1> HIDE DEF P
  <1> QED BY Zenon, <1>2, <1>3, <1>4

\* Last() of a chain of n rows is its n-th.
LEMMA ChainLast ==
    ASSUME NEW R, NEW n \in Nat, Chain(R, n)
    PROVE  Log!Last(R) \in R \cup {Log!NoEntry} /\ Log!Last(R).seq = n
  <1>1. CASE n = 0
    <2>1. R = {}
      BY <1>1 DEF Chain
    <2> QED BY Zenon, <2>1, <1>1, NoRow DEF Log!Last
  <1>2. CASE n > 0
    <2>1. PICK e \in R : e.seq = n
      BY <1>2 DEF Chain
    <2>2. \A f \in R : f.seq \in Nat /\ f.seq <= e.seq
      BY <2>1 DEF Chain
    <2>3. Log!Last(R) = e
      BY Zenon, <2>2, LastIs DEF Chain
    <2> QED BY Zenon, <2>1, <2>3
  <1> QED BY <1>1, <1>2

\* A row sealed over the last one makes the chain longer by one.
LEMMA ChainGrows ==
    ASSUME NEW R, NEW n \in Nat, Chain(R, n), NEW p \in R \cup {Log!NoEntry}, p.seq = n,
           NEW t, NEW e, e = Log!sealAuditEntry(t, n + 1, p.hash)
    PROVE  Chain(R \cup {e}, n + 1)
  <1>1. e.seq = n + 1 /\ e.prevHash = p.hash
        /\ e.hash = Log!auditEntryHash(e.seq, e.by, e.prevHash)
    BY Zenon DEF Log!sealAuditEntry
  <1>2. \A i \in 1 .. n + 1 : \E f \in R \cup {e} : f.seq = i
    <2> SUFFICES ASSUME NEW i \in 1 .. n + 1 PROVE \E f \in R \cup {e} : f.seq = i
      BY Zenon
    <2>1. CASE i = n + 1
      BY Zenon, <2>1, <1>1
    <2>2. CASE i # n + 1
      <3>1. i \in 1 .. n
        BY <2>2
      <3> QED BY Zenon, <3>1 DEF Chain
    <2> QED BY Zenon, <2>1, <2>2
  <1>3. \A f \in R : f.seq \in 1 .. n + 1 /\ f.seq # n + 1 /\ f.seq # n + 2 /\ f.seq \in 1 .. n
    BY DEF Chain
  <1>4. e.seq \in 1 .. n + 1
    BY <1>1
  <1>5. \A f, g \in R \cup {e} : f.seq = g.seq => f = g
    BY <1>1, <1>3 DEF Chain
  <1>6. ASSUME NEW f \in R \cup {e}, NEW q \in R \cup {e} \cup {Log!NoEntry}, f.seq = q.seq + 1
        PROVE  f.prevHash = q.hash
    <2>1. CASE q = e
      BY <1>1, <1>3, <1>6, <2>1
    <2>2. CASE q \in R \cup {Log!NoEntry} /\ f \in R
      BY Zenon, <1>6, <2>2 DEF Chain
    <2>3. CASE q \in R \cup {Log!NoEntry} /\ f = e
      <3>1. q.seq \in Nat
        BY <2>3, <1>3, NoRow
      <3>2. q.seq = p.seq
        BY <1>6, <2>3, <1>1, <3>1
      <3>3. q = p
        BY <3>2, <2>3, <1>3, NoRow DEF Chain
      <3> QED BY Zenon, <3>3, <2>3, <1>1
    <2> QED BY Zenon, <2>1, <2>2, <2>3
  <1>7. \A f \in R : f.hash = Log!auditEntryHash(f.seq, f.by, f.prevHash)
    BY Zenon DEF Chain
  <1> QED BY Zenon, <1>1, <1>2, <1>3, <1>4, <1>5, <1>6, <1>7 DEF Chain

\* The instance counts as the library does.
LEMMA Counts ==
    \A S : Log!Cardinality(S) = Cardinality(S)
  BY Zenon DEF Log!Cardinality, Cardinality

\* A chain of n rows has n of them, numbered without a gap.
LEMMA ChainCounted ==
    ASSUME SetFacts, NEW R, NEW n \in Nat, Chain(R, n)
    PROVE  IsFiniteSet(R) /\ Cardinality(R) = n /\ {e.seq : e \in R} = 1 .. n
  <1>1. \A i \in 1 .. n : \E e \in R : e.seq = i
    BY Zenon DEF Chain
  <1>2. \A e \in R : e.seq \in 1 .. n
    BY Zenon DEF Chain
  <1>3. \A e, f \in R : e.seq = f.seq => e = f
    BY Zenon DEF Chain
  <1> DEFINE at == [i \in 1 .. n |-> CHOOSE e \in R : e.seq = i]
  <1>5. \A i \in 1 .. n : at[i] \in R /\ at[i].seq = i
    BY Zenon, <1>1
  <1>6. at \in [1 .. n -> R]
    BY Zenon, <1>5
  <1> HIDE DEF at
  <1>7. \A i, j \in 1 .. n : at[i] = at[j] => i = j
    BY Zenon, <1>5
  <1>8. \A e \in R : \E i \in 1 .. n : at[i] = e
    BY Zenon, <1>2, <1>3, <1>5
  <1>4. IsFiniteSet(R) /\ Cardinality(R) = n
    BY Zenon, <1>6, <1>7, <1>8 DEF SetFacts
  <1> QED BY Zenon, <1>1, <1>2, <1>4

\* A row's link holds against a set that has the row before it.
LEMMA Inspects ==
    ASSUME NEW R, NEW n \in Nat, Chain(R, n), NEW Q \in SUBSET (R \cup {Log!NoEntry}),
           NEW e \in R, NEW p \in Q, e.seq = p.seq + 1
    PROVE  Log!inspect(e, Log!Last({f \in Q : f.seq < e.seq}))
  <1>1. \A f \in R : f.seq \in Nat /\ f.seq > 0
    BY DEF Chain
  <1>2. \A f \in R \cup {Log!NoEntry} : f.seq \in Nat
    BY <1>1, NoRow
  <1>3. \A f, g \in R \cup {Log!NoEntry} : f.seq = g.seq => f = g
    BY <1>1, NoRow DEF Chain
  <1> DEFINE S == {f \in Q : f.seq < e.seq}
  <1>4. p \in S /\ \A f \in S : f.seq \in Nat /\ f.seq <= p.seq
    BY <1>2
  <1>5. \A f, g \in S : f.seq = g.seq => f = g
    BY Zenon, <1>3
  <1> HIDE DEF S
  <1>6. Log!Last(S) = p
    BY Zenon, <1>4, <1>5, LastIs
  <1>7. e.prevHash = p.hash /\ e.hash = Log!auditEntryHash(e.seq, e.by, e.prevHash)
    BY Zenon DEF Chain
  <1>8. Log!inspect(e, p)
    BY Zenon, <1>7 DEF Log!inspect
  <1> QED BY Zenon, <1>6, <1>8 DEF S

\* Last() of some rows of a chain is one of them.
LEMMA LastOf ==
    ASSUME SetFacts, NEW R, NEW n \in Nat, Chain(R, n), NEW Q \in SUBSET R, Q # {}
    PROVE  Log!Last(Q) \in Q
  <1> DEFINE T == {n - e.seq : e \in Q}
  <1>1. \A e \in Q : e.seq \in Nat /\ n - e.seq \in Nat
    BY DEF Chain
  <1>2. T \subseteq Nat /\ T # {}
    BY Zenon, <1>1
  <1> HIDE DEF T
  <1>4. PICK x \in T : \A y \in T : x <= y
    BY Zenon, <1>2 DEF SetFacts
  <1>5. PICK e \in Q : x = n - e.seq
    BY Zenon DEF T
  <1>6. \A f \in Q : f.seq <= e.seq
    <2> SUFFICES ASSUME NEW f \in Q, ~(f.seq <= e.seq) PROVE FALSE
      BY Zenon
    <2>1. n - f.seq \in T /\ n - f.seq < x /\ x \in Nat /\ n - f.seq \in Nat
      BY <1>1, <1>5 DEF T
    <2>2. x <= n - f.seq
      BY Zenon, <2>1, <1>4
    <2> QED BY <1>1, <2>1, <2>2
  <1> QED BY Zenon, <1>6 DEF Log!Last

\* The invariant holds of the empty log.
LEMMA AuditInit == ASSUME SetFacts, AuditAssumption, Log!Init PROVE AuditInv
  <1>1. /\ DOMAIN tx = Transaction
        /\ \A t \in Transaction : tx[t] = [at |-> "work", own |-> {}, tail |-> Log!NoEntry]
        /\ entries = {} /\ collided = FALSE
        /\ verifier = [previous |-> Log!NoEntry, verdict |-> "idle"]
    BY Zenon DEF Log!Init
  <1>2. \A t \in Transaction : tx[t].at = "work" /\ tx[t].own = {} /\ tx[t].tail = Log!NoEntry
    BY <1>1
  <1>3. \A t \in Transaction : tx[t] = [at |-> tx[t].at, own |-> tx[t].own, tail |-> tx[t].tail]
    BY Zenon, <1>1, <1>2
  <1>4. Chain({}, 0)
    BY DEF Chain
  <1>5. \A t \in Transaction : entries \cup tx[t].own = {}
    BY Zenon, <1>1, <1>2
  <1>6. \A t \in Transaction : Continues(t, 0) /\ Alone(t)
    BY Zenon, <1>2, <1>4, <1>5 DEF Continues, Fits, Alone
  <1>7. verifier.previous = Log!NoEntry /\ verifier.verdict = "idle"
    BY Zenon, <1>1
  <1> QED BY Zenon, <1>1, <1>3, <1>4, <1>6, <1>7 DEF AuditInv

\* A step of one transaction, which leaves the committed rows alone.
LEMMA OneStep ==
    ASSUME SetFacts, AuditAssumption, AuditInv, NEW t \in Transaction, NEW at, NEW own, NEW tail,
           tx' = [tx EXCEPT ![t] = [at |-> at, own |-> own, tail |-> tail]],
           UNCHANGED <<entries, collided, verifier>>,
           \A u \in Transaction : u # t /\ lock = u => lock' = u,
           at \in {"locked", "create"} \/ own # {} => lock' = t,
           \A n \in Nat : Chain(entries, n) /\ Continues(t, n) => Fits(at, own, tail, n)
    PROVE  AuditInv'
  <1>1. DOMAIN tx' = Transaction /\ \A u \in Transaction : u # t => tx'[u] = tx[u]
    BY Zenon DEF AuditInv
  <1>2. tx'[t] = [at |-> at, own |-> own, tail |-> tail]
    BY Zenon DEF AuditInv
  <1>3. tx'[t].at = at /\ tx'[t].own = own /\ tx'[t].tail = tail
    BY ONLY <1>2
  <1>4. \A u \in Transaction : tx'[u] = [at |-> tx'[u].at, own |-> tx'[u].own, tail |-> tx'[u].tail]
    BY Zenon, <1>1, <1>2, <1>3 DEF AuditInv
  <1>5. \A u \in Transaction : Alone(u)'
    <2> SUFFICES ASSUME NEW u \in Transaction PROVE Alone(u)'
      BY Zenon
    <2>1. CASE u = t
      BY Zenon, <2>1, <1>3 DEF Alone
    <2>2. CASE u # t
      BY Zenon, <2>2, <1>1 DEF Alone, AuditInv
    <2> QED BY Zenon, <2>1, <2>2
  <1>6. PICK n \in Nat : Chain(entries, n) /\ \A u \in Transaction : Continues(u, n)
    BY Zenon DEF AuditInv
  <1>7. \A u \in Transaction : Continues(u, n)'
    <2> SUFFICES ASSUME NEW u \in Transaction PROVE Continues(u, n)'
      BY Zenon
    <2>1. CASE u = t
      BY Zenon, <2>1, <1>3, <1>6 DEF Continues, Fits
    <2>2. CASE u # t
      BY Zenon, <2>2, <1>1, <1>6 DEF Continues, Fits
    <2> QED BY Zenon, <2>1, <2>2
  <1>8. Chain(entries', n)
    BY Zenon, <1>6
  <1> QED BY Zenon, <1>1, <1>4, <1>5, <1>6, <1>7, <1>8 DEF AuditInv

\* A transaction that ends without committing rows keeps the invariant.
LEMMA Ended ==
    ASSUME SetFacts, AuditAssumption, AuditInv, NEW t \in Transaction, Log!Ends(t),
           UNCHANGED <<entries, collided, verifier>>
    PROVE  AuditInv'
  <1>1. tx' = [tx EXCEPT ![t] = [at |-> "ended", own |-> {}, tail |-> Log!NoEntry]]
    BY Zenon DEF Log!Ends
  <1>2. \A u \in Transaction : u # t /\ lock = u => lock' = u
    BY Zenon DEF Log!Ends
  <1>3. \A n \in Nat : Chain(entries, n) => Fits("ended", {}, Log!NoEntry, n)
    BY Zenon DEF Fits
  <1> QED BY Zenon, <1>1, <1>2, <1>3, OneStep

\* Taking the advisory lock keeps it.
LEMMA Locks ==
    ASSUME SetFacts, AuditAssumption, AuditInv, NEW t \in Transaction, Log!takeLock(t)
    PROVE  AuditInv'
  <1>1. /\ tx[t].at = "work" /\ lock \in {NoTransaction, t} /\ lock' = t
        /\ tx' = [tx EXCEPT ![t].at = "locked"] /\ UNCHANGED <<entries, collided, verifier>>
    BY Zenon DEF Log!takeLock, Log!Locking
  <1>2. PICK own, tail : own = tx[t].own /\ tail = tx[t].tail
    BY Zenon
  <1>3. tx[t] = [at |-> "work", own |-> own, tail |-> tail]
    BY Zenon, <1>1, <1>2 DEF AuditInv
  <1>4. [tx[t] EXCEPT !.at = "locked"] = [at |-> "locked", own |-> own, tail |-> tail]
    BY <1>3
  <1>5. tx' = [tx EXCEPT ![t] = [at |-> "locked", own |-> own, tail |-> tail]]
    BY Zenon, <1>1, <1>4
  <1>6. \A n \in Nat : Continues(t, n) => Fits("locked", own, tail, n)
    BY Zenon, <1>2 DEF Continues, Fits
  <1>7. \A u \in Transaction : u # t /\ lock = u => lock' = u
    BY Zenon, <1>1 DEF AuditAssumption
  <1> QED BY Zenon, <1>1, <1>5, <1>6, <1>7, OneStep

\* Reading the tail under the lock keeps it.
LEMMA ReadsTail ==
    ASSUME SetFacts, AuditAssumption, AuditInv, NEW t \in Transaction, Log!readTail(t)
    PROVE  AuditInv'
  <1>1. /\ tx[t].at = "locked" /\ UNCHANGED <<entries, lock, collided, verifier>>
        /\ tx' = [tx EXCEPT ![t].at = "create", ![t].tail = Log!Last(entries \cup tx[t].own)]
    BY Zenon DEF Log!readTail
  <1>2. PICK own, tail, last :
          own = tx[t].own /\ tail = tx[t].tail /\ last = Log!Last(entries \cup tx[t].own)
    BY Zenon
  <1>3. tx[t] = [at |-> "locked", own |-> own, tail |-> tail]
    BY Zenon, <1>1, <1>2 DEF AuditInv
  <1>4. tx' = [tx EXCEPT ![t] = [at |-> "create", own |-> own, tail |-> last]]
    <2>1. tx' = [tx EXCEPT ![t] = [[tx[t] EXCEPT !.at = "create"] EXCEPT !.tail = last]]
      BY Zenon, <1>1, <1>2 DEF AuditInv
    <2>2. [tx[t] EXCEPT !.at = "create"] = [at |-> "create", own |-> own, tail |-> tail]
      BY <1>3
    <2>3. [[at |-> "create", own |-> own, tail |-> tail] EXCEPT !.tail = last]
             = [at |-> "create", own |-> own, tail |-> last]
      OBVIOUS
    <2> QED BY Zenon, <2>1, <2>2, <2>3
  <1>5. lock = t
    BY Zenon, <1>1 DEF AuditInv, Alone
  <1>6. ASSUME NEW n \in Nat, Continues(t, n) PROVE Fits("create", own, last, n)
    <2>1. PICK m \in Nat : Chain(entries \cup own, m) /\ \A e \in own : e.seq > n
      BY Zenon, <1>2, <1>6 DEF Continues, Fits
    <2>2. last \in entries \cup own \cup {Log!NoEntry} /\ last.seq = m
      BY Zenon, <2>1, <1>2, ChainLast
    <2> QED BY Zenon, <2>1, <2>2 DEF Fits
  <1> QED BY Zenon, <1>1, <1>4, <1>5, <1>6, OneStep

\* Sealing a row over the tail keeps it.
LEMMA Creates ==
    ASSUME SetFacts, AuditAssumption, AuditInv, NEW t \in Transaction, Log!create(t)
    PROVE  AuditInv'
  <1>0. PICK n \in Nat : Chain(entries, n) /\ Continues(t, n)
    BY Zenon DEF AuditInv
  <1>1. tx[t].at = "create"
    BY Zenon DEF Log!create
  <1>2. PICK e : e = Log!sealAuditEntry(t, tx[t].tail.seq + 1, tx[t].tail.hash)
    BY Zenon
  <1>3. PICK m \in Nat : /\ Chain(entries \cup tx[t].own, m)
                         /\ tx[t].tail \in entries \cup tx[t].own \cup {Log!NoEntry}
                         /\ tx[t].tail.seq = m
    BY Zenon, <1>0, <1>1 DEF Continues, Fits
  <1>4. e.seq = m + 1 /\ e = Log!sealAuditEntry(t, m + 1, tx[t].tail.hash)
    BY Zenon, <1>2, <1>3 DEF Log!sealAuditEntry
  <1>5. ~ \E f \in entries : f.seq = e.seq
    BY <1>3, <1>4 DEF Chain
  <1>6. /\ tx' = [tx EXCEPT ![t] = [at |-> "work", own |-> tx[t].own \cup {e}, tail |-> Log!NoEntry]]
        /\ UNCHANGED <<entries, lock, collided, verifier>>
    BY Zenon, <1>2, <1>5 DEF Log!create
  <1>7. lock = t
    BY Zenon, <1>1 DEF AuditInv, Alone
  <1>9. PICK own : own = tx[t].own \cup {e}
    BY Zenon
  <1>8. ASSUME NEW k \in Nat, Chain(entries, k), Continues(t, k)
        PROVE  Fits("work", own, Log!NoEntry, k)
    <2>1. Chain(entries \cup tx[t].own \cup {e}, m + 1)
      BY Zenon, <1>3, <1>4, ChainGrows
    <2>2. entries \cup tx[t].own \cup {e} = entries \cup (tx[t].own \cup {e})
      BY Zenon
    <2>3. m >= k
      <3>1. CASE k = 0
        BY <3>1
      <3>2. CASE k > 0
        <4>1. PICK f \in entries : f.seq = k
          BY <1>8, <3>2 DEF Chain
        <4> QED BY <4>1, <1>3 DEF Chain
      <3> QED BY <3>1, <3>2
    <2>4. \A f \in tx[t].own : f.seq > k
      BY Zenon, <1>8 DEF Continues, Fits
    <2>5. e.seq > k
      BY <2>3, <1>4
    <2>6. m + 1 \in Nat
      OBVIOUS
    <2> QED BY Zenon, <2>1, <2>2, <2>4, <2>5, <2>6, <1>9 DEF Fits
  <1> QED BY Zenon, <1>6, <1>7, <1>8, <1>9, OneStep

\* Committing keeps it: the rows of the lock's holder join the chain.
LEMMA Commits ==
    ASSUME SetFacts, AuditAssumption, AuditInv, NEW t \in Transaction, Log!commit(t)
    PROVE  AuditInv'
  <1>1. /\ tx[t].own # {} /\ entries' = entries \cup tx[t].own /\ UNCHANGED <<collided, verifier>>
        /\ tx' = [tx EXCEPT ![t] = [at |-> "ended", own |-> {}, tail |-> Log!NoEntry]]
    BY Zenon DEF Log!commit, Log!Ends
  <1>2. lock = t
    BY Zenon, <1>1 DEF AuditInv, Alone
  <1>3. DOMAIN tx' = Transaction /\ \A u \in Transaction : u # t => tx'[u] = tx[u]
    BY Zenon, <1>1 DEF AuditInv
  <1>4. tx'[t] = [at |-> "ended", own |-> {}, tail |-> Log!NoEntry]
    BY Zenon, <1>1 DEF AuditInv
  <1>5. tx'[t].at = "ended" /\ tx'[t].own = {} /\ tx'[t].tail = Log!NoEntry
    BY <1>4
  <1>6. \A u \in Transaction : tx'[u] = [at |-> tx'[u].at, own |-> tx'[u].own, tail |-> tx'[u].tail]
    BY Zenon, <1>3, <1>4, <1>5 DEF AuditInv
  <1>7. \A u \in Transaction : tx'[u].at \notin {"locked", "create"} /\ tx'[u].own = {}
    <2> SUFFICES ASSUME NEW u \in Transaction
                 PROVE  tx'[u].at \notin {"locked", "create"} /\ tx'[u].own = {}
      BY Zenon
    <2>1. CASE u = t
      BY Zenon, <2>1, <1>5
    <2>2. CASE u # t
      BY Zenon, <2>2, <1>3, <1>2 DEF AuditInv, Alone
    <2> QED BY Zenon, <2>1, <2>2
  <1>8. \A u \in Transaction : Alone(u)'
    BY Zenon, <1>7 DEF Alone
  <1>9. PICK m \in Nat : Chain(entries', m)
    BY Zenon, <1>1 DEF AuditInv, Continues, Fits
  <1>10. \A u \in Transaction : entries' \cup tx'[u].own = entries'
    BY Zenon, <1>7
  <1>11. \A u \in Transaction : Continues(u, m)'
    BY Zenon, <1>7, <1>9, <1>10 DEF Continues, Fits
  <1>12. Chain(entries, m)'
    BY Zenon, <1>9
  <1>13. verifier.previous' \in entries' \cup {Log!NoEntry} /\ ~collided'
        /\ verifier'.verdict # "breach"
    BY Zenon, <1>1 DEF AuditInv
  <1> QED BY Zenon, <1>3, <1>6, <1>8, <1>11, <1>12, <1>13 DEF AuditInv

\* The verifier, page by page, finds no breach in a chain.
LEMMA Verifies ==
    ASSUME SetFacts, AuditAssumption, AuditInv, Log!startVerify \/ Log!verifyPage
    PROVE  AuditInv'
  <1>0. PICK n \in Nat : Chain(entries, n)
    BY Zenon DEF AuditInv
  <1>1. UNCHANGED <<entries, lock, tx, collided>>
    BY Zenon DEF Log!startVerify, Log!verifyPage
  <1>2. SUFFICES verifier'.previous \in entries \cup {Log!NoEntry} /\ verifier'.verdict # "breach"
    <2>1. \A t \in Transaction : Alone(t)' = Alone(t)
      BY Zenon, <1>1 DEF Alone
    <2>2. \A t \in Transaction, k \in Nat : Continues(t, k)' = Continues(t, k)
      BY Zenon, <1>1 DEF Continues, Fits
    <2> QED BY Zenon, <1>1, <2>1, <2>2 DEF AuditInv
  <1>3. CASE Log!startVerify
    <2>1. verifier' = [previous |-> Log!NoEntry, verdict |-> "walking"]
      BY Zenon, <1>3 DEF Log!startVerify
    <2> QED BY Zenon, <2>1
  <1>4. CASE Log!verifyPage
    <2> DEFINE after == {e \in entries : e.seq > verifier.previous.seq}
               page == {e \in after : Log!Cardinality({f \in after : f.seq < e.seq}) < PageSize}
               before(e) == Log!Last({f \in page \cup {verifier.previous} : f.seq < e.seq})
    <2>1. verifier' =
              [previous |-> IF page = {} THEN verifier.previous ELSE Log!Last(page),
               verdict |-> IF \E e \in page : ~Log!inspect(e, before(e)) THEN "breach"
                           ELSE IF Log!Cardinality(page) < PageSize THEN "intact" ELSE "walking"]
      BY Zenon, <1>4 DEF Log!verifyPage
    <2>2. page \subseteq entries /\ page \cup {verifier.previous} \in SUBSET (entries \cup {Log!NoEntry})
      BY Zenon DEF AuditInv
    <2>3. page # {} => Log!Last(page) \in entries
      BY Zenon, <2>2, <1>0, LastOf
    <2>4. ASSUME NEW e \in page PROVE Log!inspect(e, before(e))
      <3>1. e \in entries /\ e.seq > verifier.previous.seq
        BY Zenon, <2>4
      <3>2. verifier.previous.seq \in Nat /\ e.seq \in 1 .. n
        BY <1>0, <3>1, NoRow DEF AuditInv, Chain
      <3>3. SUFFICES \E p \in page \cup {verifier.previous} : e.seq = p.seq + 1
        <4>1. PICK Q : Q = page \cup {verifier.previous}
          BY Zenon
        <4>2. before(e) = Log!Last({f \in Q : f.seq < e.seq})
          BY Zenon, <4>1
        <4> HIDE DEF page, before
        <4>3. PICK p \in Q : e.seq = p.seq + 1
          BY Zenon, <3>3, <4>1
        <4>4. Q \in SUBSET (entries \cup {Log!NoEntry})
          BY Zenon, <2>2, <4>1
        <4>5. Log!inspect(e, Log!Last({f \in Q : f.seq < e.seq}))
          BY Zenon, <1>0, <3>1, <4>3, <4>4, Inspects
        <4> QED BY Zenon, <4>2, <4>5
      <3>4. CASE e.seq = verifier.previous.seq + 1
        BY Zenon, <3>4
      <3>5. CASE e.seq # verifier.previous.seq + 1
        <4>1. e.seq - 1 \in 1 .. n /\ e.seq - 1 > verifier.previous.seq
          BY <3>1, <3>2, <3>5
        <4>2. PICK f \in entries : f.seq = e.seq - 1
          BY Zenon, <4>1, <1>0 DEF Chain
        <4>3. f \in after
          BY Zenon, <4>1, <4>2
        <4>4. \A g \in after : g.seq \in Nat
          BY <1>0 DEF Chain
        <4>5. {g \in after : g.seq < f.seq} \in SUBSET {g \in after : g.seq < e.seq}
          BY <4>2, <4>4, <3>2
        <4>6. IsFiniteSet(entries) /\ {g \in after : g.seq < e.seq} \in SUBSET entries
          BY Zenon, <1>0, ChainCounted
        <4>7. IsFiniteSet({g \in after : g.seq < e.seq})
          BY Zenon, <4>6 DEF SetFacts
        <4>8. IsFiniteSet({g \in after : g.seq < f.seq})
              /\ Cardinality({g \in after : g.seq < f.seq}) <= Cardinality({g \in after : g.seq < e.seq})
          BY Zenon, <4>5, <4>7 DEF SetFacts
        <4>9. Cardinality({g \in after : g.seq < e.seq}) < PageSize
          BY Zenon, <2>4, Counts
        <4>10. Cardinality({g \in after : g.seq < f.seq}) \in Nat
               /\ Cardinality({g \in after : g.seq < e.seq}) \in Nat
          BY Zenon, <4>5, <4>7 DEF SetFacts
        <4>11. Cardinality({g \in after : g.seq < f.seq}) < PageSize
          BY <4>8, <4>9, <4>10 DEF AuditAssumption
        <4>12. f \in page
          BY Zenon, <4>3, <4>11, Counts
        <4>13. e.seq = f.seq + 1
          BY <4>2, <3>2
        <4> QED BY Zenon, <4>12, <4>13
      <3> QED BY Zenon, <3>4, <3>5
    <2> HIDE DEF page, before
    <2>5. verifier'.previous \in entries \cup {Log!NoEntry}
      BY Zenon, <2>1, <2>3 DEF AuditInv
    <2>6. verifier'.verdict \in {"intact", "walking"}
      BY Zenon, <2>1, <2>4
    <2> QED BY Zenon, <2>5, <2>6
  <1> QED BY Zenon, <1>3, <1>4

\* Every step of the log keeps the invariant.
LEMMA AuditStep ==
    ASSUME SetFacts, AuditAssumption, AuditInv, [Log!Next]_(Log!vars)
    PROVE  AuditInv'
  <1>1. CASE UNCHANGED Log!vars
    <2>1. UNCHANGED <<entries, lock, tx, collided, verifier>>
      BY Zenon, <1>1 DEF Log!vars
    <2> QED BY Zenon, <2>1 DEF AuditInv, Alone, Continues, Fits
  <1>2. ASSUME NEW t \in Transaction, Log!rollback(t) PROVE AuditInv'
    BY Zenon, <1>2, Ended DEF Log!rollback
  <1> QED BY Zenon, <1>1, <1>2, Locks, ReadsTail, Creates, Commits, Verifies DEF Log!Next

\* The invariant says that the log is one chain, numbered without a gap.
LEMMA AuditSafe == ASSUME SetFacts, AuditInv PROVE Log!LinearChain
  <1> SUFFICES ASSUME AuditInv PROVE Log!LinearChain
    BY Zenon
  <1>1. PICK n \in Nat : Chain(entries, n)
    BY Zenon DEF AuditInv
  <1>2. {e.seq : e \in entries} = 1 .. Log!Cardinality(entries)
    BY Zenon, <1>1, ChainCounted, Counts
  <1>3. ASSUME NEW e \in entries
        PROVE  Log!inspect(e, Log!Last({f \in entries \cup {Log!NoEntry} : f.seq < e.seq}))
    <2>1. e.seq \in 1 .. n
      BY Zenon, <1>1 DEF Chain
    <2>2. PICK p \in entries \cup {Log!NoEntry} : e.seq = p.seq + 1
      <3>1. CASE e.seq = 1
        BY <3>1, NoRow
      <3>2. CASE e.seq # 1
        <4>1. e.seq - 1 \in 1 .. n
          BY <2>1, <3>2
        <4>2. PICK p \in entries : p.seq = e.seq - 1
          BY Zenon, <1>1, <4>1 DEF Chain
        <4>3. e.seq = p.seq + 1
          BY <4>2, <2>1
        <4> QED BY Zenon, <4>3
      <3> QED BY Zenon, <3>1, <3>2
    <2>3. entries \cup {Log!NoEntry} \in SUBSET (entries \cup {Log!NoEntry})
      BY Zenon
    <2> QED BY Zenon, <1>1, <2>2, <2>3, Inspects
  <1> QED BY Zenon, <1>2, <1>3 DEF Log!LinearChain, AuditInv
=============================================================================
