------------------------------ MODULE TokenStore -----------------------------
(***************************************************************************)
(* What the refresh-token store promises (RefreshTokenStore and the        *)
(* in-memory implementation of it): every claim is decided at one instant, *)
(* from the state the token and its family have then.  A claim answered    *)
(* "claimed" owes the family one successor, which the caller issues        *)
(* afterwards or never.                                                    *)
(***************************************************************************)
EXTENDS Naturals

CONSTANTS Token, Family, NoFamily, Caller

VARIABLES token,      \* per token: "unminted", "live", "spent" or "deleted"
          familyOf,
          expired,    \* the tokens whose expiresAt has passed
          family,     \* per family: "none", "live", its revokedReason, "deleted"
          matched,    \* families a prune has found to be all expired
          owed,       \* per caller, the family its claim owes a successor to
          detections  \* per family, replays reported

vars == <<token, familyOf, expired, family, matched, owed, detections>>

TokensOf(f) == {t \in Token : familyOf[t] = f}

Init ==
    /\ token = [t \in Token |-> "unminted"]
    /\ familyOf = [t \in Token |-> NoFamily]
    /\ expired = {} /\ matched = {}
    /\ family = [f \in Family |-> "none"]
    /\ owed = [c \in Caller |-> NoFamily]
    /\ detections = [f \in Family |-> 0]

Stored(t, f) ==
    /\ token[t] = "unminted"
    /\ token' = [token EXCEPT ![t] = "live"]
    /\ familyOf' = [familyOf EXCEPT ![t] = f]

\* issue() without a family: it starts one.
issueFirst(t, f) ==
    /\ family[f] = "none"
    /\ family' = [family EXCEPT ![f] = "live"]
    /\ Stored(t, f)
    /\ UNCHANGED <<expired, matched, owed, detections>>

\* issue() into the family of a claimed token, revoked since or not.
issueNext(c, t) ==
    /\ owed[c] # NoFamily /\ family[owed[c]] # "deleted"
    /\ owed' = [owed EXCEPT ![c] = NoFamily]
    /\ Stored(t, owed[c])
    /\ UNCHANGED <<expired, family, matched, detections>>

\* The caller of a successful claim issues nothing: it died, or was refused.
forgo(c) ==
    /\ owed[c] # NoFamily
    /\ owed' = [owed EXCEPT ![c] = NoFamily]
    /\ UNCHANGED <<token, familyOf, expired, family, matched, detections>>

revokeFamily(f) ==
    /\ family' = [family EXCEPT ![f] = "REUSE_DETECTED"]
    /\ detections' = [detections EXCEPT ![f] = @ + 1]

\* consume(), as claim() decides it: a spent token of a live family revokes it,
\* an unspent one is spent, and every other claim changes nothing.
claim(c, t) ==
    /\ owed[c] = NoFamily
    /\ token[t] \in {"live", "spent"} /\ family[familyOf[t]] = "live"
    /\ IF token[t] = "spent"
       THEN revokeFamily(familyOf[t]) /\ UNCHANGED <<token, owed>>
       ELSE /\ token' = [token EXCEPT ![t] = "spent"]
            /\ owed' = [owed EXCEPT ![c] = IF t \in expired THEN NoFamily ELSE familyOf[t]]
            /\ UNCHANGED <<family, detections>>
    /\ UNCHANGED <<familyOf, expired, matched>>

\* revoke(): the first reason stays.
revoke(t) ==
    /\ token[t] \in {"live", "spent"} /\ family[familyOf[t]] = "live"
    /\ family' = [family EXCEPT ![familyOf[t]] = "LOGOUT"]
    /\ UNCHANGED <<token, familyOf, expired, matched, owed, detections>>

expire(t) ==
    /\ token[t] \in {"live", "spent"} /\ t \notin expired
    /\ expired' = expired \cup {t}
    /\ UNCHANGED <<token, familyOf, family, matched, owed, detections>>

\* prune(): the families to go are found, and go.  Nothing comes in between in
\* memory; in a database statement a successor may, and goes with its family.
match(f) ==
    /\ family[f] \notin {"none", "deleted"} /\ TokensOf(f) \subseteq expired
    /\ matched' = matched \cup {f}
    /\ UNCHANGED <<token, familyOf, expired, family, owed, detections>>

prune(f) ==
    /\ f \in matched
    /\ matched' = matched \ {f}
    /\ family' = [family EXCEPT ![f] = "deleted"]
    /\ token' = [t \in Token |-> IF t \in TokensOf(f) THEN "deleted" ELSE token[t]]
    /\ UNCHANGED <<familyOf, expired, owed, detections>>

Next ==
    \/ \E t \in Token, f \in Family : issueFirst(t, f)
    \/ \E c \in Caller, t \in Token : claim(c, t) \/ issueNext(c, t)
    \/ \E c \in Caller : forgo(c)
    \/ \E t \in Token : revoke(t) \/ expire(t)
    \/ \E f \in Family : match(f) \/ prune(f)

Spec == Init /\ [][Next]_vars
=============================================================================
