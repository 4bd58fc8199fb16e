------------------------------ MODULE Accounts -------------------------------
(***************************************************************************)
(* How an account comes to exist and how its owner signs in: registration, *)
(* password and Google sign-in of AuthService over the users module's      *)
(* queries and commands.  A registration reads, hashes a password and only *)
(* then opens the transaction that inserts the row, stages user.registered *)
(* and appends the audit entry; tokens are issued after the commit.  The   *)
(* address is unique across tenants while every read sees one tenant only. *)
(* What becomes of the tokens is RefreshTokens.tla.                        *)
(***************************************************************************)
EXTENDS Naturals, FiniteSets

CONSTANTS Caller, Call,  \* callers, and per caller [via, email, tenant, google]
          Email,
          MaxDeletes, MaxCrashes

VARIABLES row,      \* users, by address: tenant, password set, Google identity
          tx,       \* per caller, its open transaction's insert: staged or not
          pc, user, \* per caller, where it is, and the account it is about
          ledger,   \* per address: accounts created, events staged, audit entries
          session,  \* refresh-token rows, by the account each references
          deletes, crashes

vars == <<row, tx, pc, user, ledger, session, deletes, crashes>>

Absent == [exists |-> FALSE, tenant |-> "none", password |-> FALSE, google |-> "none"]
NoTx == [open |-> FALSE, staged |-> FALSE]
email(c) == Call[c].email
google(c) == Call[c].google
\* An account's id: its address and how many accounts the address had by then.
Id(e) == [email |-> e, nth |-> ledger[e].created]
Stands(id) == row[id.email].exists /\ Id(id.email) = id
Ended(c, answer) == pc' = [pc EXCEPT ![c] = answer]

-----------------------------------------------------------------------------
(* The reads, each through the tenant-scoped client *)

Visible(c, e) == IF row[e].tenant = Call[c].tenant THEN row[e] ELSE Absent
findByEmail(c) == Visible(c, email(c))
findByProviderAccount(c) == {e \in Email : Visible(c, e).google = google(c)}

\* register: a taken address is refused, and then the password is hashed.
register(c) ==
    /\ pc[c] = "idle" /\ Call[c].via = "register"
    /\ Ended(c, IF findByEmail(c).exists THEN "conflict" ELSE "insert")
    /\ UNCHANGED <<row, tx, user, ledger, session, deletes, crashes>>

\* login: no account and no password are one answer; verifying is slow.
login(c) ==
    /\ pc[c] = "idle" /\ Call[c].via = "login"
    /\ \E verified \in {findByEmail(c).password, FALSE} :
          Ended(c, IF verified THEN "issue" ELSE "unauthorized")
    /\ user' = [user EXCEPT ![c] = Id(email(c))]
    /\ UNCHANGED <<row, tx, ledger, session, deletes, crashes>>

\* loginWithGoogle: by identity first, and by address when that finds nothing.
loginWithGoogle(c) ==
    /\ pc[c] = "idle" /\ Call[c].via = "google"
    /\ \/ /\ findByProviderAccount(c) = {}
          /\ Ended(c, "byEmail") /\ UNCHANGED user
       \/ \E e \in findByProviderAccount(c) :
             Ended(c, "issue") /\ user' = [user EXCEPT ![c] = Id(e)]
    /\ UNCHANGED <<row, tx, ledger, session, deletes, crashes>>

byEmail(c) ==
    /\ pc[c] = "byEmail"
    /\ Ended(c, IF findByEmail(c).exists THEN "link" ELSE "insert")
    /\ user' = [user EXCEPT ![c] = Id(email(c))]
    /\ UNCHANGED <<row, tx, ledger, session, deletes, crashes>>

\* UpdateUserCommand, unconditional: 404 when the row has gone meanwhile.
link(c) ==
    /\ pc[c] = "link"
    /\ IF Stands(user[c])
       THEN row' = [row EXCEPT ![email(c)].google = google(c)] /\ Ended(c, "issue")
       ELSE Ended(c, "notFound") /\ UNCHANGED row
    /\ UNCHANGED <<tx, user, ledger, session, deletes, crashes>>

-----------------------------------------------------------------------------
(* The transaction: row, event and audit entry *)

\* The event staged once the transaction is over, on the way to the tokens.
createUnstaged(c) ==
    /\ pc[c] = "insert"
    /\ \A d \in Caller : tx[d].open => email(d) # email(c)
    /\ IF row[email(c)].exists
       THEN Ended(c, "failed") /\ UNCHANGED tx
       ELSE /\ tx' = [tx EXCEPT ![c] = [open |-> TRUE, staged |-> FALSE]]
            /\ Ended(c, IF google(c) # "none" THEN "commit" ELSE "stage")
    /\ UNCHANGED <<row, user, ledger, session, deletes, crashes>>

\* The insert waits for an uncommitted one of the same address, and fails on a
\* committed one: the unique index sees every tenant.
create(c) ==
    /\ pc[c] = "insert"
    /\ \A d \in Caller : tx[d].open => email(d) # email(c)
    /\ IF row[email(c)].exists
       THEN Ended(c, "failed") /\ UNCHANGED tx
       ELSE tx' = [tx EXCEPT ![c] = [open |-> TRUE, staged |-> FALSE]] /\ Ended(c, "stage")
    /\ UNCHANGED <<row, user, ledger, session, deletes, crashes>>

\* outbox.stage and audit.record, the append under a global advisory lock.
stageRegistered(c) ==
    /\ pc[c] = "stage"
    /\ \A d \in Caller : ~tx[d].staged
    /\ tx' = [tx EXCEPT ![c].staged = TRUE]
    /\ Ended(c, "commit")
    /\ UNCHANGED <<row, user, ledger, session, deletes, crashes>>

commit(c) ==
    /\ pc[c] = "commit"
    /\ row' = [row EXCEPT ![email(c)] =
                 [exists |-> TRUE, tenant |-> Call[c].tenant,
                  password |-> google(c) = "none", google |-> google(c)]]
    /\ LET said == IF tx[c].staged THEN 1 ELSE 0 IN
       ledger' = [ledger EXCEPT ![email(c)] = [created |-> @.created + 1,
                      events |-> @.events + said, audits |-> @.audits + said]]
    /\ user' = [user EXCEPT ![c] = [Id(email(c)) EXCEPT !.nth = @ + 1]]
    /\ tx' = [tx EXCEPT ![c] = NoTx]
    /\ Ended(c, "issue")
    /\ UNCHANGED <<session, deletes, crashes>>

\* issueTokens: the refresh-token row references the account it names.
issueTokens(c) ==
    /\ pc[c] = "issue"
    /\ IF Stands(user[c])
       THEN session' = session \cup {user[c]} /\ Ended(c, "signedIn")
       ELSE Ended(c, "failed") /\ UNCHANGED session
    /\ UNCHANGED <<row, tx, user, ledger, deletes, crashes>>

\* The process dies, or the database drops the connection: what is open is undone.
crash(c) ==
    /\ crashes < MaxCrashes /\ crashes' = crashes + 1
    /\ pc[c] \in {"insert", "stage", "commit", "issue", "link", "byEmail"}
    /\ tx' = [tx EXCEPT ![c] = NoTx]
    /\ Ended(c, "failed")
    /\ UNCHANGED <<row, user, ledger, session, deletes>>

\* DeleteUserCommand, whose cascade takes the account's tokens with it.
deleteUser(e) ==
    /\ row[e].exists /\ deletes < MaxDeletes /\ deletes' = deletes + 1
    /\ row' = [row EXCEPT ![e] = Absent]
    /\ session' = {id \in session : id.email # e}
    /\ UNCHANGED <<tx, pc, user, ledger, crashes>>

Init ==
    /\ row = [e \in Email |-> Absent]
    /\ tx = [c \in Caller |-> NoTx]
    /\ pc = [c \in Caller |-> "idle"]
    /\ ledger = [e \in Email |-> [created |-> 0, events |-> 0, audits |-> 0]]
    /\ user = [c \in Caller |-> Id(email(c))]
    /\ session = {} /\ deletes = 0 /\ crashes = 0

Next ==
    \/ \E c \in Caller : register(c) \/ login(c) \/ loginWithGoogle(c) \/ byEmail(c) \/ link(c)
    \/ \E c \in Caller : create(c) \/ stageRegistered(c) \/ commit(c) \/ issueTokens(c) \/ crash(c)
    \/ \E e \in Email : deleteUser(e)

Spec == Init /\ [][Next]_vars

-----------------------------------------------------------------------------
\* However registrations, Google sign-ins, deletions and crashes interleave,
\* every account was announced by exactly one user.registered and recorded by
\* exactly one audit entry, nothing is announced that does not exist, an address
\* has one account at a time, and no session outlives its account (register,
\* loginWithGoogle, stageRegistered, issueTokens).
AnnouncedOnce ==
    /\ \A e \in Email : ledger[e].events = ledger[e].created /\ ledger[e].audits = ledger[e].created
    /\ \A c, d \in Caller : tx[c].open /\ tx[d].open /\ c # d => email(c) # email(d)
    /\ \A c \in Caller : tx[c].open => ~row[email(c)].exists
    /\ \A id \in session : Stands(id)
=============================================================================
