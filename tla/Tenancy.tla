------------------------------- MODULE Tenancy -------------------------------
(***************************************************************************)
(* Multi-tenancy (src/src/tenancy): how a request's tenant is resolved,    *)
(* carried in the async context, written into each database transaction,   *)
(* and enforced by the row-level policies; and what reaches the policies   *)
(* without a tenant: the relay's transactions and the saga recovery poller.*)
(* A request places one order and runs its checkout; a crash leaves the    *)
(* checkout to SagaRecoveryService.  Connections are pooled and shared.    *)
(***************************************************************************)
EXTENDS Naturals, FiniteSets

CONSTANTS
    Tenant,                     \* ids that match TENANT_ID_PATTERN
    TENANCY_DEFAULT_TENANT_ID,
    Request,                    \* requests, each placing one order
    Connection,                 \* the connection pool
    Relay,                      \* background work that opens transactions
    Environments,               \* the tenancy settings explored
    Roles,                      \* what the database may answer inspect() with
    maxAttempts,                \* attempts a saga step gets
    MaxCrashes                  \* bound: process crashes

None == "none"

VARIABLES
    env,        \* production, trustHeader and baseDomain (whether it is set)
    role,       \* what inspect() finds of the connected role and the tables
    serving,    \* the process answers requests
    request,    \* per request: phase, the tenant in scope, the token's tid
    pool,       \* per connection: the unit of work on it and its setting
    order,      \* per request, the order row: tenant and status
    saga,       \* per request, the checkout: its status and attempts
    crashes

vars == <<env, role, serving, request, pool, order, saga, crashes>>

Statuses == {"PENDING", "PROCESSING", "CONFIRMED"}
Placed(r) == order[r].status \in Statuses

Idle == [who |-> None, tenant |-> None, does |-> None, at |-> "idle",
         setting |-> None, result |-> {}]

Init ==
    /\ env \in Environments
    /\ role \in Roles
    /\ serving = FALSE
    /\ request = [r \in Request |-> [phase |-> "new", scope |-> None, tid |-> None]]
    /\ pool = [c \in Connection |-> Idle]
    /\ order = [r \in Request |-> [tenant |-> None, status |-> "absent"]]
    /\ saga = [r \in Request |-> [status |-> "absent", attempts |-> 0]]
    /\ crashes = 0

PoliciesInForce == ~role.bypassesPolicies /\ ~role.unprotected

\* In production a role or table the policies do not cover, or a database that
\* cannot say, is a failed boot; elsewhere it is a warning.
onApplicationBootstrap ==
    /\ ~serving
    /\ env.production => role.answers /\ PoliciesInForce
    /\ serving' = TRUE
    /\ UNCHANGED <<env, role, request, pool, order, saga, crashes>>

-----------------------------------------------------------------------------
\* A host names a tenant only under the base domain and with a valid label.
tenantFromHost(host) == IF env.baseDomain /\ host \in Tenant THEN host ELSE None

\* Repeated and malformed headers are refused; a blank one names nobody.
tenantFromHeader(header) ==
    CASE ~env.trustHeader \/ header = "absent" -> None
      [] env.trustHeader /\ header \in {"repeated", "malformed"} -> "refused"
      [] env.trustHeader /\ header \in Tenant -> header

\* The tenant, or "refused" when the header is unusable or disagrees.
resolveTenant(host, header) ==
    LET fromHost == tenantFromHost(host)
        fromHeader == tenantFromHeader(header)
    IN  IF \/ fromHeader = "refused"
           \/ fromHost # None /\ fromHeader # None /\ fromHost # fromHeader
        THEN "refused"
        ELSE IF fromHost # None THEN fromHost
        ELSE IF fromHeader # None THEN fromHeader
        ELSE TENANCY_DEFAULT_TENANT_ID

\* A failed resolution leaves no tenant in scope and is kept for the guard.
tenantContextMiddleware(r, host, header, tid) ==
    LET resolved == resolveTenant(host, header)
    IN  /\ serving
        /\ request[r].phase = "new"
        /\ request' = [request EXCEPT ![r] =
                        IF resolved = "refused"
                        THEN [phase |-> "unresolved", scope |-> None, tid |-> tid]
                        ELSE [phase |-> "resolved", scope |-> resolved, tid |-> tid]]
        /\ UNCHANGED <<env, role, serving, pool, order, saga, crashes>>

canActivateAnyToken(r) ==
    /\ serving
    /\ request[r].phase \in {"resolved", "unresolved"}
    /\ request' = [request EXCEPT ![r].phase =
                    IF @ = "unresolved" THEN "refused" ELSE "handler"]
    /\ UNCHANGED <<env, role, serving, pool, order, saga, crashes>>

\* TenantGuard: a recorded failure is thrown; a token of another tenant is refused.
canActivate(r) ==
    /\ serving
    /\ request[r].phase \in {"resolved", "unresolved"}
    /\ request' = [request EXCEPT ![r].phase =
                    IF @ = "unresolved" \/ request[r].tid \notin {None, request[r].scope}
                    THEN "refused" ELSE "handler"]
    /\ UNCHANGED <<env, role, serving, pool, order, saga, crashes>>

-----------------------------------------------------------------------------
\* PrismaTransactionRunner.run and the extension's batch both begin a transaction
\* on some free connection with the tenant read from the caller's context.
Begin(c, who, tenant, does) ==
    /\ pool[c] = [Idle EXCEPT !.setting = pool[c].setting]
    /\ pool' = [pool EXCEPT ![c] = [who |-> who, tenant |-> tenant, does |-> does, at |-> "open",
                                    setting |-> pool[c].setting, result |-> {}]]

Busy(who) == \E c \in Connection : pool[c].who = who

\* The request's next unit of work, in order: create, accept, confirm, answer.
NextUnit(r) ==
    CASE order[r].status = "absent" -> "create"
      [] order[r].status = "PENDING" -> "accept"
      [] order[r].status = "PROCESSING" -> "confirm"
      [] OTHER -> "find"

run(r, c) ==
    /\ serving /\ request[r].phase = "handler" /\ ~Busy(r)
    /\ Begin(c, r, request[r].scope, NextUnit(r))
    /\ UNCHANGED <<env, role, serving, request, order, saga, crashes>>

\* The outbox relay's transaction: no tenant in scope, and that is allowed.
relay(b, c) ==
    /\ serving /\ ~Busy(b)
    /\ Begin(c, b, None, "publish")
    /\ UNCHANGED <<env, role, serving, request, order, saga, crashes>>

setTransactionTenant(c) ==
    /\ pool[c].at = "open"
    /\ pool' = [pool EXCEPT ![c].at = "set",
                            ![c].setting = IF pool[c].tenant = None THEN @ ELSE pool[c].tenant]
    /\ UNCHANGED <<env, role, serving, request, order, saga, crashes>>

\* The rows the policies let this transaction see.
Visible(c) ==
    {r \in Request : Placed(r) /\ (~PoliciesInForce \/ order[r].tenant = pool[c].setting)}

\* The batch's statement, under the setting that precedes it.
query(c) ==
    /\ pool[c].at = "set"
    /\ pool' = [pool EXCEPT ![c].at = "queried", ![c].result = Visible(c)]
    /\ UNCHANGED <<env, role, serving, request, order, saga, crashes>>

\* What a unit writes: an insert takes its tenant from require_tenant_id(),
\* an update only finds a row the policies show it.
Written(c) ==
    LET r == pool[c].who
    IN  CASE pool[c].does = "create" ->
               /\ order' = [order EXCEPT ![r] = [tenant |-> pool[c].setting, status |-> "PENDING"]]
               /\ saga' = [saga EXCEPT ![r].status = "RUNNING"]
               /\ UNCHANGED request
          [] pool[c].does = "accept" /\ r \in pool[c].result ->
               /\ order' = [order EXCEPT ![r].status = "PROCESSING"]
               /\ UNCHANGED <<saga, request>>
          [] pool[c].does = "confirm" /\ r \in pool[c].result ->
               /\ order' = [order EXCEPT ![r].status = "CONFIRMED"]
               /\ saga' = [saga EXCEPT ![r].status = "COMPLETED"]
               /\ UNCHANGED request
          [] pool[c].does = "find" ->
               request' = [request EXCEPT ![r].phase = "answered"] /\ UNCHANGED <<order, saga>>
          [] OTHER -> UNCHANGED <<order, saga, request>>

commitKeepsSetting(c) ==
    /\ pool[c].at = "queried"
    /\ Written(c)
    /\ pool' = [pool EXCEPT ![c] = [Idle EXCEPT !.setting = pool[c].setting]]
    /\ UNCHANGED <<env, role, serving, crashes>>

\* The transaction ends, and the transaction-local setting with it.
commit(c) ==
    /\ pool[c].at = "queried"
    /\ Written(c)
    /\ pool' = [pool EXCEPT ![c] = Idle]
    /\ UNCHANGED <<env, role, serving, crashes>>

\* The process dies: open transactions roll back and every request is lost.
crash ==
    /\ serving /\ crashes < MaxCrashes
    /\ crashes' = crashes + 1
    /\ serving' = FALSE
    /\ pool' = [c \in Connection |-> Idle]
    /\ request' = [r \in Request |->
                    IF request[r].phase = "new" THEN request[r]
                    ELSE [request[r] EXCEPT !.phase = "lost"]]
    /\ UNCHANGED <<env, role, order, saga>>

\* SagaRecoveryService.runOnce advances a due checkout.  Its next step starts with
\* orders.find, whose client calls requireTenantId: the timer has no tenant.
advanceOne(r) ==
    /\ serving
    /\ saga[r].status = "RUNNING"
    /\ request[r].phase = "lost"
    /\ saga' = [saga EXCEPT ![r].attempts = @ + 1,
                            ![r].status = IF saga[r].attempts + 1 < maxAttempts
                                          THEN @ ELSE "STUCK"]
    /\ UNCHANGED <<env, role, serving, request, pool, order, crashes>>

Next ==
    \/ onApplicationBootstrap
    \/ \E r \in Request :
        \/ \E host \in Tenant \cup {"elsewhere"}, tid \in Tenant \cup {None},
              header \in Tenant \cup {"absent", "repeated", "malformed"} :
                tenantContextMiddleware(r, host, header, tid)
        \/ canActivate(r)
        \/ advanceOne(r)
    \/ \E c \in Connection :
        \/ \E r \in Request : run(r, c)
        \/ \E b \in Relay : relay(b, c)
        \/ setTransactionTenant(c) \/ query(c) \/ commit(c)
    \/ crash

Spec == Init /\ [][Next]_vars

\* The process restarts, a request's work proceeds and the poller keeps polling.
FairSpec ==
    /\ Spec
    /\ WF_vars(onApplicationBootstrap)
    /\ \A r \in Request : WF_vars(canActivate(r)) /\ WF_vars(advanceOne(r))
    /\ \A r \in Request : SF_vars(\E c \in Connection : run(r, c))
    /\ \A c \in Connection :
        WF_vars(setTransactionTenant(c)) /\ WF_vars(query(c)) /\ WF_vars(commit(c))

-----------------------------------------------------------------------------
(* A production process never shows a unit of work another tenant's rows,  *)
(* whoever used its connection before: what a transaction sees belongs to  *)
(* the tenant in its caller's scope, a transaction opened without one sees *)
(* nothing, and an order is stored under the tenant of the token that      *)
(* placed it (tenantSetting's transaction-local set_config, TenantGuard,   *)
(* RlsEnforcementService).                                                 *)
TenantsApart ==
    env.production =>
        /\ \A c \in Connection : \A r \in pool[c].result :
              order[r].tenant = pool[c].tenant
        /\ \A r \in Request :
              Placed(r) => /\ order[r].tenant = request[r].scope
                           /\ request[r].tid \in {None, order[r].tenant}

(* An order a crash interrupted is still settled by the recovery poller    *)
(* (SagaRecoveryService: "the half of the saga machinery that makes it     *)
(* durable rather than merely persistent").                                *)
InterruptedSettles ==
    \A r \in Request :
        (Placed(r) /\ request[r].phase = "lost") ~> (order[r].status = "CONFIRMED")

-----------------------------------------------------------------------------
(* A small instance.                                                         *)

\* A deployment that resolves tenants and whose database role is sound.
Resolving == {[production |-> TRUE, trustHeader |-> TRUE, baseDomain |-> TRUE]}

Sound == {[answers |-> TRUE, bypassesPolicies |-> FALSE, unprotected |-> FALSE]}
=============================================================================
