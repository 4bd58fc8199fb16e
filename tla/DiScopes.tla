------------------------------ MODULE DiScopes -------------------------------
(***************************************************************************)
(* Provider scopes: which components the container rebuilds per request    *)
(* and which dependency is to blame (ScopeAudit), and how a singleton      *)
(* reaches the request-scoped context of the request or job it is working  *)
(* for (RequestContextResolver) while others are being served.             *)
(***************************************************************************)
EXTENDS Naturals, Sequences, FiniteSets, SequencesExt

CONSTANTS Request,   \* requests: carriers the router has attached a context to
          Job,       \* carriers without a router: a queue consumer, a cron tick
          Graphs,    \* container graphs: scope and ordered dependencies of each component
          Calls,     \* bound: resolutions per carrier
          AUDIT_BUFFER_LIMIT, RECENT_INSTANCE_IDS

VARIABLES graph,     \* the container of this boot
          report,    \* what ScopeAudit logged: component -> causedBy
          attached,  \* context ids the router put on requests, 0 before
          contexts,  \* the resolver's WeakMap: carrier -> context id, 0 if absent
          lastId,    \* the last context id minted
          instances, \* context id -> instance of RequestContextService
          recent,    \* InstantiationLedger: constructions and the latest ids
          pending,   \* resolutions awaiting moduleRef.resolve: carrier -> context id
          answers,   \* carrier -> instances handed back so far
          trail      \* SingletonAuditTrail: entries kept, and how many dropped

vars == <<graph, report, attached, contexts, lastId, instances, recent, pending, answers, trail>>
Carrier == Request \cup Job

-----------------------------------------------------------------------------
(* The scope audit *)

dependenciesOf(g, c) == ToSet(g.deps[c])

\* Nest's own rule: static unless request-scoped or above something that is.
RECURSIVE Above(_, _)
Above(g, set) ==
    LET more == set \cup {c \in DOMAIN g.scope : dependenciesOf(g, c) \cap set # {}}
    IN  IF more = set THEN set ELSE Above(g, more)
NonStatic(g) == Above(g, {c \in DOMAIN g.scope : g.scope[c] = "REQUEST"})

RECURSIVE enqueue(_, _, _, _, _)
enqueue(g, path, deps, visited, queue) ==
    IF deps = <<>> THEN [queue |-> queue, visited |-> visited]
    ELSE IF Head(deps) \in visited \/ Head(deps) \notin NonStatic(g)
    THEN enqueue(g, path, Tail(deps), visited, queue)
    ELSE enqueue(g, path, Tail(deps), visited \cup {Head(deps)},
                 Append(queue, Append(path, Head(deps))))

\* The search with a stack in place of the queue.
RECURSIVE traceDeep(_, _, _)
traceDeep(g, queue, visited) ==
    IF queue = <<>> THEN <<>>
    ELSE LET path == Last(queue)
             next == enqueue(g, path, g.deps[Last(path)], visited, Front(queue)) IN
         IF Len(path) > 1 /\ g.scope[Last(path)] = "REQUEST" THEN path
         ELSE traceDeep(g, next.queue, next.visited)
traceDepthFirst(g, c) == traceDeep(g, <<<<c>>>>, {c})

RECURSIVE traceFrom(_, _, _)
traceFrom(g, queue, visited) ==
    IF queue = <<>> THEN <<>>
    ELSE LET path == Head(queue)
             next == enqueue(g, path, g.deps[Last(path)], visited, Tail(queue)) IN
         IF Len(path) > 1 /\ g.scope[Last(path)] = "REQUEST" THEN path
         ELSE traceFrom(g, next.queue, next.visited)

\* Breadth first, through what is not static, each component once.
traceToRequestScope(g, c) == traceFrom(g, <<<<c>>>>, {c})

\* Aliases and framework internals are not components here.
audit(g) == [c \in {x \in NonStatic(g) : g.scope[x] # "TRANSIENT"} |->
               IF g.scope[c] = "REQUEST" THEN <<>> ELSE traceToRequestScope(g, c)]

onApplicationBootstrap ==
    /\ DOMAIN report = {}
    /\ report' = audit(graph)
    /\ UNCHANGED <<graph, attached, contexts, lastId, instances, recent, pending, answers, trail>>

-----------------------------------------------------------------------------
(* Requests, jobs and the resolver *)

Booted == DOMAIN report # {}

\* InstantiationLedger.record: an exact count and a window of ids.
record(ids, id) == LET all == Append(ids, id) IN
                   IF Len(all) > RECENT_INSTANCE_IDS THEN Tail(all) ELSE all

\* One RequestContextService per context, built when first asked for.
Built(id) == IF id \in DOMAIN instances THEN instances
             ELSE [i \in DOMAIN instances \cup {id} |->
                     IF i = id THEN Cardinality(DOMAIN instances) + 1 ELSE instances[i]]
Recorded(id) == IF id \in DOMAIN instances THEN recent ELSE record(recent, Built(id)[id])

\* The router: a fresh context, and with it the controller's own dependencies.
route(r) ==
    /\ Booted /\ attached[r] = 0
    /\ lastId' = lastId + 1
    /\ attached' = [attached EXCEPT ![r] = lastId']
    /\ instances' = Built(lastId')
    /\ recent' = Recorded(lastId')
    /\ UNCHANGED <<graph, report, contexts, pending, answers, trail>>

\* getByRequest recognises only what the router attached, and mints otherwise.
getByRequest(c) == IF c \in Request THEN attached[c] ELSE lastId + 1

\* The context without the memo that keeps a job's context.
contextForEachCall(c) ==
    /\ contexts' = [contexts EXCEPT ![c] = getByRequest(c)]
    /\ lastId' = IF c \in Request THEN lastId ELSE lastId + 1

contextFor(c) ==
    IF contexts[c] # 0 THEN UNCHANGED <<contexts, lastId>>
    ELSE /\ contexts' = [contexts EXCEPT ![c] = getByRequest(c)]
         /\ lastId' = IF c \in Request THEN lastId ELSE lastId + 1

\* The singleton trail drops its oldest entry at the limit.
Trail(entry) == LET all == Append(trail.entries, entry) IN
                IF Len(all) > AUDIT_BUFFER_LIMIT
                THEN [entries |-> Tail(all), dropped |-> trail.dropped + 1]
                ELSE [trail EXCEPT !.entries = all]

\* Up to the await: for a request this is DiScopesController.report.
forRequest(c) ==
    /\ Booted /\ Len(answers[c]) < Calls /\ pending[c] = 0
    /\ c \in Request => attached[c] # 0
    /\ contextFor(c)
    /\ pending' = [pending EXCEPT ![c] = contexts'[c]]
    /\ trail' = IF c \in Request THEN Trail(c) ELSE trail
    /\ UNCHANGED <<graph, report, attached, instances, recent, answers>>

\* moduleRef.resolve settles.
resolve(c) ==
    /\ pending[c] # 0
    /\ instances' = Built(pending[c])
    /\ recent' = Recorded(pending[c])
    /\ answers' = [answers EXCEPT ![c] = Append(@, instances'[pending[c]])]
    /\ pending' = [pending EXCEPT ![c] = 0]
    /\ UNCHANGED <<graph, report, attached, contexts, lastId, trail>>

Init ==
    /\ graph \in Graphs /\ report = <<>>
    /\ attached = [r \in Request |-> 0] /\ contexts = [c \in Carrier |-> 0] /\ lastId = 0
    /\ instances = <<>> /\ recent = <<>>
    /\ pending = [c \in Carrier |-> 0] /\ answers = [c \in Carrier |-> <<>>]
    /\ trail = [entries |-> <<>>, dropped |-> 0]

Next == \/ onApplicationBootstrap
        \/ \E r \in Request : route(r)
        \/ \E c \in Carrier : forRequest(c) \/ resolve(c)

Spec == Init /\ [][Next]_vars

-----------------------------------------------------------------------------
\* However requests and jobs interleave, every resolution for one carrier is
\* the same instance, the one the router built where there is a router, and no
\* two carriers ever share one (RequestContextResolver.forRequest).
OneContextEach ==
    /\ \A c \in Carrier : \A i \in DOMAIN answers[c] :
         /\ answers[c][i] = answers[c][1]
         /\ c \in Request => answers[c][i] = instances[attached[c]]
    /\ \A c, d \in Carrier : c # d => ToSet(answers[c]) \cap ToSet(answers[d]) = {}

\* Paths of the container graph that end in a request-scoped provider.
RECURSIVE Reaches(_, _, _)
Reaches(g, c, n) == n > 0 /\ \E d \in dependenciesOf(g, c) :
                      g.scope[d] = "REQUEST" \/ Reaches(g, d, n - 1)

\* Every component that is rebuilt per request without asking is reported with
\* a chain of real dependencies to a provider that did ask, none shorter, and
\* nothing else is reported, cyclic graphs included (ScopeAudit.audit,
\* traceToRequestScope).
BlameIsNearest ==
    Booted =>
      /\ \A c \in DOMAIN graph.scope : graph.scope[c] = "DEFAULT" =>
           (c \in DOMAIN report <=> Reaches(graph, c, Cardinality(DOMAIN graph.scope)))
      /\ \A c \in DOMAIN report : graph.scope[c] # "REQUEST" =>
           LET chain == report[c] IN
           /\ Len(chain) > 1 /\ chain[1] = c /\ graph.scope[Last(chain)] = "REQUEST"
           /\ \A i \in 1..(Len(chain) - 1) : chain[i + 1] \in dependenciesOf(graph, chain[i])
           /\ ~Reaches(graph, c, Len(chain) - 2)
=============================================================================
