------------------------------ MODULE Telemetry ------------------------------
(***************************************************************************)
(* The OpenTelemetry side of the service: the SDK each process installs    *)
(* before Nest exists, the trace context that follows a domain event from  *)
(* the request that staged it, through the outbox row and the broker, to   *)
(* the consumer's span, the Prometheus endpoint, and the order in which a  *)
(* process takes all of this down.                                         *)
(*                                                                         *)
(* A trace is named after the event whose request started it; "root" is a  *)
(* trace some span had to start for itself and "poll" the trace of the     *)
(* fetch that a broker client leaves active.                               *)
(***************************************************************************)
EXTENDS Naturals, FiniteSets

CONSTANTS Process,    \* processes of the deployment, all running the same binary
          Event,      \* domain events this service stages
          Foreign,    \* events another service's producer writes
          Deployments \* the telemetry options a process may be started with

VARIABLES options,    \* what telemetryOptionsFrom resolved, per process
          phase,      \* how far the process's life has got
          provider,   \* the SDK providers of the process
          installed,  \* the module-scope scrape source is set
          source,     \* what MetricsController was handed at construction
          answer,     \* the last answer of GET /metrics, and the phase it fell in
          row,        \* outbox rows: the trace context stored, and who staged it
          message,    \* broker messages: trace header, its spelling, who sent it
          span        \* consumer spans: the trace joined, and who consumed

vars == <<options, phase, provider, installed, source, answer, row, message, span>>

Provider == {"tracer", "meter", "logger"}
nobody == "nobody"
none == "none"

\* What a scrape, a row, a message and a span are before they exist.
NoAnswer == [status |-> 0, during |-> none]
Unwritten == [trace |-> none, by |-> nobody]
Unsent == [name |-> none, trace |-> none, by |-> nobody]

-----------------------------------------------------------------------------
(* Installing the SDK *)

pushing(o) == o.exporter # "none"

\* startTelemetry installs nothing at all when nothing is pushed or scraped.
Enabled(o) == pushing(o) \/ o.prometheusScrape

\* The tracer and meter providers are there whenever the SDK is, the logger
\* provider only when records have somewhere to be pushed.
startTelemetry(o) ==
    [x \in Provider |-> IF (x = "logger" /\ ~pushing(o)) \/ ~Enabled(o)
                        THEN "absent" ELSE "live"]

\* The propagator and the context manager are registered with the tracer
\* provider, and no code unregisters them.
Propagates(p) == phase[p] # "off" /\ Enabled(options[p])

\* register.ts, then NestFactory: MetricsModule's factory reads the source once.
bootstrap(p) ==
    /\ phase[p] = "off"
    /\ \E o \in Deployments :
         /\ options' = [options EXCEPT ![p] = o]
         /\ provider' = [provider EXCEPT ![p] = startTelemetry(o)]
         /\ installed' = [installed EXCEPT ![p] = o.prometheusScrape]
         /\ source' = [source EXCEPT ![p] = o.prometheusScrape]
    /\ phase' = [phase EXCEPT ![p] = "running"]
    /\ UNCHANGED <<answer, row, message, span>>

-----------------------------------------------------------------------------
(* Trace context across the outbox and the broker *)

\* Shutdown hooks run with the listener open: the relay's last drain and the
\* consumer's last commit fall in "closing".
Working(p) == phase[p] \in {"running", "closing"}

\* The active context as two nullable columns; the no-op propagator writes none.
currentTraceCarrier(p, active) == IF Propagates(p) THEN active ELSE none

\* Two stored strings back into a context: no traceparent is the root context.
contextFromTraceCarrier(p, trace) == IF Propagates(p) THEN trace ELSE none

\* A header map is searched by exact name, then case-folded.
headerCarrierGetter(headers) ==
    IF headers.name \in {"traceparent", "Traceparent"} THEN headers.trace ELSE none

\* extractTraceContext on the context the poll left active, not on ROOT_CONTEXT.
extractTraceContextOntoActive(p, headers) ==
    IF Propagates(p) /\ headerCarrierGetter(headers) # none
    THEN headerCarrierGetter(headers) ELSE "poll"

extractTraceContext(p, headers) ==
    IF Propagates(p) THEN headerCarrierGetter(headers) ELSE none

\* A span started under a context joins its trace, or starts one.
startActiveSpan(parent) == IF parent = none THEN "root" ELSE parent

\* TransactionalOutbox.stage: the row keeps the context of the request.
stage(p, e) ==
    /\ Working(p) /\ row[e].by = nobody
    /\ row' = [row EXCEPT ![e] = [trace |-> currentTraceCarrier(p, e), by |-> p]]
    /\ UNCHANGED <<options, phase, provider, installed, source, answer, message, span>>

\* BrokerOutboxPublisher.publish: a producer span parented on the row, and the
\* active context (that span) injected into the headers.
publish(p, e) ==
    /\ Working(p) /\ row[e].by # nobody /\ message[e].by = nobody
    /\ LET sent == startActiveSpan(contextFromTraceCarrier(p, row[e].trace)) IN
       message' = [message EXCEPT ![e] =
           [name  |-> IF Propagates(p) THEN "traceparent" ELSE none,
            trace |-> IF Propagates(p) THEN sent ELSE none, by |-> p]]
    /\ UNCHANGED <<options, phase, provider, installed, source, answer, row, span>>

\* A producer of another service, which may spell the header its own way.
foreignProduce(e) ==
    /\ message[e].by = nobody
    /\ \E name \in {"traceparent", "Traceparent"} :
         message' = [message EXCEPT ![e] = [name |-> name, trace |-> e, by |-> "foreign"]]
    /\ UNCHANGED <<options, phase, provider, installed, source, answer, row, span>>

\* DomainEventConsumer.handle: the span around the ladder and the dead letter.
handle(p, e) ==
    /\ Working(p) /\ message[e].by # nobody /\ span[e].by = nobody
    /\ span' = [span EXCEPT ![e] =
                  [trace |-> startActiveSpan(extractTraceContext(p, message[e])), by |-> p]]
    /\ UNCHANGED <<options, phase, provider, installed, source, answer, row, message>>

-----------------------------------------------------------------------------
(* Scraping and shutting down *)

\* GET /metrics, for as long as the listener is open.
scrape(p) ==
    /\ Working(p)
    /\ answer' = [status |-> IF source[p] THEN 200 ELSE 503, during |-> phase[p]]
    /\ UNCHANGED <<options, phase, provider, installed, source, row, message, span>>

\* SIGTERM: the force-exit timer is armed and app.close() starts.
forceExit(p) ==
    /\ phase[p] = "running"
    /\ phase' = [phase EXCEPT ![p] = "closing"]
    /\ UNCHANGED <<options, provider, installed, source, answer, row, message, span>>

\* The hooks are done and the listener closed; telemetry.shutdown() begins by
\* forgetting the source.
close(p) ==
    /\ phase[p] = "closing"
    /\ phase' = [phase EXCEPT ![p] = "flushing"]
    /\ installed' = [installed EXCEPT ![p] = FALSE]
    /\ UNCHANGED <<options, provider, source, answer, row, message, span>>

\* One provider's shutdown has settled: flushed, refused by the collector or out
\* of time, and the last two are only logged.
withTimeout(p, x) ==
    /\ phase[p] = "flushing" /\ provider[p][x] = "live"
    /\ provider' = [provider EXCEPT ![p][x] = "settled"]
    /\ UNCHANGED <<options, phase, installed, source, answer, row, message, span>>

\* allSettled: the process leaves once no provider is still at it.
shutdown(p) ==
    /\ phase[p] = "flushing"
    /\ \A x \in Provider : provider[p][x] # "live"
    /\ phase' = [phase EXCEPT ![p] = "exited"]
    /\ UNCHANGED <<options, provider, installed, source, answer, row, message, span>>

\* The unref'd timer: the shutdown has taken longer than SHUTDOWN_TIMEOUT_MS.
timedOut(p) ==
    /\ phase[p] \in {"closing", "flushing"}
    /\ phase' = [phase EXCEPT ![p] = "exited"]
    /\ UNCHANGED <<options, provider, installed, source, answer, row, message, span>>

-----------------------------------------------------------------------------
Init ==
    /\ options \in [Process -> {[exporter |-> "none", prometheusScrape |-> FALSE]}]
    /\ phase = [p \in Process |-> "off"]
    /\ provider = [p \in Process |-> [x \in Provider |-> "absent"]]
    /\ installed = [p \in Process |-> FALSE]
    /\ source = [p \in Process |-> FALSE]
    /\ answer = NoAnswer
    /\ row = [e \in Event |-> Unwritten]
    /\ message = [e \in Event \cup Foreign |-> Unsent]
    /\ span = [e \in Event \cup Foreign |-> Unwritten]

Next ==
    \/ \E p \in Process : bootstrap(p) \/ scrape(p) \/ forceExit(p) \/ close(p)
                          \/ shutdown(p) \/ timedOut(p)
    \/ \E p \in Process, x \in Provider : withTimeout(p, x)
    \/ \E p \in Process, e \in Event : stage(p, e) \/ publish(p, e)
    \/ \E e \in Foreign : foreignProduce(e)
    \/ \E p \in Process, e \in Event \cup Foreign : handle(p, e)

Spec == Init /\ [][Next]_vars

-----------------------------------------------------------------------------
\* An event's consumer span is in the trace of the request that caused it
\* whenever every process the event went through had telemetry on, however
\* many processes and however long between; where one did not, the span starts
\* a trace of its own and never joins the poll that fetched the batch
\* (currentTraceCarrier, BrokerOutboxPublisher.publish, extractTraceContext).
TraceJoined ==
    \A e \in DOMAIN span : span[e].by # nobody =>
        LET Through == {span[e].by} \cup
                       (IF e \in Event THEN {row[e].by, message[e].by} ELSE {})
        IN  span[e].trace = IF \A p \in Through : Enabled(options[p]) THEN e ELSE "root"

=============================================================================
