---------------------------- MODULE Configuration ----------------------------
(***************************************************************************)
(* The environment schema (src/src/config/env.schema.ts and the shapes and *)
(* refine functions of the features) and the factories that read it: a     *)
(* process boots with the texts its operator set, the schema refuses them  *)
(* or stores typed values, features read theirs back, the factories build  *)
(* the backends, and a message, a call and a saga step then run against    *)
(* the time budgets the schema accepted.                                   *)
(*                                                                         *)
(* A text is a sample of its class; a comma-separated list has at most one *)
(* entry.  A value carries its JavaScript type.                            *)
(***************************************************************************)
EXTENDS Integers, FiniteSets, TLC

CONSTANTS
    Settings,             \* what operators set beside the least: texts by variable
    Samples,              \* the texts tried for each variable alone
    MAX_DATA_KEY_USES     \* 2^32 in the code, which is above TLC's integers

VARIABLES
    given,      \* what the operator set
    config,     \* what ConfigModule stores: the values envSchema returned
    phase,      \* "booting", "refused", "failed" or "serving"
    trial       \* what runs under the budgets: ladder, call, step

vars == <<given, config, phase, trial>>

Unset == [is |-> "undefined"]
Issue == [is |-> "issue"]
Text(t) == [is |-> "text", of |-> t]
Flag(b) == [is |-> "boolean", of |-> b]
Number(n) == [is |-> "number", of |-> n, whole |-> TRUE]
Fraction(n) == [Number(n) EXCEPT !.whole = FALSE]     \* between n and n + 1

\* Number(text): a blank is 0, and what is no numeral is NaN, which zod refuses.
numerals ==
    "" :> Number(0) @@ "-1" :> Number(-1) @@ "0" :> Number(0) @@ "0.5" :> Fraction(0)
    @@ "1" :> Number(1) @@ "2" :> Number(2) @@ "3" :> Number(3) @@ "4" :> Number(4)
    @@ "5" :> Number(5) @@ "6" :> Number(6) @@ "7" :> Number(7) @@ "8" :> Number(8)
    @@ "9" :> Number(9) @@ "10" :> Number(10) @@ "12" :> Number(12) @@ "101" :> Number(101)
    @@ "3601" :> Number(3601) @@ "20001" :> Number(20001)

coerceNumber(v) ==
    IF v.is = "number" THEN v
    ELSE IF v.is = "text" /\ v.of \in DOMAIN numerals THEN numerals[v.of] ELSE Issue

\* Samples of what new URL() parses, of secrets of 32 characters, of origins as
\* a browser sends them, and of the other forms the rules look for.
Urls == {"https://app.example.com", "https://api.stripe.com", "https://api-m.sandbox.paypal.com",
         "https://api.twilio.com", "https://exp.host", "postgres://db"}
Secrets == {"thirty-two characters of a secret"}
MasterKeys == {"32 bytes of base64"}
Origins == {"https://app.example.com"}
Identities == {"web.internal"}
Paths == {"/v1/health,/metrics"}
Pairs == "https://orders=web.internal" :> [origin |-> "https://orders", identity |-> "web.internal"]
         @@ "http://orders=web.internal" :> [origin |-> "http://orders", identity |-> "web.internal"]
Patterns == {"order.currency"}
TenantIds == {"default", "acme"}
Hostnames == {"api.example.com"}

-----------------------------------------------------------------------------
(* The kinds of variables: which texts, numbers or flags one accepts, and  *)
(* what it is when it is not set.                                          *)

texts(S, u) == [type |-> "text", from |-> S, unset |-> u]
string(d) == texts(STRING, Text(d))
optional == texts(STRING, Unset)
url(d) == texts(Urls, Text(d))
enum(S, d) == texts(S, Text(d))

numbers(lo, hi, int, d) ==
    [type |-> "number", least |-> lo, most |-> hi, int |-> int, unset |-> Number(d)]
Huge == 2147483647                \* no upper bound
positive(d) == numbers(1, Huge, TRUE, d)
nonnegative(d) == numbers(0, Huge, TRUE, d)

\* z.union([z.boolean(), z.enum([...])]): a flag, or a spelling of one.
toggle(d) == [type |-> "toggle", spelled |-> {"true", "false", "1", "0"}, flag |-> TRUE,
              unset |-> Flag(d)]
\* KAFKA_DEAD_LETTER_ENABLED takes two spellings and no flag.
spelling(d) == [toggle(d) EXCEPT !.spelled = {"true", "false"}, !.flag = FALSE]
\* KAFKA_DEAD_LETTER_TOPIC: blank means unset.
blankable == [type |-> "blankable", unset |-> Unset]

parseToggleCoerced(f, v) == Flag(IF v.is = "boolean" THEN v.of ELSE v.of # "")
parseToggleTexts(f, v) ==
    IF v.is = "text" /\ v.of \in f.spelled THEN Flag(v.of \in {"true", "1"}) ELSE Issue
parseToggle(f, v) ==
    CASE v.is = "boolean" /\ f.flag -> v
      [] v.is = "text" /\ v.of \in f.spelled -> Flag(v.of \in {"true", "1"})
      [] OTHER -> Issue

parseNumber(f, v) ==
    LET n == coerceNumber(v)
    IN  IF n # Issue /\ n.of \in f.least .. f.most /\ (n.whole \/ (~f.int /\ n.of < f.most))
        THEN n ELSE Issue

parseText(f, v) == IF v.is = "text" /\ v.of \in f.from THEN v ELSE Issue

parse(f, v) ==
    CASE v = Unset -> f.unset
      [] v # Unset /\ f.type = "text" -> parseText(f, v)
      [] v # Unset /\ f.type = "number" -> parseNumber(f, v)
      [] v # Unset /\ f.type = "toggle" -> parseToggle(f, v)
      [] v # Unset /\ f.type = "blankable" -> IF v.of = "" THEN Unset ELSE v

-----------------------------------------------------------------------------
(* The variables and their defaults.                                       *)

coreFields ==
    "NODE_ENV" :> enum({"development", "test", "production"}, "development")
    @@ "PORT" :> numbers(-Huge, Huge, FALSE, 4000)
    @@ "DATABASE_URL" :> texts(Urls, Issue) @@ "JWT_SECRET" :> texts(Secrets, Issue)
    @@ "JWT_ACCESS_EXPIRY" :> string("15m") @@ "JWT_REFRESH_EXPIRY" :> string("7d")
    @@ [k \in {"GOOGLE_CLIENT_ID", "GOOGLE_CLIENT_SECRET", "GOOGLE_CALLBACK_URL", "REDIS_URL",
               "REDLOCK_NODES"} |-> optional]
    @@ "STORAGE_ADAPTER" :> enum({"s3", "local", "memory"}, "memory")
    @@ "STORAGE_LOCAL_ROOT" :> string("./storage")
    @@ "IDEMPOTENCY_STORE" :> enum({"redis", "memory"}, "memory")
    @@ "IDEMPOTENCY_TTL_SECONDS" :> positive(86400)
    @@ "DISTRIBUTED_LOCK" :> enum({"redlock", "memory"}, "memory")

workerFields ==
    "WORKER_POOL" :> enum({"piscina", "inline"}, "inline")
    @@ "WORKER_POOL_MAX_THREADS" :> positive(2) @@ "WORKER_POOL_MAX_QUEUE" :> nonnegative(32)
    @@ "WORKER_POOL_TASK_TIMEOUT_MS" :> positive(30000)

outboxFields ==
    "OUTBOX_RELAY_ENABLED" :> toggle(TRUE) @@ "OUTBOX_POLL_INTERVAL_MS" :> positive(1000)
    @@ "OUTBOX_BATCH_SIZE" :> positive(50) @@ "OUTBOX_PUBLISH_TIMEOUT_MS" :> positive(5000)
    @@ "OUTBOX_BACKOFF_BASE_MS" :> positive(500) @@ "OUTBOX_BACKOFF_MAX_MS" :> positive(300000)
    @@ "OUTBOX_MAX_ATTEMPTS" :> positive(8)
    @@ "OUTBOX_PUBLISHER" :> enum({"bus", "broker"}, "bus")

brokerFields ==
    "MESSAGE_BROKER" :> enum({"kafka", "memory"}, "memory") @@ "KAFKA_BROKERS" :> optional
    @@ "KAFKA_CLIENT_ID" :> string("boilerplate-nestjs-api")
    @@ "KAFKA_DOMAIN_EVENTS_TOPIC" :> string("domain-events")
    @@ "KAFKA_TOPIC_PARTITIONS" :> positive(3) @@ "KAFKA_ENSURE_TOPICS" :> toggle(TRUE)

consumerFields ==
    "KAFKA_CONSUMER_ENABLED" :> toggle(TRUE)
    @@ "KAFKA_CONSUMER_GROUP_ID" :> string("boilerplate-nestjs-api")
    @@ "KAFKA_SESSION_TIMEOUT_MS" :> positive(30000)
    @@ "KAFKA_HEARTBEAT_INTERVAL_MS" :> positive(3000)
    @@ "KAFKA_REDELIVERY_DELAY_MS" :> positive(1000)
    @@ "KAFKA_SUBSCRIBE_TIMEOUT_MS" :> positive(30000)
    @@ "KAFKA_HANDLER_TIMEOUT_MS" :> positive(60000)
    @@ "KAFKA_DEAD_LETTER_ENABLED" :> spelling(TRUE) @@ "KAFKA_DEAD_LETTER_TOPIC" :> blankable
    @@ "KAFKA_RETRY_MAX_ATTEMPTS" :> positive(4) @@ "KAFKA_RETRY_BASE_MS" :> positive(250)
    @@ "KAFKA_RETRY_MAX_DELAY_MS" :> positive(5000)
    @@ "KAFKA_CONNECTION_TIMEOUT_MS" :> positive(10000)
    @@ "KAFKA_REQUEST_TIMEOUT_MS" :> positive(30000)
    @@ "KAFKA_SSL" :> toggle(FALSE)
    @@ "KAFKA_SASL_MECHANISM" :> texts({"plain", "scram-sha-256", "scram-sha-512"}, Unset)
    @@ [k \in {"KAFKA_SASL_USERNAME", "KAFKA_SASL_PASSWORD"} |-> optional]

serviceFields ==
    "S3_ENDPOINT" :> texts(Urls, Unset) @@ "S3_REGION" :> string("us-east-1")
    @@ "PAYMENTS_PROVIDER" :> enum({"stripe", "paypal", "mock"}, "mock")
    @@ "STRIPE_API_BASE_URL" :> url("https://api.stripe.com")
    @@ "PAYPAL_API_BASE_URL" :> url("https://api-m.sandbox.paypal.com")
    @@ "TWILIO_API_BASE_URL" :> url("https://api.twilio.com")
    @@ "EXPO_PUSH_API_BASE_URL" :> url("https://exp.host")
    @@ [k \in {"S3_BUCKET", "S3_ACCESS_KEY_ID", "S3_SECRET_ACCESS_KEY", "STRIPE_SECRET_KEY",
               "STRIPE_API_VERSION", "PAYPAL_CLIENT_ID", "PAYPAL_CLIENT_SECRET",
               "TWILIO_ACCOUNT_SID", "TWILIO_AUTH_TOKEN", "TWILIO_FROM_NUMBER",
               "TWILIO_MESSAGING_SERVICE_SID", "EXPO_ACCESS_TOKEN"} |-> optional]

connectionFields ==
    "SSE_HEARTBEAT_INTERVAL_MS" :> positive(15000) @@ "SSE_REPLAY_BUFFER_SIZE" :> positive(1024)
    @@ "SSE_MAX_CONNECTIONS" :> positive(1000) @@ "SSE_RETRY_HINT_MS" :> positive(3000)
    @@ "WS_MAX_CONNECTIONS" :> positive(1000) @@ "WS_MAX_ROOMS_PER_CONNECTION" :> positive(64)
    @@ "WS_SEND_HIGH_WATER_MARK_BYTES" :> positive(1048576)
    @@ "WS_SLOW_CONSUMER_GRACE_MS" :> positive(10000)
    @@ "WS_HEARTBEAT_INTERVAL_MS" :> positive(30000)

sagaFields ==
    "SAGA_RECOVERY_ENABLED" :> toggle(TRUE) @@ "SAGA_POLL_INTERVAL_MS" :> positive(1000)
    @@ "SAGA_RECOVERY_BATCH_SIZE" :> positive(20) @@ "SAGA_LEASE_MS" :> positive(30000)
    @@ "SAGA_STEP_TIMEOUT_MS" :> positive(10000) @@ "SAGA_BACKOFF_BASE_MS" :> positive(500)
    @@ "SAGA_BACKOFF_MAX_MS" :> positive(60000) @@ "SAGA_MAX_ATTEMPTS" :> positive(6)

httpFields ==
    "HTTP_RETRY_MAX_ATTEMPTS" :> positive(3) @@ "HTTP_RETRY_BASE_MS" :> positive(200)
    @@ "HTTP_RETRY_MAX_DELAY_MS" :> positive(2000)
    @@ "HTTP_BREAKER_FAILURE_THRESHOLD_PERCENT" :> numbers(1, 100, TRUE, 50)
    @@ "HTTP_BREAKER_VOLUME_THRESHOLD" :> positive(10)
    @@ "HTTP_BREAKER_ROLLING_WINDOW_MS" :> positive(10000)
    @@ "HTTP_BREAKER_ROLLING_BUCKETS" :> positive(10)
    @@ "HTTP_BREAKER_RESET_TIMEOUT_MS" :> positive(30000)
    @@ "HTTP_BULKHEAD_MAX_CONCURRENT" :> positive(20) @@ "HTTP_BULKHEAD_MAX_QUEUED" :> nonnegative(20)
    @@ "HTTP_BULKHEAD_QUEUE_TIMEOUT_MS" :> positive(1000)
    @@ "HTTP_REQUEST_DEADLINE_MS" :> positive(25000)

telemetryEnvShape ==
    "OTEL_EXPORTER" :> enum({"none", "console", "otlp"}, "none")
    @@ "OTEL_SERVICE_NAME" :> texts(STRING \ {""}, Text("boilerplate-nestjs-api"))
    @@ "OTEL_SERVICE_VERSION" :> texts(STRING \ {""}, Unset)
    @@ "OTEL_EXPORTER_OTLP_ENDPOINT" :> texts(Urls, Unset)
    @@ "OTEL_EXPORTER_OTLP_HEADERS" :> optional
    @@ "OTEL_TRACES_SAMPLER_ARG" :> numbers(0, 1, FALSE, 1)
    @@ "OTEL_METRIC_EXPORT_INTERVAL_MS" :> positive(60000)
    @@ "OTEL_SHUTDOWN_TIMEOUT_MS" :> positive(5000)
    @@ "PROMETHEUS_METRICS_ENABLED" :> toggle(FALSE)

loggingEnvShape ==
    "LOG_REDACTION_ENABLED" :> toggle(TRUE) @@ "LOG_REDACTION_EXTRA_ALLOWLIST" :> optional

securityEnvShape ==
    "ALLOWED_ORIGINS" :> string("*") @@ "CORS_ALLOW_CREDENTIALS" :> toggle(TRUE)
    @@ "CORS_MAX_AGE_SECONDS" :> nonnegative(600)
    @@ "HSTS_MAX_AGE_SECONDS" :> nonnegative(63072000)
    @@ "HSTS_INCLUDE_SUBDOMAINS" :> toggle(TRUE) @@ "HSTS_PRELOAD" :> toggle(TRUE)
    @@ "CSP_REPORT_URI" :> texts(Urls, Unset) @@ "CSP_REPORT_ONLY" :> toggle(FALSE)

mtlsEnvShape ==
    "MTLS_ENABLED" :> toggle(FALSE)
    @@ [k \in {"MTLS_CERT_FILE", "MTLS_KEY_FILE", "MTLS_CA_FILE", "MTLS_KEY_PASSPHRASE"} |-> optional]
    @@ "MTLS_RELOAD_INTERVAL_MS" :> nonnegative(300000)
    @@ "MTLS_EXPIRY_WARNING_DAYS" :> nonnegative(14)
    @@ "MTLS_ALLOWED_CLIENTS" :> string("*")
    @@ "MTLS_EXEMPT_PREFIXES" :> string("/v1/health,/metrics")
    @@ "MTLS_ALLOW_UNAUTHENTICATED_PROBES" :> toggle(FALSE) @@ "MTLS_PEERS" :> string("")

cryptoEnvShape ==
    "ENCRYPTION_KEY_PROVIDER" :> enum({"local", "kms"}, "local")
    @@ [k \in {"ENCRYPTION_LOCAL_MASTER_KEY", "ENCRYPTION_KMS_KEY_ID", "ENCRYPTION_KMS_REGION"} |->
            optional]
    @@ "ENCRYPTION_DATA_KEY_TTL_SECONDS" :> positive(300)
    @@ "ENCRYPTION_DATA_KEY_MAX_USES" :> positive(10000)
    @@ "ENCRYPTION_DATA_KEY_CACHE_SIZE" :> positive(500)

tenancyEnvShape ==
    "TENANCY_DEFAULT_TENANT_ID" :> string("default") @@ "TENANCY_TRUST_HEADER" :> toggle(TRUE)
    @@ "TENANCY_BASE_DOMAIN" :> optional

fields ==
    coreFields @@ workerFields @@ outboxFields @@ brokerFields @@ consumerFields @@ serviceFields
    @@ connectionFields @@ sagaFields @@ httpFields @@ telemetryEnvShape @@ loggingEnvShape
    @@ securityEnvShape @@ mtlsEnvShape @@ cryptoEnvShape @@ tenancyEnvShape

\* What a process sees of its environment, and what the schema makes of it.
raw(g, k) == IF k \in DOMAIN g THEN Text(g[k]) ELSE Unset
parsed(g) == LET f == fields IN [k \in DOMAIN f |-> parse(f[k], raw(g, k))]

\* The values the code reads, by name; "undefined" is what is not set.
values(c) == [k \in DOMAIN c |-> IF c[k] = Unset THEN "undefined" ELSE c[k].of]

\* Features that ask ConfigService parse its answers with their shape again.
readBack(shape, c) == [k \in DOMAIN shape |-> parse(shape[k], c[k])]
securityEnvFrom(c) == readBack(securityEnvShape, c)
mtlsEnvFrom(c) == readBack(mtlsEnvShape, c)
cryptoEnvFrom(c) == readBack(cryptoEnvShape, c)
tenancyEnvFrom(c) == readBack(tenancyEnvShape, c)

\* JavaScript's view of a text: || and ! look at truth, ?? at presence.
Truthy(v) == v \notin {"undefined", ""}
Coalesce(v, w) == IF v = "undefined" THEN w ELSE v

\* A comma-separated list: nothing, or one entry.
entries(t) == IF Truthy(t) THEN {t} ELSE {}

-----------------------------------------------------------------------------
(* The rules of superRefine: each is TRUE when it adds no issue.           *)

production(e) == e.NODE_ENV = "production"

refineTelemetryEnv(e) ==
    /\ e.OTEL_EXPORTER = "otlp" => Truthy(e.OTEL_EXPORTER_OTLP_ENDPOINT)
    /\ ~(production(e) /\ e.OTEL_EXPORTER = "console")

HSTS_PRELOAD_MIN_MAX_AGE_SECONDS == 31536000

refineSecurityEnv(e) ==
    LET wildcard == entries(e.ALLOWED_ORIGINS) = {"*"}
    IN  /\ wildcard \/ entries(e.ALLOWED_ORIGINS) \subseteq Origins
        /\ ~(production(e) /\ wildcard /\ e.CORS_ALLOW_CREDENTIALS)
        /\ e.HSTS_PRELOAD => /\ e.HSTS_MAX_AGE_SECONDS >= HSTS_PRELOAD_MIN_MAX_AGE_SECONDS
                             /\ e.HSTS_INCLUDE_SUBDOMAINS

\* The origins MTLS_PEERS names with the identity each must present.
parsePeerMap(t) == {Pairs[p] : p \in entries(t) \cap DOMAIN Pairs}

collectMtlsIssues(e) ==
    LET allowed == entries(e.MTLS_ALLOWED_CLIENTS)
        exempt == entries(e.MTLS_EXEMPT_PREFIXES)
    IN  IF ~e.MTLS_ENABLED THEN parsePeerMap(e.MTLS_PEERS) = {}
        ELSE /\ Truthy(e.MTLS_CERT_FILE) /\ Truthy(e.MTLS_KEY_FILE) /\ Truthy(e.MTLS_CA_FILE)
             /\ allowed # {}
             /\ allowed = {"*"} \/ allowed \subseteq Identities
             /\ ~(production(e) /\ allowed = {"*"})
             /\ exempt \subseteq Paths
             /\ e.MTLS_ALLOW_UNAUTHENTICATED_PROBES => exempt # {}
             /\ e.MTLS_RELOAD_INTERVAL_MS = 0 \/ e.MTLS_RELOAD_INTERVAL_MS >= 1000
             /\ entries(e.MTLS_PEERS) \subseteq DOMAIN Pairs
             /\ \A p \in parsePeerMap(e.MTLS_PEERS) :
                    p.origin = "https://orders" /\ p.identity \in Identities

MAX_DATA_KEY_TTL_SECONDS == 3600

refineCryptoEnv(e) ==
    /\ e.ENCRYPTION_KEY_PROVIDER = "local" => e.ENCRYPTION_LOCAL_MASTER_KEY \in MasterKeys
    /\ e.ENCRYPTION_KEY_PROVIDER = "kms" => Truthy(e.ENCRYPTION_KMS_KEY_ID)
    /\ e.ENCRYPTION_DATA_KEY_TTL_SECONDS <= MAX_DATA_KEY_TTL_SECONDS
    /\ e.ENCRYPTION_DATA_KEY_MAX_USES <= MAX_DATA_KEY_USES

refineLoggingEnv(e) ==
    /\ production(e) => e.LOG_REDACTION_ENABLED
    /\ entries(e.LOG_REDACTION_EXTRA_ALLOWLIST) \subseteq Patterns

\* A tenant id that could be stored, a base domain a Host header can match.
refineTenancyEnv(e) ==
    /\ e.TENANCY_DEFAULT_TENANT_ID \in TenantIds
    /\ e.TENANCY_BASE_DOMAIN \in Hostnames \cup {"undefined"}

storageRule(e) ==
    e.STORAGE_ADAPTER = "s3" =>
        \A k \in {"S3_BUCKET", "S3_ACCESS_KEY_ID", "S3_SECRET_ACCESS_KEY"} : Truthy(e[k])
storageInProduction(e) == ~(production(e) /\ e.STORAGE_ADAPTER = "memory")
idempotencyRule(e) == e.IDEMPOTENCY_STORE = "redis" => Truthy(e.REDIS_URL)
idempotencyInProduction(e) == ~(production(e) /\ e.IDEMPOTENCY_STORE = "memory")
lockRule(e) == e.DISTRIBUTED_LOCK = "redlock" => Truthy(e.REDLOCK_NODES) \/ Truthy(e.REDIS_URL)
lockInProduction(e) == ~(production(e) /\ e.DISTRIBUTED_LOCK = "memory")
brokerRule(e) == e.MESSAGE_BROKER = "kafka" => Truthy(e.KAFKA_BROKERS)
brokerInProduction(e) ==
    ~(production(e) /\ e.OUTBOX_PUBLISHER = "broker" /\ e.MESSAGE_BROKER = "memory")
saslRule(e) ==
    Truthy(e.KAFKA_SASL_MECHANISM) =>
        /\ Truthy(e.KAFKA_SASL_USERNAME) /\ Truthy(e.KAFKA_SASL_PASSWORD)
        /\ e.KAFKA_SASL_MECHANISM = "plain" => e.KAFKA_SSL
paymentsRule(e) ==
    /\ e.PAYMENTS_PROVIDER = "stripe" => Truthy(e.STRIPE_SECRET_KEY)
    /\ e.PAYMENTS_PROVIDER = "paypal" => Truthy(e.PAYPAL_CLIENT_ID) /\ Truthy(e.PAYPAL_CLIENT_SECRET)
deadLetterRule(e) ==
    ~(e.KAFKA_DEAD_LETTER_ENABLED /\ e.KAFKA_DEAD_LETTER_TOPIC = e.KAFKA_DOMAIN_EVENTS_TOPIC)

\* Half-configured Twilio is refused: account, token and a sender, or none.
twilioRule(e) ==
    LET sender == Coalesce(e.TWILIO_FROM_NUMBER, e.TWILIO_MESSAGING_SERVICE_SID)
        parts == {Truthy(e.TWILIO_ACCOUNT_SID), Truthy(e.TWILIO_AUTH_TOKEN), Truthy(sender)}
    IN  parts \in {{TRUE}, {FALSE}}

heartbeatRule(e) == e.KAFKA_HEARTBEAT_INTERVAL_MS < e.KAFKA_SESSION_TIMEOUT_MS

\* The ceiling of the sleep before attempt `attempts + 1`.
Ceiling(e, attempts) ==
    LET exponent == IF attempts - 1 < 30 THEN attempts - 1 ELSE 30
    IN  IF e.KAFKA_RETRY_BASE_MS <= e.KAFKA_RETRY_MAX_DELAY_MS \div 2 ^ exponent
        THEN e.KAFKA_RETRY_BASE_MS * 2 ^ exponent ELSE e.KAFKA_RETRY_MAX_DELAY_MS

worstCaseLadderFlat(e) == e.KAFKA_RETRY_BASE_MS * (e.KAFKA_RETRY_MAX_ATTEMPTS - 1)

worstCaseLadderMs(e) ==
    LET total[n \in 0 .. e.KAFKA_RETRY_MAX_ATTEMPTS - 1] ==
            IF n = 0 THEN 0 ELSE total[n - 1] + Ceiling(e, n)
    IN  total[e.KAFKA_RETRY_MAX_ATTEMPTS - 1]

ladderRule(e) == worstCaseLadderMs(e) * 2 < e.KAFKA_HANDLER_TIMEOUT_MS
leaseRuleThrice(e) == e.SAGA_LEASE_MS > e.SAGA_STEP_TIMEOUT_MS * 3
leaseRule(e) == e.SAGA_LEASE_MS > e.SAGA_STEP_TIMEOUT_MS * 2
breakerRule(e) == e.HTTP_BREAKER_ROLLING_WINDOW_MS >= e.HTTP_BREAKER_ROLLING_BUCKETS
deadlineRule(e) == e.HTTP_REQUEST_DEADLINE_MS > e.HTTP_BULKHEAD_QUEUE_TIMEOUT_MS

superRefine(e) ==
    /\ refineTelemetryEnv(e) /\ refineSecurityEnv(e) /\ collectMtlsIssues(e)
    /\ refineCryptoEnv(e) /\ refineLoggingEnv(e) /\ refineTenancyEnv(e)
    /\ storageRule(e) /\ storageInProduction(e) /\ idempotencyRule(e)
    /\ idempotencyInProduction(e) /\ lockRule(e) /\ lockInProduction(e)
    /\ brokerRule(e) /\ brokerInProduction(e) /\ saslRule(e) /\ deadLetterRule(e)
    /\ paymentsRule(e) /\ twilioRule(e)
    /\ heartbeatRule(e) /\ ladderRule(e) /\ leaseRule(e) /\ breakerRule(e) /\ deadlineRule(e)

\* main.ts reads two shapes from the process before there is a ConfigService, and
\* the logger a third; NODE_ENV is then whatever text is set.
readEarly(shape, g) == [k \in DOMAIN shape |-> parse(shape[k], raw(g, k))]
early(shape, g) ==
    "NODE_ENV" :> (IF "NODE_ENV" \in DOMAIN g THEN g["NODE_ENV"] ELSE "development")
    @@ values(readEarly(shape, g))
parses(c) == \A k \in DOMAIN c : c[k] # Issue

telemetryEnvSchema(g) ==
    parses(readEarly(telemetryEnvShape, g)) /\ refineTelemetryEnv(early(telemetryEnvShape, g))

mtlsEnvFromProcess(g) ==
    parses(readEarly(mtlsEnvShape, g)) /\ collectMtlsIssues(early(mtlsEnvShape, g))

\* An environment the logger cannot read is one it redacts everything in.
readLoggingEnv(g) ==
    IF parses(readEarly(loggingEnvShape, g)) /\ refineLoggingEnv(early(loggingEnvShape, g))
    THEN readEarly(loggingEnvShape, g)
    ELSE "LOG_REDACTION_ENABLED" :> Flag(TRUE) @@ "LOG_REDACTION_EXTRA_ALLOWLIST" :> Unset

\* The rules look only at an environment every variable of which parses.
envSchema(c) == parses(c) /\ superRefine(values(c))

-----------------------------------------------------------------------------
(* The factories: TRUE when the selected backend can be built.             *)

createIdempotencyStore(e) == e.IDEMPOTENCY_STORE = "redis" => Truthy(e.REDIS_URL)

\* REDLOCK_NODES ?? REDIS_URL, split; RedlockService refuses an empty list.
createDistributedLock(e) ==
    e.DISTRIBUTED_LOCK = "redlock" => Truthy(Coalesce(e.REDLOCK_NODES, e.REDIS_URL))

createMessageBroker(e) == e.MESSAGE_BROKER = "kafka" => Truthy(e.KAFKA_BROKERS)

selectStorage(e) ==
    e.STORAGE_ADAPTER = "s3" =>
        \A k \in {"S3_BUCKET", "S3_ACCESS_KEY_ID", "S3_SECRET_ACCESS_KEY"} : Truthy(e[k])

resolveProvider(e) ==
    /\ e.PAYMENTS_PROVIDER = "stripe" => Truthy(e.STRIPE_SECRET_KEY)
    /\ e.PAYMENTS_PROVIDER = "paypal" => Truthy(e.PAYPAL_CLIENT_ID) /\ Truthy(e.PAYPAL_CLIENT_SECRET)

selectKeyProvider(e) ==
    /\ e.ENCRYPTION_KEY_PROVIDER = "local" => e.ENCRYPTION_LOCAL_MASTER_KEY \in MasterKeys
    /\ e.ENCRYPTION_KEY_PROVIDER = "kms" => Truthy(e.ENCRYPTION_KMS_KEY_ID)

Builds(e) ==
    /\ createIdempotencyStore(e) /\ createDistributedLock(e) /\ createMessageBroker(e)
    /\ selectStorage(e) /\ resolveProvider(e) /\ selectKeyProvider(e)

Starts(c) ==
    /\ parses(securityEnvFrom(c)) /\ parses(mtlsEnvFrom(c))
    /\ parses(cryptoEnvFrom(c)) /\ parses(tenancyEnvFrom(c))
    /\ Builds(values(c))

-----------------------------------------------------------------------------
\* The least an operator sets: a database and two secrets.
Clone ==
    "DATABASE_URL" :> "postgres://db" @@ "JWT_SECRET" :> "thirty-two characters of a secret"
    @@ "ENCRYPTION_LOCAL_MASTER_KEY" :> "32 bytes of base64"

Init ==
    /\ \/ \E s \in Settings : given = s @@ Clone
       \/ \E k \in DOMAIN fields, t \in Samples : given = k :> t @@ Clone
    /\ config = <<>>
    /\ phase = "booting"
    /\ trial = [attempts |-> 0, slept |-> 0, remaining |-> 0, ran |-> 0, does |-> "none"]

bootstrap ==
    LET c == parsed(given)
    IN  /\ phase = "booting"
        /\ \/ /\ ~(telemetryEnvSchema(given) /\ mtlsEnvFromProcess(given) /\ envSchema(c))
              /\ phase' = "refused" /\ UNCHANGED config
           \/ /\ telemetryEnvSchema(given) /\ mtlsEnvFromProcess(given) /\ envSchema(c)
              /\ phase' = (IF Starts(c) THEN "serving" ELSE "failed") /\ config' = c
        /\ UNCHANGED <<given, trial>>

\* The ends and the middle of the times from 0 to n.
Sampled(n) == {0, n \div 2, n}

\* A failed attempt of the consumer's ladder and its jittered sleep.
runRetryLadder ==
    LET env == values(config)
    IN  /\ phase = "serving"
        /\ trial.does \in {"none", "message"}
        /\ trial.attempts + 1 < env.KAFKA_RETRY_MAX_ATTEMPTS
        /\ \E delay \in Sampled(Ceiling(env, trial.attempts + 1) - 1) :
              trial' = [trial EXCEPT !.does = "message", !.attempts = @ + 1, !.slept = @ + delay]
        /\ UNCHANGED <<given, config, phase>>

\* A call waits for a bulkhead permit out of its request budget.
acquire ==
    LET env == values(config)
    IN  /\ phase = "serving" /\ trial.does = "none"
        /\ \E waited \in Sampled(env.HTTP_BULKHEAD_QUEUE_TIMEOUT_MS) :
              trial' = [trial EXCEPT !.does = "call",
                                     !.remaining = IF waited > env.HTTP_REQUEST_DEADLINE_MS THEN 0
                                                   ELSE env.HTTP_REQUEST_DEADLINE_MS - waited]
        /\ UNCHANGED <<given, config, phase>>

\* A step runs up to its timeout, and its checkpoint no longer than that again.
executeStep ==
    LET env == values(config)
    IN  /\ phase = "serving" /\ trial.does = "none"
        /\ \E step, write \in Sampled(env.SAGA_STEP_TIMEOUT_MS) :
              trial' = [trial EXCEPT !.does = "step", !.ran = step + write]
        /\ UNCHANGED <<given, config, phase>>

Next == bootstrap \/ runRetryLadder \/ acquire \/ executeStep

Spec == Init /\ [][Next]_vars

-----------------------------------------------------------------------------
(* What the schema accepts leaves room for what runs under it: a ladder    *)
(* that sleeps all it may has used less than half its handler's bound, an  *)
(* admitted call has budget left to send with, and a step and a checkpoint *)
(* no slower than a step end inside the lease.                             *)
BudgetsHold ==
    LET env == values(config)
    IN  phase = "serving" =>
            /\ trial.slept * 2 < env.KAFKA_HANDLER_TIMEOUT_MS
            /\ trial.does = "call" => trial.remaining > 0
            /\ trial.ran < env.SAGA_LEASE_MS

Accepted == phase \in {"serving", "failed"}

(* A switch is never read the other way (toggle): what an operator spelled *)
(* off is off, what they spelled on is on, and any other spelling, a blank *)
(* one too, is refused rather than guessed at.                             *)
SwitchesHonoured ==
    LET f == fields
    IN  Accepted =>
            \A k \in DOMAIN given \cap DOMAIN f :
                f[k].type = "toggle" =>
                    given[k] \in f[k].spelled /\ config[k] = Flag(given[k] \in {"true", "1"})

(* Every reading of a setting agrees.  Parsing again what the schema       *)
(* returned changes nothing (securityEnvFrom and its like), the logger and *)
(* the schema redact alike, and what is read before there is a schema      *)
(* refuses no environment the schema would take (telemetryEnvSchema,       *)
(* mtlsEnvFromProcess).                                                    *)
ReadingsAgree ==
    /\ Accepted =>
          \A again \in {securityEnvFrom(config), mtlsEnvFrom(config), cryptoEnvFrom(config),
                         tenancyEnvFrom(config), readLoggingEnv(given)} :
              \A k \in DOMAIN again : again[k] = config[k]
    /\ phase = "refused" => ~envSchema(parsed(given))

(* The defaults satisfy every rule (envSchema): outside production, a      *)
(* clean clone given its database and its two secrets serves.              *)
CleanCloneBoots == given = Clone => phase \in {"booting", "serving"}
=============================================================================
