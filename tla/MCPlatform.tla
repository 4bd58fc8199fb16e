----------------------------- MODULE MCPlatform -----------------------------
(***************************************************************************)
(* The parts of the application the services suite does not hold, which    *)
(* share no state, each on a small instance of its own: a behaviour is one *)
(* of one part, chosen at the start.  The variables v1, v2, ... stand for  *)
(* the variables of whichever part that is, in the order its module        *)
(* declares them.                                                          *)
(***************************************************************************)
EXTENDS Integers, Sequences, FiniteSets, SequencesExt

VARIABLES which,   \* the component of this behaviour
    v1, v2, v3, v4, v5, v6, v7, v8, v9, v10, v11, v12

-----------------------------------------------------------------------------
(* Instances of the components' constants.                                 *)

\* Key material: two issues under one root, a third under another.
Issues ==
    << [cert |-> <<"leaf1", "mid1">>, key |-> <<"leaf1">>, ca |-> <<"root1">>],
       [cert |-> <<"leaf2", "mid1">>, key |-> <<"leaf2">>, ca |-> <<"root1">>],
       [cert |-> <<"leaf3", "mid2">>, key |-> <<"leaf3">>, ca |-> <<"root2">>] >>
Chains ==
    {<<"leaf1", "mid1">>, <<"leaf2", "mid1">>, <<"mid1", "root1">>,
     <<"leaf3", "mid2">>, <<"mid2", "root2">>}
ValidFrom == [leaf1 |-> 0, leaf2 |-> 0, leaf3 |-> 1]
ValidTo == [leaf1 |-> 1, leaf2 |-> 2, leaf3 |-> 2]

\* Aspects: two callers in one process, one in another.
RunsIn == [c1 |-> "p1", c2 |-> "p1", c3 |-> "p2"]
Decorated ==
    {{"lock", "retry"}, {"cacheable", "retry", "timed"},
     {"timed", "cacheable", "lock", "retry"}, {"timed"}}

\* LocalDisk and ObjectStore: a key, one below it, one beside it.
Keys == << <<"a">>, <<"a", "b">>, <<"c">> >>
FileWork ==
    [p1 |-> [kind |-> "put", key |-> <<"a", "b">>], p2 |-> [kind |-> "put", key |-> <<"c">>],
     d1 |-> [kind |-> "delete", key |-> <<"a", "b">>], g1 |-> [kind |-> "get", key |-> <<"a", "b">>],
     p3 |-> [kind |-> "put", key |-> <<"a">>],
     l1 |-> [kind |-> "list", key |-> <<>>]]

\* Schemas: histories of two and of three schemas, and the payloads.
Scalar(types, enum, format) ==
    [kind |-> "scalar", types |-> types, enum |-> enum, format |-> format]
Scalars ==
    {Scalar(t, e, f) : t \in {{"string"}, {"integer"}, {"number"}, {"string", "null"}},
                       e \in {{}, {"s1"}, {"s1", "i1"}}, f \in {"none", "f"}}
FewScalars ==
    {Scalar({"string"}, {}, "none"), Scalar({"integer"}, {}, "none"), Scalar({"string"}, {"s1"}, "none")}
Record(properties, required, open) ==
    [kind |-> "object", properties |-> properties, required |-> required, additionalProperties |-> open]
OfOne(nodes) == {Record([k \in {"k"} |-> n], r, TRUE) : n \in nodes, r \in {{}, {"k"}}}
NoProperty == [k \in {} |-> 0]
Nested ==
    {[kind |-> "array", items |-> n] : n \in FewScalars}
    \cup {Record([k \in {"m"} |-> n], {}, TRUE) : n \in FewScalars}
Bare ==
    {Record(NoProperty, {}, open) : open \in BOOLEAN}
    \cup {Record(NoProperty, {"k"}, TRUE), Record([k \in {"k"} |-> Scalar({"string"}, {}, "none")], {}, FALSE)}
Histories ==
    {<<a, b>> : a, b \in OfOne(Scalars \cup Nested) \cup Bare}
    \cup {<<a, b, c>> : a, b, c \in OfOne(FewScalars) \cup Bare}
Atoms == {[kind |-> "scalar", value |-> v] : v \in {"s1", "s2", "i1", "n1", "nil"}}
Documented ==
    {[kind |-> "object", props |-> NoProperty]}
    \cup {[kind |-> "object", props |-> [k \in {"k"} |-> d]] :
            d \in Atoms \cup {[kind |-> "array", items |-> <<a>>] : a \in Atoms}
                        \cup {[kind |-> "object", props |-> [k \in {"m"} |-> a]] : a \in Atoms}}

\* Payments: an authorization, its capture, a partial and a full refund.
PaymentWork ==
    [a1 |-> [method |-> "authorize", amount |-> 2], k1 |-> [method |-> "capture", amount |-> 2],
     r1 |-> [method |-> "refund", amount |-> 1], r2 |-> [method |-> "refund", amount |-> 0]]

\* Tenancy: with and without a trusted header; a sound role and one that
\* bypasses row security.
TenancyEnvs ==
    {[production |-> TRUE, trustHeader |-> TRUE, baseDomain |-> TRUE],
     [production |-> FALSE, trustHeader |-> FALSE, baseDomain |-> TRUE]}
DbRoles ==
    {[answers |-> TRUE, bypassesPolicies |-> FALSE, unprotected |-> FALSE],
     [answers |-> TRUE, bypassesPolicies |-> TRUE, unprotected |-> FALSE]}

\* Telemetry: off, and exporting both ways.
Deployed ==
    {[exporter |-> "none", prometheusScrape |-> FALSE],
     [exporter |-> "otlp", prometheusScrape |-> TRUE]}

\* LogPipeline: values with a token in a string, in a field, past the cut, in a
\* cycle, behind a getter that throws, in the name of a query parameter; calls of
\* loggers with a name, and one without that ends in a token.
Jwt == <<"jh", "jp", "js">>
Text(words) == [kind |-> "string", text |-> words]
Logged ==
    [ctx |-> Text(<<"Relay">>), und |-> [kind |-> "nullish"], hello |-> Text(<<"hello">>),
     tok |-> Text(<<"w", "w">> \o Jwt), stk |-> Text(<<"at", "w">>),
     long |-> Text(<<"w", "w", "w">> \o Jwt),
     num |-> [kind |-> "number"], inst |-> [kind |-> "instance"], getter |-> [kind |-> "throws"],
     err |-> [kind |-> "error", text |-> <<"failed">> \o Jwt, stack |-> <<"at", "w", "w">> \o Jwt],
     loop |-> [kind |-> "record", id |-> "loop", refs |-> << <<"stack", "tok">>, <<"self", "loop">> >>],
     item |-> [kind |-> "record", id |-> "item", refs |-> << <<"sku", "hello">>, <<"price", "num">> >>],
     items |-> [kind |-> "array", id |-> "items", refs |-> << <<"[]", "item">>, <<"[]", "item">> >>],
     order |-> [kind |-> "record", id |-> "order",
                refs |-> << <<"message", "long">>, <<"items", "items">>, <<"counts", "items">>,
                            <<"loop", "loop">>, <<"count", "num">>, <<"userId", "inst">> >>],
     nest |-> [kind |-> "record", id |-> "nest", refs |-> << <<"cause", "getter">> >>],
     bad |-> [kind |-> "record", id |-> "bad",
              refs |-> << <<"message", "tok">>, <<"items", "items">>, <<"cause", "nest">> >>]]
LogCalls ==
    [level : {"error", "log"},
     message : {"hello", "tok", "long", "err", "order", "bad", "inst", "items"},
     params : {<<"und", "ctx">>, <<"stk", "ctx">>, <<"order", "ctx">>, <<"long", "ctx">>, <<>>, <<"ctx">>,
               <<"tok">>}]
Requested ==
    {<<>>, << <<"page", <<"1">>>>, <<"code", Jwt>> >>,
     << <<"page", <<"1">>>>, <<"page", <<"2">>>>, <<"page", <<"3">>>> >>,
     << <<"cursor", <<"w", "w", "w">> \o Jwt>>, <<"jh.jp.js", <<"1">>>> >>}
Allowed ==
    {<<"path">>, <<"userId">>, <<"query", "page">>, <<"query", "cursor">>, <<"errorType">>,
     <<"stack">>, <<"count">>}
LogEnvs ==
    [valid : {TRUE}, production : BOOLEAN, enabled : BOOLEAN,
     extraAllowlist : {{}, {<<"items", "[]", "sku">>},
                       {<<"counts", "*", "sku">>, <<"items", "*", "sku">>, <<"loop", "*">>},
                       {<<"*">>}, {<<"items", "[]", "price">>, <<>>},
                       {<<"query", "*">>}}]
    \cup [valid : {FALSE}, production : BOOLEAN, enabled : {TRUE}, extraAllowlist : {{}}]

\* DiScopes: provider graphs around one or two request-scoped providers, with cycles.
Provided ==
    {[scope |-> [a |-> "DEFAULT", b |-> "DEFAULT", c |-> s, d |-> "REQUEST"],
      deps |-> [a |-> x, b |-> y, c |-> z, d |-> <<>>]] :
        s \in {"TRANSIENT", "REQUEST"}, x \in {<<"d", "b">>, <<"c", "b">>},
        y \in {<<"c">>, <<"a", "d">>}, z \in {<<"d">>, <<"b", "a">>}}

\* S3Store: a put, a delete, a get, an exists and a presigned upload of one key, and
\* a call with a bad key.
BucketWork ==
    LET w(m, k) == [method |-> m, key |-> k, type |-> "jpeg", expiresIn |-> 1]
    IN  [p |-> w("put", "k"), d |-> w("delete", "k"), g |-> w("get", "k"),
         e |-> w("exists", "k"), u |-> w("presignPut", "k"),
         i |-> w("get", "badKey")]

\* Accounts: registrations of one address in two tenants, sign-ins through
\* Google with the same account and two addresses, and a login.
SignIns ==
    LET c(v, e, t, g) == [via |-> v, email |-> e, tenant |-> t, google |-> g]
    IN  [a |-> c("register", "e1", "t1", "none"), b |-> c("register", "e1", "t2", "none"),
         g |-> c("google", "e1", "t1", "g1"), m |-> c("google", "e2", "t1", "g1"),
         l |-> c("login", "e1", "t1", "none")]

\* The event bus: one subscriber that pushes to live connections stands for both.
Subscribed == [reg |-> {"welcome", "bridge", "stream"}, del |-> {"bridge", "gateway"}]

\* Peers: certificates with every short name over the characters the
\* rendering escapes, separates or folds.
Name(n) == UNION {[1..k -> {"a", "A", ",", " ", "\"", "\\", ":"}] : k \in 1..n}
Entry(k, v) == [kind |-> k, value |-> v]
Uri == <<"a", ":", "/", "/", "b">>
Tricky == <<"b", ",", " ", "DNS", ":", "a">>
Presented ==
    {<<>>, <<Entry("URI", Uri)>>, <<Entry("IP", <<"a">>), Entry("DNS", <<"A">>)>>,
     <<Entry("DNS", Tricky)>>, <<Entry("DNS", <<"b">>), Entry("URI", Uri)>>}
    \cup {<<Entry("DNS", v)>> : v \in Name(3)}
    \cup {<<Entry("DNS", v), Entry("DNS", <<"a">>)>> : v \in Name(2)}
    \cup {<<Entry("IP", <<"a">>), Entry("URI", v)>> : v \in Name(2)}
Health == <<"/", "h">>
Admission ==
    LET s(al, ex, prod, pr) ==
          [allowlist |-> al, exemptPrefixes |-> ex, production |-> prod, probes |-> pr]
    IN  {s(<< <<"a">> >>, <<Health>>, TRUE, TRUE), s(<<Uri, <<"b">>>>, <<>>, TRUE, FALSE),
         s(<< <<"*">> >>, <<>>, FALSE, FALSE), s(<< <<"*">> >>, <<>>, TRUE, FALSE),
         s(<<>>, <<>>, FALSE, FALSE), s(<< <<"a">> >>, <<>>, FALSE, TRUE)}
Routes == {Health, Health \o <<"/", "x">>, Health \o <<"x">>}

\* Amounts: baskets with repeated, unknown and too many of a SKU, and a total
\* past the safe range; prices whose decimals need padding.
PriceList == [desk |-> 105, lamp |-> 5]
BasketLine(s, q) == [sku |-> s, quantity |-> q]
Sent ==
    {<<BasketLine("lamp", 1)>>, <<BasketLine("desk", 1), BasketLine("lamp", 1), BasketLine("desk", 1)>>,
     <<BasketLine("lamp", 2), BasketLine("lamp", 2)>>, <<BasketLine("lamp", 2), BasketLine("lamp", 3)>>,
     <<BasketLine("desk", 4)>>, <<BasketLine("gone", 5), BasketLine("desk", 1)>>}

\* Texts, If-Match: every short field over the characters the scanner looks at, and
\* sequences of tags, fragments and separators.
Quote == "\""
Fragments ==
    {<<Quote, "3", Quote>>, <<"W", "/", Quote, "3", Quote>>, <<Quote, "0", "3", Quote>>,
     <<Quote, ",", Quote>>, <<Quote>>, <<",">>, <<" ">>, <<"*">>}
FieldValues ==
    UNION {[1..n -> {"W", "/", Quote, ",", " ", "3", "*"}] : n \in 0..4}
    \cup {FlattenSeq(f) : f \in UNION {[1..n -> Fragments] : n \in 1..4}}
ConditionalWrites ==
    [version : {3}, header : {<<>>, << <<"*">>, <<"*">> >>} \cup {<<v>> : v \in FieldValues}]

\* Texts, canonical forms: values that are shared, cyclic, or punctuate like one another.
Str(t) == [kind |-> "string", text |-> t]
Arr(s) == [kind |-> "array", items |-> s]
Obj(s) == [kind |-> "object", members |-> s]
Scal(k, t) == [kind |-> k, text |-> t]
Encoded ==
    [nul |-> [kind |-> "null"], und |-> [kind |-> "undefined"], fn |-> [kind |-> "function"],
     nan |-> [kind |-> "nan"], one |-> Scal("number", <<"1">>), big |-> Scal("bigint", <<"1">>),
     strOne |-> Str(<<"1">>), sa |-> Str(<<"a">>), sb |-> Str(<<"b">>),
     comma |-> Str(<<"a", Quote, ",", Quote, "b">>), esc |-> Str(<<"a", "\\">>),
     date |-> Scal("date", <<"d">>), sdate |-> Str(<<"Date(", "d", ")">>),
     re |-> [kind |-> "regexp", text |-> <<"a">>, flags |-> <<"g">>],
     none |-> Arr(<<>>), undA |-> Arr(<<"und">>), nulA |-> Arr(<<"nul">>),
     ab |-> Arr(<<"sa", "sb">>), jab |-> Arr(<<"comma">>), esb |-> Arr(<<"esc", "sb">>),
     ones |-> Arr(<<"one">>), bigs |-> Arr(<<"big">>), s1 |-> Arr(<<"strOne">>),
     dates |-> Arr(<<"date">>), sdates |-> Arr(<<"sdate">>), res |-> Arr(<<"re">>),
     e |-> Obj(<<>>), xy |-> Obj(<< <<"x", "sa">>, <<"y", "sb">> >>),
     yx |-> Obj(<< <<"y", "sb">>, <<"x", "sa">> >>), xu |-> Obj(<< <<"x", "und">> >>),
     xn |-> Obj(<< <<"x", "nul">> >>), xxy |-> Obj(<< <<"x", "xy">>, <<"y", "sb">> >>),
     twice |-> Arr(<<"xy", "xy">>), both |-> Arr(<<"yx", "xy">>), nest |-> Arr(<<"ab">>),
     loop |-> Arr(<<"back">>), back |-> Obj(<< <<"x", "loop">> >>),
     fns |-> Arr(<<"xy", "fn">>), nans |-> Arr(<<"nan">>)]
CachedCalls ==
    [name : {"m1"}, prefix : {"", "p"}, args : {v \in DOMAIN Encoded : Encoded[v].kind = "array"}]
    \cup [name : {"m2"}, prefix : {""}, args : {"ab"}]
AuditEntries ==
    [resourceId : {<<"a">>, <<"a", "\n", "actorId", ":", "b">>, <<>>},
     actorId : {<<>>, << <<>> >>, << <<"b">> >>, << <<"null">> >>,
                << <<"b", "\n", "correlationId", ":", "null">> >>},
     correlationId : {<<>>, << <<"b">> >>}, details : {"e", "xy"}]
    \cup [resourceId : {<<"a">>}, actorId : {<<>>}, correlationId : {<<>>},
          details : {"yx", "xu", "xn", "xxy"}]
SentRequests ==
    [method : {<<"POST">>, <<"PUT">>}, url : {<<"/">>, <<"/", "a">>}, type : {<<>>, <<"a">>, <<"json">>},
     length : {<<>>, <<"1">>}, body : {"und", "nul", "xy", "yx", "xn"}, file : {"none"}]
    \cup [method : {<<"POST">>}, url : {<<"/">>}, type : {<<"json">>}, length : {<<"1">>},
          body : {"one", "s1", "ab", "jab", "e", "none", "xxy", "nest", "esc", "strOne", "nulA"},
          file : {"none"}]
    \cup [method : {<<"PUT">>}, url : {<<"/">>}, type : {<<"multipart">>}, length : {<<"1">>, <<"2">>},
          body : {"und", "xy"}, file : {"f1", "f2"}]

\* StandIns: the shapes a step's progress takes.
Reported ==
    {[status |-> "RUNNING", delay |-> 0, release |-> FALSE],
     [status |-> "RUNNING", delay |-> 1, release |-> TRUE],
     [status |-> "COMPENSATING", delay |-> 0, release |-> TRUE],
     [status |-> "COMPLETED", delay |-> 0, release |-> TRUE]}
IfMatches ==
    {[mode |-> "any"],
     [mode |-> "list", tags |-> <<[weak |-> TRUE, version |-> 0], [weak |-> FALSE, version |-> 1]>>]}
Preferences ==
    {[theme |-> "dark", language |-> "undefined"], [theme |-> "undefined", language |-> "fr"]}

\* Dead letters: two records, and errors around the limit.
Poison ==
    <<[key |-> "k1", value |-> "garbled", own |-> "id1"], [key |-> "k2", value |-> "event", own |-> "id2"]>>
Failures == {[class |-> "Error", length |-> 1], [class |-> "none", length |-> 3]}

\* Texts, object keys: every short key over the characters that matter to a path, and
\* metadata that differs in case or does not fit a header.
ObjectNames ==
    UNION {[1..n -> {"a", "/", ".", " "}] : n \in 0..4}
    \cup UNION {[1..n -> {"a", "\\", ":", "\n"}] : n \in 1..2} \cup {<<"a", "a", "/", "a", "a">>}
Lowered == "owner" :> "owner" @@ "Owner" :> "owner" @@ "x_y" :> "x_y" @@ "tag" :> "tag"
Pairs == {"owner", "Owner", "tag"} \X {"v"}
Labels ==
    {<<>>, << <<"x_y", "v">> >>, << <<"tag", "e">> >>} \cup {<<p>> : p \in Pairs}
    \cup {<<p, q>> : p, q \in Pairs}
ObjectPuts ==
    [adapter : {"memory", "disk", "s3"}, key : ObjectNames, metadata : {<<>>, << <<"Owner", "v">> >>}]
    \cup [adapter : {"memory", "disk", "s3"}, key : {<<"a">>, <<"a", "/", ".">>}, metadata : Labels]
Bytes == "owner" :> 2 @@ "x_y" :> 1 @@ "tag" :> 1 @@ "v" :> 1 @@ "e" :> 2

\* Configuration: what operators may set beside the least, "undefined" for what
\* they leave alone; small budgets, so that a ladder, a call and a step fit or do not.
Briefly ==
    [KAFKA_HEARTBEAT_INTERVAL_MS |-> "1", KAFKA_SESSION_TIMEOUT_MS |-> "2",
     KAFKA_RETRY_BASE_MS |-> "1", KAFKA_RETRY_MAX_DELAY_MS |-> "2", KAFKA_RETRY_MAX_ATTEMPTS |-> "2",
     KAFKA_HANDLER_TIMEOUT_MS |-> "4", SAGA_LEASE_MS |-> "3", SAGA_STEP_TIMEOUT_MS |-> "1",
     HTTP_REQUEST_DEADLINE_MS |-> "2", HTTP_BULKHEAD_QUEUE_TIMEOUT_MS |-> "1"]
Setting(S) ==
    {[k \in {n \in DOMAIN v : v[n] # "undefined"} |-> v[k]] @@ Briefly : v \in S}
Given == {"undefined", "", "text"}
Upto(n) == {<<"1", "2", "3", "4", "5", "6", "7", "8", "9", "10">>[i] : i \in 1..n}
Switch == {"true", "0"}
Configured ==
    Setting([NODE_ENV : {"development", "production"}, STORAGE_ADAPTER : {"memory", "s3"},
             S3_BUCKET : Given, S3_ACCESS_KEY_ID : {"text"}, S3_SECRET_ACCESS_KEY : {"", "text"},
             IDEMPOTENCY_STORE : {"memory", "redis"}, REDIS_URL : Given,
             DISTRIBUTED_LOCK : {"memory", "redlock"}, REDLOCK_NODES : Given,
             ALLOWED_ORIGINS : {"https://app.example.com"}])
    \cup Setting([NODE_ENV : {"test", "production"}, MESSAGE_BROKER : {"memory", "kafka"},
                  KAFKA_BROKERS : Given, OUTBOX_PUBLISHER : {"bus", "broker"},
                  STORAGE_ADAPTER : {"local"}, IDEMPOTENCY_STORE : {"redis"},
                  DISTRIBUTED_LOCK : {"redlock"}, REDIS_URL : {"text"},
                  KAFKA_SASL_MECHANISM : {"undefined", "plain", "scram-sha-256"},
                  KAFKA_SASL_USERNAME : {"text"}, KAFKA_SASL_PASSWORD : Given, KAFKA_SSL : Switch,
                  ALLOWED_ORIGINS : {"*", "https://app.example.com"}, CORS_ALLOW_CREDENTIALS : Switch])
    \cup Setting([PAYMENTS_PROVIDER : {"stripe", "paypal"}, STRIPE_SECRET_KEY : Given,
                  PAYPAL_CLIENT_ID : {"text"}, PAYPAL_CLIENT_SECRET : Given])
    \cup Setting([TWILIO_ACCOUNT_SID : Given, TWILIO_AUTH_TOKEN : Given, TWILIO_FROM_NUMBER : Given,
                  TWILIO_MESSAGING_SERVICE_SID : Given])
    \cup Setting([NODE_ENV : {"development", "production"}, STORAGE_ADAPTER : {"local"},
                  IDEMPOTENCY_STORE : {"redis"}, DISTRIBUTED_LOCK : {"redlock"}, REDIS_URL : {"text"},
                  ALLOWED_ORIGINS : {"https://app.example.com"}, MTLS_ENABLED : Switch,
                  MTLS_CERT_FILE : {"text"}, MTLS_KEY_FILE : {"text"}, MTLS_CA_FILE : {"", "text"},
                  MTLS_ALLOWED_CLIENTS : {"*", "web.internal", "", "*.internal"},
                  MTLS_EXEMPT_PREFIXES : {"", "/v1/health,/metrics"},
                  MTLS_ALLOW_UNAUTHENTICATED_PROBES : Switch,
                  MTLS_PEERS : {"", "orders", "http://orders=web.internal",
                                "https://orders=web.internal"}])
    \cup Setting([HSTS_PRELOAD : Switch, HSTS_INCLUDE_SUBDOMAINS : Switch,
                  HSTS_MAX_AGE_SECONDS : {"undefined", "1"}, OTEL_EXPORTER : {"console", "otlp"},
                  OTEL_EXPORTER_OTLP_ENDPOINT : {"undefined", "https://app.example.com"}])
    \cup Setting([ENCRYPTION_KEY_PROVIDER : {"local", "kms"}, ENCRYPTION_KMS_KEY_ID : Given,
                  ENCRYPTION_LOCAL_MASTER_KEY : {"", "text", "32 bytes of base64"},
                  ENCRYPTION_DATA_KEY_TTL_SECONDS : {"1", "3601"},
                  ENCRYPTION_DATA_KEY_MAX_USES : {"1", "20001"}])
    \cup Setting([TENANCY_DEFAULT_TENANT_ID : {"acme", "Acme"},
                  TENANCY_BASE_DOMAIN : {"undefined", "api.example.com", "", ".example.com"},
                  LOG_REDACTION_ENABLED : Switch, NODE_ENV : {"development", "production"},
                  LOG_REDACTION_EXTRA_ALLOWLIST : {"undefined", "", "order.currency", "*"}])
    \cup Setting([KAFKA_DEAD_LETTER_ENABLED : {"true", "false", "1"},
                  KAFKA_DEAD_LETTER_TOPIC : {"", "domain-events", "dead"}])
    \cup Setting([KAFKA_RETRY_BASE_MS : Upto(2), KAFKA_RETRY_MAX_DELAY_MS : Upto(4),
                  KAFKA_RETRY_MAX_ATTEMPTS : Upto(4), KAFKA_HANDLER_TIMEOUT_MS : Upto(10) \cup {"12"}])
    \cup Setting([SAGA_LEASE_MS : Upto(5), SAGA_STEP_TIMEOUT_MS : Upto(2),
                  HTTP_REQUEST_DEADLINE_MS : Upto(3), HTTP_BULKHEAD_QUEUE_TIMEOUT_MS : Upto(3),
                  KAFKA_HEARTBEAT_INTERVAL_MS : Upto(2)])
    \cup {[k \in {} |-> ""], [NODE_ENV |-> "production"]}


-----------------------------------------------------------------------------
Fields == INSTANCE FieldEncryption WITH
    Field <- {"f1"}, Row <- {"w1", "w2", "w3"}, Foreign <- {"w3"},
    Caller <- {"c1", "c2"}, Configured <- {"local", "kms"}, ttl <- 2,
    maxUses <- 1, maxDecryptEntries <- 1, refreshPercent <- 80,
    MaxKeys <- 2, MaxNow <- 2, MaxFaults <- 1, now <- v1, provider <- v2,
    active <- v3, minting <- v4, unwrapped <- v5, stored <- v6, call <- v7,
    sealed <- v8, minted <- v9, faults <- v10
Tls == INSTANCE Mtls WITH
    Issuance <- Issues, IssuedBy <- Chains, NotBefore <- ValidFrom,
    NotAfter <- ValidTo, MAX_CHAIN_DEPTH <- 8, Call <- {"c1"},
    MaxAttempts <- 2, MaxNow <- 2, Certificates <- Presented,
    Settings <- Admission, Paths <- Routes, now <- v1, disk <- v2,
    issue <- v3, pending <- v4, phase <- v5, reading <- v6, material <- v7,
    server <- v8, agents <- v9, call <- v10, env <- v1, listener <- v2,
    peer <- v3, decision <- v4
Woven == INSTANCE Aspects WITH
    Process <- {"p1", "p2"}, Caller <- {"c1", "c2", "c3"}, At <- RunsIn,
    Decorations <- Decorated, MaxAttempts <- 2, MaxFaults <- 1,
    decorators <- v1, owner <- v2, sync <- v3, phase <- v4, cached <- v5,
    holder <- v6, inFlight <- v7, call <- v8, timings <- v9, faults <- v10
Pool == INSTANCE WorkerPool WITH
    Task <- {"k1", "k2", "k3"}, Unknown <- {"k1"}, Timeouts <- {0, 1},
    maxThreads <- 1, maxQueue <- 2, MaxNow <- 1, adapter <- v1,
    taskTimeoutMs <- v2, now <- v3, work <- v4, wait <- v5, dueAt <- v6,
    aborted <- v7, queue <- v8, outstanding <- v9, completed <- v10,
    closed <- v11, drained <- v12
Told == INSTANCE Announcements WITH
    Registered <- {"email", "sms", "push"}, Notice <- {"n1"},
    Tokens <- {"t1", "t2"}, Event <- {"reg", "del"},
    Subscribers <- Subscribed, maxAttempts <- 2, JobAttempts <- 2,
    MaxFaults <- 2, preferences <- v1, configured <- v2, reachable <- v3,
    call <- v4, taken <- v5, jobs <- v6, row <- v1, emission <- v2,
    handled <- v3, cqrs <- v4, listening <- v5, logged <- v6,
    welcomes <- v7, faults <- v8
Disk == INSTANCE LocalDisk WITH
    KeyOrder <- Keys, Op <- {"p1", "d1", "g1", "p3", "l1"},
    Work <- FileWork, PageLimit <- 1, MaxFaults <- 1, dirs <- v1,
    body <- v2, sidecar <- v3, temp <- v4, pc <- v5, pruning <- v6,
    got <- v7, found <- v8, faults <- v9
Listed == INSTANCE ObjectStore WITH
    KeyOrder <- Keys, Op <- {"p1", "d1", "g1", "p3", "p2"},
    Work <- FileWork, Limits <- {0, 1, 5}, objects <- v1, applied <- v2,
    got <- v3, scan <- v4
Bucket == INSTANCE S3Store WITH
    Op <- {"p", "d", "g", "e", "u", "i"}, Work <- BucketWork, Key <- {"k"},
    Invalid <- {"badKey"}, Type <- {"jpeg", "png"}, maxAttempts <- 2,
    MaxNow <- 1, MaxFaults <- 2, isConfigured <- v1, bucket <- v2,
    objects <- v3, call <- v4, attempts <- v5, missed <- v6, url <- v7,
    now <- v8, faults <- v9
Wire == INSTANCE Topics WITH
    Catalogues <- Histories, Documents <- Documented,
    Replica <- {"r1", "r2"}, MaxLog <- 1, Produced <- Poison,
    Group <- {"g1", "g2"}, Errors <- Failures, Attempts <- {2},
    ERROR_LIMIT <- 2, MaxLength <- 3, MaxLetters <- 2, history <- v1,
    registry <- v2, version <- v3, log <- v4, decoded <- v5, source <- v1,
    letters <- v2, committed <- v3, gaveUp <- v4
Pay == INSTANCE Payments WITH
    Call <- {"a1", "k1", "r1", "r2"}, Work <- PaymentWork, Amount <- 2,
    MaxAttempts <- 2, TokenTtl <- 2, TOKEN_REFRESH_MARGIN <- 1, MaxNow <- 1,
    MaxFaults <- 2, provider <- v1, now <- v2, gateway <- v3, moved <- v4,
    call <- v5, cachedToken <- v6, tokenRequest <- v7, mints <- v8,
    faults <- v9
Tenants == INSTANCE Tenancy WITH
    Tenant <- {"t1", "t2"}, TENANCY_DEFAULT_TENANT_ID <- "t1",
    Request <- {"r1", "r2"}, Connection <- {"c1"}, Relay <- {"b"},
    maxAttempts <- 2, MaxCrashes <- 1, Environments <- TenancyEnvs,
    Roles <- DbRoles, env <- v1, role <- v2, serving <- v3, request <- v4,
    pool <- v5, order <- v6, saga <- v7, crashes <- v8
Kafka == INSTANCE KafkaBroker WITH
    Process <- {"p1", "p2"}, LastOffset <- 2, MaxRejections <- 1,
    MaxRebalances <- 1, log <- v1, committed <- v2, owner <- v3,
    consumer <- v4, broker <- v5, done <- v6, abandoned <- v7,
    rejections <- v8, rebalances <- v9
Config == INSTANCE Configuration WITH
    Settings <- Configured,
    Samples <- {"", "0", "-1", "0.5", "1", "101", "false", "text"},
    MAX_DATA_KEY_USES <- 20000, given <- v1, config <- v2, phase <- v3,
    trial <- v4
Traces == INSTANCE Telemetry WITH
    Process <- {"api", "worker"}, Event <- {"e1"}, Foreign <- {"f1"},
    Deployments <- Deployed, options <- v1, phase <- v2, provider <- v3,
    installed <- v4, source <- v5, answer <- v6, row <- v7, message <- v8,
    span <- v9
Logs == INSTANCE LogPipeline WITH
    Heap <- Logged, Calls <- LogCalls, Targets <- Requested,
    Environments <- LogEnvs, DEFAULT_ALLOWLIST <- Allowed, MAX_DEPTH <- 3,
    MAX_NODES <- 12, MAX_STRING_LENGTH <- 4, env <- v1, phase <- v2,
    cached <- v3, line <- v4
Scopes == INSTANCE DiScopes WITH
    Request <- {"r1", "r2"}, Job <- {"j1"}, Graphs <- Provided, Calls <- 2,
    AUDIT_BUFFER_LIMIT <- 2, RECENT_INSTANCE_IDS <- 2, graph <- v1,
    report <- v2, attached <- v3, contexts <- v4, lastId <- v5,
    instances <- v6, recent <- v7, pending <- v8, answers <- v9,
    trail <- v10
Signing == INSTANCE Accounts WITH
    Caller <- {"a", "b", "g", "m", "l"}, Call <- SignIns,
    Email <- {"e1", "e2"}, MaxDeletes <- 1, MaxCrashes <- 1, row <- v1,
    tx <- v2, pc <- v3, user <- v4, ledger <- v5, session <- v6,
    deletes <- v7, crashes <- v8
Valued == INSTANCE Values WITH
    Baskets <- Sent, Price <- PriceList, Currency <- {"GBP", "JPY"},
    ZERO_DECIMAL_CURRENCIES <- {"HUF", "JPY", "TWD"},
    MAX_QUANTITY_PER_SKU <- 4, MAX_SAFE_INTEGER <- 400,
    Asked <- {0, 5, 100}, MaxRefunds <- 3, Key <- {"a", "b"},
    Primitive <- {-1}, Production <- {FALSE}, MaxObjects <- 3,
    provider <- v1, currency <- v2, lines <- v3, order <- v4, remote <- v5,
    returned <- v6, payment <- v7, enabled <- v1, heap <- v2, guarded <- v3
Written == INSTANCE Texts WITH
    Heap <- Encoded, Calls <- CachedCalls, Entries <- AuditEntries,
    Requests <- SentRequests, CodeUnit <- [x |-> 1, y |-> 2],
    Writes <- ConditionalWrites, MAX_SAFE_INTEGER <- 32, Puts <- ObjectPuts,
    LowerCase <- Lowered, HeaderName <- {"owner", "tag"},
    Printable <- {"v"}, Size <- Bytes, MAX_KEY_BYTES <- 4,
    MAX_KEY_SEGMENT_BYTES <- 3, MAX_METADATA_BYTES <- 4, subject <- v1,
    written <- v2
Doubles == INSTANCE StandIns WITH
    Order <- <<"s1", "s2">>, Owner <- {"o1", "o2"}, Progresses <- Reported,
    leaseMs <- 1, Lease <- {"l1", "l2", "l3"},
    Asked <- [l1 |-> "f", l2 |-> "f", l3 |-> "g"], Response <- {"r1", "r2"},
    Ttls <- {1, 2}, Emails <- {"ada@x", "bob@x"}, Names <- {"Ada"},
    Search <- {"ada"}, Found <- [ada |-> {"Ada", "ada@x"}],
    Expected <- IfMatches, Patches <- Preferences, MaxLog <- 1,
    LastNow <- [sagas |-> 1, keys |-> 4, users |-> 4], port <- v1,
    stored <- v2, map <- v3, now <- v4, walk <- v5

vars == <<which, v1, v2, v3, v4, v5, v6, v7, v8, v9, v10, v11, v12>>

\* The slots above the first n are not used by the component.
Unused(n) ==
    /\ n < 3 => v3 = 0
    /\ n < 4 => v4 = 0
    /\ n < 5 => v5 = 0
    /\ n < 6 => v6 = 0
    /\ n < 7 => v7 = 0
    /\ n < 8 => v8 = 0
    /\ n < 9 => v9 = 0
    /\ n < 10 => v10 = 0
    /\ n < 11 => v11 = 0
    /\ n < 12 => v12 = 0

Unchanged(n) ==
    /\ n < 3 => v3' = v3
    /\ n < 4 => v4' = v4
    /\ n < 5 => v5' = v5
    /\ n < 6 => v6' = v6
    /\ n < 7 => v7' = v7
    /\ n < 8 => v8' = v8
    /\ n < 9 => v9' = v9
    /\ n < 10 => v10' = v10
    /\ n < 11 => v11' = v11
    /\ n < 12 => v12' = v12

Init ==
    \/ which = "fields" /\ Fields!Init /\ Unused(10)
    \/ which = "certs" /\ Tls!RotationInit /\ Unused(10)
    \/ which = "aspects" /\ Woven!Init /\ Unused(10)
    \/ which = "workers" /\ Pool!Init /\ Unused(12)
    \/ which = "notices" /\ Told!NotifyInit /\ Unused(6)
    \/ which = "disk" /\ Disk!Init /\ Unused(9)
    \/ which = "store" /\ Listed!Init /\ Unused(4)
    \/ which = "bucket" /\ Bucket!Init /\ Unused(9)
    \/ which = "schemas" /\ Wire!ContractInit /\ Unused(5)
    \/ which = "payments" /\ Pay!Init /\ Unused(9)
    \/ which = "tenants" /\ Tenants!Init /\ Unused(8)
    \/ which = "kafka" /\ Kafka!Init /\ Unused(9)
    \/ which = "config" /\ Config!Init /\ Unused(4)
    \/ which = "traces" /\ Traces!Init /\ Unused(9)
    \/ which = "logs" /\ Logs!Init /\ Unused(4)
    \/ which = "scopes" /\ Scopes!Init /\ Unused(10)
    \/ which = "accounts" /\ Signing!Init /\ Unused(8)
    \/ which = "events" /\ Told!BusInit /\ Unused(8)
    \/ which = "peers" /\ Tls!AdmissionInit /\ Unused(4)
    \/ which = "amounts" /\ Valued!PricingInit /\ Unused(7)
    \/ which = "texts" /\ Written!Init /\ Unused(2)
    \/ which = "standins" /\ Doubles!Init /\ Unused(5)
    \/ which = "letters" /\ Wire!LetterInit /\ Unused(4)
    \/ which = "values" /\ Valued!SharingInit /\ Unused(3)

Next ==
    /\ which' = which
    /\ \/ which = "fields" /\ Fields!Next /\ Unchanged(10)
       \/ which = "certs" /\ Tls!RotationNext /\ Unchanged(10)
       \/ which = "aspects" /\ Woven!Next /\ Unchanged(10)
       \/ which = "workers" /\ Pool!Next /\ Unchanged(12)
       \/ which = "notices" /\ Told!NotifyNext /\ Unchanged(6)
       \/ which = "disk" /\ Disk!Next /\ Unchanged(9)
       \/ which = "store" /\ Listed!Next /\ Unchanged(4)
       \/ which = "bucket" /\ Bucket!Next /\ Unchanged(9)
       \/ which = "schemas" /\ Wire!ContractNext /\ Unchanged(5)
       \/ which = "payments" /\ Pay!Next /\ Unchanged(9)
       \/ which = "tenants" /\ Tenants!Next /\ Unchanged(8)
       \/ which = "kafka" /\ Kafka!Next /\ Unchanged(9)
       \/ which = "config" /\ Config!Next /\ Unchanged(4)
       \/ which = "traces" /\ Traces!Next /\ Unchanged(9)
       \/ which = "logs" /\ Logs!Next /\ Unchanged(4)
       \/ which = "scopes" /\ Scopes!Next /\ Unchanged(10)
       \/ which = "accounts" /\ Signing!Next /\ Unchanged(8)
       \/ which = "events" /\ Told!BusNext /\ Unchanged(8)
       \/ which = "peers" /\ Tls!AdmissionNext /\ Unchanged(4)
       \/ which = "amounts" /\ Valued!PricingNext /\ Unchanged(7)
       \/ which = "texts" /\ Written!Next /\ Unchanged(2)
       \/ which = "standins" /\ Doubles!Next /\ Unchanged(5)
       \/ which = "letters" /\ Wire!LetterNext /\ Unchanged(4)
       \/ which = "values" /\ Valued!SharingNext /\ Unchanged(3)

Spec == Init /\ [][Next]_vars

-----------------------------------------------------------------------------
\* The cache hands out no data key that is spent, and a sealed field opens only as
\* itself (isSpent, FieldEncryptionService); what a TLS peer is shown is one whole
\* issue, certificate, key and chain (loads, KeyMaterialService).
KeysInOrder ==
    /\ which = "fields" => Fields!KeysRetire /\ Fields!OpensOwn
    /\ which = "certs" => Tls!PresentsWhole

\* A lock covers every attempt of the call it is woven around, and one process
\* computes a cached value once at a time (weave, AspectWeaver).
AspectsNest == which = "aspects" => Woven!LockCoversLadder /\ Woven!SingleFlight

\* Work taken on is accounted for: worker slots after timeouts and crashes
\* (WorkerThreadPool), channels after fallbacks and failures (notify).
EveryJobAccounted ==
    /\ which = "workers" => Pool!SlotsAccounted
    /\ which = "notices" => Told!ReportTrue /\ Told!TransactionalTried

\* Files and directories behave as the object store the port describes, at
\* every step of every interleaving (LocalDiskStorageAdapter).
DiskIsStore == [][which = "disk" => Disk!StoreStep]_vars

\* "not found" is only said of an object that was not there, or when a bare HEAD
\* met a bucket that was not, and an upload the store takes is the one that was
\* signed (isMissingObject, presignPut); pages read while others write still hold
\* every object that stayed, unless a directory of the walk was pruned under it
\* (list, walk); a key and its metadata are the same on every adapter
\* (assertValidObjectKey, normaliseMetadata).
StoreTruthful ==
    /\ which = "bucket" => Bucket!NotFoundIsTrue /\ Bucket!UploadsAsSigned
    /\ which = "store" => Listed!PagesMissNothing
    /\ which = "disk" => Disk!ListsWhole
    /\ which = "texts" => Written!SameEverywhere

\* No reader of any deployed version rejects what any version's writer put on
\* the topic (assertHistoryIsFullyCompatible, checkCompatibility).
NothingDeadLettered ==
    which = "schemas" => Wire!NothingDeadLettered /\ Wire!DirectionsSound

\* Retries never move money twice, concurrent calls share one token request
\* (idempotent, accessToken), and basket, charge and refunds agree to the minor
\* unit through every conversion (priceOrder, toDecimalString, sumRefunds).
MoneyMovesOnce ==
    /\ which = "payments" => Pay!MoneyMovesOnce /\ Pay!OneTokenRequest
    /\ which = "amounts" => Valued!AmountsAgree

\* A request reads and writes one tenant's rows, on pooled connections and
\* across relays (PrismaTransactionRunner, TenantGuard).
TenantsApart == which = "tenants" => Tenants!TenantsApart

\* No offset is committed before the messages below it are handled, through
\* rejections and rebalances (KafkaBroker.reject, commit).
NothingSkipped == which = "kafka" => Kafka!NothingSkipped

\* What boot decides is true: an accepted environment keeps its time budgets
\* nested, reads no switch the other way and gives every feature what was
\* validated, and the defaults boot a clean clone (envSchema); the scope audit
\* blames the nearest request-scoped provider while every request keeps one
\* context (ScopeAudit).
BootVerdictsHold ==
    /\ which = "config" => /\ Config!BudgetsHold /\ Config!SwitchesHonoured
                           /\ Config!ReadingsAgree /\ Config!CleanCloneBoots
    /\ which = "scopes" => Scopes!BlameIsNearest /\ Scopes!OneContextEach

\* What leaves the process for those who watch it is sound: a consumer's work
\* joins the trace of the request that staged the event (extractTraceContext,
\* currentTraceCarrier), and no message and no value in a line holds a
\* credential or comes from outside the allowlist (redactFields, scrubSecrets).
SignalsSound ==
    /\ which = "traces" => Traces!TraceJoined
    /\ which = "logs" => Logs!LinesClean

\* The adapters a clean clone runs on keep the promises of those they stand in
\* for: the saga map answers as the table (InMemorySagaStore), the dedupe map
\* as Redis (InMemoryIdempotencyStore), the users' maps as their table, and
\* whoever pages through the users sees each once (buildCursorPage).
StandInsHold ==
    which = "standins" =>
        Doubles!DoubleIsTable /\ Doubles!MapIsRedis /\ Doubles!UsersAlike /\ Doubles!WalkWhole

\* An account is announced once for each row that was committed, however the
\* sign-ins race (register, loginWithGoogle), and an event is marked delivered
\* only once every subscriber ran (publishAndSettle).
AnnouncedOnce ==
    /\ which = "accounts" => Signing!AnnouncedOnce
    /\ which = "events" => Told!DeliveredIsHandled

\* What is written down means one thing to whoever reads it: If-Match against
\* what a sender may write (parseIfMatch), cache keys, request fingerprints and
\* audit preimages against the values they stand for, an upload's bytes apart
\* (stableStringify, fingerprint, auditEntryPreimage), and a
\* dead letter against the record and the failure it reports (toDeadLetterMessage).
FormsReadBack ==
    /\ which = "texts" => Written!TextIsValue /\ Written!MatchesTheTag
    /\ which = "letters" => Wire!LettersFaithful

\* A peer is admitted exactly when its certificate names an allowed identity
\* (parseSubjectAltName, authorizePeer).
ServesItsPeers == which = "peers" => Tls!ServesItsPeers

\* The properties a frozen value shows never change (deepFreeze,
\* preserveFrozenness).
SharedStands == [][which = "values" => Valued!NeverRewritten]_vars
=============================================================================
