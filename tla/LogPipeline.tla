----------------------------- MODULE LogPipeline -----------------------------
(***************************************************************************)
(* What a log call becomes before it reaches a sink.  TelemetryLogger      *)
(* splits Nest's positional arguments into an event (toLogEvent), runs the *)
(* memoised processor chain over it, and hands the result to the console   *)
(* and to OpenTelemetry alike.  The chain scrubs credentials from the      *)
(* message and walks the fields, keeping every key and replacing every     *)
(* value whose path the allowlist does not name.                           *)
(*                                                                         *)
(* A string is a sequence of words; a credential is the three consecutive  *)
(* words "jh", "jp", "js", and only the whole of it is recognisable (as a  *)
(* token without its signature is to the JWT pattern).  Logged objects are *)
(* nodes of a heap, so they may be shared or cyclic, and one of them may   *)
(* have an accessor that throws when the walk enumerates it.  A key is an  *)
(* atom, whoever chose it: the walk keeps it as it is.                     *)
(***************************************************************************)
EXTENDS Naturals, Sequences, FiniteSets, SequencesExt

CONSTANTS Heap,              \* node -> value; a container lists <<key, node>>
          Calls,             \* log calls: of a named logger with its name last, or not
          Targets,           \* request targets: sequences of <<key, text>>, both the client's
          Environments,      \* process environments, valid or not
          DEFAULT_ALLOWLIST, \* patterns, each a sequence of segments
          MAX_DEPTH, MAX_NODES, MAX_STRING_LENGTH

VARIABLES env,     \* process.env
          phase,   \* "loading" until envSchema has judged, then "serving" or "refused"
          cached,  \* the memoised chain: the patterns compiled, or "passthrough"
          line     \* the last record written, as both sinks received it

vars == <<env, phase, cached, line>>

Credential == <<"jh", "jp", "js">>
Str(text) == [kind |-> "string", text |-> text]
Nullish == [kind |-> "nullish"]
Container(value) == value.kind \in {"array", "record"}

\* The entries of a container: a heap object's by reference, a built one's as they are.
Kids(value) == IF "refs" \in DOMAIN value
               THEN [i \in DOMAIN value.refs |-> <<value.refs[i][1], Heap[value.refs[i][2]]>>]
               ELSE value.of
ArrayOf(id, values) ==
    [kind |-> "array", id |-> id, of |-> [i \in DOMAIN values |-> <<"[]", values[i]>>]]

-----------------------------------------------------------------------------
(* Scrubbing and matching *)

RECURSIVE replaceCredentials(_)
replaceCredentials(text) ==
    IF Len(text) < 3 THEN text
    ELSE IF SubSeq(text, 1, 3) = Credential
         THEN <<"redacted">> \o replaceCredentials(SubSeq(text, 4, Len(text)))
         ELSE <<Head(text)>> \o replaceCredentials(Tail(text))

Cut(text) == IF Len(text) <= MAX_STRING_LENGTH THEN text
             ELSE SubSeq(text, 1, MAX_STRING_LENGTH) \o <<"cut">>

\* Bounding the string before looking for credentials in it.
scrubSecretsAfterCut(text) == replaceCredentials(Cut(text))

scrubSecrets(text) == Cut(replaceCredentials(text))

\* Segment by segment and equally long; "*" stands for a key, never an element.
matchesPattern(path, pattern) ==
    /\ Len(path) = Len(pattern)
    /\ \A i \in DOMAIN pattern : IF pattern[i] = "*" THEN path[i] # "[]"
                                 ELSE pattern[i] = path[i]

admits(patterns, path) == \E pattern \in patterns : matchesPattern(path, pattern)

\* Operators may not begin a pattern with the wildcard; an entry that does not
\* parse is the empty pattern here.
isPermittedOperatorPattern(pattern) == pattern # <<>> /\ Head(pattern) # "*"

-----------------------------------------------------------------------------
(* The walk: a result is what is left of the budget and what is shown where *)

Shown(as, text) == [as |-> as, text |-> text]
At(path, as, text) == {[path |-> path, shown |-> Shown(as, text)]}

RECURSIVE redactValue(_, _, _, _, _)
RECURSIVE redactChildren(_, _, _, _, _)

\* Children in order, each with what its predecessors left of the budget.
redactChildren(patterns, kids, path, seen, budget) ==
    IF kids = <<>> THEN [nodes |-> budget, out |-> {}]
    ELSE LET head == redactValue(patterns, kids[1][2], Append(path, kids[1][1]), seen, budget)
             rest == redactChildren(patterns, Tail(kids), path, seen, head.nodes)
         IN  [nodes |-> rest.nodes, out |-> head.out \cup rest.out]

\* A leaf the allowlist admits: strings are scrubbed, scalars and dates pass,
\* an object nobody can vouch for does not.
Leaf(value, path) ==
    CASE value.kind = "string" -> At(path, "text", scrubSecrets(value.text))
      [] value.kind = "number" -> At(path, "text", <<"number">>)
      [] OTHER -> At(path, "redacted", <<>>)

redactValue(patterns, value, path, seen, budget) ==
    LET nodes == budget - 1
        truncated == [nodes |-> nodes, out |-> At(path, "truncated", <<>>)]
    IN  CASE budget = 0 -> [nodes |-> 0, out |-> At(path, "truncated", <<>>)]
          [] budget > 0 /\ value.kind = "nullish" ->
               [nodes |-> nodes, out |-> At(path, "nullish", <<>>)]
          [] budget > 0 /\ value.kind # "nullish" /\ Len(path) > MAX_DEPTH -> truncated
          [] budget > 0 /\ Container(value) /\ Len(path) <= MAX_DEPTH ->
               IF value.id \in seen THEN truncated
               ELSE IF \E i \in DOMAIN Kids(value) : Kids(value)[i][2].kind = "throws"
               THEN [nodes |-> nodes, out |-> At(path, "threw", <<>>)]
               ELSE redactChildren(patterns, Kids(value), path, seen \cup {value.id}, nodes)
          [] OTHER -> [nodes |-> nodes,
                       out |-> IF admits(patterns, path) THEN Leaf(value, path)
                               ELSE At(path, "redacted", <<>>)]

redactRecord(patterns, fields) == redactChildren(patterns, fields, <<>>, {}, MAX_NODES).out

\* With no processors the fields are rendered as they are.
RECURSIVE rendered(_, _, _)
rendered(value, path, seen) ==
    CASE Container(value) ->
           IF value.id \in seen THEN {}
           ELSE UNION {rendered(Kids(value)[i][2], Append(path, Kids(value)[i][1]),
                                seen \cup {value.id}) : i \in DOMAIN Kids(value)}
      [] value.kind = "string" -> At(path, "text", value.text)
      [] OTHER -> At(path, value.kind, <<>>)

-----------------------------------------------------------------------------
(* From positional arguments to an event *)

IsString(value) == value.kind = "string"
EndsInString(params) == params # <<>> /\ IsString(Last(params))

\* Object spread: a repeated key keeps its place and takes the new value.
With(fields, key, value) ==
    IF \E i \in DOMAIN fields : fields[i][1] = key
    THEN [i \in DOMAIN fields |-> IF fields[i][1] = key THEN <<key, value>> ELSE fields[i]]
    ELSE Append(fields, <<key, value>>)

\* The context is the last parameter if that is a string, whoever passed it, and is
\* printed as it is; for errors the string before it is the stack.  What is left of the parameters is "extra", except beside an Error.
toLogEvent(level, message, given) ==
    LET afterContext == IF EndsInString(given) THEN Front(given) ELSE given
        hasStack == level \in {"error", "fatal"} /\ EndsInString(afterContext)
        params == IF hasStack THEN Front(afterContext) ELSE afterContext
        context == IF EndsInString(given) THEN Last(given).text ELSE <<>>
        event(text, fields) == [context |-> context, text |-> text, fields |-> fields]
        stacked(fields) == IF hasStack THEN With(fields, "stack", Last(afterContext)) ELSE fields
        extra(fields) ==
            IF params # <<>> THEN With(fields, "extra", ArrayOf("extra", params)) ELSE fields
        Embedded(kv) == kv[1] = "message"
        texts == SelectSeq(Kids(message), LAMBDA kv : Embedded(kv) /\ IsString(kv[2]))
        rest == SelectSeq(Kids(message), LAMBDA kv : ~Embedded(kv))
    IN  CASE message.kind = "record" ->
               event(IF texts = <<>> THEN <<>> ELSE texts[1][2].text, extra(stacked(rest)))
          [] message.kind = "error" ->
               event(message.text, With(With(stacked(<<>>), "errorType", Str(<<"Error">>)),
                                        "stack", Str(message.stack)))
          [] message.kind = "string" -> event(message.text, extra(stacked(<<>>)))
          [] OTHER -> event(<<"<Object>">>, With(extra(stacked(<<>>)), "messageObject", message))

-----------------------------------------------------------------------------
(* The chain, memoised at the first logger *)

Accepted(e) ==
    /\ e.valid
    /\ e.production => e.enabled
    /\ \A pattern \in e.extraAllowlist : isPermittedOperatorPattern(pattern)

\* Fails closed: an environment that does not parse is redacted by the defaults.
readLoggingEnv(e) ==
    IF Accepted(e) THEN [enabled |-> e.enabled, extraAllowlist |-> e.extraAllowlist]
    ELSE [enabled |-> TRUE, extraAllowlist |-> {}]

defaultProcessors(e) ==
    LET read == readLoggingEnv(e) IN
    IF read.enabled THEN [redacts |-> TRUE, patterns |-> DEFAULT_ALLOWLIST \cup read.extraAllowlist]
    ELSE [redacts |-> FALSE, patterns |-> {}]

Unread == [redacts |-> TRUE, patterns |-> {<<"unread">>}]
Chain == IF cached = Unread THEN defaultProcessors(env) ELSE cached

\* A walk that threw leaves nothing of the record: level and context only.
failureSubstitute(event) ==
    [withheld |-> TRUE, context |-> event.context, text |-> <<"withheld">>, fields |-> {}]

runProcessors(chain, event) ==
    IF ~chain.redacts
    THEN [withheld |-> FALSE, context |-> event.context, text |-> event.text,
          fields |-> UNION {rendered(event.fields[i][2], <<event.fields[i][1]>>, {}) :
                            i \in DOMAIN event.fields}]
    ELSE LET fields == redactRecord(chain.patterns, event.fields) IN
         IF \E entry \in fields : entry.shown.as = "threw" THEN failureSubstitute(event)
         ELSE [withheld |-> FALSE, context |-> event.context,
               text |-> scrubSecrets(event.text), fields |-> fields]

\* TelemetryLogger.write; the chain's default argument memoises it.
write(event) ==
    /\ phase # "refused"
    /\ cached' = Chain
    /\ line' = runProcessors(Chain, event)
    /\ UNCHANGED <<env, phase>>

log(call) == write(toLogEvent(call.level, Heap[call.message],
                              [i \in DOMAIN call.params |-> Heap[call.params[i]]]))

\* The query as a record: a key given twice becomes an array of its values.
splitTarget(pairs) ==
    LET Add(query, pair) ==
            LET old == SelectSeq(query, LAMBDA kv : kv[1] = pair[1]) IN
            With(query, pair[1],
                 IF old = <<>> THEN Str(pair[2])
                 ELSE IF IsString(old[1][2])
                 THEN ArrayOf(pair[1], <<old[1][2], Str(pair[2])>>)
                 ELSE ArrayOf(pair[1], [i \in DOMAIN old[1][2].of |-> old[1][2].of[i][2]]
                                       \o <<Str(pair[2])>>))
    IN  [kind |-> "record", id |-> "query", of |-> FoldLeft(Add, <<>>, pairs)]

\* LoggingInterceptor.writeLog, once per request served.
writeLog(target) ==
    /\ phase = "serving"
    /\ write([context |-> <<"LoggingInterceptor">>, text |-> <<"request">>,
              fields |-> <<<<"path", Str(<<"path">>)>>, <<"query", splitTarget(target)>>,
                           <<"userId", Nullish>>>>])

\* ConfigModule validates the environment after the first loggers exist.
envSchema ==
    /\ phase = "loading"
    /\ phase' = IF Accepted(env) THEN "serving" ELSE "refused"
    /\ UNCHANGED <<env, cached, line>>

Init ==
    /\ env \in Environments
    /\ phase = "loading" /\ cached = Unread
    /\ line = [withheld |-> FALSE, context |-> <<>>, text |-> <<>>, fields |-> {}]

Next ==
    \/ envSchema
    \/ \E call \in Calls : log(call)
    \/ \E target \in Targets : writeLog(target)

Spec == Init /\ [][Next]_vars

-----------------------------------------------------------------------------
\* What a pattern is written to name, over the paths of this instance.
Reads(pattern, path) ==
    /\ Len(path) = Len(pattern)
    /\ \A i \in DOMAIN path : pattern[i] \in {path[i]} \cup (IF path[i] = "[]" THEN {} ELSE {"*"})

\* The message and the values of the fields that either sink is given hold no word of
\* a credential, whole or cut in two, and no value at a path that neither the default
\* list nor an accepted operator entry names, for any log call before or after the
\* environment is judged.  It says nothing of the names of fields, nor of the context:
\* both are printed as they come.  Switching redaction off is honoured outside
\* production only (write, runProcessors, redactValue, scrubSecrets, readLoggingEnv).
LinesClean ==
    (cached # Unread /\ ~(Accepted(env) /\ ~env.enabled)) =>
        /\ \A i \in DOMAIN line.text : line.text[i] \notin {"jh", "jp", "js"}
        /\ \A entry \in line.fields : entry.shown.as = "text" =>
             /\ \A i \in DOMAIN entry.shown.text : entry.shown.text[i] \notin {"jh", "jp", "js"}
             /\ \E pattern \in DEFAULT_ALLOWLIST \cup
                      (IF Accepted(env) THEN env.extraAllowlist ELSE {}) : Reads(pattern, entry.path)
=============================================================================
