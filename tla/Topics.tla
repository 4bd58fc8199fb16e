------------------------------- MODULE Topics -------------------------------
(***************************************************************************)
(* What the topics hold (src/schema-registry, src/messaging): payloads     *)
(* written and read by builds of different ages, and the copies of records *)
(* consumers gave up on.  The two share no state: each is a specification  *)
(* of its own.                                                             *)
(***************************************************************************)
EXTENDS Sequences, FiniteSets, Integers, SequencesExt, TLC

-----------------------------------------------------------------------------
(***************************************************************************)
(* Event contracts during a rolling deploy (src/src/schema-registry and    *)
(* messaging/domain-event-codec.ts).  A registry boots from a history of   *)
(* schemas, refusing one outside the profile or not FULL_TRANSITIVE        *)
(* compatible; replicas on any version of it then encode events, checked   *)
(* against their own newest schema, onto one retained topic that replicas  *)
(* on any other version decode.                                            *)
(*                                                                         *)
(* A schema node is an object, an array or a scalar, a document likewise;  *)
(* an absent enum is {} and an absent format "none".                       *)
(***************************************************************************)

CONSTANTS
    Catalogues,     \* the candidate histories, oldest version first
    Documents,      \* the payloads writers may have to say
    Replica,        \* the replicas of the service
    MaxLog          \* bound: messages on the topic

VARIABLES
    history,        \* the catalogue of the newest build
    registry,       \* whether it boots: "booting", "ready" or "refused"
    version,        \* per replica, the newest version its build knows
    log,            \* the retained topic: payload and writer's version
    decoded         \* what became of reads: <<writer's version, reader's, accepted>>

contractVars == <<history, registry, version, log, decoded>>

PRIMITIVE_TYPES == {"string", "number", "integer", "boolean", "null"}

\* The types JSON Schema gives a scalar document, by its kind of value.
TypesOf(value) ==
    CASE value \in {"s1", "s2"} -> {"string"}
      [] value = "i1" -> {"integer", "number"}
      [] value = "n1" -> {"number"}
      [] value = "nil" -> {"null"}

RECURSIVE assertNodeInProfile(_)
RECURSIVE compareNodes(_, _)
RECURSIVE compiled(_, _)
RECURSIVE declared(_, _)

\* The profile is closed, the content model open.
assertNodeInProfile(node) ==
    CASE node.kind = "object" ->
            /\ node.required \subseteq DOMAIN node.properties
            /\ node.additionalProperties
            /\ \A key \in DOMAIN node.properties : assertNodeInProfile(node.properties[key])
      [] node.kind = "array" -> assertNodeInProfile(node.items)
      [] node.kind = "scalar" -> node.types # {} /\ node.types \subseteq PRIMITIVE_TYPES

assertInProfile(schema) == schema.kind = "object" /\ assertNodeInProfile(schema)

\* Every type of subset is accepted by superset; integer is within number.
covers(superset, subset) ==
    \A type \in subset : type \in superset \/ (type = "integer" /\ "number" \in superset)

BOTH_DIRECTIONS == {"backward", "forward"}

enumBreaks(previous, next) ==
    (IF previous \subseteq next THEN {} ELSE {"backward"})
        \cup (IF next \subseteq previous THEN {} ELSE {"forward"})

\* A constraint that may be absent on either side, where absent is "none".
compareConstraint(previous, next, none, whenDifferent) ==
    IF previous = next THEN {}
    ELSE IF previous = none THEN {"backward"}
    ELSE IF next = none THEN {"forward"}
    ELSE whenDifferent

compareScalars(previous, next) ==
    (IF covers(next.types, previous.types) THEN {} ELSE {"backward"})
        \cup (IF covers(previous.types, next.types) THEN {} ELSE {"forward"})
        \cup compareConstraint(previous.enum, next.enum, {}, enumBreaks(previous.enum, next.enum))
        \cup compareConstraint(previous.format, next.format, "none", BOTH_DIRECTIONS)

compareObjects(previous, next) ==
    LET both == DOMAIN previous.properties \cap DOMAIN next.properties
        removed == DOMAIN previous.properties \ both
        added == DOMAIN next.properties \ both
    IN  UNION {compareNodes(previous.properties[key], next.properties[key]) : key \in both}
        \cup (IF \E key \in both : key \in next.required \ previous.required
              THEN {"backward"} ELSE {})
        \cup (IF \E key \in both : key \in previous.required \ next.required
              THEN {"forward"} ELSE {})
        \cup (IF removed \cap previous.required # {} THEN {"forward"} ELSE {})
        \cup (IF added \cap next.required # {} THEN {"backward"} ELSE {})

\* The directions in which next is not a compatible successor of previous.
compareNodes(previous, next) ==
    CASE previous.kind # next.kind -> BOTH_DIRECTIONS
      [] previous.kind = next.kind /\ next.kind = "object" -> compareObjects(previous, next)
      [] previous.kind = next.kind /\ next.kind = "array" ->
            compareNodes(previous.items, next.items)
      [] previous.kind = next.kind /\ next.kind = "scalar" -> compareScalars(previous, next)

checkCompatibility(previous, next) == compareNodes(previous, next)

\* FULL: each version against its predecessor only.
assertHistoryIsConsecutive(versions) ==
    \A i \in 1..Len(versions) - 1 : checkCompatibility(versions[i], versions[i + 1]) = {}

\* FULL_TRANSITIVE: every version against every earlier one.
assertHistoryIsFullyCompatible(versions) ==
    \A i, j \in DOMAIN versions : i < j => checkCompatibility(versions[i], versions[j]) = {}

\* What Ajv compiles a node into.
compiled(node, doc) ==
    CASE node.kind = "object" ->
            /\ doc.kind = "object"
            /\ node.required \subseteq DOMAIN doc.props
            /\ node.additionalProperties \/ DOMAIN doc.props \subseteq DOMAIN node.properties
            /\ \A key \in DOMAIN doc.props \cap DOMAIN node.properties :
                    compiled(node.properties[key], doc.props[key])
      [] node.kind = "array" ->
            /\ doc.kind = "array"
            /\ \A i \in DOMAIN doc.items : compiled(node.items, doc.items[i])
      [] node.kind = "scalar" ->
            /\ doc.kind = "scalar"
            /\ TypesOf(doc.value) \cap node.types # {}
            /\ node.enum # {} => doc.value \in node.enum
            /\ node.format # "none" /\ TypesOf(doc.value) = {"string"} => doc.value = "s1"

\* What a build types as the payload: no property its schema does not declare.
declared(node, doc) ==
    CASE node.kind = "object" /\ doc.kind = "object" ->
            \A key \in DOMAIN doc.props :
                key \in DOMAIN node.properties /\ declared(node.properties[key], doc.props[key])
      [] node.kind = "array" /\ doc.kind = "array" ->
            \A i \in DOMAIN doc.items : declared(node.items, doc.items[i])
      [] OTHER -> TRUE

latest(r) == history[version[r]]

validate(r, payload) == compiled(latest(r), payload)

ContractInit ==
    /\ history \in Catalogues
    /\ registry = "booting"
    /\ version = [r \in Replica |-> 1]
    /\ log = {}
    /\ decoded = {}

\* LocalSchemaRegistry's constructor.
construct ==
    /\ registry = "booting"
    /\ registry' = IF /\ \A i \in DOMAIN history : assertInProfile(history[i])
                      /\ assertHistoryIsFullyCompatible(history)
                   THEN "ready" ELSE "refused"
    /\ UNCHANGED <<history, version, log, decoded>>

\* A replica is replaced by a newer build, or rolled back to an older one.
deploy(r, v) ==
    /\ registry = "ready"
    /\ v # version[r]
    /\ version' = [version EXCEPT ![r] = v]
    /\ UNCHANGED <<history, registry, log, decoded>>

\* The outbox publisher; SchemaValidationError leaves the row where it is.
encodeDomainEvent(r, payload) ==
    /\ registry = "ready"
    /\ Cardinality(log) < MaxLog
    /\ declared(latest(r), payload)
    /\ validate(r, payload)
    /\ log' = log \cup {[payload |-> payload, version |-> version[r]]}
    /\ UNCHANGED <<history, registry, version, decoded>>

\* A consumer reads a message from anywhere in the retained topic.
decodeDomainEvent(r, message) ==
    /\ decoded' = decoded \cup
            {<<message.version, version[r], validate(r, message.payload)>>}
    /\ UNCHANGED <<history, registry, version, log>>

ContractNext ==
    \/ construct
    \/ \E r \in Replica :
        \/ \E v \in DOMAIN history : deploy(r, v)
        \/ \E payload \in Documents : encodeDomainEvent(r, payload)
        \/ \E message \in log : decodeDomainEvent(r, message)

ContractSpec == ContractInit /\ [][ContractNext]_contractVars

-----------------------------------------------------------------------------
(* No event that some version's writer could put on the topic is dead-     *)
(* lettered by any version's reader, in any order of deploys and rollbacks *)
(* and however long the topic is retained (checkCompatibility,             *)
(* assertHistoryIsFullyCompatible: "Every step legal, the end points       *)
(* incompatible, and the first symptom is a replay dead-lettering the      *)
(* beginning of the topic").                                               *)
NothingDeadLettered == \A read \in decoded : read[3]

(* The direction a finding does not name is safe: with no "backward" a     *)
(* reader of the second schema takes whatever a writer of the first        *)
(* declares and its own contract accepts, with no "forward" the reverse,   *)
(* for every candidate history the registry is offered, refused ones too   *)
(* (checkCompatibility, findings[].breaks).                                *)
DirectionsSound ==
    \A i, j \in DOMAIN history :
        (i < j /\ assertInProfile(history[i]) /\ assertInProfile(history[j])) =>
            LET breaks == checkCompatibility(history[i], history[j])
                reads(reader, writer) == \A doc \in Documents :
                    declared(writer, doc) /\ compiled(writer, doc) => compiled(reader, doc)
            IN  /\ "backward" \notin breaks => reads(history[j], history[i])
                /\ "forward" \notin breaks => reads(history[i], history[j])

-----------------------------------------------------------------------------
(***************************************************************************)
(* Dead-letter copies (src/messaging/dead-letter.ts,                        *)
(* dead-letter-queue.service.ts): consumer groups give up on records of a   *)
(* source topic and copy them to the dead-letter topic, with headers that   *)
(* say what failed and where the original is; an operator may produce a     *)
(* copy back, with those headers or without, and it may fail again.         *)
(* Headers are a record: own, the producer's, and dlt, the set under the    *)
(* dlt- prefix, empty or one description.  An error is its class, "none"    *)
(* for what is not an Error, and the length of its message.  Dead-lettering *)
(* is enabled.                                                              *)
(***************************************************************************)

CONSTANTS
    Produced,     \* what the producers wrote: [key, value, own]
    Group,        \* the consumer groups
    Errors,       \* what consumers give up on: [class, length]
    Attempts,     \* attempts made before giving up
    ERROR_LIMIT,
    MaxLength,    \* bound: records on the source topic
    MaxLetters    \* bound: dead letters

VARIABLES
    source,       \* the source topic's records, by offset
    letters,      \* the dead-letter topic's
    committed,    \* committed[g]: records the group is past
    gaveUp        \* history: per letter, the failure it was written for

letterVars == <<source, letters, committed, gaveUp>>

NoDlt == <<>>

LetterInit ==
    /\ source = [n \in DOMAIN Produced |->
                    [key |-> Produced[n].key, value |-> Produced[n].value,
                     headers |-> [own |-> Produced[n].own, dlt |-> NoDlt]]]
    /\ letters = <<>>
    /\ committed = [g \in Group |-> 0]
    /\ gaveUp = <<>>

\* A message over the limit keeps limit - 1 characters and an ellipsis.
truncateLate(length) == IF length <= ERROR_LIMIT + 1 THEN length ELSE ERROR_LIMIT
truncate(length) == IF length <= ERROR_LIMIT THEN length ELSE ERROR_LIMIT

\* The constructor's name, or the type of what was thrown.
errorTypeOf(e) == IF e.class = "none" THEN "object" ELSE e.class

\* { ...context, ...message.headers }
toDeadLetterMessageFirst(record, offset, context) ==
    [key |-> record.key, value |-> record.value,
     headers |-> [own |-> record.headers.own,
                  dlt |-> IF record.headers.dlt # NoDlt THEN record.headers.dlt
                          ELSE << [reason |-> context.reason, error |-> truncate(context.error.length),
                                   errorType |-> errorTypeOf(context.error),
                                   attempts |-> context.attempts, group |-> context.group,
                                   originOffset |-> offset] >>]]

\* { ...message.headers, ...context }: an earlier set is overwritten.
toDeadLetterMessage(record, offset, context) ==
    [key |-> record.key, value |-> record.value,
     headers |-> [own |-> record.headers.own,
                  dlt |-> << [reason |-> context.reason, error |-> truncate(context.error.length),
                              errorType |-> errorTypeOf(context.error),
                              attempts |-> context.attempts, group |-> context.group,
                              originOffset |-> offset] >>]]

Handled(g) ==
    /\ committed[g] < Len(source)
    /\ committed' = [committed EXCEPT ![g] = @ + 1]
    /\ UNCHANGED <<source, letters, gaveUp>>

Copied(g, context) ==
    LET offset == committed[g] + 1
    IN  /\ committed[g] < Len(source)
        /\ Len(letters) < MaxLetters
        /\ letters' = Append(letters, toDeadLetterMessage(source[offset], offset, context))
        /\ gaveUp' = Append(gaveUp, context @@ [offset |-> offset])

\* DeadLetterQueue.send resolves, and the consumer commits.
send(g, context) ==
    /\ Copied(g, context)
    /\ committed' = [committed EXCEPT ![g] = @ + 1]
    /\ UNCHANGED source

\* DeadLetterPublishError although the broker took the copy: no commit, the
\* record is delivered again and may fail otherwise.
sendUnacknowledged(g, context) ==
    /\ Copied(g, context)
    /\ UNCHANGED <<source, committed>>

\* An operator produces a copy back to its origin topic.
redrive(n, strip) ==
    /\ n \in DOMAIN letters
    /\ Len(source) < MaxLength
    /\ source' = Append(source, IF strip THEN [letters[n] EXCEPT !.headers.dlt = NoDlt]
                                         ELSE letters[n])
    /\ UNCHANGED <<letters, committed, gaveUp>>

\* What dispatch() gives up with: a decode is one attempt, a ladder several.
giveUp(g) ==
    [group : {g}, reason : {"undecodable", "schema-invalid"}, attempts : {1}, error : Errors]
    \cup [group : {g}, reason : {"handler-failed"}, attempts : Attempts, error : Errors]

LetterNext ==
    \/ \E g \in Group : Handled(g)
    \/ \E g \in Group : \E context \in giveUp(g) :
        send(g, context) \/ sendUnacknowledged(g, context)
    \/ \E n \in 1..MaxLetters, strip \in BOOLEAN : redrive(n, strip)

LetterSpec == LetterInit /\ [][LetterNext]_letterVars

-----------------------------------------------------------------------------
\* What a producer wrote at the start of the record's history.
Originals == {<<p.key, p.value, p.own>> : p \in Range(Produced)}

(* A dead letter can be believed: its key, value and producer's headers are  *)
(* those of the record at its origin coordinates, and of what a producer     *)
(* first wrote however often it was redriven; its dlt- set describes the     *)
(* failure that put it there and no earlier one; and its error header fits   *)
(* (toDeadLetterMessage: "the header set always describes the most recent    *)
(* failure and the origin coordinates always point at the topic it would be  *)
(* redriven to next").                                                       *)
LettersFaithful ==
    \A n \in DOMAIN letters :
        LET letter == letters[n]
            dlt == letter.headers.dlt[1]
            record == source[dlt.originOffset]
        IN  /\ Len(letter.headers.dlt) = 1
            /\ <<letter.key, letter.value, letter.headers.own>>
                = <<record.key, record.value, record.headers.own>>
            /\ <<letter.key, letter.value, letter.headers.own>> \in Originals
            /\ <<dlt.group, dlt.reason, dlt.attempts, dlt.originOffset>>
                = <<gaveUp[n].group, gaveUp[n].reason, gaveUp[n].attempts, gaveUp[n].offset>>
            /\ dlt.error <= ERROR_LIMIT
            /\ gaveUp[n].error.length < ERROR_LIMIT => dlt.error = gaveUp[n].error.length
            /\ gaveUp[n].error.length > ERROR_LIMIT => dlt.error = ERROR_LIMIT
=============================================================================
