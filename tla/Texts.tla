-------------------------------- MODULE Texts --------------------------------
(***************************************************************************)
(* The texts the application compares instead of values, written and read   *)
(* by pure functions: the cache key of a call                               *)
(* (src/common/aspects/cache-key.ts), the preimage of an audit entry's hash *)
(* (src/audit/audit-hash.ts) and of a request's fingerprint                 *)
(* (src/common/idempotency/idempotency-key.ts), the entity tag of a version *)
(* and the If-Match field read back from a request (src/common/concurrency),*)
(* and object keys with their metadata, which three adapters keep           *)
(* differently (src/storage/object-key.ts).  Where a scanner or a boundary  *)
(* between texts is what the property is about, a text is a sequence of     *)
(* characters or tokens; values are objects of a heap, so they may be       *)
(* shared and cyclic, and metadata a sequence of <<key, value>> pairs in    *)
(* property order.                                                          *)
(***************************************************************************)
EXTENDS Integers, Sequences, FiniteSets, TLC, SequencesExt

CONSTANTS
    Heap,                    \* per value, its kind and contents
    Calls,                   \* calls of cached methods: [name, prefix, args]
    Entries,                 \* audit entries: [resourceId, actorId, correlationId, details]
    Requests,                \* requests: [method, url, type, length, body, file], the file
                             \* one the multipart parser consumes before anybody looks
    CodeUnit,                \* per object key, its place in UTF-16 order
    Writes,                  \* conditional writes: [version, header], the header as it
                             \* arrives, a sequence of field values
    MAX_SAFE_INTEGER,
    Puts,                    \* puts of objects: [adapter, key, metadata], the adapter
                             \* "memory", "disk" or "s3"
    LowerCase,               \* per metadata key, its lower-case form
    HeaderName,              \* lower-case names that may be HTTP header names
    Printable,               \* values of printable ASCII
    Size,                    \* per name and value, its bytes
    MAX_KEY_BYTES,
    MAX_KEY_SEGMENT_BYTES,
    MAX_METADATA_BYTES

VARIABLES
    subject,                 \* one or two things of a kind
    written                  \* what the code wrote, or answered, for each

vars == <<subject, written>>

Throws == <<"throws">>
Thrown(text) == \E i \in DOMAIN text : text[i] = "throws"

\* parts.join(",")
Joined(parts) ==
    FoldLeft(LAMBDA text, part : IF text = <<"start">> THEN part ELSE text \o <<",">> \o part,
             <<"start">>, parts)
Listed(open, parts, close) == <<open>> \o (IF parts = <<>> THEN <<>> ELSE Joined(parts)) \o <<close>>

\* JSON.stringify(s) of a string: quoted, with its quotes and escapes escaped.
Quoted(text) ==
    <<"\"">> \o FoldLeft(LAMBDA t, c : t \o (IF c \in {"\"", "\\"} THEN <<"\\", c>> ELSE <<c>>),
                         <<>>, text)
             \o <<"\"">>

sortedKeysAsGiven(members) == members

\* Object.keys(o).sort(), with the member of each.
sortedKeys(members) == SortSeq(members, LAMBDA m, n : CodeUnit[m[1]] < CodeUnit[n[1]])

-----------------------------------------------------------------------------
(* cache-key.ts                                                            *)

NoText == {"nan", "function", "invalidDate", "map"}

RECURSIVE write(_, _)
\* seen holds the objects the walk is inside of: it is left again on the way out.
write(v, seen) ==
    LET o == Heap[v]
        inside == seen \cup {v}
    IN  CASE o.kind \in {"null", "undefined"} -> <<o.kind>>
          [] o.kind = "string" -> Quoted(o.text)
          [] o.kind \in {"number", "boolean"} -> o.text
          [] o.kind = "bigint" -> o.text \o <<"n">>
          [] o.kind \in NoText -> Throws
          [] o.kind \in {"date", "regexp", "array", "object"} /\ v \in seen -> Throws
          [] o.kind = "date" /\ v \notin seen -> <<"Date(">> \o o.text \o <<")">>
          [] o.kind = "regexp" /\ v \notin seen -> <<"RegExp(">> \o o.text \o <<"/">> \o o.flags \o <<")">>
          [] o.kind = "array" /\ v \notin seen ->
                Listed("[", [i \in DOMAIN o.items |-> write(o.items[i], inside)], "]")
          [] o.kind = "object" /\ v \notin seen ->
                LET m == sortedKeys(o.members)
                IN  Listed("{", [i \in DOMAIN m |->
                                   Quoted(<<m[i][1]>>) \o <<":">> \o write(m[i][2], inside)], "}")

stableStringify(v) == LET text == write(v, {}) IN IF Thrown(text) THEN Throws ELSE text

buildDefaultCacheKey(call) ==
    LET args == stableStringify(call.args)
    IN  IF args = Throws THEN Throws
        ELSE (IF call.prefix = "" THEN <<>> ELSE <<call.prefix, ":">>)
             \o <<call.name, ":">> \o args

-----------------------------------------------------------------------------
(* audit-hash.ts                                                           *)

NotJson == NoText \cup {"undefined", "bigint", "date", "regexp"}

RECURSIVE canonicalJson(_)
\* Details are plain values without cycles.
canonicalJson(v) ==
    LET o == Heap[v]
    IN  CASE o.kind = "null" -> <<"null">>
          [] o.kind = "string" -> Quoted(o.text)
          [] o.kind \in {"number", "boolean"} -> o.text
          [] o.kind \in NotJson -> Throws
          [] o.kind = "array" -> Listed("[", [i \in DOMAIN o.items |-> canonicalJson(o.items[i])], "]")
          [] o.kind = "object" ->
                LET m == sortedKeys(o.members)
                IN  Listed("{", [i \in DOMAIN m |->
                                   Quoted(<<m[i][1]>>) \o <<":">> \o canonicalJson(m[i][2])], "}")

\* A nullable field is a sequence of at most one text.
fieldSeparated(name, value) ==
    IF value = <<>> THEN <<name, ":", "null", "\n">> ELSE <<name, ":">> \o value[1] \o <<"\n">>

\* Length-prefixed; null has a marker of its own.
field(name, value) ==
    IF value = <<>> THEN <<name, ":", "null", "\n">>
    ELSE <<name, ":", ToString(Len(value[1])), ":">> \o value[1] \o <<"\n">>

\* The fields whose text a caller chooses; the others are numbers, instants,
\* hashes and names from AUDIT_ACTIONS.
auditEntryPreimage(e) ==
    LET details == canonicalJson(e.details)
    IN  IF Thrown(details) THEN Throws
        ELSE field("resourceId", <<e.resourceId>>) \o field("actorId", e.actorId)
             \o field("correlationId", e.correlationId) \o field("details", <<details>>)

-----------------------------------------------------------------------------
(* idempotency-key.ts                                                      *)

RECURSIVE stableStringifyBody(_)
\* stableStringify of a parsed body: what JSON has no text for is null.
stableStringifyBody(v) ==
    LET o == Heap[v]
    IN  CASE o.kind = "string" -> Quoted(o.text)
          [] o.kind \in {"number", "boolean"} -> o.text
          [] o.kind = "array" ->
                Listed("[", [i \in DOMAIN o.items |-> stableStringifyBody(o.items[i])], "]")
          [] o.kind = "object" ->
                LET m == sortedKeys(o.members)
                IN  Listed("{", [i \in DOMAIN m |->
                                   Quoted(<<m[i][1]>>) \o <<":">> \o stableStringifyBody(m[i][2])], "}")
          [] OTHER -> <<"null">>

Nullish(v) == Heap[v].kind \in {"null", "undefined"}
bodyText(v) == IF Nullish(v) THEN <<>> ELSE stableStringifyBody(v)

fingerprintRun(r) ==
    r.method \o r.url \o r.type \o r.length \o bodyText(r.body)

\* The method upper-cased, the headers that may be missing, joined by newlines,
\* which none of the parts can hold.  Of an upload only its length shows.
fingerprint(r) ==
    r.method \o <<"\n">> \o r.url \o <<"\n">> \o r.type \o <<"\n">> \o r.length
    \o <<"\n">> \o bodyText(r.body)

-----------------------------------------------------------------------------
(* entity-tag.ts, if-match.decorator.ts                                    *)

Blank == {" ", "\t"}
Digit == <<"0", "1", "2", "3", "4", "5", "6", "7", "8", "9">>
DigitValue(c) == (CHOOSE i \in DOMAIN Digit : Digit[i] = c) - 1
IsDigit(c) == \E i \in DOMAIN Digit : Digit[i] = c
String(n) ==
    LET width == CHOOSE w \in 1..6 : n < 10^w /\ (w = 1 \/ n >= 10^(w - 1))
    IN  [i \in 1..width |-> Digit[((n \div 10^(width - i)) % 10) + 1]]

formatEntityTag(v) == <<"\"">> \o String(v) \o <<"\"">>

NotAVersion == -1
readVersionLoose(opaque) ==
    IF opaque # <<>> /\ \A i \in DOMAIN opaque : IsDigit(opaque[i])
    THEN FoldLeft(LAMBDA n, c : 10 * n + DigitValue(c), 0, opaque) ELSE NotAVersion

\* Only decimal integers with no leading zeros, in the safe range, are ours.
readVersion(opaque) ==
    IF /\ opaque # <<>> /\ \A i \in DOMAIN opaque : IsDigit(opaque[i])
       /\ opaque[1] = "0" => Len(opaque) = 1
    THEN LET n == FoldLeft(LAMBDA m, c : 10 * m + DigitValue(c), 0, opaque)
         IN  IF n <= MAX_SAFE_INTEGER THEN n ELSE NotAVersion
    ELSE NotAVersion

\* The first position from `from` on that holds no blank.
skipWhitespace(value, from) ==
    CHOOSE i \in from..(Len(value) + 1) :
        /\ \A j \in from..(i - 1) : value[j] \in Blank
        /\ i <= Len(value) => value[i] \notin Blank

At(value, i) == IF i <= Len(value) THEN value[i] ELSE "end"

RECURSIVE scanTags(_, _, _)
\* One turn of the loop; an empty list is BadRequestException.
scanTags(value, from, tags) ==
    LET start == skipWhitespace(value, from)
        weak == At(value, start) = "W" /\ At(value, start + 1) = "/"
        open == IF weak THEN start + 2 ELSE start
        closes == {i \in (open + 1)..Len(value) : value[i] = "\""}
        close == CHOOSE i \in closes : \A j \in closes : i <= j
        opaque == SubSeq(value, open + 1, close - 1)
        read == Append(tags, [weak |-> weak, opaque |-> opaque, version |-> readVersion(opaque)])
        next == skipWhitespace(value, close + 1)
    IN  IF At(value, open) # "\"" \/ closes = {} THEN <<>>
        ELSE IF next > Len(value) THEN read
        ELSE IF value[next] # "," THEN <<>>
        ELSE scanTags(value, next + 1, read)

parseEntityTagList(value) == scanTags(value, 1, <<>>)

Trimmed(raw) ==
    LET kept == {i \in DOMAIN raw : raw[i] \notin Blank}
    IN  IF kept = {} THEN <<>>
        ELSE SubSeq(raw, CHOOSE i \in kept : \A j \in kept : i <= j,
                         CHOOSE i \in kept : \A j \in kept : j <= i)

parseIfMatch(raw) ==
    LET value == Trimmed(raw)
        tags == parseEntityTagList(value)
    IN  CASE value = <<"*">> -> [mode |-> "any"]
          [] value # <<"*">> /\ (value = <<>> \/ tags = <<>>) -> [mode |-> "bad"]
          [] OTHER -> [mode |-> "list", tags |-> tags]

\* No field, one value, or something upstream made it several.
resolveIfMatch(header) ==
    CASE Len(header) = 0 -> [mode |-> "unconditional"]
      [] Len(header) = 1 -> parseIfMatch(header[1])
      [] Len(header) > 1 -> [mode |-> "bad"]

isSatisfiedByWeak(expected, actual) ==
    expected.mode = "list" => \E i \in DOMAIN expected.tags : expected.tags[i].version = actual

\* The strong comparison: a weak tag matches nothing.
isSatisfiedBy(expected, actual) ==
    expected.mode = "list" =>
        \E i \in DOMAIN expected.tags : ~expected.tags[i].weak /\ expected.tags[i].version = actual

requireConditional(expected) == expected.mode # "unconditional"

\* A conditional write of a resource that exists: 400, then 428, then 412.
assertPrecondition(w) ==
    LET expected == resolveIfMatch(w.header)
    IN  CASE expected.mode = "bad" -> 400
          [] expected.mode # "bad" /\ ~requireConditional(expected) -> 428
          [] expected.mode \in {"any", "list"} ->
                IF isSatisfiedBy(expected, w.version) THEN 200 ELSE 412

-----------------------------------------------------------------------------
(* object-key.ts, and where each adapter keeps a key                       *)

Control == {"\n", "nul"}
Letter == {"a", "C"}

split(s) ==
    FoldLeft(LAMBDA parts, c :
                IF c = "/" THEN Append(parts, <<>>)
                ELSE [parts EXCEPT ![Len(parts)] = Append(@, c)],
             << <<>> >>, s)

segmentValidDotted(segment) ==
    /\ segment \notin {<<>>, <<".", ".">>}
    /\ Len(segment) <= MAX_KEY_SEGMENT_BYTES
    /\ segment[1] # " " /\ Last(segment) # " "

segmentValid(segment) ==
    /\ segment \notin {<<>>, <<".">>, <<".", ".">>}
    /\ Len(segment) <= MAX_KEY_SEGMENT_BYTES
    /\ segment[1] # " " /\ Last(segment) # " "

\* Early returns in the code's order; any of them is InvalidObjectKeyError.
assertValidObjectKey(k) ==
    /\ k # <<>>
    /\ Len(k) <= MAX_KEY_BYTES
    /\ \A i \in DOMAIN k : k[i] \notin Control \cup {"\\"}
    /\ k[1] # "/" /\ Last(k) # "/"
    /\ \A i \in DOMAIN split(k) : segmentValid(split(k)[i])
    /\ ~(Len(k) >= 2 /\ k[1] \in Letter /\ k[2] = ":")

lowerCased(pair) == LowerCase[pair[1]]

normaliseMetadataAsGiven(m) == [valid |-> TRUE, value |-> {m[i] : i \in DOMAIN m}]

\* Lower-cased, because S3 returns keys that way; two keys that become one are refused.
normaliseMetadata(m) ==
    LET bytes == FoldLeft(LAMBDA n, p : n + Size[lowerCased(p)] + Size[p[2]], 0, m)
    IN  [valid |-> /\ \A i \in DOMAIN m : lowerCased(m[i]) \in HeaderName /\ m[i][2] \in Printable
                   /\ \A i, j \in DOMAIN m : lowerCased(m[i]) = lowerCased(m[j]) => i = j
                   /\ bytes <= MAX_METADATA_BYTES,
         value |-> {<<lowerCased(m[i]), m[i][2]>> : i \in DOMAIN m}]

\* path.resolve: "." and empty segments vanish, ".." leaves a directory.
Resolved(segments) ==
    FoldLeft(LAMBDA path, s :
                CASE s \in {<<>>, <<".">>} -> path
                  [] s = <<".", ".">> -> IF path = <<>> THEN << <<".", ".">> >> ELSE Front(path)
                  [] OTHER -> Append(path, s),
             <<>>, segments)

\* The directory under the root; the root itself and anything above it is refused.
directoryFor(k) == Resolved(split(k))
Escapes(path) == path = <<>> \/ path[1] = <<".", ".">>

\* walk(): the key a directory stands for.
KeyOf(path) ==
    FoldLeft(LAMBDA k, s : IF k = <<>> THEN s ELSE k \o <<"/">> \o s, <<>>, path)

\* S3 keeps the key as it is, and lower-cases metadata keys in transit.
Kept(adapter, k, m) ==
    CASE adapter = "memory" -> [at |-> <<k>>, metadata |-> m]
      [] adapter = "disk" -> [at |-> directoryFor(k), metadata |-> m]
      [] adapter = "s3" -> [at |-> <<k>>, metadata |-> {<<LowerCase[p[1]], p[2]>> : p \in m}]

\* What put answers, and what the backend holds after it: sets of [at, metadata].
put(p) ==
    LET m == normaliseMetadata(p.metadata)
        Refused(status) == [status |-> status, metadata |-> {}, stored |-> {}]
    IN  IF ~assertValidObjectKey(p.key) THEN Refused("InvalidObjectKeyError")
        ELSE IF ~m.valid THEN Refused("InvalidObjectMetadataError")
        ELSE IF p.adapter = "disk" /\ Escapes(directoryFor(p.key)) THEN Refused("outside")
        ELSE [status |-> "stored", metadata |-> m.value, stored |-> {Kept(p.adapter, p.key, m.value)}]

\* list and head together: the keys the backend reports, with their metadata.
list(adapter, stored) ==
    {[key |-> IF adapter = "disk" THEN KeyOf(o.at) ELSE o.at[1], metadata |-> o.metadata] :
        o \in {o \in stored : adapter = "disk" => assertValidObjectKey(KeyOf(o.at))}}

putThenList(p) ==
    [status |-> put(p).status, metadata |-> put(p).metadata, listed |-> list(p.adapter, put(p).stored)]

-----------------------------------------------------------------------------
Pairs(S) == {<<a, b>> : a, b \in S}

Init ==
    /\ subject \in Pairs(Calls) \cup Pairs(Entries) \cup Pairs(Requests)
                   \cup {<<w>> : w \in Writes} \cup {<<p>> : p \in Puts}
    /\ written = <<>>

IsCall(x) == "args" \in DOMAIN x

IsRequest(x) == "url" \in DOMAIN x

IsWrite(x) == "header" \in DOMAIN x

IsPut(x) == "adapter" \in DOMAIN x

\* CacheableAspect builds its key; AuditStore seals the entry; the idempotency
\* interceptor hashes the request; a write model checks If-Match; a caller
\* stores an object and looks for it.
seal ==
    /\ written = <<>>
    /\ written' = [i \in DOMAIN subject |->
                     CASE IsCall(subject[i]) -> buildDefaultCacheKey(subject[i])
                       [] IsRequest(subject[i]) -> fingerprint(subject[i])
                       [] IsWrite(subject[i]) -> assertPrecondition(subject[i])
                       [] IsPut(subject[i]) -> putThenList(subject[i])
                       [] OTHER -> auditEntryPreimage(subject[i])]
    /\ UNCHANGED subject

Next == seal

Spec == Init /\ [][Next]_vars

-----------------------------------------------------------------------------
\* The values a walk from v meets, and whether one of them is inside itself.
RECURSIVE Reached(_, _)
Children(v) ==
    CASE Heap[v].kind = "array" -> {Heap[v].items[i] : i \in DOMAIN Heap[v].items}
      [] Heap[v].kind = "object" -> {Heap[v].members[i][2] : i \in DOMAIN Heap[v].members}
      [] OTHER -> {}
Reached(todo, met) ==
    IF todo = {} THEN met
    ELSE LET next == UNION {Children(v) : v \in todo} \ met IN Reached(next, met \cup next)
Below(v) == Reached({v}, {})
Cyclic(v) == \E w \in Below(v) \cup {v} : w \in Below(w)

RECURSIVE Same(_, _)
\* The same value: equal atoms, items in order, members by name.
Same(v, w) ==
    LET a == Heap[v]
        b == Heap[w]
        Member(o, k) == {o.members[i][2] : i \in {i \in DOMAIN o.members : o.members[i][1] = k}}
        Names(o) == {o.members[i][1] : i \in DOMAIN o.members}
    IN  /\ a.kind = b.kind
        /\ CASE a.kind = "array" -> /\ Len(a.items) = Len(b.items)
                                    /\ \A i \in DOMAIN a.items : Same(a.items[i], b.items[i])
             [] a.kind = "object" ->
                    /\ Names(a) = Names(b)
                    /\ \A k \in Names(a) :
                        \A x \in Member(a, k), y \in Member(b, k) : Same(x, y)
             [] OTHER -> a = b

Refuses(v, kinds) == Cyclic(v) \/ \E w \in Below(v) \cup {v} : Heap[w].kind \in kinds

(* One text per value and one value per text: two calls share a cache key    *)
(* exactly when they are the same call, two entries share a preimage exactly *)
(* when they record the same thing, two requests share a fingerprint exactly *)
(* when they agree in all but the bytes of an upload, which the fingerprint  *)
(* cannot see, and what has no unambiguous text is refused, with sharing     *)
(* that is not a cycle accepted (stableStringify:                            *)
(* sharing a key "without sharing a result - a wrong answer"; field: no      *)
(* entry can move the boundary between two fields; fingerprint: a retry in a *)
(* different property order "is still recognised as the same request").      *)
TextIsValue ==
    LET a == subject[1]
        b == subject[2]
        Wrote(i) == written[i] # Throws
        SameText == written[1] = written[2]
    IN  written # <<>> /\ Len(subject) = 2 =>
        CASE IsCall(a) ->
                /\ \A i \in 1..2 : Wrote(i) <=> ~Refuses(subject[i].args, NoText)
                /\ Wrote(1) /\ Wrote(2) =>
                    (SameText <=> a.name = b.name /\ a.prefix = b.prefix /\ Same(a.args, b.args))
          [] IsRequest(a) ->
                SameText <=> /\ <<a.method, a.url, a.type, a.length>> = <<b.method, b.url, b.type, b.length>>
                             /\ (Nullish(a.body) /\ Nullish(b.body)) \/ Same(a.body, b.body)
          [] OTHER ->
                /\ \A i \in 1..2 : Wrote(i) <=> ~Refuses(subject[i].details, NotJson)
                /\ Wrote(1) /\ Wrote(2) =>
                    (SameText <=> /\ a.resourceId = b.resourceId
                                  /\ a.actorId = b.actorId
                                  /\ a.correlationId = b.correlationId
                                  /\ Same(a.details, b.details))

\* RFC 9110, 8.8.3 and 5.6.1: a tag has no blank in it; a sender writes a list
\* without empty elements, a recipient reads over them.  The texts are without the
\* blanks the grammar allows between elements.
IsTag(text) ==
    \E w \in {0, 2} :
        /\ Len(text) >= w + 2
        /\ w = 2 => text[1] = "W" /\ text[2] = "/"
        /\ {i \in DOMAIN text : text[i] = "\""} = {w + 1, Len(text)}
        /\ \A i \in DOMAIN text : text[i] \notin Blank

RECURSIVE Lists(_, _)
Lists(text, empty) ==
    LET Element(t) == IsTag(t) \/ (empty /\ t = <<>>)
        cuts == {i \in DOMAIN text : text[i] = "," /\ Element(SubSeq(text, 1, i - 1))}
    IN  {<<t>> : t \in {t \in {text} : Element(t)}}
        \cup UNION {{<<SubSeq(text, 1, i - 1)>> \o l :
                       l \in Lists(SubSeq(text, i + 1, Len(text)), empty)} : i \in cuts}

\* The field without the blanks the grammar allows: outside quotes, at the
\* start, after a comma, after a tag or after the star.
Unspaced(raw) ==
    FoldLeft(LAMBDA s, c :
                IF c = "\"" THEN [text |-> Append(s.text, c), quoted |-> ~s.quoted]
                ELSE IF ~s.quoted /\ c \in Blank /\ (s.text = <<>> \/ Last(s.text) \in {",", "\"", "*"})
                THEN s
                ELSE [s EXCEPT !.text = Append(@, c)],
             [text |-> <<>>, quoted |-> FALSE], raw).text

\* Blanks inside quotes, which no tag has.
BlankInside(text) == \E i \in DOMAIN text : text[i] \in Blank

\* The tag is there, as an element.
Names(text, tag) ==
    \E i \in 1..(Len(text) + 1 - Len(tag)) :
        LET after == i + Len(tag)
        IN  /\ SubSeq(text, i, after - 1) = tag
            /\ i > 1 => text[i - 1] = ","
            /\ after <= Len(text) => text[after] = ","

(* If-Match does what RFC 9110 says of every field a sender may write: a      *)
(* write goes ahead exactly when the field is "*" or a list that holds the    *)
(* strong tag a read of the current version would answer with, and a list     *)
(* that names only other versions, weak tags or tags never issued is 412 and  *)
(* never 400 (parseEntityTagList: a comma inside a tag does not split it).  A *)
(* field no recipient may accept is 400.  Of the rest, lists with an empty    *)
(* element and quoted texts with a blank, where the scanner does not keep to  *)
(* the RFC, only this: nothing goes ahead that does not name that tag.        *)
MatchesTheTag ==
    written # <<>> /\ IsWrite(subject[1]) =>
        LET header == subject[1].header
            current == formatEntityTag(subject[1].version)
            text == Unspaced(header[1])
            sent == Lists(text, FALSE)
        IN  CASE header = <<>> -> written[1] = 428
              [] Len(header) > 1 -> written[1] = 400
              [] Len(header) = 1 /\ text = <<"*">> -> written[1] = 200
              [] Len(header) = 1 /\ sent # {} ->
                    written[1] = IF \E l \in sent : Contains(l, current) THEN 200 ELSE 412
              [] OTHER ->
                    /\ Lists(text, TRUE) = {} /\ ~BlankInside(text) => written[1] = 400
                    /\ written[1] = 200 => Names(text, current)

(* A key means the same object on every adapter: what put accepts is listed  *)
(* under exactly the key and with exactly the metadata put answered, an      *)
(* accepted key has a directory of its own strictly below the root (the      *)
(* second check in directoryFor "should be unreachable"), and no two keys     *)
(* share one.                                                                *)
SameEverywhere ==
    written # <<>> /\ IsPut(subject[1]) =>
        LET p == subject[1]
            w == written[1]
        IN  /\ w.status # "outside"
            /\ w.status = "stored" => /\ w.listed = {[key |-> p.key, metadata |-> w.metadata]}
                                      /\ KeyOf(directoryFor(p.key)) = p.key
            /\ w.status # "stored" => w.listed = {}
==============================================================================
