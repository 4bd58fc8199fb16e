-------------------------------- MODULE Mtls --------------------------------
(***************************************************************************)
(* Mutual TLS (src/common/mtls): how a process keeps its key material      *)
(* fresh, and which peers it serves.  The two share no state: each is a    *)
(* specification of its own.                                               *)
(***************************************************************************)
EXTENDS Integers, Sequences, FiniteSets, SequencesExt

-----------------------------------------------------------------------------
(***************************************************************************)
(* The mTLS key material of one process (src/common/mtls), with the calls  *)
(* of ResilientHttpClient that present it.  Somebody outside replaces the   *)
(* three files one at a time; a timer re-reads them, and a set that passes  *)
(* every check is handed to the listener's secure context and to a new      *)
(* generation of dispatchers, while the old generation is closed.           *)
(***************************************************************************)

CONSTANTS
    Issuance,       \* Issuance[i]: the contents of the three files, in turn
    IssuedBy,       \* the pairs <<certificate, issuer>> isIssuedBy() accepts
    NotBefore, NotAfter,   \* of every leaf
    MAX_CHAIN_DEPTH,
    Call,           \* the calls made to a configured peer
    MaxAttempts,    \* of the retry ladder
    MaxNow          \* bound: the clock

VARIABLES
    now,
    disk,           \* disk[f]: what the file holds
    issue,          \* the issuance being written, or written last
    pending,        \* its files that are still the old ones
    phase,          \* bootstrap() and the shutdown it installs
    reading,        \* the files the load under way has read
    material,       \* MtlsKeyMaterialService.material
    server,         \* the listener's secure context
    agents,         \* the dispatcher registry: its generation and material
    call            \* call[c]: where it stands, the generation it goes through

rotationVars == <<now, disk, issue, pending, phase, reading, material, server, agents, call>>

Empty == <<>>       \* a file in the middle of being replaced
None  == [cert |-> Empty, key |-> Empty, ca |-> Empty]
File  == DOMAIN None

\* The generation 0 is the global dispatcher, without a client certificate.
Idle == [at |-> "idle", via |-> 0, tries |-> 0]

RotationInit ==
    /\ now = 0 /\ issue = 1 /\ disk = Issuance[1] /\ pending = {}
    /\ phase = "off" /\ reading = <<>>
    /\ material = None /\ server = None /\ agents = [gen |-> 0, of |-> None]
    /\ call = [c \in Call |-> Idle]

-----------------------------------------------------------------------------
(* loadKeyMaterial, on what was read: certificates are a sequence, leaf     *)
(* first; a key is the leaf it belongs to.                                  *)

Elems(s) == {s[i] : i \in DOMAIN s}
isIssuedBy(c, by) == <<c, by>> \in IssuedBy

\* The first issuer not used yet is taken, and never taken back.
RECURSIVE climbs(_, _, _, _)
climbs(current, left, anchors, depth) ==
    LET issuers == SelectSeq(left, LAMBDA c : isIssuedBy(current, c)) IN
    /\ depth <= MAX_CHAIN_DEPTH
    /\ \/ \E a \in Elems(anchors) : isIssuedBy(current, a)
       \/ /\ issuers # <<>>
          /\ climbs(Head(issuers), SelectSeq(left, LAMBDA c : c # Head(issuers)), anchors, depth + 1)

chainsToAnchor(leaf, intermediates, anchors) == climbs(leaf, intermediates, anchors, 0)

\* Mutant: the leaf is not checked against the bundle mounted beside it.
loadsUnchained(m) ==
    /\ m.cert # Empty /\ m.key # Empty /\ Head(m.cert) = Head(m.key)
    /\ NotBefore[Head(m.cert)] <= now /\ now <= NotAfter[Head(m.cert)]

loads(m) ==
    /\ m.cert # Empty
    /\ m.key # Empty /\ Head(m.cert) = Head(m.key)   \* assertKeyMatchesCertificate
    /\ NotBefore[Head(m.cert)] <= now /\ now <= NotAfter[Head(m.cert)]
    /\ chainsToAnchor(Head(m.cert), Tail(m.cert), m.ca)

\* The leaf and the anchors: the intermediates and the key are not in it.
fingerprint(m) == <<Head(m.cert), m.ca>>

\* What OpenSSL needs to build a context and a peer to accept the leaf: some path.
Usable(m) ==
    LET intermediates == Elems(Tail(m.cert)) IN
    /\ Head(m.cert) = Head(m.key)
    /\ \E n \in 0 .. Cardinality(intermediates) : \E path \in [0 .. n -> Elems(m.cert)] :
         /\ path[0] = Head(m.cert)
         /\ \A i \in 1 .. n : path[i] \in intermediates /\ isIssuedBy(path[i - 1], path[i])
         /\ \E a \in Elems(m.ca) : isIssuedBy(path[n], a)

-----------------------------------------------------------------------------
(* Whoever rotates the files (a secret store, a hand-run copy).             *)

issueNext ==
    /\ pending = {} /\ issue < Len(Issuance)
    /\ issue' = issue + 1
    /\ pending' = {f \in File : Issuance[issue + 1][f] # disk[f]}
    /\ UNCHANGED <<now, disk, phase, reading, material, server, agents, call>>

truncate(f) ==
    /\ f \in pending /\ disk[f] # Empty
    /\ disk' = [disk EXCEPT ![f] = Empty]
    /\ UNCHANGED <<now, issue, pending, phase, reading, material, server, agents, call>>

write(f) ==
    /\ f \in pending
    /\ disk' = [disk EXCEPT ![f] = Issuance[issue][f]]
    /\ pending' = pending \ {f}
    /\ UNCHANGED <<now, issue, phase, reading, material, server, agents, call>>

-----------------------------------------------------------------------------
(* The service: start() at boot, reload() on the timer.  readFileSync holds *)
(* up this process, not the one that writes.                                *)

Loading == reading # <<>>
Polling == phase \in {"booting", "up", "closing"}

readCertFile ==
    /\ ~Loading /\ (phase = "off" \/ Polling)
    /\ reading' = <<disk.cert>>
    /\ UNCHANGED <<now, disk, issue, pending, phase, material, server, agents, call>>

readKeyFile ==
    /\ Len(reading) = 1
    /\ reading' = Append(reading, disk.key)
    /\ UNCHANGED <<now, disk, issue, pending, phase, material, server, agents, call>>

Read == [cert |-> reading[1], key |-> reading[2], ca |-> disk.ca]

\* MtlsRuntime.start: options for the listener, and the first dispatchers.
start ==
    /\ phase = "off"
    /\ \/ /\ loads(Read)
          /\ material' = Read /\ server' = Read
          /\ agents' = [gen |-> 1, of |-> Read]
          /\ phase' = "booting"
       \/ /\ ~loads(Read)
          /\ phase' = "failed"
          /\ UNCHANGED <<material, server, agents>>

\* rebuild(): new dispatchers, and close() on the old ones.
rebuild(m) == agents' = [gen |-> agents.gen + 1, of |-> m]

\* The listener is told only once attachTo() has subscribed it.
notify(m) ==
    /\ rebuild(m)
    /\ server' = IF phase = "booting" THEN server ELSE m

reload ==
    /\ Polling
    /\ IF loads(Read) /\ fingerprint(Read) # fingerprint(material)
       THEN material' = Read /\ notify(Read)
       ELSE UNCHANGED <<material, server, agents>>
    /\ UNCHANGED phase

loadKeyMaterial ==
    /\ Len(reading) = 2
    /\ start \/ reload
    /\ reading' = <<>>
    /\ UNCHANGED <<now, disk, issue, pending, call>>

\* After NestFactory.create and the rest of bootstrap().
attachTo ==
    /\ phase = "booting" /\ ~Loading
    /\ phase' = "up"
    /\ UNCHANGED <<now, disk, issue, pending, reading, material, server, agents, call>>

\* A signal: app.close(), and mtls.stop() after it.
forceExit ==
    /\ phase = "up" /\ ~Loading
    /\ phase' = "closing"
    /\ UNCHANGED <<now, disk, issue, pending, reading, material, server, agents, call>>

stop ==
    /\ phase = "closing" /\ ~Loading
    /\ phase' = "stopping"
    /\ material' = None
    /\ agents' = [agents EXCEPT !.of = None]
    /\ UNCHANGED <<now, disk, issue, pending, reading, server, call>>

Through(g) == {c \in Call : call[c].at = "sent" /\ call[c].via = g}

\* close() resolves once the requests on the wire have been answered.
stopped ==
    /\ phase = "stopping" /\ Through(agents.gen) = {}
    /\ phase' = "stopped"
    /\ UNCHANGED <<now, disk, issue, pending, reading, material, server, agents, call>>

-----------------------------------------------------------------------------
(* ResilientHttpClient: the dispatcher is looked up once per call, before   *)
(* the bulkhead and the ladder.                                             *)

Calls(c, r) == /\ call' = [call EXCEPT ![c] = r]
               /\ UNCHANGED <<now, disk, issue, pending, phase, reading, material, server, agents>>

dispatcherFor == IF agents.of = None THEN 0 ELSE agents.gen

request(c) ==
    /\ call[c].at = "idle" /\ phase \in {"up", "closing"} /\ ~Loading
    /\ Calls(c, [at |-> "waiting", via |-> dispatcherFor, tries |-> 0])

\* A dispatcher that has been closed refuses new requests.
Open(g) == g = 0 \/ (g = agents.gen /\ agents.of # None)

Fails(c) ==
    LET tried == call[c].tries + 1 IN
    [call[c] EXCEPT !.tries = tried,
                    !.at = IF tried < MaxAttempts THEN "waiting"
                           ELSE IF Open(call[c].via) THEN "failed" ELSE "refused"]

send(c) ==
    /\ call[c].at = "waiting" /\ ~Loading
    /\ Calls(c, IF Open(call[c].via) THEN [call[c] EXCEPT !.at = "sent"] ELSE Fails(c))

answers(c) ==
    /\ call[c].at = "sent" /\ ~Loading
    /\ \/ Calls(c, [call[c] EXCEPT !.at = "answered"])
       \/ Calls(c, Fails(c))

tick ==
    /\ now < MaxNow /\ ~Loading
    /\ now' = now + 1
    /\ UNCHANGED <<disk, issue, pending, phase, reading, material, server, agents, call>>

RotationNext ==
    \/ issueNext \/ \E f \in File : truncate(f) \/ write(f)
    \/ readCertFile \/ readKeyFile \/ loadKeyMaterial
    \/ attachTo \/ forceExit \/ stop \/ stopped
    \/ \E c \in Call : request(c) \/ send(c) \/ answers(c)
    \/ tick

RotationSpec == RotationInit /\ [][RotationNext]_rotationVars

-----------------------------------------------------------------------------
\* However the files are replaced around the three reads, what the service
\* keeps is a key, a leaf and anchors that belong together, the dispatchers
\* present exactly that, and the listener presents some such set
\* (loadKeyMaterial, reload, rebuild).
PresentsWhole ==
    /\ Polling => Usable(material) /\ agents.of = material
    /\ server # None => Usable(server)

-----------------------------------------------------------------------------
(***************************************************************************)
(* Which peers a process that listens with mutual TLS serves: the settings *)
(* it refuses to start with, the handshake, and per request the guard that *)
(* reads the peer's identities back out of the text Node renders its SAN   *)
(* extension to.  Text is a sequence of one-character strings, except that *)
(* a SAN type prefix (URI, DNS, ...) is one symbol.                        *)
(***************************************************************************)

CONSTANTS Certificates, \* SAN entry lists: sequences of [kind, value]
          Settings,     \* candidate environments
          Paths

VARIABLES env, listener, \* what the process was started with, and whether it runs
          peer,       \* the connection: [connected, encrypted, authorized, sans]
          decision    \* the guard's last answer

admissionVars == <<env, listener, peer, decision>>

comma == ","
space == " "
quote == "\""
backslash == "\\"
ANY_PEER == << <<"*">> >>
Broken == <<"broken">>  \* what is no JSON string
Lost == <<[kind |-> "lost", value |-> <<>>]>>  \* parseSubjectAltName's null
NoDecision == [path |-> <<>>, allowed |-> FALSE, reason |-> "none", identity |-> <<>>]

-----------------------------------------------------------------------------
(* Node's rendering of the extension: a value that would be ambiguous is a *)
(* JSON string literal                                                     *)

Escaped(value) ==
    FlattenSeq([i \in 1..Len(value) |->
        IF value[i] \in {quote, backslash} THEN <<backslash, value[i]>> ELSE <<value[i]>>])
Rendered(entry) ==
    <<entry.kind, ":">> \o
    (IF \E i \in 1..Len(entry.value) : entry.value[i] \in {comma, quote, backslash}
     THEN <<quote>> \o Escaped(entry.value) \o <<quote>> ELSE entry.value)
subjectaltname(entries) ==
    FlattenSeq([i \in 1..Len(entries) |->
        (IF i = 1 THEN <<>> ELSE <<comma, space>>) \o Rendered(entries[i])])

-----------------------------------------------------------------------------
(* peer-identity.ts *)

\* The least position from which the text reads as the given one, 0 if none.
indexOf(raw, text, from) ==
    LET at == {i \in from..(Len(raw) - Len(text) + 1) : SubSeq(raw, i, i + Len(text) - 1) = text}
    IN  IF at = {} THEN 0 ELSE CHOOSE i \in at : \A j \in at : i <= j
includes(raw, text) == indexOf(raw, text, 1) # 0

\* Position after the closing quote, 0 when there is none.
RECURSIVE endOfQuotedValue(_, _)
endOfQuotedValue(raw, i) ==
    CASE i > Len(raw) -> 0
      [] raw[i] = backslash -> endOfQuotedValue(raw, i + 2)
      [] raw[i] = quote -> i + 1
      [] OTHER -> endOfQuotedValue(raw, i + 1)

\* A JSON string's content; an escape of anything else does not parse.
RECURSIVE safeJsonParse(_)
safeJsonParse(body) ==
    CASE body = <<>> -> <<>>
      [] Head(body) # backslash -> <<Head(body)>> \o safeJsonParse(Tail(body))
      [] Len(body) > 1 /\ body[2] \in {quote, backslash} ->
            <<body[2]>> \o safeJsonParse(SubSeq(body, 3, Len(body)))
      [] OTHER -> Broken

\* One entry from position i, and where the text goes on; next = 0: frame lost.
parseEntry(raw, i) ==
    LET sep == indexOf(raw, <<":">>, i)
        kind == SubSeq(raw, i, sep - 1)
        v == sep + 1
        frame == sep # 0 /\ kind # <<>> /\ ~includes(kind, <<quote>>) /\ ~includes(kind, <<comma>>)
        end == endOfQuotedValue(raw, v + 1)
        quoted == safeJsonParse(SubSeq(raw, v + 1, end - 2))
        next == indexOf(raw, <<comma, space>>, v)
        plain == SubSeq(raw, v, IF next = 0 THEN Len(raw) ELSE next - 1)
        Entry(value, after) == [next |-> after, entry |-> [kind |-> Head(kind), value |-> value]]
        none == [next |-> 0, entry |-> [kind |-> "none", value |-> <<>>]]
    IN  IF ~frame THEN none
        ELSE IF v <= Len(raw) /\ raw[v] = quote
             THEN IF end = 0 \/ includes(quoted, Broken) THEN none ELSE Entry(quoted, end)
        ELSE IF includes(plain, <<comma>>) THEN none
        ELSE Entry(plain, IF next = 0 THEN Len(raw) + 1 ELSE next)

RECURSIVE parseFrom(_, _)
parseFrom(raw, i) ==
    IF i > Len(raw) THEN <<>>
    ELSE LET one == parseEntry(raw, i)
             more == one.next <= Len(raw)
             rest == parseFrom(raw, one.next + 2)
         IN  IF one.next = 0 \/ (more /\ SubSeq(raw, one.next, one.next + 1) # <<comma, space>>)
             THEN Lost
             ELSE IF ~more THEN <<one.entry>>
             ELSE IF rest = Lost THEN Lost ELSE <<one.entry>> \o rest

\* Splitting on the separator first, quotes or not.
RECURSIVE splitFrom(_, _)
splitFrom(raw, i) ==
    LET sep == indexOf(raw, <<":">>, i)
        next == indexOf(raw, <<comma, space>>, i)
        end == IF next = 0 THEN Len(raw) ELSE next - 1
        bare == SelectSeq(SubSeq(raw, sep + 1, end), LAMBDA c : c # quote)
    IN  IF i > Len(raw) \/ sep = 0 \/ sep > end THEN <<>>
        ELSE <<[kind |-> raw[i], value |-> bare]>> \o (IF next = 0 THEN <<>> ELSE splitFrom(raw, next + 2))
parseSubjectAltNameSplit(raw) == splitFrom(raw, 1)

parseSubjectAltName(raw) == parseFrom(raw, 1)

IDENTITY_KINDS == {"URI", "DNS"}
identitiesIn(entries) ==
    LET named == SelectSeq(entries, LAMBDA e : e.kind \in IDENTITY_KINDS)
    IN  [i \in 1..Len(named) |-> named[i].value]
peerIdentitiesFrom(raw) ==
    LET entries == parseSubjectAltName(raw)
    IN  IF entries = Lost THEN <<>> ELSE identitiesIn(entries)

isUri(value) == includes(value, <<":", "/", "/">>)
toLowerCase(value) == [i \in 1..Len(value) |-> IF value[i] = "A" THEN "a" ELSE value[i]]
Matches(identity, allowed) ==
    \/ identity = allowed
    \/ ~isUri(identity) /\ ~isUri(allowed) /\ toLowerCase(identity) = toLowerCase(allowed)
matchPeerIdentity(identities, allowlist) ==
    SelectSeq(identities, LAMBDA id : \E a \in ToSet(allowlist) : Matches(id, a))
allowsAnyPeer(allowlist) == allowlist = ANY_PEER

\* A scheme with nothing after it names nobody; no wildcard means anything.
isPeerIdentity(value) ==
    /\ value # <<>> /\ ~includes(value, <<"*">>)
    /\ value[1] # space /\ value[Len(value)] # space
    /\ IF isUri(value) THEN indexOf(value, <<":", "/", "/">>, 1) \in 2..(Len(value) - 3)
       ELSE \A i \in 1..Len(value) : value[i] \in {"a", "A", "b"}

-----------------------------------------------------------------------------
(* peer-authorization.ts and the settings *)

isExemptPath(path, prefixes) ==
    \E prefix \in ToSet(prefixes) :
        /\ IsPrefix(prefix, path)
        /\ Len(path) = Len(prefix) \/ path[Len(prefix) + 1] = "/"

authorizePeer(connection, path) ==
    LET identities == peerIdentitiesFrom(connection.sans)
        matched == matchPeerIdentity(identities, env.allowlist)
        Refused(reason) == [path |-> path, allowed |-> FALSE, reason |-> reason, identity |-> <<>>]
        Allowed(reason, ids) == [path |-> path, allowed |-> TRUE, reason |-> reason,
                                 identity |-> IF ids = <<>> THEN <<>> ELSE Head(ids)]
    IN  IF isExemptPath(path, env.exemptPrefixes) THEN Allowed("exempt", identities)
        ELSE IF ~connection.encrypted THEN Refused("not-tls")
        ELSE IF ~connection.authorized THEN Refused("no-certificate")
        ELSE IF allowsAnyPeer(env.allowlist) THEN Allowed("any", identities)
        ELSE IF matched # <<>> THEN Allowed("known", matched)
        ELSE Refused("unknown-identity")

\* The cross-field rules of the settings this module is about.
collectMtlsIssues(e) ==
    LET any == allowsAnyPeer(e.allowlist) IN
    /\ e.allowlist # <<>>
    /\ any \/ \A id \in ToSet(e.allowlist) : isPeerIdentity(id)
    /\ ~(e.production /\ any)
    /\ \A prefix \in ToSet(e.exemptPrefixes) : prefix # <<>> /\ prefix[1] = "/"
    /\ ~(e.probes /\ e.exemptPrefixes = <<>>)

mtlsEnvFromProcess ==
    /\ listener = "starting"
    /\ listener' = IF collectMtlsIssues(env) THEN "listening" ELSE "refused"
    /\ UNCHANGED <<env, peer, decision>>

\* buildMtlsServerOptions: without probes the handshake refuses the unverified.
connect(entries, encrypted, verified) ==
    /\ listener = "listening" /\ ~peer.connected
    /\ encrypted => verified \/ env.probes
    /\ peer' = [connected |-> TRUE, encrypted |-> encrypted, authorized |-> encrypted /\ verified,
                entries |-> entries, sans |-> IF encrypted THEN subjectaltname(entries) ELSE <<>>]
    /\ UNCHANGED <<env, listener, decision>>

\* MtlsPeerGuard.canActivate, for a request over HTTP.
canActivate(path) ==
    /\ listener = "listening" /\ peer.connected
    /\ decision' = authorizePeer(peer, path)
    /\ UNCHANGED <<env, listener, peer>>

AdmissionInit ==
    /\ env \in Settings /\ listener = "starting"
    /\ peer = [connected |-> FALSE, encrypted |-> FALSE, authorized |-> FALSE, entries |-> <<>>, sans |-> <<>>]
    /\ decision = NoDecision

AdmissionNext ==
    \/ mtlsEnvFromProcess
    \/ \E entries \in Certificates, encrypted, verified \in BOOLEAN : connect(entries, encrypted, verified)
    \/ \E path \in Paths : canActivate(path)

AdmissionSpec == AdmissionInit /\ [][AdmissionNext]_admissionVars

-----------------------------------------------------------------------------
\* A request outside the exempt paths is served exactly when the connection is
\* TLS, the chain verified, and one of the URI or DNS names the certificate
\* really carries is on the allowlist: nothing is gained or lost between the
\* certificate and the text the guard reads it from (parseSubjectAltName,
\* authorizePeer).  A wildcard allowlist serves anyone verified, and never runs
\* in production.
ServesItsPeers ==
    LET really == identitiesIn(peer.entries)
        known == \E id \in ToSet(really), a \in ToSet(env.allowlist) : Matches(id, a)
    IN  decision # NoDecision /\ decision.reason # "exempt" =>
            /\ decision.allowed = /\ peer.encrypted /\ peer.authorized
                                  /\ known \/ (allowsAnyPeer(env.allowlist) /\ ~env.production)
            /\ decision.allowed /\ really # <<>> => decision.identity \in ToSet(really)
=============================================================================
