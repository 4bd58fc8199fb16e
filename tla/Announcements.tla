--------------------------- MODULE Announcements ----------------------------
(***************************************************************************)
(* How the application tells others (src/events, src/notifications): a     *)
(* domain event to its subscribers, a notice to its user.  The two share no*)
(* state: each is a specification of its own.                              *)
(***************************************************************************)
EXTENDS Naturals, FiniteSets

-----------------------------------------------------------------------------
(***************************************************************************)
(* What happens to a relayed domain event inside one process: the bus      *)
(* emits it to every @OnDomainEvent subscriber, each wrapped so that its   *)
(* failure becomes an outcome; the publisher lets the relay mark the row   *)
(* delivered only when every outcome is ok, and a row held back is emitted *)
(* again to all of them.  One subscriber queues the welcome email, one     *)
(* bridges to the CQRS bus, whose handlers nobody waits for.               *)
(***************************************************************************)

CONSTANTS Event,
          Subscribers,     \* the @OnDomainEvent methods of each event's name
          maxAttempts,     \* OUTBOX_MAX_ATTEMPTS
          JobAttempts,     \* DEFAULT_JOB_OPTIONS.attempts
          MaxFaults

VARIABLES row,       \* outbox row of the event: its state and failed deliveries
          emission,  \* the envelope on the bus: its id, and each outcome so far
          handled,   \* handlers that ever ran to the end, and the id they were given
          cqrs,      \* the event's notification on the CQRS bus
          listening, \* CqrsUnhandledExceptionLogger is subscribed
          logged,    \* failures of CQRS handlers it reported
          welcomes,  \* welcome emails in the queue for the event
          faults

busVars == <<row, emission, handled, cqrs, listening, logged, welcomes, faults>>

Quiet == [id |-> "none", outcome |-> [h \in {} |-> "none"]]
NoJobs == [queued |-> 0, sent |-> 0, tries |-> 0]
Faulty == faults < MaxFaults /\ faults' = faults + 1
Emitting(e) == emission[e] # Quiet
Report(e, h, outcome) == emission' = [emission EXCEPT ![e].outcome[h] = outcome]

-----------------------------------------------------------------------------
(* DomainEventBus *)

\* A redelivery that mints an id of its own.
envelopeFresh(e) == IF row[e].failures = 0 THEN "rowId" ELSE "freshId"

\* The row's identity, not a fresh one.
envelope(e) == "rowId"

\* publishAndSettle, up to the point where every listener has been called.
dispatch(e) ==
    /\ row[e].status = "pending" /\ ~Emitting(e)
    /\ emission' = [emission EXCEPT ![e] =
          [id |-> envelope(e), outcome |-> [h \in Subscribers[e] |-> "running"]]]
    /\ UNCHANGED <<row, handled, cqrs, listening, logged, welcomes, faults>>

Running(e, h) == Emitting(e) /\ h \in Subscribers[e] /\ emission[e].outcome[h] = "running"
Ran(e, h) == handled' = [handled EXCEPT ![e] = @ \cup {<<h, emission[e].id>>}]

\* OnDomainEvent's wrapper around a handler that returns.
Succeeds(e, h) == Running(e, h) /\ Report(e, h, "ok") /\ Ran(e, h)

\* The subscribers that only push to live connections of this process.
fanOut(e, h) ==
    /\ h \notin {"welcome", "bridge"}
    /\ Succeeds(e, h)
    /\ UNCHANGED <<row, cqrs, listening, logged, welcomes, faults>>

\* The wrapper around a handler that throws.
fails(e, h) ==
    /\ Faulty /\ h # "bridge"
    /\ Running(e, h) /\ Report(e, h, "failed")
    /\ UNCHANGED <<row, handled, cqrs, listening, logged, welcomes>>

\* WelcomeEmailListener: one job per call, whatever came before it.
onUserRegistered(e) ==
    /\ Succeeds(e, "welcome")
    /\ welcomes' = [welcomes EXCEPT ![e].queued = @ + 1]
    /\ UNCHANGED <<row, cqrs, listening, logged, faults>>

\* The job was added and the answer to that was lost.
addUnanswered(e) ==
    /\ Faulty
    /\ Running(e, "welcome") /\ Report(e, "welcome", "failed")
    /\ welcomes' = [welcomes EXCEPT ![e].queued = @ + 1]
    /\ UNCHANGED <<row, handled, cqrs, listening, logged>>

\* DomainEventCqrsBridge.forward: EventBus.publish returns before any handler.
forward(e) ==
    /\ Succeeds(e, "bridge")
    /\ cqrs' = [cqrs EXCEPT ![e] = "published"]
    /\ UNCHANGED <<row, listening, logged, welcomes, faults>>

\* The reaction the row was staged for decides.
failedFirst(e) == {h \in Subscribers[e] : h = "welcome" /\ emission[e].outcome[h] = "failed"}

failed(e) == {h \in Subscribers[e] : emission[e].outcome[h] = "failed"}
Settled(e) == Emitting(e) /\ \A h \in Subscribers[e] : emission[e].outcome[h] # "running"

\* DomainEventBusPublisher.publish, and what the relay does with its answer.
publish(e) ==
    /\ Settled(e)
    /\ row' = [row EXCEPT ![e] =
          IF failed(e) = {} THEN [@ EXCEPT !.status = "published"]
          ELSE [status |-> IF @.failures + 1 < maxAttempts THEN "pending" ELSE "dead",
                failures |-> @.failures + 1]]
    /\ emission' = [emission EXCEPT ![e] = Quiet]
    /\ UNCHANGED <<handled, cqrs, listening, logged, welcomes, faults>>

\* The process dies with the emission under way: the claim is rolled back.
crash(e) ==
    /\ Faulty /\ Emitting(e)
    /\ emission' = [emission EXCEPT ![e] = Quiet]
    /\ cqrs' = [cqrs EXCEPT ![e] = IF @ = "published" THEN "idle" ELSE @]
    /\ listening' = TRUE
    /\ UNCHANGED <<row, handled, logged, welcomes>>

-----------------------------------------------------------------------------
(* The CQRS side and the email queue *)

\* UsersReadModelProjector: the eviction happens, or its failure is at most logged.
project(e) ==
    /\ cqrs[e] = "published"
    /\ \/ cqrs' = [cqrs EXCEPT ![e] = "evicted"] /\ UNCHANGED <<logged, faults>>
       \/ /\ Faulty
          /\ cqrs' = [cqrs EXCEPT ![e] = "failed"]
          /\ logged' = IF listening THEN logged \cup {e} ELSE logged
    /\ UNCHANGED <<row, emission, handled, listening, welcomes>>

\* CqrsUnhandledExceptionLogger.onModuleDestroy.
onModuleDestroy ==
    /\ listening /\ listening' = FALSE
    /\ UNCHANGED <<row, emission, handled, cqrs, logged, welcomes, faults>>

\* EmailProcessor.process under BullMQ: sent, or tried again a few times.
processWelcome(e) ==
    /\ welcomes[e].queued > welcomes[e].sent
    /\ \/ /\ welcomes' = [welcomes EXCEPT ![e].sent = @ + 1, ![e].tries = 0] /\ UNCHANGED faults
       \/ /\ Faulty
          /\ welcomes' = [welcomes EXCEPT ![e] =
                IF @.tries + 1 < JobAttempts THEN [@ EXCEPT !.tries = @ + 1]
                ELSE [@ EXCEPT !.queued = @ - 1, !.tries = 0]]
    /\ UNCHANGED <<row, emission, handled, cqrs, listening, logged>>

BusInit ==
    /\ row = [e \in Event |-> [status |-> "pending", failures |-> 0]]
    /\ emission = [e \in Event |-> Quiet]
    /\ handled = [e \in Event |-> {}]
    /\ cqrs = [e \in Event |-> "idle"]
    /\ listening = TRUE /\ logged = {}
    /\ welcomes = [e \in Event |-> NoJobs]
    /\ faults = 0

BusNext ==
    \/ \E e \in Event : dispatch(e) \/ publish(e) \/ crash(e) \/ project(e) \/ processWelcome(e)
    \/ \E e \in Event : onUserRegistered(e) \/ addUnanswered(e) \/ forward(e)
    \/ \E e \in Event : \E h \in Subscribers[e] : fanOut(e, h) \/ fails(e, h)
    \/ onModuleDestroy

BusSpec == BusInit /\ [][BusNext]_busVars

-----------------------------------------------------------------------------
\* A row is marked delivered only once every @OnDomainEvent subscriber has run to
\* the end of that event, and every delivery of it, repeated or not, carried the
\* one identity a subscriber deduplicates on (publishAndSettle, envelope,
\* DomainEventBusPublisher.publish).  A failing CQRS handler holds nothing back.
DeliveredIsHandled ==
    \A e \in Event :
        /\ row[e].status = "published" => Subscribers[e] \subseteq {r[1] : r \in handled[e]}
        /\ \A r \in handled[e] : r[2] = "rowId"

-----------------------------------------------------------------------------
(***************************************************************************)
(* The notification dispatcher (src/src/notifications): one notify() call  *)
(* fans out over the channels the user's preferences, the deployment's     *)
(* credentials and the recipient's addresses leave standing, and answers   *)
(* with a report of what happened on each.  Preferences change while calls *)
(* are in flight, every transport may refuse, and an answer may be lost    *)
(* after the transport has already taken the message.                      *)
(***************************************************************************)

CONSTANTS
    Registered,     \* the channels NOTIFICATION_CHANNELS holds
    Notice,         \* the notifications sent
    Tokens          \* the recipient's well-formed device tokens

VARIABLES
    preferences,    \* the channels the user has switched on, as stored
    configured,     \* the channels whose credentials are in the environment
    reachable,      \* the channels the recipient has a usable address for
    call,           \* per notice, the notify() call
    taken,          \* per notice and channel, messages the transport took
    jobs            \* per notice, its job on the email queue

notifyVars == <<preferences, configured, reachable, call, taken, jobs>>

NotificationCategory == {"transactional", "marketing"}

NOTIFICATION_CHANNEL_NAMES == {"email", "sms", "push"}

TRANSACTIONAL_FALLBACK_CHANNEL == "email"

NoCall == [phase |-> "idle", category |-> "transactional", read |-> {},
           pending |-> {}, delivered |-> {}, skipped |-> [c \in {} |-> "failed"]]

selectChannelsNoFallback(flags, category) == flags \cap NOTIFICATION_CHANNEL_NAMES

\* The user's flags; a transactional notice falls back to email when all are off.
selectChannels(flags, category) ==
    LET enabled == flags \cap NOTIFICATION_CHANNEL_NAMES
    IN  IF enabled # {} \/ category # "transactional"
        THEN enabled
        ELSE {TRANSACTIONAL_FALLBACK_CHANNEL}

NotifyInit ==
    /\ preferences \in SUBSET NOTIFICATION_CHANNEL_NAMES
    /\ configured \in {s \cup {"email"} : s \in SUBSET {"sms", "push"}}
    /\ reachable \in {r \in SUBSET NOTIFICATION_CHANNEL_NAMES :
                        "push" \in r => Tokens # {}}
    /\ call = [n \in Notice |-> NoCall]
    /\ taken = [n \in Notice |-> [c \in NOTIFICATION_CHANNEL_NAMES |-> 0]]
    /\ jobs = [n \in Notice |-> "none"]

\* The user flips one flag.
setPreference(c) ==
    /\ preferences' = IF c \in preferences THEN preferences \ {c}
                                           ELSE preferences \cup {c}
    /\ UNCHANGED <<configured, reachable, call, taken, jobs>>

\* The store answers getPreferences; the caller resumes later.
notify(n, category) ==
    /\ call[n].phase = "idle"
    /\ call' = [call EXCEPT ![n].phase = "read", ![n].category = category,
                            ![n].read = preferences]
    /\ UNCHANGED <<preferences, configured, reachable, taken, jobs>>

\* The four stages of selection, then every surviving send is started.
notifyWith(n) ==
    LET chosen == selectChannels(call[n].read, call[n].category)
        eligible == chosen \cap Registered \cap configured \cap reachable
        reason(c) == IF c \notin chosen THEN "preference-disabled"
                     ELSE IF c \notin configured THEN "not-configured"
                     ELSE "no-address"
    IN  /\ call[n].phase = "read"
        /\ call' = [call EXCEPT
                     ![n].phase = "sending",
                     ![n].pending = eligible,
                     ![n].skipped = [c \in Registered \ eligible |-> reason(c)]]
        /\ UNCHANGED <<preferences, configured, reachable, taken, jobs>>

\* One channel's promise settles: its send() resolved, or rejected and was caught.
outcome(n, c, delivered) ==
    /\ call[n].phase = "sending"
    /\ c \in call[n].pending
    /\ call' = [call EXCEPT
                 ![n].pending = @ \ {c},
                 ![n].delivered = IF delivered THEN @ \cup {c} ELSE @,
                 ![n].skipped = IF delivered THEN @
                                ELSE [d \in DOMAIN @ \cup {c} |->
                                        IF d = c THEN "failed" ELSE @[d]]]

\* EmailNotificationChannel.send: the job is on our queue, or Redis is down.
sendEmail(n, stored) ==
    /\ outcome(n, "email", stored)
    /\ jobs' = [jobs EXCEPT ![n] = IF stored THEN "waiting" ELSE @]
    /\ taken' = [taken EXCEPT ![n]["email"] = IF stored THEN @ + 1 ELSE @]
    /\ UNCHANGED <<preferences, configured, reachable>>

\* A ladder on a transport without idempotency keys: a lost answer sends again.
sendSmsLadder(n, answer) ==
    /\ outcome(n, "sms", answer = "sid" \/ answer = "lost")
    /\ taken' = [taken EXCEPT ![n]["sms"] = IF answer = "sid" THEN @ + 1
                                            ELSE IF answer = "lost" THEN @ + 2
                                            ELSE @]
    /\ UNCHANGED <<preferences, configured, reachable, jobs>>

\* SmsNotificationChannel.send: one request, no ladder.  "sid" is a 201 with a
\* SID; "lost" was taken but never answered; "refused" is an error response or
\* a resource whose status is a terminal failure.
sendSms(n, answer) ==
    /\ outcome(n, "sms", answer = "sid")
    /\ taken' = [taken EXCEPT ![n]["sms"] = IF answer \in {"sid", "lost"}
                                            THEN @ + 1 ELSE @]
    /\ UNCHANGED <<preferences, configured, reachable, jobs>>

\* PushNotificationChannel.send: one batch; any accepted ticket is a delivery.
sendPush(n, accepted, answered) ==
    /\ outcome(n, "push", answered /\ accepted # {})
    /\ taken' = [taken EXCEPT ![n]["push"] = @ + Cardinality(accepted)]
    /\ UNCHANGED <<preferences, configured, reachable, jobs>>

\* Promise.all resolves: the report is handed to the caller.
report(n) ==
    /\ call[n].phase = "sending"
    /\ call[n].pending = {}
    /\ call' = [call EXCEPT ![n].phase = "done"]
    /\ UNCHANGED <<preferences, configured, reachable, taken, jobs>>

\* EmailProcessor.process takes the job off the queue.
process(n) ==
    /\ jobs[n] = "waiting"
    /\ jobs' = [jobs EXCEPT ![n] = "processed"]
    /\ UNCHANGED <<preferences, configured, reachable, call, taken>>

NotifyNext ==
    \/ \E c \in NOTIFICATION_CHANNEL_NAMES : setPreference(c)
    \/ \E n \in Notice :
        \/ \E category \in NotificationCategory : notify(n, category)
        \/ notifyWith(n)
        \/ \E stored \in BOOLEAN : sendEmail(n, stored)
        \/ \E answer \in {"sid", "lost", "refused"} : sendSms(n, answer)
        \/ \E accepted \in SUBSET Tokens, answered \in BOOLEAN :
                sendPush(n, accepted, answered)
        \/ report(n)
        \/ process(n)

NotifySpec == NotifyInit /\ [][NotifyNext]_notifyVars

-----------------------------------------------------------------------------
(* A finished report names every registered channel exactly once, and what *)
(* it says is what the transports saw: a delivered channel took the        *)
(* message, a channel skipped before sending took none, and no recipient   *)
(* gets the same notice twice on one address, whatever answers were lost   *)
(* (notifyWith; "a retry after a lost response is a second text").  A      *)
(* marketing notice is taken only by channels that were on when the        *)
(* preferences were read.                                                  *)
ReportTrue ==
    \A n \in Notice :
        /\ \A c \in NOTIFICATION_CHANNEL_NAMES :
              /\ taken[n][c] <= IF c = "push" THEN Cardinality(Tokens) ELSE 1
              /\ call[n].category = "marketing" /\ taken[n][c] > 0 => c \in call[n].read
        /\ call[n].phase = "done" =>
              /\ call[n].delivered \cap DOMAIN call[n].skipped = {}
              /\ call[n].delivered \cup DOMAIN call[n].skipped = Registered
              /\ \A c \in call[n].delivered : taken[n][c] > 0
              /\ \A c \in DOMAIN call[n].skipped :
                    taken[n][c] > 0 => call[n].skipped[c] = "failed"

(* A transactional notice to a recipient with an email address is tried on *)
(* some channel, unless the user kept only channels that cannot reach them *)
(* on (TRANSACTIONAL_FALLBACK_CHANNEL).                                    *)
TransactionalTried ==
    \A n \in Notice :
        /\ call[n].category = "transactional"
        /\ call[n].phase = "done"
        /\ call[n].read = {}
        /\ "email" \in reachable \cap Registered
        => \/ call[n].delivered # {}
           \/ \E c \in DOMAIN call[n].skipped : call[n].skipped[c] = "failed"
=============================================================================
