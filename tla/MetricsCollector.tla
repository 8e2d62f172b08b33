--------------------------- MODULE MetricsCollector ---------------------------
(***************************************************************************)
(* The Metrics-Collector: its MQTT subscriber (messageHandler and          *)
(* validateMetric in metrics-collector/mqtt/subscriber.go) and its         *)
(* TimescaleDB storage (StoreMetric / executeInsert in                     *)
(* metrics-collector/storage/timescaledb.go, behind the nil check of the   *)
(* storage facade), fed by the broker of spec section 4.7: a per-identity  *)
(* topic ACL and a persistent QoS 1 session for the collector              *)
(* (SetCleanSession(false)).                                               *)
(*                                                                         *)
(* Data is abstracted to what the checks tell apart: a label is a record   *)
(* of the facts validateMetric tests (forbidden terms in the lower-cased   *)
(* key, lengths, '@' and '.' and an "ssh-" prefix in the value).           *)
(***************************************************************************)
EXTENDS Integers, Sequences, FiniteSets

CONSTANTS
    Services,        \* publisher identities; identity s may write metrics/s only
    Payloads,        \* metric payloads a (possibly compromised) publisher sends
    Now,             \* the collector's clock, time.Now().Unix()
    MaxPublishes,    \* bound on publications
    MaxRestarts,     \* bound on process restarts, after a crash or a shutdown
    MaxDisconnects   \* bound on losses of the broker connection

\* Limits of metrics-collector/types/types.go
MaxLabelKeyLength   == 128
MaxLabelValueLength == 256
MaxLabelsPerMetric  == 20
MaxMetricNameLength == 256
\* validateMetric's forbiddenKeys: types.ForbiddenLabel* are defined in no
\* file of the repository; the values are those of spec 4.5, step 5
ForbiddenTerms == {"email", "password", "ssh_key", "email_hash", "user_id", "username"}
ValidTypes == {"counter", "gauge", "histogram", "summary"}

\* StoreMetric: maxRetries; messageHandler: accepted clock skew (seconds)
MaxRetries == 3
FutureSkew == 60

Label == [terms: SUBSET ForbiddenTerms, klen: Nat, vlen: Nat,
          at: BOOLEAN, dot: BOOLEAN, ssh: BOOLEAN]
Payload == [json: BOOLEAN, service: STRING \cup Services, name: Nat,
            nlabels: Nat, labels: SUBSET Label, type: STRING, ts: Int]

ASSUME /\ Payloads \subseteq Payload
       /\ {MaxPublishes, MaxRestarts, MaxDisconnects} \subseteq Nat

VARIABLES
    log,         \* publications the broker accepted: id -> [from, topic, payload]
    sent,        \* publications attempted (accepted or denied by the ACL)
    pending,     \* the collector's broker session: ids not yet acknowledged
    subscribed,  \* the session holds the subscription metrics/+
    routed,      \* the client's router has the metrics/+ route to
                 \* messageHandler (onConnectHandler's Subscribe has run)
    unacked,     \* session messages delivered while no route existed:
                 \* neither handled nor acknowledged, resent on a new connection
    queued,      \* history: ids the broker queued for the collector
    connected,   \* the collector's MQTT connection is up
    storageUp,   \* InitializeTimescaleDB succeeded when the process started
    proc,        \* the process: stopped, running, or running without an MQTT
                 \* client (InitializeSubscriber's first Connect failed)
    handler,     \* the subscriber goroutine: idle, checking or storing log[id]
    rows,        \* the metrics hypertable: id -> number of rows inserted for it
    received,    \* metricsReceived   (subscriber.go, in memory)
    rejected,    \* metricsRejected   (subscriber.go, in memory)
    stored,      \* metricsStored     (subscriber.go and TimescaleDBStorage)
    failures,    \* metricsFailures   (TimescaleDBStorage, in memory)
    done,        \* history: ids whose handler ran to completion at least once
    report,      \* the last admin API answer: none, or its endpoint and status
    crashes,
    disconnects,
    shutdowns

vars == <<log, sent, pending, subscribed, routed, unacked, queued, connected, storageUp, proc, handler,
          rows, received, rejected, stored, failures, done, report, crashes,
          disconnects, shutdowns>>

Ids == 1..MaxPublishes
Idle == [st |-> "idle", id |-> 0, attempt |-> 0]
NoReport == [api |-> "none"]

TypeOK ==
    /\ log \in Seq([from: Services, topic: Services, payload: Payloads])
    /\ Len(log) <= sent /\ sent \in 0..MaxPublishes
    /\ pending \in Seq(DOMAIN log) /\ unacked \in Seq(DOMAIN log)
    /\ {subscribed, routed, connected, storageUp} \subseteq BOOLEAN
    /\ proc \in {"stopped", "running", "noMqtt"}
    /\ queued \subseteq DOMAIN log
    /\ handler \in {Idle} \cup [st: {"checking", "storing"}, id: DOMAIN log,
                                attempt: 0..MaxRetries-1]
    /\ report \in {NoReport} \cup
         [api: {"health", "stats"}, status: {"healthy", "degraded"}]
    /\ rows \in [Ids -> Nat]
    /\ {received, rejected, stored, failures} \subseteq Nat
    /\ done \subseteq DOMAIN log

-----------------------------------------------------------------------------
(* validateMetric, subscriber.go: name length, forbidden label keys (exact *)
(* or as a substring of the lower-cased key), label count, key and value   *)
(* lengths, e-mail and SSH look-alike values, metric type.                 *)
ValidateMetric(m) ==
    /\ m.name > 0 /\ m.name <= MaxMetricNameLength
    /\ \A l \in m.labels : l.terms = {}
    /\ m.nlabels <= MaxLabelsPerMetric
    /\ \A l \in m.labels :
          /\ l.klen <= MaxLabelKeyLength
          /\ l.vlen <= MaxLabelValueLength
          /\ ~(l.at /\ l.dot)
          /\ ~l.ssh
    /\ m.type \in ValidTypes

TimestampOk(ts) == ts > 0 /\ ts <= Now + FutureSkew

(* incrementCounter: one increment of a subscriber counter under           *)
(* counterMutex; GetStatistics: the three counters read under one RLock.   *)
incrementCounter(c) == c + 1

GetStatistics == [received |-> received, rejected |-> rejected, stored |-> stored]

(* storage.HealthCheck of the facade: nil for storage that was never       *)
(* initialised ("not an error"), otherwise the pool's 5 s Ping.            *)
HealthCheck(pingOk) == ~storageUp \/ pingOk

\* Mutant: the payload's service is not compared with the topic.
AcceptedWithoutServiceCheck(msg) ==
    /\ msg.payload.json
    /\ ValidateMetric(msg.payload)
    /\ TimestampOk(msg.payload.ts)

(* The checks of messageHandler in order: the topic splits into metrics/s  *)
(* (the subscription metrics/+ guarantees it), the JSON parses, the        *)
(* payload names the topic's service, validateMetric, the timestamp.       *)
Accepted(msg) ==
    /\ msg.payload.json
    /\ msg.payload.service = msg.topic
    /\ ValidateMetric(msg.payload)
    /\ TimestampOk(msg.payload.ts)

(* The handler returns; paho acknowledges the delivery, which only reaches *)
(* the broker while the connection is up: otherwise it is redelivered.     *)
Finish(id) ==
    /\ handler' = Idle
    /\ done' = done \cup {id}
    /\ pending' = IF connected /\ pending # <<>> /\ Head(pending) = id
                  THEN Tail(pending) ELSE pending

-----------------------------------------------------------------------------
(* A publisher identity s, honest or compromised, publishes payload p to   *)
(* metrics/t with QoS 1. The broker ACL (spec 4.7) lets s write metrics/s  *)
(* only; an accepted message is queued in the collector's session, whether *)
(* or not the collector is connected, as long as the session holds the    *)
(* subscription metrics/+; otherwise the broker has no one to queue it for.*)
Publish(s, t, p) ==
    /\ sent < MaxPublishes
    /\ sent' = sent + 1
    /\ IF t = s
       THEN /\ log' = Append(log, [from |-> s, topic |-> t, payload |-> p])
            /\ IF subscribed
               THEN /\ pending' = Append(pending, Len(log) + 1)
                    /\ queued' = queued \cup {Len(log) + 1}
               ELSE UNCHANGED <<pending, queued>>
       ELSE UNCHANGED <<log, pending, queued>>
    /\ UNCHANGED <<subscribed, routed, unacked, connected, storageUp, proc, handler, rows, received,
                   rejected, stored, failures, done, report, crashes,
                   disconnects, shutdowns>>

(* paho's router hands the next queued message to messageHandler, whose   *)
(* first statement counts it (incrementCounter(&metricsReceived)).        *)
MessageHandler ==
    /\ handler = Idle /\ connected /\ routed /\ pending # <<>>
    /\ received' = incrementCounter(received)
    /\ handler' = [st |-> "checking", id |-> Head(pending), attempt |-> 0]
    /\ UNCHANGED <<log, sent, pending, subscribed, routed, unacked, queued, connected, storageUp, proc,
                   rows, rejected, stored, failures, done, report, crashes,
                   disconnects, shutdowns>>

\* Mutant: a failed check counts the rejection but has lost its return.
CheckMessageMissingReturn ==
    /\ handler.st = "checking"
    /\ LET id == handler.id IN
       /\ rejected' = IF Accepted(log[id]) THEN rejected ELSE rejected + 1
       /\ IF storageUp
          THEN /\ handler' = [handler EXCEPT !.st = "storing"]
               /\ UNCHANGED <<pending, done>>
          ELSE Finish(id)
    /\ UNCHANGED <<log, sent, subscribed, routed, unacked, queued, connected, storageUp, proc, rows,
                   received, stored, failures, report, crashes, disconnects,
                   shutdowns>>

(* The rest of messageHandler up to the storage call: run the checks, and  *)
(* either reject (counted, return) or hand over to storage.StoreMetric,   *)
(* whose nil check fails with "storage not initialized" and no counter     *)
(* when InitializeTimescaleDB failed at start-up.                          *)
CheckMessage ==
    /\ handler.st = "checking"
    /\ LET id == handler.id IN
       \/ /\ ~Accepted(log[id])
          /\ rejected' = incrementCounter(rejected)
          /\ Finish(id)
       \/ /\ Accepted(log[id]) /\ ~storageUp
          /\ UNCHANGED rejected
          /\ Finish(id)
       \/ /\ Accepted(log[id]) /\ storageUp
          /\ handler' = [handler EXCEPT !.st = "storing"]
          /\ UNCHANGED <<rejected, pending, done>>
    /\ UNCHANGED <<log, sent, subscribed, routed, unacked, queued, connected, storageUp, proc, rows,
                   received, stored, failures, report, crashes, disconnects,
                   shutdowns>>

-----------------------------------------------------------------------------
(* One executeInsert of StoreMetric's retry loop and what the loop does    *)
(* with its result. An insert either commits, fails with a retryable error *)
(* (connection, deadlock, timeout...), fails for good, or commits on the   *)
(* server while the client sees its 5 s context expire ("timeout", hence   *)
(* retryable).                                                             *)
StoreSucceeded(id) ==
    /\ stored' = incrementCounter(stored)
    /\ UNCHANGED failures
    /\ Finish(id)

\* Mutant: a failed insert is not counted by incrementFailureCount.
StoreFailedUncounted(id) ==
    /\ UNCHANGED <<stored, failures>>
    /\ Finish(id)

StoreFailed(id) ==
    /\ failures' = failures + 1
    /\ UNCHANGED stored
    /\ Finish(id)

\* Mutant: the loop also backs off after its last attempt.
RetryAfterBackoffOffByOne(h) ==
    /\ h.attempt < MaxRetries
    /\ handler' = [h EXCEPT !.attempt = @ + 1]
    /\ UNCHANGED <<stored, failures, pending, done>>

RetryAfterBackoff(h) ==
    /\ h.attempt < MaxRetries - 1
    /\ handler' = [h EXCEPT !.attempt = @ + 1]
    /\ UNCHANGED <<stored, failures, pending, done>>

RetryableFailure(h) ==
    \/ RetryAfterBackoff(h)
    \/ /\ h.attempt = MaxRetries - 1
       /\ StoreFailed(h.id)

InsertAttempt ==
    /\ handler.st = "storing"
    /\ LET id == handler.id IN
       \/ /\ rows' = [rows EXCEPT ![id] = @ + 1]
          /\ StoreSucceeded(id)
       \/ /\ UNCHANGED rows
          /\ RetryableFailure(handler)
       \/ /\ UNCHANGED rows
          /\ StoreFailed(id)
       \/ /\ rows' = [rows EXCEPT ![id] = @ + 1]
          /\ RetryableFailure(handler)
    /\ UNCHANGED <<log, sent, subscribed, routed, unacked, queued, connected, storageUp, proc, received,
                   rejected, report, crashes, disconnects, shutdowns>>

-----------------------------------------------------------------------------
(* The connection to the broker drops (onConnectionLostHandler). The       *)
(* session is persistent, so unacknowledged messages stay queued.          *)
ConnectionLost ==
    /\ connected /\ disconnects < MaxDisconnects
    /\ connected' = FALSE
    /\ disconnects' = disconnects + 1
    /\ UNCHANGED <<log, sent, pending, subscribed, routed, unacked, queued, storageUp, proc, handler,
                   rows, received, rejected, stored, failures, done, report,
                   crashes, shutdowns>>

\* Mutant: the client is built with SetAutoReconnect(false).
ReconnectDisabled == FALSE

(* The broker, on a new connection of the persistent session, first      *)
(* resends the deliveries left unacknowledged.                             *)
Redeliver == pending' = unacked \o pending /\ unacked' = <<>>

(* Automatic reconnection of a client whose first Connect succeeded. The  *)
(* client keeps its router, so a route made by an earlier onConnectHandler *)
(* still stands; its new Subscribe of the same topic changes nothing.     *)
Reconnect ==
    /\ proc = "running" /\ ~connected
    /\ connected' = TRUE
    /\ Redeliver
    /\ UNCHANGED <<log, sent, subscribed, routed, queued, storageUp, proc, handler, rows,
                   received, rejected, stored, failures, done, report, crashes,
                   disconnects, shutdowns>>

(* The process ends: every in-memory counter and the handler in progress *)
(* are lost. The broker keeps the session.                                *)
Restart ==
    /\ proc' = "stopped" /\ connected' = FALSE /\ routed' = FALSE
    /\ handler' = Idle
    /\ received' = 0 /\ rejected' = 0 /\ stored' = 0 /\ failures' = 0
    /\ UNCHANGED <<log, sent, pending, unacked, queued, rows, done, report, disconnects,
                   storageUp>>

(* NewTimescaleDBStorage: the URL fails to parse, the pool cannot be     *)
(* created, or its first Ping fails within 10 s -- each an error -- or the  *)
(* storage is returned with its pool.                                       *)
NewTimescaleDBStorage == storageUp' \in BOOLEAN

(* InitializeTimescaleDB: the global storage instance is set only when     *)
(* NewTimescaleDBStorage succeeded; on an error main logs it and runs       *)
(* without storage.                                                        *)
InitializeTimescaleDB == NewTimescaleDBStorage

\* Mutant: the client connects with SetCleanSession(true): the broker
\* discards the session's queue and unacknowledged deliveries.
InitializeSubscriberCleanSession ==
    /\ routed' = FALSE
    /\ \/ proc' = "running" /\ connected' = TRUE /\ pending' = <<>> /\ unacked' = <<>>
       \/ proc' = "noMqtt" /\ connected' = FALSE /\ UNCHANGED <<pending, unacked>>
    /\ UNCHANGED subscribed

(* InitializeSubscriber: a new client, with no route and no default       *)
(* publish handler, makes one Connect with auto-reconnect, clean session   *)
(* off and no connect retry. If it succeeds the broker resumes the session *)
(* at once; the route is only made later, by onConnectHandler. If it       *)
(* fails main logs "Continuing without MQTT" and the client never          *)
(* connects: auto-reconnect only follows a connection that was made.       *)
InitializeSubscriber ==
    /\ routed' = FALSE
    /\ \/ proc' = "running" /\ connected' = TRUE /\ Redeliver
       \/ proc' = "noMqtt" /\ connected' = FALSE /\ UNCHANGED <<pending, unacked>>
    /\ UNCHANGED subscribed

(* The deployment starts the stopped process again: main's start-up. *)
Start ==
    /\ proc = "stopped"
    /\ InitializeTimescaleDB
    /\ InitializeSubscriber
    /\ UNCHANGED <<log, sent, queued, handler, rows, received, rejected,
                   stored, failures, done, report, crashes, disconnects, shutdowns>>

(* onConnectHandler, run by paho after each connection: Subscribe adds the *)
(* metrics/+ route to messageHandler and subscribes the session with QoS 1.*)
onConnectHandler ==
    /\ proc = "running" /\ connected /\ ~routed
    /\ routed' = TRUE /\ subscribed' = TRUE
    /\ UNCHANGED <<log, sent, pending, unacked, queued, connected, storageUp, proc,
                   handler, rows, received, rejected, stored, failures, done, report,
                   crashes, disconnects, shutdowns>>

(* A session message reaches the client before onConnectHandler's route:  *)
(* with no matching route and no default handler, paho's router neither    *)
(* calls messageHandler nor acknowledges it; the broker keeps it in flight *)
(* and resends it only on the session's next connection.                   *)
Unrouted ==
    /\ proc = "running" /\ connected /\ ~routed /\ pending # <<>>
    /\ unacked' = Append(unacked, Head(pending))
    /\ pending' = Tail(pending)
    /\ UNCHANGED <<log, sent, subscribed, routed, queued, connected, storageUp, proc,
                   handler, rows, received, rejected, stored, failures, done, report,
                   crashes, disconnects, shutdowns>>

(* The collector process dies (killed, out of memory). *)
Crash ==
    /\ proc # "stopped" /\ crashes + shutdowns < MaxRestarts
    /\ crashes' = crashes + 1
    /\ Restart
    /\ UNCHANGED <<subscribed, shutdowns>>

(* SIGINT or SIGTERM: main cancels, calls mqtt.Disconnect and returns once *)
(* the admin server has stopped, abandoning a handler in progress.         *)
(* Disconnect runs while IsConnected(), which paho keeps true during       *)
(* automatic reconnection: it first unsubscribes from metrics/+, which     *)
(* removes the subscription from the persistent session when the           *)
(* connection is open, and fails (not connected) when it is not.           *)
Shutdown ==
    /\ proc # "stopped" /\ crashes + shutdowns < MaxRestarts
    /\ shutdowns' = shutdowns + 1
    /\ subscribed' = IF connected THEN FALSE ELSE subscribed
    /\ Restart
    /\ UNCHANGED crashes

(* The admin API (main.go mounts /api/health and /api/stats): both read    *)
(* mqtt.GetStatistics, one RLock over the three subscriber counters, so an *)
(* answer shows received, rejected and stored as they are at that step.    *)
(* AdminHealthHandler is degraded only when storage.HealthCheck fails,     *)
(* which it never does for storage that was not initialised; a ping of an *)
(* initialised pool may fail. StatsHandler derives the rejection and       *)
(* storage rates (percent of received) when received > 0.                  *)
AdminHealthHandler ==
    /\ proc # "stopped"
    /\ \E pingOk \in BOOLEAN :
          report' = [api |-> "health",
                     status |-> IF HealthCheck(pingOk) THEN "healthy" ELSE "degraded"]
    /\ UNCHANGED <<log, sent, pending, subscribed, routed, unacked, queued, connected, storageUp, proc,
                   handler, rows, received, rejected, stored, failures, done,
                   crashes, disconnects, shutdowns>>

StatsHandler ==
    /\ proc # "stopped"
    /\ report' = [api |-> "stats", status |-> "healthy"]
    /\ UNCHANGED <<log, sent, pending, subscribed, routed, unacked, queued, connected, storageUp, proc,
                   handler, rows, received, rejected, stored, failures, done,
                   crashes, disconnects, shutdowns>>

-----------------------------------------------------------------------------
Init ==
    /\ log = <<>> /\ sent = 0 /\ pending = <<>>
    /\ subscribed = TRUE /\ routed = TRUE /\ unacked = <<>> /\ queued = {}
    /\ connected = TRUE /\ proc = "running"
    /\ storageUp \in BOOLEAN
    /\ handler = Idle
    /\ rows = [i \in Ids |-> 0]
    /\ received = 0 /\ rejected = 0 /\ stored = 0 /\ failures = 0
    /\ done = {}
    /\ report = NoReport
    /\ crashes = 0 /\ disconnects = 0 /\ shutdowns = 0

Next ==
    \/ \E s, t \in Services, p \in Payloads : Publish(s, t, p)
    \/ MessageHandler
    \/ CheckMessage
    \/ InsertAttempt
    \/ ConnectionLost
    \/ Reconnect
    \/ onConnectHandler
    \/ Unrouted
    \/ Crash
    \/ Start
    \/ Shutdown
    \/ AdminHealthHandler
    \/ StatsHandler

(* Paho's router goroutine runs the handler whenever a message is queued   *)
(* and the client reconnects automatically (SetAutoReconnect(true)); a    *)
(* stopped or crashed collector is started again (its deployment restarts *)
(* it). Publications, connection losses, crashes, shutdowns and admin API *)
(* calls are the environment.                                             *)
Fairness ==
    /\ WF_vars(MessageHandler)
    /\ WF_vars(CheckMessage)
    /\ WF_vars(InsertAttempt)
    /\ WF_vars(Reconnect)
    /\ WF_vars(onConnectHandler)
    /\ WF_vars(Start)

Spec == Init /\ [][Next]_vars /\ Fairness

-----------------------------------------------------------------------------
(* The collector implements the metrics plane of MetricsPipeline: under   *)
(* the mapping below (the broker's log, the publications it queued for the *)
(* collector, the publications with a row in the hypertable) every step is *)
(* a step of the abstract pipeline or leaves its state alone. In          *)
(* particular every row stored -- by a first insert, a retry, a            *)
(* redelivery after a connection loss or a restart -- belongs to a         *)
(* publication queued for the collector whose payload names the identity   *)
(* that published it, carries no PII-looking label and has a sane          *)
(* timestamp, whatever a compromised publisher sends. It rests on the      *)
(* broker ACL and the handler's topic/service check together.              *)
StoredIds == {id \in DOMAIN log : rows[id] > 0}

Pipeline == INSTANCE MetricsPipeline
                WITH delivered <- queued, stored <- StoredIds, MaxSkew <- FutureSkew

ImplementsPipeline == Pipeline!Spec

(* Whenever the subscriber of a process that has its storage is idle,    *)
(* every message it counted as received since the process started is      *)
(* counted exactly once more: as rejected, as stored, or as a storage     *)
(* failure (spec 4.8 and 4.9). Without storage an accepted message is     *)
(* counted nowhere (part_000 StoreMetric's nil check).                     *)
CountersAccount ==
    handler = Idle /\ storageUp => received = rejected + stored + failures

(* What the admin API shows is never more than was received: at every     *)
(* step, so in every /api/health and /api/stats answer (GetStatistics),   *)
(* rejected + stored <= received, and StatsHandler's rejection_rate and   *)
(* storage_rate are percentages that add up to at most 100 -- although    *)
(* the handler counts a message in one critical section and its outcome   *)
(* in another, answers are read between them, and redeliveries and        *)
(* restarts intervene.                                                     *)
StatsRatesSound ==
    GetStatistics.rejected + GetStatistics.stored <= GetStatistics.received

(* The ids a session sequence holds. *)
SessionIds(q) == {q[i] : i \in DOMAIN q}

(* At least once across restarts: a publication the broker queued for the *)
(* collector never leaves the persistent session before a handler ran to  *)
(* its end -- whether the handler is abandoned by a crash or a shutdown,   *)
(* its acknowledgement is lost with the connection, or it arrives at a     *)
(* restarted client before onConnectHandler's route and is left           *)
(* unacknowledged (SetCleanSession(false) in InitializeSubscriber).       *)
NoQueuedMessageLost ==
    \A id \in queued :
        id \in done \/ id \in SessionIds(pending) \/ id \in SessionIds(unacked)

(* Every publication the broker queued for the collector is eventually    *)
(* handled to the end, across connection losses, crashes and restarts     *)
(* (QoS 1 with a persistent session) -- or the collector is left running  *)
(* without MQTT, when the first Connect of a restarted process failed:   *)
(* nothing retries that Connect -- or it reached a restarted client before *)
(* the route and waits, unacknowledged, for the session's next connection, *)
(* which only a connection loss or another restart brings.               *)
Collecting(id) == id \in done \/ proc = "noMqtt" \/ id \in SessionIds(unacked)

EveryQueuedMessageHandled ==
    \A id \in Ids : (id \in queued) ~> Collecting(id)

(* Spec 4.7: durable subscriber sessions, so that publications are kept   *)
(* for the collector across its restarts: every publication the broker    *)
(* accepted is eventually handled -- including one made while a stopped   *)
(* collector is being restarted.                                           *)
EveryAcceptedMessageHandled ==
    \A id \in Ids : (id <= Len(log)) ~> Collecting(id)

=============================================================================
