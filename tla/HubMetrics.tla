------------------------------ MODULE HubMetrics ------------------------------
(***************************************************************************)
(* The Entry-Hub's in-memory metrics aggregator (package metrics) driven   *)
(* by concurrent requests through MetricsMiddleware and RegisterHandler,   *)
(* and read by the publisher through GetMetrics.                           *)
(*                                                                         *)
(* Every aggregator function takes collector.mu for its whole body, so     *)
(* each call is one atomic step; a request is the sequence of calls the    *)
(* middleware and the handler make, executed one call per step, so other  *)
(* requests and GetMetrics interleave between any two of them.             *)
(***************************************************************************)
EXTENDS Integers, SequencesExt

CONSTANTS
    Requests,          \* concurrent request goroutines (model values)
    Outcomes,          \* what RegisterHandler does: [status, calls]
    DurationValues,    \* measured durations, in abstract units
    HistogramLimit,    \* RecordRequestDuration: trim when len >= 10000
    HistogramDrop,     \* ... by dropping the oldest 5000 samples
    MaxRequests        \* bound on requests served

ASSUME /\ HistogramDrop \in 1..HistogramLimit
       /\ MaxRequests \in Nat

\* The closed label vocabularies of the sanitize* helpers
FailureLabels == {"invalid_email", "invalid_password", "invalid_ssh_key", "validation_error"}
ErrorLabels == {"timeout", "connection", "tls", "certificate", "internal"}
StatusClasses == {1, 2, 3, 4, 5}
Quantiles == <<50, 95, 99>>

VARIABLES
    prog,                \* request -> the calls it has still to make
    served,              \* requests started so far
    requestsTotal,       \* status class -> count (one method and path)
    requestDurations,    \* the sample buffer
    registrationsTotal,  \* "success" / "failed" -> count
    validationFailures,  \* sanitized reason -> count
    errorsTotal,         \* sanitized error type -> count
    activeConnections,
    snapshot,            \* the last GetMetrics result, or none
    recorded             \* history: every duration ever recorded, in order

vars == <<prog, served, requestsTotal, requestDurations, registrationsTotal,
          validationFailures, errorsTotal, activeConnections, snapshot, recorded>>

Call == [op: {"conn"}, delta: {-1, 1}]
          \cup [op: {"request"}, status: Nat]
          \cup [op: {"duration"}, ms: DurationValues]
          \cup [op: {"registration"}, success: BOOLEAN]
          \cup [op: {"validation"}, reason: STRING]
          \cup [op: {"error"}, type: STRING]

NoSnapshot == [taken |-> FALSE]

TypeOK ==
    /\ prog \in [Requests -> Seq(Call)]
    /\ served \in 0..MaxRequests
    /\ requestsTotal \in [StatusClasses -> Nat]
    /\ requestDurations \in BoundedSeq(DurationValues, HistogramLimit)
    /\ registrationsTotal \in [{"success", "failed"} -> Nat]
    /\ validationFailures \in [FailureLabels -> Nat]
    /\ errorsTotal \in [ErrorLabels -> Nat]
    /\ activeConnections \in Nat
    /\ snapshot \in {NoSnapshot} \cup
         [taken: {TRUE}, requests: [StatusClasses -> Nat],
          quantiles: Seq(DurationValues),
          registrations: [{"success", "failed"} -> Nat],
          validations: [FailureLabels -> Nat], active: Nat]

-----------------------------------------------------------------------------
(* The sanitizers: the first vocabulary word the string contains picks    *)
(* the label. Strings are the literals of the call sites; Contains is a   *)
(* substring test on them, given as a table (see the MC module).          *)
CONSTANT Mentions(_, _)   \* Mentions(s, w): the literal s contains w

sanitizeFailureReason(reason) ==
    CASE Mentions(reason, "email")    -> "invalid_email"
      [] Mentions(reason, "password") -> "invalid_password"
      [] Mentions(reason, "ssh")      -> "invalid_ssh_key"
      [] OTHER                        -> "validation_error"

sanitizeErrorType(type) ==
    CASE Mentions(type, "timeout")     -> "timeout"
      [] Mentions(type, "connection")  -> "connection"
      [] Mentions(type, "tls")         -> "tls"
      [] Mentions(type, "certificate") -> "certificate"
      [] OTHER                         -> "internal"

(* calculatePercentile: the positional index int(len * p / 100), capped   *)
(* at len - 1, of the sample as it is: the sample is not sorted.           *)
calculatePercentile(values, p) ==
    LET index == (Len(values) * p) \div 100
    IN values[IF index >= Len(values) THEN Len(values) ELSE index + 1]

\* Mutant: the gauge is decremented right after the handler, not deferred.
MetricsMiddlewareEarlyDecrement(r, o, ms) ==
    <<[op |-> "conn", delta |-> 1]>>
      \o o.calls
      \o <<[op |-> "conn", delta |-> -1],
           [op |-> "request", status |-> o.status],
           [op |-> "duration", ms |-> ms]>>

\* Mutant: the trim fires only once the buffer is over the limit.
TrimDurationsLate(d) ==
    IF Len(d) > HistogramLimit THEN SubSeq(d, HistogramDrop + 1, Len(d)) ELSE d

\* Mutant: the trim keeps the oldest samples instead of the newest.
TrimKeepOldest(d) ==
    IF Len(d) >= HistogramLimit THEN SubSeq(d, 1, Len(d) - HistogramDrop) ELSE d

(* RecordRequestDuration's trim: when the buffer holds HistogramLimit     *)
(* samples or more, drop the oldest HistogramDrop of them.                *)
TrimDurations(d) ==
    IF Len(d) >= HistogramLimit THEN SubSeq(d, HistogramDrop + 1, Len(d)) ELSE d

(* One aggregator call, under the exclusive lock. *)
Apply(c) ==
    CASE c.op = "conn" ->
           /\ activeConnections' =
                IF activeConnections + c.delta < 0 THEN 0
                ELSE activeConnections + c.delta
           /\ UNCHANGED <<requestsTotal, requestDurations, registrationsTotal,
                          validationFailures, errorsTotal, recorded>>
      [] c.op = "request" ->
           /\ requestsTotal' = [requestsTotal EXCEPT ![c.status \div 100] = @ + 1]
           /\ UNCHANGED <<activeConnections, requestDurations, registrationsTotal,
                          validationFailures, errorsTotal, recorded>>
      [] c.op = "duration" ->
           /\ requestDurations' = Append(TrimDurations(requestDurations), c.ms)
           /\ recorded' = Append(recorded, c.ms)
           /\ UNCHANGED <<activeConnections, requestsTotal, registrationsTotal,
                          validationFailures, errorsTotal>>
      [] c.op = "registration" ->
           /\ registrationsTotal' =
                [registrationsTotal EXCEPT ![IF c.success THEN "success" ELSE "failed"] = @ + 1]
           /\ UNCHANGED <<activeConnections, requestsTotal, requestDurations,
                          validationFailures, errorsTotal, recorded>>
      [] c.op = "validation" ->
           /\ validationFailures' =
                [validationFailures EXCEPT ![sanitizeFailureReason(c.reason)] = @ + 1]
           /\ UNCHANGED <<activeConnections, requestsTotal, requestDurations,
                          registrationsTotal, errorsTotal, recorded>>
      [] c.op = "error" ->
           /\ errorsTotal' = [errorsTotal EXCEPT ![sanitizeErrorType(c.type)] = @ + 1]
           /\ UNCHANGED <<activeConnections, requestsTotal, requestDurations,
                          registrationsTotal, validationFailures, recorded>>

-----------------------------------------------------------------------------
(* A request arrives at MetricsMiddleware: increment the gauge, run the    *)
(* handler with its own metric calls, then IncrementRequest and            *)
(* RecordRequestDuration, and the deferred decrement of the gauge.         *)
MetricsMiddleware(r, o, ms) ==
    <<[op |-> "conn", delta |-> 1]>>
      \o o.calls
      \o <<[op |-> "request", status |-> o.status],
           [op |-> "duration", ms |-> ms],
           [op |-> "conn", delta |-> -1]>>

Start(r, o, ms) ==
    /\ prog[r] = <<>> /\ served < MaxRequests
    /\ served' = served + 1
    /\ prog' = [prog EXCEPT ![r] = MetricsMiddleware(r, o, ms)]
    /\ UNCHANGED <<requestsTotal, requestDurations, registrationsTotal,
                   validationFailures, errorsTotal, activeConnections,
                   snapshot, recorded>>

(* Request r makes its next aggregator call. *)
Step(r) ==
    /\ prog[r] # <<>>
    /\ Apply(Head(prog[r]))
    /\ prog' = [prog EXCEPT ![r] = Tail(@)]
    /\ UNCHANGED <<served, snapshot>>

(* GetMetrics under the shared lock: request counters, the three           *)
(* quantiles when the sample is not empty, registrations, validation       *)
(* failures and the gauge, all read in one critical section (the error    *)
(* counters it also exports are read in the same section; no property     *)
(* looks at them in a snapshot).                                           *)
GetMetrics ==
    /\ snapshot' =
         [taken |-> TRUE,
          requests |-> requestsTotal,
          quantiles |-> IF requestDurations = <<>> THEN <<>>
                        ELSE [i \in 1..3 |-> calculatePercentile(requestDurations, Quantiles[i])],
          registrations |-> registrationsTotal,
          validations |-> validationFailures,
          active |-> activeConnections]
    /\ UNCHANGED <<prog, served, requestsTotal, requestDurations, registrationsTotal,
                   validationFailures, errorsTotal, activeConnections, recorded>>

Init ==
    /\ prog = [r \in Requests |-> <<>>]
    /\ served = 0
    /\ requestsTotal = [c \in StatusClasses |-> 0]
    /\ requestDurations = <<>>
    /\ registrationsTotal = [k \in {"success", "failed"} |-> 0]
    /\ validationFailures = [k \in FailureLabels |-> 0]
    /\ errorsTotal = [k \in ErrorLabels |-> 0]
    /\ activeConnections = 0
    /\ snapshot = NoSnapshot
    /\ recorded = <<>>

Next ==
    \/ \E r \in Requests, o \in Outcomes, ms \in DurationValues : Start(r, o, ms)
    \/ \E r \in Requests : Step(r)
    \/ GetMetrics

Spec == Init /\ [][Next]_vars

-----------------------------------------------------------------------------
(* Spec 4.5, drop-oldest-half: the sample buffer is always the newest     *)
(* durations recorded, in order, and after a trim it still holds every    *)
(* sample the trim kept plus the new one -- RecordRequestDuration's        *)
(* trim-then-append, across concurrent requests and repeated trims.        *)
HistogramKeepsNewest ==
    /\ IsSuffix(requestDurations, recorded)
    /\ Len(requestDurations) >=
         IF Len(recorded) <= HistogramLimit - HistogramDrop + 1
         THEN Len(recorded) ELSE HistogramLimit - HistogramDrop + 1

(* What one GetMetrics snapshot says is consistent although a request's    *)
(* counters are separate critical sections: RegisterHandler counts a       *)
(* registration or a validation failure (at most one of them) before the   *)
(* middleware counts the request, and the deferred gauge decrement comes   *)
(* after that, so every registration or validation failure a snapshot      *)
(* shows belongs to a request it counts or to a connection it shows as    *)
(* active -- whatever GetMetrics interleaves with.                         *)
Total(f) == FoldFunction(+, 0, f)

SnapshotAccountsRequests ==
    snapshot # NoSnapshot =>
        Total(snapshot.registrations) + Total(snapshot.validations)
            <= Total(snapshot.requests) + snapshot.active

(* Spec section 8: the quantile exporter returns p50 <= p95 <= p99 for any *)
(* non-empty sample; checked on what GetMetrics exports.                   *)
QuantilesOrdered ==
    snapshot # NoSnapshot /\ snapshot.quantiles # <<>> =>
        /\ snapshot.quantiles[1] <= snapshot.quantiles[2]
        /\ snapshot.quantiles[2] <= snapshot.quantiles[3]

=============================================================================
