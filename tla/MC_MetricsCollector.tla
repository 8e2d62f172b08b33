------------------------- MODULE MC_MetricsCollector -------------------------
(***************************************************************************)
(* Model values for MetricsCollector: two publisher identities and the     *)
(* payloads that exercise each check of messageHandler and validateMetric, *)
(* including the boundary cases (a timestamp exactly 60 s ahead, a         *)
(* mixed-case forbidden key).                                              *)
(***************************************************************************)
EXTENDS MetricsCollector

MCServices == {"entry-hub", "database-vault"}
MCNow == 1000

\* labels, as the facts validateMetric tests about them
PathLabel  == [terms |-> {}, klen |-> 4, vlen |-> 13, at |-> FALSE, dot |-> FALSE, ssh |-> FALSE]
   \* "path": "/api/register"
EmailKey   == [terms |-> {"email"}, klen |-> 5, vlen |-> 9, at |-> TRUE, dot |-> TRUE, ssh |-> FALSE]
   \* "email": "a@b.co.uk"
UserIdKey  == [terms |-> {"user_id"}, klen |-> 9, vlen |-> 2, at |-> FALSE, dot |-> FALSE, ssh |-> FALSE]
   \* "X_User_ID": "42"
EmailValue == [terms |-> {}, klen |-> 4, vlen |-> 17, at |-> TRUE, dot |-> TRUE, ssh |-> FALSE]
   \* "user": "alice@example.com"
SshValue   == [terms |-> {}, klen |-> 3, vlen |-> 40, at |-> FALSE, dot |-> FALSE, ssh |-> TRUE]
   \* "key": "SSH-ed25519 AAAA..."

Metric(svc, ls, ty, ts) ==
    [json |-> TRUE, service |-> svc, name |-> 14, nlabels |-> Cardinality(ls),
     labels |-> ls, type |-> ty, ts |-> ts]

MCPayloads ==
    { Metric("entry-hub", {PathLabel}, "counter", MCNow),          \* honest hub
      Metric("entry-hub", {PathLabel}, "gauge", MCNow + 60),       \* skew limit
      Metric("database-vault", {PathLabel}, "counter", MCNow),     \* vault's name
      Metric("entry-hub", {EmailKey}, "counter", MCNow),
      Metric("entry-hub", {UserIdKey, PathLabel}, "gauge", MCNow),
      Metric("entry-hub", {EmailValue}, "counter", MCNow),
      Metric("entry-hub", {SshValue}, "counter", MCNow),
      Metric("entry-hub", {PathLabel}, "bogus", MCNow),
      Metric("entry-hub", {PathLabel}, "counter", MCNow + 61),
      Metric("entry-hub", {PathLabel}, "counter", 0),
      [Metric("entry-hub", {PathLabel}, "counter", MCNow) EXCEPT !.json = FALSE] }


\* The cases that take distinct paths through messageHandler: stored, the
\* skew limit, a service mismatch, a forbidden key, a PII-looking value and
\* a timestamp one second past the limit.
MCPayloadsCore ==
    { Metric("entry-hub", {PathLabel}, "counter", MCNow),
      Metric("entry-hub", {PathLabel}, "gauge", MCNow + 60),
      Metric("database-vault", {PathLabel}, "counter", MCNow),
      Metric("entry-hub", {UserIdKey, PathLabel}, "gauge", MCNow),
      Metric("entry-hub", {SshValue}, "counter", MCNow),
      Metric("entry-hub", {PathLabel}, "counter", MCNow + 61) }

=============================================================================
