--------------------------- MODULE MetricsPipeline ---------------------------
(***************************************************************************)
(* What the metrics plane promises, in the terms of the specification      *)
(* (sections 4.5, 4.7 and invariant 3 of section 7), without the broker    *)
(* session, the handler, retries, counters or restarts:                    *)
(*   - an identity publishes on its own topic only (the broker ACL);       *)
(*   - a publication either reaches the collector's queue or it does not   *)
(*     (nobody subscribed), once and for all when it is published;         *)
(*   - the store only ever gains publications that reached the collector   *)
(*     and are authentic: the payload names its publisher, no label looks  *)
(*     like user data, the timestamp is in (0, now + skew].                *)
(* Nothing promises that a point is stored: the pipeline may lose points,  *)
(* so the specification is a safety property only.                         *)
(***************************************************************************)
EXTENDS Integers, Sequences

CONSTANTS Services, Payloads, Now, MaxSkew, MaxPublishes

VARIABLES
    log,        \* publications: id -> [from, topic, payload]
    delivered,  \* ids of publications queued for the collector
    stored      \* ids of publications with a row in the time-series store

(* Invariant 3 of section 7: no forbidden label key, no value that looks   *)
(* like an e-mail address or an SSH key, a sane timestamp; and the         *)
(* topic/payload identity match of section 4.5.                            *)
ZeroKnowledge(p) ==
    \A l \in p.labels : l.terms = {} /\ ~(l.at /\ l.dot) /\ ~l.ssh

Authentic(m) ==
    /\ m.payload.json
    /\ m.payload.service = m.from
    /\ ZeroKnowledge(m.payload)
    /\ m.payload.ts > 0 /\ m.payload.ts <= Now + MaxSkew

Init == log = <<>> /\ delivered = {} /\ stored = {}

Publish(s, p) ==
    /\ Len(log) < MaxPublishes
    /\ log' = Append(log, [from |-> s, topic |-> s, payload |-> p])
    /\ delivered' \in {delivered, delivered \cup {Len(log) + 1}}
    /\ UNCHANGED stored

Store(id) ==
    /\ id \in delivered
    /\ Authentic(log[id])
    /\ stored' = stored \cup {id}
    /\ UNCHANGED <<log, delivered>>

Next ==
    \/ \E s \in Services, p \in Payloads : Publish(s, p)
    \/ \E id \in DOMAIN log : Store(id)

Spec == Init /\ [][Next]_<<log, delivered, stored>>

=============================================================================
