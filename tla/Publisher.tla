------------------------------ MODULE Publisher ------------------------------
(***************************************************************************)
(* The Entry-Hub's MQTT metrics publisher (entry-hub/mqtt/publisher.go).   *)
(*                                                                         *)
(* Actors: the publication goroutine of startPeriodicPublication (stagger, *)
(* then a ticker loop), goroutines spawned by PublishMetricsNow, callers   *)
(* of Shutdown (the one that wins shutdownOnce runs the body, the others   *)
(* block in Once.Do until it returns), and the paho client's connection,   *)
(* which is lost and re-established by auto-reconnect.                     *)
(*                                                                         *)
(* Every publishMetrics invocation is a worker: "loop" (the goroutine),    *)
(* "final" (Shutdown's final publication) or a PublishMetricsNow call. It  *)
(* checks IsConnected, takes a snapshot of k points, and publishes them    *)
(* one per step, each awaited with WaitTimeout.                            *)
(*                                                                         *)
(* The paho client's status: IsConnected is true while connected and, with *)
(* AutoReconnect, while reconnecting; only a client that never connected   *)
(* or was disconnected reports false. A QoS 1 publish reaches the broker   *)
(* only while connected; otherwise its token errors or times out.          *)
(***************************************************************************)
EXTENDS Naturals, Sequences

CONSTANTS
    NowCallers,      \* PublishMetricsNow invocations (model values)
    ShutdownCallers, \* goroutines calling Shutdown (model values)
    MaxPoints,       \* points in one GetMetrics snapshot, at most
    MaxTicks,        \* ticker firings explored
    MaxDrops         \* connection losses explored

Workers == {"loop", "final"} \cup NowCallers
Stages == {"none", "flag", "close", "final", "publishing", "disconnect", "done"}
Idle == [pc |-> "idle", left |-> 0]

VARIABLES
    client,     \* mqttClient: "nil" or the paho status
    loopPc,     \* the publication goroutine
    ticks,      \* ticker firings so far
    flag,       \* isShuttingDown
    stopChan,   \* "nil" | "open" | "closed"
    once,       \* shutdownOnce has fired
    stage,      \* progress of the Once body
    caller,     \* Shutdown caller -> "idle" | "inDo" | "returned"
    pub,        \* worker -> publishMetrics state
    nowUsed,    \* PublishMetricsNow calls made
    drops,      \* connection losses so far
    wire        \* history: the worker of every point the broker acknowledged

vars == <<client, loopPc, ticks, flag, stopChan, once, stage, caller, pub,
          nowUsed, drops, wire>>

TypeOK ==
    /\ client \in {"nil", "disconnected", "connected", "reconnecting"}
    /\ loopPc \in {"absent", "delay", "loop", "publishing", "stopped"}
    /\ ticks \in 0..MaxTicks
    /\ flag \in BOOLEAN /\ once \in BOOLEAN
    /\ stopChan \in {"nil", "open", "closed"}
    /\ stage \in Stages
    /\ caller \in [ShutdownCallers -> {"idle", "inDo", "returned"}]
    /\ pub \in [Workers -> [pc: {"idle", "check", "send"}, left: 0..MaxPoints]]
    /\ nowUsed \subseteq NowCallers
    /\ drops \in 0..MaxDrops
    /\ wire \in Seq(Workers)

IsConnected == client \in {"connected", "reconnecting"}

-----------------------------------------------------------------------------
(* InitializePublisher's outcomes: MQTT not configured or TLS failed        *)
(* (client nil), Connect failed (client disconnected, no goroutine), or     *)
(* connected and startPeriodicPublication ran (stopChan made, goroutine in  *)
(* its stagger delay).                                                      *)
Init ==
    /\ client \in {"nil", "disconnected", "connected"}
    /\ loopPc = IF client = "connected" THEN "delay" ELSE "absent"
    /\ stopChan = IF client = "connected" THEN "open" ELSE "nil"
    /\ ticks = 0 /\ flag = FALSE /\ once = FALSE /\ stage = "none"
    /\ caller = [c \in ShutdownCallers |-> "idle"]
    /\ pub = [w \in Workers |-> Idle]
    /\ nowUsed = {} /\ drops = 0 /\ wire = <<>>

\* Worker w enters publishMetrics.
Begin(w) == pub' = [pub EXCEPT ![w] = [pc |-> "check", left |-> 0]]

(* publishMetrics returns to its caller: the goroutine goes back to its    *)
(* select, Shutdown goes on to Disconnect.                                 *)
Finish(w) ==
    /\ pub' = [pub EXCEPT ![w] = Idle]
    /\ loopPc' = IF w = "loop" THEN "loop" ELSE loopPc
    /\ stage' = IF w = "final" THEN "disconnect" ELSE stage

-----------------------------------------------------------------------------
(* The goroutine's first select: the stagger timer fires and the first     *)
(* publication starts, with no look at isShuttingDown; or stopChan is      *)
(* closed and it returns. When both are ready Go picks either.             *)
DelayElapsed ==
    /\ loopPc = "delay"
    /\ loopPc' = "publishing" /\ Begin("loop")
    /\ UNCHANGED <<client, ticks, flag, stopChan, once, stage, caller, nowUsed, drops, wire>>

DelayStop ==
    /\ loopPc = "delay" /\ stopChan = "closed"
    /\ loopPc' = "stopped"
    /\ UNCHANGED <<client, ticks, flag, stopChan, once, stage, caller, pub, nowUsed, drops, wire>>

(* The ticker case: read isShuttingDown under the read lock, release it,   *)
(* and publish if it was false. The flag may be set right after the read.  *)
Tick ==
    /\ loopPc = "loop" /\ ticks < MaxTicks
    /\ ticks' = ticks + 1
    /\ IF flag THEN UNCHANGED <<loopPc, pub>>
       ELSE loopPc' = "publishing" /\ Begin("loop")
    /\ UNCHANGED <<client, flag, stopChan, once, stage, caller, nowUsed, drops, wire>>

\* Mutant: `break` in the stop case leaves only the select, not the loop.
LoopStopBreak ==
    /\ loopPc = "loop" /\ stopChan = "closed"
    /\ loopPc' = "loop"
    /\ UNCHANGED <<client, ticks, flag, stopChan, once, stage, caller, pub, nowUsed, drops, wire>>

\* The stop case of the loop: the goroutine returns.
LoopStop ==
    /\ loopPc = "loop" /\ stopChan = "closed"
    /\ loopPc' = "stopped"
    /\ UNCHANGED <<client, ticks, flag, stopChan, once, stage, caller, pub, nowUsed, drops, wire>>

-----------------------------------------------------------------------------
(* publishMetrics' entry: return unless the client is connected; take the  *)
(* GetMetrics snapshot (k points). Its `len(metricsData) == 0` return is    *)
(* never taken: GetMetrics always exports connections_active.             *)
PublishCheck(w) ==
    /\ pub[w].pc = "check"
    /\ \/ ~IsConnected /\ Finish(w)
       \/ \E k \in 1..MaxPoints :
            /\ IsConnected
            /\ pub' = [pub EXCEPT ![w] = [pc |-> "send", left |-> k]]
            /\ UNCHANGED <<loopPc, stage>>
    /\ UNCHANGED <<client, ticks, flag, stopChan, once, caller, nowUsed, drops, wire>>

\* Mutant: token.Wait() instead of WaitTimeout: a publish blocks while reconnecting.
PublishPointBlocking(w) ==
    /\ pub[w].pc = "send"
    /\ client # "reconnecting"
    /\ \/ client = "connected" /\ wire' = Append(wire, w)
       \/ wire' = wire
    /\ IF pub[w].left = 1 THEN Finish(w)
       ELSE pub' = [pub EXCEPT ![w].left = @ - 1] /\ UNCHANGED <<loopPc, stage>>
    /\ UNCHANGED <<client, ticks, flag, stopChan, once, caller, nowUsed, drops>>

(* One point of the range loop: Publish with QoS 1 and WaitTimeout(5 s). It is   *)
(* acknowledged only if the client is connected; otherwise, or on a broker *)
(* error or the timeout, it is counted failed and dropped.                  *)
PublishPoint(w) ==
    /\ pub[w].pc = "send"
    /\ \/ client = "connected" /\ wire' = Append(wire, w)
       \/ wire' = wire
    /\ IF pub[w].left = 1 THEN Finish(w)
       ELSE pub' = [pub EXCEPT ![w].left = @ - 1] /\ UNCHANGED <<loopPc, stage>>
    /\ UNCHANGED <<client, ticks, flag, stopChan, once, caller, nowUsed, drops>>

(* PublishMetricsNow: if the client reports connected, spawn publishMetrics. *)
PublishMetricsNow(n) ==
    /\ n \notin nowUsed /\ IsConnected
    /\ nowUsed' = nowUsed \cup {n}
    /\ Begin(n)
    /\ UNCHANGED <<client, loopPc, ticks, flag, stopChan, once, stage, caller, drops, wire>>

\* Mutant: a boolean latch instead of sync.Once: a later caller returns at once.
ShutdownCallLatch(c) ==
    /\ caller[c] = "idle"
    /\ IF once THEN caller' = [caller EXCEPT ![c] = "returned"] /\ UNCHANGED <<once, stage>>
       ELSE caller' = [caller EXCEPT ![c] = "inDo"] /\ once' = TRUE /\ stage' = "flag"
    /\ UNCHANGED <<client, loopPc, ticks, flag, stopChan, pub, nowUsed, drops, wire>>

(* Shutdown enters shutdownOnce.Do: the first caller runs the body, a      *)
(* later one blocks until the body has returned.                           *)
ShutdownCall(c) ==
    /\ caller[c] = "idle"
    /\ caller' = [caller EXCEPT ![c] = "inDo"]
    /\ IF once THEN UNCHANGED <<once, stage>> ELSE once' = TRUE /\ stage' = "flag"
    /\ UNCHANGED <<client, loopPc, ticks, flag, stopChan, pub, nowUsed, drops, wire>>

\* isShuttingDown = true under the write lock.
SetFlag ==
    /\ stage = "flag"
    /\ flag' = TRUE /\ stage' = "close"
    /\ UNCHANGED <<client, loopPc, ticks, stopChan, once, caller, pub, nowUsed, drops, wire>>

\* close(stopChan) if it was made.
CloseStop ==
    /\ stage = "close"
    /\ stopChan' = IF stopChan = "open" THEN "closed" ELSE stopChan
    /\ stage' = "final"
    /\ UNCHANGED <<client, loopPc, ticks, flag, once, caller, pub, nowUsed, drops, wire>>

(* If the client reports connected: the final publishMetrics, then         *)
(* Disconnect; otherwise the body ends.                                    *)
FinalCheck ==
    /\ stage = "final"
    /\ \/ IsConnected /\ stage' = "publishing" /\ Begin("final")
       \/ ~IsConnected /\ stage' = "done" /\ UNCHANGED pub
    /\ UNCHANGED <<client, loopPc, ticks, flag, stopChan, once, caller, nowUsed, drops, wire>>

\* Mutant: the body ends without mqttClient.Disconnect.
DisconnectOmitted ==
    /\ stage = "disconnect"
    /\ stage' = "done"
    /\ UNCHANGED <<client, loopPc, ticks, flag, stopChan, once, caller, pub, nowUsed, drops, wire>>

\* Disconnect(5000): from connected or reconnecting, the client ends disconnected.
Disconnect ==
    /\ stage = "disconnect"
    /\ client' = "disconnected" /\ stage' = "done"
    /\ UNCHANGED <<loopPc, ticks, flag, stopChan, once, caller, pub, nowUsed, drops, wire>>

\* Once.Do returns to caller c after the body has.
ShutdownReturn(c) ==
    /\ caller[c] = "inDo" /\ stage = "done"
    /\ caller' = [caller EXCEPT ![c] = "returned"]
    /\ UNCHANGED <<client, loopPc, ticks, flag, stopChan, once, stage, pub, nowUsed, drops, wire>>

(* The network: onConnectionLostHandler fires and paho's auto-reconnect    *)
(* later restores the connection.                                           *)
ConnectionLost ==
    /\ client = "connected" /\ drops < MaxDrops
    /\ client' = "reconnecting" /\ drops' = drops + 1
    /\ UNCHANGED <<loopPc, ticks, flag, stopChan, once, stage, caller, pub, nowUsed, wire>>

Reconnect ==
    /\ client = "reconnecting"
    /\ client' = "connected"
    /\ UNCHANGED <<loopPc, ticks, flag, stopChan, once, stage, caller, pub, nowUsed, drops, wire>>

-----------------------------------------------------------------------------
LoopStep == DelayElapsed \/ DelayStop \/ Tick
ShutdownStep == SetFlag \/ CloseStop \/ FinalCheck \/ Disconnect

Next ==
    \/ LoopStep \/ LoopStop \/ ShutdownStep
    \/ \E w \in Workers : PublishCheck(w) \/ PublishPoint(w)
    \/ \E n \in NowCallers : PublishMetricsNow(n)
    \/ \E c \in ShutdownCallers : ShutdownCall(c) \/ ShutdownReturn(c)
    \/ ConnectionLost \/ Reconnect

(* Fairness: every goroutine that can run eventually runs (Go's scheduler); *)
(* the stop case is taken strongly fairly because select picks uniformly    *)
(* among ready cases, so a repeatedly ready stopChan is eventually chosen.  *)
(* The broker is not assumed to come back: Reconnect has no fairness.       *)
Fairness ==
    /\ WF_vars(LoopStep) /\ SF_vars(LoopStop) /\ WF_vars(ShutdownStep)
    /\ \A w \in Workers : WF_vars(PublishCheck(w)) /\ WF_vars(PublishPoint(w))
    /\ \A c \in ShutdownCallers : WF_vars(ShutdownReturn(c))

Spec == Init /\ [][Next]_vars /\ Fairness

-----------------------------------------------------------------------------
(* The publisher implements PublisherContract: once Shutdown has returned *)
(* to any of its callers, the broker acknowledges no further point -- not  *)
(* one of a tick that read isShuttingDown before the flag was set, of a    *)
(* PublishMetricsNow goroutine, or of the final publication -- across      *)
(* concurrent Shutdown calls and connection losses.                        *)
Contract == INSTANCE PublisherContract
                WITH Origins <- Workers,
                     quiet <- \E c \in ShutdownCallers : caller[c] = "returned"

ImplementsContract == Contract!Spec

(* Once Shutdown has closed stopChan, the publication goroutine eventually *)
(* returns, whatever publication or tick it was in the middle of.          *)
LoopStopsAfterShutdown == stopChan = "closed" ~> loopPc = "stopped"

(* Every Shutdown call returns, even if the broker is unreachable and      *)
(* never comes back: each point of the final publication gives up after    *)
(* WaitTimeout (spec: the final batch is then silently dropped).           *)
ShutdownCompletes == \A c \in ShutdownCallers : caller[c] = "inDo" ~> caller[c] = "returned"

(* Spec 4.6 step 3: on shutdown the tick is stopped and one final publish  *)
(* is issued, so no point of a periodic publication reaches the broker     *)
(* after a point of the final one.                                          *)
FinalPublicationIsLast ==
    \A i, j \in 1..Len(wire) : i < j /\ wire[i] = "final" => wire[j] # "loop"

=============================================================================
