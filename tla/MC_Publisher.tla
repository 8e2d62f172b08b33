---------------------------- MODULE MC_Publisher ----------------------------
(* Two concurrent Shutdown callers, one PublishMetricsNow call. *)
EXTENDS Publisher

CONSTANTS c1, c2, n1

MCShutdownCallers == {c1, c2}
MCNowCallers == {n1}

=============================================================================
