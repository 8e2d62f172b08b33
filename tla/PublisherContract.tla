-------------------------- MODULE PublisherContract --------------------------
(***************************************************************************)
(* What the Entry-Hub publisher promises the rest of the Hub, as the       *)
(* broker sees it (spec 4.6): publications of any origin reach the broker  *)
(* until Shutdown returns to one of its callers; from then on the Hub is   *)
(* quiet, and nothing it published earlier is taken back.                  *)
(***************************************************************************)
EXTENDS Sequences

CONSTANT Origins      \* who published a point: the ticker, an explicit
                      \* PublishMetricsNow, the final publication

VARIABLES
    quiet,   \* a Shutdown call has returned
    wire     \* the origin of every point the broker acknowledged, in order

Init == quiet = FALSE /\ wire = <<>>

Emit(o) ==
    /\ ~quiet
    /\ wire' = Append(wire, o)
    /\ UNCHANGED quiet

Quiesce ==
    /\ ~quiet
    /\ quiet' = TRUE
    /\ UNCHANGED wire

Next == (\E o \in Origins : Emit(o)) \/ Quiesce

Spec == Init /\ [][Next]_<<quiet, wire>>

=============================================================================
