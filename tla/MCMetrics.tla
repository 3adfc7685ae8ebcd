----------------------------- MODULE MCMetrics -----------------------------
(* Instances of Metrics for TLC. *)
EXTENDS Metrics, TLC

CONSTANTS A, B

TwoAndOne == A :> 2 @@ B :> 1

=============================================================================
