----------------------------- MODULE MCPolling -----------------------------
(* Instances of Polling for TLC. *)
EXTENDS Polling, TLC

CONSTANTS A, B, C, first, second, rival

\* Both publishers put on C; a thread of the application competes with the second one
\* for the items of B.
Reads == first :> A @@ second :> B @@ rival :> B
Puts  == first :> <<C>> @@ second :> <<C>>
InOrder == <<first, second>>
OneItem == [q \in Queues |-> 1]
Given == A :> 1 @@ B :> 1 @@ C :> 0
\* A timeout of a cycle and a half, and destructive_audit.
Ways  == rival :> {[block |-> TRUE, timeout |-> 3], [block |-> FALSE, timeout |-> 0]}

Fair == Spec /\ Fairness

=============================================================================
