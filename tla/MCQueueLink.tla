----------------------------- MODULE MCQueueLink -----------------------------
(* Instances of QueueLink for TLC. *)
EXTENDS QueueLinkFanOut, TLC

CONSTANTS A, B, C, D, main, other

Register_(d, queue)  == [op |-> "register", dir |-> d, q |-> queue, id |-> 0]
Unregister_(d, n)    == [op |-> "unregister", dir |-> d, q |-> NoQueue, id |-> n]
StopLink             == [op |-> "stop", dir |-> "source", q |-> NoQueue, id |-> 0]
Drained(n)           == [op |-> "is_drained", dir |-> "source", q |-> NoQueue, id |-> n]
AuditOf(d)           == [op |-> "audit", dir |-> d, q |-> NoQueue, id |-> 0]

From(queue) == Register_("source", queue)
To(queue)   == Register_("destination", queue)

\* A caller sets the link up and changes it; another changes it too, or calls
\* stop, which takes no lock.
WithStop ==
  main  :> <<{From(A)}, {To(B)}, {Unregister_("source", 1), To(C), To(A), StopLink,
                                 Unregister_("destination", 2)}, {From(A), StopLink}>> @@
  other :> <<{To(C), StopLink}, {StopLink, To(B), Unregister_("destination", 2),
                                 Unregister_("destination", 3)}>>

\* Sinks hold one item; the source is unbounded and gets two.
SmallSinks == (A :> 0) @@ (B :> 1) @@ (C :> 1) @@ (D :> 0)
TwoItems   == (A :> 2) @@ (B :> 0) @@ (C :> 0) @@ (D :> 0)
ThreeItems == (A :> 2) @@ (B :> 0) @@ (C :> 0) @@ (D :> 1)

\* Two callers, the one that takes no lock after the other has set the link up.
Finite ==
  main  :> <<{From(A)}, {To(B)}, {To(C), Unregister_("source", 1), StopLink},
             {To(C), Unregister_("destination", 2)}>>

\* stop meets a change of the registry.
StopMeetsChange ==
  main  :> <<{From(A)}, {To(B)}, {To(C), Unregister_("destination", 2)}>> @@
  other :> <<{StopLink}>>

\* Two sources share a destination of one item.
FanIn == main :> <<{From(A)}, {From(D)}, {To(B)}, {To(C), Unregister_("source", 1)},
                   {From(A), Unregister_("destination", 3)}>>

\* Queues go away, and audits take items.
Failing == main :> <<{From(A)}, {To(B)}, {To(C)}, {AuditOf("source"), AuditOf("destination"),
                     Drained(0), Drained(9), Unregister_("destination", 2)}, {To(D), StopLink}>>

Fair == Spec /\ Fairness(6)
FairWithReaders == Fair /\ ConsumersFair

=============================================================================
