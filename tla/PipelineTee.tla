----------------------------- MODULE PipelineTee -----------------------------
(***************************************************************************)
(* Pipeline implements Tee: whatever is queued, in hand or in a pipe on    *)
(* the way to a destination, it is only ever the tail that is cut off.     *)
(***************************************************************************)
EXTENDS Pipeline

Phase ==
  CASE builder = "call" -> "called"
    [] builder \in {"TypeError", "ValueError"} -> "refused"
    [] builder \in {"insert", "request", "start", "reader", "up"} -> "running"
    [] builder = "broken" -> "broken"
    [] builder = "join reader" -> "closing"
    [] builder \in {"drain", "join publisher", "stop writers", "join writer"} -> "draining"
    [] builder = "down" -> "down"

Given == [reads |-> HasReader, to |-> Destinations, whole |-> WiredFirst]

Failed(d) == writer[d].pc = "failed"
\* Before all are registered the link gives nobody up for good.
LeftOut   == IF WiredFirst THEN dropped ELSE {}
Short     == LeftOut \cup {d \in Names: Failed(d)}

\* One that was given up still gets what its queue holds, unless its writer has failed.
Owed == [d \in Names |->
          IF Failed(d) THEN Len(received[d])
          ELSE IF d \in LeftOut THEN Len(received[d]) + Queued(d)
          ELSE taken]

Abstract == INSTANCE Tee
  WITH Files <- {d \in Names: KindOf[d] \in {"handle", "path"}},
       link <- Given, phase <- Phase, read <- taken, short <- Short, owed <- Owed

\* link() delivers the lines of its source to each destination on its own, in order and
\* without a gap, or in order only if some come before all destinations are registered. A
\* destination misses lines only because its writer has failed on one, while stop() waits
\* for the publisher, or because link() has raised half way, and gets none of the later
\* ones; stop() stops reading before anything is given up, and nothing is
\* written after it. (link, _LinkResult.stop, the publisher and the adapters, however their
\* steps interleave)
ImplementsTee == Abstract!Spec

=============================================================================
