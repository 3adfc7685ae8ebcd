--------------------------- MODULE QueueLinkFanOut ---------------------------
(***************************************************************************)
(* QueueLink implements FanOut: the worker of a queue is whichever         *)
(* publisher happens to read it, and there is only one at a time.          *)
(***************************************************************************)
EXTENDS QueueLink

QueuesOf(ids, queue) == {queue[d]: d \in ids}

\* What a publisher in state r does, in terms of the queues its ids were given to:
\* those it has yet to try, and the one it has found full.
Worker(r, queue) ==
  [stage |-> IF r.pc = "snapshot" THEN "taken" ELSE "sent",
   item  |-> r.item,
   todo  |-> QueuesOf(r.todo, queue),
   full  |-> QueuesOf({d \in r.todo: r.pc = "full" /\ IsLeast(d, r.todo)}, queue)]

Resting == [stage |-> "free", item |-> NoItem, todo |-> {}, full |-> {}]

Busy(r) == r.pc \in {"snapshot", "put", "full"}
BusyReaders(q) == {p \in DOMAIN procs: Busy(procs[p]) /\ Source(p) = q}

WorkerOf(q) ==
  IF BusyReaders(q) = {} THEN Resting
  ELSE Worker(procs[CHOOSE p \in BusyReaders(q): TRUE], queueOf)

Hands == [q \in Queues |-> WorkerOf(q)]

Abstract == INSTANCE FanOut WITH hand <- Hands

\* Whatever is registered, unregistered, stopped and restarted meanwhile, the
\* queues see one worker per source that deals with its items one after another:
\* each goes at most once to each destination it was addressed to, and misses
\* only destinations that were found full, unless one of them has broken.
\* (_publisher, _fan_out and _put_until_stopped under every call of the link.)
ImplementsFanOut == Abstract!Spec

\* What the mapping needs besides ReaderInv: the destinations a publisher knows,
\* and those it has yet to try, are different queues; it has none before it has
\* made its snapshot.
DistinctIn(ids) == \A i, j \in ids: queueOf[i] = queueOf[j] => i = j
TargetsOK(r) ==
  /\ DistinctIn(r.todo) /\ DistinctIn(r.copy)
  /\ r.pc \in {"check", "get", "snapshot"} => r.todo = {}
TargetsInv == \A p \in DOMAIN procs: TargetsOK(procs[p])

=============================================================================
