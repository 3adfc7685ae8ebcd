------------------------------- MODULE FanOut -------------------------------
(***************************************************************************)
(* What a QueueLink promises, seen from its queues alone: one worker for   *)
(* each queue takes an item, chooses where to send it, and is through with *)
(* it before it takes the next.  It puts the item once on every queue it   *)
(* has chosen, and leaves one out only after it has found it full.  There  *)
(* are no calls, threads, restarts or stop requests here.                  *)
(***************************************************************************)
EXTENDS Integers, Sequences, FiniteSets

CONSTANTS Queues, Capacity, MaxPuts, NoItem

VARIABLES
  log,      \* every item ever put on each queue, in order
  head,     \* how many of them have been taken
  broken,   \* queues that have gone away
  hand      \* what the worker of each queue is doing

vars == <<log, head, broken, hand>>

Unread(q)  == Len(log[q]) > head[q]
HasRoom(q) == Capacity[q] = 0 \/ Len(log[q]) - head[q] < Capacity[q]

\* A worker without an item, with an item it has yet to address, and on its way to
\* the queues of `todo`, of which it has just found those of `full` full.
Free              == [stage |-> "free", item |-> NoItem, todo |-> {}, full |-> {}]
Holding(item)     == [stage |-> "taken", item |-> item, todo |-> {}, full |-> {}]
Sending(item, to) == [stage |-> "sent", item |-> item, todo |-> to, full |-> {}]

Becomes(q, worker) == hand' = [hand EXCEPT ![q] = worker]

Own(q) == {i \in 1..Len(log[q]): log[q][i].from = q}

\* The application puts its next item on q.
Produce(q) ==
  LET item == [from |-> q, n |-> Cardinality(Own(q)) + 1] IN
    /\ item.n <= MaxPuts[q] /\ HasRoom(q) /\ q \notin broken
    /\ log' = [log EXCEPT ![q] = Append(@, item)]
    /\ UNCHANGED <<head, broken, hand>>

\* The application, or an audit, takes an item from q.
Remove(q) ==
  /\ Unread(q) /\ q \notin broken
  /\ head' = [head EXCEPT ![q] = @ + 1]
  /\ UNCHANGED <<log, broken, hand>>

Break(q) ==
  /\ broken' = broken \cup {q}
  /\ UNCHANGED <<log, head, hand>>

Take(q) ==
  /\ hand[q].stage = "free"
  /\ Unread(q) /\ q \notin broken
  /\ head' = [head EXCEPT ![q] = @ + 1]
  /\ Becomes(q, Holding(log[q][head[q] + 1]))
  /\ UNCHANGED <<log, broken>>

Address(q) ==
  /\ hand[q].stage = "taken"
  /\ UNCHANGED <<log, head, broken>>
  /\ \E to \in SUBSET Queues: Becomes(q, Sending(hand[q].item, to))

\* d is one of the queues it is still on its way to.
Deliver(q, d) ==
  /\ hand[q].full = {}
  /\ HasRoom(d) /\ d \notin broken
  /\ log' = [log EXCEPT ![d] = Append(@, hand[q].item)]
  /\ Becomes(q, Sending(hand[q].item, hand[q].todo \ {d}))
  /\ UNCHANGED <<head, broken>>

FindFull(q, d) ==
  /\ hand[q].full = {}
  /\ ~HasRoom(d)
  /\ Becomes(q, [hand[q] EXCEPT !.full = {d}])
  /\ UNCHANGED <<log, head, broken>>

TryAgain(q) ==
  /\ hand[q].full # {}
  /\ Becomes(q, [hand[q] EXCEPT !.full = {}])
  /\ UNCHANGED <<log, head, broken>>

LeaveOut(q, d) ==
  /\ d \in hand[q].full
  /\ Becomes(q, Sending(hand[q].item, hand[q].todo \ {d}))
  /\ UNCHANGED <<log, head, broken>>

Finish(q) ==
  /\ hand[q].stage = "sent" /\ hand[q].todo = {}
  /\ Becomes(q, Free)
  /\ UNCHANGED <<log, head, broken>>

\* A destination has gone away: the worker drops the item.
Fail(q, d) ==
  /\ d \in broken
  /\ Becomes(q, Free)
  /\ UNCHANGED <<log, head, broken>>

Init ==
  /\ log = [q \in Queues |-> <<>>]
  /\ head = [q \in Queues |-> 0]
  /\ broken = {}
  /\ hand = [q \in Queues |-> Free]

Next ==
  \E q \in Queues:
    \/ Produce(q) \/ Remove(q) \/ Break(q)
    \/ Take(q) \/ Address(q) \/ TryAgain(q) \/ Finish(q)
    \/ \E d \in hand[q].todo: Deliver(q, d) \/ FindFull(q, d) \/ LeaveOut(q, d) \/ Fail(q, d)

Spec == Init /\ [][Next]_vars

=============================================================================
