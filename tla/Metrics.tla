------------------------------ MODULE Metrics ------------------------------
(***************************************************************************)
(* The metrics of a QueueLink.  Each publisher counts what it forwards,    *)
(* under element IDs of its own, and puts snapshots on one of two bounded  *)
(* queues: a queue.Queue for threads, a multiprocessing.Queue for          *)
(* processes, whose feeder thread moves them from a buffer to a pipe.      *)
(* get_metrics() drains both queues meanwhile and merges what it finds.    *)
(***************************************************************************)
EXTENDS Integers, Sequences, FiniteSets

CONSTANTS
  Sources,
  Threaded,   \* those that are queues of threads
  MaxSize,    \* maxsize of the metrics queues
  Interval,   \* metric_interval
  Window,     \* max_points
  MaxRuns,    \* bound: publishers of each source
  MaxCount,   \* bound: items each of them forwards
  MaxCalls    \* bound: calls of get_metrics

Kinds == {"thread", "process"}

ASSUME SizesAssumption ==
  /\ MaxSize \in Nat \ {0} /\ Interval \in Nat \ {0} /\ Window \in Nat \ {0}
  /\ MaxRuns \in [Sources -> Nat] /\ MaxCount \in Nat /\ MaxCalls \in Nat

VARIABLES
  mixed,      \* one of the destinations is a queue of threads
  runs,       \* the publishers each source has had, and what they have counted
  pc,         \* what the last of them is doing
  queue,      \* the thread queue, and the pipe of the process queue
  room,       \* how many more snapshots each queue takes (its semaphore)
  buffer,     \* what the feeder thread of a process publisher still has
  created,    \* _metrics_queue_process exists
  collector,  \* the call of get_metrics
  reported,   \* the last count get_metrics has returned for each element
  emitted     \* history: how often _emit_metrics was called for each queue

pubVars  == <<mixed, runs, pc>>
getVars  == <<collector, reported>>
putVars  == <<queue, room, buffer>>
vars == <<mixed, runs, pc, queue, room, buffer, created, collector, reported, emitted>>

Elements == UNION {[source: {s}, n: 1..MaxRuns[s]]: s \in Sources}
Unknown  == -1

Last(s) == runs[s][Len(runs[s])]
Kind(s) == Last(s).kind
Goes(s, to) == pc' = [pc EXCEPT ![s] = to]

-----------------------------------------------------------------------------
(* A publisher *)

\* register_queue(TO) and unregister_queue(TO) stop every publisher before they start
\* the first one again.
Rewire ==
  /\ \A s \in Sources: pc[s] = "dead"
  /\ mixed' = ~mixed
  /\ UNCHANGED <<runs, pc, putVars, created, getVars, emitted>>

KindFor(s) == IF s \in Threaded \/ mixed THEN "thread" ELSE "process"

\* Metrics() and its two elements, with fresh IDs.  The process queue comes with the
\* first process.
Start(s) ==
  /\ pc[s] = "dead" /\ Len(runs[s]) < MaxRuns[s]
  /\ runs' = [runs EXCEPT ![s] =
                Append(@, [kind |-> KindFor(s), count |-> 0, points |-> 0, final |-> FALSE])]
  /\ created' = (created \/ KindFor(s) = "process")
  /\ Goes(s, "loop")
  /\ UNCHANGED <<mixed, putVars, getVars, emitted>>

\* The rolling window of a TimedMetric.
Lapped(points) == IF points = Window THEN points ELSE points + 1

Counted(r) == [r EXCEPT !.count = @ + 1, !.points = Lapped(@)]

\* An item has been put on every destination: lap, increment, and every so often a
\* snapshot.
Forward(s) ==
  /\ pc[s] = "loop" /\ Last(s).count < MaxCount
  /\ runs' = [runs EXCEPT ![s][Len(runs[s])] = Counted(@)]
  /\ IF (Last(s).count + 1) % Interval = 0
     THEN Goes(s, "put") /\ emitted' = [emitted EXCEPT ![Kind(s)] = @ + 1]
     ELSE UNCHANGED <<pc, emitted>>
  /\ UNCHANGED <<mixed, putVars, getVars, created>>

\* A stop request, an abandoned item, which is not counted, or a source that is gone.
Leave(s) ==
  /\ pc[s] = "loop"
  /\ runs' = [runs EXCEPT ![s][Len(runs[s])].final = TRUE]
  /\ emitted' = [emitted EXCEPT ![Kind(s)] = @ + 1]
  /\ Goes(s, "put")
  /\ UNCHANGED <<mixed, putVars, getVars, created>>

\* BrokenPipeError: no snapshot.
Break(s) ==
  /\ pc[s] = "loop"
  /\ Goes(s, "exit")
  /\ UNCHANGED <<mixed, runs, putVars, getVars, created, emitted>>

-----------------------------------------------------------------------------
(* _emit_metrics *)

\* Mutant: the IDs belong to the link, as the documentation has it.
SnapshotOfLink(s) ==
  [source |-> s, n |-> 1, count |-> Last(s).count, points |-> Last(s).points]

\* get_all_data: both elements of the publisher, counted to the same item.
Snapshot(s) ==
  [source |-> s, n |-> Len(runs[s]), count |-> Last(s).count, points |-> Last(s).points]

\* put_nowait, with room: at once on the queue of the threads, by the feeder on the other.
Enqueue(s) ==
  /\ room[Kind(s)] > 0
  /\ room' = [room EXCEPT ![Kind(s)] = @ - 1]
  /\ IF Kind(s) = "thread"
     THEN queue' = [queue EXCEPT !["thread"] = Append(@, Snapshot(s))] /\ UNCHANGED buffer
     ELSE buffer' = [buffer EXCEPT ![s] = Append(@, Snapshot(s))] /\ UNCHANGED queue

Full(s) == room[Kind(s)] = 0 /\ UNCHANGED putVars

Emitted(s) == Goes(s, IF Last(s).final THEN "exit" ELSE "loop")

Put(s) ==
  /\ pc[s] = "put"
  /\ \/ Enqueue(s) /\ Emitted(s)
     \/ Full(s) /\ Goes(s, "evict")
  /\ UNCHANGED <<mixed, runs, getVars, created, emitted>>

\* get_nowait from either queue.
Take(kind) ==
  /\ queue[kind] # <<>>
  /\ queue' = [queue EXCEPT ![kind] = Tail(@)]
  /\ room' = [room EXCEPT ![kind] = @ + 1]
  /\ UNCHANGED buffer

\* A multiprocessing.Queue also calls itself empty while someone else reads its pipe.
ReadBy(kind, s) ==
  kind = "process" /\ \E o \in Sources \ {s}: pc[o] = "evict" /\ Kind(o) = "process"

FoundEmpty(kind) == queue[kind] = <<>> /\ UNCHANGED putVars

Evict(s) ==
  /\ pc[s] = "evict"
  /\ \/ Take(Kind(s))
     \/ FoundEmpty(Kind(s))
     \/ ReadBy(Kind(s), s) /\ UNCHANGED putVars
     \/ Kind(s) = collector.at /\ Kind(s) = "process" /\ UNCHANGED putVars
  /\ Goes(s, "again")
  /\ UNCHANGED <<mixed, runs, getVars, created, emitted>>

\* Mutant: evicting is taken to have made room.
PutAnyway(s) ==
  /\ pc[s] = "again"
  /\ room' = [room EXCEPT ![Kind(s)] = @ - 1]
  /\ IF Kind(s) = "thread"
     THEN queue' = [queue EXCEPT !["thread"] = Append(@, Snapshot(s))] /\ UNCHANGED buffer
     ELSE buffer' = [buffer EXCEPT ![s] = Append(@, Snapshot(s))] /\ UNCHANGED queue
  /\ Emitted(s)
  /\ UNCHANGED <<mixed, runs, getVars, created, emitted>>

\* "still full after eviction (race); accept the loss"
PutAgain(s) ==
  /\ pc[s] = "again"
  /\ Enqueue(s) \/ Full(s)
  /\ Emitted(s)
  /\ UNCHANGED <<mixed, runs, getVars, created, emitted>>

Flush(s) ==
  /\ buffer[s] # <<>>
  /\ queue' = [queue EXCEPT !["process"] = Append(@, Head(buffer[s]))]
  /\ buffer' = [buffer EXCEPT ![s] = Tail(@)]
  /\ UNCHANGED <<pubVars, room, created, getVars, emitted>>

\* Mutant: the metrics queue is released with the destinations.
ExitUnflushed(s) ==
  /\ pc[s] = "exit"
  /\ buffer' = [buffer EXCEPT ![s] = <<>>]
  /\ Goes(s, "dead")
  /\ UNCHANGED <<mixed, runs, queue, room, created, getVars, emitted>>

\* _release_destinations leaves the metrics queue alone: a process waits for its feeder.
Exit(s) ==
  /\ pc[s] = "exit" /\ buffer[s] = <<>>
  /\ Goes(s, "dead")
  /\ UNCHANGED <<mixed, runs, putVars, created, getVars, emitted>>

Publish(s) ==
  \/ Start(s) \/ Forward(s) \/ Leave(s) \/ Break(s)
  \/ Put(s) \/ Evict(s) \/ PutAgain(s) \/ Flush(s) \/ Exit(s)

-----------------------------------------------------------------------------
(* get_metrics *)

Nothing == [e \in Elements |-> Unknown]

\* It looks once whether there is a process queue.
Collect ==
  /\ collector.at = "idle" /\ collector.calls < MaxCalls
  /\ collector' = [at |-> "thread", both |-> created, value |-> Nothing,
                   calls |-> collector.calls + 1]
  /\ UNCHANGED <<pubVars, putVars, created, reported, emitted>>

Merge(value, snapshot) ==
  [value EXCEPT ![[source |-> snapshot.source, n |-> snapshot.n]] = snapshot.count]

Gather ==
  /\ collector.at \in Kinds
  /\ Take(collector.at)
  /\ collector' = [collector EXCEPT !.value = Merge(@, Head(queue[collector.at]))]
  /\ UNCHANGED <<pubVars, created, reported, emitted>>

Evicting == \E s \in Sources: pc[s] = "evict" /\ Kind(s) = "process"

Return ==
  /\ collector.at \in Kinds
  /\ queue[collector.at] = <<>> \/ (collector.at = "process" /\ Evicting)
  /\ IF collector.at = "thread" /\ collector.both
     THEN collector' = [collector EXCEPT !.at = "process"] /\ UNCHANGED reported
     ELSE /\ reported' = [e \in Elements |-> IF collector.value[e] = Unknown THEN reported[e]
                                             ELSE collector.value[e]]
          /\ collector' = [collector EXCEPT !.at = "idle", !.value = Nothing]
  /\ UNCHANGED <<pubVars, putVars, created, emitted>>

-----------------------------------------------------------------------------
Init ==
  /\ mixed \in BOOLEAN
  /\ runs = [s \in Sources |-> <<>>]
  /\ pc = [s \in Sources |-> "dead"]
  /\ queue = [kind \in Kinds |-> <<>>]
  /\ room = [kind \in Kinds |-> MaxSize]
  /\ buffer = [s \in Sources |-> <<>>]
  /\ created = FALSE
  /\ collector = [at |-> "idle", both |-> FALSE, value |-> Nothing, calls |-> 0]
  /\ reported = Nothing
  /\ emitted = [kind \in Kinds |-> 0]

Next ==
  \/ \E s \in Sources: Publish(s)
  \/ Rewire \/ Collect \/ Gather \/ Return

Spec == Init /\ [][Next]_vars

-----------------------------------------------------------------------------
(* Properties *)

Runs      == [kind: Kinds, count: Nat, points: 0..Window, final: BOOLEAN]
Snapshots == {r \in [source: Sources, n: Nat, count: Nat, points: 0..Window]:
               r.n \in 1..MaxRuns[r.source]}
Counts    == [Elements -> Nat \cup {Unknown}]

\* The type of every variable.
TypeOK ==
  /\ mixed \in BOOLEAN
  /\ runs \in [Sources -> Seq(Runs)] /\ \A s \in Sources: Len(runs[s]) <= MaxRuns[s]
  /\ pc \in [Sources -> {"dead", "loop", "put", "evict", "again", "exit"}]
  /\ \A s \in Sources: pc[s] # "dead" => runs[s] # <<>>
  /\ queue \in [Kinds -> Seq(Snapshots)] /\ room \in [Kinds -> Nat]
  /\ buffer \in [Sources -> Seq(Snapshots)]
  /\ created \in BOOLEAN
  /\ collector \in [at: Kinds \cup {"idle"}, both: BOOLEAN, value: Counts, calls: 0..MaxCalls]
  /\ reported \in Counts
  /\ emitted \in [Kinds -> Nat]

\* "later snapshots for the same element overwrite earlier ones, so the result reflects
\* the most recent data": from one get_metrics() to the next the count of an element
\* never decreases, whatever is evicted, buffered or read by someone else meanwhile.
NeverGoesBack == [][\A e \in Elements: reported'[e] >= reported[e]]_reported

\* Where the last snapshot of a publisher is.
Reported(e, count)  == reported[e] = count \/ collector.value[e] = count
WaitingIn(e, count, snapshots) ==
  \E i \in DOMAIN snapshots:
    snapshots[i].source = e.source /\ snapshots[i].n = e.n /\ snapshots[i].count = count

\* Nothing had to be evicted; or nobody else uses the queue of the threads.
KeepsAll(kind) == emitted[kind] <= MaxSize
Alone(s) ==
  /\ Kind(s) = "thread"
  /\ \A o \in Sources \ {s}: \A n \in DOMAIN runs[o]: runs[o][n].kind # "thread"

\* docs/metrics.rst: after stop() the data is "flushed", "a complete snapshot". The final
\* count of a publisher is returned, or still waits to be, if the queue never had to take
\* more snapshots than it holds, or if it is the last publisher of the only source
\* that uses threads.
Accounted ==
  \A s \in Sources: pc[s] \in {"exit", "dead"} =>
    \A n \in DOMAIN runs[s]:
      runs[s][n].final /\ (KeepsAll(runs[s][n].kind) \/ (n = Len(runs[s]) /\ Alone(s))) =>
        LET e == [source |-> s, n |-> n] IN
          \/ Reported(e, runs[s][n].count)
          \/ WaitingIn(e, runs[s][n].count, queue[runs[s][n].kind])
          \/ WaitingIn(e, runs[s][n].count, buffer[s])

=============================================================================
