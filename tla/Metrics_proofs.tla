--------------------------- MODULE Metrics_proofs ---------------------------
(***************************************************************************)
(* Metrics: its types, that the counts get_metrics() returns never         *)
(* decrease, and that a final snapshot is accounted for, for all sources,  *)
(* sizes of the queues and numbers of publishers.                          *)
(***************************************************************************)
EXTENDS Metrics, FiniteSetTheorems, TLAPS

-----------------------------------------------------------------------------
(* Elements and snapshots *)

ElementOf(x) == [source |-> x.source, n |-> x.n]

LEMMA ElementsAre ==
  /\ \A s \in Sources: \A n \in 1..MaxRuns[s]: [source |-> s, n |-> n] \in Elements
  /\ \A e \in Elements: /\ e.source \in Sources /\ e.n \in 1..MaxRuns[e.source]
                        /\ e = [source |-> e.source, n |-> e.n]
<1>1. ASSUME NEW s \in Sources, NEW n \in 1..MaxRuns[s]
      PROVE  [source |-> s, n |-> n] \in Elements
  <2>1. [source |-> s, n |-> n] \in [source: {s}, n: 1..MaxRuns[s]]
    BY <1>1
  <2> QED BY <2>1 DEF Elements
<1>2. ASSUME NEW e \in Elements
      PROVE  /\ e.source \in Sources /\ e.n \in 1..MaxRuns[e.source]
             /\ e = [source |-> e.source, n |-> e.n]
  <2>1. PICK s \in Sources: e \in [source: {s}, n: 1..MaxRuns[s]]
    BY DEF Elements
  <2> QED BY <2>1
<1> QED BY <1>1, <1>2

LEMMA SnapshotsAre ==
  ASSUME NEW x \in Snapshots
  PROVE  /\ x.source \in Sources /\ x.n \in 1..MaxRuns[x.source] /\ x.count \in Nat
         /\ x.points \in 0..Window /\ ElementOf(x) \in Elements
BY ElementsAre DEF Snapshots, ElementOf

\* The last publisher of a source, and what it puts.
LEMMA LastIs ==
  ASSUME TypeOK, NEW s \in Sources, pc[s] # "dead"
  PROVE  /\ Len(runs[s]) \in DOMAIN runs[s] /\ Len(runs[s]) \in 1..MaxRuns[s]
         /\ Last(s) \in Runs /\ Kind(s) \in Kinds /\ Snapshot(s) \in Snapshots
         /\ Snapshot(s).source = s /\ Snapshot(s).n = Len(runs[s])
         /\ Snapshot(s).count = Last(s).count
<1>1. runs[s] \in Seq(Runs) /\ runs[s] # <<>> /\ Len(runs[s]) <= MaxRuns[s]
  BY DEF TypeOK
<1>2. /\ Len(runs[s]) \in DOMAIN runs[s] /\ Len(runs[s]) \in 1..MaxRuns[s]
      /\ Last(s) \in Runs
  BY <1>1, SizesAssumption DEF Last
<1> QED BY <1>2 DEF Snapshot, Snapshots, Kind, Runs

-----------------------------------------------------------------------------
(* Types *)

LEMMA TypeInit == Init => TypeOK
<1> SUFFICES ASSUME Init PROVE TypeOK
  OBVIOUS
<1>1. /\ runs \in [Sources -> Seq(Runs)] /\ buffer \in [Sources -> Seq(Snapshots)]
      /\ queue \in [Kinds -> Seq(Snapshots)]
  BY DEF Init
<1>2. \A s \in Sources: Len(runs[s]) <= MaxRuns[s] /\ pc[s] = "dead"
  BY SizesAssumption DEF Init
<1>3. Nothing \in Counts
  BY DEF Nothing, Counts, Unknown
<1>4. collector \in [at: Kinds \cup {"idle"}, both: BOOLEAN, value: Counts, calls: 0..MaxCalls]
  BY <1>3, SizesAssumption DEF Init
<1>5. room \in [Kinds -> Nat] /\ emitted \in [Kinds -> Nat]
  BY SizesAssumption DEF Init
<1> QED BY <1>1, <1>2, <1>3, <1>4, <1>5 DEF Init, TypeOK

\* The last publisher of s becomes r.
LEMMA RunsTyped ==
  ASSUME TypeOK, NEW s \in Sources, pc[s] # "dead", NEW r \in Runs,
         runs' = [runs EXCEPT ![s] = [@ EXCEPT ![Len(runs[s])] = r]]
  PROVE  /\ runs' \in [Sources -> Seq(Runs)]
         /\ \A o \in Sources: Len(runs'[o]) = Len(runs[o])
         /\ \A o \in Sources: o # s => runs'[o] = runs[o]
         /\ \A n \in DOMAIN runs[s]: runs'[s][n] = IF n = Len(runs[s]) THEN r ELSE runs[s][n]
<1>1. runs \in [Sources -> Seq(Runs)] /\ Len(runs[s]) \in DOMAIN runs[s]
  BY LastIs DEF TypeOK
<1>2. runs'[s] = [runs[s] EXCEPT ![Len(runs[s])] = r] /\ runs[s] \in Seq(Runs)
  BY <1>1
<1>3. runs'[s] \in Seq(Runs) /\ Len(runs'[s]) = Len(runs[s])
  BY <1>1, <1>2
<1> QED BY <1>1, <1>2, <1>3

LEMMA CountedTyped ==
  ASSUME NEW r \in Runs
  PROVE  /\ Counted(r) \in Runs /\ Counted(r).count = r.count + 1 /\ Counted(r).kind = r.kind
<1>1. Lapped(r.points) \in 0..Window
  BY SizesAssumption DEF Runs, Lapped
<1>2. r.count + 1 \in Nat
  BY DEF Runs
<1> QED BY <1>1, <1>2 DEF Counted, Runs

LEMMA EnqueueTyped ==
  ASSUME TypeOK, NEW s \in Sources, pc[s] # "dead", Enqueue(s)
  PROVE  /\ queue' \in [Kinds -> Seq(Snapshots)] /\ buffer' \in [Sources -> Seq(Snapshots)]
         /\ room' \in [Kinds -> Nat]
<1>1. Snapshot(s) \in Snapshots /\ Kind(s) \in Kinds /\ room[Kind(s)] \in Nat
  BY LastIs DEF TypeOK
<1>2. room' \in [Kinds -> Nat]
  BY <1>1 DEF Enqueue, TypeOK
<1>T. /\ queue \in [Kinds -> Seq(Snapshots)] /\ buffer \in [Sources -> Seq(Snapshots)]
      /\ "thread" \in Kinds
  BY DEF TypeOK, Kinds
<1>3. CASE Kind(s) = "thread"
  <2>1. Append(queue["thread"], Snapshot(s)) \in Seq(Snapshots)
    BY <1>1, <1>T
  <2>2. queue' = [queue EXCEPT !["thread"] = Append(@, Snapshot(s))] /\ buffer' = buffer
    BY <1>3 DEF Enqueue
  <2> QED BY <1>2, <1>T, <2>1, <2>2
<1>4. CASE Kind(s) # "thread"
  <2>1. Append(buffer[s], Snapshot(s)) \in Seq(Snapshots)
    BY <1>1, <1>T
  <2>2. buffer' = [buffer EXCEPT ![s] = Append(@, Snapshot(s))] /\ queue' = queue
    BY <1>4 DEF Enqueue
  <2> QED BY <1>2, <1>T, <2>1, <2>2
<1> QED BY <1>3, <1>4

LEMMA TakeTyped ==
  ASSUME TypeOK, NEW kind \in Kinds, Take(kind)
  PROVE  /\ queue' \in [Kinds -> Seq(Snapshots)] /\ buffer' = buffer /\ room' \in [Kinds -> Nat]
         /\ Head(queue[kind]) \in Snapshots
<1>1. queue[kind] \in Seq(Snapshots) /\ queue[kind] # <<>> /\ room[kind] \in Nat
  BY DEF Take, TypeOK
<1> QED BY <1>1 DEF Take, TypeOK

LEMMA TypePublish ==
  ASSUME TypeOK, NEW s \in Sources, Publish(s)
  PROVE  TypeOK'
<1>1. CASE Start(s)
  <2>1. [kind |-> KindFor(s), count |-> 0, points |-> 0, final |-> FALSE] \in Runs
    BY SizesAssumption DEF Runs, KindFor, Kinds
  <2>2. runs[s] \in Seq(Runs) /\ Len(runs[s]) + 1 <= MaxRuns[s]
    <3>1. runs[s] \in Seq(Runs) /\ Len(runs[s]) < MaxRuns[s] /\ MaxRuns[s] \in Nat
      BY <1>1, SizesAssumption DEF Start, TypeOK
    <3> QED BY <3>1
  <2>3. /\ runs' \in [Sources -> Seq(Runs)] /\ \A o \in Sources: Len(runs'[o]) <= MaxRuns[o]
        /\ runs'[s] # <<>> /\ \A o \in Sources: o # s => runs'[o] = runs[o]
    <3> DEFINE r == [kind |-> KindFor(s), count |-> 0, points |-> 0, final |-> FALSE]
    <3>1. runs' = [runs EXCEPT ![s] = Append(@, r)] /\ r \in Runs
      BY <1>1, <2>1 DEF Start
    <3> HIDE DEF r
    <3>2. /\ Append(runs[s], r) \in Seq(Runs) /\ Len(Append(runs[s], r)) = Len(runs[s]) + 1
          /\ Append(runs[s], r) # <<>>
      BY <2>2, <3>1
    <3> QED BY <2>2, <3>1, <3>2 DEF TypeOK
  <2> QED BY <1>1, <2>3 DEF Start, Goes, TypeOK, putVars, getVars
<1>2. CASE Forward(s)
  <2>0. pc[s] # "dead" /\ Last(s) \in Runs /\ Kind(s) \in Kinds
    BY <1>2, LastIs DEF Forward
  <2>1. runs' = [runs EXCEPT ![s] = [@ EXCEPT ![Len(runs[s])] = Counted(Last(s))]]
    BY <1>2 DEF Forward, Last
  <2>2. /\ runs' \in [Sources -> Seq(Runs)]
        /\ \A o \in Sources: Len(runs'[o]) = Len(runs[o]) /\ (runs[o] # <<>> => runs'[o] # <<>>)
    <3>1. /\ runs' \in [Sources -> Seq(Runs)] /\ runs \in [Sources -> Seq(Runs)]
          /\ \A o \in Sources: Len(runs'[o]) = Len(runs[o])
      BY <2>0, <2>1, CountedTyped, RunsTyped DEF TypeOK
    <3> QED BY <3>1
  <2>3. emitted' \in [Kinds -> Nat]
    BY <1>2, <2>0 DEF Forward, TypeOK
  <2>4. pc' \in [Sources -> {"dead", "loop", "put", "evict", "again", "exit"}]
        /\ \A o \in Sources: pc'[o] # "dead" => pc[o] # "dead"
    BY <1>2, <2>0 DEF Forward, Goes, TypeOK
  <2> QED BY <1>2, <2>2, <2>3, <2>4 DEF Forward, TypeOK, putVars, getVars
<1>3. CASE Leave(s)
  <2>0. pc[s] # "dead" /\ Last(s) \in Runs /\ Kind(s) \in Kinds
    BY <1>3, LastIs DEF Leave
  <2>1. /\ runs' = [runs EXCEPT ![s] = [@ EXCEPT ![Len(runs[s])] = [Last(s) EXCEPT !.final = TRUE]]]
        /\ [Last(s) EXCEPT !.final = TRUE] \in Runs
    BY <1>3, <2>0 DEF Leave, Last, Runs
  <2>2. /\ runs' \in [Sources -> Seq(Runs)]
        /\ \A o \in Sources: Len(runs'[o]) = Len(runs[o]) /\ (runs[o] # <<>> => runs'[o] # <<>>)
    <3>1. /\ runs' \in [Sources -> Seq(Runs)] /\ runs \in [Sources -> Seq(Runs)]
          /\ \A o \in Sources: Len(runs'[o]) = Len(runs[o])
      BY <2>0, <2>1, RunsTyped DEF TypeOK
    <3> QED BY <3>1
  <2>3. emitted' \in [Kinds -> Nat]
    BY <1>3, <2>0 DEF Leave, TypeOK
  <2> QED BY <1>3, <2>0, <2>2, <2>3 DEF Leave, Goes, TypeOK, putVars, getVars
<1>4. CASE Break(s)
  BY <1>4 DEF Break, Goes, TypeOK, putVars, getVars
<1>5. CASE Put(s) \/ PutAgain(s)
  <2>0. pc[s] # "dead"
    BY <1>5 DEF Put, PutAgain
  <2>1. /\ queue' \in [Kinds -> Seq(Snapshots)] /\ buffer' \in [Sources -> Seq(Snapshots)]
        /\ room' \in [Kinds -> Nat]
    <3>1. CASE Enqueue(s)
      BY <2>0, <3>1, EnqueueTyped
    <3>2. CASE Full(s)
      BY <3>2 DEF Full, putVars, TypeOK
    <3> QED BY <1>5, <3>1, <3>2 DEF Put, PutAgain
  <2>2. /\ pc' \in [Sources -> {"dead", "loop", "put", "evict", "again", "exit"}]
        /\ \A o \in Sources: pc'[o] # "dead" => pc[o] # "dead"
    BY <1>5, <2>0 DEF Put, PutAgain, Emitted, Goes, TypeOK
  <2> QED BY <1>5, <2>1, <2>2 DEF Put, PutAgain, TypeOK, getVars
<1>6. CASE Evict(s)
  <2>0. pc[s] # "dead" /\ Kind(s) \in Kinds
    BY <1>6, LastIs DEF Evict
  <2>1. /\ queue' \in [Kinds -> Seq(Snapshots)] /\ buffer' \in [Sources -> Seq(Snapshots)]
        /\ room' \in [Kinds -> Nat]
    <3>1. CASE Take(Kind(s))
      BY <2>0, <3>1, TakeTyped DEF TypeOK
    <3>2. CASE UNCHANGED putVars
      BY <3>2 DEF putVars, TypeOK
    <3> QED BY <1>6, <3>1, <3>2 DEF Evict, FoundEmpty
  <2> QED BY <1>6, <2>0, <2>1 DEF Evict, Goes, TypeOK, getVars
<1>7. CASE Flush(s)
  <2>1. buffer[s] \in Seq(Snapshots) /\ buffer[s] # <<>> /\ queue["process"] \in Seq(Snapshots)
    BY <1>7 DEF Flush, TypeOK, Kinds
  <2>2. queue' \in [Kinds -> Seq(Snapshots)] /\ buffer' \in [Sources -> Seq(Snapshots)]
    <3>1. /\ Head(buffer[s]) \in Snapshots /\ Tail(buffer[s]) \in Seq(Snapshots)
          /\ Append(queue["process"], Head(buffer[s])) \in Seq(Snapshots)
      BY <2>1
    <3> QED BY <1>7, <3>1 DEF Flush, TypeOK
  <2> QED BY <1>7, <2>2 DEF Flush, TypeOK, pubVars, getVars
<1>8. CASE Exit(s)
  BY <1>8 DEF Exit, Goes, TypeOK, putVars, getVars
<1> QED BY <1>1, <1>2, <1>3, <1>4, <1>5, <1>6, <1>7, <1>8 DEF Publish

LEMMA MergeTyped ==
  ASSUME NEW value \in Counts, NEW x \in Snapshots
  PROVE  /\ Merge(value, x) \in Counts /\ Merge(value, x)[ElementOf(x)] = x.count
         /\ \A e \in Elements: e # ElementOf(x) => Merge(value, x)[e] = value[e]
BY SnapshotsAre DEF Merge, Counts, ElementOf

LEMMA TypeCollector ==
  ASSUME TypeOK, Collect \/ Gather \/ Return
  PROVE  TypeOK'
<1> DEFINE CollectorType == [at: Kinds \cup {"idle"}, both: BOOLEAN, value: Counts, calls: 0..MaxCalls]
<1>0. collector \in CollectorType /\ Nothing \in Counts
  BY DEF TypeOK, Nothing, Counts, Unknown
<1>1. CASE Collect
  <2>1. collector' \in CollectorType
    BY <1>0, <1>1, SizesAssumption DEF Collect, Kinds, TypeOK
  <2> QED BY <1>1, <2>1 DEF Collect, TypeOK, pubVars, putVars
<1>2. CASE Gather
  <2>1. collector.at \in Kinds /\ Take(collector.at)
    BY <1>2 DEF Gather
  <2>2. Head(queue[collector.at]) \in Snapshots
    BY <2>1, TakeTyped
  <2>3. Merge(collector.value, Head(queue[collector.at])) \in Counts
    BY <1>0, <2>2, MergeTyped
  <2>4. collector' \in CollectorType
    BY <1>0, <1>2, <2>3 DEF Gather
  <2> QED BY <1>2, <2>1, <2>4, TakeTyped DEF Gather, TypeOK, pubVars
<1>3. CASE Return
  <2>1. collector' \in CollectorType
    BY <1>0, <1>3 DEF Return, Kinds
  <2>2. reported' \in Counts
    BY <1>0, <1>3 DEF Return, TypeOK, Counts
  <2> QED BY <1>3, <2>1, <2>2 DEF Return, TypeOK, pubVars, putVars
<1> QED BY <1>1, <1>2, <1>3

LEMMA TypeNext == TypeOK /\ [Next]_vars => TypeOK'
<1> SUFFICES ASSUME TypeOK, [Next]_vars PROVE TypeOK'
  OBVIOUS
<1>1. CASE UNCHANGED vars
  BY <1>1 DEF vars, TypeOK
<1>2. CASE Rewire
  BY <1>2 DEF Rewire, TypeOK, putVars, getVars
<1> QED BY <1>1, <1>2, TypePublish, TypeCollector DEF Next

\* Spec => []TypeOK: no semaphore of a metrics queue is taken below zero, and every
\* snapshot belongs to a publisher that was started.
THEOREM MetricsTypeCorrect == Spec => []TypeOK
  BY TypeInit, TypeNext, PTL DEF Spec

-----------------------------------------------------------------------------
(* The order of the snapshots of an element *)

Same(x, y) == ElementOf(x) = ElementOf(y)
Sorted(q) == \A i, j \in DOMAIN q: i <= j /\ Same(q[i], q[j]) => q[i].count <= q[j].count

LEMMA Appended ==
  ASSUME NEW q \in Seq(Snapshots), Sorted(q), NEW x \in Snapshots,
         \A i \in DOMAIN q: Same(q[i], x) => q[i].count <= x.count
  PROVE  /\ Sorted(Append(q, x))
         /\ \A i \in DOMAIN Append(q, x): \/ i \in DOMAIN q /\ Append(q, x)[i] = q[i]
                                         \/ Append(q, x)[i] = x
<1>1. /\ Len(q) \in Nat /\ DOMAIN q = 1..Len(q) /\ DOMAIN Append(q, x) = 1..(Len(q) + 1)
      /\ \A i \in 1..Len(q): Append(q, x)[i] = q[i]
      /\ Append(q, x)[Len(q) + 1] = x
  OBVIOUS
<1>2. ASSUME NEW i \in DOMAIN Append(q, x)
      PROVE  \/ i \in DOMAIN q /\ Append(q, x)[i] = q[i]
             \/ i = Len(q) + 1 /\ Append(q, x)[i] = x
  <2>1. i \in 1..Len(q) \/ i = Len(q) + 1
    BY <1>1
  <2> QED BY <1>1, <2>1
<1>3. x.count \in Nat
  BY SnapshotsAre
<1>4. ASSUME NEW i \in DOMAIN Append(q, x), NEW j \in DOMAIN Append(q, x), i <= j,
             Same(Append(q, x)[i], Append(q, x)[j])
      PROVE  Append(q, x)[i].count <= Append(q, x)[j].count
  <2>1. CASE j \in DOMAIN q
    <3>1. i \in DOMAIN q /\ Append(q, x)[i] = q[i] /\ Append(q, x)[j] = q[j]
      BY <1>1, <1>4, <2>1
    <3> QED BY <1>4, <2>1, <3>1 DEF Sorted
  <2>2. CASE j = Len(q) + 1 /\ Append(q, x)[j] = x
    BY <1>2, <1>3, <1>4, <2>2
  <2> QED BY <1>2, <2>1, <2>2
<1> QED BY <1>2, <1>4 DEF Sorted

LEMMA Removed ==
  ASSUME NEW q \in Seq(Snapshots), q # <<>>, Sorted(q)
  PROVE  /\ Sorted(Tail(q))
         /\ \A i \in DOMAIN Tail(q):
              /\ i + 1 \in DOMAIN q /\ Tail(q)[i] = q[i + 1]
              /\ Same(Head(q), Tail(q)[i]) => Head(q).count <= Tail(q)[i].count
         /\ 1 \in DOMAIN q /\ Head(q) = q[1] /\ Head(q) \in Snapshots
<1>1. /\ Len(q) \in Nat \ {0} /\ DOMAIN q = 1..Len(q) /\ Head(q) = q[1]
      /\ DOMAIN Tail(q) = 1..(Len(q) - 1)
      /\ \A i \in 1..(Len(q) - 1): Tail(q)[i] = q[i + 1]
  OBVIOUS
<1>2. \A i \in DOMAIN Tail(q): i + 1 \in DOMAIN q /\ Tail(q)[i] = q[i + 1] /\ 1 <= i + 1
  BY <1>1
<1>3. 1 \in DOMAIN q /\ q[1] \in Snapshots
  BY <1>1
<1>4. \A i, j \in DOMAIN Tail(q): i <= j => i + 1 <= j + 1
  BY <1>1
<1>5. Sorted(Tail(q))
  BY <1>2, <1>4 DEF Sorted
<1> QED BY <1>1, <1>2, <1>3, <1>5 DEF Sorted

\* Nothing newer has been returned, or found, than the count c of element e.
Seen(e, c) == reported[e] <= c /\ collector.value[e] <= c

\* A snapshot on its way is of a publisher of that kind, and not ahead of it.
Sound(x, kind) ==
  /\ x.n \in DOMAIN runs[x.source] /\ runs[x.source][x.n].kind = kind
  /\ x.count <= runs[x.source][x.n].count
  /\ Seen(ElementOf(x), x.count)

QueueInv(kind) ==
  Sorted(queue[kind]) /\ \A i \in DOMAIN queue[kind]: Sound(queue[kind][i], kind)

\* What is in a feeder's buffer is newer than what is in the pipe.
BufferInv(s) ==
  /\ Sorted(buffer[s])
  /\ \A i \in DOMAIN buffer[s]:
       /\ buffer[s][i].source = s /\ Sound(buffer[s][i], "process")
       /\ \A j \in DOMAIN queue["process"]:
            Same(queue["process"][j], buffer[s][i]) =>
              queue["process"][j].count <= buffer[s][i].count

ElementInv(e) ==
  /\ e.n \in DOMAIN runs[e.source] => Seen(e, runs[e.source][e.n].count)
  /\ e.n \notin DOMAIN runs[e.source] => reported[e] = Unknown /\ collector.value[e] = Unknown
  /\ collector.value[e] # Unknown => reported[e] <= collector.value[e]

OrderInv ==
  /\ \A kind \in Kinds: QueueInv(kind)
  /\ \A s \in Sources: BufferInv(s)
  /\ \A e \in Elements: ElementInv(e)

LEMMA OrderInit == Init => OrderInv
<1> SUFFICES ASSUME Init PROVE OrderInv
  OBVIOUS
<1>1. \A kind \in Kinds: QueueInv(kind)
  BY DEF Init, QueueInv, Sorted
<1>2. \A s \in Sources: BufferInv(s)
  BY DEF Init, BufferInv, Sorted
<1>3. ASSUME NEW e \in Elements PROVE ElementInv(e)
  <2>1. e.source \in Sources
    BY ElementsAre
  <2>2. runs[e.source] = <<>> /\ reported[e] = Unknown /\ collector.value[e] = Unknown
    BY <2>1 DEF Init, Nothing
  <2> QED BY <2>2 DEF ElementInv
<1> QED BY <1>1, <1>2, <1>3 DEF OrderInv

\* Publishers are added, and count on.
LEMMA RunsGrow ==
  ASSUME TypeOK, TypeOK', OrderInv, UNCHANGED <<queue, buffer, collector, reported>>,
         \A s \in Sources: \A n \in DOMAIN runs[s]:
           /\ n \in DOMAIN runs'[s] /\ runs'[s][n].kind = runs[s][n].kind
           /\ runs[s][n].count <= runs'[s][n].count
  PROVE  OrderInv'
<1>0. ASSUME NEW s \in Sources
      PROVE  /\ \A n \in DOMAIN runs[s]: runs[s][n].count \in Nat
             /\ \A n \in DOMAIN runs'[s]: runs'[s][n].count \in Nat
  <2>1. runs[s] \in Seq(Runs) /\ runs'[s] \in Seq(Runs)
    BY DEF TypeOK
  <2>2. /\ \A n \in DOMAIN runs[s]: runs[s][n] \in Runs
        /\ \A n \in DOMAIN runs'[s]: runs'[s][n] \in Runs
    BY <2>1
  <2> QED BY <2>2 DEF Runs
<1>1. ASSUME NEW x \in Snapshots, NEW kind \in Kinds, Sound(x, kind) PROVE Sound(x, kind)'
  <2>1. x.source \in Sources /\ x.count \in Nat
    BY SnapshotsAre
  <2>2. runs[x.source][x.n].count \in Nat /\ runs'[x.source][x.n].count \in Nat
    BY <1>0, <1>1, <2>1 DEF Sound
  <2> QED BY <1>1, <2>1, <2>2 DEF Sound, Seen
<1>2. ASSUME NEW kind \in Kinds PROVE QueueInv(kind)'
  <2>1. queue[kind] \in Seq(Snapshots) /\ QueueInv(kind)
    BY DEF TypeOK, OrderInv
  <2>2. \A i \in DOMAIN queue[kind]: queue[kind][i] \in Snapshots
    BY <2>1
  <2> QED BY <1>1, <2>1, <2>2 DEF QueueInv
<1>3. ASSUME NEW s \in Sources PROVE BufferInv(s)'
  <2>1. buffer[s] \in Seq(Snapshots) /\ BufferInv(s)
    BY DEF TypeOK, OrderInv
  <2>2. \A i \in DOMAIN buffer[s]: buffer[s][i] \in Snapshots
    BY <2>1
  <2> QED BY <1>1, <2>1, <2>2 DEF BufferInv, Kinds
<1>4. ASSUME NEW e \in Elements PROVE ElementInv(e)'
  <2>1. e.source \in Sources /\ ElementInv(e)
    BY ElementsAre DEF OrderInv
  <2>2. reported[e] \in Nat \cup {Unknown} /\ collector.value[e] \in Nat \cup {Unknown}
    BY DEF TypeOK, Counts
  <2>3. e.n \in DOMAIN runs'[e.source] => Seen(e, runs'[e.source][e.n].count)
    <3>1. CASE e.n \in DOMAIN runs[e.source]
      BY <1>0, <2>1, <2>2, <3>1 DEF ElementInv, Seen, Unknown
    <3>2. CASE e.n \notin DOMAIN runs[e.source]
      BY <1>0, <2>1, <3>2 DEF ElementInv, Seen, Unknown
    <3> QED BY <3>1, <3>2
  <2> QED BY <2>1, <2>3 DEF ElementInv, Seen
<1> QED BY <1>2, <1>3, <1>4 DEF OrderInv

LEMMA EnqueueOrder ==
  ASSUME TypeOK, OrderInv, NEW s \in Sources, pc[s] # "dead", Enqueue(s),
         UNCHANGED <<runs, collector, reported>>
  PROVE  OrderInv'
<1> DEFINE x == Snapshot(s)
           kind == Kind(s)
           e == ElementOf(x)
<1>0. /\ x \in Snapshots /\ kind \in Kinds /\ x.source = s /\ x.n = Len(runs[s])
      /\ x.n \in DOMAIN runs[s] /\ x.count = runs[s][x.n].count /\ runs[s][x.n].kind = kind
  BY LastIs DEF Last, Kind
<1>1. e \in Elements /\ e.source = s /\ e.n = x.n
  BY <1>0, SnapshotsAre DEF ElementOf
<1>2. Sound(x, kind)
  <2>1. Seen(e, x.count)
    BY <1>0, <1>1 DEF OrderInv, ElementInv
  <2>2. x.count \in Nat
    BY <1>0, SnapshotsAre
  <2> QED BY <1>0, <2>1, <2>2 DEF Sound
<1>3. \A y, k: Sound(y, k)' <=> Sound(y, k)
  BY DEF Sound, Seen
<1> HIDE DEF x, kind, e
<1>4. ASSUME NEW y \in Snapshots, NEW k, Sound(y, k), Same(y, x)
      PROVE  y.count <= x.count /\ k = kind
  <2>1. y.source = x.source /\ y.n = x.n
    BY <1>4 DEF Same, ElementOf
  <2> QED BY <1>0, <1>4, <2>1 DEF Sound
<1>5. \A o \in Elements: ElementInv(o)'
  BY DEF OrderInv, ElementInv, Seen
<1>6. CASE kind = "thread"
  <2>1. /\ queue' = [queue EXCEPT !["thread"] = Append(@, x)] /\ buffer' = buffer
    BY <1>6 DEF Enqueue, x, kind
  <2>2. /\ queue["thread"] \in Seq(Snapshots) /\ QueueInv("thread")
        /\ queue'["thread"] = Append(queue["thread"], x) /\ queue'["process"] = queue["process"]
        /\ "thread" \in Kinds /\ "process" \in Kinds
    BY <2>1 DEF TypeOK, OrderInv, Kinds
  <2>3. \A i \in DOMAIN queue["thread"]:
          Same(queue["thread"][i], x) => queue["thread"][i].count <= x.count
    BY <1>4, <2>2 DEF QueueInv
  <2>4. /\ Sorted(Append(queue["thread"], x))
        /\ \A i \in DOMAIN Append(queue["thread"], x):
             \/ i \in DOMAIN queue["thread"] /\ Append(queue["thread"], x)[i] = queue["thread"][i]
             \/ Append(queue["thread"], x)[i] = x
    BY <1>0, <2>2, <2>3, Appended DEF QueueInv
  <2>5. \A i \in DOMAIN queue'["thread"]: Sound(queue'["thread"][i], "thread")
    BY <1>2, <1>6, <2>2, <2>4 DEF QueueInv
  <2>6. \A k \in Kinds: QueueInv(k)'
    <3>1. QueueInv("thread")'
      BY <1>3, <2>2, <2>4, <2>5 DEF QueueInv
    <3>2. QueueInv("process")'
      BY <1>3, <2>2 DEF QueueInv, OrderInv
    <3> QED BY <3>1, <3>2 DEF Kinds
  <2>7. \A o \in Sources: BufferInv(o)'
    BY <1>3, <2>1, <2>2 DEF BufferInv, OrderInv
  <2> QED BY <1>5, <2>6, <2>7 DEF OrderInv
<1>7. CASE kind # "thread"
  <2>1. /\ buffer' = [buffer EXCEPT ![s] = Append(@, x)] /\ queue' = queue /\ kind = "process"
    BY <1>0, <1>7 DEF Enqueue, x, kind, Kinds
  <2>2. /\ buffer[s] \in Seq(Snapshots) /\ BufferInv(s) /\ buffer'[s] = Append(buffer[s], x)
        /\ \A o \in Sources: o # s => buffer'[o] = buffer[o]
        /\ queue["process"] \in Seq(Snapshots) /\ QueueInv("process")
    BY <2>1 DEF TypeOK, OrderInv, Kinds
  <2>3. \A i \in DOMAIN buffer[s]: Same(buffer[s][i], x) => buffer[s][i].count <= x.count
    BY <1>4, <2>2 DEF BufferInv
  <2>4. /\ Sorted(Append(buffer[s], x))
        /\ \A i \in DOMAIN Append(buffer[s], x):
             \/ i \in DOMAIN buffer[s] /\ Append(buffer[s], x)[i] = buffer[s][i]
             \/ Append(buffer[s], x)[i] = x
    BY <1>0, <2>2, <2>3, Appended DEF BufferInv
  <2>5. \A j \in DOMAIN queue["process"]:
          Same(queue["process"][j], x) => queue["process"][j].count <= x.count
    BY <1>4, <2>2 DEF QueueInv
  <2>6. BufferInv(s)'
    <3>1. \A i \in DOMAIN buffer'[s]:
            /\ buffer'[s][i].source = s /\ Sound(buffer'[s][i], "process")
            /\ \A j \in DOMAIN queue["process"]:
                 Same(queue["process"][j], buffer'[s][i]) =>
                   queue["process"][j].count <= buffer'[s][i].count
      BY <1>0, <1>2, <2>1, <2>2, <2>4, <2>5 DEF BufferInv
    <3> QED BY <1>3, <2>1, <2>2, <2>4, <3>1 DEF BufferInv
  <2>7. \A o \in Sources: BufferInv(o)'
    <3>1. ASSUME NEW o \in Sources, o # s PROVE BufferInv(o)'
      BY <1>3, <2>1, <2>2, <3>1 DEF BufferInv, OrderInv
    <3> QED BY <2>6, <3>1
  <2>8. \A k \in Kinds: QueueInv(k)'
    BY <1>3, <2>1 DEF QueueInv, OrderInv
  <2> QED BY <1>5, <2>7, <2>8 DEF OrderInv
<1> QED BY <1>6, <1>7

\* The oldest snapshot of a queue is taken.
LEMMA TakeFacts ==
  ASSUME TypeOK, OrderInv, NEW kind \in Kinds, Take(kind)
  PROVE  /\ \A k \in Kinds: Sorted(queue'[k])
         /\ \A k \in Kinds: \A i \in DOMAIN queue'[k]: \E j \in DOMAIN queue[k]:
              queue'[k][i] = queue[k][j]
         /\ \A i \in DOMAIN queue'[kind]:
              Same(Head(queue[kind]), queue'[kind][i]) =>
                Head(queue[kind]).count <= queue'[kind][i].count
         /\ Head(queue[kind]) \in Snapshots /\ 1 \in DOMAIN queue[kind]
         /\ Head(queue[kind]) = queue[kind][1] /\ buffer' = buffer
<1>1. /\ queue[kind] \in Seq(Snapshots) /\ queue[kind] # <<>> /\ Sorted(queue[kind])
      /\ queue'[kind] = Tail(queue[kind]) /\ \A k \in Kinds: k # kind => queue'[k] = queue[k]
      /\ \A k \in Kinds: Sorted(queue[k]) /\ buffer' = buffer
  BY DEF Take, TypeOK, OrderInv, QueueInv
<1>2. /\ Sorted(Tail(queue[kind]))
      /\ \A i \in DOMAIN Tail(queue[kind]):
           /\ i + 1 \in DOMAIN queue[kind] /\ Tail(queue[kind])[i] = queue[kind][i + 1]
           /\ Same(Head(queue[kind]), Tail(queue[kind])[i]) =>
                Head(queue[kind]).count <= Tail(queue[kind])[i].count
      /\ 1 \in DOMAIN queue[kind] /\ Head(queue[kind]) = queue[kind][1]
      /\ Head(queue[kind]) \in Snapshots
  BY <1>1, Removed
<1>3. ASSUME NEW k \in Kinds, NEW i \in DOMAIN queue'[k]
      PROVE  \E j \in DOMAIN queue[k]: queue'[k][i] = queue[k][j]
  <2>1. CASE k = kind
    BY <1>1, <1>2, <2>1
  <2>2. CASE k # kind
    BY <1>1, <2>2
  <2> QED BY <2>1, <2>2
<1>4. \A k \in Kinds: Sorted(queue'[k])
  <2>1. Sorted(queue'[kind])
    BY <1>1, <1>2
  <2> QED BY <1>1, <2>1
<1>5. \A i \in DOMAIN queue'[kind]:
        Same(Head(queue[kind]), queue'[kind][i]) =>
          Head(queue[kind]).count <= queue'[kind][i].count
  BY <1>1, <1>2
<1> QED BY <1>1, <1>2, <1>3, <1>4, <1>5

LEMMA EvictOrder ==
  ASSUME TypeOK, OrderInv, NEW kind \in Kinds, Take(kind),
         UNCHANGED <<runs, collector, reported>>
  PROVE  OrderInv'
<1>1. \A y, k: Sound(y, k)' <=> Sound(y, k)
  BY DEF Sound, Seen
<1>2. \A e \in Elements: ElementInv(e)'
  BY DEF OrderInv, ElementInv, Seen
<1>3. \A k \in Kinds: QueueInv(k)'
  BY <1>1, TakeFacts DEF OrderInv, QueueInv
<1>4. ASSUME NEW s \in Sources PROVE BufferInv(s)'
  <2>1. BufferInv(s) /\ buffer' = buffer /\ "process" \in Kinds
    BY TakeFacts DEF OrderInv, Kinds
  <2>2. \A i \in DOMAIN queue'["process"]: \E j \in DOMAIN queue["process"]:
          queue'["process"][i] = queue["process"][j]
    BY <2>1, TakeFacts
  <2> QED BY <1>1, <2>1, <2>2 DEF BufferInv
<1> QED BY <1>2, <1>3, <1>4 DEF OrderInv

LEMMA FlushOrder ==
  ASSUME TypeOK, OrderInv, NEW s \in Sources, Flush(s)
  PROVE  OrderInv'
<1> DEFINE b == buffer[s]
           x == Head(b)
           p == queue["process"]
<1>0. /\ b \in Seq(Snapshots) /\ b # <<>> /\ p \in Seq(Snapshots) /\ BufferInv(s)
      /\ "process" \in Kinds /\ QueueInv("process")
      /\ queue'["process"] = Append(p, x) /\ buffer'[s] = Tail(b)
      /\ \A o \in Sources: o # s => buffer'[o] = buffer[o]
      /\ queue'["thread"] = queue["thread"]
      /\ UNCHANGED <<runs, collector, reported>>
  BY DEF Flush, TypeOK, OrderInv, Kinds, pubVars, getVars
<1>1. \A y, k: Sound(y, k)' <=> Sound(y, k)
  BY <1>0 DEF Sound, Seen
<1>2. \A e \in Elements: ElementInv(e)'
  BY <1>0 DEF OrderInv, ElementInv, Seen
<1>3. /\ Sorted(Tail(b))
      /\ \A i \in DOMAIN Tail(b): /\ i + 1 \in DOMAIN b /\ Tail(b)[i] = b[i + 1]
                                  /\ Same(x, Tail(b)[i]) => x.count <= Tail(b)[i].count
      /\ 1 \in DOMAIN b /\ x = b[1] /\ x \in Snapshots
  BY <1>0, Removed DEF BufferInv
<1>4. x.source = s /\ Sound(x, "process")
      /\ \A j \in DOMAIN p: Same(p[j], x) => p[j].count <= x.count
  BY <1>0, <1>3 DEF BufferInv
<1>5. /\ Sorted(Append(p, x))
      /\ \A i \in DOMAIN Append(p, x): \/ i \in DOMAIN p /\ Append(p, x)[i] = p[i]
                                      \/ Append(p, x)[i] = x
  BY <1>0, <1>3, <1>4, Appended DEF QueueInv
<1> HIDE DEF b, x, p
<1>6. \A k \in Kinds: QueueInv(k)'
  <2>1. QueueInv("process")'
    BY <1>0, <1>1, <1>4, <1>5 DEF QueueInv, p
  <2>2. QueueInv("thread")'
    BY <1>0, <1>1 DEF QueueInv, OrderInv, Kinds
  <2> QED BY <2>1, <2>2 DEF Kinds
<1>7. BufferInv(s)'
  <2>1. ASSUME NEW i \in DOMAIN Tail(b), NEW j \in DOMAIN Append(p, x),
               Same(Append(p, x)[j], Tail(b)[i])
        PROVE  Append(p, x)[j].count <= Tail(b)[i].count
    BY <1>0, <1>3, <1>5, <2>1 DEF BufferInv, b, p
  <2>2. \A i \in DOMAIN Tail(b): Tail(b)[i].source = s /\ Sound(Tail(b)[i], "process")
    BY <1>0, <1>3 DEF BufferInv, b
  <2> QED BY <1>0, <1>1, <1>3, <2>1, <2>2 DEF BufferInv
<1>8. ASSUME NEW o \in Sources, o # s PROVE BufferInv(o)'
  <2>1. BufferInv(o) /\ buffer[o] \in Seq(Snapshots)
    BY DEF OrderInv, TypeOK
  <2>2. \A i \in DOMAIN buffer[o]: buffer[o][i].source # x.source
    BY <1>4, <1>8, <2>1 DEF BufferInv
  <2>3. ASSUME NEW i \in DOMAIN buffer[o] PROVE ~Same(x, buffer[o][i])
    BY <2>2 DEF Same, ElementOf
  <2> QED BY <1>0, <1>1, <1>5, <1>8, <2>1, <2>3 DEF BufferInv, p
<1> QED BY <1>2, <1>6, <1>7, <1>8 DEF OrderInv

\* Steps that touch neither counts nor snapshots.
LEMMA OrderStutters ==
  ASSUME OrderInv, UNCHANGED <<runs, queue, buffer, reported>>,
         collector'.value = collector.value
  PROVE  OrderInv'
<1>1. \A y, k: Sound(y, k)' <=> Sound(y, k)
  BY DEF Sound, Seen
<1> QED BY <1>1 DEF OrderInv, QueueInv, BufferInv, ElementInv, Seen

\* Sound(x, kind) after the step, of the snapshot x before it.
SoundNext(x, kind) ==
  /\ x.n \in DOMAIN runs'[x.source] /\ runs'[x.source][x.n].kind = kind
  /\ x.count <= runs'[x.source][x.n].count
  /\ reported'[ElementOf(x)] <= x.count /\ collector'.value[ElementOf(x)] <= x.count

LEMMA GatherOrder ==
  ASSUME TypeOK, OrderInv, Gather
  PROVE  OrderInv'
<1> DEFINE kind == collector.at
           x == Head(queue[kind])
           e == ElementOf(x)
<1>0. /\ kind \in Kinds /\ Take(kind) /\ runs' = runs /\ reported' = reported /\ buffer' = buffer
      /\ x \in Snapshots /\ collector.value \in Counts
      /\ collector' = [collector EXCEPT !.value = Merge(@, x)]
  BY TakeFacts DEF Gather, TypeOK, pubVars
<1>1. /\ collector'.value = Merge(collector.value, x) /\ e \in Elements /\ x.count \in Nat
      /\ x.source \in Sources
  BY <1>0, SnapshotsAre DEF TypeOK
<1>2. collector'.value[e] = x.count /\ \A o \in Elements: o # e => collector'.value[o] = collector.value[o]
  BY <1>0, <1>1, MergeTyped
<1>3. Sound(x, kind)
  BY <1>0, TakeFacts DEF OrderInv, QueueInv
<1> HIDE DEF x, kind, e
<1>N. /\ \A k \in Kinds: \A i \in DOMAIN queue'[k]:
           Sound(queue[k][i], k)' <=> SoundNext(queue'[k][i], k)
      /\ \A s \in Sources: \A i \in DOMAIN buffer[s]:
           Sound(buffer[s][i], "process")' <=> SoundNext(buffer'[s][i], "process")
  BY DEF Sound, Seen, SoundNext, ElementOf
<1>4. ASSUME NEW y \in Snapshots, NEW k, Sound(y, k), Same(x, y) => x.count <= y.count
      PROVE  SoundNext(y, k)
  <2>1. ElementOf(y) \in Elements /\ y.count \in Nat
    BY SnapshotsAre
  <2>2. CASE ElementOf(y) = e
    BY <1>0, <1>2, <1>4, <2>2 DEF Sound, Seen, Same, SoundNext, e
  <2>3. CASE ElementOf(y) # e
    BY <1>0, <1>2, <1>4, <2>1, <2>3 DEF Sound, Seen, SoundNext
  <2> QED BY <2>2, <2>3
<1>5. ASSUME NEW o \in Elements PROVE ElementInv(o)'
  <2>1. ElementInv(o)
    BY DEF OrderInv
  <2>2. CASE o # e
    BY <1>0, <1>2, <2>1, <2>2 DEF ElementInv, Seen
  <2>3. CASE o = e
    <3>1. o.source = x.source /\ o.n = x.n
      BY <2>3 DEF e, ElementOf
    <3> QED BY <1>0, <1>1, <1>2, <1>3, <2>1, <2>3, <3>1 DEF ElementInv, Seen, Sound, e
  <2> QED BY <2>2, <2>3
<1>6. ASSUME NEW k \in Kinds PROVE QueueInv(k)'
  <2>0. queue[k] \in Seq(Snapshots) /\ queue[kind] \in Seq(Snapshots) /\ QueueInv(k)
    BY <1>0 DEF TypeOK, OrderInv
  <2>1. ASSUME NEW i \in DOMAIN queue'[k] PROVE SoundNext(queue'[k][i], k)
    <3>1. PICK j \in DOMAIN queue[k]: queue'[k][i] = queue[k][j]
      BY <1>0, TakeFacts
    <3>2. queue[k][j] \in Snapshots /\ Sound(queue[k][j], k)
      BY <2>0 DEF QueueInv
    <3>3. Same(x, queue[k][j]) => x.count <= queue[k][j].count
      <4>1. CASE k = kind
        BY <1>0, <3>1, <4>1, TakeFacts DEF x
      <4>2. CASE k # kind
        <5>1. ~Same(x, queue[k][j])
          BY <1>3, <3>2, <4>2 DEF Sound, Same, ElementOf
        <5> QED BY <5>1
      <4> QED BY <4>1, <4>2
    <3> QED BY <1>4, <3>1, <3>2, <3>3
  <2>2. Sorted(queue'[k])
    BY <1>0, TakeFacts
  <2> QED BY <1>N, <2>1, <2>2 DEF QueueInv
<1>7. ASSUME NEW s \in Sources PROVE BufferInv(s)'
  <2>0. buffer[s] \in Seq(Snapshots) /\ BufferInv(s) /\ "process" \in Kinds
    BY DEF TypeOK, OrderInv, Kinds
  <2>1. ASSUME NEW i \in DOMAIN buffer[s] PROVE SoundNext(buffer[s][i], "process")
    <3>1. buffer[s][i] \in Snapshots /\ Sound(buffer[s][i], "process")
      BY <2>0 DEF BufferInv
    <3>2. Same(x, buffer[s][i]) => x.count <= buffer[s][i].count
      <4>1. CASE kind = "process"
        <5>1. 1 \in DOMAIN queue["process"] /\ x = queue["process"][1]
          BY <1>0, <4>1, TakeFacts DEF x
        <5> QED BY <2>0, <5>1 DEF BufferInv
      <4>2. CASE kind # "process"
        <5>1. ~Same(x, buffer[s][i])
          BY <1>3, <3>1, <4>2 DEF Sound, Same, ElementOf
        <5> QED BY <5>1
      <4> QED BY <4>1, <4>2
    <3> QED BY <1>4, <3>1, <3>2
  <2>2. \A i \in DOMAIN queue'["process"]: \E j \in DOMAIN queue["process"]:
          queue'["process"][i] = queue["process"][j]
    BY <1>0, <2>0, TakeFacts
  <2>3. \A i \in DOMAIN buffer'[s]: Sound(buffer[s][i], "process")'
    BY <1>0, <1>N, <2>1
  <2> QED BY <1>0, <2>0, <2>2, <2>3 DEF BufferInv
<1> QED BY <1>5, <1>6, <1>7 DEF OrderInv

\* A call that begins has found nothing; one that returns has found nothing older than
\* what the calls before it returned.
LEMMA CallOrder ==
  ASSUME TypeOK, OrderInv, UNCHANGED <<runs, queue, buffer>>,
         \A e \in Elements: /\ reported'[e] \in {reported[e], collector.value[e]}
                            /\ collector.value[e] = Unknown => reported'[e] = reported[e]
                            /\ collector'.value[e] = Unknown
  PROVE  OrderInv'
<1>0. \A e \in Elements: /\ reported[e] \in Nat \cup {Unknown}
                         /\ collector.value[e] \in Nat \cup {Unknown}
  BY DEF TypeOK, Counts
<1>1. ASSUME NEW y \in Snapshots, NEW k, Sound(y, k) PROVE Sound(y, k)'
  <2>1. ElementOf(y) \in Elements /\ y.count \in Nat
    BY SnapshotsAre
  <2> QED BY <1>1, <2>1 DEF Sound, Seen, Unknown
<1>2. ASSUME NEW e \in Elements PROVE ElementInv(e)'
  <2>1. ElementInv(e) /\ e.source \in Sources /\ runs[e.source] \in Seq(Runs)
    BY ElementsAre DEF OrderInv, TypeOK
  <2>2. e.n \in DOMAIN runs[e.source] => runs[e.source][e.n].count \in Nat
    <3>1. e.n \in DOMAIN runs[e.source] => runs[e.source][e.n] \in Runs
      BY <2>1
    <3> QED BY <3>1 DEF Runs
  <2> QED BY <1>0, <2>1, <2>2 DEF ElementInv, Seen, Unknown
<1>3. ASSUME NEW k \in Kinds PROVE QueueInv(k)'
  <2>1. queue[k] \in Seq(Snapshots) /\ QueueInv(k)
    BY DEF TypeOK, OrderInv
  <2> QED BY <1>1, <2>1 DEF QueueInv
<1>4. ASSUME NEW s \in Sources PROVE BufferInv(s)'
  <2>1. buffer[s] \in Seq(Snapshots) /\ BufferInv(s)
    BY DEF TypeOK, OrderInv
  <2> QED BY <1>1, <2>1 DEF BufferInv
<1> QED BY <1>2, <1>3, <1>4 DEF OrderInv

LEMMA ReturnKeeps ==
  ASSUME TypeOK, OrderInv, Return
  PROVE  \A e \in Elements: reported'[e] >= reported[e]
<1> SUFFICES ASSUME NEW e \in Elements PROVE reported'[e] >= reported[e]
  OBVIOUS
<1>1. reported[e] \in Nat \cup {Unknown} /\ collector.value[e] \in Nat \cup {Unknown}
  BY DEF TypeOK, Counts
<1>2. reported'[e] = reported[e] \/ (reported'[e] = collector.value[e] /\ collector.value[e] # Unknown)
  BY DEF Return
<1> QED BY <1>1, <1>2 DEF OrderInv, ElementInv, Unknown

LEMMA OrderPublish ==
  ASSUME TypeOK, TypeOK', OrderInv, NEW s \in Sources, Publish(s)
  PROVE  OrderInv' /\ reported' = reported
<1>0. reported' = reported /\ collector' = collector
  BY DEF Publish, Start, Forward, Leave, Break, Put, Evict, PutAgain, Flush, Exit, getVars
<1>T. runs \in [Sources -> Seq(Runs)] /\ \A o \in Sources: runs[o] \in Seq(Runs)
  BY DEF TypeOK
<1>C. ASSUME NEW o \in Sources, NEW n \in DOMAIN runs[o]
      PROVE  runs[o][n] \in Runs /\ runs[o][n].count \in Nat
  <2>1. runs[o][n] \in Runs
    BY <1>T
  <2> QED BY <2>1 DEF Runs
<1>1. CASE Start(s)
  <2> DEFINE r == [kind |-> KindFor(s), count |-> 0, points |-> 0, final |-> FALSE]
  <2>1. runs' = [runs EXCEPT ![s] = Append(@, r)] /\ UNCHANGED <<queue, buffer>>
    BY <1>1 DEF Start, putVars
  <2> HIDE DEF r
  <2>2. \A o \in Sources: \A n \in DOMAIN runs[o]: n \in DOMAIN runs'[o] /\ runs'[o][n] = runs[o][n]
    <3>1. \A n \in DOMAIN runs[s]: /\ n \in DOMAIN Append(runs[s], r)
                                   /\ Append(runs[s], r)[n] = runs[s][n]
      BY <1>T
    <3> QED BY <1>T, <2>1, <3>1
  <2> QED BY <1>0, <1>C, <2>1, <2>2, RunsGrow
<1>2. CASE Forward(s) \/ Leave(s)
  <2>0. pc[s] # "dead" /\ UNCHANGED <<queue, buffer>>
    BY <1>2 DEF Forward, Leave, putVars
  <2>1. Last(s) \in Runs /\ Len(runs[s]) \in DOMAIN runs[s]
    BY <2>0, LastIs
  <2>3. /\ \A o \in Sources: Len(runs'[o]) = Len(runs[o]) /\ (o # s => runs'[o] = runs[o])
        /\ \A n \in DOMAIN runs[s]: n # Len(runs[s]) => runs'[s][n] = runs[s][n]
        /\ Last(s).count <= runs'[s][Len(runs[s])].count
        /\ runs'[s][Len(runs[s])].kind = Last(s).kind
    <3>1. CASE Forward(s)
      <4> DEFINE r == Counted(Last(s))
      <4>1. runs' = [runs EXCEPT ![s] = [@ EXCEPT ![Len(runs[s])] = r]]
        BY <3>1 DEF Forward, Last
      <4>2. r \in Runs /\ r.kind = Last(s).kind /\ Last(s).count <= r.count
        <5>1. Last(s).count \in Nat
          BY <2>1 DEF Runs
        <5> QED BY <2>1, <5>1, CountedTyped
      <4> HIDE DEF r
      <4> QED BY <2>0, <2>1, <4>1, <4>2, RunsTyped
    <3>2. CASE Leave(s)
      <4> DEFINE r == [Last(s) EXCEPT !.final = TRUE]
      <4>1. runs' = [runs EXCEPT ![s] = [@ EXCEPT ![Len(runs[s])] = r]]
        BY <3>2 DEF Leave, Last
      <4>2. r \in Runs /\ r.kind = Last(s).kind /\ Last(s).count <= r.count
        <5> DEFINE l == Last(s)
        <5>1. l \in Runs
          BY <2>1
        <5> HIDE DEF l
        <5>2. LET f == [l EXCEPT !.final = TRUE] IN
                f \in Runs /\ f.kind = l.kind /\ f.count = l.count
          BY <5>1 DEF Runs
        <5>3. l.count \in Nat
          BY <5>1 DEF Runs
        <5>4. l.count <= l.count
          BY <5>3
        <5> QED BY <5>2, <5>4 DEF l
      <4> HIDE DEF r
      <4> QED BY <2>0, <2>1, <4>1, <4>2, RunsTyped
    <3> QED BY <1>2, <3>1, <3>2
  <2>4. \A n \in DOMAIN runs[s]: /\ n \in DOMAIN runs'[s] /\ runs'[s][n].kind = runs[s][n].kind
                                 /\ runs[s][n].count <= runs'[s][n].count
    <3>1. runs'[s] \in Seq(Runs)
      BY DEF TypeOK
    <3>2. \A n \in DOMAIN runs[s]: n \in DOMAIN runs'[s]
      BY <1>T, <2>3, <3>1
    <3> QED BY <1>C, <2>3, <3>2 DEF Last
  <2>5. \A o \in Sources: \A n \in DOMAIN runs[o]:
          /\ n \in DOMAIN runs'[o] /\ runs'[o][n].kind = runs[o][n].kind
          /\ runs[o][n].count <= runs'[o][n].count
    BY <1>C, <2>3, <2>4
  <2> QED BY <1>0, <2>0, <2>5, RunsGrow
<1>3. CASE UNCHANGED <<runs, queue, buffer>>
  BY <1>0, <1>3, OrderStutters
<1>4. CASE Put(s) \/ PutAgain(s)
  <2>1. pc[s] # "dead" /\ runs' = runs /\ (Enqueue(s) \/ UNCHANGED <<queue, buffer>>)
    BY <1>4 DEF Put, PutAgain, Full, putVars
  <2> QED BY <1>0, <1>3, <2>1, EnqueueOrder
<1>5. CASE Evict(s)
  <2>1. pc[s] # "dead" /\ runs' = runs /\ (Take(Kind(s)) \/ UNCHANGED <<queue, buffer>>)
    BY <1>5 DEF Evict, FoundEmpty, putVars
  <2> QED BY <1>0, <1>3, <2>1, EvictOrder, LastIs
<1>6. CASE Flush(s)
  BY <1>0, <1>6, FlushOrder
<1>7. CASE Break(s) \/ Exit(s)
  BY <1>3, <1>7 DEF Break, Exit, putVars
<1> QED BY <1>0, <1>1, <1>2, <1>4, <1>5, <1>6, <1>7 DEF Publish

LEMMA OrderNext ==
  TypeOK /\ TypeOK' /\ OrderInv /\ [Next]_vars =>
    OrderInv' /\ \A e \in Elements: reported'[e] >= reported[e]
<1> SUFFICES ASSUME TypeOK, TypeOK', OrderInv, [Next]_vars
             PROVE  OrderInv' /\ \A e \in Elements: reported'[e] >= reported[e]
  OBVIOUS
<1>0. \A e \in Elements: reported[e] >= reported[e]
  <2>1. \A e \in Elements: reported[e] \in Nat \cup {-1}
    <3>1. reported \in Counts
      BY DEF TypeOK
    <3> QED BY <3>1 DEF Counts, Unknown
  <2> QED BY <2>1
<1>1. ASSUME NEW s \in Sources, Publish(s) PROVE OrderInv' /\ reported' = reported
  BY <1>1, OrderPublish
<1>2. CASE Rewire \/ UNCHANGED vars
  <2>1. UNCHANGED <<runs, queue, buffer, reported, collector>>
    BY <1>2 DEF Rewire, putVars, getVars, vars
  <2> QED BY <1>0, <2>1, OrderStutters
<1>3. CASE Collect
  <2>1. \A e \in Elements: collector'.value[e] = Unknown
    BY <1>3 DEF Collect, Nothing
  <2>2. UNCHANGED <<runs, queue, buffer, reported>>
    BY <1>3 DEF Collect, pubVars, putVars
  <2>3. OrderInv'
    BY <2>1, <2>2, CallOrder
  <2> QED BY <1>0, <2>2, <2>3
<1>4. CASE Gather
  <2>1. reported' = reported
    BY <1>4 DEF Gather
  <2> QED BY <1>0, <1>4, <2>1, GatherOrder
<1>5. ASSUME Return PROVE OrderInv'
  <2>0. UNCHANGED <<runs, queue, buffer>>
    BY <1>5 DEF Return, pubVars, putVars
  <2>1. CASE reported' = reported /\ collector'.value = collector.value
    BY <2>0, <2>1, OrderStutters
  <2>2. CASE collector'.value = Nothing
    <3>1. \A e \in Elements: /\ reported'[e] \in {reported[e], collector.value[e]}
                             /\ collector.value[e] = Unknown => reported'[e] = reported[e]
                             /\ collector'.value[e] = Unknown
      BY <1>5, <2>2 DEF Return, Nothing
    <3> QED BY <2>0, <3>1, CallOrder
  <2>3. \/ collector' = [collector EXCEPT !.at = "process"] /\ reported' = reported
        \/ collector' = [collector EXCEPT !.at = "idle", !.value = Nothing]
    BY <1>5 DEF Return
  <2>4. \/ collector'.value = collector.value /\ reported' = reported
        \/ collector'.value = Nothing
    BY <2>3 DEF TypeOK
  <2> QED BY <2>1, <2>2, <2>4
<1>6. Return => \A e \in Elements: reported'[e] >= reported[e]
  BY ReturnKeeps
<1> QED BY <1>0, <1>1, <1>2, <1>3, <1>4, <1>5, <1>6 DEF Next

\* Spec => NeverGoesBack: a count that get_metrics() returns is never less than the one
\* it returned before for the same element, whatever is evicted and whoever reads.
THEOREM CountsNeverGoBack == Spec => NeverGoesBack
<1>1. TypeOK /\ TypeOK' /\ OrderInv /\ [Next]_vars =>
        [\A e \in Elements: reported'[e] >= reported[e]]_reported
  BY OrderNext
<1>2. TypeOK /\ TypeOK' /\ OrderInv /\ [Next]_vars => OrderInv'
  BY OrderNext
<1> QED BY <1>1, <1>2, OrderInit, MetricsTypeCorrect, PTL DEF Spec, NeverGoesBack

-----------------------------------------------------------------------------
(* The final snapshot *)

Emitting == {"put", "evict", "again"}

\* The publishers that are about to put on a queue.
Pending(k) == {s \in Sources: pc[s] \in Emitting /\ Kind(s) = k}

\* A queue takes MaxSize snapshots before one has to make room: those put and those about to be
\* are no more than were emitted.
RoomInv ==
  /\ \A k \in Kinds: /\ IsFiniteSet(Pending(k))
                     /\ MaxSize + Cardinality(Pending(k)) <= room[k] + emitted[k]
  /\ room["thread"] + Len(queue["thread"]) = MaxSize

\* Nothing is evicted from a queue that was never full, and the only publisher of the threads'
\* queue puts its snapshot after it has evicted one.
EvictInv ==
  \A s \in Sources: /\ pc[s] \in {"evict", "again"} => ~KeepsAll(Kind(s))
                    /\ pc[s] = "again" /\ Alone(s) => room["thread"] > 0

\* The n-th publisher of s has put its final snapshot, and that is not to be lost.
Ended(s, n) == runs[s][n].final /\ (n = Len(runs[s]) => pc[s] \in {"exit", "dead"})
Kept(s, n)  == KeepsAll(runs[s][n].kind) \/ (n = Len(runs[s]) /\ Alone(s))
Found(s, n) ==
  LET e == [source |-> s, n |-> n] IN
    \/ Reported(e, runs[s][n].count)
    \/ WaitingIn(e, runs[s][n].count, queue[runs[s][n].kind])
    \/ WaitingIn(e, runs[s][n].count, buffer[s])

FinalInv ==
  /\ \A s \in Sources: pc[s] = "loop" => ~Last(s).final
  /\ collector.at = "idle" => collector.value = Nothing
  /\ \A s \in Sources: \A n \in DOMAIN runs[s]: Ended(s, n) /\ Kept(s, n) => Found(s, n)

\* What a step of a publisher leaves of the others, and of those before it.
LEMMA PublishFrame ==
  ASSUME TypeOK, TypeOK', NEW s \in Sources, Publish(s)
  PROVE  /\ \A o \in Sources \ {s}: runs'[o] = runs[o] /\ pc'[o] = pc[o]
         /\ \A o \in Sources: \A n \in DOMAIN runs[o]:
              n \in DOMAIN runs'[o] /\ runs'[o][n].kind = runs[o][n].kind
         /\ \A n \in DOMAIN runs[s]: n # Len(runs[s]) => runs'[s][n] = runs[s][n]
         /\ ~Start(s) => Len(runs'[s]) = Len(runs[s])
         /\ \A k \in Kinds: emitted[k] <= emitted'[k]
         /\ UNCHANGED getVars
<1>0. /\ runs \in [Sources -> Seq(Runs)] /\ runs' \in [Sources -> Seq(Runs)]
      /\ pc \in [Sources -> {"dead", "loop", "put", "evict", "again", "exit"}]
      /\ emitted \in [Kinds -> Nat] /\ \A k \in Kinds: emitted[k] <= emitted[k]
  <2>1. emitted \in [Kinds -> Nat]
    BY DEF TypeOK
  <2>2. \A k \in Kinds: emitted[k] <= emitted[k]
    BY <2>1
  <2> QED BY <2>1, <2>2 DEF TypeOK
<1>1. UNCHANGED getVars /\ \A o \in Sources \ {s}: pc'[o] = pc[o]
  <2>1. UNCHANGED getVars
    BY DEF Publish, Start, Forward, Leave, Break, Put, Evict, PutAgain, Flush, Exit
  <2>2. UNCHANGED pc \/ \E to: Goes(s, to)
    BY DEF Publish, Start, Forward, Leave, Break, Put, Evict, PutAgain, Flush, Exit, Emitted, pubVars
  <2> QED BY <1>0, <2>1, <2>2 DEF Goes
<1>2. CASE Start(s)
  <2> DEFINE r == [kind |-> KindFor(s), count |-> 0, points |-> 0, final |-> FALSE]
  <2>1. runs' = [runs EXCEPT ![s] = Append(@, r)] /\ emitted' = emitted
    BY <1>2 DEF Start
  <2> HIDE DEF r
  <2>2. \A n \in DOMAIN runs[s]: n \in DOMAIN Append(runs[s], r) /\ Append(runs[s], r)[n] = runs[s][n]
    BY <1>0
  <2> QED BY <1>0, <1>1, <1>2, <2>1, <2>2
<1>3. CASE Forward(s) \/ Leave(s)
  <2>0. pc[s] # "dead" /\ Kind(s) \in Kinds
    BY <1>3, LastIs DEF Forward, Leave
  <2>1. Last(s) \in Runs /\ Len(runs[s]) \in DOMAIN runs[s]
    BY <2>0, LastIs
  <2>2. PICK r \in Runs: /\ r.kind = Last(s).kind
                         /\ runs' = [runs EXCEPT ![s] = [@ EXCEPT ![Len(runs[s])] = r]]
    <3>1. CASE Forward(s)
      BY <2>1, <3>1, CountedTyped DEF Forward, Last
    <3>2. CASE Leave(s)
      <4>1. [Last(s) EXCEPT !.final = TRUE] \in Runs /\ [Last(s) EXCEPT !.final = TRUE].kind = Last(s).kind
        BY <2>1 DEF Runs
      <4> QED BY <3>2, <4>1 DEF Leave, Last
    <3> QED BY <1>3, <3>1, <3>2
  <2>3. /\ \A o \in Sources: Len(runs'[o]) = Len(runs[o])
        /\ \A o \in Sources: o # s => runs'[o] = runs[o]
        /\ \A n \in DOMAIN runs[s]: runs'[s][n] = IF n = Len(runs[s]) THEN r ELSE runs[s][n]
    BY <2>0, <2>2, RunsTyped
  <2>4. \A o \in Sources: DOMAIN runs'[o] = DOMAIN runs[o]
    BY <1>0, <2>3
  <2>5. \A k \in Kinds: emitted[k] <= emitted'[k]
    BY <1>0, <1>3, <2>0 DEF Forward, Leave
  <2> QED BY <1>1, <2>2, <2>3, <2>4, <2>5 DEF Last
<1>4. CASE Break(s) \/ Put(s) \/ Evict(s) \/ PutAgain(s) \/ Flush(s) \/ Exit(s)
  <2>1. runs' = runs /\ emitted' = emitted
    BY <1>4 DEF Break, Put, Evict, PutAgain, Flush, Exit, pubVars
  <2> QED BY <1>0, <1>1, <2>1
<1> QED BY <1>2, <1>3, <1>4 DEF Publish

\* So what holds of a publisher's kind, and of the use of the queues, held before.
LEMMA FrameKinds ==
  ASSUME TypeOK, TypeOK', NEW s \in Sources, Publish(s)
  PROVE  /\ \A k \in Kinds: KeepsAll(k)' => KeepsAll(k)
         /\ \A o \in Sources: pc[o] # "dead" => Kind(o)' = Kind(o) /\ Kind(o) \in Kinds
         /\ \A o \in Sources: (o # s \/ ~Start(s)) /\ runs[o] # <<>> /\ Alone(o)' => Alone(o)
<1>0. /\ \A o \in Sources: runs[o] \in Seq(Runs) /\ runs'[o] \in Seq(Runs)
      /\ \A k \in Kinds: emitted[k] \in Nat /\ emitted'[k] \in Nat /\ emitted[k] <= emitted'[k]
  BY PublishFrame DEF TypeOK
<1>1. ASSUME NEW k \in Kinds, KeepsAll(k)' PROVE KeepsAll(k)
  BY <1>0, <1>1, SizesAssumption DEF KeepsAll
<1>2. ASSUME NEW o \in Sources, runs[o] # <<>>, o # s \/ ~Start(s)
      PROVE  Kind(o)' = Kind(o) /\ Len(runs'[o]) = Len(runs[o])
  <2>1. Len(runs[o]) \in DOMAIN runs[o] /\ Len(runs'[o]) = Len(runs[o])
    BY <1>0, <1>2, PublishFrame
  <2> QED BY <2>1, PublishFrame DEF Kind, Last
<1>3. ASSUME NEW o \in Sources, pc[o] # "dead" PROVE Kind(o)' = Kind(o) /\ Kind(o) \in Kinds
  <2>1. runs[o] # <<>> /\ (o # s \/ ~Start(s))
    BY <1>3 DEF TypeOK, Start
  <2> QED BY <1>2, <1>3, <2>1, LastIs
<1>4. ASSUME NEW o \in Sources, o # s \/ ~Start(s), runs[o] # <<>>, Alone(o)' PROVE Alone(o)
  <2>1. Kind(o)' = Kind(o)
    BY <1>2, <1>4
  <2> QED BY <1>4, <2>1, PublishFrame DEF Alone
<1> QED BY <1>1, <1>3, <1>4

-----------------------------------------------------------------------------
(* Room *)

RoomOK(k) ==
  IsFiniteSet(Pending(k)) /\ MaxSize + Cardinality(Pending(k)) <= room[k] + emitted[k]

\* A publisher emits, puts, or does neither.
LEMMA PendingChanges ==
  ASSUME TypeOK, TypeOK', NEW k \in Kinds, RoomOK(k), NEW s,
         \/ /\ Pending(k)' \in SUBSET Pending(k) /\ room[k] + emitted[k] <= room'[k] + emitted'[k]
         \/ /\ Pending(k)' = Pending(k) \ {s} /\ s \in Pending(k)
            /\ room'[k] = room[k] - 1 /\ emitted'[k] = emitted[k]
         \/ /\ Pending(k)' = Pending(k) \cup {s}
            /\ room'[k] = room[k] /\ emitted'[k] = emitted[k] + 1
  PROVE  RoomOK(k)'
<1>1. /\ room[k] \in Nat /\ room'[k] \in Nat /\ emitted[k] \in Nat /\ emitted'[k] \in Nat
      /\ MaxSize \in Nat
  BY SizesAssumption DEF TypeOK
<1>2. IsFiniteSet(Pending(k)) /\ Cardinality(Pending(k)) \in Nat
  BY FS_CardinalityType DEF RoomOK
<1>3. /\ IsFiniteSet(Pending(k)') /\ Cardinality(Pending(k)') \in Nat
      /\ \/ /\ Cardinality(Pending(k)') <= Cardinality(Pending(k))
            /\ room[k] + emitted[k] <= room'[k] + emitted'[k]
         \/ /\ Cardinality(Pending(k)') = Cardinality(Pending(k)) - 1
            /\ room'[k] = room[k] - 1 /\ emitted'[k] = emitted[k]
         \/ /\ Cardinality(Pending(k)') <= Cardinality(Pending(k)) + 1
            /\ room'[k] = room[k] /\ emitted'[k] = emitted[k] + 1
  <2>1. ASSUME NEW Q, Q \in SUBSET Pending(k)
        PROVE  IsFiniteSet(Q) /\ Cardinality(Q) <= Cardinality(Pending(k))
    BY <1>2, <2>1, FS_Subset
  <2>2. /\ IsFiniteSet(Pending(k) \ {s})
        /\ s \in Pending(k) => Cardinality(Pending(k) \ {s}) = Cardinality(Pending(k)) - 1
    BY <1>2, FS_RemoveElement
  <2>3. /\ IsFiniteSet(Pending(k) \cup {s})
        /\ Cardinality(Pending(k) \cup {s}) <= Cardinality(Pending(k)) + 1
    BY <1>2, FS_AddElement
  <2>4. IsFiniteSet(Pending(k)')
    BY <2>1, <2>2, <2>3
  <2>5. Cardinality(Pending(k)') \in Nat
    BY <2>4, FS_CardinalityType
  <2> QED BY <2>1, <2>2, <2>3, <2>4, <2>5
<1>4. MaxSize + Cardinality(Pending(k)) <= room[k] + emitted[k]
  BY DEF RoomOK
<1> DEFINE a == Cardinality(Pending(k))
           b == Cardinality(Pending(k)')
<1>5. MaxSize + b <= room'[k] + emitted'[k]
  <2>1. a \in Nat /\ b \in Nat
    BY <1>2, <1>3
  <2>2. \/ b <= a /\ room[k] + emitted[k] <= room'[k] + emitted'[k]
        \/ b = a - 1 /\ room'[k] = room[k] - 1 /\ emitted'[k] = emitted[k]
        \/ b <= a + 1 /\ room'[k] = room[k] /\ emitted'[k] = emitted[k] + 1
    BY <1>3
  <2>3. MaxSize + a <= room[k] + emitted[k]
    BY <1>4
  <2> HIDE DEF a, b
  <2> QED BY <1>1, <2>1, <2>2, <2>3
<1> QED BY <1>3, <1>5 DEF RoomOK

LEMMA RoomTyped ==
  ASSUME TypeOK, NEW k \in Kinds
  PROVE  room[k] \in Nat /\ emitted[k] \in Nat /\ room[k] + emitted[k] \in Nat
<1>1. room[k] \in Nat /\ emitted[k] \in Nat
  BY DEF TypeOK
<1> QED BY <1>1

\* Who is about to put: the step of s changes only whether s is.
LEMMA PendingOthers ==
  ASSUME TypeOK, TypeOK', NEW s \in Sources, Publish(s), NEW k \in Kinds
  PROVE  /\ \A o \in Sources \ {s}: o \in Pending(k)' <=> o \in Pending(k)
         /\ s \in Pending(k)' <=> pc'[s] \in Emitting /\ Kind(s)' = k
         /\ pc[s] # "dead" => (s \in Pending(k)' <=> pc'[s] \in Emitting /\ Kind(s) = k)
         /\ \A o: o \in Pending(k) \/ o \in Pending(k)' => o \in Sources
<1>1. ASSUME NEW o \in Sources \ {s} PROVE o \in Pending(k)' <=> o \in Pending(k)
  <2>1. pc'[o] = pc[o]
    BY PublishFrame
  <2>2. pc[o] \in Emitting => Kind(o)' = Kind(o)
    BY FrameKinds DEF Emitting
  <2> QED BY <2>1, <2>2 DEF Pending
<1>2. pc[s] # "dead" => Kind(s)' = Kind(s)
  BY FrameKinds
<1> QED BY <1>1, <1>2 DEF Pending

\* put_nowait takes room and is no longer about to be.
LEMMA EnqueueRoom ==
  ASSUME TypeOK, TypeOK', NEW s \in Sources, Put(s) \/ PutAgain(s), Enqueue(s), Emitted(s),
         RoomInv
  PROVE  RoomInv'
<1>1. /\ Publish(s) /\ pc[s] \in Emitting /\ Kind(s) \in Kinds /\ pc'[s] \notin Emitting
      /\ pc[s] # "dead" /\ emitted' = emitted
  <2>1. pc[s] \in Emitting /\ pc[s] # "dead" /\ emitted' = emitted
    BY DEF Put, PutAgain, Emitting
  <2>2. pc'[s] \in {"exit", "loop"}
    BY DEF Emitted, Goes, TypeOK
  <2> QED BY <2>1, <2>2, FrameKinds DEF Publish, Emitting
<1>2. room' = [room EXCEPT ![Kind(s)] = @ - 1] /\ room \in [Kinds -> Nat]
  BY DEF Enqueue, TypeOK
<1>3. ASSUME NEW k \in Kinds PROVE RoomOK(k)'
  <2>0. RoomOK(k)
    BY DEF RoomInv, RoomOK
  <2>1. CASE k = Kind(s)
    <3>1. s \in Pending(k) /\ Pending(k)' = Pending(k) \ {s}
      <4>1. s \in Pending(k)
        BY <1>1, <2>1 DEF Pending
      <4>2. s \notin Pending(k)'
        BY <1>1, PendingOthers
      <4> QED BY <1>1, <4>1, <4>2, PendingOthers
    <3> QED BY <1>1, <1>2, <2>0, <2>1, <3>1, PendingChanges
  <2>2. CASE k # Kind(s)
    <3>1. Pending(k)' \in SUBSET Pending(k)
      BY <1>1, PendingOthers
    <3>2. room[k] + emitted[k] <= room'[k] + emitted'[k]
      <4>1. room'[k] = room[k] /\ emitted'[k] = emitted[k] /\ room[k] + emitted[k] \in Nat
        BY <1>1, <1>2, <2>2, RoomTyped
      <4> QED BY <4>1
    <3> QED BY <2>0, <3>1, <3>2, PendingChanges
  <2> QED BY <2>1, <2>2
<1>4. room'["thread"] + Len(queue'["thread"]) = MaxSize
  <2>0. /\ queue["thread"] \in Seq(Snapshots) /\ room["thread"] \in Nat /\ "thread" \in Kinds
        /\ Snapshot(s) \in Snapshots /\ room["thread"] + Len(queue["thread"]) = MaxSize
    BY <1>1, LastIs DEF TypeOK, Kinds, RoomInv
  <2>1. CASE Kind(s) = "thread"
    <3>1. /\ queue'["thread"] = Append(queue["thread"], Snapshot(s))
          /\ room'["thread"] = room["thread"] - 1
      BY <1>2, <2>0, <2>1 DEF Enqueue, TypeOK
    <3>2. Len(queue'["thread"]) = Len(queue["thread"]) + 1 /\ Len(queue["thread"]) \in Nat
      BY <2>0, <3>1
    <3>3. PICK a \in Nat, b \in Nat: a = room["thread"] /\ b = Len(queue["thread"])
      BY <2>0, <3>2
    <3>4. room'["thread"] = a - 1 /\ Len(queue'["thread"]) = b + 1 /\ a + b = MaxSize
      BY <2>0, <3>1, <3>2, <3>3
    <3> QED BY <3>4
  <2>2. CASE Kind(s) # "thread"
    <3>1. queue' = queue /\ room'["thread"] = room["thread"]
      BY <1>2, <2>0, <2>2 DEF Enqueue
    <3> QED BY <2>0, <3>1
  <2> QED BY <2>1, <2>2
<1> QED BY <1>3, <1>4 DEF RoomInv, RoomOK

\* Taking a snapshot makes room.
LEMMA TakeRoom ==
  ASSUME TypeOK, TypeOK', NEW kind \in Kinds, Take(kind), RoomInv, emitted' = emitted,
         \A k \in Kinds: Pending(k)' \in SUBSET Pending(k)
  PROVE  RoomInv'
<1>1. /\ room' = [room EXCEPT ![kind] = @ + 1] /\ room \in [Kinds -> Nat]
      /\ emitted \in [Kinds -> Nat]
  BY DEF Take, TypeOK
<1>2. ASSUME NEW k \in Kinds PROVE RoomOK(k)'
  <2>1. room[k] + emitted[k] <= room'[k] + emitted'[k]
    BY <1>1
  <2> QED BY <2>1, PendingChanges DEF RoomInv, RoomOK
<1>3. room'["thread"] + Len(queue'["thread"]) = MaxSize
  <2>0. /\ queue["thread"] \in Seq(Snapshots) /\ room["thread"] \in Nat /\ "thread" \in Kinds
        /\ room["thread"] + Len(queue["thread"]) = MaxSize /\ queue \in [Kinds -> Seq(Snapshots)]
    BY DEF TypeOK, Kinds, RoomInv
  <2>1. CASE kind = "thread"
    <3>1. queue["thread"] # <<>> /\ queue'["thread"] = Tail(queue["thread"])
          /\ room'["thread"] = room["thread"] + 1
      BY <1>1, <2>0, <2>1 DEF Take
    <3>2. Len(queue'["thread"]) = Len(queue["thread"]) - 1 /\ Len(queue["thread"]) \in Nat
      BY <2>0, <3>1
    <3> QED BY <2>0, <3>1, <3>2
  <2>2. CASE kind # "thread"
    <3>1. queue'["thread"] = queue["thread"] /\ room'["thread"] = room["thread"]
      BY <1>1, <2>0, <2>2 DEF Take
    <3> QED BY <2>0, <3>1
  <2> QED BY <2>1, <2>2
<1> QED BY <1>2, <1>3 DEF RoomInv, RoomOK

\* Steps that neither emit nor put.
LEMMA RoomStutters ==
  ASSUME TypeOK, TypeOK', RoomInv, UNCHANGED <<room, emitted>>,
         queue'["thread"] = queue["thread"],
         \A k \in Kinds: Pending(k)' \in SUBSET Pending(k)
  PROVE  RoomInv'
<1>1. ASSUME NEW k \in Kinds PROVE RoomOK(k)'
  <2>1. room[k] + emitted[k] <= room'[k] + emitted'[k]
    <3>1. room[k] + emitted[k] \in Nat
      BY RoomTyped
    <3> QED BY <3>1
  <2> QED BY <2>1, PendingChanges DEF RoomInv, RoomOK
<1> QED BY <1>1 DEF RoomInv, RoomOK

LEMMA RoomPublish ==
  ASSUME TypeOK, TypeOK', NEW s \in Sources, Publish(s), RoomInv
  PROVE  RoomInv'
<1>1. ASSUME pc[s] # "dead", pc'[s] \in Emitting => pc[s] \in Emitting, NEW k \in Kinds
      PROVE  Pending(k)' \in SUBSET Pending(k)
  <2>1. s \in Pending(k)' => s \in Pending(k)
    BY <1>1, PendingOthers DEF Pending
  <2> QED BY <2>1, PendingOthers
<1>2. CASE Start(s)
  <2>1. pc'[s] \notin Emitting /\ UNCHANGED <<queue, room, emitted>>
    BY <1>2 DEF Start, Goes, TypeOK, Emitting, putVars
  <2>2. \A k \in Kinds: Pending(k)' \in SUBSET Pending(k)
    BY <2>1, PendingOthers
  <2> QED BY <2>1, <2>2, RoomStutters
<1>3. CASE (Forward(s) \/ Leave(s)) /\ emitted' # emitted
  <2>1. /\ pc[s] = "loop" /\ pc'[s] = "put" /\ UNCHANGED putVars
        /\ emitted' = [emitted EXCEPT ![Kind(s)] = @ + 1]
    BY <1>3 DEF Forward, Leave, Goes, TypeOK
  <2>2. Kind(s) \in Kinds /\ pc[s] # "dead" /\ UNCHANGED <<queue, room>>
    BY <2>1, FrameKinds DEF putVars
  <2>3. ASSUME NEW k \in Kinds PROVE RoomOK(k)'
    <3>0. RoomOK(k)
      BY DEF RoomInv, RoomOK
    <3>1. CASE k = Kind(s)
      <4>1. Pending(k)' = Pending(k) \cup {s}
        <5>1. s \in Pending(k)'
          BY <2>1, <2>2, <3>1, PendingOthers DEF Emitting
        <5> QED BY <5>1, PendingOthers
      <4>2. room'[k] = room[k] /\ emitted'[k] = emitted[k] + 1
        BY <2>1, <2>2, <3>1 DEF TypeOK
      <4> QED BY <3>0, <4>1, <4>2, PendingChanges
    <3>2. CASE k # Kind(s)
      <4>1. Pending(k)' \in SUBSET Pending(k)
        <5>1. s \notin Pending(k)'
          BY <2>2, <3>2, PendingOthers
        <5> QED BY <5>1, PendingOthers
      <4>2. room[k] + emitted[k] <= room'[k] + emitted'[k]
        <5>1. room'[k] = room[k] /\ emitted'[k] = emitted[k] /\ room[k] + emitted[k] \in Nat
          BY <2>1, <2>2, <3>2, RoomTyped DEF TypeOK
        <5> QED BY <5>1
      <4> QED BY <3>0, <4>1, <4>2, PendingChanges
    <3> QED BY <3>1, <3>2
  <2> QED BY <2>2, <2>3 DEF RoomInv, RoomOK
<1>4. CASE Forward(s) /\ emitted' = emitted
  <2>1. pc'[s] = pc[s] /\ pc[s] # "dead" /\ UNCHANGED <<queue, room>>
    <3>1. CASE (Last(s).count + 1) % Interval = 0
      <4>1. emitted' = [emitted EXCEPT ![Kind(s)] = @ + 1] /\ pc[s] # "dead"
        BY <1>4, <3>1 DEF Forward
      <4>2. Kind(s) \in Kinds /\ emitted[Kind(s)] \in Nat
        BY <4>1, FrameKinds DEF TypeOK
      <4>3. emitted'[Kind(s)] = emitted[Kind(s)] + 1
        BY <4>1, <4>2 DEF TypeOK
      <4> QED BY <1>4, <4>2, <4>3
    <3>2. CASE (Last(s).count + 1) % Interval # 0
      BY <1>4, <3>2 DEF Forward, putVars
    <3> QED BY <3>1, <3>2
  <2> QED BY <1>1, <1>4, <2>1, RoomStutters
<1>5. CASE Leave(s) /\ emitted' = emitted
  <2>1. emitted' = [emitted EXCEPT ![Kind(s)] = @ + 1] /\ pc[s] # "dead"
    BY <1>5 DEF Leave
  <2>2. Kind(s) \in Kinds /\ emitted[Kind(s)] \in Nat
    BY <2>1, FrameKinds DEF TypeOK
  <2>3. emitted'[Kind(s)] = emitted[Kind(s)] + 1
    BY <2>1, <2>2 DEF TypeOK
  <2> QED BY <1>5, <2>2, <2>3
<1>6. CASE Break(s) \/ Exit(s)
  <2>1. pc[s] # "dead" /\ pc'[s] \notin Emitting /\ UNCHANGED <<queue, room, emitted>>
    BY <1>6 DEF Break, Exit, Goes, TypeOK, Emitting, putVars
  <2> QED BY <1>1, <2>1, RoomStutters
<1>7. CASE Put(s) \/ PutAgain(s)
  <2>1. CASE Enqueue(s) /\ Emitted(s)
    BY <1>7, <2>1, EnqueueRoom
  <2>2. CASE Full(s)
    <3>1. pc[s] \in Emitting /\ pc[s] # "dead" /\ UNCHANGED <<queue, room, emitted>>
      BY <1>7, <2>2 DEF Put, PutAgain, Full, Emitting, putVars
    <3> QED BY <1>1, <3>1, RoomStutters
  <2> QED BY <1>7, <2>1, <2>2 DEF Put, PutAgain
<1>8. CASE Evict(s)
  <2>1. pc[s] \in Emitting /\ pc[s] # "dead" /\ emitted' = emitted /\ Kind(s) \in Kinds
    BY <1>8, LastIs DEF Evict, Emitting
  <2>2. \A k \in Kinds: Pending(k)' \in SUBSET Pending(k)
    BY <1>1, <2>1
  <2>3. CASE Take(Kind(s))
    BY <2>1, <2>2, <2>3, TakeRoom
  <2>4. CASE UNCHANGED putVars
    BY <2>1, <2>2, <2>4, RoomStutters DEF putVars
  <2> QED BY <1>8, <2>3, <2>4 DEF Evict, FoundEmpty
<1>9. CASE Flush(s)
  <2>1. UNCHANGED <<pc, runs, room, emitted>> /\ queue'["thread"] = queue["thread"]
    BY <1>9 DEF Flush, pubVars, TypeOK
  <2>2. \A k \in Kinds: Pending(k)' \in SUBSET Pending(k)
    BY <2>1 DEF Pending, Kind, Last
  <2> QED BY <2>1, <2>2, RoomStutters
<1> QED BY <1>2, <1>3, <1>4, <1>5, <1>6, <1>7, <1>8, <1>9 DEF Publish

-----------------------------------------------------------------------------
(* Evicting *)

\* The queue of a publisher that finds it full has been asked for more than it takes.
LEMMA FullOverflows ==
  ASSUME TypeOK, RoomInv, NEW s \in Sources, pc[s] \in Emitting, room[Kind(s)] = 0
  PROVE  ~KeepsAll(Kind(s))
<1> DEFINE k == Kind(s)
<1>1. k \in Kinds /\ s \in Pending(k)
  BY LastIs DEF Emitting, Pending
<1>2. IsFiniteSet(Pending(k)) /\ MaxSize + Cardinality(Pending(k)) <= room[k] + emitted[k]
  BY <1>1 DEF RoomInv
<1>3. Cardinality(Pending(k)) \in Nat \ {0}
  BY <1>1, <1>2, FS_EmptySet, FS_CardinalityType
<1>4. emitted[k] \in Nat /\ MaxSize \in Nat /\ room[k] = 0
  BY <1>1, RoomTyped, SizesAssumption
<1> HIDE DEF k
<1>5. emitted[k] > MaxSize
  BY <1>2, <1>3, <1>4
<1> QED BY <1>4, <1>5 DEF KeepsAll, k

\* The only publisher of the threads' queue.
LEMMA AloneIs ==
  ASSUME TypeOK, NEW s \in Sources, Alone(s), NEW o \in Sources, pc[o] # "dead", Kind(o) = "thread"
  PROVE  o = s
<1>1. Len(runs[o]) \in DOMAIN runs[o]
  BY LastIs
<1> QED BY <1>1 DEF Alone, Kind, Last

LEMMA EvictPublish ==
  ASSUME TypeOK, TypeOK', NEW s \in Sources, Publish(s), RoomInv, EvictInv
  PROVE  EvictInv'
<1> SUFFICES ASSUME NEW o \in Sources
             PROVE  /\ pc'[o] \in {"evict", "again"} => ~KeepsAll(Kind(o))'
                    /\ pc'[o] = "again" /\ Alone(o)' => room'["thread"] > 0
  BY DEF EvictInv
<1>0. /\ "thread" \in Kinds /\ room["thread"] \in Nat /\ room'["thread"] \in Nat
      /\ queue["thread"] \in Seq(Snapshots)
  BY RoomTyped DEF TypeOK, Kinds
<1>1. ASSUME pc[o] \in {"evict", "again"}
      PROVE  ~KeepsAll(Kind(o))'
  <2>1. ~KeepsAll(Kind(o)) /\ Kind(o) \in Kinds /\ Kind(o)' = Kind(o)
    BY <1>1, FrameKinds DEF EvictInv
  <2>2. ~(emitted'[Kind(o)] <= MaxSize)
    BY <2>1, FrameKinds DEF KeepsAll
  <2> QED BY <2>1, <2>2 DEF KeepsAll
<1>2. CASE o # s
  <2>1. pc'[o] = pc[o]
    BY <1>2, PublishFrame
  <2>2. ASSUME pc[o] = "again", Alone(o)' PROVE room'["thread"] > 0
    <3>1. Alone(o) /\ room["thread"] > 0
      <4>1. runs[o] # <<>>
        BY <2>2 DEF TypeOK
      <4> QED BY <1>2, <2>2, <4>1, FrameKinds DEF EvictInv
    <3>2. CASE Enqueue(s) /\ pc[s] # "dead"
      <4>1. Kind(s) # "thread" /\ Kind(s) \in Kinds
        BY <1>2, <3>1, <3>2, AloneIs, LastIs
      <4> QED BY <1>0, <3>1, <3>2, <4>1 DEF Enqueue, TypeOK
    <3>3. CASE Take(Kind(s)) /\ Kind(s) \in Kinds
      <4>1. room' = [room EXCEPT ![Kind(s)] = @ + 1] /\ room \in [Kinds -> Nat]
        BY <3>3 DEF Take, TypeOK
      <4> QED BY <1>0, <3>1, <3>3, <4>1
    <3>4. CASE room' = room
      BY <3>1, <3>4
    <3>5. \/ Enqueue(s) /\ pc[s] # "dead"
          \/ Take(Kind(s)) /\ Kind(s) \in Kinds
          \/ room' = room
      <4>1. pc[s] = "evict" => Kind(s) \in Kinds
        BY LastIs
      <4> QED BY <4>1 DEF Publish, Start, Forward, Leave, Break, Put, Evict, PutAgain, Flush, Exit,
                  Full, FoundEmpty, putVars
    <3> QED BY <3>2, <3>3, <3>4, <3>5
  <2> QED BY <1>1, <2>1, <2>2
<1>3. CASE o = s /\ Put(s)
  <2>1. pc'[s] \in {"exit", "loop", "evict"}
    BY <1>3 DEF Put, Emitted, Goes, TypeOK
  <2>2. pc'[s] = "evict" => room[Kind(s)] = 0 /\ Kind(s)' = Kind(s) /\ UNCHANGED emitted
    <3>1. Emitted(s) => pc'[s] # "evict"
      BY DEF Emitted, Goes, TypeOK
    <3>2. pc[s] = "put" /\ UNCHANGED <<emitted, runs>>
      BY <1>3 DEF Put
    <3> QED BY <1>3, <3>1, <3>2 DEF Put, Full, Kind, Last
  <2>3. pc[s] \in Emitting
    BY <1>3 DEF Put, Emitting
  <2> QED BY <1>3, <2>1, <2>2, <2>3, FullOverflows DEF KeepsAll
<1>4. CASE o = s /\ Evict(s)
  <2>1. pc[s] = "evict" /\ pc'[s] = "again" /\ UNCHANGED runs
    BY <1>4 DEF Evict, Goes, TypeOK
  <2>2. ASSUME Alone(s)' PROVE room'["thread"] > 0
    <3>1. Kind(s) = "thread" /\ Kind(s) # "process"
      BY <2>1, <2>2 DEF Alone, Kind, Last
    <3>2. CASE Take("thread")
      <4>1. room'["thread"] = room["thread"] + 1
        BY <1>0, <3>2 DEF Take, TypeOK
      <4> QED BY <1>0, <4>1
    <3>3. CASE queue["thread"] = <<>> /\ room' = room
      <4>1. Len(queue["thread"]) = 0 /\ room["thread"] + Len(queue["thread"]) = MaxSize
        BY <3>3 DEF RoomInv
      <4> QED BY <1>0, <3>3, <4>1, SizesAssumption
    <3> QED BY <1>4, <3>1, <3>2, <3>3 DEF Evict, ReadBy, FoundEmpty, putVars
  <2> QED BY <1>1, <1>4, <2>1, <2>2
<1>5. CASE o = s /\ ~Put(s) /\ ~Evict(s)
  <2>1. pc'[s] \in {"evict", "again"} => pc'[s] = pc[s] /\ room' = room /\ UNCHANGED runs
    <3>1. CASE PutAgain(s)
      BY <3>1 DEF PutAgain, Emitted, Goes, TypeOK
    <3>2. CASE Start(s) \/ Forward(s) \/ Leave(s) \/ Break(s) \/ Exit(s)
      BY <3>2 DEF Start, Forward, Leave, Break, Exit, Goes, TypeOK
    <3>3. CASE Flush(s)
      BY <3>3 DEF Flush, pubVars
    <3> QED BY <1>5, <3>1, <3>2, <3>3 DEF Publish
  <2>2. pc'[s] = "again" /\ Alone(s)' => room'["thread"] > 0
    <3>1. UNCHANGED runs /\ Alone(s)' => Alone(s)
      BY DEF Alone, Kind, Last
    <3> QED BY <2>1, <3>1 DEF EvictInv
  <2> QED BY <1>1, <1>5, <2>1, <2>2
<1> QED BY <1>2, <1>3, <1>4, <1>5

-----------------------------------------------------------------------------
(* Where the final snapshot is *)

\* What is known of the count of a publisher.
LEMMA CountIs ==
  ASSUME TypeOK, OrderInv, NEW s \in Sources, NEW n \in DOMAIN runs[s],
         NEW e, e = [source |-> s, n |-> n]
  PROVE  /\ e \in Elements /\ e.source = s /\ e.n = n
         /\ runs[s][n].count \in Nat /\ runs[s][n].kind \in Kinds
         /\ reported[e] \in Nat \cup {Unknown} /\ collector.value[e] \in Nat \cup {Unknown}
         /\ reported[e] <= runs[s][n].count /\ collector.value[e] <= runs[s][n].count
         /\ collector.value[e] # Unknown => reported[e] <= collector.value[e]
<1>1. runs[s] \in Seq(Runs) /\ runs[s][n] \in Runs /\ n \in 1..MaxRuns[s]
  <2>1. runs[s] \in Seq(Runs) /\ Len(runs[s]) <= MaxRuns[s] /\ MaxRuns[s] \in Nat
    BY SizesAssumption DEF TypeOK
  <2> QED BY <2>1
<1>2. e \in Elements /\ e.source = s /\ e.n = n
  BY <1>1, ElementsAre
<1>3. ElementInv(e)
  BY <1>2 DEF OrderInv
<1>4. reported[e] \in Nat \cup {Unknown} /\ collector.value[e] \in Nat \cup {Unknown}
  BY <1>2 DEF TypeOK, Counts
<1> QED BY <1>1, <1>2, <1>3, <1>4 DEF ElementInv, Seen, Runs

\* What a queue keeps when something is put on it, and when its first is taken.
LEMMA WaitingAppended ==
  ASSUME NEW q \in Seq(Snapshots), NEW x, NEW e, NEW c, WaitingIn(e, c, q)
  PROVE  WaitingIn(e, c, Append(q, x))
<1>1. PICK i \in DOMAIN q: q[i].source = e.source /\ q[i].n = e.n /\ q[i].count = c
  BY DEF WaitingIn
<1>2. i \in DOMAIN Append(q, x) /\ Append(q, x)[i] = q[i]
  OBVIOUS
<1> QED BY <1>1, <1>2 DEF WaitingIn

LEMMA LastWaits ==
  ASSUME NEW q \in Seq(Snapshots), NEW x, NEW e, x.source = e.source, x.n = e.n
  PROVE  WaitingIn(e, x.count, Append(q, x))
<1>1. Len(q) + 1 \in DOMAIN Append(q, x) /\ Append(q, x)[Len(q) + 1] = x
  OBVIOUS
<1> QED BY <1>1 DEF WaitingIn

LEMMA WaitingTail ==
  ASSUME NEW q \in Seq(Snapshots), q # <<>>, NEW e, NEW c, WaitingIn(e, c, q)
  PROVE  \/ Head(q).source = e.source /\ Head(q).n = e.n /\ Head(q).count = c
         \/ WaitingIn(e, c, Tail(q))
<1>1. PICK i \in DOMAIN q: q[i].source = e.source /\ q[i].n = e.n /\ q[i].count = c
  BY DEF WaitingIn
<1>2. CASE i = 1
  <2>1. Head(q) = q[1]
    OBVIOUS
  <2> QED BY <1>1, <1>2, <2>1
<1>3. CASE i # 1
  <2>1. i - 1 \in DOMAIN Tail(q) /\ Tail(q)[i - 1] = q[i]
    BY <1>3
  <2> QED BY <1>1, <2>1 DEF WaitingIn
<1> QED BY <1>2, <1>3

\* A snapshot found stays so while its publisher, its queue and the collector do.
LEMMA FoundStays ==
  ASSUME NEW s \in Sources, NEW n \in DOMAIN runs[s], Found(s, n),
         UNCHANGED <<collector, reported>>,
         runs'[s][n].count = runs[s][n].count, runs'[s][n].kind = runs[s][n].kind,
         \A e, c: WaitingIn(e, c, queue[runs[s][n].kind]) =>
                    WaitingIn(e, c, queue'[runs[s][n].kind]),
         \A e, c: e.source = s /\ e.n = n /\ WaitingIn(e, c, buffer[s]) =>
                    \/ WaitingIn(e, c, buffer'[s])
                    \/ WaitingIn(e, c, queue'[runs[s][n].kind])
  PROVE  Found(s, n)'
<1> DEFINE e == [source |-> s, n |-> n]
           c == runs[s][n].count
<1>1. \/ Reported(e, c) \/ WaitingIn(e, c, queue[runs[s][n].kind]) \/ WaitingIn(e, c, buffer[s])
  BY DEF Found
<1>2. e.source = s /\ e.n = n /\ runs'[s][n].count = c
  OBVIOUS
<1>3. Reported(e, c) => Reported(e, c)'
  BY <1>2 DEF Reported
<1>4. \/ Reported(e, c)' \/ WaitingIn(e, c, queue'[runs[s][n].kind]) \/ WaitingIn(e, c, buffer'[s])
  BY <1>1, <1>2, <1>3
<1> QED BY <1>2, <1>4 DEF Found, Reported

LEMMA EnqueueFound ==
  ASSUME TypeOK, NEW s \in Sources, pc[s] # "dead", Enqueue(s),
         UNCHANGED <<runs, collector, reported>>
  PROVE  /\ \A o \in Sources: \A n \in DOMAIN runs[o]: Found(o, n) => Found(o, n)'
         /\ Found(s, Len(runs[s]))'
<1>1. /\ Snapshot(s) \in Snapshots /\ Kind(s) \in Kinds /\ Snapshot(s).source = s
      /\ Snapshot(s).n = Len(runs[s]) /\ Snapshot(s).count = Last(s).count
      /\ queue \in [Kinds -> Seq(Snapshots)] /\ buffer \in [Sources -> Seq(Snapshots)]
      /\ \A o \in Sources: runs[o] \in Seq(Runs) /\ "thread" \in Kinds
  BY LastIs DEF TypeOK, Kinds
<1> DEFINE x == Snapshot(s)
           e == [source |-> s, n |-> Len(runs[s])]
<1>2. x.source = e.source /\ x.n = e.n /\ x.count = runs[s][Len(runs[s])].count
  BY <1>1 DEF Last
<1>3. \A o \in Sources: \A n \in DOMAIN runs[o]: runs[o][n].kind \in Kinds
  <2>1. \A o \in Sources: \A n \in DOMAIN runs[o]: runs[o][n] \in Runs
    BY <1>1
  <2> QED BY <2>1 DEF Runs
<1> HIDE DEF x, e
<1>4. CASE Kind(s) = "thread"
  <2>1. queue' = [queue EXCEPT !["thread"] = Append(@, x)] /\ buffer' = buffer
    BY <1>4 DEF Enqueue, x
  <2>2. /\ queue'["thread"] = Append(queue["thread"], x) /\ queue["thread"] \in Seq(Snapshots)
        /\ \A k \in Kinds: k # "thread" => queue'[k] = queue[k]
    BY <1>1, <2>1
  <2>3. \A k \in Kinds: \A f, c: WaitingIn(f, c, queue[k]) => WaitingIn(f, c, queue'[k])
    <3>1. ASSUME NEW k \in Kinds, NEW f, NEW c, WaitingIn(f, c, queue[k])
          PROVE  WaitingIn(f, c, queue'[k])
      BY <2>2, <3>1, WaitingAppended
    <3> QED BY <3>1
  <2>4. ASSUME NEW o \in Sources, NEW n \in DOMAIN runs[o], Found(o, n) PROVE Found(o, n)'
    BY <1>3, <2>1, <2>3, <2>4, FoundStays
  <2>5. WaitingIn(e, x.count, queue'["thread"])
    BY <1>2, <2>2, LastWaits
  <2> QED BY <1>2, <1>4, <2>4, <2>5 DEF Found, Kind, Last, e
<1>5. CASE Kind(s) # "thread"
  <2>1. buffer' = [buffer EXCEPT ![s] = Append(@, x)] /\ queue' = queue
    BY <1>5 DEF Enqueue, x
  <2>2. /\ buffer'[s] = Append(buffer[s], x) /\ buffer[s] \in Seq(Snapshots)
        /\ \A o \in Sources: o # s => buffer'[o] = buffer[o]
    BY <1>1, <2>1
  <2>3. \A o \in Sources: \A f, c: WaitingIn(f, c, buffer[o]) => WaitingIn(f, c, buffer'[o])
    <3>1. ASSUME NEW o \in Sources, NEW f, NEW c, WaitingIn(f, c, buffer[o])
          PROVE  WaitingIn(f, c, buffer'[o])
      BY <2>2, <3>1, WaitingAppended
    <3> QED BY <3>1
  <2>4. ASSUME NEW o \in Sources, NEW n \in DOMAIN runs[o], Found(o, n) PROVE Found(o, n)'
    BY <2>1, <2>3, <2>4, FoundStays
  <2>5. WaitingIn(e, x.count, buffer'[s])
    BY <1>2, <2>2, LastWaits
  <2> QED BY <1>2, <2>4, <2>5 DEF Found, e
<1> QED BY <1>4, <1>5

\* The feeder thread moves a snapshot of its publisher, to the queue of the processes.
LEMMA FlushFound ==
  ASSUME TypeOK, OrderInv, NEW s \in Sources, Flush(s),
         NEW o \in Sources, NEW n \in DOMAIN runs[o], Found(o, n)
  PROVE  Found(o, n)'
<1> DEFINE b == buffer[s]
           p == queue["process"]
           x == Head(buffer[s])
<1>1. /\ b \in Seq(Snapshots) /\ b # <<>> /\ p \in Seq(Snapshots)
      /\ queue'["process"] = Append(p, x) /\ buffer'[s] = Tail(b)
      /\ \A q \in Sources: q # s => buffer'[q] = buffer[q]
      /\ \A k \in Kinds: k # "process" => queue'[k] = queue[k]
      /\ UNCHANGED <<runs, collector, reported>>
  BY DEF Flush, TypeOK, Kinds, pubVars, getVars
<1>2. x.source = s /\ Sound(x, "process")
  <2>1. 1 \in DOMAIN b /\ x = b[1]
    BY <1>1
  <2> QED BY <2>1 DEF OrderInv, BufferInv
<1>3. runs[o][n].kind \in Kinds
  BY CountIs
<1> HIDE DEF b, p, x
<1>4. ASSUME NEW e, NEW c, WaitingIn(e, c, queue[runs[o][n].kind])
      PROVE  WaitingIn(e, c, queue'[runs[o][n].kind])
  <2>1. CASE runs[o][n].kind = "process"
    BY <1>1, <1>4, <2>1, WaitingAppended DEF p
  <2>2. CASE runs[o][n].kind # "process"
    BY <1>1, <1>3, <1>4, <2>2
  <2> QED BY <2>1, <2>2
<1>5. ASSUME NEW e, NEW c, e.source = o, e.n = n, WaitingIn(e, c, buffer[o])
      PROVE  WaitingIn(e, c, buffer'[o]) \/ WaitingIn(e, c, queue'[runs[o][n].kind])
  <2>1. CASE o = s
    <3>1. \/ x.source = e.source /\ x.n = e.n /\ x.count = c
          \/ WaitingIn(e, c, Tail(b))
      BY <1>1, <1>5, <2>1, WaitingTail DEF b, x
    <3>2. ASSUME x.source = e.source, x.n = e.n, x.count = c
          PROVE  WaitingIn(e, c, queue'[runs[o][n].kind])
      <4>1. runs[o][n].kind = "process"
        BY <1>2, <1>5, <2>1, <3>2 DEF Sound
      <4>2. WaitingIn(e, x.count, Append(p, x))
        BY <1>1, <3>2, LastWaits
      <4> QED BY <1>1, <3>2, <4>1, <4>2
    <3> QED BY <1>1, <2>1, <3>1, <3>2
  <2>2. CASE o # s
    BY <1>1, <1>5, <2>2
  <2> QED BY <2>1, <2>2
<1> QED BY <1>1, <1>4, <1>5, FoundStays

\* What is evicted from a queue is of a publisher whose final snapshot may be lost.
LEMMA EvictFound ==
  ASSUME TypeOK, EvictInv, NEW s \in Sources, pc[s] = "evict", Take(Kind(s)),
         UNCHANGED <<runs, collector, reported>>,
         NEW o \in Sources, NEW n \in DOMAIN runs[o], Ended(o, n), Kept(o, n), Found(o, n)
  PROVE  Found(o, n)'
<1>1. runs[o][n].kind \in Kinds /\ Kind(s) \in Kinds
  <2>1. runs[o] \in Seq(Runs)
    BY DEF TypeOK
  <2>2. runs[o][n] \in Runs
    BY <2>1
  <2> QED BY <2>2, LastIs DEF Runs
<1>2. runs[o][n].kind # Kind(s)
  <2> SUFFICES ASSUME runs[o][n].kind = Kind(s) PROVE FALSE
    OBVIOUS
  <2>1. ~KeepsAll(Kind(s))
    BY DEF EvictInv
  <2>2. n = Len(runs[o]) /\ Alone(o)
    BY <2>1 DEF Kept
  <2>3. Kind(s) = "thread"
    BY <2>2 DEF Alone, Kind, Last
  <2>4. o = s
    BY <2>2, <2>3, AloneIs
  <2> QED BY <2>2, <2>4 DEF Ended
<1>3. /\ queue' = [queue EXCEPT ![Kind(s)] = Tail(@)] /\ buffer' = buffer
  BY DEF Take
<1>4. queue'[runs[o][n].kind] = queue[runs[o][n].kind]
  BY <1>1, <1>2, <1>3 DEF TypeOK
<1> QED BY <1>3, <1>4, FoundStays

\* A publisher ends when its final snapshot has been put, unless that may be lost.
LEMMA EmittedFound ==
  ASSUME TypeOK, RoomInv, EvictInv, NEW s \in Sources, Put(s) \/ PutAgain(s), Emitted(s),
         KeepsAll(Kind(s)) \/ Alone(s)
  PROVE  Enqueue(s)
<1> SUFFICES ASSUME ~Enqueue(s) PROVE FALSE
  OBVIOUS
<1>1. PutAgain(s) /\ Full(s)
  <2>1. pc'[s] # "evict"
    BY DEF Emitted, Goes, TypeOK
  <2>2. Put(s) => Enqueue(s)
    BY <2>1 DEF Put, Goes, TypeOK
  <2> QED BY <2>2 DEF PutAgain
<1>2. pc[s] = "again" /\ room[Kind(s)] = 0
  BY <1>1 DEF PutAgain, Full
<1>3. ~KeepsAll(Kind(s)) /\ Alone(s)
  BY <1>2 DEF EvictInv
<1>4. Kind(s) = "thread" /\ room["thread"] > 0
  BY <1>2, <1>3 DEF EvictInv, Alone
<1> QED BY <1>2, <1>4

LEMMA FinalPublish ==
  ASSUME TypeOK, TypeOK', OrderInv, RoomInv, EvictInv, FinalInv, NEW s \in Sources, Publish(s)
  PROVE  FinalInv'
<1>0. /\ collector' = collector /\ reported' = reported
      /\ \A o \in Sources: runs[o] \in Seq(Runs) /\ runs'[o] \in Seq(Runs)
      /\ pc' \in [Sources -> {"dead", "loop", "put", "evict", "again", "exit"}]
  BY PublishFrame DEF TypeOK, getVars
\* Before the step it had ended as well, and was found.
<1>1. ASSUME NEW o \in Sources, NEW n \in DOMAIN runs[o], runs'[o][n] = runs[o][n],
             Ended(o, n)', Kept(o, n)', o # s \/ n # Len(runs[o]) \/ pc[s] \in {"exit", "dead"}
      PROVE  Ended(o, n) /\ Kept(o, n) /\ Found(o, n)
  <2>1. Ended(o, n)
    <3>1. o # s => runs'[o] = runs[o] /\ pc'[o] = pc[o]
      BY PublishFrame
    <3> QED BY <1>1, <3>1 DEF Ended
  <2>2. Kept(o, n)
    <3>0. runs[o][n] \in Runs /\ runs[o] # <<>> /\ Len(runs[o]) \in Nat
      BY <1>0
    <3>1. CASE KeepsAll(runs[o][n].kind)'
      <4>1. runs[o][n].kind \in Kinds
        BY <3>0 DEF Runs
      <4> QED BY <1>1, <3>1, <4>1, FrameKinds DEF Kept, KeepsAll
    <3>2. CASE n = Len(runs'[o]) /\ Alone(o)'
      <4>1. o # s \/ ~Start(s)
        <5>1. Start(s) => Len(runs'[s]) = Len(runs[s]) + 1
          <6> DEFINE r == [kind |-> KindFor(s), count |-> 0, points |-> 0, final |-> FALSE]
          <6>1. Start(s) => runs' = [runs EXCEPT ![s] = Append(@, r)]
            BY DEF Start
          <6> HIDE DEF r
          <6> QED BY <1>0, <6>1 DEF TypeOK
        <5>2. n \in 1..Len(runs[o])
          BY <1>0
        <5> QED BY <3>0, <3>2, <5>1, <5>2
      <4>2. n = Len(runs[o])
        <5>1. Len(runs'[o]) = Len(runs[o])
          BY <4>1, PublishFrame
        <5> QED BY <3>2, <5>1
      <4> QED BY <3>0, <3>2, <4>1, <4>2, FrameKinds DEF Kept
    <3> QED BY <1>1, <3>1, <3>2 DEF Kept, KeepsAll
  <2> QED BY <2>1, <2>2 DEF FinalInv
<1>2. ASSUME NEW o \in Sources, NEW n \in DOMAIN runs[o], o # s \/ n # Len(runs[o])
      PROVE  runs'[o][n] = runs[o][n]
  BY <1>2, PublishFrame
\* What the step leaves where it is, or moves.
<1>3. ASSUME NEW o \in Sources, NEW n \in DOMAIN runs[o], runs'[o][n] = runs[o][n],
             Ended(o, n), Kept(o, n), Found(o, n)
      PROVE  Found(o, n)'
  <2>1. CASE UNCHANGED putVars
    BY <1>0, <1>3, <2>1, FoundStays DEF putVars
  <2>2. CASE Enqueue(s) /\ (Put(s) \/ PutAgain(s))
    BY <1>0, <1>3, <2>2, EnqueueFound DEF Put, PutAgain
  <2>3. CASE Take(Kind(s)) /\ Evict(s)
    BY <1>0, <1>3, <2>3, EvictFound DEF Evict
  <2>4. CASE Flush(s)
    BY <1>3, <2>4, FlushFound
  <2> QED BY <2>1, <2>2, <2>3, <2>4 DEF Publish, Start, Forward, Leave, Break, Put, Evict, PutAgain,
             Exit, Full, FoundEmpty
\* The publisher that takes the step.
<1>4. ASSUME NEW n \in DOMAIN runs[s], n = Len(runs[s]), Ended(s, n)', Kept(s, n)', ~Start(s)
      PROVE  Found(s, n)'
  <2>1. Len(runs'[s]) = Len(runs[s]) /\ pc'[s] \in {"exit", "dead"}
    BY <1>4, PublishFrame DEF Ended
  <2>2. CASE Put(s) \/ PutAgain(s)
    <3>1. Emitted(s) /\ UNCHANGED <<runs, emitted>> /\ pc[s] # "dead"
      BY <2>1, <2>2 DEF Put, PutAgain, Goes, TypeOK
    <3>2. KeepsAll(Kind(s)) \/ Alone(s)
      BY <1>4, <3>1 DEF Kept, KeepsAll, Kind, Last, Alone
    <3>3. Enqueue(s)
      BY <2>2, <3>1, <3>2, EmittedFound
    <3> QED BY <1>0, <1>4, <3>1, <3>3, EnqueueFound
  <2>3. CASE Exit(s) \/ Flush(s)
    <3>1. runs' = runs /\ pc[s] \in {"exit", "dead"}
      BY <2>1, <2>3 DEF Exit, Flush, pubVars
    <3> QED BY <1>1, <1>3, <1>4, <3>1
  <2>4. CASE Break(s)
    <3>1. ~Last(s).final /\ runs' = runs
      BY <2>4 DEF FinalInv, Break
    <3> QED BY <1>4, <3>1 DEF Ended, Last
  <2>5. CASE Forward(s) \/ Leave(s) \/ Evict(s)
    <3>1. pc'[s] \in {"loop", "put", "again"}
      BY <2>5 DEF Forward, Leave, Evict, Goes, TypeOK
    <3> QED BY <2>1, <3>1
  <2> QED BY <1>4, <2>2, <2>3, <2>4, <2>5 DEF Publish
<1>5. ASSUME Start(s)
      PROVE  /\ \A n \in DOMAIN runs[s]: /\ runs'[s][n] = runs[s][n]
                                         /\ n # Len(runs'[s])
             /\ \A n \in DOMAIN runs'[s]: n \in DOMAIN runs[s] \/ n = Len(runs'[s])
             /\ ~runs'[s][Len(runs'[s])].final /\ pc[s] = "dead"
  <2> DEFINE r == [kind |-> KindFor(s), count |-> 0, points |-> 0, final |-> FALSE]
  <2>1. runs' = [runs EXCEPT ![s] = Append(@, r)] /\ ~r.final /\ pc[s] = "dead"
    BY <1>5 DEF Start
  <2> HIDE DEF r
  <2>2. runs[s] \in Seq(Runs) /\ runs'[s] = Append(runs[s], r)
    BY <1>0, <2>1 DEF TypeOK
  <2>3. /\ \A n \in DOMAIN runs[s]: /\ Append(runs[s], r)[n] = runs[s][n]
                                    /\ n # Len(Append(runs[s], r))
        /\ \A n \in DOMAIN Append(runs[s], r):
             n \in DOMAIN runs[s] \/ n = Len(Append(runs[s], r))
        /\ Append(runs[s], r)[Len(Append(runs[s], r))] = r
    BY <2>2
  <2> QED BY <2>1, <2>2, <2>3
<1>6. ASSUME NEW o \in Sources, NEW n \in DOMAIN runs'[o], Ended(o, n)', Kept(o, n)'
      PROVE  Found(o, n)'
  <2>1. CASE o # s
    <3>1. n \in DOMAIN runs[o] /\ runs'[o][n] = runs[o][n]
      BY <2>1, PublishFrame
    <3> QED BY <1>1, <1>3, <1>6, <2>1, <3>1
  <2>2. CASE o = s /\ Start(s)
    <3>1. n \in DOMAIN runs[s] /\ runs'[s][n] = runs[s][n] /\ pc[s] = "dead"
      BY <1>5, <1>6, <2>2 DEF Ended
    <3> QED BY <1>1, <1>3, <1>6, <2>2, <3>1
  <2>3. CASE o = s /\ ~Start(s)
    <3>1. n \in DOMAIN runs[s]
      BY <1>0, <2>3, PublishFrame
    <3>2. CASE n = Len(runs[s])
      BY <1>4, <1>6, <2>3, <3>1, <3>2
    <3>3. CASE n # Len(runs[s])
      BY <1>1, <1>2, <1>3, <1>6, <2>3, <3>1, <3>3
    <3> QED BY <3>2, <3>3
  <2> QED BY <2>1, <2>2, <2>3
<1>7. ASSUME NEW o \in Sources, pc'[o] = "loop" PROVE ~Last(o).final'
  <2>1. CASE o # s
    BY <1>7, <2>1, PublishFrame DEF FinalInv, Last
  <2>2. CASE o = s /\ Start(s)
    BY <1>5, <2>2 DEF Last
  <2>3. CASE o = s /\ pc[s] = "loop" /\ ~Start(s)
    <3>1. ~Last(s).final /\ Last(s) \in Runs /\ Len(runs[s]) \in DOMAIN runs[s]
      BY <2>3, LastIs DEF FinalInv
    <3>2. CASE Forward(s)
      <4> DEFINE l == Last(s)
                 r == Counted(Last(s))
      <4>1. runs' = [runs EXCEPT ![s] = [@ EXCEPT ![Len(runs[s])] = r]]
        BY <3>2 DEF Forward, Last
      <4>2. r = [l EXCEPT !.count = @ + 1, !.points = Lapped(@)]
        BY DEF Counted
      <4>3. r \in Runs
        BY <3>1, CountedTyped
      <4>4. r.final = l.final
        <5>1. l \in Runs
          BY <3>1
        <5> HIDE DEF l, r
        <5> QED BY <4>2, <5>1 DEF Runs
      <4> HIDE DEF r
      <4>5. runs'[s][Len(runs[s])] = r /\ Len(runs'[s]) = Len(runs[s])
        BY <2>3, <3>1, <4>1, <4>3, RunsTyped
      <4> QED BY <2>3, <3>1, <4>4, <4>5 DEF Last
    <3>3. CASE UNCHANGED runs
      BY <2>3, <3>1, <3>3 DEF Last
    <3>4. Forward(s) \/ UNCHANGED runs
      <4>1. ~Leave(s)
        BY <1>7, <2>3 DEF Leave, Goes, TypeOK
      <4> QED BY <2>3, <4>1 DEF Publish, Break, Put, Evict, PutAgain, Flush, Exit, pubVars
    <3> QED BY <3>2, <3>3, <3>4
  <2>4. CASE o = s /\ pc[s] # "loop" /\ ~Start(s)
    <3>1. (Put(s) \/ PutAgain(s)) /\ Emitted(s)
      BY <1>7, <2>4 DEF Publish, Forward, Leave, Break, Put, Evict, PutAgain, Flush, Exit, Goes, TypeOK,
         pubVars
    <3>2. UNCHANGED runs /\ ~Last(s).final
      BY <1>7, <2>4, <3>1 DEF Put, PutAgain, Emitted, Goes, TypeOK
    <3> QED BY <2>4, <3>2 DEF Last
  <2> QED BY <2>1, <2>2, <2>3, <2>4
<1>8. collector'.at = "idle" => collector'.value = Nothing
  BY <1>0 DEF FinalInv
<1> QED BY <1>6, <1>7, <1>8 DEF FinalInv

-----------------------------------------------------------------------------
(* The final snapshot and get_metrics *)

\* A step of get_metrics changes nothing of the publishers.
LEMMA CollectorFrame ==
  ASSUME Collect \/ Gather \/ Return \/ Rewire \/ UNCHANGED vars
  PROVE  /\ UNCHANGED <<runs, pc, emitted>>
         /\ \A s: \A n: (Ended(s, n)' <=> Ended(s, n)) /\ (Kept(s, n)' <=> Kept(s, n))
         /\ \A s: Alone(s)' <=> Alone(s)
         /\ \A k: (KeepsAll(k)' <=> KeepsAll(k)) /\ Pending(k)' = Pending(k)
<1>1. UNCHANGED <<runs, pc, emitted>>
  BY DEF Collect, Gather, Return, Rewire, vars, pubVars
<1>2. /\ \A s: Alone(s)' <=> Alone(s)
      /\ \A k: (KeepsAll(k)' <=> KeepsAll(k)) /\ Pending(k)' = Pending(k)
  BY <1>1 DEF Alone, Kind, Last, KeepsAll, Pending
<1>3. \A s: \A n: (Ended(s, n)' <=> Ended(s, n)) /\ (Kept(s, n)' <=> Kept(s, n))
  BY <1>1, <1>2 DEF Ended, Kept, KeepsAll
<1> QED BY <1>1, <1>2, <1>3

\* A snapshot that get_metrics takes is in what it has found.
LEMMA GatherFound ==
  ASSUME TypeOK, OrderInv, Gather, NEW s \in Sources, NEW n \in DOMAIN runs[s], Found(s, n)
  PROVE  Found(s, n)'
<1> DEFINE kind == collector.at
           x == Head(queue[kind])
<1>0. /\ kind \in Kinds /\ Take(kind) /\ runs' = runs /\ reported' = reported /\ buffer' = buffer
      /\ x \in Snapshots /\ collector.value \in Counts
      /\ collector' = [collector EXCEPT !.value = Merge(@, x)]
  BY TakeFacts DEF Gather, TypeOK, pubVars
<1>1. collector'.value = Merge(collector.value, x) /\ ElementOf(x) \in Elements
  BY <1>0, SnapshotsAre DEF TypeOK
<1>2. PICK e \in Elements: e = [source |-> s, n |-> n]
  BY CountIs
<1>3. PICK c \in Nat: c = runs[s][n].count
  BY CountIs
<1>4. /\ e.source = s /\ e.n = n
      /\ runs[s][n].kind \in Kinds /\ reported[e] <= c /\ collector.value[e] <= c
      /\ collector.value[e] \in Nat \cup {Unknown}
  BY <1>2, <1>3, CountIs
<1>5. ElementOf(x) = e => /\ collector.value[e] <= x.count /\ x.count <= c /\ x.count \in Nat
                          /\ collector'.value[e] = x.count
  <2> SUFFICES ASSUME ElementOf(x) = e
               PROVE  /\ collector.value[e] <= x.count /\ x.count <= c /\ x.count \in Nat
                      /\ collector'.value[e] = x.count
    OBVIOUS
  <2>1. x.source = s /\ x.n = n
    BY <1>4 DEF ElementOf
  <2>2. Sound(x, kind)
    BY <1>0, TakeFacts DEF OrderInv, QueueInv
  <2>3. x.count \in Nat /\ collector'.value[e] = x.count
    BY <1>0, <1>1, SnapshotsAre, MergeTyped
  <2> HIDE DEF x, kind
  <2> QED BY <1>3, <2>1, <2>2, <2>3 DEF Sound, Seen
<1>6. ElementOf(x) # e => collector'.value[e] = collector.value[e]
  BY <1>0, <1>1, MergeTyped
<1>7. Reported(e, c) => Reported(e, c)'
  <2>1. CASE reported[e] = c
    BY <1>0, <2>1 DEF Reported
  <2>2. CASE collector.value[e] = c /\ ElementOf(x) = e
    <3>1. c <= x.count /\ x.count <= c /\ x.count \in Nat /\ collector'.value[e] = x.count
      BY <1>5, <2>2
    <3>2. x.count = c
      BY <3>1
    <3> QED BY <3>1, <3>2 DEF Reported
  <2>3. CASE collector.value[e] = c /\ ElementOf(x) # e
    BY <1>6, <2>3 DEF Reported
  <2> QED BY <2>1, <2>2, <2>3 DEF Reported
<1>8. WaitingIn(e, c, queue[runs[s][n].kind]) =>
        WaitingIn(e, c, queue'[runs[s][n].kind]) \/ Reported(e, c)'
  <2> SUFFICES ASSUME WaitingIn(e, c, queue[runs[s][n].kind])
               PROVE  WaitingIn(e, c, queue'[runs[s][n].kind]) \/ Reported(e, c)'
    OBVIOUS
  <2>1. CASE runs[s][n].kind = kind
    <3>1. /\ queue[kind] \in Seq(Snapshots) /\ queue[kind] # <<>>
          /\ queue'[kind] = Tail(queue[kind])
      BY <1>0 DEF Take, TypeOK
    <3>2. \/ x.source = e.source /\ x.n = e.n /\ x.count = c
          \/ WaitingIn(e, c, Tail(queue[kind]))
      BY <2>1, <3>1, WaitingTail
    <3>3. x.source = e.source /\ x.n = e.n => ElementOf(x) = e
      BY <1>2, <1>4 DEF ElementOf
    <3> QED BY <1>5, <2>1, <3>1, <3>2, <3>3 DEF Reported
  <2>2. CASE runs[s][n].kind # kind
    <3>1. queue'[runs[s][n].kind] = queue[runs[s][n].kind]
      BY <1>0, <1>4, <2>2 DEF Take, TypeOK
    <3> QED BY <3>1
  <2> QED BY <2>1, <2>2
<1>9. \/ Reported(e, c) \/ WaitingIn(e, c, queue[runs[s][n].kind]) \/ WaitingIn(e, c, buffer[s])
  BY <1>2, <1>3 DEF Found
<1>10. \/ Reported(e, c)' \/ WaitingIn(e, c, queue'[runs[s][n].kind])
       \/ WaitingIn(e, c, buffer'[s])
  BY <1>0, <1>7, <1>8, <1>9
<1> QED BY <1>0, <1>2, <1>3, <1>10 DEF Found, Reported

\* A call that returns has returned what it found, which is no less than what calls before it did.
LEMMA ReturnFound ==
  ASSUME TypeOK, OrderInv, Return, NEW s \in Sources, NEW n \in DOMAIN runs[s], Found(s, n)
  PROVE  Found(s, n)'
<1>0. UNCHANGED <<runs, queue, buffer>>
  BY DEF Return, pubVars, putVars
<1>1. PICK e \in Elements: e = [source |-> s, n |-> n]
  BY CountIs
<1>2. PICK c \in Nat: c = runs[s][n].count
  BY CountIs
<1>3. /\ reported[e] <= c /\ collector.value[e] <= c
      /\ reported[e] \in Nat \cup {Unknown} /\ collector.value[e] \in Nat \cup {Unknown}
      /\ collector.value[e] # Unknown => reported[e] <= collector.value[e]
  BY <1>1, <1>2, CountIs
<1>4. Reported(e, c) => Reported(e, c)'
  <2> SUFFICES ASSUME Reported(e, c) PROVE Reported(e, c)'
    OBVIOUS
  <2>1. CASE collector' = [collector EXCEPT !.at = "process"] /\ reported' = reported
    <3>1. collector'.value = collector.value
      BY <2>1 DEF TypeOK
    <3> QED BY <2>1, <3>1 DEF Reported
  <2>2. CASE reported' = [f \in Elements |-> IF collector.value[f] = Unknown THEN reported[f]
                                             ELSE collector.value[f]]
    <3>1. reported'[e] = IF collector.value[e] = Unknown THEN reported[e] ELSE collector.value[e]
      BY <2>2
    <3>2. reported[e] = c \/ collector.value[e] = c
      BY DEF Reported
    <3>3. reported'[e] = c
      BY <1>3, <3>1, <3>2 DEF Unknown
    <3> QED BY <3>3 DEF Reported
  <2> QED BY <2>1, <2>2 DEF Return
<1>5. \/ Reported(e, c) \/ WaitingIn(e, c, queue[runs[s][n].kind]) \/ WaitingIn(e, c, buffer[s])
  BY <1>1, <1>2 DEF Found
<1>6. \/ Reported(e, c)' \/ WaitingIn(e, c, queue'[runs[s][n].kind])
      \/ WaitingIn(e, c, buffer'[s])
  BY <1>0, <1>4, <1>5
<1> QED BY <1>0, <1>1, <1>2, <1>6 DEF Found, Reported

\* A call begins when the one before it has returned.
LEMMA CollectFound ==
  ASSUME TypeOK, OrderInv, FinalInv, Collect, NEW s \in Sources, NEW n \in DOMAIN runs[s], Found(s, n)
  PROVE  Found(s, n)'
<1>0. UNCHANGED <<runs, queue, buffer, reported>>
  BY DEF Collect, pubVars, putVars
<1>1. PICK e \in Elements: e = [source |-> s, n |-> n]
  BY CountIs
<1>2. PICK c \in Nat: c = runs[s][n].count
  BY CountIs
<1>3. collector.value[e] = Unknown /\ c # Unknown
  BY DEF FinalInv, Collect, Nothing, Unknown
<1>4. Reported(e, c) => Reported(e, c)'
  BY <1>0, <1>3 DEF Reported
<1>5. \/ Reported(e, c) \/ WaitingIn(e, c, queue[runs[s][n].kind]) \/ WaitingIn(e, c, buffer[s])
  BY <1>1, <1>2 DEF Found
<1>6. \/ Reported(e, c)' \/ WaitingIn(e, c, queue'[runs[s][n].kind])
      \/ WaitingIn(e, c, buffer'[s])
  BY <1>0, <1>4, <1>5
<1> QED BY <1>0, <1>1, <1>2, <1>6 DEF Found, Reported

FinalsInv == RoomInv /\ EvictInv /\ FinalInv

LEMMA FinalsInit == Init => FinalsInv
<1> SUFFICES ASSUME Init PROVE FinalsInv
  OBVIOUS
<1>1. \A k \in Kinds: Pending(k) = {}
  BY DEF Init, Pending, Emitting
<1>2. RoomInv
  <2>1. ASSUME NEW k \in Kinds
        PROVE  IsFiniteSet(Pending(k)) /\ MaxSize + Cardinality(Pending(k)) <= room[k] + emitted[k]
    <3>1. IsFiniteSet(Pending(k)) /\ Cardinality(Pending(k)) = 0
      BY <1>1, FS_EmptySet
    <3>2. room[k] = MaxSize /\ emitted[k] = 0 /\ MaxSize \in Nat
      BY SizesAssumption DEF Init
    <3> QED BY <3>1, <3>2
  <2>2. room["thread"] = MaxSize /\ queue["thread"] = <<>> /\ MaxSize \in Nat
    BY SizesAssumption DEF Init, Kinds
  <2> QED BY <2>1, <2>2 DEF RoomInv
<1>3. EvictInv /\ FinalInv
  BY DEF Init, EvictInv, FinalInv
<1> QED BY <1>2, <1>3 DEF FinalsInv

LEMMA FinalsNext ==
  ASSUME TypeOK, TypeOK', OrderInv, FinalsInv, [Next]_vars
  PROVE  FinalsInv'
<1>1. ASSUME NEW s \in Sources, Publish(s) PROVE FinalsInv'
  BY <1>1, RoomPublish, EvictPublish, FinalPublish DEF FinalsInv
<1>2. CASE Collect \/ Gather \/ Return \/ Rewire \/ UNCHANGED vars
  <2>1. RoomInv'
    <3>0. \A k \in Kinds: Pending(k)' \in SUBSET Pending(k)
      BY <1>2, CollectorFrame
    <3>1. CASE Gather
      BY <1>2, <3>0, <3>1, CollectorFrame, TakeRoom DEF Gather, FinalsInv
    <3>2. CASE UNCHANGED <<queue, room>>
      BY <1>2, <3>0, <3>2, CollectorFrame, RoomStutters DEF FinalsInv
    <3> QED BY <1>2, <3>1, <3>2 DEF Collect, Return, Rewire, vars, putVars
  <2>2. EvictInv'
    <3>1. room'["thread"] >= room["thread"] /\ room["thread"] \in Nat /\ room'["thread"] \in Nat
      <4>0. room["thread"] \in Nat /\ room'["thread"] \in Nat /\ "thread" \in Kinds
        <5>1. "thread" \in Kinds
          BY DEF Kinds
        <5>2. room \in [Kinds -> Nat] /\ room' \in [Kinds -> Nat]
          BY DEF TypeOK
        <5> QED BY <5>1, <5>2
      <4>1. CASE Gather
        <5>1. room' = [room EXCEPT ![collector.at] = @ + 1] /\ room \in [Kinds -> Nat]
          BY <4>1 DEF Gather, Take, TypeOK
        <5> QED BY <4>0, <5>1
      <4>2. CASE room' = room
        BY <4>0, <4>2
      <4> QED BY <1>2, <4>1, <4>2 DEF Collect, Return, Rewire, vars, putVars
    <3>2. \A s \in Sources: Kind(s)' = Kind(s) /\ pc'[s] = pc[s]
      BY <1>2, CollectorFrame DEF Kind, Last
    <3>3. \A s \in Sources: KeepsAll(Kind(s))' <=> KeepsAll(Kind(s))
      BY <1>2, <3>2, CollectorFrame DEF KeepsAll
    <3>4. \A s \in Sources: pc'[s] = "again" /\ Alone(s)' => room["thread"] > 0
      BY <1>2, <3>2, CollectorFrame DEF FinalsInv, EvictInv
    <3>5. \A s \in Sources: pc'[s] = "again" /\ Alone(s)' => room'["thread"] > 0
      BY <3>1, <3>4
    <3> QED BY <3>2, <3>3, <3>5 DEF FinalsInv, EvictInv
  <2>3. FinalInv'
    <3>1. ASSUME NEW s \in Sources, NEW n \in DOMAIN runs'[s], Ended(s, n)', Kept(s, n)'
          PROVE  Found(s, n)'
      <4>1. n \in DOMAIN runs[s] /\ Found(s, n)
        BY <1>2, <3>1, CollectorFrame DEF FinalsInv, FinalInv
      <4>2. CASE Rewire \/ UNCHANGED vars
        <5>1. UNCHANGED <<runs, queue, buffer, collector, reported>>
          BY <4>2 DEF Rewire, vars, putVars, getVars
        <5> QED BY <4>1, <5>1, FoundStays
      <4> QED BY <1>2, <4>1, <4>2, GatherFound, ReturnFound, CollectFound DEF FinalsInv
    <3>2. \A s \in Sources: pc'[s] = "loop" => ~Last(s)'.final
      BY <1>2, CollectorFrame DEF FinalsInv, FinalInv, Last
    <3>3. collector'.at = "idle" => collector'.value = Nothing
      <4>0. collector \in [at: Kinds \cup {"idle"}, both: BOOLEAN, value: Counts, calls: 0..MaxCalls]
            /\ (collector.at = "idle" => collector.value = Nothing)
        BY DEF TypeOK, FinalsInv, FinalInv
      <4>1. CASE Collect
        BY <4>1 DEF Collect
      <4>2. CASE Gather
        BY <4>0, <4>2 DEF Gather, Kinds
      <4>3. CASE Return
        <5>1. \/ collector' = [collector EXCEPT !.at = "process"]
              \/ collector' = [collector EXCEPT !.at = "idle", !.value = Nothing]
          BY <4>3 DEF Return
        <5> QED BY <4>0, <5>1
      <4>4. CASE Rewire \/ UNCHANGED vars
        BY <4>0, <4>4 DEF Rewire, vars, getVars
      <4> QED BY <1>2, <4>1, <4>2, <4>3, <4>4
    <3> QED BY <3>1, <3>2, <3>3 DEF FinalInv
  <2> QED BY <2>1, <2>2, <2>3 DEF FinalsInv
<1> QED BY <1>1, <1>2 DEF Next

\* Spec => []OrderInv: from what get_metrics() returned by way of the collector, the queue and the
\* buffer to the publisher's own counter, the counts of an element ascend.
THEOREM OrderInvariant == Spec => []OrderInv
<1>1. TypeOK /\ TypeOK' /\ OrderInv /\ [Next]_vars => OrderInv'
  BY OrderNext
<1> QED BY <1>1, OrderInit, MetricsTypeCorrect, PTL DEF Spec

\* Spec => []FinalsInv: there is room for what is emitted until a queue has been asked for more
\* than it takes; nothing is evicted before; and a final snapshot that was put is found.
THEOREM FinalsInvariant == Spec => []FinalsInv
<1>1. TypeOK /\ TypeOK' /\ OrderInv /\ FinalsInv /\ [Next]_vars => FinalsInv'
  BY FinalsNext
<1> QED BY <1>1, FinalsInit, MetricsTypeCorrect, OrderInvariant, PTL DEF Spec

\* Spec => []Accounted: the final snapshot of _publisher is returned by get_metrics(), or
\* waits to be, for all sizes of the queues and numbers of publishers, as long as no more was
\* emitted than the queue holds, or no other source uses the queue of the threads.
THEOREM FinalsAccounted == Spec => []Accounted
<1>1. FinalsInv => Accounted
  <2> SUFFICES ASSUME FinalsInv, NEW s \in Sources, pc[s] \in {"exit", "dead"},
                      NEW n \in DOMAIN runs[s], runs[s][n].final, Kept(s, n)
               PROVE  Found(s, n)
    BY DEF Accounted, Kept, Found
  <2> QED BY DEF FinalsInv, FinalInv, Ended
<1> QED BY <1>1, FinalsInvariant, PTL

=============================================================================
