----------------------- MODULE QueueLinkFanOut_proofs -----------------------
(***************************************************************************)
(* QueueLink implements FanOut, for all queues, callers, programs and      *)
(* capacities, and for thread and process publishers; and, over the steps  *)
(* of FanOut, every destination gets its items in order and once.          *)
(***************************************************************************)
EXTENDS QueueLinkFanOut, QueueLinkCalls_proofs

-----------------------------------------------------------------------------
(* The mapping *)

\* Ids already given out keep their queues.
QueuesKept == \A i \in Ids: i \in Ids' /\ queueOf'[i] = queueOf[i]

LEMMA WorkerKept ==
  ASSUME QueuesKept, NEW r, r.todo \subseteq Ids
  PROVE  Worker(r, queueOf') = Worker(r, queueOf)
<1>1. \A ids: ids \subseteq Ids => QueuesOf(ids, queueOf') = QueuesOf(ids, queueOf)
  BY DEF QueuesKept, QueuesOf
<1> QED BY <1>1 DEF Worker

\* Holding an item, and on the way to its destinations.
LEMMA WorkerIs ==
  ASSUME NEW r, NEW queue
  PROVE  /\ r.pc = "snapshot" /\ r.todo = {} => Worker(r, queue) = Abstract!Holding(r.item)
         /\ r.pc = "put" =>
              Worker(r, queue) = Abstract!Sending(r.item, QueuesOf(r.todo, queue))
         /\ Worker(r, queue).item = r.item
         /\ Worker(r, queue).stage = IF r.pc = "snapshot" THEN "taken" ELSE "sent"
         /\ Worker(r, queue).todo = QueuesOf(r.todo, queue)
<1> DEFINE full == {d \in r.todo: r.pc = "full" /\ IsLeast(d, r.todo)}
<1>0. QueuesOf({}, queue) = {} /\ (r.pc # "full" => full = {})
  BY DEF QueuesOf
<1>1. r.pc = "snapshot" /\ r.todo = {} => Worker(r, queue) = Abstract!Holding(r.item)
  BY <1>0 DEF Worker, Abstract!Holding
<1>2. r.pc = "put" => Worker(r, queue) = Abstract!Sending(r.item, QueuesOf(r.todo, queue))
  BY <1>0 DEF Worker, Abstract!Sending
<1>3. /\ Worker(r, queue).item = r.item
      /\ Worker(r, queue).stage = IF r.pc = "snapshot" THEN "taken" ELSE "sent"
      /\ Worker(r, queue).todo = QueuesOf(r.todo, queue)
  BY DEF Worker
<1> QED BY <1>1, <1>2, <1>3

\* Publishers that stay as they are, and new ones that have not begun.
PublishersKept ==
  /\ \A p \in DOMAIN procs: p \in DOMAIN procs' /\ procs'[p] = procs[p]
  /\ \A p \in DOMAIN procs' \ DOMAIN procs: ~Busy(procs'[p])

\* Such steps are none of the workers'.
LEMMA HandsKept ==
  ASSUME TypeOK, QueuesKept, PublishersKept
  PROVE  Hands' = Hands
<1>1. \A p \in DOMAIN procs: procs[p].src \in Ids /\ procs[p].todo \subseteq Ids
  BY PublisherIsTyped DEF PublisherOK
<1>2. \A p \in DOMAIN procs: Source(p)' = Source(p)
  BY <1>1 DEF QueuesKept, PublishersKept, Source
<1>3. \A q \in Queues: BusyReaders(q)' = BusyReaders(q)
  BY <1>2 DEF PublishersKept, BusyReaders
<1>4. ASSUME NEW q \in Queues PROVE WorkerOf(q)' = WorkerOf(q)
  <2>1. CASE BusyReaders(q) = {}
    BY <1>3, <2>1 DEF WorkerOf, Resting
  <2>2. CASE BusyReaders(q) # {}
    <3> DEFINE p == CHOOSE p \in BusyReaders(q): TRUE
    <3>1. p \in DOMAIN procs
      BY <2>2 DEF BusyReaders
    <3>2. procs'[p] = procs[p]
      BY <3>1 DEF PublishersKept
    <3>3. Worker(procs[p], queueOf') = Worker(procs[p], queueOf)
      BY <1>1, <3>1, WorkerKept
    <3>4. WorkerOf(q) = Worker(procs[p], queueOf)
      BY <2>2 DEF WorkerOf
    <3>5. WorkerOf(q)' = Worker(procs'[p], queueOf')
      BY <1>3, <2>2 DEF WorkerOf
    <3> QED BY <3>2, <3>3, <3>4, <3>5
  <2> QED BY <2>1, <2>2
<1> QED BY <1>4 DEF Hands

\* A publisher p becomes r: only the worker of its source can notice.
LEMMA TurnOfWorker ==
  ASSUME TypeOK, OneReaderPerQueue, NEW p \in DOMAIN procs, Alive(p), NEW r \in Publisher,
         Turns(p, r), r.src = procs[p].src, queueOf' = queueOf
  PROVE  /\ Source(p) \in Queues
         /\ Hands[Source(p)] =
              IF Busy(procs[p]) THEN Worker(procs[p], queueOf) ELSE Resting
         /\ Hands' = [Hands EXCEPT ![Source(p)] = IF Busy(r) THEN Worker(r, queueOf) ELSE Resting]
<1>1. /\ DOMAIN procs' = DOMAIN procs /\ procs'[p] = r
      /\ \A o \in DOMAIN procs: o # p => procs'[o] = procs[o]
  BY TurnsFrame DEF TypeOK, PublishersType
<1>2. Source(p) \in Queues
  BY PublisherIsTyped
<1>3. \A o \in DOMAIN procs: Source(o)' = Source(o)
  BY <1>1 DEF Source
<1>4. BusyReaders(Source(p)) = IF Busy(procs[p]) THEN {p} ELSE {}
  BY DEF OneReaderPerQueue, Alive, Busy, BusyReaders
<1>5. BusyReaders(Source(p))' = IF Busy(r) THEN {p} ELSE {}
  BY <1>1, <1>3 DEF OneReaderPerQueue, Alive, Busy, BusyReaders
<1>6. WorkerOf(Source(p)) = IF Busy(procs[p]) THEN Worker(procs[p], queueOf) ELSE Resting
  BY <1>4 DEF WorkerOf
<1>7. \A q \in Queues: q # Source(p) => WorkerOf(q)' = WorkerOf(q)
  <2> SUFFICES ASSUME NEW q \in Queues, q # Source(p) PROVE WorkerOf(q)' = WorkerOf(q)
    OBVIOUS
  <2>1. BusyReaders(q)' = BusyReaders(q) /\ p \notin BusyReaders(q)
    BY <1>1, <1>3 DEF BusyReaders
  <2>2. \A o \in BusyReaders(q): procs'[o] = procs[o]
    BY <1>1, <2>1 DEF BusyReaders
  <2>3. CASE BusyReaders(q) = {}
    BY <2>1, <2>3 DEF WorkerOf, Resting
  <2>4. CASE BusyReaders(q) # {}
    <3> DEFINE o == CHOOSE o \in BusyReaders(q): TRUE
    <3>1. WorkerOf(q) = Worker(procs[o], queueOf) /\ WorkerOf(q)' = Worker(procs'[o], queueOf')
      BY <2>1, <2>4 DEF WorkerOf
    <3>2. procs'[o] = procs[o]
      BY <2>2, <2>4
    <3> QED BY <3>1, <3>2
  <2> QED BY <2>3, <2>4
<1>8. Hands' = [q \in Queues |-> IF q = Source(p)
                                 THEN IF Busy(r) THEN Worker(r, queueOf) ELSE Resting
                                 ELSE WorkerOf(q)]
  <2>1. BusyReaders(Source(p))' # {} => (CHOOSE o \in BusyReaders(Source(p))': TRUE) = p
    BY <1>5
  <2>2. \A q \in Queues: q = Source(p) =>
          WorkerOf(q)' = IF Busy(r) THEN Worker(r, queueOf) ELSE Resting
    BY <1>1, <1>2, <1>3, <1>5, <2>1 DEF WorkerOf, Resting, BusyReaders
  <2> QED BY <1>7, <2>2 DEF Hands
<1> QED BY <1>2, <1>6, <1>8 DEF Hands

-----------------------------------------------------------------------------
(* The destinations of a publisher *)

LEMMA TargetsInit == Init => TargetsInv
BY DEF Init, TargetsInv

LEMMA TargetsTurn ==
  ASSUME TypeOK, TargetsInv, NEW p \in DOMAIN procs, NEW r \in Publisher, Turns(p, r),
         TargetsOK(r), queueOf' = queueOf
  PROVE  TargetsInv'
<1>1. /\ DOMAIN procs' = DOMAIN procs /\ procs'[p] = r
      /\ \A o \in DOMAIN procs: o # p => procs'[o] = procs[o]
  BY TurnsFrame DEF TypeOK, PublishersType
<1> QED BY <1>1 DEF TargetsInv, TargetsOK, DistinctIn

\* What every step of a publisher comes to: p becomes r.
LEMMA PublisherStep ==
  ASSUME TypeOK, ReaderInv, TargetsInv, NEW p \in DOMAIN procs, Alive(p), NEW r \in Publisher,
         Turns(p, r), r.src = procs[p].src, r.copy = procs[p].copy, UNCHANGED registry,
         DistinctIn(r.todo), r.pc \in {"check", "get", "snapshot"} => r.todo = {}
  PROVE  /\ TargetsInv'
         /\ Hands[Source(p)] = IF Busy(procs[p]) THEN Worker(procs[p], queueOf) ELSE Resting
         /\ Hands' = [Hands EXCEPT ![Source(p)] = IF Busy(r) THEN Worker(r, queueOf) ELSE Resting]
<1>1. queueOf' = queueOf
  BY DEF registry
<1>2. TargetsOK(r)
  BY DEF TargetsInv, TargetsOK
<1>3. OneReaderPerQueue
  BY ReaderInvImplies
<1> QED BY <1>1, <1>2, <1>3, TargetsTurn, TurnOfWorker

\* A publisher that rests, or returns.
LEMMA StillResting ==
  ASSUME NEW q \in Queues, Hands[q] = Resting, Hands' = [Hands EXCEPT ![q] = Resting]
  PROVE  Hands' = Hands
BY DEF Hands

\* The new state of a publisher that goes on to pc, or returns.
LEMMA MoveState ==
  ASSUME NEW p \in DOMAIN procs, procs[p] \in Publisher, NEW pc \in PublisherPcs, Move(p, pc)
  PROVE  \E r \in Publisher:
           /\ Turns(p, r) /\ r.pc = pc /\ r.src = procs[p].src /\ r.item = procs[p].item
           /\ r.todo = procs[p].todo /\ r.copy = procs[p].copy
<1> DEFINE r == [procs[p] EXCEPT !.pc = pc]
<1>1. Turns(p, r)
  BY DEF Move
<1>2. /\ r \in Publisher /\ r.pc = pc /\ r.src = procs[p].src /\ r.item = procs[p].item
      /\ r.todo = procs[p].todo /\ r.copy = procs[p].copy
  BY DEF Publisher
<1> QED BY <1>1, <1>2

LEMMA ExitState ==
  ASSUME NEW p \in DOMAIN procs, procs[p] \in Publisher, Exit(p)
  PROVE  \E r \in Publisher:
           /\ Turns(p, r) /\ r.pc = "dead" /\ r.src = procs[p].src
           /\ r.todo = {} /\ r.copy = procs[p].copy
<1> DEFINE r == [procs[p] EXCEPT !.pc = "dead", !.item = NoItem, !.todo = {}, !.undelivered = {}]
<1>1. Turns(p, r)
  BY DEF Exit
<1>2. /\ r \in Publisher /\ r.pc = "dead" /\ r.src = procs[p].src
      /\ r.todo = {} /\ r.copy = procs[p].copy
  BY DEF Publisher, PublisherPcs
<1> QED BY <1>1, <1>2

\* The top of the loop, and an empty source, are none of the worker's steps.
LEMMA RestStep ==
  ASSUME TypeOK, ReaderInv, TargetsInv, NEW p \in DOMAIN procs, CheckStop(p) \/ GetEmpty(p)
  PROVE  TargetsInv' /\ UNCHANGED Abstract!vars
<1>1. procs[p] \in Publisher /\ TargetsOK(procs[p]) /\ Source(p) \in Queues
  BY PublisherIsTyped DEF TargetsInv
<1>2. procs[p].pc \in {"check", "get"} /\ procs[p].todo = {} /\ Alive(p)
  BY <1>1 DEF CheckStop, GetEmpty, At, Alive, TargetsOK
<1>3. UNCHANGED <<registry, log, head, broken>>
  BY DEF CheckStop, GetEmpty, queueVars
<1>4. PICK r \in Publisher:
        /\ Turns(p, r) /\ r.pc \in {"check", "get", "dead"} /\ r.src = procs[p].src
        /\ r.todo = {} /\ r.copy = procs[p].copy
  BY <1>1, <1>2, MoveState, ExitState DEF CheckStop, GetEmpty, PublisherPcs
<1>5. TargetsInv' /\ Hands' = Hands
  BY <1>1, <1>2, <1>3, <1>4, PublisherStep, StillResting DEF Busy, DistinctIn
<1> QED BY <1>3, <1>5 DEF Abstract!vars

LEMMA TakeStep ==
  ASSUME TypeOK, ReaderInv, TargetsInv, NEW p \in DOMAIN procs, GetItem(p)
  PROVE  TargetsInv' /\ Abstract!Take(Source(p))
<1>1. procs[p] \in Publisher /\ TargetsOK(procs[p]) /\ Source(p) \in Queues
  BY PublisherIsTyped DEF TargetsInv
<1>2. procs[p].pc = "get" /\ procs[p].todo = {} /\ Alive(p)
  BY <1>1 DEF GetItem, At, Alive, TargetsOK
<1> DEFINE item == log[Source(p)][head[Source(p)] + 1]
<1>3. item \in Items
  BY <1>1, ElementOfSeq DEF GetItem, Unread, TypeOK, QueuesType
<1>4. Turns(p, [procs[p] EXCEPT !.pc = "snapshot", !.item = item])
  BY DEF GetItem
<1> HIDE DEF item
<1>5. PICK r \in Publisher:
        /\ Turns(p, r) /\ r.pc = "snapshot" /\ r.src = procs[p].src
        /\ r.item = item /\ r.todo = {} /\ r.copy = procs[p].copy
  <2> DEFINE r == [procs[p] EXCEPT !.pc = "snapshot", !.item = item]
  <2>1. /\ r \in Publisher /\ r.pc = "snapshot" /\ r.src = procs[p].src
        /\ r.item = item /\ r.todo = {} /\ r.copy = procs[p].copy
    BY <1>1, <1>2, <1>3 DEF Publisher, PublisherPcs
  <2> QED BY <1>4, <2>1
<1>6. /\ TargetsInv' /\ Hands[Source(p)] = Resting
      /\ Hands' = [Hands EXCEPT ![Source(p)] = Worker(r, queueOf)]
  BY <1>1, <1>2, <1>5, PublisherStep DEF Busy, DistinctIn, GetItem
<1>7. Worker(r, queueOf) = Abstract!Holding(item)
  BY <1>5, WorkerIs
<1> QED BY <1>6, <1>7
        DEF item, GetItem, Unread, Resting, Abstract!Take, Abstract!Unread, Abstract!Becomes

LEMMA AddressStep ==
  ASSUME TypeOK, ReaderInv, TargetsInv, NEW p \in DOMAIN procs, Snapshot(p)
  PROVE  TargetsInv' /\ Abstract!Address(Source(p))
<1>1. procs[p] \in Publisher /\ TargetsOK(procs[p]) /\ Source(p) \in Queues
  BY PublisherIsTyped DEF TargetsInv
<1>2. procs[p].pc = "snapshot" /\ Alive(p) /\ UNCHANGED <<registry, log, head, broken>>
  BY DEF Snapshot, At, Alive, queueVars
<1> DEFINE dests == DestQueues(p)
<1>3. dests \subseteq Ids /\ dests \subseteq Nat /\ DistinctIn(dests)
  <2>1. destinations \subseteq Ids /\ DistinctIn(destinations)
    BY DEF TypeOK, RegistryType, ReaderInv, DistinctQueues, DistinctIn
  <2>2. procs[p].copy \subseteq Ids /\ DistinctIn(procs[p].copy)
    BY <1>1, PublisherIsTyped DEF PublisherOK, TargetsOK
  <2>3. Ids \subseteq Nat
    BY DEF Ids
  <2> QED BY <2>1, <2>2, <2>3 DEF DestQueues
<1>4. Turns(p, [procs[p] EXCEPT !.pc = "put", !.todo = dests])
  BY DEF Snapshot
<1> HIDE DEF dests
<1>5. PICK r \in Publisher:
        /\ Turns(p, r) /\ r.pc = "put" /\ r.src = procs[p].src
        /\ r.item = procs[p].item /\ r.todo = dests /\ r.copy = procs[p].copy
  <2> DEFINE r == [procs[p] EXCEPT !.pc = "put", !.todo = dests]
  <2>1. /\ r \in Publisher /\ r.pc = "put" /\ r.src = procs[p].src
        /\ r.item = procs[p].item /\ r.todo = dests /\ r.copy = procs[p].copy
    BY <1>1, <1>3 DEF Publisher, PublisherPcs
  <2> QED BY <1>4, <2>1
<1>6. /\ TargetsInv' /\ Hands[Source(p)] = Worker(procs[p], queueOf)
      /\ Hands' = [Hands EXCEPT ![Source(p)] = Worker(r, queueOf)]
  BY <1>1, <1>2, <1>3, <1>5, PublisherStep DEF Busy
<1>7. QueuesOf(dests, queueOf) \in SUBSET Queues
  BY <1>3, ElementOfSeq DEF TypeOK, RegistryType, Ids, QueuesOf
<1>8. Worker(r, queueOf) = Abstract!Sending(Hands[Source(p)].item, QueuesOf(dests, queueOf))
  BY <1>5, <1>6, WorkerIs
<1>9. Hands[Source(p)].stage = "taken"
  BY <1>2, <1>6, WorkerIs
<1> QED BY <1>2, <1>6, <1>7, <1>8, <1>9 DEF Abstract!Address, Abstract!Becomes

\* In terms of queues, a destination fewer.
LEMMA FewerTargets ==
  ASSUME NEW S, NEW d \in S, DistinctIn(S)
  PROVE  /\ QueuesOf(S \ {d}, queueOf) = QueuesOf(S, queueOf) \ {queueOf[d]}
         /\ queueOf[d] \in QueuesOf(S, queueOf) /\ DistinctIn(S \ {d})
BY DEF DistinctIn, QueuesOf

LEMMA DeliverStep ==
  ASSUME TypeOK, ReaderInv, TargetsInv, NEW p \in DOMAIN procs, NEW d \in procs[p].todo,
         Put(p, d)
  PROVE  /\ TargetsInv' /\ queueOf[d] \in Hands[Source(p)].todo
         /\ Abstract!Deliver(Source(p), queueOf[d])
<1>1. procs[p] \in Publisher /\ TargetsOK(procs[p]) /\ Source(p) \in Queues
  BY PublisherIsTyped DEF TargetsInv
<1>2. /\ procs[p].pc = "put" /\ Alive(p) /\ UNCHANGED <<registry, head, broken>>
      /\ HasRoom(queueOf[d]) /\ queueOf[d] \notin broken
      /\ log' = [log EXCEPT ![queueOf[d]] = Append(@, procs[p].item)]
  BY DEF Put, Trying, At, Alive
<1> DEFINE rest == procs[p].todo \ {d}
<1>3. Turns(p, [procs[p] EXCEPT !.todo = rest])
  BY DEF Put
<1>4. rest \subseteq Nat /\ DistinctIn(rest)
  BY <1>1, FewerTargets DEF TargetsOK, Publisher
<1> HIDE DEF rest
<1>5. PICK r \in Publisher:
        /\ Turns(p, r) /\ r.pc = "put" /\ r.src = procs[p].src
        /\ r.item = procs[p].item /\ r.todo = rest /\ r.copy = procs[p].copy
  <2> DEFINE r == [procs[p] EXCEPT !.todo = rest]
  <2>1. /\ r \in Publisher /\ r.pc = "put" /\ r.src = procs[p].src
        /\ r.item = procs[p].item /\ r.todo = rest /\ r.copy = procs[p].copy
    BY <1>1, <1>2, <1>4 DEF Publisher
  <2> QED BY <1>3, <2>1
<1>6. /\ TargetsInv' /\ Hands[Source(p)] = Worker(procs[p], queueOf)
      /\ Hands' = [Hands EXCEPT ![Source(p)] = Worker(r, queueOf)]
  BY <1>1, <1>2, <1>4, <1>5, PublisherStep DEF Busy
<1> DEFINE todo == QueuesOf(procs[p].todo, queueOf)
<1>7. Hands[Source(p)] = Abstract!Sending(procs[p].item, todo)
  BY <1>2, <1>6, WorkerIs
<1>8. /\ Worker(r, queueOf) = Abstract!Sending(procs[p].item, todo \ {queueOf[d]})
      /\ queueOf[d] \in todo
  <2>1. QueuesOf(rest, queueOf) = todo \ {queueOf[d]} /\ queueOf[d] \in todo
    BY <1>1, FewerTargets DEF rest, TargetsOK
  <2>2. Worker(r, queueOf) = Abstract!Sending(procs[p].item, QueuesOf(rest, queueOf))
    BY <1>5, WorkerIs
  <2> QED BY <2>1, <2>2
<1> HIDE DEF todo
<1>9. /\ Hands[Source(p)].item = procs[p].item /\ Hands[Source(p)].todo = todo
      /\ Hands[Source(p)].full = {}
  BY <1>7 DEF Abstract!Sending
<1> QED BY <1>2, <1>6, <1>8, <1>9
        DEF HasRoom, Abstract!Deliver, Abstract!HasRoom, Abstract!Becomes

\* The destination a publisher is trying is the only one it can find full.
LEMMA FoundFull ==
  ASSUME NEW r \in Publisher, NEW d, IsLeast(d, r.todo)
  PROVE  Worker(r, queueOf) =
           [stage |-> IF r.pc = "snapshot" THEN "taken" ELSE "sent", item |-> r.item,
            todo |-> QueuesOf(r.todo, queueOf),
            full |-> IF r.pc = "full" THEN {queueOf[d]} ELSE {}]
<1>1. r.todo \subseteq Nat
  BY DEF Publisher
<1>2. {e \in r.todo: r.pc = "full" /\ IsLeast(e, r.todo)} = IF r.pc = "full" THEN {d} ELSE {}
  BY <1>1 DEF IsLeast
<1>3. QueuesOf({d}, queueOf) = {queueOf[d]} /\ QueuesOf({}, queueOf) = {}
  BY DEF QueuesOf
<1> QED BY <1>2, <1>3 DEF Worker

LEMMA FindFullStep ==
  ASSUME TypeOK, ReaderInv, TargetsInv, NEW p \in DOMAIN procs, NEW d \in procs[p].todo,
         PutTimesOut(p, d)
  PROVE  /\ TargetsInv' /\ queueOf[d] \in Hands[Source(p)].todo
         /\ Abstract!FindFull(Source(p), queueOf[d])
<1>1. procs[p] \in Publisher /\ TargetsOK(procs[p]) /\ Source(p) \in Queues
  BY PublisherIsTyped DEF TargetsInv
<1>2. /\ procs[p].pc = "put" /\ Alive(p) /\ UNCHANGED <<registry, log, head, broken>>
      /\ ~HasRoom(queueOf[d]) /\ IsLeast(d, procs[p].todo)
  BY DEF PutTimesOut, Trying, At, Alive, queueVars
<1>3. PICK r \in Publisher:
        /\ Turns(p, r) /\ r.pc = "full" /\ r.src = procs[p].src
        /\ r.item = procs[p].item /\ r.todo = procs[p].todo /\ r.copy = procs[p].copy
  BY <1>1, MoveState DEF PutTimesOut, PublisherPcs
<1>4. /\ TargetsInv' /\ Hands[Source(p)] = Worker(procs[p], queueOf)
      /\ Hands' = [Hands EXCEPT ![Source(p)] = Worker(r, queueOf)]
  BY <1>1, <1>2, <1>3, PublisherStep DEF Busy, TargetsOK
<1> DEFINE todo == QueuesOf(procs[p].todo, queueOf)
           before == [stage |-> "sent", item |-> procs[p].item, todo |-> todo, full |-> {}]
           after  == [before EXCEPT !.full = {queueOf[d]}]
<1>5. Worker(procs[p], queueOf) = before /\ queueOf[d] \in todo
  BY <1>1, <1>2, FoundFull DEF QueuesOf
<1>6. Worker(r, queueOf) = after
  BY <1>2, <1>3, FoundFull
<1>7. before.todo = todo /\ before.full = {}
  OBVIOUS
<1> HIDE DEF before, todo
<1> QED BY <1>2, <1>4, <1>5, <1>6, <1>7
        DEF HasRoom, Abstract!FindFull, Abstract!HasRoom, Abstract!Becomes

\* Trying again is a step of the worker only if it has found something full.
LEMMA TryAgainStep ==
  ASSUME TypeOK, ReaderInv, TargetsInv, NEW p \in DOMAIN procs, PutAgain(p)
  PROVE  /\ TargetsInv'
         /\ UNCHANGED Abstract!vars \/ Abstract!TryAgain(Source(p))
<1>1. procs[p] \in Publisher /\ TargetsOK(procs[p]) /\ Source(p) \in Queues
  BY PublisherIsTyped DEF TargetsInv
<1>2. procs[p].pc = "full" /\ Alive(p) /\ UNCHANGED <<registry, log, head, broken>>
  BY DEF PutAgain, At, Alive, queueVars
<1>3. PICK r \in Publisher:
        /\ Turns(p, r) /\ r.pc = "put" /\ r.src = procs[p].src
        /\ r.item = procs[p].item /\ r.todo = procs[p].todo /\ r.copy = procs[p].copy
  BY <1>1, MoveState DEF PutAgain, PublisherPcs
<1>4. /\ TargetsInv' /\ Hands[Source(p)] = Worker(procs[p], queueOf)
      /\ Hands' = [Hands EXCEPT ![Source(p)] = Worker(r, queueOf)]
  BY <1>1, <1>2, <1>3, PublisherStep DEF Busy, TargetsOK
<1> DEFINE worker == Worker(procs[p], queueOf)
<1>5. Worker(r, queueOf) = [worker EXCEPT !.full = {}]
  <2>1. Worker(r, queueOf) = Abstract!Sending(procs[p].item, QueuesOf(procs[p].todo, queueOf))
    BY <1>3, WorkerIs
  <2>2. [worker EXCEPT !.full = {}]
          = [stage |-> "sent", item |-> procs[p].item,
             todo |-> QueuesOf(procs[p].todo, queueOf), full |-> {}]
    <3> DEFINE full == QueuesOf({d \in procs[p].todo: procs[p].pc = "full"
                                                       /\ IsLeast(d, procs[p].todo)}, queueOf)
    <3>1. worker = [stage |-> "sent", item |-> procs[p].item,
                    todo |-> QueuesOf(procs[p].todo, queueOf), full |-> full]
      BY <1>2 DEF Worker
    <3> HIDE DEF full, worker
    <3> QED BY <3>1
  <2> QED BY <2>1, <2>2 DEF Abstract!Sending
<1>6. CASE worker.full # {}
  BY <1>2, <1>4, <1>5, <1>6 DEF Abstract!TryAgain, Abstract!Becomes
<1>7. CASE worker.full = {}
  <2>1. [worker EXCEPT !.full = {}] = worker
    BY <1>7 DEF Worker
  <2>2. Hands' = Hands
    BY <1>1, <1>4, <1>5, <2>1 DEF Hands
  <2> QED BY <1>2, <1>4, <2>2 DEF Abstract!vars
<1> QED BY <1>4, <1>6, <1>7

LEMMA LeaveOutStep ==
  ASSUME TypeOK, ReaderInv, TargetsInv, NEW p \in DOMAIN procs, NEW d \in procs[p].todo,
         Abandon(p, d)
  PROVE  /\ TargetsInv' /\ queueOf[d] \in Hands[Source(p)].todo
         /\ Abstract!LeaveOut(Source(p), queueOf[d])
<1>1. procs[p] \in Publisher /\ TargetsOK(procs[p]) /\ Source(p) \in Queues
  BY PublisherIsTyped DEF TargetsInv
<1>2. /\ procs[p].pc = "full" /\ Alive(p) /\ UNCHANGED <<registry, log, head, broken>>
      /\ IsLeast(d, procs[p].todo)
  BY DEF Abandon, At, Alive, queueVars
<1> DEFINE rest == procs[p].todo \ {d}
           given == procs[p].undelivered \cup {d}
<1>3. Turns(p, [procs[p] EXCEPT !.pc = "put", !.todo = rest, !.undelivered = given])
  BY DEF Abandon
<1>4. /\ rest \subseteq Nat /\ given \subseteq Nat /\ DistinctIn(rest)
      /\ QueuesOf(rest, queueOf) = QueuesOf(procs[p].todo, queueOf) \ {queueOf[d]}
      /\ queueOf[d] \in QueuesOf(procs[p].todo, queueOf)
  BY <1>1, FewerTargets DEF TargetsOK, Publisher
<1> HIDE DEF rest, given
<1>5. PICK r \in Publisher:
        /\ Turns(p, r) /\ r.pc = "put" /\ r.src = procs[p].src
        /\ r.item = procs[p].item /\ r.todo = rest /\ r.copy = procs[p].copy
  <2> DEFINE r == [procs[p] EXCEPT !.pc = "put", !.todo = rest, !.undelivered = given]
  <2>1. /\ r \in Publisher /\ r.pc = "put" /\ r.src = procs[p].src
        /\ r.item = procs[p].item /\ r.todo = rest /\ r.copy = procs[p].copy
    BY <1>1, <1>4 DEF Publisher, PublisherPcs
  <2> QED BY <1>3, <2>1
<1>6. /\ TargetsInv' /\ Hands[Source(p)] = Worker(procs[p], queueOf)
      /\ Hands' = [Hands EXCEPT ![Source(p)] = Worker(r, queueOf)]
  BY <1>1, <1>2, <1>4, <1>5, PublisherStep DEF Busy
<1>7. Worker(r, queueOf) = Abstract!Sending(procs[p].item, QueuesOf(rest, queueOf))
  BY <1>5, WorkerIs
<1>8. /\ Hands[Source(p)].item = procs[p].item
      /\ Hands[Source(p)].todo = QueuesOf(procs[p].todo, queueOf)
      /\ queueOf[d] \in Hands[Source(p)].full
  BY <1>1, <1>2, <1>6, FoundFull
<1> QED BY <1>2, <1>4, <1>6, <1>7, <1>8 DEF Abstract!LeaveOut, Abstract!Becomes

LEMMA FinishStep ==
  ASSUME TypeOK, ReaderInv, TargetsInv, NEW p \in DOMAIN procs, FinishItem(p)
  PROVE  TargetsInv' /\ Abstract!Finish(Source(p))
<1>1. procs[p] \in Publisher /\ TargetsOK(procs[p]) /\ Source(p) \in Queues
  BY PublisherIsTyped DEF TargetsInv
<1>2. /\ procs[p].pc = "put" /\ procs[p].todo = {} /\ Alive(p)
      /\ UNCHANGED <<registry, log, head, broken>>
  BY DEF FinishItem, At, Alive
<1>3. PICK r \in Publisher:
        /\ Turns(p, r) /\ r.pc \in {"check", "dead"} /\ r.src = procs[p].src
        /\ r.todo = {} /\ r.copy = procs[p].copy
  <2> DEFINE r == [procs[p] EXCEPT !.pc = "check", !.item = NoItem]
  <2>1. CASE Exit(p)
    BY <1>1, <2>1, ExitState
  <2>2. CASE Turns(p, r)
    <3>1. /\ r \in Publisher /\ r.pc = "check" /\ r.src = procs[p].src
          /\ r.todo = {} /\ r.copy = procs[p].copy
      BY <1>1, <1>2 DEF Publisher, PublisherPcs
    <3> QED BY <2>2, <3>1
  <2> QED BY <2>1, <2>2 DEF FinishItem
<1>4. /\ TargetsInv' /\ Hands[Source(p)] = Worker(procs[p], queueOf)
      /\ Hands' = [Hands EXCEPT ![Source(p)] = Resting]
  BY <1>1, <1>2, <1>3, PublisherStep DEF Busy, DistinctIn
<1>5. Hands[Source(p)].stage = "sent" /\ Hands[Source(p)].todo = {}
  <2>1. /\ Hands[Source(p)].stage = "sent"
        /\ Hands[Source(p)].todo = QueuesOf(procs[p].todo, queueOf)
    BY <1>2, <1>4, WorkerIs
  <2> QED BY <1>2, <2>1 DEF QueuesOf
<1> QED BY <1>2, <1>4, <1>5 DEF Resting, Abstract!Finish, Abstract!Becomes, Abstract!Free

LEMMA FailStep ==
  ASSUME TypeOK, ReaderInv, TargetsInv, NEW p \in DOMAIN procs, NEW d \in procs[p].todo,
         PutBreaks(p, d)
  PROVE  /\ TargetsInv' /\ queueOf[d] \in Hands[Source(p)].todo
         /\ Abstract!Fail(Source(p), queueOf[d])
<1>1. procs[p] \in Publisher /\ TargetsOK(procs[p]) /\ Source(p) \in Queues
  BY PublisherIsTyped DEF TargetsInv
<1>2. /\ procs[p].pc = "put" /\ Alive(p) /\ queueOf[d] \in broken
      /\ UNCHANGED <<registry, log, head, broken>>
  BY DEF PutBreaks, Trying, At, Alive, queueVars
<1>3. PICK r \in Publisher:
        /\ Turns(p, r) /\ r.pc = "dead" /\ r.src = procs[p].src
        /\ r.todo = {} /\ r.copy = procs[p].copy
  BY <1>1, ExitState DEF PutBreaks
<1>4. /\ TargetsInv' /\ Hands[Source(p)] = Worker(procs[p], queueOf)
      /\ Hands' = [Hands EXCEPT ![Source(p)] = Resting]
  BY <1>1, <1>2, <1>3, PublisherStep DEF Busy, DistinctIn
<1>5. queueOf[d] \in Hands[Source(p)].todo
  <2>1. Hands[Source(p)].todo = QueuesOf(procs[p].todo, queueOf)
    BY <1>4, WorkerIs
  <2> QED BY <2>1 DEF QueuesOf
<1> QED BY <1>2, <1>4, <1>5 DEF Resting, Abstract!Fail, Abstract!Becomes, Abstract!Free

-----------------------------------------------------------------------------
(* The steps of calls and of the application *)

\* The publishers there were, and those that have been started, keep their targets.
LEMMA TargetsKept ==
  ASSUME TypeOK, TargetsInv, QueuesKept, PublishersKept,
         \A p \in DOMAIN procs' \ DOMAIN procs: TargetsOK(procs[p])'
  PROVE  TargetsInv'
<1> SUFFICES ASSUME NEW p \in DOMAIN procs PROVE TargetsOK(procs[p])'
  BY DEF TargetsInv
<1>1. procs[p].todo \subseteq Ids /\ procs[p].copy \subseteq Ids
  BY PublisherIsTyped DEF PublisherOK
<1>2. TargetsOK(procs[p]) /\ procs'[p] = procs[p]
  BY DEF TargetsInv, PublishersKept
<1> QED BY <1>1, <1>2 DEF TargetsOK, DistinctIn, QueuesKept

\* A step that starts no publisher and gives out no id.
LEMMA NoPublisherStep ==
  ASSUME TypeOK, TargetsInv, UNCHANGED <<queueOf, procs>>
  PROVE  TargetsInv' /\ Hands' = Hands
<1>1. QueuesKept /\ PublishersKept
  BY DEF QueuesKept, PublishersKept, Ids
<1> QED BY <1>1, HandsKept, TargetsKept

LEMMA RegisterStep ==
  ASSUME TypeOK, TargetsInv, NEW c \in Callers, NEW call \in CallsOf(c), Register(c, call)
  PROVE  TargetsInv' /\ Hands' = Hands
<1>1. UNCHANGED procs /\ (queueOf' = queueOf \/ queueOf' = Append(queueOf, call.q))
  BY DEF Register
<1>2. CASE queueOf' = queueOf
  BY <1>1, <1>2, NoPublisherStep
<1>3. CASE queueOf' = Append(queueOf, call.q)
  <2>1. /\ queueOf \in Seq(Queues) /\ call.q \in Queues /\ Len(queueOf) \in Nat
    BY CallIsTyped DEF TypeOK, RegistryType, Register
  <2>2. /\ Len(queueOf') = Len(queueOf) + 1
        /\ \A i \in 1..Len(queueOf): queueOf'[i] = queueOf[i]
    BY <1>3, <2>1, AppendProperties
  <2>3. QueuesKept /\ PublishersKept
    BY <1>1, <2>1, <2>2 DEF QueuesKept, PublishersKept, Ids
  <2> QED BY <1>1, <2>3, HandsKept, TargetsKept
<1> QED BY <1>1, <1>2, <1>3

LEMMA StartStep ==
  ASSUME TypeOK, ReaderInv, TargetsInv, NEW c \in Callers, StartPublisher(c)
  PROVE  TargetsInv' /\ Hands' = Hands
<1> DEFINE id == local[c].cur
<1>1. UNCHANGED queueOf /\ (procs' = procs \/ procs' = Append(procs, NewPublisher(id)))
  BY DEF StartPublisher
<1>2. CASE procs' = procs
  BY <1>1, <1>2, NoPublisherStep
<1>3. CASE procs' = Append(procs, NewPublisher(id))
  <2>1. id \in Ids
    BY LocalIsTyped DEF StartPublisher, CallerOK, AtSource
  <2>2. /\ DOMAIN procs \subseteq DOMAIN procs'
        /\ \A p \in DOMAIN procs: procs'[p] = procs[p]
        /\ procs'[Len(procs) + 1] = NewPublisher(id) /\ Len(procs') = Len(procs) + 1
    BY <1>1, <1>3, <2>1, NewPublisherType
  <2>3. DOMAIN procs' \ DOMAIN procs \subseteq {Len(procs) + 1}
    BY <1>3, <2>2 DEF TypeOK, PublishersType
  <2>4. /\ NewPublisher(id).pc = "check" /\ NewPublisher(id).todo = {}
        /\ NewPublisher(id).copy \in {{}, destinations}
    BY DEF NewPublisher
  <2>5. QueuesKept /\ PublishersKept
    BY <1>1, <2>2, <2>3, <2>4 DEF QueuesKept, PublishersKept, Ids, Busy
  <2>6. \A i, j \in destinations: queueOf'[i] = queueOf'[j] => i = j
    BY <1>1 DEF ReaderInv, DistinctQueues
  <2>7. \A p \in DOMAIN procs' \ DOMAIN procs: TargetsOK(procs[p])'
    BY <2>2, <2>3, <2>4, <2>6 DEF TargetsOK, DistinctIn
  <2> QED BY <2>5, <2>7, HandsKept, TargetsKept
<1> QED BY <1>1, <1>2, <1>3

\* An audit takes an item; a queue without an id has none.
LEMMA AuditStep ==
  ASSUME TypeOK, TargetsInv, NEW c \in Callers, AuditQueue(c)
  PROVE  TargetsInv' /\ (UNCHANGED Abstract!vars \/ \E q \in Queues: Abstract!Remove(q))
<1>1. UNCHANGED <<queueOf, procs, log, broken>>
  BY DEF AuditQueue, registry
<1>2. TargetsInv' /\ Hands' = Hands
  BY <1>1, NoPublisherStep
<1>3. CASE UNCHANGED head
  BY <1>1, <1>2, <1>3 DEF Abstract!vars
<1>4. CASE \E q: Unread(q) /\ q \notin broken /\ head' = [head EXCEPT ![q] = @ + 1]
  <2>1. PICK q: Unread(q) /\ q \notin broken /\ head' = [head EXCEPT ![q] = @ + 1]
    BY <1>4
  <2>2. CASE q \in Queues
    BY <1>1, <1>2, <2>1, <2>2 DEF Unread, Abstract!Remove, Abstract!Unread
  <2>3. CASE q \notin Queues
    <3>1. head' = head
      BY <2>1, <2>3 DEF TypeOK, QueuesType
    <3> QED BY <1>1, <1>2, <3>1 DEF Abstract!vars
  <2> QED BY <2>2, <2>3
<1> QED BY <1>2, <1>3, <1>4 DEF AuditQueue

LEMMA CallerStep ==
  ASSUME TypeOK, ReaderInv, TargetsInv, NEW c \in Callers, BeginCall(c) \/ ContinueCall(c)
  PROVE  TargetsInv' /\ (UNCHANGED Abstract!vars \/ \E q \in Queues: Abstract!Remove(q))
<1>1. ASSUME TargetsInv' /\ Hands' = Hands, UNCHANGED queueVars
      PROVE  TargetsInv' /\ UNCHANGED Abstract!vars
  BY <1>1 DEF queueVars, Abstract!vars
<1>2. ASSUME NEW call \in CallsOf(c), Register(c, call)
      PROVE  TargetsInv' /\ UNCHANGED Abstract!vars
  BY <1>1, <1>2, RegisterStep DEF Register
<1>3. ASSUME NEW call \in CallsOf(c),
             Unregister(c, call) \/ Stop(c, call) \/ IsDrained(c, call) \/ Audit(c, call)
      PROVE  TargetsInv' /\ UNCHANGED Abstract!vars
  BY <1>1, <1>3, NoPublisherStep DEF Unregister, Stop, IsDrained, Audit, registry
<1>4. CASE NextToStop(c) \/ SetStop(c) \/ FetchPublisher(c) \/ JoinPublisher(c)
             \/ ClearStop(c) \/ ForgetStop(c)
  BY <1>1, <1>4, NoPublisherStep
  DEF NextToStop, SetStop, FetchPublisher, JoinPublisher, ClearStop, ForgetStop, registry
<1>5. CASE CreateStop(c) \/ NextToStart(c) \/ StorePublisher(c) \/ LookAtQueue(c)
  BY <1>1, <1>5, NoPublisherStep
  DEF CreateStop, NextToStart, StorePublisher, LookAtQueue, registry
<1>6. CASE StartPublisher(c)
  BY <1>1, <1>6, StartStep DEF StartPublisher
<1>7. CASE AuditQueue(c)
  BY <1>7, AuditStep
<1> QED BY <1>2, <1>3, <1>4, <1>5, <1>6, <1>7 DEF BeginCall, ContinueCall

LEMMA ApplicationStep ==
  ASSUME TypeOK, TargetsInv, NEW q \in Queues, Produce(q) \/ Consume(q) \/ Break(q)
  PROVE  TargetsInv' /\ (Abstract!Produce(q) \/ Abstract!Remove(q) \/ Abstract!Break(q))
<1>1. TargetsInv' /\ Hands' = Hands
  BY NoPublisherStep DEF Produce, Consume, Break, registry
<1>2. CASE Produce(q)
  BY <1>1, <1>2
  DEF Produce, HasRoom, Abstract!Produce, Abstract!HasRoom, Abstract!Own,
      Cardinality, Abstract!Cardinality
<1>3. CASE Consume(q)
  BY <1>1, <1>3 DEF Consume, Unread, Abstract!Remove, Abstract!Unread
<1>4. CASE Break(q)
  BY <1>1, <1>4 DEF Break, Abstract!Break
<1> QED BY <1>1, <1>2, <1>3, <1>4

LEMMA PublishStep ==
  ASSUME TypeOK, ReaderInv, TargetsInv, NEW p \in DOMAIN procs, Publish(p)
  PROVE  TargetsInv' /\ (UNCHANGED Abstract!vars \/ Abstract!Next)
<1>1. Source(p) \in Queues
  BY PublisherIsTyped
<1>2. CASE CheckStop(p) \/ GetEmpty(p)
  BY <1>2, RestStep
<1>3. CASE GetItem(p)
  BY <1>1, <1>3, TakeStep DEF Abstract!Next
<1>4. CASE Snapshot(p)
  BY <1>1, <1>4, AddressStep DEF Abstract!Next
<1>5. CASE PutAgain(p)
  BY <1>1, <1>5, TryAgainStep DEF Abstract!Next
<1>6. CASE FinishItem(p)
  BY <1>1, <1>6, FinishStep DEF Abstract!Next
<1>7. ASSUME NEW d \in procs[p].todo,
             Put(p, d) \/ PutTimesOut(p, d) \/ Abandon(p, d) \/ PutBreaks(p, d)
      PROVE  TargetsInv' /\ Abstract!Next
  BY <1>1, <1>7, DeliverStep, FindFullStep, LeaveOutStep, FailStep DEF Abstract!Next
<1> QED BY <1>2, <1>3, <1>4, <1>5, <1>6, <1>7 DEF Publish

-----------------------------------------------------------------------------
(* The theorem *)

LEMMA FanOutInit == Init => Abstract!Init
<1> SUFFICES ASSUME Init PROVE Abstract!Init
  OBVIOUS
<1>1. \A q \in Queues: WorkerOf(q) = Abstract!Free
  BY DEF Init, WorkerOf, BusyReaders, Resting, Abstract!Free
<1> QED BY <1>1 DEF Init, Hands, Abstract!Init

LEMMA FanOutNext ==
  TypeOK /\ ReaderInv /\ TargetsInv /\ [Next]_vars => TargetsInv' /\ [Abstract!Next]_Abstract!vars
<1> SUFFICES ASSUME TypeOK, ReaderInv, TargetsInv, [Next]_vars
             PROVE  TargetsInv' /\ (Abstract!Next \/ UNCHANGED Abstract!vars)
  OBVIOUS
<1>1. ASSUME NEW c \in Callers, BeginCall(c) \/ ContinueCall(c)
      PROVE  TargetsInv' /\ (Abstract!Next \/ UNCHANGED Abstract!vars)
  BY <1>1, CallerStep DEF Abstract!Next
<1>2. ASSUME NEW p \in DOMAIN procs, Publish(p)
      PROVE  TargetsInv' /\ (Abstract!Next \/ UNCHANGED Abstract!vars)
  BY <1>2, PublishStep
<1>3. ASSUME NEW q \in Queues, Produce(q) \/ Consume(q) \/ Break(q)
      PROVE  TargetsInv' /\ (Abstract!Next \/ UNCHANGED Abstract!vars)
  BY <1>3, ApplicationStep DEF Abstract!Next
<1>4. CASE UNCHANGED vars
  <2>1. UNCHANGED <<queueOf, procs, log, head, broken>>
    BY <1>4 DEF vars, registry, queueVars
  <2> QED BY <2>1, NoPublisherStep DEF Abstract!vars
<1> QED BY <1>1, <1>2, <1>3, <1>4 DEF Next

\* Seen from its queues, a QueueLink is one worker per source that takes its items
\* one after another and puts each once on every destination it was addressed to,
\* or leaves it out after finding it full: no register_queue, unregister_queue, stop
\* or audit, by any number of threads, at any point, shows in the queues as anything
\* else.
THEOREM Implements == Spec => ImplementsFanOut
<1>1. Init => Abstract!Init /\ TargetsInv
  BY FanOutInit, TargetsInit
<1>2. Spec => [](TypeOK /\ ReaderInv)
  BY TypeCorrect, ReaderInvariant, PTL
<1> QED BY <1>1, <1>2, FanOutNext, PTL DEF Spec, ImplementsFanOut, Abstract!Spec


-----------------------------------------------------------------------------
(* In order, and once *)

UsedAs(q, dir) ==
  \E c \in Callers: \E k \in DOMAIN Program[c]: \E call \in Program[c][k]:
    call.op = "register" /\ call.dir = dir /\ call.q = q

\* No program registers a queue as a source and, at another time, as a destination. (At
\* the same time register_queue refuses it.)
SeparateRoles == \A q \in Queues: ~(UsedAs(q, "source") /\ UsedAs(q, "destination"))

\* Publishers read what was registered as a source, and put on what was as a destination.
RolesInv ==
  /\ \A i \in sources: UsedAs(queueOf[i], "source")
  /\ \A i \in destinations: UsedAs(queueOf[i], "destination")
  /\ \A p \in DOMAIN procs: /\ UsedAs(Source(p), "source")
                            /\ \A d \in procs[p].todo \cup procs[p].copy: UsedAs(queueOf[d], "destination")

\* The items on d that the application put on s.
Before(d, s, n) == \A i \in DOMAIN log[d]: log[d][i].from = s => log[d][i].n < n

\* An item somewhere else than where it was put has been taken from there.
Taken(item) == \E j \in 1..head[item.from]: log[item.from][j] = item

\* What a worker of s holds has been taken from there, and comes after all that it has put where
\* it is yet to go.
HandOrder(s, w) ==
  /\ w.stage # "free" => w.item.from = s /\ Taken(w.item)
  /\ w.stage = "taken" => \A d \in Queues \ {s}: Before(d, s, w.item.n)
  /\ \A d \in w.todo: Before(d, s, w.item.n)

\* The application numbers its items, and nothing is passed on that was passed on before.
RouteInv ==
  /\ InOrderOnce
  /\ \A q \in Queues: Before(q, q, Cardinality(Abstract!Own(q)) + 1)
  /\ \A q \in Queues: \A i \in DOMAIN log[q]:
       log[q][i].from # q => Taken(log[q][i]) /\ ~UsedAs(q, "source")
  /\ \A s \in Queues: HandOrder(s, Hands[s])

LEMMA RolesInit == Init => RolesInv
BY DEF Init, RolesInv

\* What a publisher that makes a step has to do afterwards, it had to do, or it knows.
LEMMA TurnRoles ==
  ASSUME TypeOK, RolesInv, NEW p \in DOMAIN procs, NEW r, Turns(p, r), UNCHANGED registry,
         r.src = procs[p].src, r.copy = procs[p].copy,
         r.todo \subseteq procs[p].todo \cup procs[p].copy \cup destinations
  PROVE  RolesInv'
<1>1. UNCHANGED <<queueOf, sources, destinations>>
  BY DEF registry
<1>2. /\ DOMAIN procs' = DOMAIN procs /\ procs'[p] = r
      /\ \A o \in DOMAIN procs: o # p => procs'[o] = procs[o]
  BY DEF Turns
<1>3. ASSUME NEW o \in DOMAIN procs
      PROVE  /\ UsedAs(Source(o)', "source")
             /\ \A d \in procs'[o].todo \cup procs'[o].copy: UsedAs(queueOf'[d], "destination")
  <2>1. CASE o = p
    BY <1>1, <1>2, <2>1 DEF RolesInv, Source
  <2>2. CASE o # p
    BY <1>1, <1>2, <2>2 DEF RolesInv, Source
  <2> QED BY <2>1, <2>2
<1> QED BY <1>1, <1>2, <1>3 DEF RolesInv, UsedAs

LEMMA PublishRoles ==
  ASSUME TypeOK, RolesInv, NEW p \in DOMAIN procs, Publish(p)
  PROVE  RolesInv'
<1>0. procs[p] \in Publisher
  BY PublisherIsTyped
<1>1. ASSUME NEW pc, Move(p, pc), UNCHANGED registry PROVE RolesInv'
  BY <1>0, <1>1, TurnRoles DEF Move, Publisher
<1>2. ASSUME Exit(p), UNCHANGED registry PROVE RolesInv'
  BY <1>0, <1>2, TurnRoles DEF Exit, Publisher
<1>3. CASE CheckStop(p) \/ GetEmpty(p) \/ PutAgain(p)
  BY <1>1, <1>2, <1>3 DEF CheckStop, GetEmpty, PutAgain
<1>4. CASE GetItem(p)
  BY <1>0, <1>4, TurnRoles DEF GetItem, Publisher
<1>5. CASE Snapshot(p)
  BY <1>0, <1>5, TurnRoles DEF Snapshot, DestQueues, Publisher
<1>6. CASE FinishItem(p)
  <2>1. CASE Exit(p)
    BY <1>2, <1>6, <2>1 DEF FinishItem
  <2>2. CASE Turns(p, [procs[p] EXCEPT !.pc = "check", !.item = NoItem])
    BY <1>0, <1>6, <2>2, TurnRoles DEF FinishItem, Publisher
  <2> QED BY <1>6, <2>1, <2>2 DEF FinishItem
<1>7. ASSUME NEW d \in procs[p].todo, Put(p, d) \/ Abandon(p, d) PROVE RolesInv'
  BY <1>0, <1>7, TurnRoles DEF Put, Abandon, Publisher
<1>8. ASSUME NEW d \in procs[p].todo, PutTimesOut(p, d) \/ PutBreaks(p, d) PROVE RolesInv'
  BY <1>1, <1>2, <1>8 DEF PutTimesOut, PutBreaks
<1> QED BY <1>3, <1>4, <1>5, <1>6, <1>7, <1>8 DEF Publish

\* A step that gives out no id and starts no publisher.
LEMMA RolesKept ==
  ASSUME RolesInv, UNCHANGED <<queueOf, procs>>, sources' \subseteq sources,
         destinations' \subseteq destinations
  PROVE  RolesInv'
BY DEF RolesInv, UsedAs, Source

LEMMA RegisterRoles ==
  ASSUME TypeOK, RolesInv, NEW c \in Callers, NEW call \in CallsOf(c), Register(c, call)
  PROVE  RolesInv'
<1>1. CASE UNCHANGED <<queueOf, sources, destinations>>
  BY <1>1, RolesKept DEF Register
<1>2. CASE queueOf' = Append(queueOf, call.q)
  <2> DEFINE id == Len(queueOf) + 1
  <2>1. queueOf \in Seq(Queues) /\ call.q \in Queues /\ Len(queueOf) \in Nat
    BY CallIsTyped DEF TypeOK, RegistryType, Register
  <2>2. /\ queueOf'[id] = call.q
        /\ \A i \in Ids: queueOf'[i] = queueOf[i]
    BY <1>2, <2>1, AppendProperties DEF Ids
  <2>3. UsedAs(call.q, call.dir)
    <3>1. local[c].made + 1 \in DOMAIN Program[c] /\ call \in Program[c][local[c].made + 1]
      <4>1. local[c].made < Len(Program[c]) /\ call \in Program[c][local[c].made + 1]
        BY DEF CallsOf
      <4>2. Program[c] \in Seq(SUBSET Call) /\ local[c].made \in Nat
        BY ProgramAssumption, LocalIsTyped
      <4> QED BY <4>1, <4>2, LenProperties
    <3>2. call.op = "register"
      BY DEF Register
    <3> QED BY <3>1, <3>2 DEF UsedAs
  <2>4. /\ procs' = procs /\ sources \subseteq Ids /\ destinations \subseteq Ids
        /\ \A p \in DOMAIN procs: /\ procs[p].src \in Ids /\ procs[p].todo \subseteq Ids
                                  /\ procs[p].copy \subseteq Ids
    BY PublisherIsTyped DEF Register, TypeOK, RegistryType, PublisherOK
  <2>5. \/ call.dir = "source" /\ sources' = sources \cup {id} /\ destinations' = destinations
        \/ call.dir = "destination" /\ destinations' = destinations \cup {id} /\ sources' = sources
    <3>1. queueOf' # queueOf
      BY <1>2, <2>1, AppendProperties
    <3> QED BY <3>1 DEF Register
  <2> HIDE DEF id
  <2>6. \A i \in sources': UsedAs(queueOf'[i], "source")
    BY <2>2, <2>3, <2>4, <2>5 DEF RolesInv
  <2>7. \A i \in destinations': UsedAs(queueOf'[i], "destination")
    BY <2>2, <2>3, <2>4, <2>5 DEF RolesInv
  <2>8. \A p \in DOMAIN procs: /\ UsedAs(queueOf'[procs[p].src], "source")
                               /\ \A d \in procs[p].todo \cup procs[p].copy:
                                    UsedAs(queueOf'[d], "destination")
    BY <2>2, <2>4 DEF RolesInv, Source
  <2> QED BY <2>4, <2>6, <2>7, <2>8 DEF RolesInv, Source, UsedAs
<1> QED BY <1>1, <1>2 DEF Register

LEMMA StartRoles ==
  ASSUME TypeOK, ReaderInv, RolesInv, NEW c \in Callers, StartPublisher(c)
  PROVE  RolesInv'
<1> DEFINE id == local[c].cur
<1>1. /\ UNCHANGED queueOf /\ UNCHANGED sources /\ UNCHANGED destinations
      /\ procs' = procs \/ procs' = Append(procs, NewPublisher(id))
  <2>1. UNCHANGED queueOf /\ UNCHANGED sources /\ UNCHANGED destinations
    BY DEF StartPublisher
  <2>2. procs' = procs \/ procs' = Append(procs, NewPublisher(id))
    BY DEF StartPublisher
  <2> QED BY <2>1, <2>2
<1>2. CASE procs' = procs
  BY <1>1, <1>2, RolesKept
<1>3. CASE procs' = Append(procs, NewPublisher(id))
  <2>1. id \in Ids /\ id \in sources
    <3>1. local[c].pc = "start"
      BY DEF StartPublisher
    <3>2. id \in Ids
      BY <3>1, LocalIsTyped DEF CallerOK, AtSource
    <3> QED BY <3>1, <3>2 DEF ReaderInv, StartsAtSource
  <2>2. /\ \A p \in DOMAIN procs: procs'[p] = procs[p]
        /\ procs'[Len(procs) + 1] = NewPublisher(id) /\ Len(procs') = Len(procs) + 1
    BY <1>1, <1>3, <2>1, NewPublisherType
  <2>3. DOMAIN procs' \subseteq DOMAIN procs \cup {Len(procs) + 1}
    BY <1>3, <2>2 DEF TypeOK, PublishersType
  <2>4. /\ NewPublisher(id).src = id /\ NewPublisher(id).todo = {}
        /\ NewPublisher(id).copy \subseteq destinations
    BY DEF NewPublisher
  <2>5. /\ UsedAs(queueOf[id], "source")
        /\ \A d \in NewPublisher(id).todo \cup NewPublisher(id).copy: UsedAs(queueOf[d], "destination")
    BY <2>1, <2>4 DEF RolesInv
  <2>6. ASSUME NEW p \in DOMAIN procs'
        PROVE  /\ UsedAs(queueOf[procs'[p].src], "source")
               /\ \A d \in procs'[p].todo \cup procs'[p].copy: UsedAs(queueOf[d], "destination")
    <3>1. CASE p \in DOMAIN procs
      BY <2>2, <3>1 DEF RolesInv, Source
    <3>2. CASE p = Len(procs) + 1
      BY <2>2, <2>4, <2>5, <3>2
    <3> QED BY <2>3, <3>1, <3>2
  <2> QED BY <1>1, <2>6 DEF RolesInv, Source, UsedAs
<1> QED BY <1>1, <1>2, <1>3

LEMMA RolesNext == TypeOK /\ ReaderInv /\ RolesInv /\ [Next]_vars => RolesInv'
<1> SUFFICES ASSUME TypeOK, ReaderInv, RolesInv, [Next]_vars PROVE RolesInv'
  OBVIOUS
<1>1. ASSUME NEW c \in Callers, BeginCall(c) PROVE RolesInv'
  <2>1. PICK call \in CallsOf(c): \/ Register(c, call) \/ Unregister(c, call) \/ Stop(c, call)
                                  \/ IsDrained(c, call) \/ Audit(c, call)
    BY <1>1 DEF BeginCall
  <2>2. CASE Unregister(c, call)
    BY <2>2, RolesKept DEF Unregister
  <2> QED BY <2>1, <2>2, RegisterRoles, RolesKept DEF Stop, IsDrained, Audit, registry
<1>2. ASSUME NEW c \in Callers, ContinueCall(c) PROVE RolesInv'
  <2>1. CASE StartPublisher(c)
    BY <2>1, StartRoles
  <2>2. CASE \/ NextToStop(c) \/ SetStop(c) \/ FetchPublisher(c) \/ JoinPublisher(c)
             \/ ClearStop(c) \/ ForgetStop(c)
    BY <2>2, RolesKept
    DEF NextToStop, SetStop, FetchPublisher, JoinPublisher, ClearStop, ForgetStop, registry
  <2>3. CASE CreateStop(c) \/ NextToStart(c) \/ StorePublisher(c) \/ LookAtQueue(c)
    <3>1. UNCHANGED <<queueOf, sources, destinations, procs>>
      BY <2>3 DEF CreateStop, NextToStart, StorePublisher, LookAtQueue, registry
    <3> QED BY <3>1, RolesKept
  <2>4. CASE AuditQueue(c)
    <3>1. UNCHANGED <<registry, procs>>
      BY <2>4 DEF AuditQueue
    <3> QED BY <3>1, RolesKept DEF registry
  <2> QED BY <1>2, <2>4, <2>1, <2>2, <2>3 DEF ContinueCall
<1>3. ASSUME NEW p \in DOMAIN procs, Publish(p) PROVE RolesInv'
  BY <1>3, PublishRoles
<1>4. ASSUME NEW q \in Queues, Produce(q) \/ Consume(q) \/ Break(q) PROVE RolesInv'
  BY <1>4, RolesKept DEF Produce, Consume, Break, registry
<1>5. CASE UNCHANGED vars
  BY <1>5, RolesKept DEF vars, registry
<1> QED BY <1>1, <1>2, <1>3, <1>4, <1>5 DEF Next

\* The worker of a queue is at work only on a source, and puts only on destinations.
LEMMA HandRoles ==
  ASSUME TypeOK, RolesInv, NEW q \in Queues
  PROVE  /\ Hands[q].stage = "free" => Hands[q] = Resting
         /\ Hands[q].stage # "free" => UsedAs(q, "source")
         /\ \A d \in Hands[q].todo: d \in Queues /\ UsedAs(d, "destination")
<1>0. Hands[q] = WorkerOf(q)
  BY DEF Hands
<1>1. CASE BusyReaders(q) = {}
  BY <1>0, <1>1 DEF WorkerOf, Resting
<1>2. CASE BusyReaders(q) # {}
  <2>1. PICK p \in BusyReaders(q): WorkerOf(q) = Worker(procs[p], queueOf)
    BY <1>2 DEF WorkerOf
  <2>2. p \in DOMAIN procs /\ Source(p) = q
    BY DEF BusyReaders
  <2>3. /\ Worker(procs[p], queueOf).stage # "free"
        /\ Worker(procs[p], queueOf).todo = QueuesOf(procs[p].todo, queueOf)
    BY WorkerIs
  <2>4. \A i \in procs[p].todo: queueOf[i] \in Queues /\ UsedAs(queueOf[i], "destination")
    <3>1. procs[p].todo \subseteq Ids
      BY <2>2, PublisherIsTyped DEF PublisherOK
    <3>2. \A i \in Ids: queueOf[i] \in Queues
      BY ElementOfSeq DEF TypeOK, RegistryType, Ids
    <3> QED BY <2>2, <3>1, <3>2 DEF RolesInv
  <2>5. UsedAs(q, "source")
    BY <2>2 DEF RolesInv
  <2>6. \A d \in QueuesOf(procs[p].todo, queueOf): d \in Queues /\ UsedAs(d, "destination")
    BY <2>4 DEF QueuesOf
  <2> QED BY <1>0, <2>1, <2>3, <2>5, <2>6
<1> QED BY <1>1, <1>2

\* Queues are only appended to, and taken from at the front.
Grows ==
  \A q \in Queues: /\ Len(log[q]) <= Len(log'[q]) /\ head[q] <= head'[q]
                    /\ \A i \in 1..Len(log[q]): log'[q][i] = log[q][i]

LEMMA QueueIsTyped ==
  ASSUME TypeOK, NEW q \in Queues
  PROVE  /\ log[q] \in Seq(Items) /\ Len(log[q]) \in Nat /\ DOMAIN log[q] = 1..Len(log[q])
         /\ head[q] \in Nat /\ head[q] <= Len(log[q])
         /\ \A i \in DOMAIN log[q]: /\ log[q][i] \in Items /\ log[q][i].from \in Queues
                                    /\ log[q][i].n \in Nat
<1>1. log[q] \in Seq(Items) /\ head[q] \in Nat /\ head[q] <= Len(log[q])
  BY DEF TypeOK, QueuesType
<1>2. Len(log[q]) \in Nat /\ DOMAIN log[q] = 1..Len(log[q])
  BY <1>1, LenProperties
<1>3. \A i \in DOMAIN log[q]: log[q][i] \in Items
  BY <1>1, <1>2, ElementOfSeq
<1> QED BY <1>1, <1>2, <1>3 DEF Items

LEMMA TakenKept ==
  ASSUME TypeOK, TypeOK', Grows, NEW item, item.from \in Queues, Taken(item)
  PROVE  Taken(item)'
<1>1. PICK j \in 1..head[item.from]: log[item.from][j] = item
  BY DEF Taken
<1>2. /\ head[item.from] \in Nat /\ head'[item.from] \in Nat /\ head[item.from] <= head'[item.from]
      /\ head[item.from] <= Len(log[item.from]) /\ Len(log[item.from]) \in Nat
  BY QueueIsTyped DEF Grows, TypeOK, QueuesType
<1>3. j \in 1..head'[item.from] /\ j \in 1..Len(log[item.from])
  BY <1>2
<1>4. log'[item.from][j] = item
  BY <1>1, <1>3 DEF Grows
<1> QED BY <1>3, <1>4 DEF Taken

\* As long as nothing is put, what was in order stays so; the worker of q does something else.
LEMMA RouteStays ==
  ASSUME TypeOK, TypeOK', RouteInv, UNCHANGED log, \A q \in Queues: head[q] <= head'[q],
         \A s \in Queues: Hands'[s] = Hands[s] \/ HandOrder(s, Hands[s])'
  PROVE  RouteInv'
<1>1. Grows
  <2>1. \A q \in Queues: Len(log[q]) \in Nat
    BY QueueIsTyped
  <2> QED BY <2>1 DEF Grows
<1>2. InOrderOnce'
  BY DEF RouteInv, InOrderOnce
<1>3. \A q \in Queues: Before(q, q, Cardinality(Abstract!Own(q)) + 1)'
  BY DEF RouteInv, Before, Abstract!Own
<1>4. ASSUME NEW q \in Queues, NEW i \in DOMAIN log[q], log[q][i].from # q
      PROVE  Taken(log[q][i])' /\ ~UsedAs(q, "source")
  <2>1. log[q][i].from \in Queues
    BY QueueIsTyped
  <2>2. PICK item: item = log[q][i]
    OBVIOUS
  <2>3. Taken(item)'
    BY <1>1, <1>4, <2>1, <2>2, TakenKept DEF RouteInv
  <2> QED BY <1>4, <2>2, <2>3 DEF RouteInv, Taken
<1>5. ASSUME NEW s \in Queues PROVE HandOrder(s, Hands[s])'
  <2>1. CASE Hands'[s] = Hands[s]
    <3>1. PICK w: w = Hands[s]
      OBVIOUS
    <3>2. w.stage # "free" => Taken(w.item)'
      BY <1>1, <3>1, TakenKept DEF RouteInv, HandOrder
    <3>3. \A d \in Queues: Before(d, s, w.item.n) => Before(d, s, w.item.n)'
      BY DEF Before
    <3>4. HandOrder(s, w)
      BY <3>1 DEF RouteInv
    <3>5. \A d: Before(d, s, w.item.n) => Before(d, s, w.item.n)'
      BY DEF Before
    <3>6. HandOrder(s, w)'
      BY <3>2, <3>4, <3>5 DEF HandOrder
    <3> QED BY <2>1, <3>1, <3>6 DEF HandOrder
  <2> QED BY <2>1
<1>6. \A q \in Queues: \A i \in DOMAIN log'[q]:
        log'[q][i].from # q => Taken(log[q][i])' /\ ~UsedAs(q, "source")
  BY <1>4
<1> QED BY <1>2, <1>3, <1>5, <1>6 DEF RouteInv

\* The worker of q goes on with its item, has nothing left of it, or less.
LEMMA RouteGoesOn ==
  ASSUME TypeOK, TypeOK', RouteInv, UNCHANGED <<log, head>>,
         NEW q \in Queues, NEW w, Hands' = [Hands EXCEPT ![q] = w],
         \/ w.stage = "free" /\ w.todo = {}
         \/ /\ Hands[q].stage # "free" /\ w.item = Hands[q].item
            /\ w.todo \subseteq Hands[q].todo
            /\ w.stage = "taken" => Hands[q].stage = "taken"
  PROVE  RouteInv'
<1>1. HandOrder(q, w)
  BY DEF RouteInv, HandOrder
<1>2. HandOrder(q, w)'
  BY <1>1 DEF HandOrder, Before, Taken
<1>3. Hands'[q] = w /\ \A s \in Queues: s # q => Hands'[s] = Hands[s]
  BY DEF Hands
<1>4. HandOrder(q, Hands[q])'
  BY <1>2, <1>3 DEF HandOrder, Before, Taken
<1>5. \A s \in Queues: head[s] <= head'[s]
  BY QueueIsTyped
<1> QED BY <1>3, <1>4, <1>5, RouteStays

LEMMA RouteTake ==
  ASSUME TypeOK, TypeOK', RouteInv, NEW q \in Queues, Abstract!Take(q), UsedAs(q, "source")
  PROVE  RouteInv'
<1>1. PICK item: item = log[q][head[q] + 1]
  OBVIOUS
<1>2. PICK k: k = head[q] + 1
  OBVIOUS
<1>3. /\ log' = log /\ head' = [head EXCEPT ![q] = @ + 1]
      /\ Hands' = [Hands EXCEPT ![q] = Abstract!Holding(item)]
  BY <1>1 DEF Abstract!Take, Abstract!Becomes
<1>4. /\ head[q] \in Nat /\ k \in 1..Len(log[q]) /\ DOMAIN log[q] = 1..Len(log[q])
      /\ head'[q] = k /\ item = log[q][k]
  BY <1>1, <1>2, <1>3, QueueIsTyped DEF Abstract!Take, Abstract!Unread, TypeOK, QueuesType
<1>5. item.from = q
  BY <1>4 DEF RouteInv
<1>6. Taken(item)'
  BY <1>3, <1>4, <1>5 DEF Taken
<1>7. ASSUME NEW d \in Queues \ {q}, NEW i \in DOMAIN log[d], log[d][i].from = q
      PROVE  log[d][i].n < item.n
  <2>1. PICK j \in 1..head[q]: log[q][j] = log[d][i]
    BY <1>7 DEF RouteInv, Taken
  <2>2. j \in 1..Len(log[q]) /\ j < k
    BY <1>2, <1>4
  <2>3. log[q][j].from = log[q][k].from
    BY <1>4, <1>5, <1>7, <2>1
  <2> QED BY <1>4, <2>1, <2>2, <2>3 DEF RouteInv, InOrderOnce
<1>8. \A d \in Queues \ {q}: Before(d, q, item.n)'
  BY <1>3, <1>7 DEF Before
<1>9. /\ Hands'[q] = Abstract!Holding(item)
      /\ \A s \in Queues: s # q => Hands'[s] = Hands[s]
  BY <1>3 DEF Hands
<1>10. Hands'[q].stage = "taken" /\ Hands'[q].item = item /\ Hands'[q].todo = {}
  BY <1>9 DEF Abstract!Holding
<1>11. HandOrder(q, Hands[q])'
  BY <1>5, <1>6, <1>8, <1>10 DEF HandOrder, Taken, Before
<1>12. \A s \in Queues: head[s] <= head'[s]
  BY <1>3, <1>4, QueueIsTyped DEF TypeOK, QueuesType
<1> QED BY <1>3, <1>9, <1>11, <1>12, RouteStays

LEMMA RouteAddress ==
  ASSUME TypeOK, TypeOK', RouteInv, SeparateRoles, NEW q \in Queues, Abstract!Address(q),
         UsedAs(q, "source"), \A d \in Hands'[q].todo: d \in Queues /\ UsedAs(d, "destination")
  PROVE  RouteInv'
<1>1. log' = log /\ head' = head /\ Hands[q].stage = "taken"
  BY DEF Abstract!Address
<1>2. PICK to \in SUBSET Queues: Hands' = [Hands EXCEPT ![q] = Abstract!Sending(Hands[q].item, to)]
  BY DEF Abstract!Address, Abstract!Becomes
<1>3. /\ Hands'[q] = Abstract!Sending(Hands[q].item, to)
      /\ \A s \in Queues: s # q => Hands'[s] = Hands[s]
  BY <1>2 DEF Hands
<1>4. Hands'[q].stage = "sent" /\ Hands'[q].item = Hands[q].item /\ Hands'[q].todo = to
  BY <1>3 DEF Abstract!Sending
<1>5. \A d \in to: d \in Queues \ {q}
  BY <1>4 DEF SeparateRoles
<1>6. /\ Hands[q].item.from = q /\ Taken(Hands[q].item)
      /\ \A d \in Queues \ {q}: Before(d, q, Hands[q].item.n)
  BY <1>1 DEF RouteInv, HandOrder
<1>7. PICK item: item = Hands[q].item
  OBVIOUS
<1>8. /\ item.from = q /\ Taken(item)' /\ \A d \in to: Before(d, q, item.n)'
  BY <1>1, <1>5, <1>6, <1>7 DEF Taken, Before
<1>9. HandOrder(q, Hands[q])'
  BY <1>4, <1>7, <1>8 DEF HandOrder, Taken, Before
<1>10. \A s \in Queues: head[s] <= head'[s]
  BY <1>1, QueueIsTyped
<1> QED BY <1>1, <1>3, <1>9, <1>10, RouteStays

LEMMA PutGrows ==
  ASSUME TypeOK, TypeOK', NEW d \in Queues, NEW item,
         log' = [log EXCEPT ![d] = Append(@, item)], head' = head
  PROVE  /\ Grows
         /\ Len(log'[d]) = Len(log[d]) + 1 /\ DOMAIN log'[d] = 1..(Len(log[d]) + 1)
         /\ log'[d][Len(log[d]) + 1] = item
         /\ \A i \in 1..Len(log[d]): log'[d][i] = log[d][i]
         /\ \A q \in Queues: q # d => log'[q] = log[q]
         /\ item \in Items
<1>1. /\ log'[d] = Append(log[d], item) /\ log'[d] \in Seq(Items)
      /\ \A q \in Queues: q # d => log'[q] = log[q]
  BY DEF TypeOK, QueuesType
<1>2. log[d] \in Seq(Items) /\ Len(log[d]) \in Nat
  BY QueueIsTyped
<1>3. /\ Len(Append(log[d], item)) = Len(log[d]) + 1
      /\ Append(log[d], item)[Len(log[d]) + 1] = item
      /\ \A i \in 1..Len(log[d]): Append(log[d], item)[i] = log[d][i]
  BY <1>2
<1>4. DOMAIN log'[d] = 1..(Len(log[d]) + 1)
  BY <1>1, <1>3, LenProperties
<1>5. item \in Items
  <2>1. Len(log[d]) + 1 \in 1..Len(log'[d])
    BY <1>1, <1>2, <1>3
  <2> QED BY <1>1, <1>3, <2>1, ElementOfSeq
<1>6. ASSUME NEW q \in Queues
      PROVE  /\ Len(log[q]) <= Len(log'[q]) /\ head[q] <= head'[q]
             /\ \A i \in 1..Len(log[q]): log'[q][i] = log[q][i]
  <2>1. Len(log[q]) \in Nat /\ head[q] \in Nat
    BY QueueIsTyped
  <2>2. CASE q = d
    BY <1>1, <1>3, <2>1, <2>2
  <2>3. CASE q # d
    BY <1>1, <2>1, <2>3
  <2> QED BY <2>2, <2>3
<1> QED BY <1>1, <1>3, <1>4, <1>5, <1>6 DEF Grows

\* What comes after all others of its kind may be put.
LEMMA PutInOrder ==
  ASSUME TypeOK, TypeOK', InOrderOnce, NEW d \in Queues, NEW item,
         log' = [log EXCEPT ![d] = Append(@, item)], head' = head, Before(d, item.from, item.n)
  PROVE  InOrderOnce'
<1> SUFFICES ASSUME NEW q \in Queues, NEW i \in 1..Len(log'[q]), NEW j \in 1..Len(log'[q]),
                    i < j, log'[q][i].from = log'[q][j].from
             PROVE  log'[q][i].n < log'[q][j].n
  BY DEF InOrderOnce
<1>1. CASE q # d
  <2>1. log'[q] = log[q]
    BY <1>1, PutGrows
  <2> QED BY <2>1 DEF InOrderOnce
<1>2. CASE q = d
  <2>0. Len(log[d]) \in Nat /\ DOMAIN log[d] = 1..Len(log[d])
    BY QueueIsTyped
  <2>1. i \in 1..Len(log[d]) /\ log'[d][i] = log[d][i]
    BY <1>2, <2>0, PutGrows
  <2>2. CASE j \in 1..Len(log[d])
    <3>1. log'[d][j] = log[d][j]
      BY <2>2, PutGrows
    <3> QED BY <1>2, <2>1, <2>2, <3>1 DEF InOrderOnce
  <2>3. CASE j = Len(log[d]) + 1
    <3>0. log'[d][Len(log[d]) + 1] = item
      BY PutGrows
    <3>1. log'[d][j] = item
      BY <2>3, <3>0
    <3>2. i \in DOMAIN log[d] /\ log[d][i].from = item.from
      BY <1>2, <2>0, <2>1, <3>1
    <3> QED BY <1>2, <2>1, <3>1, <3>2 DEF Before
  <2>4. j \in 1..Len(log[d]) \/ j = Len(log[d]) + 1
    BY <1>2, <2>0, PutGrows
  <2> QED BY <2>2, <2>3, <2>4
<1> QED BY <1>1, <1>2

\* Items of other queues than the one whose item is put on d, or on other queues than d.
LEMMA BeforeKept ==
  ASSUME TypeOK, TypeOK', NEW d \in Queues, NEW item,
         log' = [log EXCEPT ![d] = Append(@, item)], head' = head,
         NEW q \in Queues, NEW s, NEW n, q # d \/ item.from # s, Before(q, s, n)
  PROVE  Before(q, s, n)'
<1>0. Len(log[q]) \in Nat /\ DOMAIN log[q] = 1..Len(log[q])
  BY QueueIsTyped
<1>1. CASE q # d
  <2>1. log'[q] = log[q]
    BY <1>1, PutGrows
  <2> QED BY <2>1 DEF Before
<1>2. CASE q = d
  <2> SUFFICES ASSUME NEW i \in DOMAIN log'[q], log'[q][i].from = s
               PROVE  log'[q][i].n < n
    BY Zenon DEF Before
  <2>1. i \in 1..(Len(log[d]) + 1) /\ log'[d][Len(log[d]) + 1] = item
    BY <1>2, PutGrows
  <2>2. i \in 1..Len(log[d])
    BY <1>0, <1>2, <2>1
  <2>3. log'[d][i] = log[d][i]
    BY <2>2, PutGrows
  <2> QED BY <1>0, <1>2, <2>2, <2>3 DEF Before
<1> QED BY <1>1, <1>2

\* The queues after a put: what is there has been taken from where the application put it.
LEMMA PutTaken ==
  ASSUME TypeOK, TypeOK', RouteInv, NEW d \in Queues, NEW item,
         log' = [log EXCEPT ![d] = Append(@, item)], head' = head,
         item.from # d => Taken(item) /\ ~UsedAs(d, "source")
  PROVE  \A q \in Queues: \A i \in DOMAIN log'[q]:
           log'[q][i].from # q => Taken(log[q][i])' /\ ~UsedAs(q, "source")
<1>0. Grows /\ item \in Items /\ item.from \in Queues
  <2>1. Grows /\ item \in Items
    BY PutGrows
  <2> QED BY <2>1 DEF Items
<1> SUFFICES ASSUME NEW q \in Queues, NEW i \in DOMAIN log'[q], log'[q][i].from # q
             PROVE  Taken(log[q][i])' /\ ~UsedAs(q, "source")
  BY Zenon
<1>1. CASE i \in DOMAIN log[q]
  <2>1. DOMAIN log[q] = 1..Len(log[q]) /\ log[q][i].from \in Queues
    BY <1>1, QueueIsTyped
  <2>2. log'[q][i] = log[q][i]
    BY <1>0, <1>1, <2>1 DEF Grows
  <2>3. PICK old: old = log[q][i]
    OBVIOUS
  <2>4. Taken(old) /\ ~UsedAs(q, "source")
    BY <1>1, <2>2, <2>3 DEF RouteInv
  <2>5. Taken(old)'
    BY <1>0, <2>1, <2>3, <2>4, TakenKept
  <2> QED BY <2>2, <2>3, <2>4, <2>5 DEF Taken
<1>2. CASE i \notin DOMAIN log[q]
  <2>1. q = d /\ log'[q][i] = item
    <3>1. DOMAIN log[q] = 1..Len(log[q]) /\ Len(log[q]) \in Nat
      BY QueueIsTyped
    <3>2. q = d
      BY <1>2, PutGrows
    <3>3. i \in 1..(Len(log[d]) + 1)
      BY <3>2, PutGrows
    <3>4. i = Len(log[d]) + 1
      BY <1>2, <3>1, <3>2, <3>3
    <3>5. log'[d][Len(log[d]) + 1] = item
      BY PutGrows
    <3> QED BY <3>2, <3>4, <3>5
  <2>2. Taken(item)'
    BY <1>0, <2>1, TakenKept
  <2> QED BY <2>1, <2>2 DEF Taken
<1> QED BY <1>1, <1>2

\* The items of the application's own on d, when one is put there.
LEMMA OwnCounts ==
  ASSUME TypeOK, TypeOK', RouteInv, NEW d \in Queues, NEW item,
         log' = [log EXCEPT ![d] = Append(@, item)], head' = head,
         item.from = d => item.n = Cardinality(Abstract!Own(d)) + 1,
         NEW q \in Queues
  PROVE  Before(q, q, Cardinality(Abstract!Own(q)) + 1)'
<1>0. /\ Len(log[q]) \in Nat /\ DOMAIN log[q] = 1..Len(log[q])
      /\ \A i \in DOMAIN log[q]: log[q][i].n \in Nat
      /\ Before(q, q, Cardinality(Abstract!Own(q)) + 1)
  BY QueueIsTyped DEF RouteInv
<1>1. CASE q # d
  <2>1. log'[q] = log[q]
    BY <1>1, PutGrows
  <2> QED BY <1>0, <2>1 DEF Before, Abstract!Own
<1>2. CASE q = d
  <2>1. PICK len: len = Len(log[d])
    OBVIOUS
  <2>2. /\ len \in Nat /\ Len(log'[d]) = len + 1 /\ DOMAIN log'[d] = 1..(len + 1)
        /\ log'[d][len + 1] = item /\ \A i \in 1..len: log'[d][i] = log[d][i]
    <3>1. /\ Len(log'[d]) = Len(log[d]) + 1 /\ DOMAIN log'[d] = 1..(Len(log[d]) + 1)
          /\ log'[d][Len(log[d]) + 1] = item
          /\ \A i \in 1..Len(log[d]): log'[d][i] = log[d][i]
      BY PutGrows
    <3> QED BY <1>0, <1>2, <2>1, <3>1
  <2>3. PICK own: own = Abstract!Own(d)
    OBVIOUS
  <2>4. own = {i \in 1..len: log[d][i].from = d}
    BY <2>1, <2>3 DEF Abstract!Own
  <2>5. IsFiniteSet(own) /\ Cardinality(own) \in Nat
    <3>1. IsFiniteSet(1..len)
      BY <2>2, FS_Interval
    <3>2. IsFiniteSet(own)
      BY <2>4, <3>1, FS_Subset
    <3> QED BY <3>2, FS_CardinalityType
  <2>6. Abstract!Own(d)' = {i \in 1..(len + 1): log'[d][i].from = d}
    BY <2>2 DEF Abstract!Own
  <2>7. CASE item.from # d
    <3>1. Abstract!Own(d)' = own
      BY <2>2, <2>4, <2>6, <2>7
    <3>2. Before(d, d, Cardinality(own) + 1)'
      BY <1>0, <1>2, <2>3, <2>7, BeforeKept
    <3> QED BY <1>2, <3>1, <3>2 DEF Before
  <2>8. CASE item.from = d
    <3>1. Abstract!Own(d)' = own \cup {len + 1}
      <4>1. \A i: i \in 1..(len + 1) <=> i \in 1..len \/ i = len + 1
        BY <2>2
      <4> QED BY <2>2, <2>4, <2>6, <2>8, <4>1
    <3>2. Cardinality(own \cup {len + 1}) = Cardinality(own) + 1
      <4>1. len + 1 \notin own
        BY <2>2, <2>4
      <4> QED BY <2>5, <4>1, FS_AddElement
    <3>3. ASSUME NEW i \in 1..(len + 1), log'[d][i].from = d
          PROVE  log'[d][i].n < Cardinality(own) + 1 + 1
      <4>1. CASE i = len + 1
        BY <2>2, <2>3, <2>5, <2>8, <4>1
      <4>2. CASE i # len + 1
        <5>1. i \in 1..len
          BY <2>2, <4>2
        <5>2. log'[d][i] = log[d][i] /\ i \in DOMAIN log[d]
          BY <1>0, <1>2, <2>1, <2>2, <5>1
        <5>3. log[d][i].n < Cardinality(own) + 1 /\ log[d][i].n \in Nat
          BY <1>0, <1>2, <2>3, <3>3, <5>2 DEF Before
        <5> QED BY <2>5, <5>2, <5>3
      <4> QED BY <4>1, <4>2
    <3> QED BY <1>2, <2>2, <3>1, <3>2, <3>3 DEF Before
  <2> QED BY <2>7, <2>8
<1> QED BY <1>1, <1>2

\* A worker of s that keeps what it has, unless it is yet to put something after the item.
LEMMA HandKept ==
  ASSUME TypeOK, TypeOK', NEW d \in Queues, NEW item,
         log' = [log EXCEPT ![d] = Append(@, item)], head' = head,
         NEW s \in Queues, NEW w, HandOrder(s, w), w.todo \subseteq Queues,
         item.from = s => d \notin w.todo /\ (w.stage = "taken" => d = s)
  PROVE  HandOrder(s, w)'
<1>1. ASSUME w.stage # "free" PROVE w.item.from = s /\ Taken(w.item)'
  <2>1. w.item.from = s /\ Taken(w.item)
    BY <1>1 DEF HandOrder
  <2>2. Grows
    BY PutGrows
  <2> QED BY <2>1, <2>2, TakenKept
<1>2. ASSUME NEW q \in Queues, q # d \/ item.from # s, Before(q, s, w.item.n)
      PROVE  Before(q, s, w.item.n)'
  BY <1>2, BeforeKept
<1>3. w.stage = "taken" => \A q \in Queues \ {s}: Before(q, s, w.item.n)'
  BY <1>2 DEF HandOrder
<1>4. \A q \in w.todo: Before(q, s, w.item.n)'
  BY <1>2 DEF HandOrder
<1> QED BY <1>1, <1>3, <1>4 DEF HandOrder

LEMMA RouteProduce ==
  ASSUME TypeOK, TypeOK', RolesInv, RouteInv, SeparateRoles, NEW q \in Queues, Abstract!Produce(q)
  PROVE  RouteInv'
<1>1. PICK item: item = [from |-> q, n |-> Cardinality(Abstract!Own(q)) + 1]
  OBVIOUS
<1>2. item.from = q /\ item.n = Cardinality(Abstract!Own(q)) + 1
  BY <1>1
<1>3. log' = [log EXCEPT ![q] = Append(@, item)] /\ head' = head /\ Hands' = Hands
  BY <1>1 DEF Abstract!Produce, Cardinality, Abstract!Cardinality
<1>4. InOrderOnce'
  <2>1. Before(q, item.from, item.n)
    BY <1>2 DEF RouteInv
  <2>2. InOrderOnce
    BY DEF RouteInv
  <2> QED BY <1>3, <2>1, <2>2, PutInOrder
<1>5. \A d \in Queues: Before(d, d, Cardinality(Abstract!Own(d)) + 1)'
  BY <1>2, <1>3, OwnCounts
<1>6. \A d \in Queues: \A i \in DOMAIN log'[d]:
        log'[d][i].from # d => Taken(log[d][i])' /\ ~UsedAs(d, "source")
  BY <1>2, <1>3, PutTaken
<1>7. ASSUME NEW s \in Queues PROVE HandOrder(s, Hands[s])'
  <2>1. PICK w: w = Hands[s]
    OBVIOUS
  <2>2. HandOrder(s, w)
    BY <2>1 DEF RouteInv
  <2>3. /\ w.stage = "free" => w.todo = {}
        /\ w.stage # "free" => UsedAs(s, "source")
        /\ \A d \in w.todo: d \in Queues /\ UsedAs(d, "destination")
    BY <2>1, HandRoles DEF Resting
  <2>4. s \notin w.todo
    BY <2>3 DEF SeparateRoles
  <2>5. HandOrder(s, w)'
    BY <1>2, <1>3, <2>2, <2>3, <2>4, HandKept
  <2> QED BY <1>3, <2>1, <2>5 DEF HandOrder, Taken, Before
<1> QED BY <1>4, <1>5, <1>6, <1>7 DEF RouteInv

LEMMA RouteDeliver ==
  ASSUME TypeOK, TypeOK', RolesInv, RouteInv, SeparateRoles,
         NEW s \in Queues, NEW d \in Hands[s].todo, Abstract!Deliver(s, d)
  PROVE  RouteInv'
<1>1. PICK held: held = Hands[s]
  OBVIOUS
<1>2. PICK item: item = held.item
  OBVIOUS
<1>3. /\ held.stage = "free" => held.todo = {}
      /\ held.stage # "free" => UsedAs(s, "source")
      /\ \A e \in held.todo: e \in Queues /\ UsedAs(e, "destination")
  BY <1>1, HandRoles DEF Resting
<1>4. d \in Queues /\ held.stage # "free" /\ UsedAs(s, "source") /\ ~UsedAs(d, "source")
  BY <1>1, <1>3 DEF SeparateRoles
<1>5. HandOrder(s, held)
  BY <1>1 DEF RouteInv
<1>6. item.from = s /\ Taken(item) /\ Before(d, s, item.n) /\ d # s
  BY <1>1, <1>2, <1>4, <1>5 DEF HandOrder
<1>7. /\ log' = [log EXCEPT ![d] = Append(@, item)] /\ head' = head
      /\ Hands' = [Hands EXCEPT ![s] = Abstract!Sending(item, held.todo \ {d})]
  BY <1>1, <1>2 DEF Abstract!Deliver, Abstract!Becomes
<1>8. InOrderOnce'
  <2>1. InOrderOnce
    BY DEF RouteInv
  <2> QED BY <1>4, <1>6, <1>7, <2>1, PutInOrder
<1>9. \A q \in Queues: Before(q, q, Cardinality(Abstract!Own(q)) + 1)'
  BY <1>4, <1>6, <1>7, OwnCounts
<1>10. \A q \in Queues: \A i \in DOMAIN log'[q]:
         log'[q][i].from # q => Taken(log[q][i])' /\ ~UsedAs(q, "source")
  BY <1>4, <1>6, <1>7, PutTaken
<1>11. ASSUME NEW t \in Queues PROVE HandOrder(t, Hands[t])'
  <2>1. PICK w: w = Hands'[t]
    OBVIOUS
  <2>2. CASE t = s
    <3>1. w = Abstract!Sending(item, held.todo \ {d})
      BY <1>7, <2>1, <2>2 DEF Hands
    <3>2. w.stage = "sent" /\ w.item = item /\ w.todo = held.todo \ {d}
      BY <3>1 DEF Abstract!Sending
    <3>3. HandOrder(t, w) /\ w.todo \subseteq Queues
      BY <1>2, <1>3, <1>5, <1>6, <2>2, <3>2 DEF HandOrder
    <3>4. HandOrder(t, w)'
      BY <1>4, <1>7, <3>2, <3>3, HandKept
    <3> QED BY <2>1, <3>4 DEF HandOrder, Taken, Before
  <2>3. CASE t # s
    <3>1. w = Hands[t]
      BY <1>7, <2>1, <2>3 DEF Hands
    <3>2. HandOrder(t, w) /\ w.todo \subseteq Queues
      BY <3>1, HandRoles DEF RouteInv
    <3>3. HandOrder(t, w)'
      BY <1>4, <1>6, <1>7, <2>3, <3>2, HandKept
    <3> QED BY <2>1, <3>3 DEF HandOrder, Taken, Before
  <2> QED BY <2>2, <2>3
<1> QED BY <1>8, <1>9, <1>10, <1>11 DEF RouteInv

\* At work only on a source, and putting only on destinations.
HandsInv ==
  \A q \in Queues: /\ Hands[q].stage # "free" => UsedAs(q, "source")
                   /\ \A d \in Hands[q].todo: d \in Queues /\ UsedAs(d, "destination")

LEMMA HandRolesLater == TypeOK' /\ RolesInv' => HandsInv'
<1>1. TypeOK /\ RolesInv => HandsInv
  BY HandRoles DEF HandsInv
<1> QED BY <1>1, PTL

LEMMA HandIsWorker ==
  ASSUME NEW q \in Queues
  PROVE  Hands[q] = [stage |-> Hands[q].stage, item |-> Hands[q].item,
                     todo |-> Hands[q].todo, full |-> Hands[q].full]
<1>1. Hands[q] = Resting \/ \E r: Hands[q] = Worker(r, queueOf)
  BY DEF Hands, WorkerOf
<1> QED BY <1>1 DEF Resting, Worker

\* Every step of the queues and their workers keeps the items in order.
LEMMA RouteNext ==
  ASSUME TypeOK, TypeOK', RolesInv, RolesInv', RouteInv, SeparateRoles, [Abstract!Next]_(Abstract!vars)
  PROVE  RouteInv'
<1>0. head \in [Queues -> Nat]
  BY DEF TypeOK, QueuesType
<1>1. ASSUME NEW q \in Queues, Abstract!Produce(q) PROVE RouteInv'
  BY <1>1, RouteProduce
<1>2. ASSUME NEW q \in Queues, Abstract!Remove(q) \/ Abstract!Break(q) PROVE RouteInv'
  <2>1. /\ log' = log /\ Hands' = Hands
        /\ head' = head \/ head' = [head EXCEPT ![q] = @ + 1]
    BY <1>2 DEF Abstract!Remove, Abstract!Break
  <2>2. \A s \in Queues: head[s] <= head'[s]
    BY <1>0, <2>1
  <2> QED BY <2>1, <2>2, RouteStays
<1>3. ASSUME NEW q \in Queues, Abstract!Take(q) PROVE RouteInv'
  <2>1. PICK item: Hands' = [Hands EXCEPT ![q] = Abstract!Holding(item)]
    BY <1>3 DEF Abstract!Take, Abstract!Becomes
  <2>2. Hands'[q].stage = "taken"
    BY <2>1 DEF Hands, Abstract!Holding
  <2>3. UsedAs(q, "source")
    BY <2>2, HandRolesLater DEF HandsInv
  <2> QED BY <1>3, <2>3, RouteTake
<1>4. ASSUME NEW q \in Queues, Abstract!Address(q) PROVE RouteInv'
  <2>1. UsedAs(q, "source")
    BY <1>4, HandRoles DEF Abstract!Address
  <2>2. \A d \in Hands'[q].todo: d \in Queues /\ UsedAs(d, "destination")
    BY HandRolesLater DEF HandsInv
  <2> QED BY <1>4, <2>1, <2>2, RouteAddress
<1>5. ASSUME NEW q \in Queues, NEW w, Hands' = [Hands EXCEPT ![q] = w], UNCHANGED <<log, head>>,
             \/ w.stage = "free" /\ w.todo = {}
             \/ /\ Hands[q].stage # "free" /\ w.item = Hands[q].item
                /\ w.todo \subseteq Hands[q].todo
                /\ w.stage = "taken" => Hands[q].stage = "taken"
      PROVE  RouteInv'
  BY <1>5, RouteGoesOn
<1>6. ASSUME NEW q \in Queues, Abstract!Finish(q) PROVE RouteInv'
  <2>1. Hands' = [Hands EXCEPT ![q] = Abstract!Free] /\ UNCHANGED <<log, head>>
    BY <1>6 DEF Abstract!Finish, Abstract!Becomes
  <2> QED BY <1>5, <2>1 DEF Abstract!Free
<1>7. ASSUME NEW q \in Queues, NEW d \in Hands[q].todo, Abstract!Fail(q, d) PROVE RouteInv'
  <2>1. Hands' = [Hands EXCEPT ![q] = Abstract!Free] /\ UNCHANGED <<log, head>>
    BY <1>7 DEF Abstract!Fail, Abstract!Becomes
  <2> QED BY <1>5, <2>1 DEF Abstract!Free
<1>8. ASSUME NEW q \in Queues, Abstract!TryAgain(q) PROVE RouteInv'
  <2>1. PICK w: w = [Hands[q] EXCEPT !.full = {}]
    OBVIOUS
  <2>2. Hands' = [Hands EXCEPT ![q] = w] /\ UNCHANGED <<log, head>>
    BY <1>8, <2>1 DEF Abstract!TryAgain, Abstract!Becomes
  <2>3. Hands[q].stage # "free"
    BY <1>8, HandRoles DEF Abstract!TryAgain, Resting
  <2>4. w.stage = Hands[q].stage /\ w.item = Hands[q].item /\ w.todo = Hands[q].todo
    BY <2>1, HandIsWorker
  <2> QED BY <1>5, <2>2, <2>3, <2>4
<1>9. ASSUME NEW q \in Queues, NEW d \in Hands[q].todo, Abstract!FindFull(q, d) PROVE RouteInv'
  <2>1. PICK w: w = [Hands[q] EXCEPT !.full = {d}]
    OBVIOUS
  <2>2. Hands' = [Hands EXCEPT ![q] = w] /\ UNCHANGED <<log, head>>
    BY <1>9, <2>1 DEF Abstract!FindFull, Abstract!Becomes
  <2>3. Hands[q].stage # "free"
    BY <1>9, HandRoles DEF Resting
  <2>4. w.stage = Hands[q].stage /\ w.item = Hands[q].item /\ w.todo = Hands[q].todo
    BY <2>1, HandIsWorker
  <2> QED BY <1>5, <2>2, <2>3, <2>4
<1>10. ASSUME NEW q \in Queues, NEW d \in Hands[q].todo, Abstract!LeaveOut(q, d) PROVE RouteInv'
  <2>1. PICK w: w = Abstract!Sending(Hands[q].item, Hands[q].todo \ {d})
    OBVIOUS
  <2>2. Hands' = [Hands EXCEPT ![q] = w] /\ UNCHANGED <<log, head>>
    BY <1>10, <2>1 DEF Abstract!LeaveOut, Abstract!Becomes
  <2>3. Hands[q].stage # "free"
    BY <1>10, HandRoles DEF Resting
  <2>4. w.stage = "sent" /\ w.item = Hands[q].item /\ w.todo \subseteq Hands[q].todo
    BY <2>1 DEF Abstract!Sending
  <2> QED BY <1>5, <2>2, <2>3, <2>4
<1>11. ASSUME NEW q \in Queues, NEW d \in Hands[q].todo, Abstract!Deliver(q, d) PROVE RouteInv'
  BY <1>11, RouteDeliver
<1>12. CASE UNCHANGED Abstract!vars
  <2>1. UNCHANGED <<log, head, Hands>>
    BY <1>12 DEF Abstract!vars
  <2>2. \A s \in Queues: head[s] <= head'[s]
    BY <1>0, <2>1
  <2> QED BY <2>1, <2>2, RouteStays
<1> QED
  BY <1>1, <1>2, <1>3, <1>4, <1>6, <1>7, <1>8, <1>9, <1>10, <1>11, <1>12 DEF Abstract!Next

LEMMA RouteInit == Init => RouteInv
<1> SUFFICES ASSUME Init PROVE RouteInv
  OBVIOUS
<1>1. \A q \in Queues: Len(log[q]) = 0 /\ DOMAIN log[q] = {} /\ Hands[q] = Resting
  BY DEF Init, Hands, WorkerOf, BusyReaders
<1>2. InOrderOnce
  BY <1>1 DEF InOrderOnce
<1>3. \A s \in Queues: HandOrder(s, Hands[s])
  BY <1>1 DEF HandOrder, Resting
<1> QED BY <1>1, <1>2, <1>3 DEF RouteInv, Before

\* A publisher reads only what was registered as a source, and puts only on what was registered
\* as a destination. (register_queue and _start_publisher)
THEOREM KeepsRoles == Spec => []RolesInv
<1>1. Spec => [](TypeOK /\ ReaderInv)
  BY TypeCorrect, ReaderInvariant, PTL
<1> QED BY <1>1, RolesInit, RolesNext, PTL DEF Spec

\* What is put on a destination comes after all that it has of the same source.
THEOREM KeepsOrder == SeparateRoles => (Spec => []RouteInv)
<1> SUFFICES ASSUME SeparateRoles PROVE Spec => []RouteInv
  OBVIOUS
<1>1. Spec => [](TypeOK /\ ReaderInv)
  BY TypeCorrect, ReaderInvariant, PTL
<1>2. Spec => [][Abstract!Next]_(Abstract!vars)
  BY Implements, PTL DEF ImplementsFanOut, Abstract!Spec
<1>3. TypeOK /\ TypeOK' /\ RolesInv /\ RolesInv' /\ RouteInv /\ [Abstract!Next]_(Abstract!vars)
        => RouteInv'
  BY RouteNext
<1> QED BY <1>1, <1>2, <1>3, KeepsRoles, RouteInit, PTL DEF Spec

\* No destination gets the items of a source out of order or twice, as long as no queue is
\* registered as both at different times. (_publisher, _fan_out and _put_until_stopped under
\* every call of the link)
THEOREM DeliveredInOrder == SeparateRoles => (Spec => []InOrderOnce)
<1>1. RouteInv => InOrderOnce
  BY DEF RouteInv
<1> QED BY <1>1, KeepsOrder, PTL

=============================================================================
