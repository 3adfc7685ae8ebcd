----------------------- MODULE QueueLinkPromises_proofs -----------------------
(***************************************************************************)
(* What the application may rely on: a destination is left alone once it   *)
(* is unregistered, no promised delivery is lost silently, task_done is    *)
(* called once an item, and between calls every source is served. Theorems *)
(* about QueueLink for any queues, callers, capacities and interleaving.   *)
(***************************************************************************)
EXTENDS QueueLinkCalls_proofs

-----------------------------------------------------------------------------
(* The hands of a publisher *)

\* It holds an item from the get to the end of the fan-out only, and knows whom
\* it has yet to try from the snapshot on.
HandOK(r) ==
  /\ r.pc \in {"check", "get", "dead"} => r.item = NoItem
  /\ r.pc \in {"check", "get", "snapshot", "dead"} => r.todo = {}
HandsOK == \A p \in DOMAIN procs: HandOK(procs[p])

\* The step of a publisher: it is its own, and it learns of destinations from its dict only.
LEMMA PublisherMoves ==
  ASSUME TypeOK, HandsOK, NEW p \in DOMAIN procs, Publish(p)
  PROVE  /\ Alive(p) /\ UNCHANGED <<registry, stopSet, callerVars>>
         /\ DOMAIN procs' = DOMAIN procs
         /\ \A o \in DOMAIN procs: o # p => procs'[o] = procs[o]
         /\ procs'[p].src = procs[p].src /\ procs'[p].copy = procs[p].copy
         /\ procs'[p].todo \subseteq procs[p].todo \cup DestQueues(p)
         /\ HandOK(procs'[p])
<1>1. /\ procs[p] \in Publisher /\ HandOK(procs[p])
      /\ UNCHANGED <<registry, stopSet, callerVars>>
  <2>1. UNCHANGED <<registry, stopSet, callerVars>>
    BY DEF Publish, CheckStop, GetItem, GetEmpty, Snapshot, PutAgain, FinishItem, Put,
       PutTimesOut, Abandon, PutBreaks
  <2> QED BY <2>1, PublisherIsTyped DEF HandsOK
<1> DEFINE Goal == /\ Alive(p) /\ DOMAIN procs' = DOMAIN procs
                   /\ \A o \in DOMAIN procs: o # p => procs'[o] = procs[o]
                   /\ procs'[p].src = procs[p].src /\ procs'[p].copy = procs[p].copy
                   /\ procs'[p].todo \subseteq procs[p].todo \cup DestQueues(p)
                   /\ HandOK(procs'[p])
<1> SUFFICES Goal
  BY <1>1
<1>2. ASSUME NEW r, Turns(p, r), r.src = procs[p].src, r.copy = procs[p].copy,
             r.todo \subseteq procs[p].todo \cup DestQueues(p), HandOK(r), Alive(p)
      PROVE  Goal
  BY <1>2 DEF Turns
<1>3. ASSUME Exit(p), Alive(p) PROVE Goal
  <2> DEFINE r == [procs[p] EXCEPT !.pc = "dead", !.item = NoItem, !.todo = {}, !.undelivered = {}]
  <2>1. HandOK(r) /\ r.src = procs[p].src /\ r.copy = procs[p].copy /\ r.todo = {}
    BY <1>1 DEF HandOK, Publisher
  <2>2. Turns(p, r)
    BY <1>3 DEF Exit
  <2> HIDE DEF r, Goal
  <2> QED BY <1>2, <1>3, <2>1, <2>2
<1>4. ASSUME NEW pc \in {"get", "check", "full", "put"}, Move(p, pc), Alive(p),
             pc \in {"get", "check"} => procs[p].item = NoItem /\ procs[p].todo = {}
      PROVE  Goal
  <2> DEFINE r == [procs[p] EXCEPT !.pc = pc]
  <2>1. HandOK(r) /\ r.src = procs[p].src /\ r.copy = procs[p].copy /\ r.todo = procs[p].todo
    BY <1>1, <1>4 DEF HandOK, Publisher
  <2>2. Turns(p, r)
    BY <1>4 DEF Move
  <2> HIDE DEF r, Goal
  <2> QED BY <1>2, <1>4, <2>1, <2>2
<1>5. CASE CheckStop(p)
  <2>1. Alive(p) /\ procs[p].item = NoItem /\ procs[p].todo = {}
    BY <1>1, <1>5 DEF CheckStop, At, Alive, HandOK
  <2> QED BY <1>3, <1>4, <1>5, <2>1 DEF CheckStop
<1>6. CASE GetEmpty(p) \/ PutAgain(p)
  <2>1. Alive(p) /\ (GetEmpty(p) => procs[p].item = NoItem /\ procs[p].todo = {})
    BY <1>1, <1>6 DEF GetEmpty, PutAgain, At, Alive, HandOK
  <2> QED BY <1>4, <1>6, <2>1 DEF GetEmpty, PutAgain
<1>7. CASE GetItem(p)
  <2> DEFINE item == log[Source(p)][head[Source(p)] + 1]
             r == [procs[p] EXCEPT !.pc = "snapshot", !.item = item]
  <2>1. Turns(p, r) /\ Alive(p) /\ procs[p].todo = {}
    BY <1>1, <1>7 DEF GetItem, At, Alive, HandOK
  <2> HIDE DEF item
  <2>2. r.src = procs[p].src /\ r.copy = procs[p].copy /\ r.todo = {} /\ HandOK(r)
    BY <1>1, <2>1 DEF Publisher, HandOK
  <2> HIDE DEF r, Goal
  <2> QED BY <1>2, <2>1, <2>2
<1>8. CASE Snapshot(p)
  <2> DEFINE d == DestQueues(p)
             r == [procs[p] EXCEPT !.pc = "put", !.todo = d]
  <2>1. Turns(p, r) /\ Alive(p)
    BY <1>8 DEF Snapshot, At, Alive
  <2> HIDE DEF d
  <2>2. r.src = procs[p].src /\ r.copy = procs[p].copy /\ r.todo = d /\ HandOK(r)
    BY <1>1 DEF Publisher, HandOK
  <2> HIDE DEF r, Goal
  <2> QED BY <1>2, <2>1, <2>2 DEF d
<1>9. CASE FinishItem(p)
  <2>1. Alive(p) /\ procs[p].todo = {}
    BY <1>9 DEF FinishItem, At, Alive
  <2>2. CASE Exit(p)
    BY <1>3, <2>1, <2>2
  <2>3. CASE Turns(p, [procs[p] EXCEPT !.pc = "check", !.item = NoItem])
    <3> DEFINE r == [procs[p] EXCEPT !.pc = "check", !.item = NoItem]
    <3>1. r.src = procs[p].src /\ r.copy = procs[p].copy /\ r.todo = {} /\ HandOK(r)
      BY <1>1, <2>1 DEF Publisher, HandOK
    <3>2. Turns(p, r)
      BY <2>3
    <3> HIDE DEF r, Goal
    <3> QED BY <1>2, <2>1, <3>1, <3>2
  <2> QED BY <1>9, <2>2, <2>3 DEF FinishItem
<1>10. ASSUME NEW d \in procs[p].todo, Put(p, d) PROVE Goal
  <2> DEFINE r == [procs[p] EXCEPT !.todo = @ \ {d}]
  <2>1. Turns(p, r) /\ Alive(p) /\ procs[p].pc = "put"
    BY <1>10 DEF Put, Trying, At, Alive
  <2>2. r.src = procs[p].src /\ r.copy = procs[p].copy /\ r.todo = procs[p].todo \ {d} /\ HandOK(r)
    BY <1>1, <2>1 DEF Publisher, HandOK
  <2> HIDE DEF r, Goal
  <2> QED BY <1>2, <2>1, <2>2
<1>11. ASSUME NEW d \in procs[p].todo, Abandon(p, d) PROVE Goal
  <2> DEFINE r == [procs[p] EXCEPT !.pc = "put", !.todo = @ \ {d}, !.undelivered = @ \cup {d}]
  <2>1. Turns(p, r) /\ Alive(p)
    BY <1>11 DEF Abandon, At, Alive
  <2>2. r.src = procs[p].src /\ r.copy = procs[p].copy /\ r.todo = procs[p].todo \ {d} /\ HandOK(r)
    BY <1>1 DEF Publisher, HandOK
  <2> HIDE DEF r, Goal
  <2> QED BY <1>2, <2>1, <2>2
<1>12. ASSUME NEW d \in procs[p].todo, PutTimesOut(p, d) PROVE Goal
  BY <1>4, <1>12 DEF PutTimesOut, Trying, At, Alive
<1>13. ASSUME NEW d \in procs[p].todo, PutBreaks(p, d) PROVE Goal
  BY <1>3, <1>13 DEF PutBreaks, Trying, At, Alive
<1> QED
  BY <1>5, <1>6, <1>7, <1>8, <1>9, <1>10, <1>11, <1>12, <1>13 DEF Publish

-----------------------------------------------------------------------------
(* What the others see of a caller's step *)

\* Ids, logs and publishers only grow, and a new publisher begins with empty hands.
LEMMA CallerMoves ==
  ASSUME TypeOK, NEW c \in Callers, BeginCall(c) \/ ContinueCall(c)
  PROVE  /\ \A o \in Callers \ {c}: local'[o] = local[o]
         /\ UNCHANGED <<log, done, broken>>
         /\ \A i \in Ids: queueOf'[i] = queueOf[i]
         /\ \A p \in DOMAIN procs: p \in DOMAIN procs' /\ procs'[p] = procs[p]
         /\ \A p \in DOMAIN procs' \ DOMAIN procs:
              /\ procs'[p] = NewPublisher(local[c].cur)
              /\ UNCHANGED destinations
<1>1. \E r: Becomes(c, r)
  <2>1. ASSUME NEW call, Register(c, call) \/ Unregister(c, call) \/ Stop(c, call)
                          \/ IsDrained(c, call) \/ Audit(c, call)
        PROVE  \E r: Becomes(c, r)
    BY <2>1, Zenon DEF Register, Unregister, Stop, IsDrained, Audit, Acquire, Refuse, Continue
  <2>2. CASE NextToStop(c) \/ SetStop(c) \/ FetchPublisher(c) \/ JoinPublisher(c)
               \/ ClearStop(c) \/ ForgetStop(c) \/ CreateStop(c)
    BY <2>2, Zenon DEF NextToStop, SetStop, FetchPublisher, JoinPublisher, ClearStop,
       ForgetStop, CreateStop, Advance, Goto, Return, Continue
  <2>3. CASE NextToStart(c) \/ StartPublisher(c) \/ StorePublisher(c)
               \/ LookAtQueue(c) \/ AuditQueue(c)
    BY <2>3, Zenon DEF NextToStart, StartPublisher, StorePublisher, LookAtQueue, AuditQueue,
       AfterStart, Advance, Goto, Return, Continue
  <2> QED BY <2>1, <2>2, <2>3 DEF BeginCall, ContinueCall
<1>2. UNCHANGED <<log, done, broken>>
  BY DEF BeginCall, ContinueCall, Register, Unregister, Stop, IsDrained, Audit, NextToStop, SetStop,
     FetchPublisher, JoinPublisher, ClearStop, ForgetStop, CreateStop, NextToStart, StartPublisher,
     StorePublisher, LookAtQueue, AuditQueue, queueVars
<1>3. \A i \in Ids: queueOf'[i] = queueOf[i]
  <2>1. ASSUME NEW call \in CallsOf(c), Register(c, call)
        PROVE  \A i \in Ids: queueOf'[i] = queueOf[i]
    <3>1. queueOf' = queueOf \/ queueOf' = Append(queueOf, call.q)
      BY <2>1 DEF Register
    <3> QED BY <3>1 DEF TypeOK, RegistryType, Ids
  <2>2. ASSUME NEW call, Unregister(c, call) \/ Stop(c, call) \/ IsDrained(c, call) \/ Audit(c, call)
        PROVE  queueOf' = queueOf
    BY <2>2 DEF Unregister, Stop, IsDrained, Audit, registry
  <2>3. ContinueCall(c) => queueOf' = queueOf
    BY DEF ContinueCall, NextToStop, SetStop, FetchPublisher, JoinPublisher, ClearStop, ForgetStop,
       CreateStop, NextToStart, StartPublisher, StorePublisher, LookAtQueue, AuditQueue, registry
  <2> QED BY <2>1, <2>2, <2>3 DEF BeginCall
<1>4. \/ procs' = procs
      \/ procs' = Append(procs, NewPublisher(local[c].cur)) /\ UNCHANGED destinations
  BY DEF BeginCall, ContinueCall, Register, Unregister, Stop, IsDrained, Audit, NextToStop, SetStop,
     FetchPublisher, JoinPublisher, ClearStop, ForgetStop, CreateStop, NextToStart, StartPublisher,
     StorePublisher, LookAtQueue, AuditQueue
<1>5. ASSUME NEW r, procs' = Append(procs, r)
      PROVE  /\ \A p \in DOMAIN procs: p \in DOMAIN procs' /\ procs'[p] = procs[p]
             /\ \A p \in DOMAIN procs' \ DOMAIN procs: procs'[p] = r
  BY <1>5 DEF TypeOK, PublishersType
<1> QED BY <1>1, <1>2, <1>3, <1>4, <1>5, BecomesFields

LEMMA HandsInit == Init => HandsOK
BY DEF Init, HandsOK

LEMMA HandsNext == TypeOK /\ HandsOK /\ [Next]_vars => HandsOK'
<1> SUFFICES ASSUME TypeOK, HandsOK, [Next]_vars PROVE HandsOK'
  OBVIOUS
<1>1. ASSUME NEW c \in Callers, BeginCall(c) \/ ContinueCall(c) PROVE HandsOK'
  <2>1. \A p \in DOMAIN procs' \ DOMAIN procs: HandOK(procs'[p])
    BY <1>1, CallerMoves DEF HandOK, NewPublisher
  <2> QED BY <1>1, <2>1, CallerMoves DEF HandsOK
<1>2. ASSUME NEW p \in DOMAIN procs, Publish(p) PROVE HandsOK'
  BY <1>2, PublisherMoves DEF HandsOK
<1>3. CASE UNCHANGED vars \/ \E q \in Queues: Produce(q) \/ Consume(q) \/ Break(q)
  BY <1>3 DEF vars, Produce, Consume, Break, HandsOK
<1> QED BY <1>1, <1>2, <1>3 DEF Next

\* A publisher holds an item, and has destinations left to try, only from the get to the end
\* of the fan-out.
THEOREM HandsInvariant == Spec => []HandsOK
BY TypeCorrect, HandsInit, HandsNext, PTL DEF Spec

-----------------------------------------------------------------------------
(* Which destinations a publisher knows *)

StopLoop == {"next", "set", "fetch", "join", "clear"}

\* The caller whose record is r has put d in the dict, or taken it out, and is stopping
\* the publishers that do not know of it yet.
AddedBy(r, d)   == r.pc \in StopLoop /\ r.call.op = "register" /\ r.new = d
RemovedBy(r, d) == /\ r.pc \in StopLoop /\ r.call.op = "unregister"
                   /\ r.call.dir = "destination" /\ r.call.id = d

\* Publishers know the registered destinations and no others, but for the ones being changed.
KnowledgeInv ==
  \A p \in DOMAIN procs: Alive(p) =>
    /\ \A d \in destinations: d \in DestQueues(p) \/ \E c \in Callers: AddedBy(local[c], d)
    /\ \A d \in DestQueues(p) \cup procs[p].todo:
         d \in destinations \/ \E c \in Callers: RemovedBy(local[c], d)

\* A call that has the lock and finds no publisher running leaves none alive.
LEMMA NobodyAlive ==
  ASSUME TypeOK, ReaderInv, NEW c \in Callers, lock = c, ~Forgetting(c), local[c].pc # "store",
         \A i \in sources: i \notin BusyIds
  PROVE  \A p \in DOMAIN procs: ~Alive(p)
<1> SUFFICES ASSUME NEW p \in DOMAIN procs, Alive(p) PROVE FALSE
  OBVIOUS
<1>1. ASSUME NEW o \in Callers, Forgetting(o) \/ local[o].pc = "store" PROVE FALSE
  <2>1. InCall(o) /\ local[o].call.op # "stop"
    BY <1>1 DEF Forgetting, ForgetsSource, InCall, ReaderInv, StepsOfCalls
  <2>2. lock = o
    BY <2>1 DEF ReaderInv, CallersHoldLock
  <2> QED BY <1>1, <2>2
<1>2. procs[p].src \in sources
  BY <1>1 DEF ReaderInv, AliveReadsSource
<1>3. p = pubOf[procs[p].src]
  BY <1>1 DEF ReaderInv, AliveIsKnown
<1>4. p # 0 /\ procs[p].src \in Ids
  BY <1>2, LenProperties DEF TypeOK, RegistryType, PublishersType
<1> QED BY <1>2, <1>3, <1>4 DEF BusyIds, Running

\* A change of the destinations goes on until every publisher is dead.
LEMMA StillChanging ==
  ASSUME TypeOK, ReaderInv, CallsInv, NEW c \in Callers, ContinueCall(c), local[c].pc \in StopLoop,
         local[c].call.op # "stop", ~ForgetsSource(local[c].call)
  PROVE  \/ /\ local'[c].pc \in StopLoop /\ local'[c].call = local[c].call
            /\ local'[c].new = local[c].new
         \/ /\ NextToStop(c) /\ Exhausted(c)
            /\ \A p \in DOMAIN procs: ~Alive(p)
<1> DEFINE Goal == local'[c].pc \in StopLoop /\ local'[c].call = local[c].call
                   /\ local'[c].new = local[c].new
<1>1. /\ lock = c /\ LoopOK(local[c], sources, BusyIds) /\ local[c].pc \in LoopPcs
      /\ local[c] \in Caller /\ local[c].loop \in [last: Nat, left: Int, size: Nat] /\ InCall(c)
  <2>1. local[c].pc \in LoopPcs \ {"start", "store"} /\ InCall(c)
    BY DEF StopLoop, LoopPcs, InCall
  <2>2. local[c] \in Caller
    BY LocalIsTyped
  <2> QED BY <2>1, <2>2, LockedCaller DEF LoopsOver, Caller
<1>2. ASSUME NEW pc \in StopLoop, Goto(c, pc) PROVE Goal
  <2>1. local'[c] = [local[c] EXCEPT !.pc = pc]
    BY <1>2, BecomesFields DEF Goto, Continue
  <2> QED BY <1>1, <1>2, <2>1 DEF Caller
<1>3. CASE NextToStop(c)
  <2>1. ~Disturbed(local[c].loop)
    BY <1>1, Undisturbed
  <2>2. ASSUME Advance(c, "set") PROVE Goal
    <3>1. PICK id \in sources:
            Continue(c, [local[c] EXCEPT !.pc = "set", !.cur = id,
                           !.loop = [local[c].loop EXCEPT !.last = id, !.left = @ - 1]])
      BY <2>2 DEF Advance
    <3>2. local'[c] = [local[c] EXCEPT !.pc = "set", !.cur = id,
                         !.loop = [local[c].loop EXCEPT !.last = id, !.left = @ - 1]]
      BY <3>1, BecomesFields DEF Continue
    <3> QED BY <1>1, <3>2 DEF Caller, StopLoop
  <2>3. ASSUME Exhausted(c) PROVE \A p \in DOMAIN procs: ~Alive(p)
    <3>1. \A i \in sources: ~(i > local[c].loop.last)
      BY <2>3 DEF Exhausted, Ahead
    <3>2. \A i \in sources: i \in Nat
      BY DEF TypeOK, RegistryType, Ids
    <3>3. \A i \in sources: i <= local[c].loop.last
      BY <1>1, <3>1, <3>2
    <3>4. local[c].pc = "next"
      BY <1>3 DEF NextToStop
    <3>5. \A i \in sources: i \notin BusyIds
      BY <1>1, <3>3, <3>4 DEF LoopOK
    <3>6. ~Forgetting(c)
      BY DEF Forgetting
    <3> QED BY <1>1, <3>4, <3>5, <3>6, NobodyAlive
  <2> QED BY <1>3, <2>1, <2>2, <2>3 DEF NextToStop
<1>4. CASE SetStop(c)
  <2>1. local[c].pc = "set" /\ local[c].cur \in sources
    BY <1>1, <1>4 DEF SetStop, LoopOK
  <2>2. local[c].cur \in hasStop
    BY <1>1, <2>1, HasStopEvent
  <2> QED BY <1>2, <1>4, <2>2 DEF SetStop, StopLoop
<1>5. CASE FetchPublisher(c)
  <2> DEFINE p == pubOf[local[c].cur]
             next == IF p = 0 THEN "clear" ELSE "join"
  <2>1. Continue(c, [local[c] EXCEPT !.proc = p, !.pc = next])
    BY <1>5 DEF FetchPublisher
  <2>2. next \in StopLoop
    BY DEF StopLoop
  <2> HIDE DEF p, next
  <2>3. local'[c] = [local[c] EXCEPT !.proc = p, !.pc = next]
    BY <2>1, BecomesFields DEF Continue
  <2> QED BY <1>1, <2>2, <2>3 DEF Caller
<1>6. CASE JoinPublisher(c) \/ ClearStop(c)
  BY <1>2, <1>6 DEF JoinPublisher, ClearStop, StopLoop
<1>7. CASE ForgetStop(c) \/ CreateStop(c) \/ NextToStart(c) \/ StartPublisher(c)
             \/ StorePublisher(c) \/ LookAtQueue(c) \/ AuditQueue(c)
  BY <1>7 DEF ForgetStop, CreateStop, NextToStart, StartPublisher, StorePublisher, LookAtQueue,
     AuditQueue, StopLoop
<1> QED BY <1>3, <1>4, <1>5, <1>6, <1>7 DEF ContinueCall

\* A step after which the living publishers are as before, or newly started with the
\* registered destinations, and every change of the destinations is still under way.
LEMMA KnowledgeKept ==
  ASSUME KnowledgeInv,
         \A p \in DOMAIN procs' \ DOMAIN procs: procs'[p].todo = {} /\ procs'[p].copy =
           IF Threaded THEN {} ELSE destinations',
         \A p \in DOMAIN procs: Alive(p)' =>
           /\ p \in DOMAIN procs' /\ Alive(p) /\ procs'[p].copy = procs[p].copy
           /\ procs'[p].todo \subseteq procs[p].todo \cup DestQueues(p),
         (\A p \in DOMAIN procs: ~Alive(p)) \/
           /\ \A d \in destinations': d \in destinations \/ \E c \in Callers: AddedBy(local'[c], d)
           /\ \A d \in destinations: d \in destinations' \/ \E c \in Callers: RemovedBy(local'[c], d)
           /\ \A c \in Callers: \A d: AddedBy(local[c], d) => AddedBy(local'[c], d)
           /\ \A c \in Callers: \A d: RemovedBy(local[c], d) => RemovedBy(local'[c], d)
  PROVE  KnowledgeInv'
<1> SUFFICES ASSUME NEW p \in DOMAIN procs', Alive(p)'
             PROVE  /\ \A d \in destinations': \/ d \in DestQueues(p)'
                                               \/ \E c \in Callers: AddedBy(local'[c], d)
                    /\ \A d \in DestQueues(p)' \cup procs'[p].todo:
                         d \in destinations' \/ \E c \in Callers: RemovedBy(local'[c], d)
  BY DEF KnowledgeInv
<1>1. CASE p \notin DOMAIN procs
  BY <1>1 DEF DestQueues
<1>2. CASE p \in DOMAIN procs
  <2>1. /\ Alive(p) /\ procs'[p].copy = procs[p].copy
        /\ procs'[p].todo \subseteq procs[p].todo \cup DestQueues(p)
    BY <1>2
  <2>2. /\ \A d \in destinations: d \in DestQueues(p) \/ \E c \in Callers: AddedBy(local[c], d)
        /\ \A d \in DestQueues(p) \cup procs[p].todo:
             d \in destinations \/ \E c \in Callers: RemovedBy(local[c], d)
    BY <1>2, <2>1 DEF KnowledgeInv
  <2>3. /\ \A d \in destinations': d \in destinations \/ \E c \in Callers: AddedBy(local'[c], d)
        /\ \A d \in destinations: d \in destinations' \/ \E c \in Callers: RemovedBy(local'[c], d)
        /\ \A c \in Callers: \A d: AddedBy(local[c], d) => AddedBy(local'[c], d)
        /\ \A c \in Callers: \A d: RemovedBy(local[c], d) => RemovedBy(local'[c], d)
    BY <1>2, <2>1
  <2>4. ASSUME NEW d \in destinations'
        PROVE  d \in DestQueues(p)' \/ \E c \in Callers: AddedBy(local'[c], d)
    <3>1. CASE d \in destinations
      BY <2>1, <2>2, <2>3, <2>4, <3>1 DEF DestQueues
    <3> QED BY <2>3, <3>1
  <2>5. ASSUME NEW d \in DestQueues(p)' \cup procs'[p].todo
        PROVE  d \in destinations' \/ \E c \in Callers: RemovedBy(local'[c], d)
    <3>1. CASE d \in DestQueues(p) \cup procs[p].todo
      BY <2>2, <2>3, <3>1
    <3>2. d \in DestQueues(p) \cup procs[p].todo \/ d \in destinations'
      BY <2>1 DEF DestQueues
    <3> QED BY <3>1, <3>2
  <2> QED BY <2>4, <2>5
<1> QED BY <1>1, <1>2

\* A caller's step leaves the changes of the others alone.
LEMMA OwnChanges ==
  ASSUME NEW c \in Callers, \A o \in Callers \ {c}: local'[o] = local[o],
         \A d: AddedBy(local[c], d) => AddedBy(local'[c], d),
         \A d: RemovedBy(local[c], d) => RemovedBy(local'[c], d)
  PROVE  /\ \A o \in Callers: \A d: AddedBy(local[o], d) => AddedBy(local'[o], d)
         /\ \A o \in Callers: \A d: RemovedBy(local[o], d) => RemovedBy(local'[o], d)
OBVIOUS

LEMMA KnowledgeBegin ==
  ASSUME TypeOK, KnowledgeInv, NEW c \in Callers, BeginCall(c)
  PROVE  KnowledgeInv'
<1>1. PICK call \in CallsOf(c): Register(c, call) \/ Unregister(c, call) \/ Stop(c, call)
                                \/ IsDrained(c, call) \/ Audit(c, call)
  BY DEF BeginCall
<1>2. local[c].pc = "idle"
  BY CallIsTyped
<1>3. /\ \A o \in Callers: \A d: AddedBy(local[o], d) => AddedBy(local'[o], d)
      /\ \A o \in Callers: \A d: RemovedBy(local[o], d) => RemovedBy(local'[o], d)
  BY <1>2, CallerMoves, OwnChanges DEF AddedBy, RemovedBy, StopLoop
<1>4. procs' = procs
  BY <1>1 DEF Register, Unregister, Stop, IsDrained, Audit
<1>5. \A d \in destinations': d \in destinations \/ \E o \in Callers: AddedBy(local'[o], d)
  <2>1. ASSUME Register(c, call), NEW d \in destinations' \ destinations
        PROVE  AddedBy(local'[c], d)
    <3> DEFINE id == Len(queueOf) + 1
               loop == LoopOver(sources)
    <3>1. Acquire(c, [Enter(c, call, "next") EXCEPT !.new = id, !.loop = loop])
          /\ d = id /\ call.op = "register"
      BY <2>1 DEF Register
    <3> HIDE DEF id, loop
    <3>2. local'[c] = [Enter(c, call, "next") EXCEPT !.new = id, !.loop = loop]
      BY <3>1, BecomesFields DEF Acquire
    <3>3. local'[c].pc = "next" /\ local'[c].call = call /\ local'[c].new = id
      BY <3>2, EnterFields
    <3> QED BY <3>1, <3>3 DEF AddedBy, StopLoop
  <2>2. ASSUME ~Register(c, call) PROVE destinations' \subseteq destinations
    BY <1>1, <2>2 DEF Unregister, Stop, IsDrained, Audit, registry
  <2> QED BY <2>1, <2>2
<1>6. \A d \in destinations: d \in destinations' \/ \E o \in Callers: RemovedBy(local'[o], d)
  <2>1. ASSUME Unregister(c, call), NEW d \in destinations \ destinations'
        PROVE  RemovedBy(local'[c], d)
    <3> DEFINE loop == LoopOver(sources)
    <3>1. /\ Acquire(c, [Enter(c, call, "next") EXCEPT !.loop = loop])
          /\ d = call.id /\ call.op = "unregister" /\ call.dir = "destination"
      BY <2>1 DEF Unregister
    <3> HIDE DEF loop
    <3>2. local'[c] = [Enter(c, call, "next") EXCEPT !.loop = loop]
      BY <3>1, BecomesFields DEF Acquire
    <3>3. local'[c].pc = "next" /\ local'[c].call = call
      BY <3>2, EnterFields
    <3> QED BY <3>1, <3>3 DEF RemovedBy, StopLoop
  <2>2. ASSUME ~Unregister(c, call) PROVE destinations \subseteq destinations'
    BY <1>1, <2>2 DEF Register, Stop, IsDrained, Audit, registry
  <2> QED BY <2>1, <2>2
<1>7. \A p \in DOMAIN procs: Alive(p)' =>
           /\ p \in DOMAIN procs' /\ Alive(p) /\ procs'[p].copy = procs[p].copy
           /\ procs'[p].todo \subseteq procs[p].todo \cup DestQueues(p)
  BY <1>4 DEF Alive
<1> QED BY <1>3, <1>4, <1>5, <1>6, <1>7, KnowledgeKept

LEMMA KnowledgeContinue ==
  ASSUME TypeOK, ReaderInv, CallsInv, KnowledgeInv, NEW c \in Callers, ContinueCall(c)
  PROVE  KnowledgeInv'
<1>1. destinations' = destinations
  BY DEF ContinueCall, NextToStop, SetStop, FetchPublisher, JoinPublisher, ClearStop, ForgetStop,
     CreateStop, NextToStart, StartPublisher, StorePublisher, LookAtQueue, AuditQueue, registry
<1>2. /\ \A p \in DOMAIN procs: p \in DOMAIN procs' /\ procs'[p] = procs[p]
      /\ \A p \in DOMAIN procs' \ DOMAIN procs: procs'[p].todo = {} /\ procs'[p].copy =
           IF Threaded THEN {} ELSE destinations'
  <2>1. /\ NewPublisher(local[c].cur).todo = {}
        /\ NewPublisher(local[c].cur).copy = IF Threaded THEN {} ELSE destinations
    BY DEF NewPublisher
  <2>2. /\ \A p \in DOMAIN procs: p \in DOMAIN procs' /\ procs'[p] = procs[p]
        /\ \A p \in DOMAIN procs' \ DOMAIN procs: procs'[p] = NewPublisher(local[c].cur)
    BY CallerMoves
  <2> QED BY <1>1, <2>1, <2>2
<1>3. CASE \A d: ~AddedBy(local[c], d) /\ ~RemovedBy(local[c], d)
  <2>1. /\ \A o \in Callers: \A d: AddedBy(local[o], d) => AddedBy(local'[o], d)
        /\ \A o \in Callers: \A d: RemovedBy(local[o], d) => RemovedBy(local'[o], d)
    BY <1>3, CallerMoves, OwnChanges
  <2> QED BY <1>1, <1>2, <2>1, KnowledgeKept DEF Alive
<1>4. CASE \E d: AddedBy(local[c], d) \/ RemovedBy(local[c], d)
  <2>1. \/ /\ local'[c].pc \in StopLoop /\ local'[c].call = local[c].call
           /\ local'[c].new = local[c].new
        \/ \A p \in DOMAIN procs: ~Alive(p)
    BY <1>4, StillChanging DEF AddedBy, RemovedBy, ForgetsSource
  <2>2. CASE \A p \in DOMAIN procs: ~Alive(p)
    BY <1>1, <1>2, <2>2, KnowledgeKept DEF Alive
  <2>3. CASE /\ local'[c].pc \in StopLoop /\ local'[c].call = local[c].call
             /\ local'[c].new = local[c].new
    <3>1. /\ \A d: AddedBy(local[c], d) => AddedBy(local'[c], d)
          /\ \A d: RemovedBy(local[c], d) => RemovedBy(local'[c], d)
      BY <2>3 DEF AddedBy, RemovedBy
    <3>2. /\ \A o \in Callers: \A d: AddedBy(local[o], d) => AddedBy(local'[o], d)
          /\ \A o \in Callers: \A d: RemovedBy(local[o], d) => RemovedBy(local'[o], d)
      BY <3>1, CallerMoves, OwnChanges
    <3> QED BY <1>1, <1>2, <3>2, KnowledgeKept DEF Alive
  <2> QED BY <2>1, <2>2, <2>3
<1> QED BY <1>3, <1>4

LEMMA KnowledgeInit == Init => KnowledgeInv
BY DEF Init, KnowledgeInv

LEMMA KnowledgeNext ==
  TypeOK /\ ReaderInv /\ CallsInv /\ HandsOK /\ KnowledgeInv /\ [Next]_vars => KnowledgeInv'
<1> SUFFICES ASSUME TypeOK, ReaderInv, CallsInv, HandsOK, KnowledgeInv, [Next]_vars
             PROVE  KnowledgeInv'
  OBVIOUS
<1>1. ASSUME NEW c \in Callers, BeginCall(c) PROVE KnowledgeInv'
  BY <1>1, KnowledgeBegin
<1>2. ASSUME NEW c \in Callers, ContinueCall(c) PROVE KnowledgeInv'
  BY <1>2, KnowledgeContinue
<1>3. ASSUME NEW p \in DOMAIN procs, Publish(p) PROVE KnowledgeInv'
  <2>1. UNCHANGED <<destinations, local>> /\ DOMAIN procs' = DOMAIN procs
    BY <1>3, PublisherMoves DEF registry, callerVars
  <2>2. \A o \in DOMAIN procs: /\ procs'[o].copy = procs[o].copy /\ (Alive(o)' => Alive(o))
                               /\ procs'[o].todo \subseteq procs[o].todo \cup DestQueues(o)
    BY <1>3, PublisherMoves DEF Alive
  <2> QED BY <2>1, <2>2, KnowledgeKept
<1>4. CASE UNCHANGED vars \/ \E q \in Queues: Produce(q) \/ Consume(q) \/ Break(q)
  <2>1. UNCHANGED <<destinations, local, procs>>
    BY <1>4 DEF vars, Produce, Consume, Break, registry, callerVars
  <2> QED BY <2>1, KnowledgeKept DEF Alive
<1> QED BY <1>1, <1>2, <1>3, <1>4 DEF Next

\* Every living publisher puts on the registered destinations, all of them and no other,
\* except those that a register_queue or unregister_queue under way is about.
THEOREM KnowledgeInvariant == Spec => []KnowledgeInv
BY TypeCorrect, ReaderInvariant, CallsInvariant, HandsInvariant, KnowledgeInit, KnowledgeNext, PTL
   DEF Spec

\* The destination a publisher puts on: only Put changes a log and a publisher's todo.
LEMMA QuietNext ==
  ASSUME TypeOK, KnowledgeInv, [Next]_vars, PublisherPuts, NEW q \in Queues, log'[q] # log[q]
  PROVE  \E id \in Ids: queueOf[id] = q /\ (id \in destinations \/ Unregistering(id))
<1>1. PICK p \in DOMAIN procs: procs[p].pc = "put" /\ procs'[p].todo # procs[p].todo
  BY DEF PublisherPuts
<1>2. ~\E c \in Callers: BeginCall(c) \/ ContinueCall(c)
  BY CallerMoves
<1>3. ~(UNCHANGED vars \/ \E o \in Queues: Produce(o) \/ Consume(o) \/ Break(o))
  BY <1>1 DEF vars, queueVars, Produce, Consume, Break
<1>4. PICK o \in DOMAIN procs: Publish(o)
  BY <1>2, <1>3 DEF Next
<1>5. PICK d \in procs[o].todo: Put(o, d)
  BY <1>4 DEF Publish, CheckStop, GetItem, GetEmpty, Snapshot, PutAgain, FinishItem, PutTimesOut,
     Abandon, PutBreaks, queueVars
<1>6. Alive(o) /\ queueOf[d] = q
  BY <1>5 DEF Put, Trying, At, Alive, TypeOK, QueuesType
<1>7. d \in destinations \/ \E c \in Callers: RemovedBy(local[c], d)
  BY <1>6 DEF KnowledgeInv
<1>8. d \in Ids
  BY PublisherIsTyped DEF PublisherOK
<1> QED BY <1>6, <1>7, <1>8 DEF RemovedBy, Unregistering, InCall, StopLoop

\* Once unregister_queue has returned, no publisher puts on that destination any more.
THEOREM LeftAlone == Spec => QuietAfterUnregister
<1>1. TypeOK /\ KnowledgeInv /\ [Next]_vars =>
        [\A q \in Queues:
           PublisherPuts /\ log'[q] # log[q] =>
             \E id \in Ids: queueOf[id] = q /\ (id \in destinations \/ Unregistering(id))]_vars
  BY QuietNext
<1> QED BY <1>1, TypeCorrect, KnowledgeInvariant, PTL DEF Spec, QuietAfterUnregister

-----------------------------------------------------------------------------
(* Promised deliveries *)

\* The application does not read the queues it puts on.
SeparateQueues == \A q \in Consumed: MaxPuts[q] = 0

\* Deliveries are promised to destinations whose register_queue has returned, of items the
\* application put.
PromiseInv == \A o \in owed: MaxPuts[o.item.from] # 0 /\ Established(o.dest)

\* A call keeps its arguments, and the id it gave out, until it returns.
LEMMA CallGoesOn ==
  ASSUME TypeOK, NEW c \in Callers, ContinueCall(c)
  PROVE  /\ InCall(c)
         /\ \/ local'[c].pc = "idle"
            \/ /\ local'[c].call = local[c].call /\ local'[c].new = local[c].new
               /\ local'[c].pc = "audit" => local[c].pc = "audit"
               /\ local'[c].pc = "store" => StartPublisher(c)
<1> DEFINE Goal == \/ local'[c].pc = "idle"
                   \/ /\ local'[c].call = local[c].call /\ local'[c].new = local[c].new
                      /\ local'[c].pc = "audit" => local[c].pc = "audit"
                      /\ local'[c].pc = "store" => StartPublisher(c)
<1>1. local[c] \in Caller
  BY LocalIsTyped
<1> SUFFICES Goal
  <2>1. CASE NextToStop(c) \/ SetStop(c) \/ FetchPublisher(c) \/ JoinPublisher(c)
               \/ ClearStop(c) \/ ForgetStop(c) \/ CreateStop(c)
    BY <2>1 DEF NextToStop, SetStop, FetchPublisher, JoinPublisher, ClearStop, ForgetStop,
       CreateStop, InCall
  <2>2. CASE NextToStart(c) \/ StartPublisher(c) \/ StorePublisher(c)
               \/ LookAtQueue(c) \/ AuditQueue(c)
    BY <2>2 DEF NextToStart, StartPublisher, StorePublisher, LookAtQueue, AuditQueue, InCall
  <2> QED BY <2>1, <2>2 DEF ContinueCall
<1>2. ASSUME NEW result, Return(c, result) PROVE Goal
  BY <1>2, ReturnFields
<1>3. ASSUME NEW pc, Goto(c, pc), pc \notin {"audit", "store"} PROVE Goal
  BY <1>1, <1>3, BecomesFields DEF Goto, Continue, Caller
<1>4. ASSUME NEW body, Advance(c, body), body \notin {"audit", "store"} PROVE Goal
  <2>1. PICK id \in sources:
          Continue(c, [local[c] EXCEPT !.pc = body, !.cur = id,
                         !.loop = [local[c].loop EXCEPT !.last = id, !.left = @ - 1]])
    BY <1>4 DEF Advance
  <2> DEFINE loop == [local[c].loop EXCEPT !.last = id, !.left = @ - 1]
  <2>2. local'[c] = [local[c] EXCEPT !.pc = body, !.cur = id, !.loop = loop]
    BY <2>1, BecomesFields DEF Continue
  <2> HIDE DEF loop
  <2>3. /\ local'[c].pc = body
        /\ local'[c].call = local[c].call /\ local'[c].new = local[c].new
    BY <1>1, <2>2 DEF Caller
  <2> QED BY <1>4, <2>3
<1>5. CASE NextToStop(c)
  <2>1. ASSUME NEW loop, Continue(c, [local[c] EXCEPT !.pc = "restart", !.loop = loop]) PROVE Goal
    <3>1. local'[c] = [local[c] EXCEPT !.pc = "restart", !.loop = loop]
      BY <2>1, BecomesFields DEF Continue
    <3> QED BY <1>1, <3>1 DEF Caller
  <2> HIDE DEF Goal
  <2> QED BY <1>2, <1>4, <1>5, <2>1 DEF NextToStop
<1>6. CASE SetStop(c) \/ JoinPublisher(c) \/ ClearStop(c) \/ ForgetStop(c) \/ CreateStop(c)
  <2> HIDE DEF Goal
  <2> QED BY <1>2, <1>3, <1>6 DEF SetStop, JoinPublisher, ClearStop, ForgetStop, CreateStop
<1>7. CASE FetchPublisher(c)
  <2>1. ASSUME NEW p, NEW next \in {"clear", "join"},
               Continue(c, [local[c] EXCEPT !.proc = p, !.pc = next])
        PROVE  Goal
    <3>1. local'[c] = [local[c] EXCEPT !.proc = p, !.pc = next]
      BY <2>1, BecomesFields DEF Continue
    <3> QED BY <1>1, <3>1 DEF Caller
  <2> HIDE DEF Goal
  <2>2. (IF pubOf[local[c].cur] = 0 THEN "clear" ELSE "join") \in {"clear", "join"}
    OBVIOUS
  <2> QED BY <1>7, <2>1, <2>2 DEF FetchPublisher
<1>8. CASE NextToStart(c)
  <2> HIDE DEF Goal
  <2> QED BY <1>2, <1>4, <1>8 DEF NextToStart
<1>9. CASE StartPublisher(c) \/ StorePublisher(c)
  <2>1. ASSUME NEW p, Continue(c, [local[c] EXCEPT !.pc = "store", !.proc = p]),
               StartPublisher(c)
        PROVE  Goal
    <3>1. local'[c] = [local[c] EXCEPT !.pc = "store", !.proc = p]
      BY <2>1, BecomesFields DEF Continue
    <3> QED BY <1>1, <2>1, <3>1 DEF Caller
  <2>2. ASSUME AfterStart(c) PROVE Goal
    BY <1>2, <1>3, <2>2 DEF AfterStart
  <2> HIDE DEF Goal
  <2> QED BY <1>2, <1>9, <2>1, <2>2 DEF StartPublisher, StorePublisher
<1>10. CASE LookAtQueue(c) \/ AuditQueue(c)
  <2> local[c].pc # "store"
    BY <1>10 DEF LookAtQueue, AuditQueue
  <2>1. ASSUME NEW look, NEW result,
               Continue(c, [local[c] EXCEPT !.look = look, !.result = result])
        PROVE  Goal
    <3>1. local'[c] = [local[c] EXCEPT !.look = look, !.result = result]
      BY <2>1, BecomesFields DEF Continue
    <3> QED BY <1>1, <3>1 DEF Caller
  <2>2. ASSUME NEW look, Continue(c, [local[c] EXCEPT !.look = look]) PROVE Goal
    <3>1. local'[c] = [local[c] EXCEPT !.look = look]
      BY <2>2, BecomesFields DEF Continue
    <3> QED BY <1>1, <3>1 DEF Caller
  <2> HIDE DEF Goal
  <2>3. \/ \E result: Return(c, result)
        \/ \E look, result: Continue(c, [local[c] EXCEPT !.look = look, !.result = result])
        \/ \E look: Continue(c, [local[c] EXCEPT !.look = look])
    BY <1>10, Zenon DEF LookAtQueue, AuditQueue
  <2> QED BY <1>2, <2>1, <2>2, <2>3
<1> QED BY <1>5, <1>6, <1>7, <1>8, <1>9, <1>10 DEF ContinueCall

\* A call that has begun: it was refused, or is at its first step.
LEMMA Begun ==
  ASSUME TypeOK, NEW c \in Callers, NEW call \in CallsOf(c),
         Register(c, call) \/ Unregister(c, call) \/ Stop(c, call)
           \/ IsDrained(c, call) \/ Audit(c, call)
  PROVE  \/ local'[c].pc = "idle" /\ sources' \subseteq sources /\ destinations' = destinations
         \/ /\ local'[c].call = call
            /\ \/ /\ RegistersSource(call) /\ local'[c].pc = "event"
                  /\ local'[c].new = Len(queueOf) + 1 /\ local'[c].cur = Len(queueOf) + 1
               \/ /\ call.op = "register" /\ call.dir = "destination" /\ local'[c].pc = "next"
                  /\ local'[c].new = Len(queueOf) + 1
               \/ ForgetsSource(call) /\ local'[c].pc = "set" /\ local'[c].cur = call.id
               \/ call.op = "unregister" /\ call.dir = "destination" /\ local'[c].pc = "next"
               \/ call.op = "stop" /\ local'[c].pc = "next"
               \/ call.op = "is_drained" /\ local'[c].pc = "look"
               \/ call.op = "audit" /\ local'[c].pc = "audit"
<1>1. ASSUME NEW result, Refuse(c, call, result) PROVE local'[c].pc = "idle"
  BY <1>1, RefuseFields
<1>2. CASE Register(c, call)
  <2> DEFINE id == Len(queueOf) + 1
             loop == LoopOver(sources)
             first == [Enter(c, call, "event") EXCEPT !.new = id, !.cur = id]
             second == [Enter(c, call, "next") EXCEPT !.new = id, !.loop = loop]
  <2>1. \/ /\ Refuse(c, call, "ValueError")
           /\ sources' \subseteq sources /\ destinations' = destinations
        \/ RegistersSource(call) /\ Becomes(c, first)
        \/ call.op = "register" /\ call.dir = "destination" /\ Becomes(c, second)
    BY <1>2, Zenon DEF Register, RegistersSource, Acquire
  <2> HIDE DEF id, loop
  <2>2. /\ first.call = call /\ first.pc = "event" /\ first.new = id /\ first.cur = id
        /\ second.call = call /\ second.pc = "next" /\ second.new = id
    BY EnterFields
  <2> HIDE DEF first, second
  <2> QED BY <1>1, <2>1, <2>2, BecomesFields DEF id
<1>3. CASE Unregister(c, call) \/ Stop(c, call)
  <2> DEFINE loop == LoopOver(sources)
             first == [Enter(c, call, "set") EXCEPT !.cur = call.id]
             second == [Enter(c, call, "next") EXCEPT !.loop = loop]
  <2>1. \/ /\ Refuse(c, call, "ok")
           /\ sources' \subseteq sources /\ destinations' = destinations
        \/ ForgetsSource(call) /\ Becomes(c, first)
        \/ call.op = "unregister" /\ call.dir = "destination" /\ Becomes(c, second)
        \/ call.op = "stop" /\ Becomes(c, second)
    BY <1>3, Zenon DEF Unregister, Stop, ForgetsSource, Acquire, Continue
  <2> HIDE DEF loop
  <2>2. /\ first.call = call /\ first.pc = "set" /\ first.cur = call.id
        /\ second.call = call /\ second.pc = "next"
    BY EnterFields
  <2> HIDE DEF first, second
  <2> QED BY <1>1, <2>1, <2>2, BecomesFields
<1>4. CASE IsDrained(c, call)
  <2>1. ASSUME NEW look, Acquire(c, [Enter(c, call, "look") EXCEPT !.result = "True", !.look = look])
        PROVE  local'[c].pc = "look" /\ local'[c].call = call
    <3>1. local'[c] = [Enter(c, call, "look") EXCEPT !.result = "True", !.look = look]
      BY <2>1, BecomesFields DEF Acquire
    <3> QED BY <3>1, EnterFields
  <2>2. (local'[c].pc = "look" /\ local'[c].call = call) \/ local'[c].pc = "idle"
    BY <1>1, <1>4, <2>1 DEF IsDrained
  <2> QED BY <1>4, <2>2 DEF IsDrained, registry
<1>5. CASE Audit(c, call)
  <2>1. local'[c].pc = "audit" /\ local'[c].call = call
    BY <1>5, BecomesFields, EnterFields DEF Audit, Acquire
  <2> QED BY <1>5, <2>1 DEF Audit
<1> QED BY <1>2, <1>3, <1>4, <1>5

\* A destination stays established until it is taken out of the dict.
LEMMA EstablishedKept ==
  ASSUME TypeOK, NEW c \in Callers, BeginCall(c) \/ ContinueCall(c),
         NEW d \in destinations', Established(d)
  PROVE  Established(d)'
<1> SUFFICES InCall(c)' /\ local'[c].call.op = "register" => local'[c].new # d
  BY CallerMoves DEF Established, InCall
<1>1. CASE ContinueCall(c)
  BY <1>1, CallGoesOn DEF Established, InCall
<1>2. CASE BeginCall(c)
  <2>1. d # Len(queueOf) + 1
    BY DEF Established, TypeOK, RegistryType, Ids
  <2> QED BY <1>2, <2>1, Begun DEF BeginCall, InCall, ForgetsSource
<1> QED BY <1>1, <1>2

\* Only putting an item makes promises, only unregistering a destination and putting on it
\* end them otherwise than by giving up.
LEMMA CallerPromises ==
  ASSUME NEW c \in Callers, BeginCall(c) \/ ContinueCall(c)
  PROVE  /\ owed' \subseteq owed /\ lost \subseteq lost'
         /\ \A o \in owed': o.dest \in destinations => o.dest \in destinations'
<1>1. CASE ContinueCall(c)
  <2>1. UNCHANGED <<owed, destinations>>
    BY <1>1 DEF ContinueCall, NextToStop, SetStop, FetchPublisher, JoinPublisher, ClearStop,
       ForgetStop, CreateStop, NextToStart, StartPublisher, StorePublisher, LookAtQueue, AuditQueue,
       registry, history
  <2>2. lost \subseteq lost'
    BY <1>1 DEF ContinueCall, NextToStop, SetStop, FetchPublisher, JoinPublisher, ClearStop,
       ForgetStop, CreateStop, NextToStart, StartPublisher, StorePublisher, LookAtQueue, AuditQueue,
       history
  <2> QED BY <2>1, <2>2
<1>2. CASE BeginCall(c)
  BY <1>2 DEF BeginCall, Register, Unregister, Stop, IsDrained, Audit, registry, history
<1> QED BY <1>1, <1>2

LEMMA PromiseInit == Init => PromiseInv
BY DEF Init, PromiseInv

LEMMA PromiseNext == TypeOK /\ HandsOK /\ PromiseInv /\ [Next]_vars => PromiseInv'
<1> SUFFICES ASSUME TypeOK, HandsOK, PromiseInv, [Next]_vars PROVE PromiseInv'
  OBVIOUS
<1>1. ASSUME NEW c \in Callers, BeginCall(c) \/ ContinueCall(c) PROVE PromiseInv'
  BY <1>1, CallerPromises, EstablishedKept DEF PromiseInv, Established
<1>2. ASSUME owed' \subseteq owed, UNCHANGED <<destinations, local>> PROVE PromiseInv'
  BY <1>2 DEF PromiseInv, Established, InCall
<1>3. ASSUME NEW p \in DOMAIN procs, Publish(p) PROVE PromiseInv'
  <2>1. owed' \subseteq owed
    BY <1>3 DEF Publish, CheckStop, GetItem, GetEmpty, Snapshot, PutAgain, FinishItem, Put,
       PutTimesOut, Abandon, PutBreaks, history
  <2> QED BY <1>2, <1>3, <2>1, PublisherMoves DEF registry, callerVars
<1>4. ASSUME NEW q \in Queues, Produce(q) PROVE PromiseInv'
  <2>1. UNCHANGED <<destinations, local>>
    BY <1>4 DEF Produce, registry, callerVars
  <2> DEFINE n == Cardinality({i \in 1..Len(log[q]): log[q][i].from = q}) + 1
             item == [from |-> q, n |-> n]
  <2>2. /\ n <= MaxPuts[q]
        /\ owed' = owed \cup {[item |-> item, dest |-> d]: d \in {i \in destinations: Established(i)}}
    BY <1>4 DEF Produce
  <2>3. MaxPuts[q] # 0
    <3>1. Cardinality({i \in 1..Len(log[q]): log[q][i].from = q}) \in Nat
      <4>1. IsFiniteSet(1..Len(log[q]))
        BY FS_Interval, LenProperties DEF TypeOK, QueuesType
      <4> QED BY <4>1, FS_Subset, FS_CardinalityType
    <3> QED BY <2>2, <3>1
  <2> HIDE DEF n
  <2>4. ASSUME NEW o \in owed', o \notin owed PROVE o.item.from = q /\ Established(o.dest)
    <3>1. PICK d \in {i \in destinations: Established(i)}: o = [item |-> item, dest |-> d]
      BY <2>2, <2>4
    <3> QED BY <3>1
  <2> QED BY <2>1, <2>3, <2>4 DEF PromiseInv, Established, InCall
<1>5. CASE UNCHANGED vars \/ \E q \in Queues: Consume(q) \/ Break(q)
  BY <1>2, <1>5 DEF vars, Consume, Break, registry, callerVars, history
<1> QED BY <1>1, <1>3, <1>4, <1>5 DEF Next

\* A delivery is promised to registered destinations only, and the promise is withdrawn when
\* the destination is taken out of the dict.
THEOREM PromiseInvariant == Spec => []PromiseInv
BY TypeCorrect, HandsInvariant, PromiseInit, PromiseNext, PTL DEF Spec

\* The publisher p has the item of o, and o's destination before it.
Holds(p, o) == /\ procs[p].item = o.item
               /\ \/ At(p, "snapshot") /\ o.dest \in DestQueues(p)
                  \/ o.dest \in procs[p].todo
GivenUp(o) == \E l \in lost: l.item = o.item /\ l.dest = o.dest
Safe(o)    == Waits(o.item) \/ (\E p \in DOMAIN procs: Holds(p, o)) \/ GivenUp(o)

LEMMA SafeMeans == NothingLostSilently <=> \A o \in owed: Safe(o)
BY DEF NothingLostSilently, Pending, Safe, Holds, GivenUp

\* Nobody takes an item out of the queue by putting one in.
LEMMA WaitsKept ==
  ASSUME TypeOK, NEW item, item.from \in Queues, Waits(item),
         head'[item.from] = head[item.from],
         log' = log \/ \E q \in Queues, x \in Items: log' = [log EXCEPT ![q] = Append(log[q], x)]
  PROVE  Waits(item)'
<1>1. PICK k \in 1..Len(log[item.from]): k > head[item.from] /\ log[item.from][k] = item
  BY DEF Waits
<1>2. log[item.from] \in Seq(Items)
  BY DEF TypeOK, QueuesType
<1>3. log'[item.from] = log[item.from] \/ \E x \in Items: log'[item.from] = Append(log[item.from], x)
  BY DEF TypeOK, QueuesType
<1>4. k \in 1..Len(log'[item.from]) /\ log'[item.from][k] = item
  BY <1>1, <1>2, <1>3
<1> QED BY <1>1, <1>4 DEF Waits

\* What is given up is recorded for every promised destination.
LEMMA GiveUpRecords ==
  ASSUME TypeOK, NEW o \in owed, NEW dests, o.dest \in dests, NEW why,
         lost' = lost \cup GiveUp(o.item, dests, why)
  PROVE  Safe(o)'
<1>1. o = [item |-> o.item, dest |-> o.dest]
  BY DEF TypeOK, HistoryType, Owed
<1>2. [item |-> o.item, dest |-> o.dest, why |-> why] \in GiveUp(o.item, dests, why)
  BY <1>1 DEF GiveUp
<1> QED BY <1>2 DEF Safe, GivenUp

\* A promise that a step does not bear on: the publishers it may be held by stay, and so does
\* what waits and what was recorded.
LEMMA SafeKept ==
  ASSUME NEW o, Safe(o), lost \subseteq lost',
         Waits(o.item) => Waits(o.item)',
         \A p \in DOMAIN procs: Holds(p, o) => p \in DOMAIN procs' /\ Holds(p, o)'
  PROVE  Safe(o)'
BY DEF Safe, GivenUp

LEMMA HeldStill ==
  ASSUME NEW o, o.dest \in destinations', NEW p \in DOMAIN procs,
         procs'[p] = procs[p], Holds(p, o)
  PROVE  Holds(p, o)'
BY DEF Holds, At, DestQueues

\* A caller's step: only an audit takes items, and it records the promises it breaks.
LEMMA CallerSafe ==
  ASSUME TypeOK, PromiseInv, PromiseInv', NothingLostSilently,
         NEW c \in Callers, BeginCall(c) \/ ContinueCall(c)
  PROVE  NothingLostSilently'
<1> SUFFICES ASSUME NEW o \in owed' PROVE Safe(o)'
  BY DEF NothingLostSilently, Pending, Safe, Holds, GivenUp
<1>1. /\ o \in owed /\ Safe(o) /\ o.dest \in destinations /\ o.dest \in destinations'
      /\ o.item.from \in Queues /\ lost \subseteq lost' /\ log' = log
  <2>1. o \in owed /\ lost \subseteq lost' /\ log' = log
    BY CallerPromises, CallerMoves
  <2>2. o.dest \in destinations /\ o.dest \in destinations'
    BY <2>1 DEF PromiseInv, Established
  <2>3. o.item.from \in Queues
    BY <2>1 DEF TypeOK, HistoryType, Owed, Items
  <2> QED BY <2>1, <2>2, <2>3, SafeMeans
<1>2. \A p \in DOMAIN procs: Holds(p, o) => p \in DOMAIN procs' /\ Holds(p, o)'
  BY <1>1, CallerMoves, HeldStill
<1>3. CASE head' = head
  BY <1>1, <1>2, <1>3, WaitsKept, SafeKept
<1>4. CASE head' # head
  <2>1. AuditQueue(c)
    BY <1>4 DEF BeginCall, ContinueCall, Register, Unregister, Stop, IsDrained, Audit, NextToStop,
       SetStop, FetchPublisher, JoinPublisher, ClearStop, ForgetStop, CreateStop, NextToStart,
       StartPublisher, StorePublisher, LookAtQueue, queueVars
  <2>2. PICK id \in local[c].look:
          LET q == queueOf[id]
              item == log[q][head[q] + 1]
          IN  /\ Unread(q) /\ head' = [head EXCEPT ![q] = @ + 1]
              /\ lost' = lost \cup GiveUp(item, {d \in destinations: item.from = q}, "audit")
    BY <1>4, <2>1 DEF AuditQueue
  <2> DEFINE q == queueOf[id]
             item == log[q][head[q] + 1]
  <2>3. /\ head' = [head EXCEPT ![q] = @ + 1]
        /\ lost' = lost \cup GiveUp(item, {d \in destinations: item.from = q}, "audit")
    BY <2>2
  <2> HIDE DEF q
  <2>4. CASE Waits(o.item) /\ o.item.from = q
    <3>1. PICK k \in 1..Len(log[q]): k > head[q] /\ log[q][k] = o.item
      BY <2>4 DEF Waits
    <3>2. head[q] \in Nat /\ k \in Nat /\ head'[q] = head[q] + 1
      BY <1>1, <2>3, <2>4 DEF TypeOK, QueuesType
    <3>3. CASE k = head[q] + 1
      <4>1. item = o.item
        BY <3>1, <3>3
      <4> HIDE DEF item
      <4> QED BY <1>1, <2>3, <2>4, <4>1, GiveUpRecords
    <3>4. CASE k # head[q] + 1
      <4>1. k > head'[q]
        BY <3>1, <3>2, <3>4
      <4> QED BY <1>1, <2>4, <3>1, <4>1 DEF Safe, Waits
    <3> QED BY <3>3, <3>4
  <2>5. CASE ~Waits(o.item) \/ o.item.from # q
    <3>1. o.item.from # q => head'[o.item.from] = head[o.item.from]
      BY <1>1, <2>3 DEF TypeOK, QueuesType
    <3>2. Waits(o.item) => Waits(o.item)'
      BY <1>1, <2>5, <3>1, WaitsKept
    <3> QED BY <1>1, <1>2, <3>2, SafeKept
  <2> QED BY <2>4, <2>5
<1> QED BY <1>3, <1>4

\* The step of publisher p, for a promise that only p's hands could break.
LEMMA TurnSafe ==
  ASSUME TypeOK, HandsOK, NEW p \in DOMAIN procs, Publish(p), NEW o \in owed, Safe(o),
         o.dest \in destinations, lost \subseteq lost',
         Waits(o.item) => Safe(o)',
         Holds(p, o) => Safe(o)'
  PROVE  Safe(o)'
<1>1. UNCHANGED destinations /\ DOMAIN procs' = DOMAIN procs
      /\ \A i \in DOMAIN procs: i # p => procs'[i] = procs[i]
  BY PublisherMoves DEF registry
<1>2. \A i \in DOMAIN procs: i # p /\ Holds(i, o) => Holds(i, o)'
  BY <1>1, HeldStill
<1> QED BY <1>1, <1>2 DEF Safe, GivenUp

\* A publisher's step: it takes an item into its hand, and lets go of a destination only by
\* putting on it or by recording that it gave it up.
LEMMA PublishSafe ==
  ASSUME TypeOK, HandsOK, KnowledgeInv, PromiseInv, NothingLostSilently,
         NEW p \in DOMAIN procs, Publish(p)
  PROVE  NothingLostSilently'
<1> SUFFICES ASSUME NEW o \in owed' PROVE Safe(o)'
  BY DEF NothingLostSilently, Pending, Safe, Holds, GivenUp
<1>1. /\ o \in owed /\ Safe(o) /\ o.dest \in destinations /\ lost \subseteq lost'
      /\ o = [item |-> o.item, dest |-> o.dest] /\ o.item.from \in Queues
  <2>1. owed' \subseteq owed /\ lost \subseteq lost'
    BY DEF Publish, CheckStop, GetItem, GetEmpty, Snapshot, PutAgain, FinishItem, Put,
       PutTimesOut, Abandon, PutBreaks, history
  <2>2. o = [item |-> o.item, dest |-> o.dest] /\ o.item.from \in Queues
    BY <2>1 DEF TypeOK, HistoryType, Owed, Items
  <2> QED BY <2>1, <2>2, SafeMeans DEF PromiseInv, Established
<1>2. /\ procs[p] \in Publisher /\ HandOK(procs[p]) /\ Source(p) \in Queues /\ Alive(p)
      /\ procs[p].pc \in {"snapshot", "put", "full"} => procs[p].item \in Items
  BY PublisherIsTyped, PublisherMoves DEF HandsOK, PublisherOK
<1>3. \A r: Turns(p, r) => procs'[p] = r /\ p \in DOMAIN procs'
  BY DEF Turns
\* Established destinations are known to every living publisher.
<1>4. o.dest \in DestQueues(p)
  <2>1. ~\E c \in Callers: AddedBy(local[c], o.dest)
    BY <1>1 DEF PromiseInv, Established, AddedBy, StopLoop, InCall
  <2> QED BY <1>1, <1>2, <2>1 DEF KnowledgeInv
<1>5. UNCHANGED <<log, head>> /\ Waits(o.item) => Safe(o)'
  BY DEF Waits, Safe
<1>6. CASE GetItem(p)
  <2> DEFINE q == Source(p)
             item == log[q][head[q] + 1]
  <2>1. /\ head' = [head EXCEPT ![q] = @ + 1] /\ log' = log /\ At(p, "get") /\ Unread(q)
        /\ Turns(p, [procs[p] EXCEPT !.pc = "snapshot", !.item = item])
        /\ UNCHANGED <<destinations, lost>>
    BY <1>6 DEF GetItem, registry, history
  <2> HIDE DEF q
  <2>2. ~Holds(p, o)
    BY <1>2, <2>1 DEF HandOK, Holds, At
  <2>3. ASSUME Waits(o.item), o.item.from = q PROVE Safe(o)'
    <3>1. PICK k \in 1..Len(log[q]): k > head[q] /\ log[q][k] = o.item
      BY <2>3 DEF Waits
    <3>2. head[q] \in Nat /\ k \in Nat /\ head'[q] = head[q] + 1
      BY <1>2, <2>1 DEF TypeOK, QueuesType, q
    <3>3. CASE k = head[q] + 1
      <4>1. item = o.item
        BY <3>1, <3>3
      <4> HIDE DEF item
      <4>2. procs'[p].pc = "snapshot" /\ procs'[p].item = o.item /\ procs'[p].copy = procs[p].copy
        <5>1. procs'[p] = [procs[p] EXCEPT !.pc = "snapshot", !.item = item]
          BY <1>3, <2>1
        <5> QED BY <1>2, <4>1, <5>1 DEF Publisher
      <4>3. Holds(p, o)' /\ p \in DOMAIN procs'
        BY <1>3, <1>4, <2>1, <4>2 DEF Holds, At, DestQueues
      <4> QED BY <4>3 DEF Safe
    <3>4. CASE k # head[q] + 1
      <4>1. k > head'[q]
        BY <3>1, <3>2, <3>4
      <4> QED BY <2>1, <2>3, <3>1, <4>1 DEF Safe, Waits
    <3> QED BY <3>3, <3>4
  <2>4. ASSUME Waits(o.item), o.item.from # q PROVE Safe(o)'
    <3>1. head'[o.item.from] = head[o.item.from]
      BY <1>1, <2>1, <2>4 DEF TypeOK, QueuesType
    <3> QED BY <1>1, <2>1, <2>4, <3>1, WaitsKept DEF Safe
  <2> QED BY <1>1, <2>2, <2>3, <2>4, TurnSafe
<1>7. CASE Snapshot(p)
  <2> DEFINE all == DestQueues(p)
  <2>1. Turns(p, [procs[p] EXCEPT !.pc = "put", !.todo = all]) /\ UNCHANGED <<log, head>>
    BY <1>7 DEF Snapshot, queueVars
  <2> HIDE DEF all
  <2>2. procs'[p].todo = all /\ procs'[p].item = procs[p].item /\ p \in DOMAIN procs'
    <3>1. procs'[p] = [procs[p] EXCEPT !.pc = "put", !.todo = all] /\ p \in DOMAIN procs'
      BY <1>3, <2>1
    <3> QED BY <1>2, <3>1 DEF Publisher
  <2>3. Holds(p, o) => Safe(o)'
    BY <1>4, <2>2 DEF Holds, Safe, all
  <2> QED BY <1>1, <1>5, <2>1, <2>3, TurnSafe
<1>8. CASE CheckStop(p) \/ GetEmpty(p) \/ FinishItem(p)
  <2>1. ~Holds(p, o)
    BY <1>2, <1>8 DEF CheckStop, GetEmpty, FinishItem, HandOK, Holds, At
  <2>2. UNCHANGED <<log, head>>
    BY <1>8 DEF CheckStop, GetEmpty, FinishItem, queueVars
  <2> QED BY <1>1, <1>5, <2>1, <2>2, TurnSafe
<1>9. ASSUME NEW pc \in {"put", "full"}, Move(p, pc), procs[p].pc # "snapshot", UNCHANGED <<log, head>>
      PROVE  Safe(o)'
  <2>1. procs'[p].todo = procs[p].todo /\ procs'[p].item = procs[p].item /\ p \in DOMAIN procs'
    BY <1>2, <1>3, <1>9 DEF Move, Publisher
  <2>2. Holds(p, o) => Safe(o)'
    BY <1>9, <2>1 DEF Holds, At, Safe
  <2> QED BY <1>1, <1>5, <1>9, <2>2, TurnSafe
<1>10. CASE PutAgain(p) \/ \E d \in procs[p].todo: PutTimesOut(p, d)
  BY <1>9, <1>10 DEF PutAgain, PutTimesOut, Trying, At, queueVars
<1>11. ASSUME NEW d \in procs[p].todo, Put(p, d) PROVE Safe(o)'
  <2>1. /\ procs[p].pc = "put" /\ log' = [log EXCEPT ![queueOf[d]] = Append(@, procs[p].item)]
        /\ owed' = owed \ {[item |-> procs[p].item, dest |-> d]} /\ head' = head
        /\ Turns(p, [procs[p] EXCEPT !.todo = @ \ {d}])
    BY <1>11 DEF Put, Trying, At
  <2>2. procs'[p].todo = procs[p].todo \ {d} /\ procs'[p].item = procs[p].item /\ p \in DOMAIN procs'
    BY <1>2, <1>3, <2>1 DEF Publisher
  <2>3. ~(o.item = procs[p].item /\ o.dest = d)
    BY <1>1, <2>1
  <2>4. Holds(p, o) => Safe(o)'
    BY <2>1, <2>2, <2>3 DEF Holds, At, Safe
  <2>5. queueOf[d] \in Queues
    BY PublisherIsTyped DEF TypeOK, RegistryType, PublisherOK, Ids
  <2>6. Waits(o.item) => Safe(o)'
    BY <1>1, <1>2, <2>1, <2>5, WaitsKept DEF Safe
  <2> QED BY <1>1, <2>4, <2>6, TurnSafe
<1>12. ASSUME NEW d \in procs[p].todo, Abandon(p, d) PROVE Safe(o)'
  <2>1. /\ procs[p].pc = "full" /\ UNCHANGED <<log, head>>
        /\ lost' = lost \cup GiveUp(procs[p].item, {d}, "full")
        /\ Turns(p, [procs[p] EXCEPT !.pc = "put", !.todo = @ \ {d}, !.undelivered = @ \cup {d}])
    BY <1>12 DEF Abandon, At, queueVars
  <2>2. procs'[p].todo = procs[p].todo \ {d} /\ procs'[p].item = procs[p].item /\ p \in DOMAIN procs'
    <3>1. /\ procs'[p] = [procs[p] EXCEPT !.pc = "put", !.todo = @ \ {d}, !.undelivered = @ \cup {d}]
          /\ p \in DOMAIN procs'
      BY <1>3, <2>1
    <3> QED BY <1>2, <3>1 DEF Publisher
  <2>3. Holds(p, o) /\ o.dest = d => Safe(o)'
    BY <1>1, <2>1, GiveUpRecords DEF Holds
  <2>4. Holds(p, o) /\ o.dest # d => Safe(o)'
    BY <2>1, <2>2 DEF Holds, At, Safe
  <2> QED BY <1>1, <1>5, <2>1, <2>3, <2>4, TurnSafe
<1>13. ASSUME NEW d \in procs[p].todo, PutBreaks(p, d) PROVE Safe(o)'
  <2>1. /\ procs[p].pc = "put" /\ UNCHANGED <<log, head>>
        /\ lost' = lost \cup GiveUp(procs[p].item, procs[p].todo, "broken")
    BY <1>13 DEF PutBreaks, Trying, At, queueVars
  <2>2. Holds(p, o) => Safe(o)'
    BY <1>1, <2>1, GiveUpRecords DEF Holds, At
  <2> QED BY <1>1, <1>5, <2>1, <2>2, TurnSafe
<1> QED BY <1>6, <1>7, <1>8, <1>10, <1>11, <1>12, <1>13 DEF Publish

\* What the application puts waits behind what was put before.
LEMMA ProduceSafe ==
  ASSUME TypeOK, NothingLostSilently, NEW q \in Queues, Produce(q)
  PROVE  NothingLostSilently'
<1> DEFINE n == Cardinality({i \in 1..Len(log[q]): log[q][i].from = q}) + 1
           item == [from |-> q, n |-> n]
           promised == {[item |-> item, dest |-> d]: d \in {i \in destinations: Established(i)}}
<1>1. /\ log' = [log EXCEPT ![q] = Append(@, item)] /\ owed' = owed \cup promised
      /\ UNCHANGED <<destinations, procs, head, lost>>
  BY DEF Produce, registry
<1>2. log[q] \in Seq(Items) /\ head[q] \in Nat /\ head[q] <= Len(log[q]) /\ item \in Items
  <2>1. n \in Nat \ {0}
    <3>1. IsFiniteSet(1..Len(log[q]))
      BY FS_Interval, LenProperties DEF TypeOK, QueuesType
    <3> QED BY <3>1, FS_Subset, FS_CardinalityType
  <2> HIDE DEF n
  <2> QED BY <2>1 DEF TypeOK, QueuesType, Items
<1> HIDE DEF n
<1> SUFFICES ASSUME NEW o \in owed' PROVE Safe(o)'
  BY DEF NothingLostSilently, Pending, Safe, Holds, GivenUp
<1>3. CASE o \in promised
  <2>1. o.item = item /\ item.from = q
    BY <1>3
  <2> HIDE DEF item
  <2> DEFINE k == Len(log[q]) + 1
  <2>2. log'[q] = Append(log[q], item)
    BY <1>1 DEF TypeOK, QueuesType
  <2>3. k \in 1..Len(log'[q]) /\ log'[q][k] = item /\ k > head'[q]
    BY <1>1, <1>2, <2>2
  <2> QED BY <2>1, <2>3 DEF Safe, Waits
<1>4. CASE o \in owed
  <2>1. Safe(o) /\ o.item.from \in Queues
    BY <1>4, SafeMeans DEF TypeOK, HistoryType, Owed, Items
  <2>2. Waits(o.item) => Waits(o.item)'
    <3> HIDE DEF item
    <3> QED BY <1>1, <1>2, <2>1, WaitsKept
  <2>3. \A p \in DOMAIN procs: Holds(p, o) => p \in DOMAIN procs' /\ Holds(p, o)'
    BY <1>1 DEF Holds, At, DestQueues
  <2> QED BY <1>1, <2>1, <2>2, <2>3, SafeKept
<1> QED BY <1>1, <1>3, <1>4

\* What the application takes is from other queues than those it puts on.
LEMMA ConsumeSafe ==
  ASSUME TypeOK, PromiseInv, NothingLostSilently, NEW q \in Queues, Consume(q), MaxPuts[q] = 0
  PROVE  NothingLostSilently'
<1> SUFFICES ASSUME NEW o \in owed' PROVE Safe(o)'
  BY DEF NothingLostSilently, Pending, Safe, Holds, GivenUp
<1>1. /\ head' = [head EXCEPT ![q] = @ + 1]
      /\ UNCHANGED <<destinations, procs, log, owed, lost>>
  BY DEF Consume, registry, history
<1>2. o \in owed /\ Safe(o) /\ o.item.from \in Queues /\ o.item.from # q
  BY <1>1, SafeMeans DEF TypeOK, HistoryType, Owed, Items, PromiseInv
<1>3. head'[o.item.from] = head[o.item.from]
  BY <1>1, <1>2 DEF TypeOK, QueuesType
<1>4. Waits(o.item) => Waits(o.item)'
  BY <1>1, <1>2, <1>3, WaitsKept
<1>5. \A p \in DOMAIN procs: Holds(p, o) => p \in DOMAIN procs' /\ Holds(p, o)'
  BY <1>1 DEF Holds, At, DestQueues
<1> QED BY <1>1, <1>2, <1>4, <1>5, SafeKept

LEMMA SafeInit == Init => NothingLostSilently
BY DEF Init, NothingLostSilently

LEMMA SafeNext ==
  ASSUME SeparateQueues
  PROVE  TypeOK /\ HandsOK /\ KnowledgeInv /\ PromiseInv /\ PromiseInv' /\ NothingLostSilently
           /\ [Next]_vars => NothingLostSilently'
<1> SUFFICES ASSUME TypeOK, HandsOK, KnowledgeInv, PromiseInv, PromiseInv', NothingLostSilently,
                    [Next]_vars
             PROVE  NothingLostSilently'
  OBVIOUS
<1>1. ASSUME NEW c \in Callers, BeginCall(c) \/ ContinueCall(c) PROVE NothingLostSilently'
  BY <1>1, CallerSafe
<1>2. ASSUME NEW p \in DOMAIN procs, Publish(p) PROVE NothingLostSilently'
  BY <1>2, PublishSafe
<1>3. ASSUME NEW q \in Queues, Produce(q) PROVE NothingLostSilently'
  BY <1>3, ProduceSafe
<1>4. ASSUME NEW q \in Queues, Consume(q) PROVE NothingLostSilently'
  BY <1>4, ConsumeSafe DEF Consume, SeparateQueues
<1>5. ASSUME UNCHANGED <<destinations, procs, log, head, owed, lost>> PROVE NothingLostSilently'
  BY <1>5 DEF NothingLostSilently, Pending, Waits, At, DestQueues
<1>6. CASE UNCHANGED vars \/ \E q \in Queues: Break(q)
  BY <1>5, <1>6 DEF vars, Break, registry, queueVars, history
<1> QED BY <1>1, <1>2, <1>3, <1>4, <1>6 DEF Next

\* No stop, restart, full or broken destination makes a promised delivery disappear: it is
\* made, still to come, or was recorded as given up, if the application takes no items from
\* the queues it puts on.
THEOREM NothingLost == SeparateQueues => (Spec => []NothingLostSilently)
<1> SUFFICES ASSUME SeparateQueues PROVE Spec => []NothingLostSilently
  OBVIOUS
<1>1. TypeOK /\ HandsOK /\ KnowledgeInv /\ PromiseInv /\ PromiseInv' /\ NothingLostSilently
        /\ [Next]_vars => NothingLostSilently'
  BY SafeNext
<1> QED BY <1>1, SafeInit, TypeCorrect, HandsInvariant, KnowledgeInvariant, PromiseInvariant, PTL
        DEF Spec

-----------------------------------------------------------------------------
(* task_done *)

\* destructive_audit takes items without calling task_done.
NoAudits == \A c \in Callers: \A k \in DOMAIN Program[c]: \A call \in Program[c][k]: call.op # "audit"
AuditInv == \A c \in Callers: local[c].pc # "audit"

\* The publishers that have taken an item from q and not decided on it.
HasItem(p) == Alive(p) /\ procs[p].item # NoItem
Working(q) == {p \in DOMAIN procs: HasItem(p) /\ Source(p) = q}
Balanced == \A q \in Queues \ Consumed: broken = {} => head[q] = done[q] + Cardinality(Working(q))

LEMMA BalancedMeans == Balanced <=> TaskDoneBalanced
<1>1. \A q: Working(q) = {p \in DOMAIN procs: Alive(p) /\ Source(p) = q /\ procs[p].item # NoItem}
  BY DEF Working, HasItem
<1> QED BY <1>1 DEF Balanced, TaskDoneBalanced

LEMMA AuditInit == Init => AuditInv
BY DEF Init, AuditInv, Idle

LEMMA AuditNext == ASSUME NoAudits PROVE TypeOK /\ AuditInv /\ [Next]_vars => AuditInv'
<1> SUFFICES ASSUME TypeOK, AuditInv, [Next]_vars PROVE AuditInv'
  OBVIOUS
<1>1. ASSUME NEW c \in Callers, BeginCall(c) \/ ContinueCall(c) PROVE AuditInv'
  <2>1. ASSUME NEW call \in CallsOf(c) PROVE call.op # "audit"
    BY DEF CallsOf, NoAudits, TypeOK, CallersType, Caller
  <2>2. SUFFICES local'[c].pc # "audit"
    BY <1>1, CallerMoves DEF AuditInv
  <2>3. CASE BeginCall(c)
    <3>1. PICK call \in CallsOf(c):
            Register(c, call) \/ Unregister(c, call) \/ Stop(c, call)
              \/ IsDrained(c, call) \/ Audit(c, call)
      BY <2>3 DEF BeginCall
    <3> QED BY <2>1, <3>1, Begun
  <2>4. CASE ContinueCall(c)
    BY <2>4, CallGoesOn DEF AuditInv
  <2> QED BY <1>1, <2>3, <2>4
<1>2. ASSUME UNCHANGED local PROVE AuditInv'
  BY <1>2 DEF AuditInv
<1>3. ASSUME NEW p \in DOMAIN procs, Publish(p) PROVE UNCHANGED local
  BY <1>3 DEF Publish, CheckStop, GetItem, GetEmpty, Snapshot, PutAgain, FinishItem, Put,
     PutTimesOut, Abandon, PutBreaks, callerVars
<1>4. CASE UNCHANGED vars \/ \E q \in Queues: Produce(q) \/ Consume(q) \/ Break(q)
  BY <1>2, <1>4 DEF vars, Produce, Consume, Break, callerVars
<1> QED BY <1>1, <1>2, <1>3, <1>4 DEF Next

LEMMA FiniteWorking == ASSUME TypeOK, NEW q PROVE IsFiniteSet(Working(q))
<1>1. IsFiniteSet(DOMAIN procs)
  BY FS_Interval, LenProperties DEF TypeOK, PublishersType
<1> QED BY <1>1, FS_Subset DEF Working

\* The step of one publisher shows at its own source only.
LEMMA WorkingTurn ==
  ASSUME TypeOK, HandsOK, NEW p \in DOMAIN procs, Publish(p)
  PROVE  /\ Source(p)' = Source(p)
         /\ \A q: q # Source(p) => Working(q)' = Working(q)
         /\ Working(Source(p))' = IF HasItem(p)' THEN Working(Source(p)) \cup {p}
                                                 ELSE Working(Source(p)) \ {p}
<1>1. /\ DOMAIN procs' = DOMAIN procs /\ UNCHANGED queueOf
      /\ \A o \in DOMAIN procs: o # p => procs'[o] = procs[o]
      /\ procs'[p].src = procs[p].src
  BY PublisherMoves DEF registry
<1>2. \A o \in DOMAIN procs: Source(o)' = Source(o) /\ (o # p => (HasItem(o)' <=> HasItem(o)))
  BY <1>1 DEF Source, HasItem, Alive
<1>3. \A q: Working(q)' = {o \in DOMAIN procs: HasItem(o)' /\ Source(o) = q}
  BY <1>1, <1>2 DEF Working
<1>4. ASSUME NEW q, q # Source(p) PROVE Working(q)' = Working(q)
  BY <1>2, <1>3, <1>4 DEF Working
<1>5. Working(Source(p))' = IF HasItem(p)' THEN Working(Source(p)) \cup {p}
                                           ELSE Working(Source(p)) \ {p}
  BY <1>2, <1>3 DEF Working
<1> QED BY <1>2, <1>4, <1>5

\* A publisher takes an item with empty hands, and calls task_done when it is done with it.
LEMMA PublishBalanced ==
  ASSUME TypeOK, HandsOK, Balanced, NEW p \in DOMAIN procs, Publish(p)
  PROVE  Balanced'
<1> DEFINE s == Source(p)
           before == Working(s)
<1>1. /\ procs[p] \in Publisher /\ HandOK(procs[p]) /\ s \in Queues /\ Alive(p)
      /\ procs[p].pc \in {"snapshot", "put", "full"} => procs[p].item \in Items
  BY PublisherIsTyped, PublisherMoves DEF HandsOK, PublisherOK
<1>2. NoItem \notin Items
  BY DEF NoItem, Items
<1>3. broken' = broken
  BY DEF Publish, CheckStop, GetItem, GetEmpty, Snapshot, PutAgain, FinishItem, Put, PutTimesOut,
     Abandon, PutBreaks, queueVars
<1>4. IsFiniteSet(before) /\ head[s] \in Nat /\ done[s] \in Nat
  BY <1>1, FiniteWorking DEF TypeOK, QueuesType
<1>5. p \in before <=> procs[p].item # NoItem
  BY <1>1 DEF Working, HasItem
<1>6. \A r: Turns(p, r) => procs'[p] = r
  BY DEF Turns
<1>7. ASSUME \A q \in Queues: q # s => head'[q] = head[q] /\ done'[q] = done[q],
             broken = {} => head'[s] - head[s] = done'[s] - done[s] + Cardinality(Working(s)')
                                                 - Cardinality(before),
             head'[s] \in Nat, done'[s] \in Nat, Cardinality(Working(s)') \in Nat
      PROVE  Balanced'
  <2> SUFFICES ASSUME NEW q \in Queues \ Consumed, broken = {}
               PROVE  head'[q] = done'[q] + Cardinality(Working(q)')
    BY <1>3 DEF Balanced
  <2>1. head[q] = done[q] + Cardinality(Working(q))
    BY DEF Balanced
  <2>2. CASE q # s
    BY <1>7, <2>1, <2>2, WorkingTurn
  <2>3. CASE q = s
    <3>1. Cardinality(before) \in Nat
      BY <1>4, FS_CardinalityType
    <3>2. head[s] = done[s] + Cardinality(before)
      BY <2>1, <2>3
    <3>3. head'[s] = done'[s] + Cardinality(Working(s)')
      <4> HIDE DEF s, before
      <4> QED BY <1>4, <1>7, <3>1, <3>2
    <3> QED BY <2>3, <3>3, WorkingTurn
  <2> QED BY <2>2, <2>3
<1>8. CASE GetItem(p)
  <2> DEFINE item == log[s][head[s] + 1]
             r == [procs[p] EXCEPT !.pc = "snapshot", !.item = item]
  <2>1. procs'[p] = r /\ procs[p].item = NoItem /\ done' = done /\ head' = [head EXCEPT ![s] = @ + 1]
    BY <1>1, <1>6, <1>8 DEF GetItem, HandOK, At
  <2>2. item \in Items
    <3>1. log[s] \in Seq(Items) /\ head[s] + 1 \in 1..Len(log[s])
      BY <1>1, <1>8 DEF GetItem, TypeOK, QueuesType, Unread
    <3> QED BY <3>1, ElementOfSeq
  <2> HIDE DEF item
  <2>3. r.pc = "snapshot" /\ r.item = item
    BY <1>1 DEF Publisher
  <2>4. HasItem(p)'
    BY <1>2, <2>1, <2>2, <2>3 DEF HasItem, Alive
  <2>5. Working(s)' = before \cup {p} /\ p \notin before
    BY <1>5, <2>1, <2>4, WorkingTurn
  <2>6. Cardinality(Working(s)') = Cardinality(before) + 1 /\ Cardinality(before) \in Nat
    BY <1>4, <2>5, FS_AddElement, FS_CardinalityType
  <2>7. head'[s] = head[s] + 1 /\ \A q \in Queues: q # s => head'[q] = head[q]
    BY <1>1, <2>1 DEF TypeOK, QueuesType
  <2> HIDE DEF s, before
  <2> QED BY <1>4, <1>7, <2>1, <2>6, <2>7
<1>9. CASE FinishItem(p) /\ Source(p) \notin broken
  <2>1. /\ done' = [done EXCEPT ![s] = @ + 1] /\ head' = head /\ procs[p].item \in Items
        /\ Exit(p) \/ Turns(p, [procs[p] EXCEPT !.pc = "check", !.item = NoItem])
    BY <1>1, <1>9 DEF FinishItem, At
  <2>2. ~HasItem(p)'
    <3>1. \/ procs'[p] = [procs[p] EXCEPT !.pc = "dead", !.item = NoItem, !.todo = {}, !.undelivered = {}]
          \/ procs'[p] = [procs[p] EXCEPT !.pc = "check", !.item = NoItem]
      BY <1>6, <2>1 DEF Exit
    <3> QED BY <1>1, <3>1 DEF HasItem, Publisher
  <2>3. Working(s)' = before \ {p} /\ p \in before
    BY <1>2, <1>5, <2>1, <2>2, WorkingTurn
  <2>4. Cardinality(Working(s)') = Cardinality(before) - 1 /\ Cardinality(before) \in Nat
        /\ Cardinality(Working(s)') \in Nat
    BY <1>4, <2>3, FS_RemoveElement, FS_CardinalityType
  <2>5. done'[s] = done[s] + 1 /\ \A q \in Queues: q # s => done'[q] = done[q]
    BY <1>1, <2>1 DEF TypeOK, QueuesType
  <2> HIDE DEF s, before
  <2> QED BY <1>4, <1>7, <2>1, <2>4, <2>5
<1>10. ASSUME UNCHANGED <<head, done>>, broken = {} => (HasItem(p)' <=> HasItem(p)) PROVE Balanced'
  <2> SUFFICES ASSUME NEW q \in Queues \ Consumed, broken = {}
               PROVE  head'[q] = done'[q] + Cardinality(Working(q)')
    BY <1>3 DEF Balanced
  <2>1. Working(q)' = Working(q)
    <3>1. p \in before <=> HasItem(p)'
      BY <1>1, <1>5, <1>10 DEF HasItem
    <3>2. Working(s)' = before
      BY <3>1, WorkingTurn
    <3> QED BY <3>2, WorkingTurn
  <2> QED BY <1>10, <2>1 DEF Balanced
<1>11. ASSUME NEW pc, Move(p, pc), pc # "dead" PROVE HasItem(p)' <=> HasItem(p)
  <2>1. procs'[p] = [procs[p] EXCEPT !.pc = pc]
    BY <1>6, <1>11 DEF Move
  <2> QED BY <1>1, <1>11, <2>1 DEF HasItem, Alive, Publisher
<1>12. CASE CheckStop(p)
  <2>1. ASSUME Exit(p) PROVE ~HasItem(p)'
    <3>1. procs'[p] = [procs[p] EXCEPT !.pc = "dead", !.item = NoItem, !.todo = {}, !.undelivered = {}]
      BY <1>6, <2>1 DEF Exit
    <3> QED BY <1>1, <3>1 DEF HasItem, Publisher
  <2>2. ~HasItem(p)
    BY <1>1, <1>12 DEF CheckStop, At, HandOK, HasItem
  <2> QED BY <1>10, <1>11, <1>12, <2>1, <2>2 DEF CheckStop, queueVars
<1>13. CASE GetEmpty(p) \/ PutAgain(p) \/ \E d \in procs[p].todo: PutTimesOut(p, d)
  BY <1>10, <1>11, <1>13 DEF GetEmpty, PutAgain, PutTimesOut, queueVars
<1>14. CASE Snapshot(p)
  <2> DEFINE all == DestQueues(p)
  <2>1. procs'[p] = [procs[p] EXCEPT !.pc = "put", !.todo = all] /\ UNCHANGED <<head, done>>
    BY <1>6, <1>14 DEF Snapshot, queueVars
  <2> HIDE DEF all
  <2>2. HasItem(p)' <=> HasItem(p)
    BY <1>1, <2>1 DEF HasItem, Alive, Publisher
  <2> QED BY <1>10, <2>1, <2>2
<1>15. ASSUME NEW d \in procs[p].todo, Put(p, d) \/ Abandon(p, d) PROVE Balanced'
  <2>1. /\ UNCHANGED <<head, done>>
        /\ \/ procs'[p] = [procs[p] EXCEPT !.todo = @ \ {d}]
           \/ procs'[p] = [procs[p] EXCEPT !.pc = "put", !.todo = @ \ {d}, !.undelivered = @ \cup {d}]
    BY <1>6, <1>15 DEF Put, Abandon, queueVars
  <2>2. procs'[p].item = procs[p].item /\ procs'[p].pc # "dead"
    <3>1. CASE procs'[p] = [procs[p] EXCEPT !.todo = @ \ {d}]
      BY <1>1, <3>1 DEF Alive, Publisher
    <3>2. CASE procs'[p] = [procs[p] EXCEPT !.pc = "put", !.todo = @ \ {d}, !.undelivered = @ \cup {d}]
      BY <1>1, <3>2 DEF Publisher
    <3> QED BY <2>1, <3>1, <3>2
  <2> QED BY <1>1, <1>10, <2>1, <2>2 DEF HasItem, Alive
<1>16. ASSUME NEW d \in procs[p].todo, PutBreaks(p, d) PROVE Balanced'
  BY <1>10, <1>16 DEF PutBreaks, queueVars
<1>17. CASE FinishItem(p) /\ Source(p) \in broken
  <2>1. UNCHANGED <<head, done>> /\ broken # {}
    BY <1>17 DEF FinishItem
  <2> QED BY <1>10, <2>1
<1> QED BY <1>8, <1>9, <1>12, <1>13, <1>14, <1>15, <1>16, <1>17 DEF Publish

LEMMA BalancedInit == Init => Balanced
<1> SUFFICES ASSUME Init, NEW q \in Queues PROVE head[q] = done[q] + Cardinality(Working(q))
  BY DEF Balanced
<1>1. Working(q) = {} /\ head[q] = 0 /\ done[q] = 0
  BY DEF Init, Working
<1> QED BY <1>1, FS_EmptySet

LEMMA BalancedNext ==
  TypeOK /\ HandsOK /\ AuditInv /\ Balanced /\ [Next]_vars => Balanced'
<1> SUFFICES ASSUME TypeOK, HandsOK, AuditInv, Balanced, [Next]_vars PROVE Balanced'
  OBVIOUS
<1>1. ASSUME NEW c \in Callers, BeginCall(c) \/ ContinueCall(c) PROVE Balanced'
  <2>1. UNCHANGED <<done, broken>>
    BY <1>1, CallerMoves
  <2>2. head' = head
    BY <1>1 DEF AuditInv, BeginCall, ContinueCall, Register, Unregister, Stop, IsDrained, Audit,
       NextToStop, SetStop, FetchPublisher, JoinPublisher, ClearStop, ForgetStop, CreateStop,
       NextToStart, StartPublisher, StorePublisher, LookAtQueue, AuditQueue, queueVars
  <2>3. \A p \in DOMAIN procs: procs[p].src \in Ids
    BY PublisherIsTyped DEF PublisherOK
  <2>4. \A p \in DOMAIN procs: /\ p \in DOMAIN procs' /\ Source(p)' = Source(p)
                               /\ (HasItem(p)' <=> HasItem(p))
    BY <1>1, <2>3, CallerMoves DEF Source, HasItem, Alive
  <2>5. \A p \in DOMAIN procs' \ DOMAIN procs: ~HasItem(p)'
    BY <1>1, CallerMoves DEF HasItem, NewPublisher
  <2>6. \A q: Working(q)' = Working(q)
    BY <2>4, <2>5 DEF Working
  <2> QED BY <2>1, <2>2, <2>6 DEF Balanced
<1>2. ASSUME NEW p \in DOMAIN procs, Publish(p) PROVE Balanced'
  BY <1>2, PublishBalanced
<1>3. ASSUME UNCHANGED <<queueOf, procs, done>>,
             \A q \in Queues \ Consumed: head'[q] = head[q], broken' = {} => broken = {}
      PROVE  Balanced'
  <2>1. \A q: Working(q)' = Working(q)
    BY <1>3 DEF Working, HasItem, Alive, Source
  <2> QED BY <1>3, <2>1 DEF Balanced
<1>4. ASSUME NEW q \in Queues, Consume(q) PROVE Balanced'
  <2>1. q \in Consumed /\ head' = [head EXCEPT ![q] = @ + 1]
        /\ UNCHANGED <<queueOf, procs, done, broken>>
    BY <1>4 DEF Consume, registry
  <2>2. \A o \in Queues \ Consumed: head'[o] = head[o]
    BY <2>1 DEF TypeOK, QueuesType
  <2> QED BY <1>3, <2>1, <2>2
<1>5. CASE UNCHANGED vars \/ \E q \in Queues: Produce(q) \/ Break(q)
  BY <1>3, <1>5 DEF vars, Produce, Break, registry, queueVars
<1> QED BY <1>1, <1>2, <1>4, <1>5 DEF Next

\* task_done is called exactly once for each item taken from a source, by the publisher that
\* took it and after its last destination, whatever stops and restarts there are in between,
\* if nothing goes away and no audit takes items.
THEOREM DoneOnce == NoAudits => (Spec => []TaskDoneBalanced)
<1> SUFFICES ASSUME NoAudits PROVE Spec => []TaskDoneBalanced
  OBVIOUS
<1>1. TypeOK /\ AuditInv /\ [Next]_vars => AuditInv'
  BY AuditNext
<1>2. Balanced => TaskDoneBalanced
  BY BalancedMeans
<1> QED BY <1>1, <1>2, AuditInit, BalancedInit, BalancedNext, TypeCorrect, HandsInvariant, PTL DEF Spec

-----------------------------------------------------------------------------
(* Every source is served *)

\* Nobody calls stop, which leaves every source without a publisher.
NoStops ==
  \A c \in Callers: \A k \in DOMAIN Program[c]: \A call \in Program[c][k]: call.op # "stop"
NoStopInv == \A c \in Callers: InCall(c) => local[c].call.op # "stop"

\* client_pair_publishers has publishers of the id itself, and so will it after the store.
OwnInv ==
  /\ \A id \in Ids: pubOf[id] # 0 => procs[pubOf[id]].src = id
  /\ \A c \in Callers: local[c].pc = "store" => procs[local[c].proc].src = local[c].cur

\* The call of the caller whose record is r is yet to start a publisher for id.
StillToStart(r, id) ==
  /\ r.pc # "idle" /\ ~ForgetsSource(r.call)
  /\ \/ RegistersSource(r.call) /\ r.pc \in {"event", "start", "store"} /\ r.cur = id
     \/ ~RegistersSource(r.call) /\ r.pc \in StopLoop
     \/ ~RegistersSource(r.call) /\ r.pc = "restart" /\ id > r.loop.last
     \/ ~RegistersSource(r.call) /\ r.pc \in {"start", "store"} /\ id >= r.loop.last

\* Every source has a publisher at work, or a call under way will start one.
Served ==
  destinations # {} =>
    \A id \in sources: id \in BusyIds \/ \E c \in Callers: StillToStart(local[c], id)

\* A publisher has given up a destination, and will end for that, only if it is being stopped.
GivesUpStopped ==
  \A p \in DOMAIN procs: Alive(p) /\ procs[p].undelivered # {} =>
    \E c \in Callers: Stopping(c, procs[p].src)

\* A publisher is alive when client_pair_publishers gets to know it.
StoredAlive == \A c \in Callers: local[c].pc = "store" => Alive(local[c].proc)

ServedInv == broken = {} => Served /\ GivesUpStopped /\ StoredAlive

LEMMA NoStopNext == ASSUME NoStops PROVE TypeOK /\ NoStopInv /\ [Next]_vars => NoStopInv'
<1> SUFFICES ASSUME TypeOK, NoStopInv, [Next]_vars PROVE NoStopInv'
  OBVIOUS
<1>1. ASSUME NEW c \in Callers, BeginCall(c) \/ ContinueCall(c) PROVE NoStopInv'
  <2>1. ASSUME NEW call \in CallsOf(c) PROVE call.op # "stop"
    BY DEF CallsOf, NoStops, TypeOK, CallersType, Caller
  <2>2. SUFFICES local'[c].pc = "idle" \/ local'[c].call.op # "stop"
    BY <1>1, CallerMoves DEF NoStopInv, InCall
  <2>3. CASE BeginCall(c)
    <3>1. PICK call \in CallsOf(c):
            Register(c, call) \/ Unregister(c, call) \/ Stop(c, call)
              \/ IsDrained(c, call) \/ Audit(c, call)
      BY <2>3 DEF BeginCall
    <3> QED BY <2>1, <3>1, Begun
  <2>4. CASE ContinueCall(c)
    BY <2>4, CallGoesOn DEF NoStopInv
  <2> QED BY <1>1, <2>3, <2>4
<1>2. ASSUME UNCHANGED local PROVE NoStopInv'
  BY <1>2 DEF NoStopInv, InCall
<1>3. ASSUME NEW p \in DOMAIN procs, Publish(p) PROVE UNCHANGED local
  BY <1>3 DEF Publish, CheckStop, GetItem, GetEmpty, Snapshot, PutAgain, FinishItem, Put,
     PutTimesOut, Abandon, PutBreaks, callerVars
<1>4. CASE UNCHANGED vars \/ \E q \in Queues: Produce(q) \/ Consume(q) \/ Break(q)
  BY <1>2, <1>4 DEF vars, Produce, Consume, Break, callerVars
<1> QED BY <1>1, <1>2, <1>3, <1>4 DEF Next

\* Without stop, whoever is in a call has the lock: there is one at most.
LEMMA TheHolder ==
  ASSUME ReaderInv, NoStopInv, NEW c \in Callers, InCall(c)
  PROVE  lock = c /\ local[c].call.op # "stop" /\ \A o \in Callers: InCall(o) => o = c
BY DEF ReaderInv, CallersHoldLock, NoStopInv

\* A started publisher goes to the step that stores it.
LEMMA StartedRecord ==
  ASSUME TypeOK, NEW c \in Callers, StartPublisher(c)
  PROVE  \/ /\ local'[c].pc = "store" /\ local'[c].cur = local[c].cur
            /\ local'[c].call = local[c].call /\ local'[c].loop = local[c].loop
            /\ local'[c].proc = Len(procs) + 1
            /\ procs' = Append(procs, NewPublisher(local[c].cur))
         \/ /\ local'[c].pc # "store"
            /\ local[c].cur \notin hasStop \/ Running(pubOf[local[c].cur]) \/ destinations = {}
<1> DEFINE k == Len(procs) + 1
<1>1. CASE /\ procs' = Append(procs, NewPublisher(local[c].cur))
           /\ Continue(c, [local[c] EXCEPT !.pc = "store", !.proc = k])
  <2> HIDE DEF k
  <2>1. local'[c] = [local[c] EXCEPT !.pc = "store", !.proc = k]
    BY <1>1, BecomesFields DEF Continue
  <2> QED BY <1>1, <2>1, LocalIsTyped DEF Caller, k
<1>2. CASE /\ Return(c, "KeyError") \/ Return(c, "ValueError: running") \/ AfterStart(c)
           /\ local[c].cur \notin hasStop \/ Running(pubOf[local[c].cur]) \/ destinations = {}
  BY <1>2, ReturnFields, AfterStartRecord
<1> QED BY <1>1, <1>2 DEF StartPublisher

\* What a caller's step does to client_pair_publishers.
LEMMA PublishersKnown ==
  ASSUME TypeOK, NEW c \in Callers, BeginCall(c) \/ ContinueCall(c), NEW id \in Ids'
  PROVE  \/ id \notin Ids /\ pubOf'[id] = 0
         \/ id \in Ids /\ pubOf'[id] = pubOf[id]
         \/ StorePublisher(c) /\ id \in Ids /\ id = local[c].cur /\ pubOf'[id] = local[c].proc
<1>1. ASSUME NEW call \in CallsOf(c), Register(c, call)
      PROVE  (id \notin Ids /\ pubOf'[id] = 0) \/ (id \in Ids /\ pubOf'[id] = pubOf[id])
  <2>1. \/ queueOf' = queueOf /\ pubOf' = pubOf
        \/ queueOf' = Append(queueOf, call.q) /\ pubOf' = Append(pubOf, 0)
    BY <1>1 DEF Register
  <2>2. call.q \in Queues /\ queueOf \in Seq(Queues) /\ pubOf \in Seq(Nat) /\ Len(pubOf) = Len(queueOf)
    BY <1>1, CallIsTyped DEF Register, TypeOK, RegistryType
  <2> QED BY <2>1, <2>2 DEF Ids
<1>2. CASE StorePublisher(c)
  BY <1>2 DEF StorePublisher, TypeOK, RegistryType, Ids
<1>3. ASSUME ~StorePublisher(c), ~\E call \in CallsOf(c): Register(c, call)
      PROVE  UNCHANGED <<queueOf, pubOf>>
  BY <1>3 DEF BeginCall, ContinueCall, Unregister, Stop, IsDrained, Audit, NextToStop, SetStop,
     FetchPublisher, JoinPublisher, ClearStop, ForgetStop, CreateStop, NextToStart, StartPublisher,
     LookAtQueue, AuditQueue, registry
<1> QED BY <1>1, <1>2, <1>3 DEF Ids

LEMMA OwnNext == TypeOK /\ HandsOK /\ OwnInv /\ [Next]_vars => OwnInv'
<1> SUFFICES ASSUME TypeOK, HandsOK, OwnInv, [Next]_vars PROVE OwnInv'
  OBVIOUS
<1>1. \A id \in Ids: pubOf[id] # 0 => pubOf[id] \in DOMAIN procs
  BY LenProperties DEF TypeOK, RegistryType, PublishersType
<1>2. \A c \in Callers: local[c].pc = "store" => local[c].proc \in DOMAIN procs
  BY LocalIsTyped DEF CallerOK, AtPublisher
<1>3. ASSUME NEW c \in Callers, BeginCall(c) \/ ContinueCall(c) PROVE OwnInv'
  <2>1. ASSUME NEW id \in Ids', pubOf'[id] # 0 PROVE procs'[pubOf'[id]].src = id
    <3>1. CASE id \in Ids /\ pubOf'[id] = pubOf[id]
      BY <1>1, <1>3, <2>1, <3>1, CallerMoves DEF OwnInv
    <3>2. CASE StorePublisher(c) /\ id \in Ids /\ id = local[c].cur /\ pubOf'[id] = local[c].proc
      <4>1. local[c].pc = "store"
        BY <3>2 DEF StorePublisher
      <4> QED BY <1>2, <1>3, <3>2, <4>1, CallerMoves DEF OwnInv
    <3> QED BY <1>3, <2>1, <3>1, <3>2, PublishersKnown
  <2>2. ASSUME NEW o \in Callers, o # c, local'[o].pc = "store"
        PROVE  procs'[local'[o].proc].src = local'[o].cur
    BY <1>2, <1>3, <2>2, CallerMoves DEF OwnInv
  <2>3. ASSUME local'[c].pc = "store" PROVE procs'[local'[c].proc].src = local'[c].cur
    <3>1. CASE BeginCall(c)
      BY <2>3, <3>1, Begun DEF BeginCall
    <3>2. CASE ContinueCall(c)
      <4>1. StartPublisher(c)
        BY <2>3, <3>2, CallGoesOn
      <4>2. /\ local'[c].cur = local[c].cur /\ local'[c].proc = Len(procs) + 1
            /\ procs' = Append(procs, NewPublisher(local[c].cur))
        BY <2>3, <4>1, StartedRecord
      <4>3. procs'[Len(procs) + 1] = NewPublisher(local[c].cur)
        BY <4>2 DEF TypeOK, PublishersType
      <4> QED BY <4>2, <4>3 DEF NewPublisher
    <3> QED BY <1>3, <3>1, <3>2
  <2> QED BY <2>1, <2>2, <2>3 DEF OwnInv
<1>4. ASSUME NEW p \in DOMAIN procs, Publish(p) PROVE OwnInv'
  <2>1. /\ UNCHANGED <<queueOf, pubOf, local>>
        /\ \A o \in DOMAIN procs: procs'[o].src = procs[o].src
    BY <1>4, PublisherMoves DEF registry, callerVars
  <2> QED BY <1>1, <1>2, <2>1 DEF OwnInv, Ids
<1>5. CASE UNCHANGED vars \/ \E q \in Queues: Produce(q) \/ Consume(q) \/ Break(q)
  BY <1>5 DEF vars, Produce, Consume, Break, OwnInv, Ids, registry, callerVars
<1> QED BY <1>3, <1>4, <1>5 DEF Next

\* The publisher a call has waited for is dead, and no other reads that source.
LEMMA ClearedIsDead ==
  ASSUME TypeOK, ReaderInv, CallsInv, NoStopInv, NEW c \in Callers, local[c].pc = "clear",
         NEW p \in DOMAIN procs, Alive(p)
  PROVE  procs[p].src # local[c].cur
<1> SUFFICES ASSUME procs[p].src = local[c].cur PROVE FALSE
  OBVIOUS
<1>1. /\ lock = c /\ local[c].call.op # "stop" /\ \A o \in Callers: InCall(o) => o = c
  BY TheHolder DEF InCall
<1>2. p = pubOf[local[c].cur] /\ p # 0
  <2>1. ~\E o \in Callers: local[o].pc = "store"
    BY <1>1 DEF InCall
  <2> QED BY <2>1, LenProperties DEF ReaderInv, AliveIsKnown, TypeOK, PublishersType
<1>3. local[c].cur \in BusyIds
  BY <1>2, PublisherIsTyped DEF PublisherOK, BusyIds, Running
<1>4. CASE ForgetsSource(local[c].call)
  <2>1. Forgetting(c)
    BY <1>4 DEF Forgetting
  <2>2. local[c].cur \notin sources
    BY <2>1 DEF ReaderInv, ForgottenSource
  <2>3. \E o \in Callers: Forgetting(o) /\ local[o].pc \in {"set", "fetch", "join"}
    BY <2>2 DEF ReaderInv, AliveReadsSource
  <2> QED BY <1>1, <2>3 DEF InCall
<1>5. CASE ~ForgetsSource(local[c].call)
  <2>1. ~RegistersSource(local[c].call) /\ InCall(c)
    BY <1>1, LockedCaller DEF InCall, LoopPcs
  <2>2. LoopOK(local[c], sources, BusyIds)
    BY <1>1, <1>5, <2>1, LockedCaller DEF LoopsOver
  <2>3. local[c].cur \in sources /\ local[c].loop.last = local[c].cur
    BY <2>2 DEF LoopOK
  <2>4. local[c].cur <= local[c].loop.last
    <3>1. local[c].cur \in Nat
      BY LocalIsTyped DEF Caller
    <3> QED BY <2>3, <3>1
  <2> QED BY <1>3, <2>2, <2>3, <2>4 DEF LoopOK
<1> QED BY <1>4, <1>5

\* A publisher ends, or gives up a destination, only when it is being stopped.
LEMMA EndsWhenStopped ==
  ASSUME TypeOK, HandsOK, NoStaleStopRequest, broken = {}, GivesUpStopped,
         NEW p \in DOMAIN procs, Publish(p)
  PROVE  \/ \E c \in Callers: Stopping(c, procs[p].src)
         \/ Alive(p)' /\ procs'[p].undelivered = procs[p].undelivered
<1>1. procs[p] \in Publisher /\ Alive(p)
  BY PublisherIsTyped, PublisherMoves
<1>2. \A r: Turns(p, r) => procs'[p] = r
  BY DEF Turns
<1>3. procs[p].src \in stopSet => \E c \in Callers: Stopping(c, procs[p].src)
  BY DEF NoStaleStopRequest
<1>4. ASSUME NEW pc, Move(p, pc), pc # "dead"
      PROVE  Alive(p)' /\ procs'[p].undelivered = procs[p].undelivered
  <2>1. procs'[p] = [procs[p] EXCEPT !.pc = pc]
    BY <1>2, <1>4 DEF Move
  <2> QED BY <1>1, <1>4, <2>1 DEF Alive, Publisher
<1>5. CASE CheckStop(p) \/ GetEmpty(p) \/ PutAgain(p) \/ \E d \in procs[p].todo: PutTimesOut(p, d)
  BY <1>3, <1>4, <1>5 DEF CheckStop, GetEmpty, PutAgain, PutTimesOut
<1>6. CASE GetItem(p)
  <2> DEFINE item == log[Source(p)][head[Source(p)] + 1]
  <2>1. procs'[p] = [procs[p] EXCEPT !.pc = "snapshot", !.item = item]
    BY <1>2, <1>6 DEF GetItem
  <2> HIDE DEF item
  <2> QED BY <1>1, <2>1 DEF Alive, Publisher
<1>7. CASE Snapshot(p)
  <2> DEFINE all == DestQueues(p)
  <2>1. procs'[p] = [procs[p] EXCEPT !.pc = "put", !.todo = all]
    BY <1>2, <1>7 DEF Snapshot
  <2> HIDE DEF all
  <2> QED BY <1>1, <2>1 DEF Alive, Publisher
<1>8. CASE FinishItem(p)
  <2>1. CASE procs[p].undelivered # {}
    BY <1>1, <2>1 DEF GivesUpStopped
  <2>2. CASE procs[p].undelivered = {}
    <3>1. procs'[p] = [procs[p] EXCEPT !.pc = "check", !.item = NoItem]
      BY <1>2, <1>8, <2>2 DEF FinishItem
    <3> QED BY <1>1, <3>1 DEF Alive, Publisher
  <2> QED BY <2>1, <2>2
<1>9. ASSUME NEW d \in procs[p].todo, Put(p, d)
      PROVE  Alive(p)' /\ procs'[p].undelivered = procs[p].undelivered
  <2>1. procs'[p] = [procs[p] EXCEPT !.todo = @ \ {d}]
    BY <1>2, <1>9 DEF Put
  <2> QED BY <1>1, <2>1 DEF Alive, Publisher
<1>10. ASSUME NEW d \in procs[p].todo, Abandon(p, d) \/ PutBreaks(p, d)
       PROVE  \E c \in Callers: Stopping(c, procs[p].src)
  BY <1>3, <1>10 DEF Abandon, PutBreaks
<1> QED BY <1>5, <1>6, <1>7, <1>8, <1>9, <1>10 DEF Publish

\* A call that stops the publisher of a source will start another.
LEMMA StoppedIsRestarted ==
  ASSUME TypeOK, ReaderInv, CallsInv, NoStopInv, NEW c \in Callers, NEW id \in sources,
         Stopping(c, id)
  PROVE  StillToStart(local[c], id)
<1>1. InCall(c) /\ local[c].call.op # "stop" /\ local[c].pc \in LoopPcs \ {"start", "store"}
  BY TheHolder DEF Stopping, InCall, LoopPcs
<1>2. ~RegistersSource(local[c].call)
  BY <1>1, LockedCaller
<1>3. ~ForgetsSource(local[c].call)
  <2>1. Forgetting(c) => local[c].cur \notin sources
    BY DEF ReaderInv, ForgottenSource
  <2> QED BY <2>1 DEF Forgetting, Stopping
<1> QED BY <1>1, <1>2, <1>3 DEF StillToStart, Stopping, StopLoop, InCall

LEMMA PublishServed ==
  ASSUME TypeOK, ReaderInv, CallsInv, NoStaleStopRequest, HandsOK, NoStopInv, OwnInv, ServedInv,
         NEW p \in DOMAIN procs, Publish(p)
  PROVE  ServedInv'
<1>1. /\ Alive(p) /\ UNCHANGED <<registry, callerVars>> /\ DOMAIN procs' = DOMAIN procs
      /\ \A o \in DOMAIN procs: o # p => procs'[o] = procs[o]
      /\ procs'[p].src = procs[p].src
  BY PublisherMoves
<1>2. broken' = broken
  BY DEF Publish, CheckStop, GetItem, GetEmpty, Snapshot, PutAgain, FinishItem, Put, PutTimesOut,
     Abandon, PutBreaks, queueVars
<1> SUFFICES ASSUME broken = {}, Served, GivesUpStopped, StoredAlive
             PROVE  Served' /\ GivesUpStopped' /\ StoredAlive'
  BY <1>2 DEF ServedInv
<1>3. \/ \E c \in Callers: Stopping(c, procs[p].src)
      \/ Alive(p)' /\ procs'[p].undelivered = procs[p].undelivered
  BY EndsWhenStopped
<1>4. \A c \in Callers: \A id: Stopping(c, id)' <=> Stopping(c, id)
  BY <1>1 DEF Stopping, callerVars
<1>5. Served'
  <2>1. ASSUME NEW id \in sources, destinations # {}
        PROVE  id \in BusyIds' \/ \E c \in Callers: StillToStart(local[c], id)
    <3>1. CASE id \in BusyIds /\ pubOf[id] = p
      <4>1. procs[p].src = id
        BY <3>1 DEF BusyIds, Running, OwnInv
      <4>2. Alive(p)' => id \in BusyIds'
        BY <1>1, <3>1 DEF BusyIds, Running, Ids, registry
      <4> QED BY <1>3, <4>1, <4>2, StoppedIsRestarted
    <3>2. CASE id \in BusyIds /\ pubOf[id] # p
      <4>1. pubOf[id] \in DOMAIN procs
        BY <3>2, LenProperties DEF BusyIds, Running, TypeOK, RegistryType, PublishersType
      <4> QED BY <1>1, <3>2, <4>1 DEF BusyIds, Running, Alive, Ids, registry
    <3> QED BY <2>1, <3>1, <3>2 DEF Served
  <2> QED BY <1>1, <2>1 DEF Served, registry, callerVars
<1>6. GivesUpStopped'
  <2>1. ASSUME NEW o \in DOMAIN procs, Alive(o)', procs'[o].undelivered # {}
        PROVE  \E c \in Callers: Stopping(c, procs[o].src)
    <3>1. CASE o # p
      BY <1>1, <2>1, <3>1 DEF GivesUpStopped, Alive
    <3> QED BY <1>1, <1>3, <2>1, <3>1 DEF GivesUpStopped
  <2>2. \A o \in DOMAIN procs: procs'[o].src = procs[o].src
    BY <1>1
  <2> QED BY <1>1, <1>4, <2>1, <2>2 DEF GivesUpStopped
<1>7. StoredAlive'
  <2>1. ASSUME NEW c \in Callers, local[c].pc = "store" PROVE Alive(local[c].proc)'
    <3>1. local[c].proc \in DOMAIN procs
      BY <2>1, LocalIsTyped DEF CallerOK, AtPublisher
    <3>2. ~\E o \in Callers: Stopping(o, procs[p].src)
      BY <2>1, TheHolder DEF Stopping, InCall
    <3> QED BY <1>1, <1>3, <2>1, <3>1, <3>2 DEF StoredAlive, Alive, callerVars
  <2> QED BY <1>1, <2>1 DEF StoredAlive, callerVars
<1> QED BY <1>5, <1>6, <1>7

\* A source whose publisher runs when a call goes on has one after that step too.
LEMMA BusyKept ==
  ASSUME TypeOK, ReaderInv, NEW c \in Callers, BeginCall(c) \/ ContinueCall(c), NEW id \in BusyIds
  PROVE  id \in BusyIds'
<1>1. id \in Ids /\ Running(pubOf[id]) /\ pubOf[id] \in DOMAIN procs
  BY LenProperties DEF BusyIds, Running, TypeOK, RegistryType, PublishersType
<1>2. pubOf[id] \in DOMAIN procs' /\ procs'[pubOf[id]] = procs[pubOf[id]]
  BY <1>1, CallerMoves
<1>3. id \in Ids'
  <2>1. ASSUME NEW call \in CallsOf(c), Register(c, call) PROVE id \in Ids'
    <3>1. queueOf' = queueOf \/ queueOf' = Append(queueOf, call.q)
      BY <2>1 DEF Register
    <3>2. call.q \in Queues /\ queueOf \in Seq(Queues)
      BY <2>1, CallIsTyped DEF Register, TypeOK, RegistryType
    <3> QED BY <1>1, <3>1, <3>2 DEF Ids
  <2>2. ASSUME ~\E call \in CallsOf(c): Register(c, call) PROVE queueOf' = queueOf
    BY <2>2 DEF BeginCall, ContinueCall, Unregister, Stop, IsDrained, Audit, NextToStop, SetStop,
       FetchPublisher, JoinPublisher, ClearStop, ForgetStop, CreateStop, NextToStart,
       StartPublisher, StorePublisher, LookAtQueue, AuditQueue, registry
  <2> QED BY <1>1, <2>1, <2>2 DEF Ids
<1>4. ~(StorePublisher(c) /\ id = local[c].cur)
  BY <1>1 DEF StorePublisher, ReaderInv, StartsAtSource
<1>5. pubOf'[id] = pubOf[id]
  BY <1>1, <1>3, <1>4, PublishersKnown
<1> QED BY <1>1, <1>2, <1>3, <1>5 DEF BusyIds, Running, Alive

\* A call gives a publisher to every source it is to start one for.
LEMMA StartsGoOn ==
  ASSUME TypeOK, ReaderInv, CallsInv, NoStopInv, StoredAlive, destinations # {},
         NEW c \in Callers, ContinueCall(c), NEW id \in sources, StillToStart(local[c], id)
  PROVE  id \in BusyIds' \/ StillToStart(local'[c], id)
<1>1. /\ InCall(c) /\ local[c].call.op # "stop" /\ ~ForgetsSource(local[c].call) /\ lock = c
      /\ local[c].loop.last \in Nat /\ \A i \in sources: i \in Nat /\ i \in Ids
  <2>1. \A i \in sources: i \in Nat /\ i \in Ids
    BY DEF TypeOK, RegistryType, Ids
  <2>2. InCall(c) /\ ~ForgetsSource(local[c].call)
    BY DEF StillToStart, InCall
  <2>3. local[c].loop.last \in Nat
    BY LocalIsTyped DEF Caller
  <2> QED BY <2>1, <2>2, <2>3, TheHolder
<1>2. CASE ~RegistersSource(local[c].call) /\ local[c].pc \in StopLoop
  <2>1. CASE /\ local'[c].pc \in StopLoop /\ local'[c].call = local[c].call
             /\ local'[c].new = local[c].new
    BY <1>1, <1>2, <2>1 DEF StillToStart, StopLoop
  <2>2. CASE NextToStop(c) /\ Exhausted(c)
    <3> DEFINE loop == LoopOver(sources)
    <3>1. Continue(c, [local[c] EXCEPT !.pc = "restart", !.loop = loop])
      BY <1>1, <2>2 DEF NextToStop, Exhausted, Advance, IsLeast
    <3>2. loop.last = 0
      BY DEF LoopOver
    <3> HIDE DEF loop
    <3>3. local'[c] = [local[c] EXCEPT !.pc = "restart", !.loop = loop]
      BY <3>1, BecomesFields DEF Continue
    <3>4. local'[c].pc = "restart" /\ local'[c].loop.last = 0 /\ local'[c].call = local[c].call
      BY <3>2, <3>3, LocalIsTyped DEF Caller
    <3>5. id > 0
      BY <1>1 DEF Ids
    <3> QED BY <1>1, <1>2, <3>4, <3>5 DEF StillToStart
  <2> QED BY <1>1, <1>2, <2>1, <2>2, StillChanging
<1>3. CASE local[c].pc = "event"
  <2>1. CreateStop(c)
    BY <1>3 DEF ContinueCall, NextToStop, SetStop, FetchPublisher, JoinPublisher, ClearStop, ForgetStop,
       CreateStop, NextToStart, StartPublisher, StorePublisher, LookAtQueue, AuditQueue
  <2>2. local'[c].pc = "start" /\ local'[c].cur = local[c].cur /\ local'[c].call = local[c].call
    BY <2>1, GotoRecord DEF CreateStop
  <2> QED BY <1>3, <2>2 DEF StillToStart, StopLoop
<1>4. CASE local[c].pc = "restart"
  <2>1. NextToStart(c)
    BY <1>4 DEF ContinueCall, NextToStop, SetStop, FetchPublisher, JoinPublisher, ClearStop, ForgetStop,
       CreateStop, NextToStart, StartPublisher, StorePublisher, LookAtQueue, AuditQueue
  <2>2. ~RegistersSource(local[c].call) /\ id > local[c].loop.last
    BY <1>4 DEF StillToStart, StopLoop
  <2>3. LoopOK(local[c], sources, BusyIds)
    BY <1>1, <2>2, LockedCaller DEF LoopsOver
  <2>4. ~Disturbed(local[c].loop) /\ ~Exhausted(c)
    BY <1>4, <2>2, <2>3, Undisturbed DEF LoopPcs, Exhausted, Ahead
  <2>5. PICK next \in sources:
          /\ IsLeast(next, {i \in sources: i > local[c].loop.last})
          /\ local'[c].pc = "start" /\ local'[c].call = local[c].call
          /\ local'[c].loop.last = next
    BY <2>1, <2>4, AdvanceRecord DEF NextToStart
  <2>6. id >= next
    BY <1>1, <2>2, <2>5, OneLessAhead
  <2> QED BY <1>1, <2>2, <2>5, <2>6 DEF StillToStart
<1>5. CASE local[c].pc = "start"
  <2>1. StartPublisher(c)
    BY <1>5 DEF ContinueCall, NextToStop, SetStop, FetchPublisher, JoinPublisher, ClearStop, ForgetStop,
       CreateStop, NextToStart, StartPublisher, StorePublisher, LookAtQueue, AuditQueue
  <2>2. local[c].cur \in hasStop /\ ~Running(pubOf[local[c].cur])
    BY <1>5, StartIsFree
  <2>3. /\ local'[c].pc = "store" /\ local'[c].cur = local[c].cur
        /\ local'[c].call = local[c].call /\ local'[c].loop = local[c].loop
    BY <2>1, <2>2, StartedRecord
  <2> QED BY <1>5, <2>3 DEF StillToStart, StopLoop
<1>6. CASE local[c].pc = "store"
  <2>1. StorePublisher(c)
    BY <1>6 DEF ContinueCall, NextToStop, SetStop, FetchPublisher, JoinPublisher, ClearStop, ForgetStop,
       CreateStop, NextToStart, StartPublisher, StorePublisher, LookAtQueue, AuditQueue
  <2>2. /\ AfterStart(c) /\ UNCHANGED <<queueOf, procs>>
        /\ pubOf' = [pubOf EXCEPT ![local[c].cur] = local[c].proc]
    BY <2>1 DEF StorePublisher
  <2>3. ASSUME id = local[c].cur PROVE id \in BusyIds'
    <3>1. pubOf'[id] = local[c].proc
      BY <1>1, <2>2, <2>3 DEF TypeOK, RegistryType, Ids
    <3>2. local[c].proc # 0 /\ Alive(local[c].proc)
      BY <1>6, LocalIsTyped, LenProperties DEF CallerOK, AtPublisher, StoredAlive, TypeOK, PublishersType
    <3> QED BY <1>1, <2>2, <3>1, <3>2 DEF BusyIds, Running, Alive, Ids
  <2>4. CASE RegistersSource(local[c].call)
    BY <1>6, <2>3, <2>4 DEF StillToStart, StopLoop
  <2>5. CASE ~RegistersSource(local[c].call)
    <3>1. LoopOK(local[c], sources, BusyIds)
      BY <1>1, <2>5, LockedCaller DEF LoopsOver
    <3>2. local[c].loop.last = local[c].cur
      BY <1>6, <3>1 DEF LoopOK
    <3>3. id = local[c].cur \/ id > local[c].loop.last
      BY <1>1, <1>6, <2>5, <3>2 DEF StillToStart, StopLoop
    <3>4. /\ local'[c].pc = "restart" /\ local'[c].call = local[c].call
          /\ local'[c].loop = local[c].loop
      BY <2>2, <2>5, AfterStartRecord
    <3> QED BY <1>1, <2>3, <2>5, <3>3, <3>4 DEF StillToStart
  <2> QED BY <2>4, <2>5
<1> QED BY <1>2, <1>3, <1>4, <1>5, <1>6 DEF StillToStart

\* A caller that is waiting for a publisher goes on to wait, or finds it dead.
LEMMA StoppingGoesOn ==
  ASSUME TypeOK, NEW c \in Callers, ContinueCall(c), NEW id, Stopping(c, id), local[c].pc # "clear"
  PROVE  Stopping(c, id)'
<1>1. FetchPublisher(c) \/ JoinPublisher(c)
  BY DEF Stopping, ContinueCall, NextToStop, SetStop, FetchPublisher, JoinPublisher, ClearStop,
     ForgetStop, CreateStop, NextToStart, StartPublisher, StorePublisher, LookAtQueue, AuditQueue
<1>2. CASE FetchPublisher(c)
  <2> DEFINE p == pubOf[local[c].cur]
             next == IF p = 0 THEN "clear" ELSE "join"
  <2>1. Continue(c, [local[c] EXCEPT !.proc = p, !.pc = next]) /\ next \in {"clear", "join"}
    BY <1>2 DEF FetchPublisher
  <2> HIDE DEF p, next
  <2>2. local'[c] = [local[c] EXCEPT !.proc = p, !.pc = next]
    BY <2>1, BecomesFields DEF Continue
  <2> QED BY <2>1, <2>2, LocalIsTyped DEF Caller, Stopping
<1>3. CASE JoinPublisher(c)
  BY <1>3, GotoRecord DEF JoinPublisher, Stopping
<1> QED BY <1>1, <1>2, <1>3

LEMMA CallerServed ==
  ASSUME TypeOK, ReaderInv, CallsInv, NoStopInv, ServedInv, NEW c \in Callers,
         BeginCall(c) \/ ContinueCall(c)
  PROVE  ServedInv'
<1>1. /\ \A o \in Callers \ {c}: local'[o] = local[o]
      /\ broken' = broken
      /\ \A p \in DOMAIN procs: p \in DOMAIN procs' /\ procs'[p] = procs[p]
      /\ \A p \in DOMAIN procs' \ DOMAIN procs: procs'[p] = NewPublisher(local[c].cur)
  BY CallerMoves
<1>2. BeginCall(c) => local[c].pc = "idle"
  BY CallIsTyped DEF BeginCall
<1> SUFFICES ASSUME broken = {}, Served, GivesUpStopped, StoredAlive
             PROVE  Served' /\ GivesUpStopped' /\ StoredAlive'
  BY <1>1 DEF ServedInv
<1>3. ASSUME NEW id \in sources, destinations # {}
      PROVE  id \in BusyIds' \/ \E o \in Callers: StillToStart(local'[o], id)
  <2>1. CASE id \in BusyIds
    BY <2>1, BusyKept
  <2>2. ASSUME NEW o \in Callers, StillToStart(local[o], id)
        PROVE  id \in BusyIds' \/ StillToStart(local'[o], id)
    <3>1. CASE o = c
      <4>1. ContinueCall(c)
        BY <1>2, <2>2, <3>1 DEF StillToStart
      <4> QED BY <1>3, <2>2, <3>1, <4>1, StartsGoOn
    <3> QED BY <1>1, <2>2, <3>1
  <2> QED BY <1>3, <2>1, <2>2 DEF Served
<1>4. Served'
  <2> SUFFICES ASSUME NEW id \in sources', destinations' # {}
               PROVE  id \in BusyIds' \/ \E o \in Callers: StillToStart(local'[o], id)
    BY DEF Served
  <2>1. CASE ContinueCall(c)
    <3>1. UNCHANGED <<sources, destinations>>
      BY <2>1 DEF ContinueCall, NextToStop, SetStop, FetchPublisher, JoinPublisher, ClearStop,
         ForgetStop, CreateStop, NextToStart, StartPublisher, StorePublisher, LookAtQueue, AuditQueue,
         registry
    <3> QED BY <1>3, <3>1
  <2>2. CASE BeginCall(c)
    <3>1. PICK call \in CallsOf(c): Register(c, call) \/ Unregister(c, call) \/ Stop(c, call)
                                    \/ IsDrained(c, call) \/ Audit(c, call)
      BY <2>2 DEF BeginCall
    <3>2. CASE sources' \subseteq sources /\ destinations' = destinations
      BY <1>3, <3>2
    <3>3. CASE RegistersSource(call) /\ local'[c].pc = "event" /\ local'[c].call = call
               /\ local'[c].cur = Len(queueOf) + 1
      <4>1. sources' \subseteq sources \cup {Len(queueOf) + 1} /\ destinations' = destinations
        BY <3>1, <3>3 DEF RegistersSource, Register, Unregister, Stop, IsDrained, Audit
      <4>2. ~ForgetsSource(call)
        BY <3>3 DEF ForgetsSource, RegistersSource
      <4>3. StillToStart(local'[c], Len(queueOf) + 1)
        BY <3>3, <4>2 DEF StillToStart
      <4> QED BY <1>3, <4>1, <4>3
    <3>4. CASE local'[c].pc = "next" /\ local'[c].call = call /\ call.dir = "destination"
      <4>1. StillToStart(local'[c], id)
        BY <3>4 DEF StillToStart, StopLoop, ForgetsSource, RegistersSource
      <4> QED BY <4>1
    <3>5. ForgetsSource(call) \/ call.op \in {"stop", "is_drained", "audit"} =>
            sources' \subseteq sources /\ destinations' = destinations
      BY <3>1 DEF ForgetsSource, Register, Unregister, Stop, IsDrained, Audit, registry
    <3> QED BY <3>1, <3>2, <3>3, <3>4, <3>5, Begun
  <2> QED BY <2>1, <2>2
<1>5. GivesUpStopped'
  <2> SUFFICES ASSUME NEW p \in DOMAIN procs', Alive(p)', procs'[p].undelivered # {}
               PROVE  \E o \in Callers: Stopping(o, procs[p].src)'
    BY DEF GivesUpStopped
  <2>1. p \in DOMAIN procs /\ Alive(p) /\ procs'[p] = procs[p] /\ procs[p].undelivered # {}
    BY <1>1 DEF NewPublisher, Alive
  <2>2. PICK o \in Callers: Stopping(o, procs[p].src)
    BY <2>1 DEF GivesUpStopped
  <2>3. CASE o # c
    BY <1>1, <2>1, <2>2, <2>3 DEF Stopping
  <2>4. CASE o = c
    <3>1. ContinueCall(c)
      BY <1>2, <2>2, <2>4 DEF Stopping
    <3>2. local[c].pc # "clear"
      BY <2>1, <2>2, <2>4, ClearedIsDead DEF Stopping
    <3>3. PICK id: id = procs[p].src
      OBVIOUS
    <3>4. Stopping(c, id)'
      BY <2>2, <2>4, <3>1, <3>2, <3>3, StoppingGoesOn
    <3> QED BY <2>1, <2>4, <3>3, <3>4 DEF Stopping
  <2> QED BY <2>3, <2>4
<1>6. StoredAlive'
  <2> SUFFICES ASSUME NEW o \in Callers, local'[o].pc = "store" PROVE Alive(local[o].proc)'
    BY DEF StoredAlive
  <2>1. CASE o # c
    <3>1. local[o].proc \in DOMAIN procs /\ local'[o] = local[o]
      BY <1>1, <2>1, LocalIsTyped DEF CallerOK, AtPublisher
    <3> QED BY <1>1, <3>1 DEF StoredAlive, Alive
  <2>2. CASE o = c
    <3>1. ContinueCall(c)
      BY <2>2, Begun DEF BeginCall
    <3>2. StartPublisher(c)
      BY <2>2, <3>1, CallGoesOn
    <3>3. /\ local'[c].proc = Len(procs) + 1
          /\ procs' = Append(procs, NewPublisher(local[c].cur))
      BY <2>2, <3>2, StartedRecord
    <3>4. procs'[Len(procs) + 1] = NewPublisher(local[c].cur)
      BY <3>3 DEF TypeOK, PublishersType
    <3> QED BY <2>2, <3>3, <3>4 DEF NewPublisher, Alive
  <2> QED BY <2>1, <2>2
<1> QED BY <1>4, <1>5, <1>6

LEMMA ServedInit == Init => NoStopInv /\ OwnInv /\ ServedInv
BY DEF Init, NoStopInv, InCall, Idle, OwnInv, Ids, ServedInv, Served, GivesUpStopped, StoredAlive

LEMMA ServedNext ==
  /\ TypeOK /\ ReaderInv /\ CallsInv /\ NoStaleStopRequest /\ HandsOK
  /\ NoStopInv /\ OwnInv /\ ServedInv /\ [Next]_vars
  => ServedInv'
<1> SUFFICES ASSUME TypeOK, ReaderInv, CallsInv, NoStaleStopRequest, HandsOK, NoStopInv, OwnInv,
                    ServedInv, [Next]_vars
             PROVE  ServedInv'
  OBVIOUS
<1>1. ASSUME NEW c \in Callers, BeginCall(c) \/ ContinueCall(c) PROVE ServedInv'
  BY <1>1, CallerServed
<1>2. ASSUME NEW p \in DOMAIN procs, Publish(p) PROVE ServedInv'
  BY <1>2, PublishServed
<1>3. CASE UNCHANGED vars \/ \E q \in Queues: Produce(q) \/ Consume(q) \/ Break(q)
  <2>1. UNCHANGED <<registry, procs, local>> /\ (broken' = {} => broken = {})
    BY <1>3 DEF vars, Produce, Consume, Break, callerVars, queueVars
  <2>2. BusyIds' = BusyIds
    BY <2>1 DEF BusyIds, Running, Alive, Ids, registry
  <2> QED BY <2>1, <2>2 DEF ServedInv, Served, GivesUpStopped, StoredAlive, Alive, Stopping, registry
<1> QED BY <1>1, <1>2, <1>3 DEF Next

LEMMA ServedMeans == TypeOK /\ ReaderInv /\ NoStopInv /\ ServedInv => EverySourceServed
<1> SUFFICES ASSUME TypeOK, ReaderInv, NoStopInv, ServedInv, lock = Nobody, destinations # {},
                    broken = {}, NEW id \in sources
             PROVE  Running(pubOf[id])
  BY DEF EverySourceServed
<1>1. ASSUME NEW c \in Callers, StillToStart(local[c], id) PROVE FALSE
  BY <1>1, TheHolder, NamesAssumption DEF StillToStart, InCall
<1> QED BY <1>1 DEF ServedInv, Served, BusyIds

\* Between calls every source has a publisher at work: however many sources and destinations
\* were registered and unregistered by whatever threads, each was started again, unless
\* somebody called stop or a queue went away.
THEOREM SourcesServed == NoStops => (Spec => []EverySourceServed)
<1> SUFFICES ASSUME NoStops PROVE Spec => []EverySourceServed
  OBVIOUS
<1>1. TypeOK /\ NoStopInv /\ [Next]_vars => NoStopInv'
  BY NoStopNext
<1> QED BY <1>1, ServedInit, OwnNext, ServedNext, ServedMeans, TypeCorrect, ReaderInvariant,
           CallsInvariant, HandsInvariant, NoStopLeftOver, PTL DEF Spec

=============================================================================
