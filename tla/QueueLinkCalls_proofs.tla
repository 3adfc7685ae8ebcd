------------------------- MODULE QueueLinkCalls_proofs -------------------------
(***************************************************************************)
(* Calls, registry and publishers agree: each source queue has one reader, *)
(* no stop request is left over, and a call that holds queues_lock         *)
(* completes. Theorems about QueueLink for any queues, callers, programs   *)
(* and interleaving.                                                       *)
(***************************************************************************)
EXTENDS QueueLink_proofs

-----------------------------------------------------------------------------
(* What the steps of a call do to the caller's own record *)

LEMMA BecomesFields ==
  ASSUME TypeOK, NEW c \in Callers, NEW r, Becomes(c, r)
  PROVE  /\ local'[c] = r
         /\ \A o \in Callers \ {c}: local'[o] = local[o]
BY DEF TypeOK, CallersType, Becomes

\* Goto changes the pc and nothing else.
LEMMA GotoFields ==
  ASSUME TypeOK, NEW c \in Callers, NEW pc \in CallerPcs, Goto(c, pc)
  PROVE  /\ local'[c].pc = pc /\ local'[c].cur = local[c].cur /\ local'[c].call = local[c].call
         /\ local'[c].proc = local[c].proc
         /\ \A o \in Callers \ {c}: local'[o] = local[o]
         /\ lock' = lock
<1>1. local'[c] = [local[c] EXCEPT !.pc = pc] /\ \A o \in Callers \ {c}: local'[o] = local[o]
  BY BecomesFields DEF Goto, Continue
<1>2. local[c] \in Caller
  BY LocalIsTyped
<1> QED BY <1>1, <1>2 DEF Goto, Continue, Caller

\* Return leaves the call and frees the lock if the call held it.
LEMMA ReturnFields ==
  ASSUME TypeOK, NEW c \in Callers, NEW result, Return(c, result)
  PROVE  /\ local'[c].pc = "idle"
         /\ \A o \in Callers \ {c}: local'[o] = local[o]
         /\ \A o \in Callers \ {c}: lock = o => lock' = o
<1>1. local'[c] = Idle(local[c].made, local[c].call, result)
      /\ \A o \in Callers \ {c}: local'[o] = local[o]
  BY BecomesFields DEF Return
<1> QED BY <1>1 DEF Return, Idle

LEMMA RefuseFields ==
  ASSUME TypeOK, NEW c \in Callers, NEW call, NEW result, Refuse(c, call, result)
  PROVE  /\ local'[c].pc = "idle"
         /\ \A o \in Callers \ {c}: local'[o] = local[o]
         /\ lock' = lock
<1>1. local'[c] = Idle(local[c].made + 1, call, result)
      /\ \A o \in Callers \ {c}: local'[o] = local[o]
  BY BecomesFields DEF Refuse, Continue
<1> QED BY <1>1 DEF Refuse, Continue, Idle

\* A turn of a loop over the sources goes to the body with one of them.
LEMMA AdvanceFields ==
  ASSUME TypeOK, NEW c \in Callers, NEW body \in CallerPcs, Advance(c, body)
  PROVE  /\ local'[c].pc = body /\ local'[c].cur \in sources /\ local'[c].call = local[c].call
         /\ \A o \in Callers \ {c}: local'[o] = local[o]
         /\ lock' = lock
<1>1. PICK id \in sources:
        Continue(c, [local[c] EXCEPT !.pc = body, !.cur = id,
                       !.loop = [local[c].loop EXCEPT !.last = id, !.left = @ - 1]])
  BY DEF Advance
<1>2. /\ local'[c] = [local[c] EXCEPT !.pc = body, !.cur = id,
                        !.loop = [local[c].loop EXCEPT !.last = id, !.left = @ - 1]]
      /\ \A o \in Callers \ {c}: local'[o] = local[o]
  BY <1>1, BecomesFields DEF Continue
<1>3. local[c] \in Caller
  BY LocalIsTyped
<1> QED BY <1>1, <1>2, <1>3 DEF Continue, Caller

-----------------------------------------------------------------------------
(* Steps that leave the registry and the publishers as they are *)

\* A caller's step is safe if it keeps the lock as long as it must, forgets a
\* source to the end, and lets go of one only when its publisher is dead.
LEMMA CallerKeepsReaders ==
  ASSUME TypeOK, ReaderInv, NEW c \in Callers,
         UNCHANGED <<queueOf, sources, destinations, hasStop, pubOf, procs>>,
         \A o \in Callers \ {c}: local'[o] = local[o],
         \A o \in Callers \ {c}: lock = o => lock' = o,
         InCall(c)' /\ local'[c].call.op # "stop" => lock' = c,
         local'[c].pc \in {"event", "restart", "start", "store"} => local'[c].call.op # "stop",
         local'[c].pc \in {"next", "event", "restart", "start", "store"} =>
           ~ForgetsSource(local'[c].call),
         local'[c].pc = "forget" => ForgetsSource(local'[c].call),
         Forgetting(c)' => /\ Forgetting(c) /\ local'[c].cur = local[c].cur
                           /\ local'[c].pc = "join" => local'[c].proc = pubOf[local[c].cur],
         Forgetting(c) => Forgetting(c)' /\ local'[c].cur = local[c].cur,
         local'[c].pc \in {"event", "start", "store"} => local'[c].cur \in sources,
         local'[c].pc # "store", local[c].pc \notin {"event", "store"},
         Forgetting(c) /\ local[c].pc \in {"set", "fetch", "join"} =>
           \/ local'[c].pc \in {"set", "fetch", "join"}
           \/ \A p \in DOMAIN procs: Alive(p) => procs[p].src # local[c].cur
  PROVE  ReaderInv'
<1>1. \A o \in Callers \ {c}: (Forgetting(o) <=> Forgetting(o)') /\ (InCall(o) <=> InCall(o)')
  BY DEF Forgetting, InCall
<1>2. DistinctQueues'
  BY DEF ReaderInv, DistinctQueues
<1>3. CallersHoldLock' /\ StepsOfCalls'
  BY <1>1 DEF ReaderInv, CallersHoldLock, StepsOfCalls, ForgetsSource
<1>4. ForgottenSource'
  BY <1>1 DEF ReaderInv, ForgottenSource
<1>5. StopsOfSources'
  BY <1>1 DEF ReaderInv, StopsOfSources
<1>6. StartsAtSource'
  BY DEF ReaderInv, StartsAtSource, Running, Alive
<1>7. AliveReadsSource'
  <2> SUFFICES ASSUME NEW p \in DOMAIN procs, Alive(p), procs[p].src \notin sources
               PROVE  \E o \in Callers: /\ Forgetting(o)' /\ local'[o].cur = procs[p].src
                                        /\ local'[o].pc \in {"set", "fetch", "join"}
    BY DEF AliveReadsSource, Alive
  <2>1. PICK o \in Callers: /\ Forgetting(o) /\ local[o].cur = procs[p].src
                            /\ local[o].pc \in {"set", "fetch", "join"}
    BY DEF ReaderInv, AliveReadsSource
  <2> QED BY <1>1, <2>1
<1>8. AliveIsKnown'
  BY DEF ReaderInv, AliveIsKnown, Alive
<1> QED BY <1>2, <1>3, <1>4, <1>5, <1>6, <1>7, <1>8 DEF ReaderInv

\* A publisher keeps its source, and one that is dead stays dead.
LEMMA PublisherKeepsReaders ==
  ASSUME TypeOK, ReaderInv, NEW p \in DOMAIN procs, NEW r, Turns(p, r),
         r.src = procs[p].src, Alive(p),
         UNCHANGED <<registry, callerVars>>
  PROVE  ReaderInv'
<1>1. /\ DOMAIN procs' = DOMAIN procs
      /\ \A o \in DOMAIN procs: procs'[o].src = procs[o].src /\ (Alive(o)' => Alive(o))
  BY DEF Turns, Alive
<1>2. UNCHANGED <<queueOf, sources, destinations, hasStop, pubOf, lock, local>>
  BY DEF registry, callerVars
<1>3. \A c \in Callers: (Forgetting(c) <=> Forgetting(c)') /\ (InCall(c) <=> InCall(c)')
  BY <1>2 DEF Forgetting, InCall
<1>4. /\ DistinctQueues' /\ CallersHoldLock' /\ StepsOfCalls'
      /\ ForgottenSource' /\ StopsOfSources'
  BY <1>2, <1>3 DEF ReaderInv, DistinctQueues, CallersHoldLock, StepsOfCalls, ForgottenSource,
                    StopsOfSources
<1>5. StartsAtSource'
  <2> SUFFICES ASSUME NEW c \in Callers, local[c].pc = "store", Running(pubOf[local[c].cur])'
               PROVE  Running(pubOf[local[c].cur])
    BY <1>2 DEF ReaderInv, StartsAtSource
  <2>1. pubOf[local[c].cur] \in 0..Len(procs) /\ DOMAIN procs = 1..Len(procs)
    BY LocalIsTyped, LenProperties DEF TypeOK, RegistryType, PublishersType, CallerOK, AtSource
  <2>2. pubOf[local[c].cur] # 0 => pubOf[local[c].cur] \in DOMAIN procs
    BY <2>1
  <2> QED BY <1>1, <1>2, <2>2 DEF Running
<1>6. AliveReadsSource' /\ AliveIsKnown'
  BY <1>1, <1>2, <1>3 DEF ReaderInv, AliveReadsSource, AliveIsKnown
<1> QED BY <1>4, <1>5, <1>6 DEF ReaderInv

\* Every step of a publisher is one of those.
LEMMA PublishReader ==
  ASSUME TypeOK, ReaderInv, NEW p \in DOMAIN procs, Publish(p)
  PROVE  ReaderInv'
<1>1. procs[p] \in Publisher
  BY PublisherIsTyped
<1>2. ASSUME NEW pc, Move(p, pc), Alive(p), UNCHANGED <<registry, callerVars>>
      PROVE  ReaderInv'
  BY <1>1, <1>2, PublisherKeepsReaders DEF Move, Publisher
<1>3. ASSUME Exit(p), Alive(p), UNCHANGED <<registry, callerVars>>
      PROVE  ReaderInv'
  BY <1>1, <1>3, PublisherKeepsReaders DEF Exit, Publisher
<1>4. CASE CheckStop(p)
  BY <1>2, <1>3, <1>4 DEF CheckStop, At, Alive
<1>5. CASE GetItem(p)
  BY <1>1, <1>5, PublisherKeepsReaders DEF GetItem, At, Alive, Publisher
<1>6. CASE GetEmpty(p) \/ PutAgain(p)
  BY <1>2, <1>6 DEF GetEmpty, PutAgain, At, Alive
<1>7. CASE Snapshot(p)
  BY <1>1, <1>7, PublisherKeepsReaders DEF Snapshot, At, Alive, Publisher
<1>8. CASE FinishItem(p)
  <2>1. Alive(p) /\ UNCHANGED <<registry, callerVars>>
    BY <1>8 DEF FinishItem, At, Alive
  <2>2. CASE Exit(p)
    BY <1>3, <2>1, <2>2
  <2>3. CASE Turns(p, [procs[p] EXCEPT !.pc = "check", !.item = NoItem])
    BY <1>1, <2>1, <2>3, PublisherKeepsReaders DEF Publisher
  <2> QED BY <1>8, <2>2, <2>3 DEF FinishItem
<1>9. ASSUME NEW d \in procs[p].todo, Put(p, d) PROVE ReaderInv'
  BY <1>1, <1>9, PublisherKeepsReaders DEF Put, Trying, At, Alive, Publisher
<1>10. ASSUME NEW d \in procs[p].todo, PutTimesOut(p, d) PROVE ReaderInv'
  BY <1>2, <1>10 DEF PutTimesOut, Trying, At, Alive
<1>11. ASSUME NEW d \in procs[p].todo, Abandon(p, d) PROVE ReaderInv'
  BY <1>1, <1>11, PublisherKeepsReaders DEF Abandon, At, Alive, Publisher
<1>12. ASSUME NEW d \in procs[p].todo, PutBreaks(p, d) PROVE ReaderInv'
  BY <1>3, <1>12 DEF PutBreaks, Trying, At, Alive
<1> QED BY <1>4, <1>5, <1>6, <1>7, <1>8, <1>9, <1>10, <1>11, <1>12 DEF Publish

-----------------------------------------------------------------------------
(* The steps of calls *)

\* A call that has begun without holding the registry's ids, or is over at once.
LEMMA RefusedReader ==
  ASSUME TypeOK, ReaderInv, NEW c \in Callers, local[c].pc = "idle",
         UNCHANGED <<queueOf, sources, destinations, hasStop, pubOf, procs>>,
         NEW call, NEW result, Refuse(c, call, result)
  PROVE  ReaderInv'
BY RefuseFields, CallerKeepsReaders DEF Forgetting, InCall

LEMMA ReturnedReader ==
  ASSUME TypeOK, ReaderInv, NEW c \in Callers, ~Forgetting(c),
         local[c].pc \notin {"event", "store"},
         UNCHANGED <<queueOf, sources, destinations, hasStop, pubOf, procs>>,
         NEW result, Return(c, result)
  PROVE  ReaderInv'
BY ReturnFields, CallerKeepsReaders DEF Forgetting, InCall

\* A step from one pc to another of a call that forgets no source.
LEMMA GotoReader ==
  ASSUME TypeOK, ReaderInv, NEW c \in Callers, InCall(c), ~ForgetsSource(local[c].call),
         UNCHANGED <<queueOf, sources, destinations, hasStop, pubOf, procs>>,
         NEW pc \in {"fetch", "join", "clear", "next", "restart"}, Goto(c, pc),
         local[c].pc \notin {"event", "store"},
         pc = "restart" => local[c].call.op # "stop"
  PROVE  ReaderInv'
<1>1. pc \in CallerPcs
  BY DEF CallerPcs
<1>2. InCall(c)' /\ local[c].call.op # "stop" => lock' = c
  BY <1>1, GotoFields DEF ReaderInv, CallersHoldLock
<1> QED BY <1>1, <1>2, GotoFields, CallerKeepsReaders DEF Forgetting, InCall

\* A turn of a loop over the sources.
LEMMA AdvanceReader ==
  ASSUME TypeOK, ReaderInv, NEW c \in Callers, NEW body \in {"set", "start"}, Advance(c, body),
         local[c].pc = IF body = "set" THEN "next" ELSE "restart",
         UNCHANGED <<queueOf, sources, destinations, hasStop, pubOf, procs>>
  PROVE  ReaderInv'
<1>1. body \in CallerPcs
  BY DEF CallerPcs
<1>2. /\ ~ForgetsSource(local[c].call)
      /\ local[c].call.op # "stop" => lock = c
      /\ body = "start" => local[c].call.op # "stop"
  BY DEF ReaderInv, CallersHoldLock, StepsOfCalls, InCall
<1> QED BY <1>1, <1>2, AdvanceFields, CallerKeepsReaders DEF Forgetting, InCall

LEMMA EnterFields ==
  ASSUME NEW c, NEW call, NEW pc
  PROVE  Enter(c, call, pc) = [pc |-> pc, made |-> local[c].made + 1, call |-> call, new |-> 0,
           cur |-> 0, loop |-> NoLoop, proc |-> 0, look |-> {}, result |-> "none"]
BY DEF Enter, Idle

LEMMA StopReader ==
  ASSUME TypeOK, ReaderInv, NEW c \in Callers, NEW call \in CallsOf(c), Stop(c, call)
  PROVE  ReaderInv'
<1>1. local[c].pc = "idle"
  BY CallIsTyped
<1>2. /\ local'[c].pc = "next" /\ local'[c].call = call
      /\ \A o \in Callers \ {c}: local'[o] = local[o]
      /\ lock' = lock
  BY BecomesFields, EnterFields DEF Stop, Continue
<1> QED BY <1>1, <1>2, CallerKeepsReaders DEF Stop, Forgetting, InCall, ForgetsSource, registry

LEMMA IsDrainedReader ==
  ASSUME TypeOK, ReaderInv, NEW c \in Callers, NEW call \in CallsOf(c), IsDrained(c, call)
  PROVE  ReaderInv'
<1>1. local[c].pc = "idle" /\ UNCHANGED <<queueOf, sources, destinations, hasStop, pubOf, procs>>
  BY CallIsTyped DEF IsDrained, registry
<1>2. CASE Refuse(c, call, "False") \/ Refuse(c, call, "KeyError")
  BY <1>1, <1>2, RefusedReader
<1>3. ASSUME NEW look, Acquire(c, [Enter(c, call, "look") EXCEPT !.result = "True", !.look = look])
      PROVE  ReaderInv'
  <2> DEFINE r == [Enter(c, call, "look") EXCEPT !.result = "True", !.look = look]
  <2>1. r.pc = "look"
    BY EnterFields
  <2>2. Acquire(c, r)
    BY <1>3
  <2> HIDE DEF r
  <2>3. /\ local'[c].pc = "look" /\ \A o \in Callers \ {c}: local'[o] = local[o]
        /\ lock = Nobody /\ lock' = c
    BY <2>1, <2>2, BecomesFields DEF Acquire
  <2> QED BY <1>1, <2>3, NamesAssumption, CallerKeepsReaders DEF Forgetting, InCall
<1> QED BY <1>2, <1>3 DEF IsDrained

LEMMA AuditReader ==
  ASSUME TypeOK, ReaderInv, NEW c \in Callers, NEW call \in CallsOf(c), Audit(c, call)
  PROVE  ReaderInv'
<1>1. local[c].pc = "idle" /\ UNCHANGED <<queueOf, sources, destinations, hasStop, pubOf, procs>>
  BY CallIsTyped DEF Audit, registry
<1>2. /\ local'[c].pc = "audit" /\ \A o \in Callers \ {c}: local'[o] = local[o]
      /\ lock = Nobody /\ lock' = c
  BY BecomesFields, EnterFields DEF Audit, Acquire
<1> QED BY <1>1, <1>2, NamesAssumption, CallerKeepsReaders DEF Forgetting, InCall

\* is_empty and destructive_audit on their way from queue to queue.
LEMMA LookReader ==
  ASSUME TypeOK, ReaderInv, NEW c \in Callers, local[c].pc \in {"look", "audit"},
         NEW r, Continue(c, r), r.pc = local[c].pc, r.call = local[c].call,
         UNCHANGED <<queueOf, sources, destinations, hasStop, pubOf, procs>>
  PROVE  ReaderInv'
<1>1. local'[c] = r /\ \A o \in Callers \ {c}: local'[o] = local[o]
  BY BecomesFields DEF Continue
<1>2. local[c].call.op # "stop" => lock = c
  BY DEF ReaderInv, CallersHoldLock, InCall
<1> QED BY <1>1, <1>2, CallerKeepsReaders DEF Continue, Forgetting, InCall

LEMMA LookAtQueueReader ==
  ASSUME TypeOK, ReaderInv, NEW c \in Callers, LookAtQueue(c)
  PROVE  ReaderInv'
<1>1. local[c].pc = "look" /\ UNCHANGED <<queueOf, sources, destinations, hasStop, pubOf, procs>>
  BY DEF LookAtQueue, registry
<1>2. ASSUME NEW result, Return(c, result) PROVE ReaderInv'
  BY <1>1, <1>2, ReturnedReader DEF Forgetting
<1>3. ASSUME NEW look, NEW result,
             Continue(c, [local[c] EXCEPT !.look = look, !.result = result])
      PROVE  ReaderInv'
  <2> DEFINE r == [local[c] EXCEPT !.look = look, !.result = result]
  <2>1. r.pc = local[c].pc /\ r.call = local[c].call
    BY LocalIsTyped DEF Caller
  <2>2. Continue(c, r)
    BY <1>3
  <2> HIDE DEF r
  <2> QED BY <1>1, <2>1, <2>2, LookReader
<1>4. \/ \E result: Return(c, result)
      \/ \E look, result: Continue(c, [local[c] EXCEPT !.look = look, !.result = result])
  BY Zenon DEF LookAtQueue
<1> QED BY <1>2, <1>3, <1>4

LEMMA AuditQueueReader ==
  ASSUME TypeOK, ReaderInv, NEW c \in Callers, AuditQueue(c)
  PROVE  ReaderInv'
<1>1. local[c].pc = "audit" /\ UNCHANGED <<queueOf, sources, destinations, hasStop, pubOf, procs>>
  BY DEF AuditQueue, registry
<1>2. ASSUME NEW result, Return(c, result) PROVE ReaderInv'
  BY <1>1, <1>2, ReturnedReader DEF Forgetting
<1>3. ASSUME NEW look, Continue(c, [local[c] EXCEPT !.look = look])
      PROVE  ReaderInv'
  BY <1>1, <1>3, LocalIsTyped, LookReader DEF Caller
<1> QED BY <1>2, <1>3 DEF AuditQueue

\* Once the publisher a source is known by is gone, nobody reads the source.
LEMMA NobodyReads ==
  ASSUME TypeOK, ReaderInv, NEW c \in Callers, Forgetting(c), ~Running(pubOf[local[c].cur])
  PROVE  \A p \in DOMAIN procs: Alive(p) => procs[p].src # local[c].cur
<1> SUFFICES ASSUME NEW p \in DOMAIN procs, Alive(p), procs[p].src = local[c].cur PROVE FALSE
  OBVIOUS
<1>1. p # 0
  BY LenProperties DEF TypeOK, PublishersType
<1>2. lock = c
  BY DEF ReaderInv, CallersHoldLock, Forgetting, InCall, ForgetsSource
<1>3. CASE p = pubOf[procs[p].src]
  BY <1>1, <1>3 DEF Running
<1>4. ASSUME NEW o \in Callers, local[o].pc = "store" PROVE FALSE
  <2>1. lock = o
    BY <1>4 DEF ReaderInv, CallersHoldLock, StepsOfCalls, InCall
  <2> QED BY <1>2, <1>4, <2>1 DEF Forgetting
<1> QED BY <1>3, <1>4 DEF ReaderInv, AliveIsKnown

LEMMA NextToStopReader ==
  ASSUME TypeOK, ReaderInv, NEW c \in Callers, NextToStop(c)
  PROVE  ReaderInv'
<1>1. local[c].pc = "next" /\ UNCHANGED <<queueOf, sources, destinations, hasStop, pubOf, procs>>
  BY DEF NextToStop, registry
<1>2. ASSUME NEW result, Return(c, result) PROVE ReaderInv'
  BY <1>1, <1>2, ReturnedReader DEF Forgetting
<1>3. CASE Advance(c, "set")
  BY <1>1, <1>3, AdvanceReader
<1>4. CASE /\ local[c].call.op # "stop"
           /\ Continue(c, [local[c] EXCEPT !.pc = "restart", !.loop = LoopOver(sources)])
  <2>1. ~ForgetsSource(local[c].call) /\ lock = c
    BY <1>1, <1>4 DEF ReaderInv, StepsOfCalls, CallersHoldLock, InCall
  <2>2. /\ local'[c].pc = "restart" /\ local'[c].call = local[c].call
        /\ \A o \in Callers \ {c}: local'[o] = local[o]
        /\ lock' = lock
    <3> DEFINE loop == LoopOver(sources)
               r == [local[c] EXCEPT !.pc = "restart", !.loop = loop]
    <3>1. Continue(c, r)
      BY <1>4
    <3> HIDE DEF loop
    <3>2. r.pc = "restart" /\ r.call = local[c].call
      BY LocalIsTyped DEF Caller
    <3> HIDE DEF r
    <3> QED BY <3>1, <3>2, BecomesFields DEF Continue
  <2> QED BY <1>1, <1>4, <2>1, <2>2, CallerKeepsReaders DEF Forgetting, InCall
<1> QED BY <1>2, <1>3, <1>4 DEF NextToStop

LEMMA SetStopReader ==
  ASSUME TypeOK, ReaderInv, NEW c \in Callers, SetStop(c)
  PROVE  ReaderInv'
<1>1. local[c].pc = "set" /\ UNCHANGED <<queueOf, sources, destinations, hasStop, pubOf, procs>>
  BY DEF SetStop, registry
<1>2. CASE local[c].cur \notin hasStop /\ Return(c, "KeyError")
  <2>1. ~Forgetting(c)
    BY <1>2 DEF ReaderInv, ForgottenSource
  <2> QED BY <1>1, <1>2, <2>1, ReturnedReader
<1>3. CASE Goto(c, "fetch")
  <2>1. local[c].call.op # "stop" => lock = c
    BY <1>1 DEF ReaderInv, CallersHoldLock, InCall
  <2> QED BY <1>1, <1>3, <2>1, GotoFields, CallerKeepsReaders DEF Forgetting, InCall, CallerPcs
<1> QED BY <1>2, <1>3 DEF SetStop

LEMMA FetchPublisherReader ==
  ASSUME TypeOK, ReaderInv, NEW c \in Callers, FetchPublisher(c)
  PROVE  ReaderInv'
<1> DEFINE p == pubOf[local[c].cur]
           pc == IF p = 0 THEN "clear" ELSE "join"
           r == [local[c] EXCEPT !.proc = p, !.pc = pc]
<1>1. /\ local[c].pc = "fetch" /\ Continue(c, r)
      /\ UNCHANGED <<queueOf, sources, destinations, hasStop, pubOf, procs>>
  BY DEF FetchPublisher, registry
<1>2. local[c].call.op # "stop" => lock = c
  BY <1>1 DEF ReaderInv, CallersHoldLock, InCall
<1>3. Forgetting(c) /\ p = 0 => \A o \in DOMAIN procs: Alive(o) => procs[o].src # local[c].cur
  BY NobodyReads DEF Running
<1>4. pc \in {"clear", "join"} /\ (pc = "clear" => p = 0)
  OBVIOUS
<1> HIDE DEF p, pc
<1>5. r.pc = pc /\ r.proc = p /\ r.cur = local[c].cur /\ r.call = local[c].call
  BY LocalIsTyped DEF Caller
<1> HIDE DEF r
<1>6. /\ local'[c].pc = pc /\ local'[c].proc = p /\ local'[c].cur = local[c].cur
      /\ local'[c].call = local[c].call
      /\ \A o \in Callers \ {c}: local'[o] = local[o]
      /\ lock' = lock
  BY <1>1, <1>5, BecomesFields DEF Continue
<1>7. p = pubOf[local[c].cur]
  BY DEF p
<1> QED BY <1>1, <1>2, <1>3, <1>4, <1>6, <1>7, CallerKeepsReaders DEF Forgetting, InCall

LEMMA JoinPublisherReader ==
  ASSUME TypeOK, ReaderInv, NEW c \in Callers, JoinPublisher(c)
  PROVE  ReaderInv'
<1>1. /\ local[c].pc = "join" /\ ~Alive(local[c].proc) /\ Goto(c, "clear")
      /\ UNCHANGED <<queueOf, sources, destinations, hasStop, pubOf, procs>>
  BY DEF JoinPublisher, registry
<1>2. local[c].call.op # "stop" => lock = c
  BY <1>1 DEF ReaderInv, CallersHoldLock, InCall
<1>3. Forgetting(c) => \A p \in DOMAIN procs: Alive(p) => procs[p].src # local[c].cur
  BY <1>1, NobodyReads DEF ReaderInv, ForgottenSource, Running
<1> QED BY <1>1, <1>2, <1>3, GotoFields, CallerKeepsReaders DEF Forgetting, InCall, CallerPcs

LEMMA ClearStopReader ==
  ASSUME TypeOK, ReaderInv, NEW c \in Callers, ClearStop(c)
  PROVE  ReaderInv'
<1>1. /\ local[c].pc = "clear"
      /\ UNCHANGED <<queueOf, sources, destinations, hasStop, pubOf, procs>>
  BY DEF ClearStop, registry
<1>2. local[c].call.op # "stop" => lock = c
  BY <1>1 DEF ReaderInv, CallersHoldLock, InCall
<1>3. CASE ForgetsSource(local[c].call) /\ Goto(c, "forget")
  <2>1. local[c].call.op # "stop"
    BY <1>3 DEF ForgetsSource
  <2> QED BY <1>1, <1>2, <1>3, <2>1, GotoFields, CallerKeepsReaders DEF Forgetting, InCall, CallerPcs
<1>4. CASE ~ForgetsSource(local[c].call) /\ Goto(c, "next")
  BY <1>1, <1>4, GotoReader DEF InCall
<1> QED BY <1>3, <1>4 DEF ClearStop

-----------------------------------------------------------------------------
(* The steps that change the registry or start a publisher *)

\* A caller that does not hold the lock is neither forgetting a source nor
\* starting a publisher.
LEMMA OnlyTheHolder ==
  ASSUME ReaderInv, NEW o \in Callers, lock # o
  PROVE  ~Forgetting(o) /\ local[o].pc \notin {"forget", "event", "restart", "start", "store"}
BY DEF ReaderInv, CallersHoldLock, StepsOfCalls, Forgetting, ForgetsSource, InCall

\* When nobody holds the lock, the registry is settled.
LEMMA SettledRegistry ==
  ASSUME ReaderInv, lock = Nobody
  PROVE  /\ hasStop = sources
         /\ \A p \in DOMAIN procs: Alive(p) => procs[p].src \in sources /\ p = pubOf[procs[p].src]
<1>1. \A o \in Callers: ~Forgetting(o) /\ local[o].pc \notin {"event", "store"}
  BY OnlyTheHolder, NamesAssumption
<1> QED BY <1>1 DEF ReaderInv, StopsOfSources, AliveReadsSource, AliveIsKnown

\* A settled registry without the dead, of which c is the only caller in a
\* call that holds the lock.
LEMMA AloneReader ==
  ASSUME TypeOK, ReaderInv, NEW c \in Callers, lock \in {c, Nobody},
         \A o \in Callers \ {c}: local'[o] = local[o],
         DistinctQueues',
         InCall(c)' /\ local'[c].call.op # "stop" => lock' = c,
         local'[c].pc \in {"event", "restart", "start", "store"} => local'[c].call.op # "stop",
         local'[c].pc \in {"next", "event", "restart", "start", "store"} =>
           ~ForgetsSource(local'[c].call),
         local'[c].pc = "forget" => ForgetsSource(local'[c].call),
         Forgetting(c)' => /\ local'[c].cur \in hasStop' /\ local'[c].pc # "join"
                           /\ \A i \in sources' \cup destinations':
                                queueOf'[i] # queueOf'[local'[c].cur],
         \A i \in hasStop' \ sources': Forgetting(c)' /\ local'[c].cur = i,
         \A i \in sources' \ hasStop': local'[c].pc = "event" /\ local'[c].cur = i,
         local'[c].pc \in {"event", "start", "store"} => local'[c].cur \in sources',
         local'[c].pc = "store" => ~Running(pubOf[local[c].cur])',
         \A p \in DOMAIN procs': Alive(p)' =>
           /\ \/ procs'[p].src \in sources'
              \/ /\ Forgetting(c)' /\ local'[c].cur = procs'[p].src
                 /\ local'[c].pc \in {"set", "fetch", "join"}
           /\ \/ p = pubOf'[procs'[p].src]
              \/ /\ local'[c].pc = "store" /\ local'[c].proc = p
                 /\ local'[c].cur = procs'[p].src
  PROVE  ReaderInv'
<1>1. \A o \in Callers \ {c}: lock # o
  BY NamesAssumption
<1>2. \A o \in Callers \ {c}:
        /\ ~Forgetting(o)' /\ (InCall(o)' => local'[o].call.op = "stop")
        /\ local'[o].pc \notin {"forget", "event", "restart", "start", "store"}
  BY <1>1, OnlyTheHolder DEF ReaderInv, CallersHoldLock, Forgetting, InCall
<1>3. CallersHoldLock'
  BY <1>2 DEF CallersHoldLock
<1>4. StepsOfCalls'
  BY <1>1, <1>2 DEF ReaderInv, StepsOfCalls
<1>5. ForgottenSource' /\ StopsOfSources'
  BY <1>2 DEF ForgottenSource, StopsOfSources
<1>6. StartsAtSource'
  BY <1>2 DEF StartsAtSource
<1>7. AliveReadsSource' /\ AliveIsKnown'
  BY DEF AliveReadsSource, AliveIsKnown
<1> QED BY <1>3, <1>4, <1>5, <1>6, <1>7 DEF ReaderInv

LEMMA RegisterReader ==
  ASSUME TypeOK, ReaderInv, NEW c \in Callers, NEW call \in CallsOf(c), Register(c, call)
  PROVE  ReaderInv'
<1> DEFINE id == Len(queueOf) + 1
<1>1. local[c].pc = "idle" /\ call \in Call /\ call.op = "register" /\ call.q \in Queues
      /\ lock = Nobody /\ UNCHANGED <<hasStop, procs>>
  BY CallIsTyped DEF Register
<1>2. CASE Refuse(c, call, "ValueError") /\ UNCHANGED <<queueOf, sources, destinations, pubOf>>
  BY <1>1, <1>2, RefusedReader
<1>3. ASSUME ~Registered(call.q), queueOf' = Append(queueOf, call.q), pubOf' = Append(pubOf, 0),
             NEW r, Acquire(c, r), r.call = call,
             \/ /\ r.pc = "event" /\ r.cur = id /\ call.dir = "source"
                /\ sources' = sources \cup {id} /\ UNCHANGED destinations
             \/ /\ r.pc = "next"
                /\ destinations' = destinations \cup {id} /\ UNCHANGED sources
      PROVE  ReaderInv'
  <2>1. /\ Ids = 1..Len(queueOf) /\ Len(queueOf) \in Nat /\ id \notin Ids
        /\ sources \subseteq Ids /\ destinations \subseteq Ids
    BY LenProperties DEF TypeOK, RegistryType, Ids
  <2>2. /\ \A i \in Ids: queueOf'[i] = queueOf[i] /\ pubOf'[i] = pubOf[i]
        /\ queueOf'[id] = call.q
    <3>1. Len(pubOf) = Len(queueOf) /\ pubOf \in Seq(Nat) /\ queueOf \in Seq(Queues)
      BY DEF TypeOK, RegistryType
    <3>2. \A i \in 1..Len(queueOf): queueOf'[i] = queueOf[i]
      BY <1>1, <1>3, <3>1, AppendProperties
    <3>3. \A i \in 1..Len(pubOf): pubOf'[i] = pubOf[i]
      BY <1>3, <3>1, AppendProperties
    <3>4. queueOf'[id] = call.q
      BY <1>1, <1>3, <3>1, AppendProperties
    <3> QED BY <2>1, <3>1, <3>2, <3>3, <3>4
  <2>3. \A i \in sources \cup destinations: queueOf[i] # call.q
    BY <1>3 DEF Registered
  <2>4. local'[c] = r /\ lock' = c /\ \A o \in Callers \ {c}: local'[o] = local[o]
    BY <1>3, BecomesFields DEF Acquire
  <2> HIDE DEF id
  <2>5. DistinctQueues'
    <3>1. DistinctQueues
      BY DEF ReaderInv
    <3>2. sources' \cap destinations' = {}
      BY <1>3, <2>1, <3>1 DEF DistinctQueues
    <3>3. sources' \cup destinations' = (sources \cup destinations) \cup {id}
      BY <1>3
    <3>4. \A i \in sources \cup destinations: queueOf'[i] = queueOf[i] /\ queueOf'[i] # queueOf'[id]
      BY <2>1, <2>2, <2>3
    <3>5. ASSUME NEW i \in sources' \cup destinations', NEW j \in sources' \cup destinations',
                 queueOf'[i] = queueOf'[j]
          PROVE  i = j
      BY <3>1, <3>3, <3>4, <3>5 DEF DistinctQueues
    <3> QED BY <3>2, <3>5 DEF DistinctQueues
  <2>6. /\ hasStop = sources
        /\ \A p \in DOMAIN procs: Alive(p) => procs[p].src \in sources /\ p = pubOf[procs[p].src]
    BY <1>1, SettledRegistry
  <2>7. ~ForgetsSource(call) /\ call.op # "stop"
    BY <1>1 DEF ForgetsSource
  <2>8. \A p \in DOMAIN procs': Alive(p)' =>
          procs'[p].src \in sources' /\ p = pubOf'[procs'[p].src]
    BY <1>1, <1>3, <2>1, <2>2, <2>6 DEF Alive
  <2> QED BY <1>1, <1>3, <2>4, <2>5, <2>6, <2>7, <2>8, AloneReader DEF Forgetting, InCall
<1>4. \/ Refuse(c, call, "ValueError") /\ UNCHANGED <<queueOf, sources, destinations, pubOf>>
      \/ /\ ~Registered(call.q) /\ queueOf' = Append(queueOf, call.q) /\ pubOf' = Append(pubOf, 0)
         /\ \/ /\ call.dir = "source" /\ sources' = sources \cup {id} /\ UNCHANGED destinations
               /\ Acquire(c, [Enter(c, call, "event") EXCEPT !.new = id, !.cur = id])
            \/ /\ destinations' = destinations \cup {id} /\ UNCHANGED sources
               /\ Acquire(c, [Enter(c, call, "next") EXCEPT !.new = id,
                                                           !.loop = LoopOver(sources)])
  BY Zenon DEF Register
<1>5. /\ [Enter(c, call, "event") EXCEPT !.new = id, !.cur = id].call = call
      /\ [Enter(c, call, "event") EXCEPT !.new = id, !.cur = id].pc = "event"
      /\ [Enter(c, call, "event") EXCEPT !.new = id, !.cur = id].cur = id
  BY EnterFields
<1>6. /\ [Enter(c, call, "next") EXCEPT !.new = id, !.loop = LoopOver(sources)].call = call
      /\ [Enter(c, call, "next") EXCEPT !.new = id, !.loop = LoopOver(sources)].pc = "next"
  BY EnterFields
<1> HIDE DEF id
<1> QED BY <1>2, <1>3, <1>4, <1>5, <1>6

LEMMA UnregisterReader ==
  ASSUME TypeOK, ReaderInv, NEW c \in Callers, NEW call \in CallsOf(c), Unregister(c, call)
  PROVE  ReaderInv'
<1>1. /\ local[c].pc = "idle" /\ call.op = "unregister" /\ lock = Nobody
      /\ UNCHANGED <<queueOf, pubOf, hasStop, procs>>
  BY CallIsTyped DEF Unregister
<1>2. /\ hasStop = sources
      /\ \A p \in DOMAIN procs: Alive(p) => procs[p].src \in sources /\ p = pubOf[procs[p].src]
  BY <1>1, SettledRegistry
<1>3. CASE /\ sources' = sources \ {call.id} /\ UNCHANGED destinations /\ call.id \notin hasStop
           /\ Refuse(c, call, "ok")
  <2>1. sources' = sources
    BY <1>2, <1>3
  <2> QED BY <1>1, <1>3, <2>1, RefusedReader
<1>4. CASE /\ call.dir = "source" /\ call.id \in hasStop
           /\ sources' = sources \ {call.id} /\ UNCHANGED destinations
           /\ Acquire(c, [Enter(c, call, "set") EXCEPT !.cur = call.id])
  <2> DEFINE r == [Enter(c, call, "set") EXCEPT !.cur = call.id]
  <2>1. r.pc = "set" /\ r.cur = call.id /\ r.call = call
    BY EnterFields
  <2>2. Acquire(c, r)
    BY <1>4
  <2> HIDE DEF r
  <2>3. local'[c] = r /\ lock' = c /\ \A o \in Callers \ {c}: local'[o] = local[o]
    BY <2>2, BecomesFields DEF Acquire
  <2>4. Forgetting(c)' /\ InCall(c)'
    BY <1>1, <1>4, <2>1, <2>3 DEF Forgetting, ForgetsSource, InCall
  <2>5. DistinctQueues' /\ \A i \in sources' \cup destinations': queueOf'[i] # queueOf'[call.id]
    BY <1>1, <1>2, <1>4 DEF ReaderInv, DistinctQueues
  <2>6. \A p \in DOMAIN procs': Alive(p)' =>
          procs'[p].src \in sources /\ p = pubOf'[procs'[p].src]
    BY <1>1, <1>2 DEF Alive
  <2> QED BY <1>1, <1>2, <1>4, <2>1, <2>3, <2>4, <2>5, <2>6, AloneReader
<1>5. CASE /\ call.dir = "destination" /\ UNCHANGED sources
           /\ destinations' = destinations \ {call.id}
           /\ Acquire(c, [Enter(c, call, "next") EXCEPT !.loop = LoopOver(sources)])
  <2> DEFINE r == [Enter(c, call, "next") EXCEPT !.loop = LoopOver(sources)]
  <2>1. r.pc = "next" /\ r.call = call
    BY EnterFields
  <2>2. Acquire(c, r)
    BY <1>5
  <2> HIDE DEF r
  <2>3. local'[c] = r /\ lock' = c /\ \A o \in Callers \ {c}: local'[o] = local[o]
    BY <2>2, BecomesFields DEF Acquire
  <2>4. ~Forgetting(c)' /\ ~ForgetsSource(call)
    BY <1>5, <2>1, <2>3 DEF Forgetting, ForgetsSource
  <2>5. DistinctQueues'
    BY <1>1, <1>5 DEF ReaderInv, DistinctQueues
  <2>6. \A p \in DOMAIN procs': Alive(p)' =>
          procs'[p].src \in sources' /\ p = pubOf'[procs'[p].src]
    BY <1>1, <1>2, <1>5 DEF Alive
  <2> QED BY <1>1, <1>2, <1>5, <2>1, <2>3, <2>4, <2>5, <2>6, AloneReader
<1> QED BY <1>3, <1>4, <1>5 DEF Unregister

LEMMA ForgetStopReader ==
  ASSUME TypeOK, ReaderInv, NEW c \in Callers, ForgetStop(c)
  PROVE  ReaderInv'
<1>1. /\ local[c].pc = "forget" /\ hasStop' = hasStop \ {local[c].cur} /\ Return(c, "ok")
      /\ UNCHANGED <<queueOf, sources, destinations, pubOf, procs>>
  BY DEF ForgetStop
<1>2. Forgetting(c) /\ lock = c
  BY <1>1 DEF ReaderInv, StepsOfCalls, CallersHoldLock, Forgetting, ForgetsSource, InCall
<1>3. \A o \in Callers \ {c}: ~Forgetting(o) /\ local[o].pc \notin {"event", "store"}
  BY <1>2, OnlyTheHolder
<1>4. hasStop' = sources
  <2>1. local[c].cur \notin sources
    BY <1>2 DEF ReaderInv, ForgottenSource
  <2>2. hasStop \ sources \subseteq {local[c].cur} /\ sources \subseteq hasStop
    BY <1>1, <1>3 DEF ReaderInv, StopsOfSources
  <2> QED BY <1>1, <2>1, <2>2
<1>5. \A p \in DOMAIN procs: Alive(p) => procs[p].src \in sources /\ p = pubOf[procs[p].src]
  BY <1>1, <1>3 DEF ReaderInv, AliveReadsSource, AliveIsKnown
<1>6. local'[c].pc = "idle" /\ \A o \in Callers \ {c}: local'[o] = local[o]
  BY <1>1, ReturnFields
<1>7. DistinctQueues'
  BY <1>1 DEF ReaderInv, DistinctQueues
<1>8. \A p \in DOMAIN procs': Alive(p)' =>
        procs'[p].src \in sources' /\ p = pubOf'[procs'[p].src]
  BY <1>1, <1>5 DEF Alive
<1> QED BY <1>1, <1>2, <1>4, <1>6, <1>7, <1>8, AloneReader DEF Forgetting, InCall

LEMMA CreateStopReader ==
  ASSUME TypeOK, ReaderInv, NEW c \in Callers, CreateStop(c)
  PROVE  ReaderInv'
<1>1. /\ local[c].pc = "event" /\ hasStop' = hasStop \cup {local[c].cur} /\ Goto(c, "start")
      /\ UNCHANGED <<queueOf, sources, destinations, pubOf, procs>>
  BY DEF CreateStop
<1>2. /\ lock = c /\ local[c].cur \in sources /\ local[c].call.op # "stop"
      /\ ~ForgetsSource(local[c].call)
  BY <1>1 DEF ReaderInv, StepsOfCalls, CallersHoldLock, StartsAtSource, InCall
<1>3. \A o \in Callers \ {c}: ~Forgetting(o) /\ local[o].pc \notin {"event", "store"}
  BY <1>2, OnlyTheHolder
<1>4. hasStop' = sources
  BY <1>1, <1>2, <1>3 DEF ReaderInv, StopsOfSources, Forgetting
<1>5. \A p \in DOMAIN procs: Alive(p) => procs[p].src \in sources /\ p = pubOf[procs[p].src]
  BY <1>1, <1>3 DEF ReaderInv, AliveReadsSource, AliveIsKnown, Forgetting
<1>6. /\ local'[c].pc = "start" /\ local'[c].cur = local[c].cur /\ local'[c].call = local[c].call
      /\ \A o \in Callers \ {c}: local'[o] = local[o]
      /\ lock' = c
  BY <1>1, <1>2, GotoFields DEF CallerPcs
<1>7. DistinctQueues'
  BY <1>1 DEF ReaderInv, DistinctQueues
<1>8. \A p \in DOMAIN procs': Alive(p)' =>
        procs'[p].src \in sources' /\ p = pubOf'[procs'[p].src]
  BY <1>1, <1>5 DEF Alive
<1> QED BY <1>1, <1>2, <1>4, <1>6, <1>7, <1>8, AloneReader DEF Forgetting, InCall

LEMMA NextToStartReader ==
  ASSUME TypeOK, ReaderInv, NEW c \in Callers, NextToStart(c)
  PROVE  ReaderInv'
<1>1. local[c].pc = "restart"
      /\ UNCHANGED <<queueOf, sources, destinations, hasStop, pubOf, procs>>
  BY DEF NextToStart, registry
<1>2. ASSUME NEW result, Return(c, result) PROVE ReaderInv'
  BY <1>1, <1>2, ReturnedReader DEF Forgetting
<1>3. CASE Advance(c, "start")
  BY <1>1, <1>3, AdvanceReader
<1> QED BY <1>2, <1>3 DEF NextToStart

\* While c starts a publisher, every other living one is known, and hasStop is
\* what the sources are.
LEMMA StartingRegistry ==
  ASSUME ReaderInv, NEW c \in Callers, local[c].pc \in {"start", "store"}
  PROVE  /\ lock = c /\ hasStop = sources /\ local[c].cur \in sources
         /\ local[c].call.op # "stop" /\ ~ForgetsSource(local[c].call)
         /\ \A p \in DOMAIN procs: Alive(p) =>
              /\ procs[p].src \in sources
              /\ \/ p = pubOf[procs[p].src]
                 \/ /\ local[c].pc = "store" /\ local[c].proc = p
                    /\ local[c].cur = procs[p].src
<1>1. /\ lock = c /\ local[c].cur \in sources
      /\ local[c].call.op # "stop" /\ ~ForgetsSource(local[c].call)
  BY DEF ReaderInv, StepsOfCalls, CallersHoldLock, StartsAtSource, InCall
<1>2. \A o \in Callers \ {c}: ~Forgetting(o) /\ local[o].pc \notin {"event", "store"}
  BY <1>1, OnlyTheHolder
<1>3. ~Forgetting(c) /\ local[c].pc # "event"
  BY DEF Forgetting
<1>4. hasStop = sources
  BY <1>2, <1>3 DEF ReaderInv, StopsOfSources
<1>5. ASSUME NEW p \in DOMAIN procs, Alive(p)
      PROVE  /\ procs[p].src \in sources
             /\ \/ p = pubOf[procs[p].src]
                \/ /\ local[c].pc = "store" /\ local[c].proc = p
                   /\ local[c].cur = procs[p].src
  BY <1>2, <1>3, <1>5 DEF ReaderInv, AliveReadsSource, AliveIsKnown
<1> QED BY <1>1, <1>4, <1>5

LEMMA AfterStartFields ==
  ASSUME TypeOK, NEW c \in Callers, AfterStart(c), lock = c
  PROVE  /\ local'[c].pc = "idle" \/ (local'[c].pc = "restart" /\ lock' = c
                                       /\ local'[c].call = local[c].call)
         /\ \A o \in Callers \ {c}: local'[o] = local[o]
<1>1. CASE Return(c, "ok")
  BY <1>1, ReturnFields
<1>2. CASE Goto(c, "restart")
  BY <1>2, GotoFields DEF CallerPcs
<1> QED BY <1>1, <1>2 DEF AfterStart

LEMMA StartPublisherReader ==
  ASSUME TypeOK, ReaderInv, NEW c \in Callers, StartPublisher(c)
  PROVE  ReaderInv'
<1> DEFINE id == local[c].cur
           n == Len(procs) + 1
           r == [local[c] EXCEPT !.pc = "store", !.proc = n]
<1>1. /\ local[c].pc = "start"
      /\ UNCHANGED <<queueOf, sources, destinations, hasStop, pubOf>>
      /\ \/ UNCHANGED procs /\ (Return(c, "KeyError") \/ Return(c, "ValueError: running"))
         \/ UNCHANGED procs /\ AfterStart(c)
         \/ /\ ~Running(pubOf[id]) /\ procs' = Append(procs, NewPublisher(id))
            /\ Continue(c, r)
  BY DEF StartPublisher
<1>2. CASE UNCHANGED procs /\ (Return(c, "KeyError") \/ Return(c, "ValueError: running"))
  BY <1>1, <1>2, ReturnedReader DEF Forgetting
<1>3. CASE UNCHANGED procs /\ AfterStart(c)
  <2>1. CASE Return(c, "ok")
    BY <1>1, <1>3, <2>1, ReturnedReader DEF Forgetting
  <2>2. CASE Goto(c, "restart")
    BY <1>1, <1>3, <2>2, StartingRegistry, GotoReader DEF InCall
  <2> QED BY <1>3, <2>1, <2>2 DEF AfterStart
<1>4. CASE /\ ~Running(pubOf[id]) /\ procs' = Append(procs, NewPublisher(id))
           /\ Continue(c, r)
  <2>1. id \in Ids /\ id \in sources /\ pubOf[id] \in 0..Len(procs)
    BY <1>1, StartingRegistry DEF TypeOK, RegistryType
  <2>2. /\ Len(procs) \in Nat /\ DOMAIN procs = 1..Len(procs) /\ DOMAIN procs' = 1..n
        /\ \A p \in DOMAIN procs: procs'[p] = procs[p]
        /\ procs'[n] = NewPublisher(id)
    <3>1. PublishersType' /\ Len(procs') = n /\ Len(procs) \in Nat
      BY <1>1, <1>4, <2>1, NewPublisherType
    <3>2. procs \in Seq(Publisher) /\ procs' \in Seq(Publisher)
      BY <3>1 DEF TypeOK, PublishersType
    <3> QED BY <1>1, <1>4, <2>1, <3>1, <3>2, NewPublisherType, LenProperties
  <2>3. /\ local'[c].pc = "store" /\ local'[c].proc = n /\ local'[c].cur = id
        /\ local'[c].call = local[c].call
        /\ \A o \in Callers \ {c}: local'[o] = local[o]
        /\ lock' = lock
    <3>1. r.pc = "store" /\ r.proc = n /\ r.cur = id /\ r.call = local[c].call
      <4> HIDE DEF n
      <4> QED BY LocalIsTyped DEF Caller
    <3> HIDE DEF r
    <3> QED BY <1>4, <3>1, BecomesFields DEF Continue
  <2>4. NewPublisher(id).src = id
    BY DEF NewPublisher
  <2>5. ~Running(pubOf[local[c].cur])'
    <3>1. pubOf[id] # 0 => pubOf[id] \in DOMAIN procs
      BY <2>1, <2>2
    <3> QED BY <1>1, <1>4, <2>2, <2>3, <3>1 DEF Running, Alive
  <2>6. DistinctQueues'
    BY <1>1 DEF ReaderInv, DistinctQueues
  <2>7. \A p \in DOMAIN procs': Alive(p)' =>
          /\ procs'[p].src \in sources'
          /\ \/ p = pubOf'[procs'[p].src]
             \/ local'[c].pc = "store" /\ local'[c].proc = p /\ local'[c].cur = procs'[p].src
    <3> SUFFICES ASSUME NEW p \in DOMAIN procs', Alive(p)'
                 PROVE  /\ procs'[p].src \in sources'
                        /\ \/ p = pubOf'[procs'[p].src]
                           \/ /\ local'[c].pc = "store" /\ local'[c].proc = p
                              /\ local'[c].cur = procs'[p].src
      OBVIOUS
    <3>1. CASE p = n
      BY <1>1, <2>1, <2>2, <2>3, <2>4, <3>1
    <3>2. CASE p \in DOMAIN procs
      BY <1>1, <2>2, <3>2, StartingRegistry DEF Alive
    <3> QED BY <2>2, <3>1, <3>2
  <2> HIDE DEF id, n, r
  <2>8. /\ lock = c /\ hasStop' = sources' /\ id \in sources'
        /\ local'[c].call.op # "stop" /\ ~ForgetsSource(local'[c].call) /\ lock' = c
    BY <1>1, <2>1, <2>3, StartingRegistry
  <2> QED BY <2>3, <2>5, <2>6, <2>7, <2>8, AloneReader DEF Forgetting, InCall
<1> HIDE DEF id, n, r
<1> QED BY <1>1, <1>2, <1>3, <1>4

LEMMA StorePublisherReader ==
  ASSUME TypeOK, ReaderInv, NEW c \in Callers, StorePublisher(c)
  PROVE  ReaderInv'
<1>1. /\ local[c].pc = "store" /\ AfterStart(c)
      /\ pubOf' = [pubOf EXCEPT ![local[c].cur] = local[c].proc]
      /\ UNCHANGED <<queueOf, sources, destinations, hasStop, procs>>
  BY DEF StorePublisher
<1>2. /\ lock = c /\ hasStop = sources /\ local[c].cur \in sources
      /\ local[c].call.op # "stop" /\ ~ForgetsSource(local[c].call)
  BY <1>1, StartingRegistry
<1>3. local[c].cur \in DOMAIN pubOf
  BY <1>2, LenProperties DEF TypeOK, RegistryType, Ids
<1>4. \A p \in DOMAIN procs': Alive(p)' =>
        procs'[p].src \in sources' /\ p = pubOf'[procs'[p].src]
  <2> SUFFICES ASSUME NEW p \in DOMAIN procs, Alive(p)
               PROVE  procs[p].src \in sources /\ p = pubOf'[procs[p].src]
    BY <1>1 DEF Alive
  <2>1. procs[p].src \in sources /\ (\/ p = pubOf[procs[p].src]
                                     \/ local[c].proc = p /\ local[c].cur = procs[p].src)
    BY <1>1, StartingRegistry
  <2>2. CASE p = pubOf[procs[p].src] /\ procs[p].src = local[c].cur
    <3>1. ~Running(p)
      BY <1>1, <2>2 DEF ReaderInv, StartsAtSource
    <3>2. p # 0
      BY LenProperties DEF TypeOK, PublishersType
    <3> QED BY <3>1, <3>2 DEF Running
  <2>3. CASE p = pubOf[procs[p].src] /\ procs[p].src # local[c].cur
    BY <1>1, <2>1, <2>3
  <2>4. CASE local[c].proc = p /\ local[c].cur = procs[p].src
    BY <1>1, <1>3, <2>1, <2>4
  <2> QED BY <2>1, <2>2, <2>3, <2>4
<1>5. DistinctQueues'
  BY <1>1 DEF ReaderInv, DistinctQueues
<1> QED BY <1>1, <1>2, <1>4, <1>5, AfterStartFields, AloneReader DEF Forgetting, InCall

-----------------------------------------------------------------------------
(* The theorems *)

LEMMA ReaderInit == Init => ReaderInv
<1> SUFFICES ASSUME Init PROVE ReaderInv
  OBVIOUS
<1>1. \A c \in Callers: local[c].pc = "idle"
  BY DEF Init, Idle
<1>2. sources = {} /\ destinations = {} /\ hasStop = {} /\ DOMAIN procs = {}
  BY DEF Init
<1> QED BY <1>1, <1>2 DEF ReaderInv, DistinctQueues, CallersHoldLock, StepsOfCalls, ForgottenSource,
           StopsOfSources, StartsAtSource, AliveReadsSource, AliveIsKnown, Forgetting, InCall

LEMMA ReaderNext == TypeOK /\ ReaderInv /\ [Next]_vars => ReaderInv'
<1> SUFFICES ASSUME TypeOK, ReaderInv, [Next]_vars PROVE ReaderInv'
  OBVIOUS
<1>1. ASSUME NEW c \in Callers, BeginCall(c) PROVE ReaderInv'
  BY <1>1, RegisterReader, UnregisterReader, StopReader, IsDrainedReader, AuditReader DEF BeginCall
<1>2. ASSUME NEW c \in Callers, ContinueCall(c) PROVE ReaderInv'
  BY <1>2, NextToStopReader, SetStopReader, FetchPublisherReader, JoinPublisherReader,
     ClearStopReader, ForgetStopReader, CreateStopReader, NextToStartReader,
     StartPublisherReader, StorePublisherReader, LookAtQueueReader, AuditQueueReader
     DEF ContinueCall
<1>3. ASSUME NEW p \in DOMAIN procs, Publish(p) PROVE ReaderInv'
  BY <1>3, PublishReader
<1>4. ASSUME UNCHANGED <<registry, procs, callerVars>> PROVE ReaderInv'
  <2>1. UNCHANGED <<queueOf, sources, destinations, hasStop, pubOf, procs, lock, local>>
    BY <1>4 DEF registry, callerVars
  <2>2. \A c \in Callers: (Forgetting(c) <=> Forgetting(c)') /\ (InCall(c) <=> InCall(c)')
    BY <2>1 DEF Forgetting, InCall
  <2>3. \A p: (Alive(p) <=> Alive(p)') /\ (Running(p) <=> Running(p)')
    BY <2>1 DEF Alive, Running
  <2>4. /\ DistinctQueues' /\ CallersHoldLock' /\ StepsOfCalls'
        /\ ForgottenSource' /\ StopsOfSources'
    BY <2>1, <2>2 DEF ReaderInv, DistinctQueues, CallersHoldLock, StepsOfCalls, ForgottenSource,
                      StopsOfSources
  <2>5. StartsAtSource' /\ AliveReadsSource' /\ AliveIsKnown'
    BY <2>1, <2>2, <2>3 DEF ReaderInv, StartsAtSource, AliveReadsSource, AliveIsKnown
  <2> QED BY <2>4, <2>5 DEF ReaderInv
<1>5. ASSUME NEW q \in Queues, Produce(q) \/ Consume(q) \/ Break(q) PROVE ReaderInv'
  BY <1>4, <1>5 DEF Produce, Consume, Break
<1>6. CASE UNCHANGED vars
  BY <1>4, <1>6 DEF vars
<1> QED BY <1>1, <1>2, <1>3, <1>5, <1>6 DEF Next

\* Two living publishers of one queue would be two publishers of one source, and
\* client_pair_publishers has one entry for it.
LEMMA ReaderInvImplies == TypeOK /\ ReaderInv => OneReaderPerQueue
<1> SUFFICES ASSUME TypeOK, ReaderInv, NEW p1 \in DOMAIN procs, NEW p2 \in DOMAIN procs,
                    Alive(p1), Alive(p2), Source(p1) = Source(p2)
             PROVE  p1 = p2
  BY DEF OneReaderPerQueue
<1>1. procs[p1].src = procs[p2].src
  <2>1. ASSUME NEW p \in DOMAIN procs, Alive(p), procs[p].src \notin sources
        PROVE  \E c \in Callers: Forgetting(c) /\ local[c].cur = procs[p].src
    BY <2>1 DEF ReaderInv, AliveReadsSource
  <2>2. ASSUME NEW c \in Callers, Forgetting(c) PROVE lock = c
    BY <2>2 DEF ReaderInv, CallersHoldLock, Forgetting, ForgetsSource, InCall
  <2>3. ASSUME NEW c \in Callers, Forgetting(c), NEW i \in sources
        PROVE  queueOf[i] # queueOf[local[c].cur]
    BY <2>3 DEF ReaderInv, ForgottenSource
  <2>4. CASE procs[p1].src \in sources /\ procs[p2].src \in sources
    BY <2>4 DEF ReaderInv, DistinctQueues, Source
  <2>5. CASE procs[p1].src \notin sources /\ procs[p2].src \notin sources
    BY <2>1, <2>2, <2>5
  <2>6. CASE procs[p1].src \in sources /\ procs[p2].src \notin sources
    BY <2>1, <2>3, <2>6 DEF Source
  <2>7. CASE procs[p1].src \notin sources /\ procs[p2].src \in sources
    BY <2>1, <2>3, <2>7 DEF Source
  <2> QED BY <2>4, <2>5, <2>6, <2>7
<1>2. p1 # 0 /\ p2 # 0
  BY LenProperties DEF TypeOK, PublishersType
<1>3. ASSUME NEW c \in Callers, local[c].pc = "store"
      PROVE  lock = c /\ ~Running(pubOf[local[c].cur])
  BY <1>3 DEF ReaderInv, CallersHoldLock, StepsOfCalls, StartsAtSource, InCall
<1>4. ASSUME NEW p \in DOMAIN procs, Alive(p)
      PROVE  \/ p = pubOf[procs[p].src]
             \/ \E c \in Callers: /\ local[c].pc = "store" /\ local[c].proc = p
                                   /\ local[c].cur = procs[p].src
  BY <1>4 DEF ReaderInv, AliveIsKnown
<1> QED BY <1>1, <1>2, <1>3, <1>4 DEF Running

\* At every point of any calls by any threads - stop included, although it takes no
\* lock - the lock, the registry and the publishers agree as ReaderInv says.
THEOREM ReaderInvariant == Spec => []ReaderInv
BY TypeInit, TypeNext, ReaderInit, ReaderNext, PTL DEF Spec

\* No queue ever has two publishers reading it: neither a restart nor registering a
\* queue again under a new id brings a second one to it before the first is gone.
THEOREM OneReader == Spec => []OneReaderPerQueue
BY TypeCorrect, ReaderInvariant, ReaderInvImplies, PTL

-----------------------------------------------------------------------------
(* No stop request is left over *)

LEMMA StopRequestInit == Init => NoStaleStopRequest
BY DEF Init, NoStaleStopRequest

\* Only SetStop and ClearStop change the events; another step of a caller that is
\* stopping a publisher keeps the id it is stopping.
LEMMA StopRequestKept ==
  ASSUME NoStaleStopRequest, NEW c \in Callers,
         \A o \in Callers \ {c}: local'[o] = local[o],
         UNCHANGED stopSet,
         \A id \in stopSet: Stopping(c, id) => Stopping(c, id)'
  PROVE  NoStaleStopRequest'
BY DEF NoStaleStopRequest, Stopping

LEMMA StopRequestBegin ==
  ASSUME TypeOK, NoStaleStopRequest, NEW c \in Callers, BeginCall(c)
  PROVE  NoStaleStopRequest'
<1>1. PICK call \in CallsOf(c):
        Register(c, call) \/ Unregister(c, call) \/ Stop(c, call) \/ IsDrained(c, call)
          \/ Audit(c, call)
  BY DEF BeginCall
<1>2. local[c].pc = "idle" /\ UNCHANGED stopSet
  BY <1>1, CallIsTyped DEF Register, Unregister, Stop, IsDrained, Audit
<1>3. \E r: Becomes(c, r)
  BY <1>1 DEF Register, Unregister, Stop, IsDrained, Audit, Refuse, Acquire, Continue
<1>4. \A o \in Callers \ {c}: local'[o] = local[o]
  BY <1>3, BecomesFields
<1> QED BY <1>2, <1>4, StopRequestKept DEF Stopping

\* The steps of a caller that is not between the set and the clear.
LEMMA StopRequestElsewhere ==
  ASSUME TypeOK, NoStaleStopRequest, NEW c \in Callers,
         NextToStop(c) \/ ForgetStop(c) \/ CreateStop(c) \/ NextToStart(c) \/ StartPublisher(c)
           \/ StorePublisher(c) \/ LookAtQueue(c) \/ AuditQueue(c)
  PROVE  NoStaleStopRequest'
<1>1. local[c].pc \notin {"fetch", "join", "clear"} /\ UNCHANGED stopSet
  BY DEF NextToStop, ForgetStop, CreateStop, NextToStart, StartPublisher, StorePublisher,
         LookAtQueue, AuditQueue
<1>2. \E r: Becomes(c, r)
  <2>1. CASE NextToStop(c) \/ NextToStart(c)
    BY <2>1 DEF NextToStop, NextToStart, Advance, Return, Continue
  <2>2. CASE ForgetStop(c) \/ CreateStop(c)
    BY <2>2 DEF ForgetStop, CreateStop, Return, Goto, Continue
  <2>3. CASE StartPublisher(c) \/ StorePublisher(c)
    BY <2>3 DEF StartPublisher, StorePublisher, AfterStart, Return, Goto, Continue
  <2>4. CASE LookAtQueue(c)
    BY <2>4 DEF LookAtQueue, Return, Continue
  <2>5. CASE AuditQueue(c)
    BY <2>5 DEF AuditQueue, Return, Continue
  <2> QED BY <2>1, <2>2, <2>3, <2>4, <2>5
<1>3. \A o \in Callers \ {c}: local'[o] = local[o]
  BY <1>2, BecomesFields
<1> QED BY <1>1, <1>3, StopRequestKept DEF Stopping

LEMMA StopRequestContinue ==
  ASSUME TypeOK, NoStaleStopRequest, NEW c \in Callers, ContinueCall(c)
  PROVE  NoStaleStopRequest'
<1>1. CASE SetStop(c)
  <2>1. CASE Return(c, "KeyError") /\ UNCHANGED stopSet
    BY <1>1, <2>1, ReturnFields, StopRequestKept DEF SetStop, Stopping
  <2>2. CASE stopSet' = stopSet \cup {local[c].cur} /\ Goto(c, "fetch")
    <3>1. /\ local[c].pc = "set" /\ local'[c].pc = "fetch" /\ local'[c].cur = local[c].cur
          /\ \A o \in Callers \ {c}: local'[o] = local[o]
      BY <1>1, <2>2, GotoFields DEF SetStop, CallerPcs
    <3> QED BY <2>2, <3>1 DEF NoStaleStopRequest, Stopping
  <2> QED BY <1>1, <2>1, <2>2 DEF SetStop
<1>2. CASE FetchPublisher(c)
  <2> DEFINE p == pubOf[local[c].cur]
             pc == IF p = 0 THEN "clear" ELSE "join"
             r == [local[c] EXCEPT !.proc = p, !.pc = pc]
  <2>1. Continue(c, r) /\ UNCHANGED stopSet
    BY <1>2 DEF FetchPublisher
  <2>2. pc \in {"clear", "join"}
    OBVIOUS
  <2> HIDE DEF p, pc
  <2>3. r.pc = pc /\ r.cur = local[c].cur
    BY LocalIsTyped DEF Caller
  <2> HIDE DEF r
  <2>4. local'[c] = r /\ \A o \in Callers \ {c}: local'[o] = local[o]
    BY <2>1, BecomesFields DEF Continue
  <2> QED BY <2>1, <2>2, <2>3, <2>4, StopRequestKept DEF Stopping
<1>3. CASE JoinPublisher(c)
  BY <1>3, GotoFields, StopRequestKept DEF JoinPublisher, Stopping, CallerPcs
<1>4. CASE ClearStop(c)
  <2>1. stopSet' = stopSet \ {local[c].cur} /\ \A o \in Callers \ {c}: local'[o] = local[o]
    BY <1>4, GotoFields DEF ClearStop, CallerPcs
  <2> QED BY <2>1 DEF NoStaleStopRequest, Stopping
<1> QED BY <1>1, <1>2, <1>3, <1>4, StopRequestElsewhere DEF ContinueCall

LEMMA StopRequestNext == TypeOK /\ NoStaleStopRequest /\ [Next]_vars => NoStaleStopRequest'
<1> SUFFICES ASSUME TypeOK, NoStaleStopRequest, [Next]_vars PROVE NoStaleStopRequest'
  OBVIOUS
<1>1. ASSUME NEW c \in Callers, BeginCall(c) \/ ContinueCall(c) PROVE NoStaleStopRequest'
  BY <1>1, StopRequestBegin, StopRequestContinue
<1>2. ASSUME UNCHANGED <<stopSet, local>> PROVE NoStaleStopRequest'
  BY <1>2 DEF NoStaleStopRequest, Stopping
<1>3. ASSUME NEW p \in DOMAIN procs, Publish(p) PROVE NoStaleStopRequest'
  BY <1>2, <1>3 DEF Publish, CheckStop, GetItem, GetEmpty, Snapshot, PutAgain, FinishItem, Put,
     PutTimesOut, Abandon, PutBreaks, callerVars
<1>4. ASSUME NEW q \in Queues, Produce(q) \/ Consume(q) \/ Break(q) PROVE NoStaleStopRequest'
  BY <1>2, <1>4 DEF Produce, Consume, Break, callerVars
<1>5. CASE UNCHANGED vars
  BY <1>2, <1>5 DEF vars, callerVars
<1> QED BY <1>1, <1>3, <1>4, <1>5 DEF Next

\* A stop event never stays set behind the call that set it, whichever calls meet:
\* no publisher started later finds an old request and exits at once.
THEOREM NoStopLeftOver == Spec => []NoStaleStopRequest
BY TypeInit, TypeNext, StopRequestInit, StopRequestNext, PTL DEF Spec

-----------------------------------------------------------------------------
(* Completing calls *)

Failures == {"KeyError", "RuntimeError", "ValueError: running"}
LoopPcs  == {"next", "set", "fetch", "join", "clear", "restart", "start", "store"}

\* The ids whose publisher in client_pair_publishers runs.
BusyIds == {i \in Ids: Running(pubOf[i])}

\* A caller in a loop over the sources S: the loop is not disturbed, its publishers are
\* stopped one after another, and started again only when none of them runs.
LoopOK(r, S, busy) ==
  /\ r.pc \in LoopPcs =>
       /\ r.loop.size = Cardinality(S)
       /\ r.loop.left = Cardinality({i \in S: i > r.loop.last})
  /\ r.pc \in {"set", "fetch", "join", "clear", "start", "store"} =>
       r.cur \in S /\ r.loop.last = r.cur
  /\ r.pc \in {"next", "clear"} => \A i \in S: i <= r.loop.last => i \notin busy
  /\ r.pc \in {"set", "fetch", "join"} => \A i \in S: i < r.loop.last => i \notin busy
  /\ r.pc \in {"restart", "store"} => \A i \in S: i > r.loop.last => i \notin busy
  /\ r.pc = "start" => \A i \in S: i >= r.loop.last => i \notin busy

LoopsOver(call) == ~ForgetsSource(call) /\ ~RegistersSource(call)

CallOK(r, S, pubs, busy) ==
  /\ r.result \in Failures => r.call.op \in {"stop", "is_drained"}
  /\ r.pc # "idle" => r.result \notin Failures
  /\ r.pc # "idle" /\ r.call.op # "stop" =>
       /\ r.pc = "event" => RegistersSource(r.call)
       /\ r.pc \in {"next", "restart"} => ~RegistersSource(r.call)
       /\ r.pc \in {"set", "fetch", "join", "clear"} => ~RegistersSource(r.call)
       /\ r.pc = "join" => r.proc = pubs[r.cur]
       /\ RegistersSource(r.call) /\ r.pc \in {"event", "start"} => r.cur \notin busy
       /\ LoopsOver(r.call) => LoopOK(r, S, busy)

CallsInv == \A c \in Callers: CallOK(local[c], sources, pubOf, BusyIds)

-----------------------------------------------------------------------------
(* What the other callers see of a step *)

\* A caller outside a locked call does not depend on the registry.
LEMMA UnlockedOK ==
  ASSUME NEW r, NEW S, NEW pubs, NEW busy, NEW S2, NEW pubs2, NEW busy2,
         CallOK(r, S, pubs, busy),
         \/ r.pc = "idle" \/ r.call.op = "stop"
         \/ S2 = S /\ pubs2 = pubs /\ busy2 \subseteq busy
  PROVE  CallOK(r, S2, pubs2, busy2)
<1>1. CASE r.pc = "idle" \/ r.call.op = "stop"
  BY <1>1 DEF CallOK
<1>2. CASE S2 = S /\ pubs2 = pubs /\ busy2 \subseteq busy
  <2>1. LoopOK(r, S, busy) => LoopOK(r, S2, busy2)
    BY <1>2 DEF LoopOK
  <2> QED BY <1>2, <2>1 DEF CallOK
<1> QED BY <1>1, <1>2

\* Publishers that may only end make no id busy.
LEMMA BusyShrinks ==
  ASSUME TypeOK, UNCHANGED <<queueOf, pubOf>>,
         \A p \in DOMAIN procs: Alive(p)' => Alive(p)
  PROVE  BusyIds' \subseteq BusyIds
<1>1. \A i \in Ids: pubOf[i] \in 0..Len(procs)
  BY DEF TypeOK, RegistryType
<1>2. DOMAIN procs = 1..Len(procs)
  BY LenProperties DEF TypeOK, PublishersType
<1>3. \A i \in Ids: pubOf[i] # 0 => pubOf[i] \in DOMAIN procs
  BY <1>1, <1>2
<1> QED BY <1>3 DEF BusyIds, Running, Ids

\* The step of caller c: what it does to its own record is left to show.
LEMMA OneCaller ==
  ASSUME TypeOK, ReaderInv, CallsInv, NEW c \in Callers,
         \A o \in Callers \ {c}: local'[o] = local[o],
         \/ lock \in {c, Nobody}
         \/ sources' = sources /\ pubOf' = pubOf /\ BusyIds' \subseteq BusyIds,
         CallOK(local'[c], sources', pubOf', BusyIds')
  PROVE  CallsInv'
<1> SUFFICES ASSUME NEW o \in Callers \ {c}
             PROVE  CallOK(local'[o], sources', pubOf', BusyIds')
  BY DEF CallsInv
<1>1. CallOK(local[o], sources, pubOf, BusyIds)
  BY DEF CallsInv
<1>2. lock \in {c, Nobody} => local[o].pc = "idle" \/ local[o].call.op = "stop"
  BY NamesAssumption DEF ReaderInv, CallersHoldLock, InCall
<1>3. CallOK(local[o], sources', pubOf', BusyIds')
  BY <1>1, <1>2, UnlockedOK
<1> QED BY <1>3

\* A step that leaves the registry and the publishers as they are.
LEMMA QuietStep ==
  ASSUME TypeOK, ReaderInv, CallsInv, NEW c \in Callers,
         UNCHANGED <<queueOf, sources, pubOf, procs>>,
         \A o \in Callers \ {c}: local'[o] = local[o],
         CallOK(local'[c], sources, pubOf, BusyIds)
  PROVE  CallsInv'
<1>1. BusyIds' = BusyIds
  BY DEF BusyIds, Running, Alive, Ids
<1> QED BY <1>1, OneCaller

LEMMA ReturnOK ==
  ASSUME TypeOK, ReaderInv, CallsInv, NEW c \in Callers, NEW result, Return(c, result),
         result \in Failures => local[c].call.op \in {"stop", "is_drained"},
         UNCHANGED <<queueOf, sources, pubOf, procs>>
  PROVE  CallsInv'
<1>1. local'[c] = Idle(local[c].made, local[c].call, result)
      /\ \A o \in Callers \ {c}: local'[o] = local[o]
  BY BecomesFields DEF Return
<1>2. CallOK(local'[c], sources, pubOf, BusyIds)
  BY <1>1 DEF CallOK, Idle
<1> QED BY <1>1, <1>2, QuietStep

LEMMA RefuseOK ==
  ASSUME TypeOK, ReaderInv, CallsInv, NEW c \in Callers, NEW call, NEW result,
         Refuse(c, call, result), result \in Failures => call.op \in {"stop", "is_drained"},
         UNCHANGED <<queueOf, sources, pubOf, procs>>
  PROVE  CallsInv'
<1>1. local'[c] = Idle(local[c].made + 1, call, result)
      /\ \A o \in Callers \ {c}: local'[o] = local[o]
  BY BecomesFields DEF Refuse, Continue
<1>2. CallOK(local'[c], sources, pubOf, BusyIds)
  BY <1>1 DEF CallOK, Idle
<1> QED BY <1>1, <1>2, QuietStep

-----------------------------------------------------------------------------
(* The loops over the sources *)

LEMMA Undisturbed ==
  ASSUME TypeOK, NEW r, NEW busy, LoopOK(r, sources, busy), r.pc \in LoopPcs
  PROVE  ~Disturbed(r.loop)
<1>1. IsFiniteSet({i \in sources: i > r.loop.last})
  BY FiniteSources, FS_Subset
<1>2. {i \in sources: i > r.loop.last} # {} => Cardinality({i \in sources: i > r.loop.last}) # 0
  BY <1>1, FS_EmptySet
<1> QED BY <1>2 DEF LoopOK, Disturbed, Ahead

\* One turn of a loop leaves one source less ahead.
LEMMA OneLessAhead ==
  ASSUME TypeOK, NEW last \in Nat, NEW id \in sources, IsLeast(id, {i \in sources: i > last})
  PROVE  /\ Cardinality({i \in sources: i > id}) = Cardinality({i \in sources: i > last}) - 1
         /\ \A i \in sources: i > last => i >= id
         /\ \A i \in sources: i < id => i <= last
<1> DEFINE A == {i \in sources: i > last}
<1>1. \A i \in sources: i \in Nat
  BY DEF TypeOK, RegistryType, Ids
<1>2. id \in A /\ \A i \in A: id <= i
  BY DEF IsLeast
<1>3. {i \in sources: i > id} = A \ {id}
  BY <1>1, <1>2
<1>4. IsFiniteSet(A)
  BY FiniteSources, FS_Subset
<1>5. Cardinality(A \ {id}) = Cardinality(A) - 1
  BY <1>2, <1>4, FS_RemoveElement
<1> QED BY <1>1, <1>2, <1>3, <1>5

\* A turn of a loop: the fields it changes.
LEMMA AdvanceRecord ==
  ASSUME TypeOK, NEW c \in Callers, NEW body, Advance(c, body)
  PROVE  \E id \in sources:
           /\ IsLeast(id, {i \in sources: i > local[c].loop.last})
           /\ local'[c].pc = body /\ local'[c].cur = id /\ local'[c].call = local[c].call
           /\ local'[c].result = local[c].result
           /\ local'[c].loop.last = id /\ local'[c].loop.left = local[c].loop.left - 1
           /\ local'[c].loop.size = local[c].loop.size
           /\ \A o \in Callers \ {c}: local'[o] = local[o]
<1>1. PICK id \in sources:
        /\ IsLeast(id, Ahead(local[c].loop))
        /\ Continue(c, [local[c] EXCEPT !.pc = body, !.cur = id,
                          !.loop = [local[c].loop EXCEPT !.last = id, !.left = @ - 1]])
  BY DEF Advance
<1>2. /\ local'[c] = [local[c] EXCEPT !.pc = body, !.cur = id,
                        !.loop = [local[c].loop EXCEPT !.last = id, !.left = @ - 1]]
      /\ \A o \in Callers \ {c}: local'[o] = local[o]
  BY <1>1, BecomesFields DEF Continue
<1>3. local[c] \in Caller
  BY LocalIsTyped
<1>4. local[c].loop \in [last: Nat, left: Int, size: Nat]
  BY <1>3 DEF Caller
<1>5. /\ local'[c].pc = body /\ local'[c].cur = id /\ local'[c].call = local[c].call
      /\ local'[c].result = local[c].result
      /\ local'[c].loop = [local[c].loop EXCEPT !.last = id, !.left = @ - 1]
  BY <1>2, <1>3 DEF Caller
<1>6. /\ local'[c].loop.last = id /\ local'[c].loop.left = local[c].loop.left - 1
      /\ local'[c].loop.size = local[c].loop.size
  BY <1>4, <1>5
<1> QED BY <1>1, <1>2, <1>5, <1>6 DEF Ahead

LEMMA AdvanceOK ==
  ASSUME TypeOK, ReaderInv, CallsInv, NEW c \in Callers, NEW body \in {"set", "start"},
         Advance(c, body), local[c].pc = IF body = "set" THEN "next" ELSE "restart",
         UNCHANGED <<queueOf, sources, pubOf, procs>>
  PROVE  CallsInv'
<1> DEFINE r == local[c]
           n == local'[c]
<1>1. PICK id \in sources:
        /\ IsLeast(id, {i \in sources: i > r.loop.last})
        /\ n.pc = body /\ n.cur = id /\ n.call = r.call /\ n.result = r.result
        /\ n.loop.last = id /\ n.loop.left = r.loop.left - 1 /\ n.loop.size = r.loop.size
        /\ \A o \in Callers \ {c}: local'[o] = local[o]
  BY AdvanceRecord
<1>2. CallOK(r, sources, pubOf, BusyIds)
  BY DEF CallsInv
<1>3. r.loop.last \in Nat
  BY LocalIsTyped DEF Caller
<1>4. /\ Cardinality({i \in sources: i > id}) = Cardinality({i \in sources: i > r.loop.last}) - 1
      /\ \A i \in sources: i > r.loop.last => i >= id
      /\ \A i \in sources: i < id => i <= r.loop.last
  BY <1>1, <1>3, OneLessAhead
<1>5. \A i \in sources: i >= id => i > r.loop.last
  <2>1. id > r.loop.last /\ id \in Nat /\ \A i \in sources: i \in Nat
    BY <1>1 DEF IsLeast, TypeOK, RegistryType, Ids
  <2> QED BY <1>3, <2>1
<1>6. LoopOK(r, sources, BusyIds) => LoopOK(n, sources, BusyIds)
  <2> SUFFICES ASSUME LoopOK(r, sources, BusyIds) PROVE LoopOK(n, sources, BusyIds)
    OBVIOUS
  <2>1. /\ r.loop.size = Cardinality(sources)
        /\ r.loop.left = Cardinality({i \in sources: i > r.loop.last})
    BY DEF LoopOK, LoopPcs
  <2>2. CASE body = "set"
    <3>1. \A i \in sources: i <= r.loop.last => i \notin BusyIds
      BY <2>2 DEF LoopOK
    <3> QED BY <1>1, <1>4, <2>1, <2>2, <3>1 DEF LoopOK
  <2>3. CASE body = "start"
    <3>1. \A i \in sources: i > r.loop.last => i \notin BusyIds
      BY <2>3 DEF LoopOK
    <3> QED BY <1>1, <1>4, <1>5, <2>1, <2>3, <3>1 DEF LoopOK
  <2> QED BY <2>2, <2>3
<1>7. CallOK(n, sources, pubOf, BusyIds)
  BY <1>1, <1>2, <1>6 DEF CallOK, LoopsOver
<1> QED BY <1>1, <1>7, QuietStep

\* The record of a caller that starts a loop over the sources with all of them ahead.
LEMMA LoopBegins ==
  ASSUME TypeOK, NEW r, r.loop = LoopOver(sources), NEW busy,
         \/ r.pc = "next"
         \/ r.pc = "restart" /\ \A i \in sources: i \notin busy
  PROVE  LoopOK(r, sources, busy)
<1>1. \A i \in sources: i > 0 /\ ~(i <= 0)
  BY DEF TypeOK, RegistryType, Ids
<1>2. {i \in sources: i > 0} = sources
  BY <1>1
<1>3. r.loop.last = 0 /\ r.loop.left = Cardinality(sources) /\ r.loop.size = Cardinality(sources)
  BY DEF LoopOver
<1> QED BY <1>1, <1>2, <1>3 DEF LoopOK

-----------------------------------------------------------------------------
(* The steps of a call *)

\* What is known of a caller in a locked call.
LEMMA LockedCaller ==
  ASSUME TypeOK, ReaderInv, CallsInv, NEW c \in Callers, InCall(c), local[c].call.op # "stop"
  PROVE  /\ lock = c /\ CallOK(local[c], sources, pubOf, BusyIds)
         /\ local[c].pc \in LoopPcs \ {"start", "store"} => ~RegistersSource(local[c].call)
         /\ LoopsOver(local[c].call) => LoopOK(local[c], sources, BusyIds)
<1>1. CallOK(local[c], sources, pubOf, BusyIds)
  BY DEF CallsInv
<1> QED BY <1>1 DEF CallOK, InCall, LoopPcs, ReaderInv, CallersHoldLock

LEMMA NextToStopOK ==
  ASSUME TypeOK, ReaderInv, CallsInv, NEW c \in Callers, NextToStop(c)
  PROVE  CallsInv'
<1>1. local[c].pc = "next" /\ InCall(c) /\ UNCHANGED <<queueOf, sources, pubOf, procs>>
  BY DEF NextToStop, InCall, registry
<1>2. local[c].call.op # "stop" => LoopsOver(local[c].call) /\ LoopOK(local[c], sources, BusyIds)
  BY <1>1, LockedCaller DEF LoopsOver, LoopPcs, ReaderInv, StepsOfCalls
<1>3. CASE Disturbed(local[c].loop) /\ Return(c, "RuntimeError")
  <2>1. local[c].call.op = "stop"
    BY <1>1, <1>2, <1>3, Undisturbed DEF LoopPcs
  <2> QED BY <1>1, <1>3, <2>1, ReturnOK
<1>4. CASE Advance(c, "set")
  BY <1>1, <1>4, AdvanceOK
<1>5. CASE Return(c, "ok")
  BY <1>1, <1>5, ReturnOK DEF Failures
<1>6. CASE /\ Exhausted(c) /\ local[c].call.op # "stop"
           /\ Continue(c, [local[c] EXCEPT !.pc = "restart", !.loop = LoopOver(sources)])
  <2> DEFINE n == local'[c]
  <2>1. /\ n.pc = "restart" /\ n.call = local[c].call /\ n.loop = LoopOver(sources)
        /\ n.result = local[c].result
        /\ \A o \in Callers \ {c}: local'[o] = local[o]
    <3> DEFINE loop == LoopOver(sources)
               r == [local[c] EXCEPT !.pc = "restart", !.loop = loop]
    <3>1. Continue(c, r)
      BY <1>6
    <3> HIDE DEF loop
    <3>2. r.pc = "restart" /\ r.call = local[c].call /\ r.loop = loop /\ r.result = local[c].result
      BY LocalIsTyped DEF Caller
    <3> HIDE DEF r
    <3> QED BY <3>1, <3>2, BecomesFields DEF Continue, loop
  <2>2. \A i \in sources: i \notin BusyIds
    <3>1. \A i \in sources: ~(i > local[c].loop.last)
      BY <1>6 DEF Exhausted, Ahead
    <3>2. \A i \in sources: i <= local[c].loop.last
      <4>1. local[c].loop.last \in Nat
        BY LocalIsTyped DEF Caller
      <4>2. \A i \in sources: i \in Nat
        BY DEF TypeOK, RegistryType, Ids
      <4> QED BY <3>1, <4>1, <4>2
    <3> QED BY <1>1, <1>2, <1>6, <3>2 DEF LoopOK
  <2>3. LoopOK(n, sources, BusyIds)
    BY <2>1, <2>2, LoopBegins
  <2>4. CallOK(local[c], sources, pubOf, BusyIds)
    BY DEF CallsInv
  <2>5. CallOK(n, sources, pubOf, BusyIds)
    BY <1>1, <1>2, <1>6, <2>1, <2>3, <2>4 DEF CallOK, LoopsOver
  <2> QED BY <1>1, <2>1, <2>5, QuietStep
<1> QED BY <1>3, <1>4, <1>5, <1>6 DEF NextToStop

\* With the lock held, a source that no step of this call is about to give one has a stop event.
LEMMA HasStopEvent ==
  ASSUME ReaderInv, NEW c \in Callers, InCall(c), local[c].call.op # "stop",
         local[c].pc # "event", local[c].cur \in sources
  PROVE  local[c].cur \in hasStop
<1>1. ASSUME NEW o \in Callers, local[o].pc = "event" PROVE o # c /\ lock = o
  BY <1>1 DEF ReaderInv, CallersHoldLock, StepsOfCalls, InCall
<1>2. lock = c
  BY DEF ReaderInv, CallersHoldLock
<1> QED BY <1>1, <1>2 DEF ReaderInv, StopsOfSources

\* Going to another step of the call: the record as Goto leaves it.
LEMMA GotoRecord ==
  ASSUME TypeOK, NEW c \in Callers, NEW pc, Goto(c, pc)
  PROVE  /\ local'[c].pc = pc /\ local'[c].cur = local[c].cur /\ local'[c].call = local[c].call
         /\ local'[c].proc = local[c].proc /\ local'[c].loop = local[c].loop
         /\ local'[c].result = local[c].result
         /\ \A o \in Callers \ {c}: local'[o] = local[o]
<1>1. local'[c] = [local[c] EXCEPT !.pc = pc] /\ \A o \in Callers \ {c}: local'[o] = local[o]
  BY BecomesFields DEF Goto, Continue
<1>2. local[c] \in Caller
  BY LocalIsTyped
<1> QED BY <1>1, <1>2 DEF Caller

LEMMA SetStopOK ==
  ASSUME TypeOK, ReaderInv, CallsInv, NEW c \in Callers, SetStop(c)
  PROVE  CallsInv'
<1>1. local[c].pc = "set" /\ InCall(c) /\ UNCHANGED <<queueOf, sources, pubOf, procs>>
  BY DEF SetStop, InCall, registry
<1>2. CASE local[c].cur \notin hasStop /\ Return(c, "KeyError")
  <2>1. local[c].call.op = "stop"
    <3> SUFFICES ASSUME local[c].call.op # "stop" PROVE FALSE
      OBVIOUS
    <3>1. ~RegistersSource(local[c].call)
      BY <1>1, LockedCaller DEF LoopPcs
    <3>2. ForgetsSource(local[c].call) => local[c].cur \in hasStop
      BY <1>1 DEF ReaderInv, ForgottenSource, Forgetting
    <3>3. ~ForgetsSource(local[c].call) => local[c].cur \in sources
      BY <1>1, <3>1, LockedCaller DEF LoopsOver, LoopOK
    <3> QED BY <1>1, <1>2, <3>2, <3>3, HasStopEvent
  <2> QED BY <1>1, <1>2, <2>1, ReturnOK
<1>3. CASE Goto(c, "fetch")
  <2>1. CallOK(local[c], sources, pubOf, BusyIds)
    BY DEF CallsInv
  <2>2. CallOK(local'[c], sources, pubOf, BusyIds)
    BY <1>1, <1>3, <2>1, GotoRecord DEF CallOK, LoopOK, LoopPcs
  <2> QED BY <1>1, <1>3, <2>2, GotoRecord, QuietStep
<1> QED BY <1>2, <1>3 DEF SetStop

LEMMA FetchPublisherOK ==
  ASSUME TypeOK, ReaderInv, CallsInv, NEW c \in Callers, FetchPublisher(c)
  PROVE  CallsInv'
<1> DEFINE p == pubOf[local[c].cur]
           pc == IF p = 0 THEN "clear" ELSE "join"
           n == local'[c]
<1>1. /\ local[c].pc = "fetch" /\ UNCHANGED <<queueOf, sources, pubOf, procs>>
      /\ Continue(c, [local[c] EXCEPT !.proc = p, !.pc = pc])
  BY DEF FetchPublisher, registry
<1>2. /\ n.pc = pc /\ n.proc = p /\ n.cur = local[c].cur /\ n.call = local[c].call
      /\ n.loop = local[c].loop /\ n.result = local[c].result
      /\ \A o \in Callers \ {c}: local'[o] = local[o]
  <2> HIDE DEF p, pc
  <2>1. local'[c] = [local[c] EXCEPT !.proc = p, !.pc = pc]
        /\ \A o \in Callers \ {c}: local'[o] = local[o]
    BY <1>1, BecomesFields DEF Continue
  <2> QED BY <2>1, LocalIsTyped DEF Caller
<1>3. CallOK(local[c], sources, pubOf, BusyIds)
  BY DEF CallsInv
<1>4. pc = "clear" => local[c].cur \notin BusyIds
  BY DEF BusyIds, Running
<1>5. LoopOK(local[c], sources, BusyIds) => LoopOK(n, sources, BusyIds)
  <2> SUFFICES ASSUME LoopOK(local[c], sources, BusyIds) PROVE LoopOK(n, sources, BusyIds)
    OBVIOUS
  <2>1. \A i \in sources: i <= local[c].loop.last => i < local[c].loop.last \/ i = local[c].cur
    <3>1. local[c].loop.last \in Nat /\ local[c].loop.last = local[c].cur
      BY <1>1, LocalIsTyped DEF LoopOK, Caller
    <3>2. \A i \in sources: i \in Nat
      BY DEF TypeOK, RegistryType, Ids
    <3> QED BY <3>1, <3>2
  <2>2. \A i \in sources: i < local[c].loop.last => i \notin BusyIds
    BY <1>1 DEF LoopOK
  <2> QED BY <1>1, <1>2, <1>4, <2>1, <2>2 DEF LoopOK, LoopPcs
<1>6. CallOK(n, sources, pubOf, BusyIds)
  BY <1>1, <1>2, <1>3, <1>5 DEF CallOK
<1> QED BY <1>1, <1>2, <1>6, QuietStep

LEMMA JoinPublisherOK ==
  ASSUME TypeOK, ReaderInv, CallsInv, NEW c \in Callers, JoinPublisher(c)
  PROVE  CallsInv'
<1> DEFINE n == local'[c]
<1>1. /\ local[c].pc = "join" /\ ~Alive(local[c].proc) /\ Goto(c, "clear")
      /\ UNCHANGED <<queueOf, sources, pubOf, procs>>
  BY DEF JoinPublisher, registry
<1>2. /\ n.pc = "clear" /\ n.cur = local[c].cur /\ n.call = local[c].call
      /\ n.loop = local[c].loop /\ n.result = local[c].result
      /\ \A o \in Callers \ {c}: local'[o] = local[o]
  BY <1>1, GotoRecord
<1>3. CallOK(local[c], sources, pubOf, BusyIds)
  BY DEF CallsInv
<1>4. local[c].call.op # "stop" => local[c].cur \notin BusyIds
  BY <1>1, <1>3 DEF CallOK, BusyIds, Running
<1>5. local[c].call.op # "stop" /\ LoopOK(local[c], sources, BusyIds) => LoopOK(n, sources, BusyIds)
  <2> SUFFICES ASSUME local[c].call.op # "stop", LoopOK(local[c], sources, BusyIds)
               PROVE  LoopOK(n, sources, BusyIds)
    OBVIOUS
  <2>1. \A i \in sources: i <= local[c].loop.last => i < local[c].loop.last \/ i = local[c].cur
    <3>1. local[c].loop.last \in Nat /\ local[c].loop.last = local[c].cur
      BY <1>1, LocalIsTyped DEF LoopOK, Caller
    <3>2. \A i \in sources: i \in Nat
      BY DEF TypeOK, RegistryType, Ids
    <3> QED BY <3>1, <3>2
  <2>2. \A i \in sources: i < local[c].loop.last => i \notin BusyIds
    BY <1>1 DEF LoopOK
  <2> QED BY <1>1, <1>2, <1>4, <2>1, <2>2 DEF LoopOK, LoopPcs
<1>6. CallOK(n, sources, pubOf, BusyIds)
  BY <1>1, <1>2, <1>3, <1>5 DEF CallOK
<1> QED BY <1>1, <1>2, <1>6, QuietStep

LEMMA ClearStopOK ==
  ASSUME TypeOK, ReaderInv, CallsInv, NEW c \in Callers, ClearStop(c)
  PROVE  CallsInv'
<1> DEFINE pc == IF ForgetsSource(local[c].call) THEN "forget" ELSE "next"
           n == local'[c]
<1>1. /\ local[c].pc = "clear" /\ Goto(c, pc) /\ UNCHANGED <<queueOf, sources, pubOf, procs>>
  BY DEF ClearStop, registry
<1>2. /\ n.pc = pc /\ n.cur = local[c].cur /\ n.call = local[c].call
      /\ n.loop = local[c].loop /\ n.result = local[c].result
      /\ \A o \in Callers \ {c}: local'[o] = local[o]
  BY <1>1, GotoRecord
<1>3. CallOK(local[c], sources, pubOf, BusyIds)
  BY DEF CallsInv
<1>4. CallOK(n, sources, pubOf, BusyIds)
  BY <1>1, <1>2, <1>3 DEF CallOK, LoopOK, LoopPcs, LoopsOver
<1> QED BY <1>1, <1>2, <1>4, QuietStep

LEMMA ForgetStopOK ==
  ASSUME TypeOK, ReaderInv, CallsInv, NEW c \in Callers, ForgetStop(c)
  PROVE  CallsInv'
BY ReturnOK DEF ForgetStop, Failures

LEMMA CreateStopOK ==
  ASSUME TypeOK, ReaderInv, CallsInv, NEW c \in Callers, CreateStop(c)
  PROVE  CallsInv'
<1> DEFINE n == local'[c]
<1>1. /\ local[c].pc = "event" /\ Goto(c, "start") /\ UNCHANGED <<queueOf, sources, pubOf, procs>>
  BY DEF CreateStop
<1>2. /\ n.pc = "start" /\ n.cur = local[c].cur /\ n.call = local[c].call
      /\ n.result = local[c].result
      /\ \A o \in Callers \ {c}: local'[o] = local[o]
  BY <1>1, GotoRecord
<1>3. CallOK(local[c], sources, pubOf, BusyIds)
  BY DEF CallsInv
<1>4. RegistersSource(local[c].call)
  BY <1>1, <1>3 DEF CallOK, ReaderInv, StepsOfCalls
<1>5. CallOK(n, sources, pubOf, BusyIds)
  BY <1>1, <1>2, <1>3, <1>4 DEF CallOK, LoopsOver
<1> QED BY <1>1, <1>2, <1>5, QuietStep

LEMMA NextToStartOK ==
  ASSUME TypeOK, ReaderInv, CallsInv, NEW c \in Callers, NextToStart(c)
  PROVE  CallsInv'
<1>1. local[c].pc = "restart" /\ InCall(c) /\ UNCHANGED <<queueOf, sources, pubOf, procs>>
  BY DEF NextToStart, InCall, registry
<1>2. LoopOK(local[c], sources, BusyIds)
  BY <1>1, LockedCaller DEF LoopsOver, LoopPcs, ReaderInv, StepsOfCalls
<1>3. CASE Disturbed(local[c].loop)
  BY <1>1, <1>2, <1>3, Undisturbed DEF LoopPcs
<1>4. CASE Advance(c, "start")
  BY <1>1, <1>4, AdvanceOK
<1>5. CASE Return(c, "ok")
  BY <1>1, <1>5, ReturnOK DEF Failures
<1> QED BY <1>3, <1>4, <1>5 DEF NextToStart

\* After a start: over, or to the next turn of the restart loop.
LEMMA AfterStartRecord ==
  ASSUME TypeOK, NEW c \in Callers, AfterStart(c)
  PROVE  /\ \/ /\ RegistersSource(local[c].call) /\ local'[c].pc = "idle"
               /\ local'[c].result = "ok"
            \/ /\ ~RegistersSource(local[c].call) /\ local'[c].pc = "restart"
               /\ local'[c].call = local[c].call /\ local'[c].loop = local[c].loop
               /\ local'[c].result = local[c].result
         /\ \A o \in Callers \ {c}: local'[o] = local[o]
<1>1. CASE RegistersSource(local[c].call) /\ Return(c, "ok")
  <2>1. local'[c] = Idle(local[c].made, local[c].call, "ok")
        /\ \A o \in Callers \ {c}: local'[o] = local[o]
    BY <1>1, BecomesFields DEF Return
  <2> QED BY <1>1, <2>1 DEF Idle
<1>2. CASE ~RegistersSource(local[c].call) /\ Goto(c, "restart")
  BY <1>2, GotoRecord
<1> QED BY <1>1, <1>2 DEF AfterStart

\* A call about to start a publisher finds none running, and a stop event to give it.
LEMMA StartIsFree ==
  ASSUME TypeOK, ReaderInv, CallsInv, NEW c \in Callers, local[c].pc = "start"
  PROVE  /\ lock = c /\ hasStop = sources /\ local[c].cur \in sources
         /\ local[c].call.op # "stop" /\ ~ForgetsSource(local[c].call)
         /\ CallOK(local[c], sources, pubOf, BusyIds)
         /\ ~RegistersSource(local[c].call) => LoopOK(local[c], sources, BusyIds)
         /\ ~Running(pubOf[local[c].cur])
<1> DEFINE id == local[c].cur
<1>1. InCall(c)
  BY DEF InCall
<1>2. /\ lock = c /\ hasStop = sources /\ id \in sources
      /\ local[c].call.op # "stop" /\ ~ForgetsSource(local[c].call)
  BY <1>1, StartingRegistry
<1>3. CallOK(local[c], sources, pubOf, BusyIds)
  BY DEF CallsInv
<1>4. ~RegistersSource(local[c].call) => LoopOK(local[c], sources, BusyIds)
  BY <1>1, <1>2, <1>3 DEF CallOK, LoopsOver
<1>5. \A i \in sources: i \in Nat /\ i \in Ids
  BY DEF TypeOK, RegistryType, Ids
<1>6. id \notin BusyIds
  <2>1. ~RegistersSource(local[c].call) => id \notin BusyIds
    <3> SUFFICES ASSUME ~RegistersSource(local[c].call) PROVE id \notin BusyIds
      OBVIOUS
    <3>1. local[c].loop.last = id /\ \A i \in sources: i >= id => i \notin BusyIds
      BY <1>1, <1>4 DEF LoopOK
    <3>2. id >= id
      BY <1>2, <1>5
    <3> QED BY <1>2, <3>1, <3>2
  <2>2. RegistersSource(local[c].call) => id \notin BusyIds
    BY <1>1, <1>2, <1>3 DEF CallOK
  <2> QED BY <2>1, <2>2
<1>7. ~Running(pubOf[id])
  BY <1>2, <1>5, <1>6 DEF BusyIds
<1> QED BY <1>2, <1>3, <1>4, <1>7

LEMMA StartPublisherOK ==
  ASSUME TypeOK, ReaderInv, CallsInv, NEW c \in Callers, StartPublisher(c)
  PROVE  CallsInv'
<1> DEFINE id == local[c].cur
           n == local'[c]
<1>1. local[c].pc = "start" /\ InCall(c) /\ UNCHANGED <<queueOf, sources, pubOf>>
  BY DEF StartPublisher, InCall
<1>2. /\ lock = c /\ hasStop = sources /\ id \in sources
      /\ local[c].call.op # "stop" /\ ~ForgetsSource(local[c].call) /\ ~Running(pubOf[id])
  BY <1>1, StartIsFree
<1>3. CallOK(local[c], sources, pubOf, BusyIds)
  BY <1>1, StartIsFree
<1>4. ~RegistersSource(local[c].call) => LoopOK(local[c], sources, BusyIds)
  BY <1>1, StartIsFree
<1>5. \A i \in sources: i \in Nat /\ i \in Ids
  BY DEF TypeOK, RegistryType, Ids
<1>8. \A i \in sources: i > local[c].loop.last => i >= local[c].loop.last
  <2>1. local[c].loop.last \in Nat
    BY LocalIsTyped DEF Caller
  <2> QED BY <1>5, <2>1
<1>9. CASE AfterStart(c) /\ UNCHANGED procs
  <2>1. CallOK(n, sources, pubOf, BusyIds)
    <3>1. CASE n.pc = "idle" /\ n.result = "ok"
      BY <3>1 DEF CallOK, Failures
    <3>2. CASE /\ ~RegistersSource(local[c].call) /\ n.pc = "restart"
               /\ n.call = local[c].call /\ n.loop = local[c].loop /\ n.result = local[c].result
      <4>1. LoopOK(n, sources, BusyIds)
        BY <1>1, <1>4, <1>8, <3>2 DEF LoopOK, LoopPcs
      <4> QED BY <1>1, <1>3, <3>2, <4>1 DEF CallOK
    <3> QED BY <1>9, <3>1, <3>2, AfterStartRecord
  <2> QED BY <1>1, <1>9, <2>1, AfterStartRecord, QuietStep
<1>10. CASE /\ procs' = Append(procs, NewPublisher(id))
            /\ Continue(c, [local[c] EXCEPT !.pc = "store", !.proc = Len(procs) + 1])
  <2>1. /\ n.pc = "store" /\ n.cur = id /\ n.call = local[c].call /\ n.loop = local[c].loop
        /\ n.result = local[c].result
        /\ \A o \in Callers \ {c}: local'[o] = local[o]
    <3> DEFINE k == Len(procs) + 1
               r == [local[c] EXCEPT !.pc = "store", !.proc = k]
    <3>1. Continue(c, r)
      BY <1>10
    <3> HIDE DEF k
    <3>2. /\ r.pc = "store" /\ r.cur = id /\ r.call = local[c].call /\ r.loop = local[c].loop
          /\ r.result = local[c].result
      BY LocalIsTyped DEF Caller
    <3> HIDE DEF r
    <3> QED BY <3>1, <3>2, BecomesFields DEF Continue
  <2>2. BusyIds' \subseteq BusyIds
    <3>1. \A p \in DOMAIN procs: procs'[p] = procs[p]
      <4>1. procs \in Seq(Publisher) /\ DOMAIN procs = 1..Len(procs)
        BY LenProperties DEF TypeOK, PublishersType
      <4> QED BY <1>10, <4>1
    <3> QED BY <1>1, <3>1, BusyShrinks DEF Alive
  <2>3. ~RegistersSource(local[c].call) => LoopOK(n, sources, BusyIds')
    BY <1>1, <1>4, <1>8, <2>1, <2>2 DEF LoopOK, LoopPcs
  <2>4. CallOK(n, sources, pubOf, BusyIds')
    BY <1>1, <1>3, <2>1, <2>3 DEF CallOK, LoopsOver
  <2> QED BY <1>1, <2>1, <2>2, <2>4, OneCaller
<1> QED BY <1>2, <1>9, <1>10 DEF StartPublisher

LEMMA StorePublisherOK ==
  ASSUME TypeOK, ReaderInv, CallsInv, NEW c \in Callers, StorePublisher(c)
  PROVE  CallsInv'
<1> DEFINE id == local[c].cur
           n == local'[c]
<1>1. /\ local[c].pc = "store" /\ AfterStart(c) /\ UNCHANGED <<queueOf, sources, procs>>
      /\ pubOf' = [pubOf EXCEPT ![id] = local[c].proc]
  BY DEF StorePublisher
<1>2. lock = c /\ local[c].call.op # "stop" /\ ~ForgetsSource(local[c].call)
  BY <1>1, StartingRegistry
<1>3. CallOK(local[c], sources, pubOf, BusyIds)
  BY DEF CallsInv
<1>4. \A i \in BusyIds': i = id \/ i \in BusyIds
  BY <1>1 DEF BusyIds, Running, Alive, Ids, TypeOK, RegistryType
<1>5. CallOK(n, sources', pubOf', BusyIds')
  <2>1. CASE n.pc = "idle" /\ n.result = "ok"
    BY <2>1 DEF CallOK, Failures
  <2>2. CASE /\ ~RegistersSource(local[c].call) /\ n.pc = "restart"
             /\ n.call = local[c].call /\ n.loop = local[c].loop /\ n.result = local[c].result
    <3>1. LoopOK(local[c], sources, BusyIds)
      BY <1>1, <1>2, <1>3, <2>2 DEF CallOK, LoopsOver
    <3>2. id = local[c].loop.last /\ ~(id > id)
      <4>1. id = local[c].loop.last /\ id \in sources
        BY <1>1, <3>1 DEF LoopOK
      <4>2. id \in Nat
        <5>1. \A i \in sources: i \in Nat
          BY DEF TypeOK, RegistryType, Ids
        <5> QED BY <4>1, <5>1
      <4>3. ~(id > id)
        <5> HIDE DEF id
        <5> QED BY <4>2
      <4> QED BY <4>1, <4>3
    <3>3. LoopOK(n, sources, BusyIds')
      BY <1>1, <1>4, <2>2, <3>1, <3>2 DEF LoopOK, LoopPcs
    <3> QED BY <1>1, <1>3, <2>2, <3>3 DEF CallOK
  <2> QED BY <1>1, <2>1, <2>2, AfterStartRecord
<1> QED BY <1>1, <1>2, <1>5, AfterStartRecord, OneCaller


-----------------------------------------------------------------------------
(* The other steps: beginning a call, looking at the queues, publishers, the application *)

\* A caller that looks at the queues one after another depends on no publisher.
LEMMA LookingOK ==
  ASSUME NEW r, r.pc \in {"look", "audit"}, r.result \notin Failures,
         NEW S, NEW pubs, NEW busy
  PROVE  CallOK(r, S, pubs, busy)
BY DEF CallOK, LoopOK, LoopPcs

LEMMA LookAtQueueOK ==
  ASSUME TypeOK, ReaderInv, CallsInv, NEW c \in Callers, LookAtQueue(c)
  PROVE  CallsInv'
<1>1. local[c].pc = "look" /\ UNCHANGED <<queueOf, sources, pubOf, procs>>
  BY DEF LookAtQueue, registry
<1>2. local[c].result \notin Failures
  BY <1>1 DEF CallsInv, CallOK
<1>3. CASE Return(c, local[c].result) \/ Return(c, "BrokenPipeError")
  BY <1>1, <1>2, <1>3, ReturnOK DEF Failures
<1>4. ASSUME NEW look, NEW result \in {"False", local[c].result},
             Continue(c, [local[c] EXCEPT !.look = look, !.result = result])
      PROVE  CallsInv'
  <2> DEFINE r == [local[c] EXCEPT !.look = look, !.result = result]
  <2>1. r.pc = "look" /\ r.result = result
    BY <1>1, LocalIsTyped DEF Caller
  <2>2. Continue(c, r)
    BY <1>4
  <2> HIDE DEF r
  <2>3. local'[c] = r /\ \A o \in Callers \ {c}: local'[o] = local[o]
    BY <2>2, BecomesFields DEF Continue
  <2>4. CallOK(local'[c], sources, pubOf, BusyIds)
    <3>1. r.result \notin Failures
      BY <1>2, <2>1 DEF Failures
    <3> QED BY <2>1, <2>3, <3>1, LookingOK
  <2> QED BY <1>1, <2>3, <2>4, QuietStep
<1>5. \/ Return(c, local[c].result) \/ Return(c, "BrokenPipeError")
      \/ \E id \in local[c].look:
           Continue(c, [local[c] EXCEPT !.look = @ \ {id},
                          !.result = IF Unread(queueOf[id]) THEN "False" ELSE @])
  BY DEF LookAtQueue
<1>6. \A id: (IF Unread(queueOf[id]) THEN "False" ELSE local[c].result)
               \in {"False", local[c].result}
  OBVIOUS
<1> QED BY <1>3, <1>4, <1>5, <1>6

LEMMA AuditQueueOK ==
  ASSUME TypeOK, ReaderInv, CallsInv, NEW c \in Callers, AuditQueue(c)
  PROVE  CallsInv'
<1>1. local[c].pc = "audit" /\ UNCHANGED <<queueOf, sources, pubOf, procs>>
  BY DEF AuditQueue, registry
<1>2. local[c].result \notin Failures
  BY <1>1 DEF CallsInv, CallOK
<1>3. CASE Return(c, "ok")
  BY <1>1, <1>3, ReturnOK DEF Failures
<1>4. ASSUME NEW look, Continue(c, [local[c] EXCEPT !.look = look]) PROVE CallsInv'
  <2> DEFINE r == [local[c] EXCEPT !.look = look]
  <2>1. r.pc = "audit" /\ r.result = local[c].result
    BY <1>1, LocalIsTyped DEF Caller
  <2>2. Continue(c, r)
    BY <1>4
  <2> HIDE DEF r
  <2>3. local'[c] = r /\ \A o \in Callers \ {c}: local'[o] = local[o]
    BY <2>2, BecomesFields DEF Continue
  <2>4. CallOK(local'[c], sources, pubOf, BusyIds)
    BY <1>2, <2>1, <2>3, LookingOK
  <2> QED BY <1>1, <2>3, <2>4, QuietStep
<1>5. \/ Return(c, "ok")
      \/ \E id \in local[c].look: Continue(c, [local[c] EXCEPT !.look = @ \ {id}])
  BY DEF AuditQueue
<1> QED BY <1>3, <1>4, <1>5

LEMMA IsDrainedOK ==
  ASSUME TypeOK, ReaderInv, CallsInv, NEW c \in Callers, NEW call, IsDrained(c, call)
  PROVE  CallsInv'
<1>1. call.op = "is_drained" /\ UNCHANGED <<queueOf, sources, pubOf, procs>>
  BY DEF IsDrained, registry
<1>2. CASE Refuse(c, call, "False") \/ Refuse(c, call, "KeyError")
  BY <1>1, <1>2, RefuseOK DEF Failures
<1>3. ASSUME NEW look, Acquire(c, [Enter(c, call, "look") EXCEPT !.result = "True", !.look = look])
      PROVE  CallsInv'
  <2> DEFINE r == [Enter(c, call, "look") EXCEPT !.result = "True", !.look = look]
  <2>1. r.pc = "look" /\ r.result = "True"
    BY EnterFields
  <2>2. Acquire(c, r)
    BY <1>3
  <2> HIDE DEF r
  <2>3. local'[c] = r /\ \A o \in Callers \ {c}: local'[o] = local[o]
    BY <2>2, BecomesFields DEF Acquire
  <2>4. CallOK(local'[c], sources, pubOf, BusyIds)
    <3>1. r.result \notin Failures
      BY <2>1 DEF Failures
    <3> QED BY <2>1, <2>3, <3>1, LookingOK
  <2> QED BY <1>1, <2>3, <2>4, QuietStep
<1> QED BY <1>2, <1>3 DEF IsDrained

LEMMA AuditOK ==
  ASSUME TypeOK, ReaderInv, CallsInv, NEW c \in Callers, NEW call, Audit(c, call)
  PROVE  CallsInv'
<1>1. UNCHANGED <<queueOf, sources, pubOf, procs>>
  BY DEF Audit, registry
<1>2. /\ local'[c].pc = "audit" /\ local'[c].result = "none"
      /\ \A o \in Callers \ {c}: local'[o] = local[o]
  BY BecomesFields, EnterFields DEF Audit, Acquire
<1>3. CallOK(local'[c], sources, pubOf, BusyIds)
  <2>1. local'[c].result \notin Failures
    BY <1>2 DEF Failures
  <2> QED BY <1>2, <2>1, LookingOK
<1> QED BY <1>1, <1>2, <1>3, QuietStep

LEMMA StopOK ==
  ASSUME TypeOK, ReaderInv, CallsInv, NEW c \in Callers, NEW call, Stop(c, call)
  PROVE  CallsInv'
<1>1. call.op = "stop" /\ UNCHANGED <<queueOf, sources, pubOf, procs>>
  BY DEF Stop, registry
<1>2. /\ local'[c].call = call /\ local'[c].result = "none"
      /\ \A o \in Callers \ {c}: local'[o] = local[o]
  BY BecomesFields, EnterFields DEF Stop, Continue
<1>3. CallOK(local'[c], sources, pubOf, BusyIds)
  BY <1>1, <1>2 DEF CallOK, Failures
<1> QED BY <1>1, <1>2, <1>3, QuietStep

\* A caller that has just taken the lock.
LEMMA EnteredOK ==
  ASSUME NEW r, r.result = "none", NEW S, NEW pubs, NEW busy,
         \/ r.pc = "event" /\ RegistersSource(r.call) /\ r.cur \notin busy
         \/ r.pc = "next" /\ ~RegistersSource(r.call) /\ LoopOK(r, S, busy)
         \/ r.pc = "set" /\ ForgetsSource(r.call)
  PROVE  CallOK(r, S, pubs, busy)
BY DEF CallOK, LoopsOver, Failures, RegistersSource, ForgetsSource

LEMMA RegisterOK ==
  ASSUME TypeOK, ReaderInv, CallsInv, NEW c \in Callers, NEW call \in CallsOf(c), Register(c, call)
  PROVE  CallsInv'
<1> DEFINE id == Len(queueOf) + 1
           loop == LoopOver(sources)
<1>1. call.op = "register" /\ lock = Nobody /\ UNCHANGED procs
  BY DEF Register
<1>2. CASE Refuse(c, call, "ValueError") /\ UNCHANGED <<queueOf, sources, pubOf>>
  BY <1>1, <1>2, RefuseOK DEF Failures
<1>3. ASSUME queueOf' = Append(queueOf, call.q), pubOf' = Append(pubOf, 0),
             NEW r, Acquire(c, r), r.call = call, r.result = "none",
             \/ r.pc = "event" /\ r.cur = id /\ call.dir = "source"
             \/ r.pc = "next" /\ r.loop = loop /\ call.dir = "destination" /\ UNCHANGED sources
      PROVE  CallsInv'
  <2>1. BusyIds' \subseteq BusyIds /\ id \notin BusyIds'
    <3>1. Len(pubOf) = Len(queueOf) /\ pubOf \in Seq(Nat) /\ queueOf \in Seq(Queues)
          /\ Len(queueOf) \in Nat
      BY LenProperties DEF TypeOK, RegistryType
    <3>2. call.q \in Queues
      BY <1>1, CallIsTyped
    <3>3. Len(queueOf') = Len(queueOf) + 1
      BY <1>3, <3>1, <3>2, AppendProperties
    <3>4. /\ \A i \in 1..Len(queueOf): pubOf'[i] = pubOf[i]
          /\ pubOf'[id] = 0
      BY <1>3, <3>1, AppendProperties
    <3>5. \A i \in Ids': i \in 1..Len(queueOf) \/ i = id
      BY <3>1, <3>3 DEF Ids
    <3> HIDE DEF id
    <3> QED BY <1>1, <3>4, <3>5 DEF BusyIds, Running, Alive, Ids
  <2>2. local'[c] = r /\ \A o \in Callers \ {c}: local'[o] = local[o]
    BY <1>3, BecomesFields DEF Acquire
  <2> HIDE DEF id
  <2>3. r.pc = "next" => LoopOK(r, sources', BusyIds')
    <3>1. r.pc = "next" => r.loop = LoopOver(sources) /\ sources' = sources
      BY <1>3
    <3>2. r.pc = "next" => LoopOK(r, sources, BusyIds')
      BY <3>1, LoopBegins
    <3> QED BY <3>1, <3>2
  <2>4. CallOK(local'[c], sources', pubOf', BusyIds')
    BY <1>1, <1>3, <2>1, <2>2, <2>3, EnteredOK DEF RegistersSource
  <2> QED BY <1>1, <2>2, <2>4, OneCaller
<1>4. \/ Refuse(c, call, "ValueError") /\ UNCHANGED <<queueOf, sources, pubOf>>
      \/ /\ queueOf' = Append(queueOf, call.q) /\ pubOf' = Append(pubOf, 0)
         /\ \/ /\ call.dir = "source"
               /\ Acquire(c, [Enter(c, call, "event") EXCEPT !.new = id, !.cur = id])
            \/ /\ call.dir = "destination" /\ UNCHANGED sources
               /\ Acquire(c, [Enter(c, call, "next") EXCEPT !.new = id, !.loop = loop])
  BY Zenon DEF Register
<1>5. /\ [Enter(c, call, "event") EXCEPT !.new = id, !.cur = id].call = call
      /\ [Enter(c, call, "event") EXCEPT !.new = id, !.cur = id].pc = "event"
      /\ [Enter(c, call, "event") EXCEPT !.new = id, !.cur = id].cur = id
      /\ [Enter(c, call, "event") EXCEPT !.new = id, !.cur = id].result = "none"
  BY EnterFields
<1> HIDE DEF loop
<1>6. /\ [Enter(c, call, "next") EXCEPT !.new = id, !.loop = loop].call = call
      /\ [Enter(c, call, "next") EXCEPT !.new = id, !.loop = loop].pc = "next"
      /\ [Enter(c, call, "next") EXCEPT !.new = id, !.loop = loop].loop = loop
      /\ [Enter(c, call, "next") EXCEPT !.new = id, !.loop = loop].result = "none"
  BY EnterFields
<1> HIDE DEF id
<1> QED BY <1>2, <1>3, <1>4, <1>5, <1>6

LEMMA UnregisterOK ==
  ASSUME TypeOK, ReaderInv, CallsInv, NEW c \in Callers, NEW call \in CallsOf(c),
         Unregister(c, call)
  PROVE  CallsInv'
<1> DEFINE loop == LoopOver(sources)
<1>1. call.op = "unregister" /\ lock = Nobody /\ UNCHANGED <<queueOf, pubOf, procs>>
  BY DEF Unregister
<1>2. BusyIds' = BusyIds
  BY <1>1 DEF BusyIds, Running, Alive, Ids
<1>3. CASE sources' = sources \ {call.id} /\ call.id \notin hasStop /\ Refuse(c, call, "ok")
  <2>1. sources' = sources
    BY <1>1, <1>3, SettledRegistry
  <2> QED BY <1>1, <1>3, <2>1, RefuseOK DEF Failures
<1>4. ASSUME NEW r, Acquire(c, r), r.call = call, r.result = "none",
             \/ r.pc = "set" /\ call.dir = "source"
             \/ r.pc = "next" /\ r.loop = loop /\ UNCHANGED sources
      PROVE  CallsInv'
  <2>1. local'[c] = r /\ \A o \in Callers \ {c}: local'[o] = local[o]
    BY <1>4, BecomesFields DEF Acquire
  <2>2. r.pc = "next" => LoopOK(r, sources', BusyIds')
    <3>1. r.pc = "next" => r.loop = LoopOver(sources) /\ sources' = sources
      BY <1>4
    <3>2. r.pc = "next" => LoopOK(r, sources, BusyIds')
      BY <3>1, LoopBegins
    <3> QED BY <3>1, <3>2
  <2>3. CallOK(local'[c], sources', pubOf', BusyIds')
    BY <1>1, <1>4, <2>1, <2>2, EnteredOK DEF RegistersSource, ForgetsSource
  <2> QED BY <1>1, <2>1, <2>3, OneCaller
<1>5. \/ sources' = sources \ {call.id} /\ call.id \notin hasStop /\ Refuse(c, call, "ok")
      \/ call.dir = "source" /\ Acquire(c, [Enter(c, call, "set") EXCEPT !.cur = call.id])
      \/ UNCHANGED sources /\ Acquire(c, [Enter(c, call, "next") EXCEPT !.loop = loop])
  BY DEF Unregister
<1>6. /\ [Enter(c, call, "set") EXCEPT !.cur = call.id].call = call
      /\ [Enter(c, call, "set") EXCEPT !.cur = call.id].pc = "set"
      /\ [Enter(c, call, "set") EXCEPT !.cur = call.id].result = "none"
  BY EnterFields
<1> HIDE DEF loop
<1>7. /\ [Enter(c, call, "next") EXCEPT !.loop = loop].call = call
      /\ [Enter(c, call, "next") EXCEPT !.loop = loop].pc = "next"
      /\ [Enter(c, call, "next") EXCEPT !.loop = loop].loop = loop
      /\ [Enter(c, call, "next") EXCEPT !.loop = loop].result = "none"
  BY EnterFields
<1> QED BY <1>3, <1>4, <1>5, <1>6, <1>7

\* Publishers on their own only ever end.
LEMMA PublishOK ==
  ASSUME TypeOK, CallsInv, NEW p \in DOMAIN procs, Publish(p)
  PROVE  CallsInv'
<1>1. Alive(p) /\ \E r: Turns(p, r)
  <2>1. CASE CheckStop(p) \/ GetItem(p) \/ GetEmpty(p) \/ Snapshot(p) \/ PutAgain(p)
    BY <2>1 DEF CheckStop, GetItem, GetEmpty, Snapshot, PutAgain, At, Alive, Exit, Move
  <2>2. CASE FinishItem(p)
    BY <2>2 DEF FinishItem, At, Alive, Exit
  <2>3. ASSUME NEW d, Put(p, d) \/ PutTimesOut(p, d) PROVE Alive(p) /\ \E r: Turns(p, r)
    BY <2>3 DEF Put, PutTimesOut, Trying, At, Alive, Move
  <2>4. ASSUME NEW d, Abandon(p, d) \/ PutBreaks(p, d) PROVE Alive(p) /\ \E r: Turns(p, r)
    BY <2>4 DEF Abandon, PutBreaks, Trying, At, Alive, Exit
  <2> QED BY <2>1, <2>2, <2>3, <2>4 DEF Publish
<1>2. \A o \in DOMAIN procs: Alive(o)' => Alive(o)
  BY <1>1 DEF Turns, Alive
<1>3. UNCHANGED <<queueOf, sources, pubOf, local>>
  BY DEF Publish, CheckStop, GetItem, GetEmpty, Snapshot, PutAgain, FinishItem, Put,
     PutTimesOut, Abandon, PutBreaks, registry, callerVars
<1>4. BusyIds' \subseteq BusyIds
  BY <1>2, <1>3, BusyShrinks
<1> QED BY <1>3, <1>4, UnlockedOK DEF CallsInv

LEMMA CallsInit == Init => CallsInv
<1> SUFFICES ASSUME Init, NEW c \in Callers
             PROVE  CallOK(local[c], sources, pubOf, BusyIds)
  BY DEF CallsInv
<1>1. local[c].pc = "idle" /\ local[c].result = "none"
  BY DEF Init, Idle
<1> QED BY <1>1 DEF CallOK, Failures

LEMMA CallsNext == TypeOK /\ ReaderInv /\ CallsInv /\ [Next]_vars => CallsInv'
<1> SUFFICES ASSUME TypeOK, ReaderInv, CallsInv, [Next]_vars PROVE CallsInv'
  OBVIOUS
<1>1. ASSUME NEW c \in Callers, BeginCall(c) PROVE CallsInv'
  BY <1>1, RegisterOK, UnregisterOK, StopOK, IsDrainedOK, AuditOK DEF BeginCall
<1>2. ASSUME NEW c \in Callers, ContinueCall(c) PROVE CallsInv'
  BY <1>2, NextToStopOK, SetStopOK, FetchPublisherOK, JoinPublisherOK, ClearStopOK, ForgetStopOK,
     CreateStopOK, NextToStartOK, StartPublisherOK, StorePublisherOK, LookAtQueueOK, AuditQueueOK
     DEF ContinueCall
<1>3. ASSUME NEW p \in DOMAIN procs, Publish(p) PROVE CallsInv'
  BY <1>3, PublishOK
<1>4. ASSUME UNCHANGED <<registry, procs, callerVars>> PROVE CallsInv'
  <2>1. UNCHANGED <<queueOf, sources, pubOf, procs, local>>
    BY <1>4 DEF registry, callerVars
  <2>2. BusyIds' = BusyIds
    BY <2>1 DEF BusyIds, Running, Alive, Ids
  <2> QED BY <2>1, <2>2 DEF CallsInv
<1>5. ASSUME NEW q \in Queues, Produce(q) \/ Consume(q) \/ Break(q) PROVE CallsInv'
  BY <1>4, <1>5 DEF Produce, Consume, Break
<1>6. CASE UNCHANGED vars
  BY <1>4, <1>6 DEF vars
<1> QED BY <1>1, <1>2, <1>3, <1>5, <1>6 DEF Next

LEMMA CallsInvImplies == CallsInv => LockedCallsComplete
BY DEF CallsInv, CallOK, Failures, LockedCallsComplete

\* The invariant behind it: a locked call finds its loop over the sources undisturbed,
\* has stopped every publisher it has passed, and starts one only where none runs.
THEOREM CallsInvariant == Spec => []CallsInv
BY TypeCorrect, ReaderInvariant, CallsInit, CallsNext, PTL DEF Spec

\* register_queue and unregister_queue never raise halfway through stopping and
\* restarting the publishers, whatever stop calls run beside them.
THEOREM LockedCalls == Spec => []LockedCallsComplete
BY CallsInvariant, CallsInvImplies, PTL

=============================================================================
