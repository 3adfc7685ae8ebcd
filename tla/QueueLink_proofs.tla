-------------------------- MODULE QueueLink_proofs --------------------------
(***************************************************************************)
(* Type correctness of QueueLink, and the lemmas about its registry and    *)
(* its publishers on which QueueLinkReader_proofs also rests.              *)
(***************************************************************************)
EXTENDS QueueLink, FiniteSetTheorems, SequenceTheorems, TLAPS

-----------------------------------------------------------------------------
(* Publishers *)

\* One publisher turns into r; the others, and how many there are, stay.
LEMMA TurnsFrame ==
  ASSUME NEW p \in DOMAIN procs, NEW r \in Publisher, procs \in Seq(Publisher), Turns(p, r)
  PROVE  /\ procs' \in Seq(Publisher)
         /\ DOMAIN procs' = DOMAIN procs /\ Len(procs') = Len(procs)
         /\ procs'[p] = r
         /\ \A o \in DOMAIN procs: o # p => procs'[o] = procs[o]
BY ExceptSeq DEF Turns

LEMMA TurnsType ==
  ASSUME TypeOK, NEW p \in DOMAIN procs, NEW r \in Publisher, PublisherOK(r), Turns(p, r),
         queueOf' = queueOf
  PROVE  PublishersType' /\ DOMAIN procs' = DOMAIN procs /\ Len(procs') = Len(procs)
BY TurnsFrame DEF TypeOK, PublishersType, PublisherOK, Ids

LEMMA PublisherIsTyped ==
  ASSUME TypeOK, NEW p \in DOMAIN procs
  PROVE  /\ procs[p] \in Publisher /\ PublisherOK(procs[p])
         /\ Source(p) \in Queues
<1>1. procs[p] \in Publisher /\ PublisherOK(procs[p])
  BY ElementOfSeq, LenProperties DEF TypeOK, PublishersType
<1> QED BY <1>1, ElementOfSeq DEF TypeOK, RegistryType, Source, PublisherOK, Ids

\* Only promised deliveries are given up.
LEMMA GiveUpType ==
  ASSUME TypeOK, NEW item, NEW dests, NEW why
  PROVE  GiveUp(item, dests, why) \subseteq [item: Items, dest: Nat, why: {why}]
<1> SUFFICES ASSUME NEW l \in GiveUp(item, dests, why)
             PROVE  l \in [item: Items, dest: Nat, why: {why}]
  OBVIOUS
<1>1. PICK d \in dests: /\ [item |-> item, dest |-> d] \in owed
                        /\ l = [item |-> item, dest |-> d, why |-> why]
  BY DEF GiveUp
<1>2. [item |-> item, dest |-> d] \in [item: Items, dest: Nat]
  BY <1>1 DEF TypeOK, HistoryType, Owed
<1>3. item \in Items /\ d \in Nat
  BY <1>2
<1> QED BY <1>1, <1>3

\* A publisher's step leaves the registry and the callers alone.
LEMMA PublisherFrame ==
  ASSUME TypeOK, DOMAIN procs' = DOMAIN procs, Len(procs') = Len(procs),
         UNCHANGED <<registry, stopSet, callerVars>>
  PROVE  RegistryType' /\ CallersType'
BY DEF TypeOK, RegistryType, CallersType, CallerOK, registry, callerVars, Ids

LEMMA TypeCheckStop ==
  ASSUME TypeOK, NEW p \in DOMAIN procs, CheckStop(p)
  PROVE  TypeOK'
<1> USE DEF CheckStop
<1>1. procs[p] \in Publisher /\ PublisherOK(procs[p]) /\ Source(p) \in Queues
  BY PublisherIsTyped
<1>2. PublishersType' /\ Len(procs') = Len(procs) /\ DOMAIN procs' = DOMAIN procs
  <2>1. CASE Exit(p)
    BY <1>1, <2>1, TurnsType DEF Exit, registry, Publisher, PublisherPcs, PublisherOK
  <2>2. CASE Move(p, "get")
    BY <1>1, <2>2, TurnsType DEF Move, registry, Publisher, PublisherPcs, PublisherOK
  <2> QED BY <2>1, <2>2
<1>3. RegistryType' /\ CallersType'
  BY <1>2, PublisherFrame
<1>4. QueuesType'
  BY DEF TypeOK, QueuesType, queueVars
<1>5. HistoryType'
  BY DEF TypeOK, HistoryType, history
<1> QED BY <1>2, <1>3, <1>4, <1>5 DEF TypeOK

LEMMA TypeGetItem ==
  ASSUME TypeOK, NEW p \in DOMAIN procs, GetItem(p)
  PROVE  TypeOK'
<1> USE DEF GetItem
<1>1. procs[p] \in Publisher /\ PublisherOK(procs[p]) /\ Source(p) \in Queues
  BY PublisherIsTyped
<1>2. log[Source(p)][head[Source(p)] + 1] \in Items
  BY <1>1, ElementOfSeq DEF TypeOK, QueuesType, Unread
<1>3. PublishersType' /\ Len(procs') = Len(procs) /\ DOMAIN procs' = DOMAIN procs
  BY <1>1, <1>2, TurnsType DEF registry, Publisher, PublisherPcs, PublisherOK
<1>4. RegistryType' /\ CallersType'
  BY <1>3, PublisherFrame
<1>5. QueuesType'
  BY <1>1 DEF TypeOK, QueuesType, Unread
<1>6. HistoryType'
  BY DEF TypeOK, HistoryType, history
<1> QED BY <1>3, <1>4, <1>5, <1>6 DEF TypeOK

LEMMA TypeGetEmpty ==
  ASSUME TypeOK, NEW p \in DOMAIN procs, GetEmpty(p)
  PROVE  TypeOK'
<1> USE DEF GetEmpty
<1>1. procs[p] \in Publisher /\ PublisherOK(procs[p]) /\ Source(p) \in Queues
  BY PublisherIsTyped
<1>2. PublishersType' /\ Len(procs') = Len(procs) /\ DOMAIN procs' = DOMAIN procs
  BY <1>1, TurnsType DEF Move, registry, Publisher, PublisherPcs, PublisherOK
<1>3. RegistryType' /\ CallersType'
  BY <1>2, PublisherFrame
<1>4. QueuesType'
  BY DEF TypeOK, QueuesType, queueVars
<1>5. HistoryType'
  BY DEF TypeOK, HistoryType, history
<1> QED BY <1>2, <1>3, <1>4, <1>5 DEF TypeOK

LEMMA TypeSnapshot ==
  ASSUME TypeOK, NEW p \in DOMAIN procs, Snapshot(p)
  PROVE  TypeOK'
<1> USE DEF Snapshot
<1>1. procs[p] \in Publisher /\ PublisherOK(procs[p])
  BY PublisherIsTyped
<1>2. DestQueues(p) \subseteq Ids /\ DestQueues(p) \subseteq Nat
  BY <1>1 DEF TypeOK, RegistryType, DestQueues, PublisherOK, Ids
<1>3. PublishersType' /\ Len(procs') = Len(procs) /\ DOMAIN procs' = DOMAIN procs
  BY <1>1, <1>2, TurnsType DEF registry, Publisher, PublisherPcs, PublisherOK, At
<1>4. RegistryType' /\ CallersType'
  BY <1>3, PublisherFrame
<1>5. QueuesType' /\ HistoryType'
  BY DEF TypeOK, QueuesType, queueVars, HistoryType, history
<1> QED BY <1>3, <1>4, <1>5 DEF TypeOK

LEMMA TypePutAgain ==
  ASSUME TypeOK, NEW p \in DOMAIN procs, PutAgain(p)
  PROVE  TypeOK'
<1> USE DEF PutAgain
<1>1. procs[p] \in Publisher /\ PublisherOK(procs[p]) /\ Source(p) \in Queues
  BY PublisherIsTyped
<1>2. PublishersType' /\ Len(procs') = Len(procs) /\ DOMAIN procs' = DOMAIN procs
  BY <1>1, TurnsType DEF Move, At, registry, Publisher, PublisherPcs, PublisherOK
<1>3. RegistryType' /\ CallersType'
  BY <1>2, PublisherFrame
<1>4. QueuesType'
  BY DEF TypeOK, QueuesType, queueVars
<1>5. HistoryType'
  BY DEF TypeOK, HistoryType, history
<1> QED BY <1>2, <1>3, <1>4, <1>5 DEF TypeOK

LEMMA TypeFinishItem ==
  ASSUME TypeOK, NEW p \in DOMAIN procs, FinishItem(p)
  PROVE  TypeOK'
<1> USE DEF FinishItem
<1>1. procs[p] \in Publisher /\ PublisherOK(procs[p]) /\ Source(p) \in Queues
  BY PublisherIsTyped
<1>2. PublishersType' /\ Len(procs') = Len(procs) /\ DOMAIN procs' = DOMAIN procs
  <2>1. CASE Exit(p)
    BY <1>1, <2>1, TurnsType DEF Exit, registry, Publisher, PublisherPcs, PublisherOK
  <2>2. CASE Turns(p, [procs[p] EXCEPT !.pc = "check", !.item = NoItem])
    BY <1>1, <2>2, TurnsType DEF registry, Publisher, PublisherPcs, PublisherOK
  <2> QED BY <2>1, <2>2
<1>3. RegistryType' /\ CallersType'
  BY <1>2, PublisherFrame
<1>4. QueuesType'
  <2>1. UNCHANGED <<log, head, broken>>
    OBVIOUS
  <2>2. done' = done \/ done' = [done EXCEPT ![Source(p)] = @ + 1]
    OBVIOUS
  <2>3. done' \in [Queues -> Nat]
    <3>1. done \in [Queues -> Nat]
      BY DEF TypeOK, QueuesType
    <3>2. PICK q \in Queues: q = Source(p)
      BY <1>1
    <3>3. CASE done' = [done EXCEPT ![q] = @ + 1]
      BY <3>1, <3>3
    <3> QED BY <2>2, <3>1, <3>2, <3>3
  <2> QED BY <2>1, <2>3 DEF TypeOK, QueuesType
<1>5. HistoryType'
  BY DEF TypeOK, HistoryType, history
<1> QED BY <1>2, <1>3, <1>4, <1>5 DEF TypeOK

LEMMA TypePut ==
  ASSUME TypeOK, NEW p \in DOMAIN procs, NEW d \in procs[p].todo, Put(p, d)
  PROVE  TypeOK'
<1> USE DEF Put
<1>1. procs[p] \in Publisher /\ PublisherOK(procs[p]) /\ Source(p) \in Queues
  BY PublisherIsTyped
<1>2. PublishersType' /\ Len(procs') = Len(procs) /\ DOMAIN procs' = DOMAIN procs
  BY <1>1, TurnsType DEF registry, Publisher, PublisherPcs, PublisherOK
<1>3. RegistryType' /\ CallersType'
  BY <1>2, PublisherFrame
<1>4. QueuesType'
  <2>1. procs[p].item \in Items /\ queueOf[d] \in Queues
    BY <1>1, ElementOfSeq DEF TypeOK, RegistryType, Trying, At, PublisherOK, Ids
  <2>2. \A q \in Queues: log'[q] \in Seq(Items) /\ Len(log'[q]) >= Len(log[q])
    BY <2>1 DEF TypeOK, QueuesType
  <2> QED BY <2>1, <2>2 DEF TypeOK, QueuesType
<1>5. HistoryType'
  BY DEF TypeOK, HistoryType
<1> QED BY <1>2, <1>3, <1>4, <1>5 DEF TypeOK

LEMMA TypePutTimesOut ==
  ASSUME TypeOK, NEW p \in DOMAIN procs, NEW d \in procs[p].todo, PutTimesOut(p, d)
  PROVE  TypeOK'
<1> USE DEF PutTimesOut
<1>1. procs[p] \in Publisher /\ PublisherOK(procs[p]) /\ Source(p) \in Queues
  BY PublisherIsTyped
<1>2. PublishersType' /\ Len(procs') = Len(procs) /\ DOMAIN procs' = DOMAIN procs
  BY <1>1, TurnsType DEF Trying, At, Move, registry, Publisher, PublisherPcs, PublisherOK
<1>3. RegistryType' /\ CallersType'
  BY <1>2, PublisherFrame
<1>4. QueuesType'
  BY DEF TypeOK, QueuesType, queueVars
<1>5. HistoryType'
  BY DEF TypeOK, HistoryType, history
<1> QED BY <1>2, <1>3, <1>4, <1>5 DEF TypeOK

LEMMA TypeAbandon ==
  ASSUME TypeOK, NEW p \in DOMAIN procs, NEW d \in procs[p].todo, Abandon(p, d)
  PROVE  TypeOK'
<1> USE DEF Abandon
<1>1. procs[p] \in Publisher /\ PublisherOK(procs[p]) /\ Source(p) \in Queues
  BY PublisherIsTyped
<1>2. PublishersType' /\ Len(procs') = Len(procs) /\ DOMAIN procs' = DOMAIN procs
  BY <1>1, TurnsType DEF At, registry, Publisher, PublisherPcs, PublisherOK
<1>3. RegistryType' /\ CallersType'
  BY <1>2, PublisherFrame
<1>4. QueuesType'
  BY DEF TypeOK, QueuesType, queueVars
<1>5. HistoryType'
  BY GiveUpType DEF TypeOK, HistoryType
<1> QED BY <1>2, <1>3, <1>4, <1>5 DEF TypeOK

LEMMA TypePutBreaks ==
  ASSUME TypeOK, NEW p \in DOMAIN procs, NEW d \in procs[p].todo, PutBreaks(p, d)
  PROVE  TypeOK'
<1> USE DEF PutBreaks
<1>1. procs[p] \in Publisher /\ PublisherOK(procs[p]) /\ Source(p) \in Queues
  BY PublisherIsTyped
<1>2. PublishersType' /\ Len(procs') = Len(procs) /\ DOMAIN procs' = DOMAIN procs
  BY <1>1, TurnsType DEF Exit, registry, Publisher, PublisherPcs, PublisherOK
<1>3. RegistryType' /\ CallersType'
  BY <1>2, PublisherFrame
<1>4. QueuesType'
  BY DEF TypeOK, QueuesType, queueVars
<1>5. HistoryType'
  BY GiveUpType DEF TypeOK, HistoryType
<1> QED BY <1>2, <1>3, <1>4, <1>5 DEF TypeOK

-----------------------------------------------------------------------------
(* Callers *)

LEMMA FiniteSources ==
  ASSUME TypeOK
  PROVE  /\ IsFiniteSet(sources) /\ Cardinality(sources) \in Nat
         /\ LoopOver(sources) \in [last: Nat, left: Int, size: Nat]
<1>1. IsFiniteSet(1..Len(queueOf))
  BY FS_Interval DEF TypeOK, RegistryType
<1>2. IsFiniteSet(sources)
  BY <1>1, FS_Subset DEF TypeOK, RegistryType, Ids
<1> QED BY <1>2, FS_CardinalityType DEF LoopOver

LEMMA CallIsTyped ==
  ASSUME TypeOK, NEW c \in Callers, NEW call \in CallsOf(c)
  PROVE  /\ local[c].pc = "idle" /\ call \in Call
         /\ call.op = "register" => call.q \in Queues
<1>1. local[c].pc = "idle" /\ local[c].made < Len(Program[c])
      /\ call \in Program[c][local[c].made + 1]
  BY DEF CallsOf
<1>2. Program[c] \in Seq(SUBSET Call) /\ local[c].made + 1 \in DOMAIN Program[c]
  BY <1>1, ProgramAssumption, LenProperties DEF TypeOK, CallersType, Caller
<1>3. Program[c][local[c].made + 1] \in SUBSET Call
  BY <1>2, ElementOfSeq, LenProperties
<1> QED BY <1>1, <1>2, <1>3, RegisterAssumption

\* One caller's record becomes r; the registry and the publishers may only grow.
LEMMA BecomesType ==
  ASSUME TypeOK, NEW c \in Callers, NEW r \in Caller, Becomes(c, r), CallerOK(r, Ids', DOMAIN procs'),
         DOMAIN procs \subseteq DOMAIN procs', Ids \subseteq Ids'
  PROVE  CallersType'
<1>1. local' \in [Callers -> Caller] /\ local'[c] = r
      /\ \A o \in Callers \ {c}: local'[o] = local[o]
  BY DEF TypeOK, CallersType, Becomes
<1>2. \A o \in Callers \ {c}: CallerOK(local'[o], Ids', DOMAIN procs')
  BY <1>1 DEF TypeOK, CallersType, CallerOK
<1> QED BY <1>1, <1>2 DEF CallersType

LEMMA LocalIsTyped ==
  ASSUME TypeOK, NEW c \in Callers
  PROVE  /\ local[c] \in Caller /\ CallerOK(local[c], Ids, DOMAIN procs)
         /\ local[c].made \in Nat /\ local[c].made + 1 \in Nat /\ local[c].call \in Call
<1>1. local[c] \in Caller /\ CallerOK(local[c], Ids, DOMAIN procs)
  BY DEF TypeOK, CallersType
<1>2. local[c].made \in Nat /\ local[c].call \in Call
  BY <1>1 DEF Caller
<1> QED BY <1>1, <1>2

LEMMA IdleType ==
  ASSUME NEW made \in Nat, NEW call \in Call, NEW result \in Results
  PROVE  Idle(made, call, result) \in Caller
BY DEF Idle, NoLoop, Caller, CallerPcs

\* Returning, refusing and going to another step keep the callers typed.
LEMMA ReturnType ==
  ASSUME TypeOK, NEW c \in Callers, NEW result \in Results, Return(c, result),
         DOMAIN procs \subseteq DOMAIN procs', Ids \subseteq Ids'
  PROVE  CallersType' /\ lock' \in Callers \cup {Nobody}
<1>1. Idle(local[c].made, local[c].call, result) \in Caller
  BY LocalIsTyped, IdleType
<1>2. CallerOK(Idle(local[c].made, local[c].call, result), Ids', DOMAIN procs')
  BY DEF CallerOK, Idle, AtSource, AtPublisher
<1> QED BY <1>1, <1>2, BecomesType DEF Return, TypeOK, RegistryType

LEMMA RefuseType ==
  ASSUME TypeOK, NEW c \in Callers, NEW call \in Call, NEW result \in Results,
         Refuse(c, call, result), DOMAIN procs \subseteq DOMAIN procs', Ids \subseteq Ids'
  PROVE  CallersType' /\ lock' \in Callers \cup {Nobody}
<1>1. Idle(local[c].made + 1, call, result) \in Caller
  BY LocalIsTyped, IdleType
<1>2. CallerOK(Idle(local[c].made + 1, call, result), Ids', DOMAIN procs')
  BY DEF CallerOK, Idle, AtSource, AtPublisher
<1> QED BY <1>1, <1>2, BecomesType DEF Refuse, Continue, TypeOK, RegistryType

LEMMA GotoType ==
  ASSUME TypeOK, NEW c \in Callers, NEW pc \in CallerPcs, Goto(c, pc),
         pc \in AtSource => local[c].cur \in Ids',
         pc \in AtPublisher => local[c].proc \in DOMAIN procs',
         DOMAIN procs \subseteq DOMAIN procs', Ids \subseteq Ids'
  PROVE  CallersType' /\ lock' \in Callers \cup {Nobody}
<1>1. [local[c] EXCEPT !.pc = pc] \in Caller
  BY LocalIsTyped DEF Caller
<1>2. CallerOK([local[c] EXCEPT !.pc = pc], Ids', DOMAIN procs')
  BY LocalIsTyped DEF CallerOK, Caller
<1> QED BY <1>1, <1>2, BecomesType DEF Goto, Continue, TypeOK, RegistryType

\* The record of a call that has just begun.
LEMMA EnterType ==
  ASSUME TypeOK, NEW c \in Callers, NEW call \in Call, NEW pc \in CallerPcs
  PROVE  /\ Enter(c, call, pc) \in Caller
         /\ Enter(c, call, pc).pc = pc
<1>1. "none" \in Results
  BY DEF Results
<1>2. Idle(local[c].made + 1, call, "none") \in Caller
  BY <1>1, LocalIsTyped, IdleType
<1> QED BY <1>2 DEF Enter, Caller

\* What a step that leaves the registry, the publishers and the queues keeps.
LEMMA CallerFrame ==
  ASSUME TypeOK, UNCHANGED <<queueOf, pubOf, procs, queueVars, history>>
  PROVE  /\ PublishersType' /\ QueuesType' /\ HistoryType'
         /\ Ids' = Ids /\ DOMAIN procs' = DOMAIN procs
BY DEF TypeOK, PublishersType, PublisherOK, QueuesType, HistoryType, queueVars, history, Ids

LEMMA TypeStop ==
  ASSUME TypeOK, NEW c \in Callers, NEW call \in CallsOf(c), Stop(c, call)
  PROVE  TypeOK'
<1> USE DEF Stop
<1>1. PublishersType' /\ QueuesType' /\ HistoryType' /\ Ids' = Ids /\ DOMAIN procs' = DOMAIN procs
  BY CallerFrame DEF registry
<1>2. [Enter(c, call, "next") EXCEPT !.loop = LoopOver(sources)] \in Caller
  BY CallIsTyped, EnterType, FiniteSources DEF Caller, CallerPcs
<1>3. CallerOK([Enter(c, call, "next") EXCEPT !.loop = LoopOver(sources)], Ids', DOMAIN procs')
  BY CallIsTyped, EnterType DEF Caller, CallerPcs, CallerOK, AtSource, AtPublisher
<1>4. CallersType'
  BY <1>1, <1>2, <1>3, BecomesType DEF Continue
<1>5. RegistryType'
  BY <1>1 DEF TypeOK, RegistryType, registry, Continue, Ids
<1> QED BY <1>1, <1>4, <1>5 DEF TypeOK

LEMMA TypeRegister ==
  ASSUME TypeOK, NEW c \in Callers, NEW call \in CallsOf(c), Register(c, call)
  PROVE  TypeOK'
<1> USE DEF Register
<1> DEFINE id == Len(queueOf) + 1
<1>1. call \in Call /\ call.q \in Queues
  BY CallIsTyped
<1>2. CASE Registered(call.q) /\ Refuse(c, call, "ValueError")
             /\ UNCHANGED <<queueOf, sources, destinations, pubOf>>
  <2>1. PublishersType' /\ QueuesType' /\ HistoryType' /\ Ids' = Ids /\ DOMAIN procs' = DOMAIN procs
    BY <1>2, CallerFrame
  <2>2. "ValueError" \in Results
    BY DEF Results
  <2>3. CallersType' /\ lock' \in Callers \cup {Nobody}
    BY <1>1, <1>2, <2>1, <2>2, RefuseType
  <2>4. RegistryType'
    BY <1>2, <2>1, <2>3 DEF TypeOK, RegistryType, Ids
  <2> QED BY <2>1, <2>3, <2>4 DEF TypeOK
<1>3. CASE ~Registered(call.q)
  <2>1. /\ queueOf' \in Seq(Queues) /\ Len(queueOf') = id
        /\ pubOf' \in Seq(Nat) /\ Len(pubOf') = id
        /\ \A i \in Ids': pubOf'[i] \in 0..Len(procs')
        /\ Ids' = Ids \cup {id} /\ id \in Nat
    <3>1. queueOf \in Seq(Queues) /\ pubOf \in Seq(Nat) /\ Len(pubOf) = Len(queueOf)
          /\ Len(queueOf) \in Nat /\ id \in Nat
      BY LenProperties DEF TypeOK, RegistryType
    <3>2. queueOf' = Append(queueOf, call.q) /\ pubOf' = Append(pubOf, 0) /\ procs' = procs
      BY <1>3
    <3>3. queueOf' \in Seq(Queues) /\ Len(queueOf') = id
      BY <1>1, <3>1, <3>2, AppendProperties
    <3>4. /\ pubOf' \in Seq(Nat) /\ Len(pubOf') = id
          /\ \A i \in 1..Len(queueOf): pubOf'[i] = pubOf[i]
          /\ pubOf'[id] = 0
      BY <3>1, <3>2, AppendProperties
    <3>5. Ids' = Ids \cup {id}
      BY <3>1, <3>3 DEF Ids
    <3>6. Len(procs) \in Nat
      BY LenProperties DEF TypeOK, PublishersType
    <3>7. \A i \in Ids': pubOf'[i] \in 0..Len(procs')
      BY <3>1, <3>2, <3>4, <3>5, <3>6 DEF TypeOK, RegistryType, Ids
    <3> QED BY <3>1, <3>3, <3>4, <3>5, <3>7
  <2>2. PublishersType' /\ QueuesType' /\ HistoryType' /\ DOMAIN procs' = DOMAIN procs
    BY <2>1 DEF TypeOK, PublishersType, PublisherOK, QueuesType, HistoryType, queueVars, history
  <2>3. CASE call.dir = "source"
    <3> DEFINE r == [Enter(c, call, "event") EXCEPT !.new = id, !.cur = id]
    <3>0. Enter(c, call, "event") \in Caller /\ Enter(c, call, "event").pc = "event"
      BY <1>1, EnterType DEF CallerPcs
    <3> HIDE DEF id
    <3>1. r \in Caller
      BY <2>1, <3>0 DEF Caller
    <3>2. CallerOK(r, Ids', DOMAIN procs')
      BY <2>1, <3>0 DEF Caller, CallerOK, AtPublisher
    <3> USE DEF id
    <3>3. Acquire(c, r) /\ sources' = sources \cup {id} /\ UNCHANGED destinations
      BY <1>3, <2>3
    <3>4. CallersType'
      BY <2>1, <2>2, <3>1, <3>2, <3>3, BecomesType DEF Acquire
    <3>5. RegistryType'
      BY <2>1, <3>3 DEF TypeOK, RegistryType, Acquire
    <3> QED BY <2>2, <3>4, <3>5 DEF TypeOK
  <2>4. CASE call.dir = "destination"
    <3> DEFINE r == [Enter(c, call, "next") EXCEPT !.new = id, !.loop = LoopOver(sources)]
    <3>0. Enter(c, call, "next") \in Caller /\ Enter(c, call, "next").pc = "next"
      BY <1>1, EnterType DEF CallerPcs
    <3> HIDE DEF id
    <3>1. r \in Caller
      BY <2>1, <3>0, FiniteSources DEF Caller
    <3>2. CallerOK(r, Ids', DOMAIN procs')
      BY <3>0 DEF Caller, CallerOK, AtSource, AtPublisher
    <3> USE DEF id
    <3>3. Acquire(c, r) /\ destinations' = destinations \cup {id} /\ UNCHANGED sources
      BY <1>3, <2>4
    <3>4. CallersType'
      BY <2>1, <2>2, <3>1, <3>2, <3>3, BecomesType DEF Acquire
    <3>5. RegistryType'
      BY <2>1, <3>3 DEF TypeOK, RegistryType, Acquire
    <3> QED BY <2>2, <3>4, <3>5 DEF TypeOK
  <2> QED BY <1>3, <2>3, <2>4
<1> QED BY <1>2, <1>3

LEMMA TypeUnregister ==
  ASSUME TypeOK, NEW c \in Callers, NEW call \in CallsOf(c), Unregister(c, call)
  PROVE  TypeOK'
<1> USE DEF Unregister
<1>1. call \in Call
  BY CallIsTyped
<1>2. /\ PublishersType' /\ QueuesType' /\ HistoryType' /\ Ids' = Ids /\ DOMAIN procs' = DOMAIN procs
  BY DEF TypeOK, PublishersType, PublisherOK, QueuesType, HistoryType, queueVars, Ids
<1>3. CallersType' /\ lock' \in Callers \cup {Nobody}
  <2>1. CASE call.id \in hasStop /\ Acquire(c, [Enter(c, call, "set") EXCEPT !.cur = call.id])
    <3> DEFINE r == [Enter(c, call, "set") EXCEPT !.cur = call.id]
    <3>1. call.id \in Ids /\ call.id \in Nat
      BY <2>1 DEF TypeOK, RegistryType, Ids
    <3>2. r \in Caller
      BY <1>1, <3>1, EnterType DEF Caller, CallerPcs
    <3>3. CallerOK(r, Ids', DOMAIN procs')
      BY <1>1, <1>2, <3>1, EnterType DEF Caller, CallerPcs, CallerOK, AtPublisher
    <3> QED BY <1>2, <2>1, <3>2, <3>3, BecomesType DEF Acquire
  <2>2. CASE Refuse(c, call, "ok")
    <3>1. "ok" \in Results
      BY DEF Results
    <3> QED BY <1>1, <1>2, <2>2, <3>1, RefuseType
  <2>3. CASE Acquire(c, [Enter(c, call, "next") EXCEPT !.loop = LoopOver(sources)])
    <3> DEFINE r == [Enter(c, call, "next") EXCEPT !.loop = LoopOver(sources)]
    <3>1. r \in Caller
      BY <1>1, EnterType, FiniteSources DEF Caller, CallerPcs
    <3>2. CallerOK(r, Ids', DOMAIN procs')
      BY <1>1, EnterType DEF Caller, CallerPcs, CallerOK, AtSource, AtPublisher
    <3> QED BY <1>2, <2>3, <3>1, <3>2, BecomesType DEF Acquire
  <2> QED BY <2>1, <2>2, <2>3
<1>4. RegistryType'
  BY <1>2, <1>3 DEF TypeOK, RegistryType, Ids
<1> QED BY <1>2, <1>3, <1>4 DEF TypeOK

\* One turn of the loop over the sources.
LEMMA AdvanceType ==
  ASSUME TypeOK, NEW c \in Callers, NEW body \in CallerPcs \ AtPublisher, Advance(c, body),
         Ids' = Ids, DOMAIN procs' = DOMAIN procs
  PROVE  CallersType' /\ lock' \in Callers \cup {Nobody}
<1> DEFINE loop == local[c].loop
<1>1. PICK id \in sources:
        Continue(c, [local[c] EXCEPT !.pc = body, !.cur = id,
                       !.loop = [loop EXCEPT !.last = id, !.left = @ - 1]])
  BY DEF Advance
<1> DEFINE r == [local[c] EXCEPT !.pc = body, !.cur = id,
                   !.loop = [loop EXCEPT !.last = id, !.left = @ - 1]]
<1>2. id \in Ids /\ id \in Nat
  BY DEF TypeOK, RegistryType, Ids
<1>3. loop \in [last: Nat, left: Int, size: Nat]
  BY LocalIsTyped DEF Caller
<1>4. [loop EXCEPT !.last = id, !.left = @ - 1] \in [last: Nat, left: Int, size: Nat]
  <2>1. loop.left - 1 \in Int
    BY <1>3
  <2> HIDE DEF loop
  <2> QED BY <1>2, <1>3, <2>1
<1>5. r \in Caller
  BY <1>2, <1>4, LocalIsTyped DEF Caller
<1>6. CallerOK(r, Ids', DOMAIN procs')
  BY <1>2, LocalIsTyped DEF Caller, CallerOK
<1> QED BY <1>1, <1>5, <1>6, BecomesType DEF Continue, TypeOK, RegistryType

LEMMA TypeNextToStop ==
  ASSUME TypeOK, NEW c \in Callers, NextToStop(c)
  PROVE  TypeOK'
<1> USE DEF NextToStop
<1>1. PublishersType' /\ QueuesType' /\ HistoryType' /\ Ids' = Ids /\ DOMAIN procs' = DOMAIN procs
  BY CallerFrame DEF registry
<1>2. "RuntimeError" \in Results /\ "ok" \in Results
  BY DEF Results
<1>3. CallersType' /\ lock' \in Callers \cup {Nobody}
  <2>1. CASE Return(c, "RuntimeError")
    BY <1>1, <1>2, <2>1, ReturnType
  <2>2. CASE Return(c, "ok")
    BY <1>1, <1>2, <2>2, ReturnType
  <2>3. CASE Advance(c, "set")
    BY <1>1, <2>3, AdvanceType DEF CallerPcs, AtPublisher
  <2>4. CASE Continue(c, [local[c] EXCEPT !.pc = "restart", !.loop = LoopOver(sources)])
    <3> DEFINE r == [local[c] EXCEPT !.pc = "restart", !.loop = LoopOver(sources)]
    <3>1. r \in Caller
      BY LocalIsTyped, FiniteSources DEF Caller, CallerPcs
    <3>2. CallerOK(r, Ids', DOMAIN procs')
      BY LocalIsTyped DEF Caller, CallerOK, AtSource, AtPublisher
    <3> QED BY <1>1, <2>4, <3>1, <3>2, BecomesType DEF Continue, TypeOK, RegistryType
  <2> QED BY <2>1, <2>2, <2>3, <2>4
<1>4. RegistryType'
  BY <1>1, <1>3 DEF TypeOK, RegistryType, registry, Ids
<1> QED BY <1>1, <1>3, <1>4 DEF TypeOK

LEMMA TypeSetStop ==
  ASSUME TypeOK, NEW c \in Callers, SetStop(c)
  PROVE  TypeOK'
<1> USE DEF SetStop
<1>1. PublishersType' /\ QueuesType' /\ HistoryType' /\ Ids' = Ids /\ DOMAIN procs' = DOMAIN procs
  BY CallerFrame DEF registry
<1>2. local[c].cur \in Ids
  BY LocalIsTyped DEF CallerOK, AtSource
<1>3. CallersType' /\ lock' \in Callers \cup {Nobody}
  <2>1. CASE Return(c, "KeyError")
    BY <1>1, <2>1, ReturnType DEF Results
  <2>2. CASE Goto(c, "fetch")
    BY <1>1, <1>2, <2>2, GotoType DEF CallerPcs, AtPublisher
  <2> QED BY <2>1, <2>2
<1>4. RegistryType'
  BY <1>1, <1>2, <1>3 DEF TypeOK, RegistryType, registry, Ids
<1> QED BY <1>1, <1>3, <1>4 DEF TypeOK

LEMMA TypeFetchPublisher ==
  ASSUME TypeOK, NEW c \in Callers, FetchPublisher(c)
  PROVE  TypeOK'
<1> USE DEF FetchPublisher
<1>1. PublishersType' /\ QueuesType' /\ HistoryType' /\ Ids' = Ids /\ DOMAIN procs' = DOMAIN procs
  BY CallerFrame DEF registry
<1> DEFINE p == pubOf[local[c].cur]
           r == [local[c] EXCEPT !.proc = p, !.pc = IF p = 0 THEN "clear" ELSE "join"]
<1>2. local[c].cur \in Ids
  BY LocalIsTyped DEF CallerOK, AtSource
<1>3. p \in 0..Len(procs) /\ DOMAIN procs = 1..Len(procs) /\ Len(procs) \in Nat
  BY <1>2, LenProperties DEF TypeOK, RegistryType, PublishersType
<1> HIDE DEF p
<1>3a. p \in Nat /\ (p # 0 => p \in DOMAIN procs)
  BY <1>3
<1>4. r \in Caller
  BY <1>3a, LocalIsTyped DEF Caller, CallerPcs
<1>5. CallerOK(r, Ids', DOMAIN procs')
  BY <1>1, <1>2, <1>3a, LocalIsTyped DEF Caller, CallerOK, AtPublisher
<1> USE DEF p
<1>6. CallersType'
  BY <1>1, <1>4, <1>5, BecomesType DEF Continue
<1>7. RegistryType'
  BY <1>1 DEF TypeOK, RegistryType, registry, Continue, Ids
<1> QED BY <1>1, <1>6, <1>7 DEF TypeOK

LEMMA TypeJoinPublisher ==
  ASSUME TypeOK, NEW c \in Callers, JoinPublisher(c)
  PROVE  TypeOK'
<1> USE DEF JoinPublisher
<1>1. PublishersType' /\ QueuesType' /\ HistoryType' /\ Ids' = Ids /\ DOMAIN procs' = DOMAIN procs
  BY CallerFrame DEF registry
<1>2. CallersType' /\ lock' \in Callers \cup {Nobody}
  BY <1>1, LocalIsTyped, GotoType DEF CallerPcs, AtSource, AtPublisher, CallerOK
<1>3. RegistryType'
  BY <1>1, <1>2 DEF TypeOK, RegistryType, registry, Ids
<1> QED BY <1>1, <1>2, <1>3 DEF TypeOK

LEMMA TypeClearStop ==
  ASSUME TypeOK, NEW c \in Callers, ClearStop(c)
  PROVE  TypeOK'
<1> USE DEF ClearStop
<1>1. PublishersType' /\ QueuesType' /\ HistoryType' /\ Ids' = Ids /\ DOMAIN procs' = DOMAIN procs
  BY CallerFrame DEF registry
<1>2. PICK pc \in {"forget", "next"}: Goto(c, pc)
  OBVIOUS
<1>3. CallersType' /\ lock' \in Callers \cup {Nobody}
  BY <1>1, <1>2, LocalIsTyped, GotoType DEF CallerPcs, AtSource, AtPublisher, CallerOK
<1>4. RegistryType'
  BY <1>1, <1>3 DEF TypeOK, RegistryType, registry, Ids
<1> QED BY <1>1, <1>3, <1>4 DEF TypeOK

LEMMA TypeForgetStop ==
  ASSUME TypeOK, NEW c \in Callers, ForgetStop(c)
  PROVE  TypeOK'
<1> USE DEF ForgetStop
<1>1. PublishersType' /\ QueuesType' /\ HistoryType' /\ Ids' = Ids /\ DOMAIN procs' = DOMAIN procs
  BY CallerFrame
<1>2. CallersType' /\ lock' \in Callers \cup {Nobody}
  BY <1>1, ReturnType DEF Results
<1>3. RegistryType'
  BY <1>1, <1>2 DEF TypeOK, RegistryType, Ids
<1> QED BY <1>1, <1>2, <1>3 DEF TypeOK

LEMMA TypeCreateStop ==
  ASSUME TypeOK, NEW c \in Callers, CreateStop(c)
  PROVE  TypeOK'
<1> USE DEF CreateStop
<1>1. PublishersType' /\ QueuesType' /\ HistoryType' /\ Ids' = Ids /\ DOMAIN procs' = DOMAIN procs
  BY CallerFrame
<1>2. local[c].cur \in Ids
  BY LocalIsTyped DEF CallerOK, AtSource
<1>3. CallersType' /\ lock' \in Callers \cup {Nobody}
  BY <1>1, <1>2, GotoType DEF CallerPcs, AtPublisher
<1>4. RegistryType'
  BY <1>1, <1>2, <1>3 DEF TypeOK, RegistryType, Ids
<1> QED BY <1>1, <1>3, <1>4 DEF TypeOK

LEMMA TypeNextToStart ==
  ASSUME TypeOK, NEW c \in Callers, NextToStart(c)
  PROVE  TypeOK'
<1> USE DEF NextToStart
<1>1. PublishersType' /\ QueuesType' /\ HistoryType' /\ Ids' = Ids /\ DOMAIN procs' = DOMAIN procs
  BY CallerFrame DEF registry
<1>2. "RuntimeError" \in Results /\ "ok" \in Results
  BY DEF Results
<1>3. CallersType' /\ lock' \in Callers \cup {Nobody}
  BY <1>1, <1>2, ReturnType, AdvanceType DEF CallerPcs, AtPublisher
<1>4. RegistryType'
  BY <1>1, <1>3 DEF TypeOK, RegistryType, registry, Ids
<1> QED BY <1>1, <1>3, <1>4 DEF TypeOK

\* After _start_publisher: register_queue(FROM) returns, a restart loop goes on.
LEMMA AfterStartType ==
  ASSUME TypeOK, NEW c \in Callers, AfterStart(c), Ids' = Ids, DOMAIN procs' = DOMAIN procs
  PROVE  CallersType' /\ lock' \in Callers \cup {Nobody}
<1>1. CASE Return(c, "ok")
  BY <1>1, ReturnType DEF Results
<1>2. CASE Goto(c, "restart")
  BY <1>2, GotoType DEF CallerPcs, AtSource, AtPublisher
<1> QED BY <1>1, <1>2 DEF AfterStart

\* A new publisher, and the publishers with it.
LEMMA NewPublisherType ==
  ASSUME TypeOK, NEW id \in Ids, procs' = Append(procs, NewPublisher(id)), UNCHANGED queueOf
  PROVE  /\ PublishersType'
         /\ Len(procs) \in Nat /\ Len(procs') = Len(procs) + 1
         /\ DOMAIN procs \subseteq DOMAIN procs' /\ Len(procs) + 1 \in DOMAIN procs'
         /\ \A p \in DOMAIN procs: procs'[p] = procs[p]
         /\ procs'[Len(procs) + 1] = NewPublisher(id)
<1>1. destinations \subseteq Ids /\ Ids' = Ids /\ Ids \subseteq Nat
  BY DEF TypeOK, RegistryType, Ids
<1>2. NewPublisher(id) \in Publisher
  <2>1. id \in Nat /\ destinations \in SUBSET Nat
    BY <1>1
  <2> QED BY <2>1 DEF NewPublisher, Publisher, PublisherPcs
<1>3. PublisherOK(NewPublisher(id))
  BY <1>1 DEF NewPublisher, PublisherOK
<1>4. procs \in Seq(Publisher) /\ Len(procs) \in Nat /\ DOMAIN procs = 1..Len(procs)
  BY LenProperties DEF TypeOK, PublishersType
<1>5. /\ procs' \in Seq(Publisher) /\ Len(procs') = Len(procs) + 1
      /\ \A p \in 1..Len(procs): procs'[p] = procs[p]
      /\ procs'[Len(procs) + 1] = NewPublisher(id)
  BY <1>2, <1>4, AppendProperties
<1>6. DOMAIN procs' = 1..(Len(procs) + 1)
  BY <1>5, LenProperties
<1>7. DOMAIN procs' = DOMAIN procs \cup {Len(procs) + 1}
  BY <1>4, <1>6
<1>8. \A p \in DOMAIN procs': PublisherOK(procs'[p])
  BY <1>3, <1>4, <1>5, <1>7 DEF TypeOK, PublishersType
<1>9. PublishersType'
  BY <1>1, <1>5, <1>8 DEF PublishersType, PublisherOK
<1> QED BY <1>4, <1>5, <1>7, <1>9

LEMMA TypeStartPublisher ==
  ASSUME TypeOK, NEW c \in Callers, StartPublisher(c)
  PROVE  TypeOK'
<1> DEFINE id == local[c].cur
           n == Len(procs) + 1
           r == [local[c] EXCEPT !.pc = "store", !.proc = n]
<1>1. id \in Ids
  BY LocalIsTyped DEF StartPublisher, CallerOK, AtSource
<1>2. QueuesType' /\ HistoryType' /\ Ids' = Ids
  BY DEF StartPublisher, TypeOK, QueuesType, HistoryType, queueVars, history, Ids
<1>3. /\ UNCHANGED <<queueOf, pubOf, sources, destinations, hasStop, stopSet, queueVars, history>>
      /\ \/ /\ UNCHANGED <<procs, started>>
            /\ Return(c, "KeyError") \/ Return(c, "ValueError: running") \/ AfterStart(c)
         \/ /\ procs' = Append(procs, NewPublisher(id)) /\ started' = TRUE
            /\ Continue(c, r)
  BY DEF StartPublisher
<1>4. CASE /\ UNCHANGED <<procs, started>>
           /\ Return(c, "KeyError") \/ Return(c, "ValueError: running") \/ AfterStart(c)
  <2>1. PublishersType' /\ DOMAIN procs' = DOMAIN procs
    BY <1>3, <1>4, CallerFrame
  <2>2. CallersType' /\ lock' \in Callers \cup {Nobody}
    BY <1>2, <1>4, <2>1, ReturnType, AfterStartType DEF Results
  <2>3. RegistryType'
    BY <1>2, <1>3, <1>4, <2>2 DEF TypeOK, RegistryType, Ids
  <2> QED BY <1>2, <2>1, <2>2, <2>3 DEF TypeOK
<1>5. CASE /\ procs' = Append(procs, NewPublisher(id)) /\ started' = TRUE
           /\ Continue(c, r)
  <2>1. /\ PublishersType' /\ Len(procs) \in Nat /\ Len(procs') = n
        /\ DOMAIN procs \subseteq DOMAIN procs' /\ n \in DOMAIN procs'
    BY <1>1, <1>3, <1>5, NewPublisherType
  <2>2. r \in Caller /\ r.pc = "store" /\ r.proc = n /\ r.cur = id
    <3>1. local[c] \in Caller
      BY LocalIsTyped
    <3>2. n \in Nat
      BY <2>1
    <3> HIDE DEF n
    <3> QED BY <3>1, <3>2 DEF Caller, CallerPcs
  <2>3. CallerOK(r, Ids', DOMAIN procs')
    <3> HIDE DEF n, r
    <3> QED BY <1>1, <1>2, <2>1, <2>2 DEF CallerOK
  <2>4. CallersType'
    BY <1>2, <1>5, <2>1, <2>2, <2>3, BecomesType DEF Continue
  <2>5. RegistryType'
    <3>1. \A i \in Ids: pubOf[i] \in 0..Len(procs')
      BY <2>1 DEF TypeOK, RegistryType
    <3>2. lock' = lock
      BY <1>5 DEF Continue
    <3> QED BY <1>2, <1>3, <1>5, <3>1, <3>2 DEF TypeOK, RegistryType
  <2> QED BY <1>2, <2>1, <2>4, <2>5 DEF TypeOK
<1> QED BY <1>3, <1>4, <1>5

LEMMA TypeStorePublisher ==
  ASSUME TypeOK, NEW c \in Callers, StorePublisher(c)
  PROVE  TypeOK'
<1> USE DEF StorePublisher
<1>1. local[c].cur \in Ids /\ local[c].proc \in DOMAIN procs
  BY LocalIsTyped DEF CallerOK, AtSource, AtPublisher
<1>2. PublishersType' /\ QueuesType' /\ HistoryType' /\ Ids' = Ids /\ DOMAIN procs' = DOMAIN procs
  BY DEF TypeOK, PublishersType, PublisherOK, QueuesType, HistoryType, queueVars, history, Ids
<1>3. CallersType' /\ lock' \in Callers \cup {Nobody}
  BY <1>2, AfterStartType
<1>4. /\ pubOf' \in Seq(Nat) /\ Len(pubOf') = Len(queueOf')
      /\ \A i \in Ids': pubOf'[i] \in 0..Len(procs')
  <2>1. local[c].proc \in 0..Len(procs) /\ local[c].proc \in Nat
    BY <1>1, LenProperties DEF TypeOK, PublishersType
  <2>2. local[c].cur \in 1..Len(pubOf) /\ pubOf \in Seq(Nat)
    BY <1>1 DEF TypeOK, RegistryType, Ids
  <2> QED BY <1>2, <2>1, <2>2, ExceptSeq DEF TypeOK, RegistryType, Ids
<1>5. RegistryType'
  BY <1>2, <1>3, <1>4 DEF TypeOK, RegistryType, Ids
<1> QED BY <1>2, <1>3, <1>5 DEF TypeOK

LEMMA TypeIsDrained ==
  ASSUME TypeOK, NEW c \in Callers, NEW call \in CallsOf(c), IsDrained(c, call)
  PROVE  TypeOK'
<1> USE DEF IsDrained
<1>1. call \in Call /\ call.id \in Nat
  BY CallIsTyped DEF Call
<1>2. PublishersType' /\ QueuesType' /\ HistoryType' /\ Ids' = Ids /\ DOMAIN procs' = DOMAIN procs
  BY CallerFrame DEF registry
<1> DEFINE look == IF call.id = 0 THEN sources \cup destinations
                   ELSE IF call.id \in destinations THEN sources \cup {call.id}
                   ELSE {call.id}
           r == [Enter(c, call, "look") EXCEPT !.result = "True", !.look = look]
<1>3. CallersType' /\ lock' \in Callers \cup {Nobody}
  <2>1. CASE Refuse(c, call, "False")
    BY <1>1, <1>2, <2>1, RefuseType DEF Results
  <2>2. CASE Refuse(c, call, "KeyError")
    BY <1>1, <1>2, <2>2, RefuseType DEF Results
  <2>3. CASE Acquire(c, r)
    <3>1. look \in SUBSET Nat
      BY <1>1 DEF TypeOK, RegistryType, Ids
    <3>2. Enter(c, call, "look") \in Caller /\ Enter(c, call, "look").pc = "look"
      BY <1>1, EnterType DEF CallerPcs
    <3>3. r \in Caller
      <4> HIDE DEF look, IsDrained
      <4> QED BY <3>1, <3>2 DEF Caller, Results
    <3>4. CallerOK(r, Ids', DOMAIN procs')
      BY <3>2 DEF Caller, CallerOK, AtSource, AtPublisher
    <3> QED BY <1>2, <2>3, <3>3, <3>4, BecomesType DEF Acquire, TypeOK, RegistryType
  <2> QED BY <2>1, <2>2, <2>3
<1>4. RegistryType'
  BY <1>2, <1>3 DEF TypeOK, RegistryType, registry, Ids
<1> QED BY <1>2, <1>3, <1>4 DEF TypeOK

LEMMA TypeLookAtQueue ==
  ASSUME TypeOK, NEW c \in Callers, LookAtQueue(c)
  PROVE  TypeOK'
<1> USE DEF LookAtQueue
<1>1. PublishersType' /\ QueuesType' /\ HistoryType' /\ Ids' = Ids /\ DOMAIN procs' = DOMAIN procs
  BY CallerFrame DEF registry
<1>2. CallersType' /\ lock' \in Callers \cup {Nobody}
  <2>1. CASE Return(c, local[c].result)
    BY <1>1, <2>1, LocalIsTyped, ReturnType DEF Caller
  <2>2. CASE Return(c, "BrokenPipeError")
    BY <1>1, <2>2, ReturnType DEF Results
  <2>3. CASE \E id \in local[c].look:
               Continue(c, [local[c] EXCEPT !.look = @ \ {id},
                              !.result = IF Unread(queueOf[id]) THEN "False" ELSE @])
    <3>1. PICK id \in local[c].look:
            Continue(c, [local[c] EXCEPT !.look = @ \ {id},
                           !.result = IF Unread(queueOf[id]) THEN "False" ELSE @])
      BY <2>3
    <3> DEFINE r == [local[c] EXCEPT !.look = @ \ {id},
                       !.result = IF Unread(queueOf[id]) THEN "False" ELSE @]
    <3>2. r \in Caller
      BY LocalIsTyped DEF Caller, Results
    <3>3. CallerOK(r, Ids', DOMAIN procs')
      BY <1>1, LocalIsTyped DEF Caller, CallerOK
    <3> QED BY <1>1, <3>1, <3>2, <3>3, BecomesType DEF Continue, TypeOK, RegistryType
  <2>4. \/ Return(c, local[c].result)
        \/ Return(c, "BrokenPipeError")
        \/ \E id \in local[c].look:
              Continue(c, [local[c] EXCEPT !.look = @ \ {id},
                             !.result = IF Unread(queueOf[id]) THEN "False" ELSE @])
    BY Zenon
  <2> QED BY <2>1, <2>2, <2>3, <2>4
<1>3. RegistryType'
  BY <1>1, <1>2 DEF TypeOK, RegistryType, registry, Ids
<1> QED BY <1>1, <1>2, <1>3 DEF TypeOK

LEMMA TypeAudit ==
  ASSUME TypeOK, NEW c \in Callers, NEW call \in CallsOf(c), Audit(c, call)
  PROVE  TypeOK'
<1> USE DEF Audit
<1>1. PublishersType' /\ QueuesType' /\ HistoryType' /\ Ids' = Ids /\ DOMAIN procs' = DOMAIN procs
  BY CallerFrame DEF registry
<1> DEFINE look == IF call.dir = "source" THEN sources ELSE destinations
           r == [Enter(c, call, "audit") EXCEPT !.look = look]
<1>2. look \in SUBSET Nat
  BY DEF TypeOK, RegistryType, Ids
<1>3. r \in Caller
  <2>1. Enter(c, call, "audit") \in Caller
    BY CallIsTyped, EnterType DEF CallerPcs
  <2> HIDE DEF look
  <2> QED BY <1>2, <2>1 DEF Caller
<1>4. CallerOK(r, Ids', DOMAIN procs')
  BY CallIsTyped, EnterType DEF Caller, CallerPcs, CallerOK, AtSource, AtPublisher
<1>5. CallersType'
  BY <1>1, <1>3, <1>4, BecomesType DEF Acquire
<1>6. RegistryType'
  BY <1>1 DEF TypeOK, RegistryType, registry, Acquire, Ids
<1> QED BY <1>1, <1>5, <1>6 DEF TypeOK

LEMMA TypeAuditQueue ==
  ASSUME TypeOK, NEW c \in Callers, AuditQueue(c)
  PROVE  TypeOK'
<1> USE DEF AuditQueue
<1>1. PublishersType' /\ Ids' = Ids /\ DOMAIN procs' = DOMAIN procs
  BY DEF TypeOK, PublishersType, PublisherOK, registry, Ids
<1>2. CallersType' /\ lock' \in Callers \cup {Nobody}
  <2>1. CASE Return(c, "ok")
    BY <1>1, <2>1, ReturnType DEF Results
  <2>2. CASE \E id \in local[c].look: Continue(c, [local[c] EXCEPT !.look = @ \ {id}])
    <3>1. PICK id \in local[c].look: Continue(c, [local[c] EXCEPT !.look = @ \ {id}])
      BY <2>2
    <3>2. [local[c] EXCEPT !.look = @ \ {id}] \in Caller
      BY LocalIsTyped DEF Caller
    <3>3. CallerOK([local[c] EXCEPT !.look = @ \ {id}], Ids', DOMAIN procs')
      BY <1>1, LocalIsTyped DEF Caller, CallerOK
    <3> QED BY <1>1, <3>1, <3>2, <3>3, BecomesType DEF Continue, TypeOK, RegistryType
  <2> QED BY <2>1, <2>2
<1>3. RegistryType'
  BY <1>1, <1>2 DEF TypeOK, RegistryType, registry, Ids
<1>4. QueuesType'
  <2>1. CASE UNCHANGED head
    BY <2>1 DEF TypeOK, QueuesType
  <2>2. CASE \E id \in local[c].look: /\ Unread(queueOf[id])
                                      /\ head' = [head EXCEPT ![queueOf[id]] = @ + 1]
    <3>1. PICK id \in local[c].look: /\ Unread(queueOf[id])
                                     /\ head' = [head EXCEPT ![queueOf[id]] = @ + 1]
      BY <2>2
    <3>2. \A q \in Queues: head'[q] \in Nat /\ head'[q] <= Len(log[q])
      BY <3>1 DEF TypeOK, QueuesType, Unread
    <3> QED BY <3>1, <3>2 DEF TypeOK, QueuesType
  <2> QED BY <2>1, <2>2
<1>5. HistoryType'
  <2>1. CASE UNCHANGED lost
    BY <2>1 DEF TypeOK, HistoryType
  <2>2. CASE \E item, dests: lost' = lost \cup GiveUp(item, dests, "audit")
    BY <2>2, GiveUpType DEF TypeOK, HistoryType
  <2> QED BY <2>1, <2>2
<1> QED BY <1>1, <1>2, <1>3, <1>4, <1>5 DEF TypeOK

-----------------------------------------------------------------------------
(* The application's queues, and the theorem *)

LEMMA TypeProduce ==
  ASSUME TypeOK, NEW q \in Queues, Produce(q)
  PROVE  TypeOK'
<1> USE DEF Produce
<1> DEFINE mine == {i \in 1..Len(log[q]): log[q][i].from = q}
           item == [from |-> q, n |-> Cardinality(mine) + 1]
<1>1. item \in Items
  <2>1. Len(log[q]) \in Nat
    BY DEF TypeOK, QueuesType
  <2>2. IsFiniteSet(mine)
    <3>1. mine \in SUBSET (1..Len(log[q]))
      OBVIOUS
    <3> HIDE DEF mine
    <3>2. 0 + 1 \in Int /\ Len(log[q]) \in Int
      BY <2>1
    <3>3. IsFiniteSet(1..Len(log[q]))
      BY <3>2, FS_Interval
    <3> QED BY <3>1, <3>3, FS_Subset
  <2>3. Cardinality(mine) + 1 \in Nat \ {0}
    BY <2>2, FS_CardinalityType
  <2> QED BY <2>3 DEF Items
<1>2. RegistryType' /\ PublishersType' /\ CallersType'
  BY DEF TypeOK, RegistryType, PublishersType, PublisherOK, CallersType, CallerOK, registry,
         callerVars, Ids
<1>3. QueuesType'
  <2>1. \A s \in Queues: log'[s] \in Seq(Items) /\ Len(log'[s]) >= Len(log[s])
    BY <1>1 DEF TypeOK, QueuesType
  <2> QED BY <2>1 DEF TypeOK, QueuesType
<1>4. HistoryType'
  <2>1. \A d \in destinations: [item |-> item, dest |-> d] \in Owed
    BY <1>1 DEF TypeOK, RegistryType, Owed, Ids
  <2> QED BY <2>1 DEF TypeOK, HistoryType
<1> QED BY <1>2, <1>3, <1>4 DEF TypeOK

LEMMA TypeConsume ==
  ASSUME TypeOK, NEW q \in Queues, Consume(q) \/ Break(q)
  PROVE  TypeOK'
<1>1. RegistryType' /\ PublishersType' /\ CallersType' /\ HistoryType'
  BY DEF Consume, Break, TypeOK, RegistryType, PublishersType, PublisherOK, CallersType, CallerOK,
         HistoryType, registry, callerVars, history, Ids
<1>2. QueuesType'
  <2>1. CASE Consume(q)
    <3>1. \A s \in Queues: head'[s] \in Nat /\ head'[s] <= Len(log[s])
      BY <2>1 DEF Consume, TypeOK, QueuesType, Unread
    <3> QED BY <2>1, <3>1 DEF Consume, TypeOK, QueuesType
  <2>2. CASE Break(q)
    BY <2>2 DEF Break, TypeOK, QueuesType
  <2> QED BY <2>1, <2>2
<1> QED BY <1>1, <1>2 DEF TypeOK

LEMMA TypeInit == Init => TypeOK
<1> SUFFICES ASSUME Init PROVE TypeOK
  OBVIOUS
<1> USE DEF Init
<1>1. Ids = {} /\ DOMAIN procs = {}
  BY DEF Ids
<1>1a. RegistryType
  BY <1>1, EmptySeq DEF RegistryType
<1>1b. PublishersType
  BY <1>1, EmptySeq DEF PublishersType
<1>2. CallersType
  <2>1. NoCall \in Call /\ "none" \in Results
    BY DEF NoCall, Call, Directions, Results
  <2>2. Idle(0, NoCall, "none") \in Caller
    BY <2>1, IdleType
  <2>3. CallerOK(Idle(0, NoCall, "none"), Ids, DOMAIN procs)
    BY DEF CallerOK, Idle, AtSource, AtPublisher
  <2> QED BY <2>2, <2>3 DEF CallersType
<1>3. QueuesType /\ HistoryType
  BY EmptySeq DEF QueuesType, HistoryType
<1> QED BY <1>1a, <1>1b, <1>2, <1>3 DEF TypeOK

LEMMA TypeNext == TypeOK /\ [Next]_vars => TypeOK'
<1> SUFFICES ASSUME TypeOK, [Next]_vars PROVE TypeOK'
  OBVIOUS
<1>1. ASSUME NEW c \in Callers, BeginCall(c) PROVE TypeOK'
  BY <1>1, TypeRegister, TypeUnregister, TypeStop, TypeIsDrained, TypeAudit DEF BeginCall
<1>2. ASSUME NEW c \in Callers, ContinueCall(c) PROVE TypeOK'
  BY <1>2, TypeNextToStop, TypeSetStop, TypeFetchPublisher, TypeJoinPublisher, TypeClearStop,
     TypeForgetStop, TypeCreateStop, TypeNextToStart, TypeStartPublisher, TypeStorePublisher,
     TypeLookAtQueue, TypeAuditQueue DEF ContinueCall
<1>3. ASSUME NEW p \in DOMAIN procs, Publish(p) PROVE TypeOK'
  BY <1>3, TypeCheckStop, TypeGetItem, TypeGetEmpty, TypeSnapshot, TypePutAgain, TypeFinishItem,
     TypePut, TypePutTimesOut, TypeAbandon, TypePutBreaks DEF Publish
<1>4. ASSUME NEW q \in Queues, Produce(q) \/ Consume(q) \/ Break(q) PROVE TypeOK'
  BY <1>4, TypeProduce, TypeConsume
<1>5. CASE UNCHANGED vars
  BY <1>5 DEF vars, registry, queueVars, history, callerVars, TypeOK, RegistryType, PublishersType,
     PublisherOK, CallersType, CallerOK, QueuesType, HistoryType, Ids
<1> QED BY <1>1, <1>2, <1>3, <1>4, <1>5 DEF Next

\* Every variable keeps its type, and whatever a step of QueueLink uses - an id of
\* client_queues_source, an entry of client_pair_publishers, an item - exists.
THEOREM TypeCorrect == Spec => []TypeOK
BY TypeInit, TypeNext, PTL DEF Spec

=============================================================================
