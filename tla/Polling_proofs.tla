--------------------------- MODULE Polling_proofs ---------------------------
(***************************************************************************)
(* Polling: its types, the one case in which get() may be called without a *)
(* timeout, the length of a call, and the refinement of FanOut, for all    *)
(* queues, threads, timeouts and pipes.                                    *)
(***************************************************************************)
EXTENDS Polling, FiniteSetTheorems, TLAPS

-----------------------------------------------------------------------------
(* Types *)

LEMMA AtTyped ==
  ASSUME NEW pc \in Places
  PROVE  /\ At(pc) \in ThreadType /\ At(pc).pc = pc /\ At(pc).todo = <<>>
         /\ At(pc).lap = 0 /\ At(pc).item = NoItem
  BY TimesAssumption DEF At, ThreadType, Asks

\* A thread goes on to a typed state.
LEMMA BecomesTyped ==
  ASSUME TypeOK, NEW t \in Threads, NEW r \in ThreadType, Becomes(t, r),
         r.pc \in {"address", "put"} => t \in Publishers /\ r.item \in Items
  PROVE  /\ thread' \in [Threads -> ThreadType]
         /\ \A o \in Threads: Busy(o)' => o \in Publishers /\ thread'[o].item \in Items
         /\ thread'[t] = r /\ \A o \in Threads: o # t => thread'[o] = thread[o]
  BY DEF TypeOK, Becomes, Busy

LEMMA GoesBecomes ==
  ASSUME TypeOK, NEW t \in Threads, NEW pc \in Places, Goes(t, pc)
  PROVE  /\ [thread[t] EXCEPT !.pc = pc] \in ThreadType
         /\ Becomes(t, [thread[t] EXCEPT !.pc = pc])
  BY DEF TypeOK, Goes, Becomes, ThreadType

\* A step of one thread that leaves the queues and the caller alone.
LEMMA OwnStep ==
  ASSUME TypeOK, NEW t \in Threads, NEW r \in ThreadType, Becomes(t, r),
         r.pc \in {"address", "put"} => t \in Publishers /\ r.item \in Items,
         UNCHANGED <<log, head, stopped, call>>
  PROVE  TypeOK'
  BY BecomesTyped DEF TypeOK

LEMMA StepsTo ==
  ASSUME TypeOK, NEW t \in Threads, NEW pc \in Places \ {"address", "put"}, Becomes(t, At(pc)),
         UNCHANGED <<log, head, stopped, call>>
  PROVE  TypeOK'
  BY AtTyped, OwnStep

LEMMA HomeTyped == \A t: Home(t) \in {"check", "away"}
  BY DEF Home

LEMMA TypeInit == Init => TypeOK
<1> SUFFICES ASSUME Init PROVE TypeOK
  OBVIOUS
<1>1. \A t \in Threads: At(Home(t)) \in ThreadType /\ At(Home(t)).pc \in {"check", "away"}
  BY AtTyped, HomeTyped DEF Places
<1>2. thread \in [Threads -> ThreadType] /\ \A t \in Threads: ~Busy(t)
  BY <1>1 DEF Init, Busy
<1>3. call \in [step: {"none", "stop", "join", "start"}, rest: Seq(Publishers),
                again: BOOLEAN, made: 0..MaxCalls]
  BY QueuesAssumption DEF Init
<1>4. /\ log \in [Queues -> Seq(Items)] /\ head \in [Queues -> Nat]
      /\ \A q \in Queues: head[q] <= Len(log[q])
      /\ stopped \in [Publishers -> BOOLEAN] /\ call.step # "join"
  BY DEF Init
<1> QED BY <1>2, <1>3, <1>4 DEF TypeOK

\* safe_get.
LEMMA TypeSafeGet ==
  ASSUME TypeOK, NEW t \in Threads, SafeGet(t)
  PROVE  TypeOK'
<1>0. \A pc \in Places: At(pc) \in ThreadType /\ At(pc).pc = pc
  BY AtTyped
<1>T. thread[t] \in ThreadType
  BY DEF TypeOK
<1>1. CASE PollZero(t)
  BY <1>1, StepsTo DEF PollZero, Places
<1>2. CASE PollEnds(t)
  BY <1>2, StepsTo, HomeTyped DEF PollEnds, Places
<1>3. CASE PollEmpty(t)
  <2> DEFINE r == [thread[t] EXCEPT !.pc = "sleep", !.slept = 0]
  <2>0. 0 \in 0..Cycle
    BY TimesAssumption
  <2>1. r \in ThreadType /\ r.pc = "sleep"
    BY <1>T, <2>0 DEF ThreadType, Places
  <2>2. CASE thread[t].ask.block
    <3>1. Becomes(t, r) /\ UNCHANGED <<log, head, stopped, call>>
      BY <1>3, <2>2 DEF PollEmpty
    <3> HIDE DEF r
    <3> QED BY <2>1, <3>1, OwnStep
  <2>3. CASE ~thread[t].ask.block
    BY <1>3, <2>3, StepsTo, HomeTyped DEF PollEmpty, Places
  <2> QED BY <2>2, <2>3
<1>4. CASE PollFound(t)
  <2> DEFINE r == [thread[t] EXCEPT !.pc = "get"]
  <2>1. r \in ThreadType /\ Becomes(t, r) /\ r.pc = "get"
    BY <1>T, <1>4, GoesBecomes DEF PollFound, Places, ThreadType
  <2> HIDE DEF r
  <2> QED BY <1>4, <2>1, OwnStep DEF PollFound
<1>5. CASE Wake(t)
  <2> DEFINE r == [thread[t] EXCEPT !.pc = "poll"]
  <2>1. r \in ThreadType /\ r.pc = "poll" /\ (Goes(t, "poll") => Becomes(t, r))
    BY <1>T, GoesBecomes DEF Places, ThreadType
  <2>2. CASE Stopping(t)
    BY <1>5, <2>2, StepsTo, HomeTyped DEF Wake, Places
  <2>3. CASE ~Stopping(t)
    <3> HIDE DEF r
    <3> QED BY <1>5, <2>1, <2>3, OwnStep DEF Wake
  <2> QED BY <2>2, <2>3
<1>6. CASE Get(t)
  <2> DEFINE q == Source[t]
             item == log[q][head[q] + 1]
  <2>1. q \in Queues
    BY ThreadsAssumption
  <2>2. /\ item \in Items
        /\ head' \in [Queues -> Nat] /\ \A o \in Queues: head'[o] <= Len(log[o])
    BY <1>6, <2>1 DEF Get, Unread, TypeOK
  <2>3. [At("address") EXCEPT !.item = item] \in ThreadType
    BY <1>0, <2>2 DEF ThreadType, Places
  <2>4. CASE t \in Publishers
    <3> DEFINE r == [At("address") EXCEPT !.item = item]
    <3>1. Becomes(t, r) /\ r.pc = "address" /\ r.item = item
      BY <1>6, <2>4 DEF Get, At
    <3> HIDE DEF r
    <3> QED BY <1>6, <2>2, <2>3, <2>4, <3>1, BecomesTyped DEF Get, TypeOK, r
  <2>5. CASE t \notin Publishers
    BY <1>0, <1>6, <2>2, <2>5, BecomesTyped DEF Get, TypeOK, Places
  <2> QED BY <2>4, <2>5
<1> QED BY <1>1, <1>2, <1>3, <1>4, <1>5, <1>6 DEF SafeGet

LEMMA TypePublish ==
  ASSUME TypeOK, NEW p \in Publishers, Publish(p)
  PROVE  TypeOK'
<1>0. p \in Threads /\ thread[p] \in ThreadType
  BY DEF Threads, TypeOK
<1>1. CASE CheckStop(p)
  BY <1>0, <1>1, StepsTo DEF CheckStop, Places
<1>2. CASE Address(p)
  <2> DEFINE r == [thread[p] EXCEPT !.pc = "put", !.todo = To[p]]
  <2>1. r \in ThreadType /\ r.pc = "put" /\ r.item \in Items
    BY <1>0, <1>2, ThreadsAssumption DEF Address, ThreadType, Places, TypeOK, Busy
  <2>2. Becomes(p, r) /\ UNCHANGED <<log, head, stopped, call>>
    BY <1>2 DEF Address
  <2> HIDE DEF r
  <2> QED BY <1>0, <2>1, <2>2, OwnStep
<1>3. CASE Put(p)
  <2> DEFINE r == [thread[p] EXCEPT !.todo = Tail(@)]
             d == Head(thread[p].todo)
  <2>1. thread[p].todo \in Seq(Queues) /\ thread[p].todo # <<>> /\ thread[p].item \in Items
    BY <1>0, <1>3 DEF Put, ThreadType, TypeOK, Busy
  <2>2. r \in ThreadType /\ r.pc = "put" /\ r.item \in Items /\ d \in Queues
    BY <1>0, <1>3, <2>1 DEF Put, ThreadType
  <2>3. Becomes(p, r) /\ UNCHANGED <<head, stopped, call>>
    BY <1>3 DEF Put
  <2>4. log' = [log EXCEPT ![d] = Append(@, thread[p].item)]
    BY <1>3 DEF Put
  <2>5. log' \in [Queues -> Seq(Items)] /\ \A q \in Queues: head[q] <= Len(log'[q])
    BY <2>1, <2>2, <2>4 DEF TypeOK
  <2> HIDE DEF r, d
  <2> QED BY <1>0, <2>2, <2>3, <2>5, BecomesTyped DEF TypeOK
<1>4. CASE Finish(p)
  BY <1>0, <1>4, StepsTo DEF Finish, Places
<1> QED BY <1>0, <1>1, <1>2, <1>3, <1>4, TypeSafeGet DEF Publish

LEMMA TypeCaller ==
  ASSUME TypeOK, Begin \/ Calls
  PROVE  TypeOK'
<1> DEFINE CallType == [step: {"none", "stop", "join", "start"}, rest: Seq(Publishers),
                        again: BOOLEAN, made: 0..MaxCalls]
<1>0. call \in CallType /\ call.rest \in Seq(Publishers)
  BY DEF TypeOK
<1>1. CASE Begin
  BY <1>0, <1>1, QueuesAssumption, ThreadsAssumption DEF Begin, TypeOK, Busy
<1>2. CASE Request
  BY <1>0, <1>2 DEF Request, GoTo, TypeOK, Busy
<1>3. CASE Join
  <2>1. call.step = "join" /\ call.rest # <<>> /\ Tail(call.rest) \in Seq(Publishers)
    BY <1>0, <1>3 DEF Join, TypeOK
  <2>2. call' \in CallType /\ call'.step = "stop"
    BY <1>0, <1>3, <2>1 DEF Join
  <2>3. stopped' \in [Publishers -> BOOLEAN] /\ UNCHANGED <<log, head, thread>>
    BY <1>3 DEF Join, TypeOK
  <2> QED BY <2>2, <2>3 DEF TypeOK, Busy
<1>4. CASE EndStop
  BY <1>0, <1>4, ThreadsAssumption DEF EndStop, GoTo, TypeOK, Busy
<1>5. CASE Start
  <2>1. CASE call.rest = <<>>
    BY <1>0, <1>5, <2>1 DEF Start, GoTo, TypeOK, Busy
  <2>2. CASE call.rest # <<>>
    <3> DEFINE p == Head(call.rest)
    <3>1. p \in Threads /\ Tail(call.rest) \in Seq(Publishers)
      BY <1>0, <2>2 DEF Threads
    <3>2. /\ Becomes(p, At("check")) /\ UNCHANGED <<log, head, stopped>>
          /\ call' = [call EXCEPT !.rest = Tail(@)] /\ call.step = "start"
      BY <1>5, <2>2 DEF Start
    <3>3. call' \in CallType /\ call'.step # "join"
      BY <1>0, <3>1, <3>2
    <3>4. /\ thread' \in [Threads -> ThreadType]
          /\ \A o \in Threads: Busy(o)' => o \in Publishers /\ thread'[o].item \in Items
      <4>1. At("check") \in ThreadType /\ At("check").pc = "check"
        BY AtTyped DEF Places
      <4> QED BY <3>1, <3>2, <4>1, BecomesTyped
    <3> QED BY <3>2, <3>3, <3>4 DEF TypeOK
  <2> QED BY <2>1, <2>2
<1> QED BY <1>1, <1>2, <1>3, <1>4, <1>5 DEF Calls

LEMMA TypeApplication ==
  ASSUME TypeOK,
         \/ \E q \in Queues: Produce(q) \/ Consume(q)
         \/ \E r \in Readers: Ask(r)
         \/ Tick
  PROVE  TypeOK'
<1>1. ASSUME NEW q \in Queues, Produce(q) PROVE TypeOK'
  <2> DEFINE item == [from |-> q, n |-> Cardinality(Own(q)) + 1]
  <2>1. Own(q) \subseteq 1..Len(log[q]) /\ Len(log[q]) \in Nat
    BY DEF Own, TypeOK
  <2>2. Cardinality(Own(q)) \in Nat
    <3>1. IsFiniteSet(1..Len(log[q]))
      BY <2>1, FS_Interval
    <3> QED BY <2>1, <3>1, FS_Subset, FS_CardinalityType
  <2>3. item \in Items
    BY <2>2 DEF Items
  <2>4. log' = [log EXCEPT ![q] = Append(@, item)] /\ UNCHANGED <<head, thread, stopped, call>>
    BY <1>1 DEF Produce
  <2> HIDE DEF item
  <2>5. log' \in [Queues -> Seq(Items)] /\ \A o \in Queues: head[o] <= Len(log'[o])
    BY <2>3, <2>4 DEF TypeOK
  <2> QED BY <2>4, <2>5 DEF TypeOK, Busy
<1>2. ASSUME NEW q \in Queues, Consume(q) PROVE TypeOK'
  <2>1. head' \in [Queues -> Nat] /\ \A o \in Queues: head'[o] <= Len(log[o])
    BY <1>2 DEF Consume, Unread, TypeOK
  <2> QED BY <1>2, <2>1 DEF Consume, TypeOK, Busy
<1>3. ASSUME NEW r \in Readers, Ask(r) PROVE TypeOK'
  <2> PICK ask \in Asked[r]: Becomes(r, [At("poll") EXCEPT !.ask = ask])
    BY <1>3 DEF Ask
  <2> DEFINE s == [At("poll") EXCEPT !.ask = ask]
  <2>1. ask \in Asks /\ r \in Threads
    BY TimesAssumption DEF Threads
  <2>2. s \in ThreadType /\ s.pc = "poll"
    BY <2>1, AtTyped DEF ThreadType, Places, At
  <2>3. Becomes(r, s) /\ UNCHANGED <<log, head, stopped, call>>
    BY <1>3 DEF Ask
  <2> HIDE DEF s
  <2> QED BY <2>1, <2>2, <2>3, OwnStep
<1>4. CASE Tick
  <2>1. ASSUME NEW t \in Threads
        PROVE  thread'[t] \in ThreadType /\ thread'[t].item = thread[t].item
               /\ (Busy(t)' => Busy(t))
    <3>1. thread[t] \in ThreadType
      BY DEF TypeOK
    <3>2. CASE thread[t].pc = "sleep"
      <4>0. ~Awake(t)
        BY <1>4, <3>2 DEF Tick, Runnable
      <4>1. thread[t].slept \in 0..Cycle /\ thread[t].lap \in Nat /\ thread[t].slept < Cycle
        BY <3>1, <4>0, TimesAssumption DEF Awake, ThreadType
      <4>2. thread'[t] = [thread[t] EXCEPT !.lap = @ + 1, !.slept = @ + 1]
        BY <1>4, <3>2 DEF Tick
      <4>3. thread[t].lap + 1 \in Nat /\ thread[t].slept + 1 \in 0..Cycle
        BY <4>1, TimesAssumption
      <4> QED BY <3>1, <3>2, <4>2, <4>3 DEF ThreadType, Busy
    <3>3. CASE thread[t].pc = "away"
      <4>1. thread'[t] = [thread[t] EXCEPT !.pc = "back"]
        BY <1>4, <3>3 DEF Tick
      <4> QED BY <3>1, <4>1 DEF ThreadType, Places, Busy
    <3>4. CASE thread[t].pc \notin {"sleep", "away"}
      <4>1. thread'[t] = thread[t]
        BY <1>4, <3>4 DEF Tick
      <4> QED BY <3>1, <4>1 DEF Busy
    <3> QED BY <3>2, <3>3, <3>4
  <2>2. thread' \in [Threads -> ThreadType]
    BY <1>4, <2>1 DEF Tick
  <2> QED BY <1>4, <2>1, <2>2 DEF Tick, TypeOK
<1> QED BY <1>1, <1>2, <1>3, <1>4

LEMMA TypeNext == TypeOK /\ [Next]_vars => TypeOK'
<1> SUFFICES ASSUME TypeOK, [Next]_vars PROVE TypeOK'
  OBVIOUS
<1>1. CASE UNCHANGED vars
  BY <1>1 DEF vars, TypeOK, Busy
<1>2. ASSUME NEW r \in Readers, SafeGet(r) PROVE TypeOK'
  BY <1>2, TypeSafeGet DEF Threads
<1> QED BY <1>1, <1>2, TypePublish, TypeCaller, TypeApplication DEF Next

\* Spec => []TypeOK: no thread reads past the end of a queue, sleeps for longer than a
\* cycle or is sending without an item, whatever it was asked and however time passes.
THEOREM PollingTypeCorrect == Spec => []TypeOK
  BY TypeInit, TypeNext, PTL DEF Spec

-----------------------------------------------------------------------------
(* What a step makes of a thread *)

\* A sleeping call had time left when it fell asleep, and has slept a cycle at most.
InTime(r) ==
  /\ r.pc = "sleep" => r.lap < r.ask.timeout + r.slept
  /\ r.pc = "poll" /\ r.ask.timeout > 0 => r.lap < r.ask.timeout + Cycle

\* Thread t becomes r; it only calls get() when it sees an item.
Turn(t, r) == Becomes(t, r) /\ InTime(r) /\ (r.pc = "get" => Unread(Source[t]))

LEMMA AtInTime == \A pc: pc # "sleep" => InTime(At(pc)) /\ At(pc).pc = pc
<1> SUFFICES ASSUME NEW pc, pc # "sleep" PROVE InTime(At(pc)) /\ At(pc).pc = pc
  OBVIOUS
<1>1. /\ At(pc).pc = pc /\ At(pc).lap = 0 /\ At(pc).slept = 0
      /\ At(pc).ask.timeout = LinkTimeout
  BY DEF At
<1> QED BY <1>1, TimesAssumption DEF InTime

\* A step of safe_get before its get().
LEMMA SafeGetTurn ==
  ASSUME TypeOK, NEW t \in Threads, InTime(thread[t]), SafeGet(t), ~Get(t)
  PROVE  /\ UNCHANGED <<log, head, stopped, call>>
         /\ ~Busy(t) /\ thread[t].pc # "dead"
         /\ \E r \in ThreadType: /\ Turn(t, r) /\ r.pc \notin {"address", "put"}
                                 /\ r.todo \in {thread[t].todo, <<>>}
<1>0. thread[t] \in ThreadType
  BY DEF TypeOK
<1>1. ASSUME NEW pc \in Places \ {"address", "put", "get", "sleep"}, Becomes(t, At(pc))
      PROVE  \E r \in ThreadType: /\ Turn(t, r) /\ r.pc \notin {"address", "put"}
                                  /\ r.todo \in {thread[t].todo, <<>>}
  BY <1>1, AtTyped, AtInTime DEF Turn
<1>2. CASE PollZero(t)
  <2>1. PICK pc \in {"dead", "away"}: Becomes(t, At(pc))
    BY <1>2 DEF PollZero
  <2> QED BY <1>1, <1>2, <2>1 DEF PollZero, Polls, Busy, Places
<1>3. CASE PollEnds(t)
  BY <1>1, <1>3, HomeTyped DEF PollEnds, Polls, Busy, Places
<1>4. CASE PollEmpty(t)
  <2>1. CASE thread[t].ask.block
    <3> DEFINE r == [thread[t] EXCEPT !.pc = "sleep", !.slept = 0]
    <3>1. 0 \in 0..Cycle
      BY TimesAssumption
    <3>2. r \in ThreadType /\ r.pc = "sleep" /\ r.lap = thread[t].lap /\ r.slept = 0
          /\ r.ask = thread[t].ask /\ r.todo = thread[t].todo
      BY <1>0, <3>1 DEF ThreadType, Places
    <3>3. thread[t].lap < thread[t].ask.timeout
      BY <1>0, <1>4 DEF PollEmpty, Looks, Expired, ThreadType, Asks
    <3>4. Becomes(t, r)
      BY <1>4, <2>1 DEF PollEmpty
    <3>5. r.ask.timeout \in Nat
      BY <1>0, <3>2 DEF ThreadType, Asks
    <3> HIDE DEF r
    <3>6. InTime(r)
      BY <3>2, <3>3, <3>5 DEF InTime
    <3> QED BY <1>4, <3>2, <3>4, <3>6 DEF Turn, PollEmpty, Looks, Polls, Busy
  <2>2. CASE ~thread[t].ask.block
    BY <1>1, <1>4, <2>2, HomeTyped DEF PollEmpty, Looks, Polls, Busy, Places
  <2> QED BY <2>1, <2>2
<1>5. CASE PollFound(t)
  <2> DEFINE r == [thread[t] EXCEPT !.pc = "get"]
  <2>1. r \in ThreadType /\ r.pc = "get" /\ Becomes(t, r) /\ r.todo = thread[t].todo
    BY <1>0, <1>5, GoesBecomes DEF PollFound, ThreadType, Places
  <2> HIDE DEF r
  <2> QED BY <1>5, <2>1 DEF PollFound, Looks, Polls, Busy, Turn, InTime
<1>6. CASE Wake(t)
  <2>1. CASE Stopping(t)
    BY <1>1, <1>6, <2>1, HomeTyped DEF Wake, Busy, Places
  <2>2. CASE ~Stopping(t)
    <3> DEFINE r == [thread[t] EXCEPT !.pc = "poll"]
    <3>1. r \in ThreadType /\ r.pc = "poll" /\ Becomes(t, r) /\ r.ask = thread[t].ask
          /\ r.lap = thread[t].lap /\ r.todo = thread[t].todo
      BY <1>0, <1>6, <2>2, GoesBecomes DEF Wake, ThreadType, Places
    <3>2. /\ thread[t].lap < thread[t].ask.timeout + thread[t].slept
          /\ thread[t].lap \in Nat /\ thread[t].slept \in 0..Cycle /\ thread[t].ask.timeout \in Nat
      BY <1>0, <1>6 DEF Wake, InTime, ThreadType, Asks
    <3>3. thread[t].lap < thread[t].ask.timeout + Cycle
      BY <3>2, TimesAssumption
    <3> HIDE DEF r
    <3>4. InTime(r)
      BY <3>1, <3>3 DEF InTime
    <3> QED BY <1>6, <3>1, <3>4 DEF Wake, Busy, Turn
  <2> QED BY <2>1, <2>2
<1> QED BY <1>2, <1>3, <1>4, <1>5, <1>6 DEF SafeGet

LEMMA PublishTurn ==
  ASSUME TypeOK, NEW p \in Publishers, CheckStop(p) \/ Address(p) \/ Put(p) \/ Finish(p)
  PROVE  /\ UNCHANGED <<head, stopped, call>> /\ thread[p].pc # "dead"
         /\ \E r: Turn(p, r)
<1>1. CASE CheckStop(p)
  <2>1. PICK pc \in {"dead", "poll"}: Becomes(p, At(pc))
    BY <1>1 DEF CheckStop
  <2> QED BY <1>1, <2>1, AtInTime DEF CheckStop, Turn
<1>2. CASE Address(p)
  <2> DEFINE r == [thread[p] EXCEPT !.pc = "put", !.todo = To[p]]
  <2>1. r.pc = "put" /\ Becomes(p, r)
    BY <1>2 DEF Address, TypeOK, ThreadType, Threads
  <2> HIDE DEF r
  <2> QED BY <1>2, <2>1 DEF Address, Turn, InTime
<1>3. CASE Put(p)
  <2> DEFINE r == [thread[p] EXCEPT !.todo = Tail(@)]
  <2>1. r.pc = "put" /\ Becomes(p, r)
    BY <1>3 DEF Put, TypeOK, ThreadType, Threads
  <2> HIDE DEF r
  <2> QED BY <1>3, <2>1 DEF Put, Turn, InTime
<1>4. CASE Finish(p)
  BY <1>4, AtInTime DEF Finish, Turn
<1> QED BY <1>1, <1>2, <1>3, <1>4

\* get() itself.
LEMMA GetTurn ==
  ASSUME TypeOK, NEW t \in Threads, Get(t)
  PROVE  /\ UNCHANGED <<log, stopped, call>> /\ thread[t].pc # "dead" /\ ~Busy(t)
         /\ Unread(Source[t]) /\ head' = [head EXCEPT ![Source[t]] = @ + 1]
         /\ \E r: Turn(t, r) /\ r.pc # "get"
<1>1. CASE t \in Publishers
  <2> DEFINE r == [At("address") EXCEPT !.item = log[Source[t]][head[Source[t]] + 1]]
  <2>1. r.pc = "address" /\ Becomes(t, r)
    BY <1>1 DEF Get, At
  <2> HIDE DEF r
  <2> QED BY <2>1 DEF Get, Turn, InTime, Busy
<1>2. CASE t \notin Publishers
  BY <1>2, AtInTime DEF Get, Turn, Busy
<1> QED BY <1>1, <1>2

LEMMA AskTurn ==
  ASSUME NEW r \in Readers, Ask(r)
  PROVE  UNCHANGED <<log, head, stopped, call>> /\ \E s: Turn(r, s)
<1>1. PICK ask \in Asked[r]: Becomes(r, [At("poll") EXCEPT !.ask = ask])
  BY DEF Ask
<1> DEFINE s == [At("poll") EXCEPT !.ask = ask]
<1>2. s.pc = "poll" /\ s.lap = 0 /\ s.ask = ask
  BY DEF At
<1>3. ask.timeout \in Nat /\ Cycle \in Nat \ {0}
  BY TimesAssumption DEF Asks
<1> HIDE DEF s
<1>4. InTime(s)
  BY <1>2, <1>3 DEF InTime
<1> QED BY <1>1, <1>2, <1>4 DEF Ask, Turn, s

-----------------------------------------------------------------------------
(* A sole reader is never stuck, and a call is never late *)

CallInv == SoleReaderNeverStuck /\ \A t \in Threads: InTime(thread[t])

\* The turn of a thread that takes at most what it came for.
LEMMA TurnKeeps ==
  ASSUME TypeOK, CallInv, NEW t \in Threads, NEW r, Turn(t, r),
         \A q \in Queues: Len(log'[q]) >= Len(log[q]), log' \in [Queues -> Seq(Items)],
         \/ head' = head
         \/ r.pc # "get" /\ \A q \in Queues: q # Source[t] => head'[q] = head[q]
  PROVE  CallInv'
<1>1. thread'[t] = r /\ \A o \in Threads: o # t => thread'[o] = thread[o]
  BY DEF Turn, Becomes, TypeOK
<1>2. \A o \in Threads: InTime(thread[o])'
  BY <1>1 DEF CallInv, Turn, InTime
<1>3. ASSUME NEW o \in Threads, OnlyReader(o), thread'[o].pc = "get"
      PROVE  Unread(Source[o])'
  <2>1. /\ Source[o] \in Queues /\ log[Source[o]] \in Seq(Items) /\ head[Source[o]] \in Nat
        /\ log'[Source[o]] \in Seq(Items) /\ Len(log'[Source[o]]) >= Len(log[Source[o]])
    BY ThreadsAssumption DEF TypeOK
  <2>2. Unread(Source[o]) /\ head'[Source[o]] = head[Source[o]]
    <3>1. CASE o = t
      BY <1>1, <1>3, <3>1 DEF Turn
    <3>2. CASE o # t
      <4>1. thread[o].pc = "get" /\ Source[o] # Source[t]
        BY <1>1, <1>3, <3>2 DEF OnlyReader
      <4> QED BY <1>3, <2>1, <4>1 DEF CallInv, SoleReaderNeverStuck
    <3> QED BY <3>1, <3>2
  <2> QED BY <2>1, <2>2 DEF Unread
<1>4. SoleReaderNeverStuck'
  BY <1>3 DEF SoleReaderNeverStuck, OnlyReader
<1> QED BY <1>2, <1>4 DEF CallInv

\* Items are added, and the application takes those it alone reads.
LEMMA QueuesKeep ==
  ASSUME TypeOK, CallInv, thread' = thread, log' \in [Queues -> Seq(Items)],
         \A q \in Queues: Len(log'[q]) >= Len(log[q]),
         \A q \in Queues: q \notin Consumed => head'[q] = head[q]
  PROVE  CallInv'
<1>1. ASSUME NEW o \in Threads, OnlyReader(o), thread[o].pc = "get"
      PROVE  Unread(Source[o])'
  <2>1. /\ Source[o] \in Queues /\ log[Source[o]] \in Seq(Items) /\ head[Source[o]] \in Nat
        /\ log'[Source[o]] \in Seq(Items) /\ Len(log'[Source[o]]) >= Len(log[Source[o]])
    BY ThreadsAssumption DEF TypeOK
  <2>2. Unread(Source[o]) /\ head'[Source[o]] = head[Source[o]]
    BY <1>1, <2>1 DEF CallInv, SoleReaderNeverStuck, OnlyReader
  <2> QED BY <2>1, <2>2 DEF Unread
<1> QED BY <1>1 DEF CallInv, SoleReaderNeverStuck, OnlyReader, InTime

LEMMA CallInit == Init => CallInv
<1> SUFFICES ASSUME Init PROVE CallInv
  OBVIOUS
<1>1. \A t \in Threads: thread[t] = At(Home(t)) /\ Home(t) \in {"check", "away"}
  BY HomeTyped DEF Init
<1>2. \A t \in Threads: InTime(thread[t]) /\ thread[t].pc # "get"
  BY <1>1, AtInTime
<1> QED BY <1>2 DEF CallInv, SoleReaderNeverStuck

LEMMA CallNext == TypeOK /\ CallInv /\ [Next]_vars => CallInv'
<1> SUFFICES ASSUME TypeOK, CallInv, [Next]_vars PROVE CallInv'
  OBVIOUS
<1>0. /\ log \in [Queues -> Seq(Items)] /\ log' \in [Queues -> Seq(Items)]
      /\ \A q \in Queues: Len(log[q]) \in Nat
  BY TypeNext DEF TypeOK
<1>T. \A t \in Threads: InTime(thread[t])
  BY DEF CallInv
<1>1. ASSUME NEW t \in Threads, SafeGet(t) PROVE CallInv'
  <2>1. CASE Get(t)
    <3>1. head' = [head EXCEPT ![Source[t]] = @ + 1] /\ log' = log /\ \E r: Turn(t, r) /\ r.pc # "get"
      BY <2>1, GetTurn
    <3>2. \A q \in Queues: q # Source[t] => head'[q] = head[q]
      BY <3>1 DEF TypeOK
    <3> QED BY <1>0, <3>1, <3>2, TurnKeeps
  <2>2. CASE ~Get(t)
    <3>1. head' = head /\ log' = log /\ \E r: Turn(t, r)
      BY <1>1, <1>T, <2>2, SafeGetTurn
    <3> QED BY <1>0, <3>1, TurnKeeps
  <2> QED BY <2>1, <2>2
<1>2. ASSUME NEW p \in Publishers, CheckStop(p) \/ Address(p) \/ Put(p) \/ Finish(p)
      PROVE  CallInv'
  <2>1. p \in Threads /\ head' = head /\ \E r: Turn(p, r)
    BY <1>2, PublishTurn DEF Threads
  <2>2. \A q \in Queues: Len(log'[q]) >= Len(log[q])
    <3>1. CASE Put(p)
      <4>1. log' = [log EXCEPT ![Head(thread[p].todo)] = Append(@, thread[p].item)]
        BY <3>1 DEF Put
      <4> QED BY <1>0, <4>1
    <3>2. CASE log' = log
      BY <1>0, <3>2
    <3> QED BY <1>2, <3>1, <3>2 DEF CheckStop, Address, Finish
  <2> QED BY <1>0, <2>1, <2>2, TurnKeeps
<1>3. ASSUME NEW r \in Readers, Ask(r) PROVE CallInv'
  <2>1. r \in Threads /\ head' = head /\ log' = log /\ \E s: Turn(r, s)
    BY <1>3, AskTurn DEF Threads
  <2> QED BY <1>0, <2>1, TurnKeeps
<1>4. ASSUME NEW q \in Queues, Produce(q) \/ Consume(q) PROVE CallInv'
  <2>1. thread' = thread
    BY <1>4 DEF Produce, Consume
  <2>2. \A o \in Queues: Len(log'[o]) >= Len(log[o])
    BY <1>0, <1>4 DEF Produce, Consume
  <2>3. \A o \in Queues: o \notin Consumed => head'[o] = head[o]
    BY <1>4 DEF Produce, Consume, TypeOK
  <2> QED BY <1>0, <2>1, <2>2, <2>3, QueuesKeep
<1>5. CASE Begin \/ Request \/ Join \/ EndStop \/ UNCHANGED vars
  <2>1. UNCHANGED <<log, head, thread>>
    BY <1>5 DEF Begin, Request, Join, EndStop, vars
  <2> QED BY <1>0, <2>1, QueuesKeep
<1>6. CASE Start
  <2>1. UNCHANGED <<log, head>>
    BY <1>6 DEF Start
  <2>2. CASE call.rest = <<>>
    BY <1>0, <1>6, <2>1, <2>2, QueuesKeep DEF Start
  <2>3. CASE call.rest # <<>>
    <3>1. Head(call.rest) \in Threads
      BY <2>3 DEF TypeOK, Threads
    <3>2. Turn(Head(call.rest), At("check"))
      BY <1>6, <2>3, AtInTime DEF Start, Turn
    <3> QED BY <1>0, <2>1, <3>1, <3>2, TurnKeeps
  <2> QED BY <2>2, <2>3
<1>7. CASE Tick
  <2>1. ASSUME NEW t \in Threads
        PROVE  InTime(thread[t])' /\ (thread'[t].pc = "get" => thread[t].pc = "get")
    <3>1. thread[t] \in ThreadType /\ InTime(thread[t])
      BY <1>T DEF TypeOK
    <3>2. CASE thread[t].pc = "sleep"
      <4>1. thread'[t] = [thread[t] EXCEPT !.lap = @ + 1, !.slept = @ + 1]
        BY <1>7, <3>2 DEF Tick
      <4>2. /\ thread[t].lap \in Nat /\ thread[t].slept \in 0..Cycle /\ thread[t].ask.timeout \in Nat
            /\ thread'[t].pc = "sleep" /\ thread'[t].ask = thread[t].ask
            /\ thread'[t].lap = thread[t].lap + 1 /\ thread'[t].slept = thread[t].slept + 1
        BY <3>1, <3>2, <4>1 DEF ThreadType, Asks
      <4> QED BY <3>1, <3>2, <4>2, TimesAssumption DEF InTime
    <3>3. CASE thread[t].pc = "away"
      <4>1. thread'[t] = [thread[t] EXCEPT !.pc = "back"]
        BY <1>7, <3>3 DEF Tick
      <4>2. thread'[t].pc = "back"
        BY <3>1, <4>1 DEF ThreadType
      <4> QED BY <4>2 DEF InTime
    <3>4. CASE thread[t].pc \notin {"sleep", "away"}
      <4>1. thread'[t] = thread[t]
        BY <1>7, <3>4 DEF Tick
      <4> QED BY <3>1, <4>1 DEF InTime
    <3> QED BY <3>2, <3>3, <3>4
  <2>2. log' = log /\ head' = head
    BY <1>7 DEF Tick
  <2> QED BY <2>1, <2>2 DEF CallInv, SoleReaderNeverStuck, OnlyReader, Unread
<1> QED BY <1>1, <1>2, <1>3, <1>4, <1>5, <1>6, <1>7 DEF Next, Publish, Calls, Threads

LEMMA CallInvariant == Spec => [](TypeOK /\ CallInv)
  BY TypeInit, TypeNext, CallInit, CallNext, PTL DEF Spec

\* Spec => []SoleReaderNeverStuck: whatever the application does with other queues, a
\* thread that has a SimpleQueue for itself never waits in get().
THEOREM NeverStuck == Spec => []SoleReaderNeverStuck
<1>1. CallInv => SoleReaderNeverStuck
  BY DEF CallInv
<1> QED BY <1>1, CallInvariant, PTL

\* Spec => []WithinACycle: for every timeout and cycle a polling call is less than a
\* cycle late.
THEOREM NeverLate == Spec => []WithinACycle
<1>1. ASSUME TypeOK, CallInv PROVE WithinACycle
  <2> SUFFICES ASSUME NEW t \in Threads, thread[t].pc \in {"poll", "sleep"},
                      thread[t].ask.timeout > 0
               PROVE  thread[t].lap < thread[t].ask.timeout + Cycle
    BY DEF WithinACycle
  <2>1. thread[t] \in ThreadType /\ InTime(thread[t])
    BY <1>1 DEF TypeOK, CallInv
  <2>2. /\ thread[t].lap \in Nat /\ thread[t].slept \in 0..Cycle /\ thread[t].ask.timeout \in Nat
    BY <2>1 DEF ThreadType, Asks
  <2> QED BY <2>1, <2>2, TimesAssumption DEF InTime
<1> QED BY <1>1, CallInvariant, PTL

-----------------------------------------------------------------------------
(* The refinement of FanOut *)

\* While publishers are stopped one after the other, and started again, those the call
\* has dealt with are dead, and so are those it has yet to start.
IsDead(p) == thread[p].pc = "dead"
Elements(s) == {s[i]: i \in DOMAIN s}
InSeq(p, s) == \E i \in DOMAIN s: s[i] = p
Distinct(s) == \A i, j \in DOMAIN s: s[i] = s[j] => i = j
RestartInv ==
  /\ Distinct(call.rest)
  /\ call.step \in {"stop", "join"} =>
       \A p \in Publishers: InSeq(p, Order) => InSeq(p, call.rest) \/ IsDead(p)
  /\ call.step = "start" => \A p \in Publishers: InSeq(p, call.rest) => IsDead(p)

\* What a publisher still has to put: nothing twice.
TodoOK(r) == Distinct(r.todo) /\ (r.pc = "address" => r.todo = <<>>)
MapInv == RestartInv /\ \A p \in Publishers: TodoOK(thread[p])

LEMMA TailFacts ==
  ASSUME NEW S, NEW s \in Seq(S), s # <<>>, Distinct(s)
  PROVE  /\ Distinct(Tail(s)) /\ \A x: InSeq(x, s) => x = Head(s) \/ InSeq(x, Tail(s))
         /\ ~InSeq(Head(s), Tail(s)) /\ \A x: InSeq(x, Tail(s)) => InSeq(x, s)
         /\ Elements(Tail(s)) = Elements(s) \ {Head(s)} /\ Head(s) \in Elements(s)
<1>1. /\ Len(s) \in Nat \ {0} /\ DOMAIN s = 1..Len(s) /\ Head(s) = s[1]
      /\ Len(Tail(s)) = Len(s) - 1 /\ DOMAIN Tail(s) = 1..(Len(s) - 1)
      /\ \A i \in 1..(Len(s) - 1): Tail(s)[i] = s[i + 1]
  OBVIOUS
<1>2. \A i \in DOMAIN s: i = 1 \/ (i - 1 \in DOMAIN Tail(s) /\ Tail(s)[i - 1] = s[i])
  BY <1>1
<1>3. \A i \in DOMAIN Tail(s): i + 1 \in DOMAIN s /\ Tail(s)[i] = s[i + 1] /\ i + 1 # 1
  BY <1>1
<1>4. 1 \in DOMAIN s
  BY <1>1
<1>5. Distinct(Tail(s))
  BY <1>1, <1>3 DEF Distinct
<1>6. /\ \A x: InSeq(x, s) => x = Head(s) \/ InSeq(x, Tail(s))
      /\ \A x: InSeq(x, Tail(s)) => InSeq(x, s)
  BY <1>1, <1>2, <1>3 DEF InSeq
<1>7. ~InSeq(Head(s), Tail(s))
  BY <1>1, <1>3, <1>4 DEF InSeq, Distinct
<1>8. \A x: x \in Elements(s) <=> InSeq(x, s)
  BY DEF InSeq, Elements
<1>9. \A x: x \in Elements(Tail(s)) <=> InSeq(x, Tail(s))
  BY DEF InSeq, Elements
<1>10. InSeq(Head(s), s)
  BY <1>1, <1>4 DEF InSeq
<1> QED BY <1>5, <1>6, <1>7, <1>8, <1>9, <1>10

\* A thread's own step, of one that is not dead.
LEMMA TurnMapInv ==
  ASSUME TypeOK, MapInv, NEW t \in Threads, NEW r, Becomes(t, r), ~IsDead(t), call' = call,
         TodoOK(r)
  PROVE  MapInv'
<1>1. thread'[t] = r /\ \A o \in Threads: o # t => thread'[o] = thread[o]
  BY DEF Becomes, TypeOK
<1>2. \A p \in Publishers: p \in Threads /\ (IsDead(p) => IsDead(p)')
  BY <1>1 DEF IsDead, Threads
<1>3. RestartInv'
  BY <1>2 DEF MapInv, RestartInv
<1>4. \A p \in Publishers: TodoOK(thread[p])'
  BY <1>1, <1>2 DEF MapInv, TodoOK
<1> QED BY <1>3, <1>4 DEF MapInv

LEMMA EmptyTodo == ASSUME NEW r, r.todo = <<>> PROVE TodoOK(r)
  BY DEF TodoOK, Distinct

LEMMA AtTodo == \A pc: TodoOK(At(pc))
  BY EmptyTodo DEF At

LEMMA MapInit == Init => MapInv
<1> SUFFICES ASSUME Init PROVE MapInv
  OBVIOUS
<1>1. \A p \in Publishers: TodoOK(thread[p])
  BY AtTodo DEF Init, Threads
<1>2. RestartInv
  BY DEF Init, RestartInv, Distinct
<1> QED BY <1>1, <1>2 DEF MapInv

\* What the steps of a publisher beside the polling make of it.
LEMMA PublisherBecomes ==
  ASSUME TypeOK, MapInv, NEW p \in Publishers
  PROVE  /\ Get(p) =>
              /\ ~IsDead(p) /\ call' = call
              /\ \E r: /\ Becomes(p, r) /\ r.pc = "address" /\ r.todo = <<>>
                      /\ r.item = log[Source[p]][head[Source[p]] + 1]
         /\ CheckStop(p) \/ Finish(p) =>
              /\ ~IsDead(p) /\ call' = call
              /\ \E r: Becomes(p, r) /\ r.pc \notin {"address", "put"} /\ r.todo = <<>>
         /\ Address(p) =>
              /\ ~IsDead(p) /\ call' = call
              /\ \E r: /\ Becomes(p, r) /\ r.pc = "put" /\ r.todo = To[p] /\ r.item = thread[p].item
                      /\ Distinct(r.todo)
         /\ Put(p) =>
              /\ ~IsDead(p) /\ call' = call
              /\ \E r: /\ Becomes(p, r) /\ r.pc = "put" /\ r.todo = Tail(thread[p].todo)
                      /\ r.item = thread[p].item /\ Distinct(r.todo)
<1>0. thread[p] \in ThreadType /\ p \in Threads /\ Distinct(thread[p].todo)
  BY DEF TypeOK, Threads, MapInv, TodoOK
<1>1. ASSUME Get(p)
      PROVE  /\ ~IsDead(p) /\ call' = call
             /\ \E r: /\ Becomes(p, r) /\ r.pc = "address" /\ r.todo = <<>>
                     /\ r.item = log[Source[p]][head[Source[p]] + 1]
  <2> DEFINE r == [At("address") EXCEPT !.item = log[Source[p]][head[Source[p]] + 1]]
  <2>1. r.pc = "address" /\ r.todo = <<>> /\ r.item = log[Source[p]][head[Source[p]] + 1]
    BY DEF At
  <2>2. Becomes(p, r)
    BY <1>1 DEF Get
  <2> HIDE DEF r
  <2> QED BY <1>1, <2>1, <2>2 DEF Get, IsDead
<1>2. ASSUME CheckStop(p) \/ Finish(p)
      PROVE  /\ ~IsDead(p) /\ call' = call
             /\ \E r: Becomes(p, r) /\ r.pc \notin {"address", "put"} /\ r.todo = <<>>
  <2>1. PICK pc \in {"dead", "poll", "check"}: Becomes(p, At(pc))
    BY <1>2 DEF CheckStop, Finish
  <2>2. At(pc).pc = pc /\ At(pc).todo = <<>>
    BY DEF At
  <2> QED BY <1>2, <2>1, <2>2 DEF CheckStop, Finish, IsDead
<1>3. ASSUME Address(p)
      PROVE  /\ ~IsDead(p) /\ call' = call
             /\ \E r: /\ Becomes(p, r) /\ r.pc = "put" /\ r.todo = To[p] /\ r.item = thread[p].item
                     /\ Distinct(r.todo)
  <2> DEFINE r == [thread[p] EXCEPT !.pc = "put", !.todo = To[p]]
  <2>1. r.pc = "put" /\ r.todo = To[p] /\ r.item = thread[p].item /\ Distinct(r.todo)
    BY <1>0, ThreadsAssumption DEF ThreadType, Distinct
  <2>2. Becomes(p, r)
    BY <1>3 DEF Address
  <2> HIDE DEF r
  <2> QED BY <1>3, <2>1, <2>2 DEF Address, IsDead
<1>4. ASSUME Put(p)
      PROVE  /\ ~IsDead(p) /\ call' = call
             /\ \E r: /\ Becomes(p, r) /\ r.pc = "put" /\ r.todo = Tail(thread[p].todo)
                     /\ r.item = thread[p].item /\ Distinct(r.todo)
  <2> DEFINE r == [thread[p] EXCEPT !.todo = Tail(@)]
  <2>1. r.pc = "put" /\ r.todo = Tail(thread[p].todo) /\ r.item = thread[p].item
    BY <1>0, <1>4 DEF ThreadType, Put
  <2>2. Distinct(Tail(thread[p].todo))
    BY <1>0, <1>4, TailFacts DEF ThreadType, Put
  <2>3. Becomes(p, r)
    BY <1>4 DEF Put
  <2> HIDE DEF r
  <2> QED BY <1>4, <2>1, <2>2, <2>3 DEF Put, IsDead
<1> QED BY <1>1, <1>2, <1>3, <1>4

LEMMA MapCaller ==
  ASSUME TypeOK, MapInv, Begin \/ Calls
  PROVE  MapInv'
<1>0. call.rest \in Seq(Publishers) /\ Distinct(call.rest) /\ Distinct(Order)
  BY ThreadsAssumption DEF TypeOK, MapInv, RestartInv, Distinct
<1>E. Distinct(<<>>) /\ \A p: ~InSeq(p, <<>>)
  BY DEF Distinct, InSeq
<1>1. CASE Begin
  BY <1>0, <1>1 DEF Begin, MapInv, RestartInv, IsDead, TodoOK
<1>2. CASE Request
  BY <1>0, <1>2 DEF Request, GoTo, MapInv, RestartInv, IsDead, TodoOK, TypeOK
<1>3. CASE Join
  <2>1. call.rest # <<>> /\ IsDead(Head(call.rest)) /\ call.step = "join" /\ thread' = thread
    BY <1>3 DEF Join, TypeOK, IsDead
  <2>2. call'.step = "stop" /\ call'.rest = Tail(call.rest)
    BY <1>3 DEF Join, TypeOK
  <2>3. Distinct(Tail(call.rest)) /\ \A p: InSeq(p, call.rest) => p = Head(call.rest) \/ InSeq(p, Tail(call.rest))
    BY <1>0, <2>1, TailFacts
  <2> QED BY <2>1, <2>2, <2>3 DEF MapInv, RestartInv, IsDead, TodoOK
<1>4. CASE EndStop
  <2>1. call.step = "stop" /\ call.rest = <<>> /\ thread' = thread
    BY <1>4 DEF EndStop
  <2>2. \A p \in Publishers: InSeq(p, Order) => IsDead(p)
    BY <1>E, <2>1 DEF MapInv, RestartInv
  <2>3. \/ call'.step = "start" /\ call'.rest = Order
        \/ call'.step = "none" /\ call'.rest = call.rest
    BY <1>4 DEF EndStop, GoTo, TypeOK
  <2> QED BY <1>0, <2>1, <2>2, <2>3 DEF MapInv, RestartInv, IsDead, TodoOK
<1>5. CASE Start
  <2>1. CASE call.rest = <<>>
    BY <1>0, <1>5, <2>1 DEF Start, GoTo, MapInv, RestartInv, IsDead, TodoOK, TypeOK
  <2>2. CASE call.rest # <<>>
    <3>1. call.step = "start" /\ Becomes(Head(call.rest), At("check"))
      BY <1>5, <2>2 DEF Start
    <3>2. call'.step = "start" /\ call'.rest = Tail(call.rest)
      BY <1>5, <2>2 DEF Start, TypeOK
    <3>3. /\ Distinct(Tail(call.rest)) /\ ~InSeq(Head(call.rest), Tail(call.rest))
          /\ \A p: InSeq(p, Tail(call.rest)) => InSeq(p, call.rest)
      BY <1>0, <2>2, TailFacts
    <3>4. \A p \in Publishers: thread'[p] = IF p = Head(call.rest) THEN At("check") ELSE thread[p]
      BY <3>1 DEF Becomes, TypeOK, Threads
    <3>5. \A p \in Publishers: TodoOK(thread[p])'
      BY <3>4, AtTodo DEF MapInv, TodoOK
    <3>6. RestartInv'
      BY <3>1, <3>2, <3>3, <3>4 DEF MapInv, RestartInv, IsDead
    <3> QED BY <3>5, <3>6 DEF MapInv
  <2> QED BY <2>1, <2>2
<1> QED BY <1>1, <1>2, <1>3, <1>4, <1>5 DEF Calls

LEMMA MapNext == TypeOK /\ CallInv /\ MapInv /\ [Next]_vars => MapInv'
<1> SUFFICES ASSUME TypeOK, CallInv, MapInv, [Next]_vars PROVE MapInv'
  OBVIOUS
<1>0. \A p \in Publishers: p \in Threads /\ TodoOK(thread[p])
  BY DEF MapInv, Threads
<1>1. ASSUME NEW r \in Readers, SafeGet(r) \/ Ask(r) PROVE MapInv'
  <2>1. \A p \in Publishers: thread'[p] = thread[p]
    BY <1>0, <1>1, ThreadsAssumption
       DEF SafeGet, PollZero, PollEnds, PollEmpty, PollFound, Wake, Get, Ask, Becomes, Goes, TypeOK
  <2>2. call' = call
    BY <1>1 DEF SafeGet, PollZero, PollEnds, PollEmpty, PollFound, Wake, Get, Ask
  <2> QED BY <2>1, <2>2 DEF MapInv, RestartInv, IsDead, TodoOK
<1>2. ASSUME NEW p \in Publishers, SafeGet(p), ~Get(p) PROVE MapInv'
  <2>0. InTime(thread[p])
    BY <1>0 DEF CallInv
  <2>1. PICK r \in ThreadType: /\ Turn(p, r) /\ r.pc \notin {"address", "put"}
                               /\ r.todo \in {thread[p].todo, <<>>}
    BY <1>0, <1>2, <2>0, SafeGetTurn
  <2>2. call' = call /\ ~IsDead(p)
    BY <1>0, <1>2, <2>0, SafeGetTurn DEF IsDead
  <2>3. TodoOK(r)
    BY <1>0, <2>1 DEF TodoOK, Distinct
  <2> QED BY <1>0, <2>1, <2>2, <2>3, TurnMapInv DEF Turn
<1>3. ASSUME NEW p \in Publishers, Get(p) \/ CheckStop(p) \/ Finish(p) \/ Address(p) \/ Put(p)
      PROVE  MapInv'
  <2>1. PICK r: Becomes(p, r) /\ Distinct(r.todo) /\ (r.pc = "address" => r.todo = <<>>)
    BY <1>3, PublisherBecomes, EmptyTodo DEF TodoOK
  <2>2. ~IsDead(p) /\ call' = call
    BY <1>3, PublisherBecomes
  <2> QED BY <1>0, <2>1, <2>2, TurnMapInv DEF TodoOK
<1>4. CASE UNCHANGED vars
  BY <1>4 DEF vars, MapInv, RestartInv, IsDead, TodoOK
<1>5. ASSUME NEW q \in Queues, Produce(q) \/ Consume(q) PROVE MapInv'
  BY <1>5 DEF Produce, Consume, MapInv, RestartInv, IsDead, TodoOK
<1>6. CASE Tick
  <2>1. ASSUME NEW p \in Publishers
        PROVE  TodoOK(thread'[p]) /\ (IsDead(p) => IsDead(p)')
    <3>1. thread[p] \in ThreadType /\ TodoOK(thread[p])
      BY <1>0 DEF TypeOK
    <3>2. CASE thread[p].pc = "sleep"
      <4>1. thread'[p] = [thread[p] EXCEPT !.lap = @ + 1, !.slept = @ + 1]
        BY <1>0, <1>6, <3>2 DEF Tick
      <4>2. thread'[p].todo = thread[p].todo /\ thread'[p].pc = "sleep"
        BY <3>1, <3>2, <4>1 DEF ThreadType
      <4> QED BY <3>1, <3>2, <4>2 DEF TodoOK, IsDead
    <3>3. CASE thread[p].pc = "away"
      <4>1. thread'[p] = [thread[p] EXCEPT !.pc = "back"]
        BY <1>0, <1>6, <3>3 DEF Tick
      <4>2. thread'[p].todo = thread[p].todo /\ thread'[p].pc = "back"
        BY <3>1, <4>1 DEF ThreadType
      <4> QED BY <3>1, <3>3, <4>2 DEF TodoOK, IsDead
    <3>4. CASE thread[p].pc \notin {"sleep", "away"}
      <4>1. thread'[p] = thread[p]
        BY <1>0, <1>6, <3>4 DEF Tick
      <4> QED BY <3>1, <4>1 DEF IsDead
    <3> QED BY <3>2, <3>3, <3>4
  <2>2. call' = call
    BY <1>6 DEF Tick
  <2>3. RestartInv'
    BY <2>1, <2>2 DEF MapInv, RestartInv
  <2>4. \A p \in Publishers: TodoOK(thread[p])'
    BY <2>1 DEF TodoOK
  <2> QED BY <2>3, <2>4 DEF MapInv
<1>7. CASE Begin \/ Calls
  BY <1>7, MapCaller
<1> QED BY <1>1, <1>2, <1>3, <1>4, <1>5, <1>6, <1>7 DEF Next, Publish

LEMMA MapInvariant == Spec => [](TypeOK /\ CallInv /\ MapInv)
  BY TypeInit, TypeNext, CallInit, CallNext, MapInit, MapNext, PTL DEF Spec

-----------------------------------------------------------------------------
\* The publisher of a queue is its worker.
LEMMA HandsAre ==
  /\ \A p \in Publishers: Source[p] \in Queues /\ Hands[Source[p]] = Worker(thread[p])
  /\ \A p \in Publishers: Hands'[Source[p]] = Worker(thread'[p])
  /\ \A q \in Queues: (\A p \in Publishers: Source[p] # q) => Hands[q] = Resting /\ Hands'[q] = Resting
<1>1. ASSUME NEW p \in Publishers
      PROVE  Source[p] \in Queues /\ (CHOOSE o \in Publishers: Source[o] = Source[p]) = p
  BY ThreadsAssumption DEF Threads
<1>2. \A p \in Publishers: Hand(Source[p]) = Worker(thread[p])
  BY <1>1 DEF Hand
<1>3. ASSUME NEW p \in Publishers PROVE Hand(Source[p])' = Worker(thread'[p])
  <2>1. Worker(thread[p])' = Worker(thread'[p])
    BY DEF Worker, Resting
  <2>2. Hand(Source[p])' = Worker(thread[p])'
    BY <1>1 DEF Hand
  <2> QED BY <2>1, <2>2
<1>4. \A q \in Queues: (\A p \in Publishers: Source[p] # q) => Hand(q) = Resting /\ Hand(q)' = Resting
  BY DEF Hand, Resting
<1>5. Hands' = [q \in Queues |-> Hand(q)']
  BY DEF Hands
<1> QED BY <1>1, <1>2, <1>3, <1>4, <1>5 DEF Hands

\* A step that no worker notices.
LEMMA HandsKept ==
  ASSUME \A p \in Publishers: Worker(thread'[p]) = Worker(thread[p])
  PROVE  Hands' = Hands
<1>1. \A q \in Queues: Hands'[q] = Hands[q]
  BY HandsAre
<1> QED BY <1>1 DEF Hands

\* A step of one worker.
LEMMA HandsTurn ==
  ASSUME TypeOK, NEW p \in Publishers, NEW r, Becomes(p, r)
  PROVE  Hands' = [Hands EXCEPT ![Source[p]] = Worker(r)]
<1>1. thread'[p] = r /\ \A o \in Publishers: o # p => thread'[o] = thread[o] /\ Source[o] # Source[p]
  BY ThreadsAssumption DEF Becomes, TypeOK, Threads
<1>2. \A q \in Queues: Hands'[q] = IF q = Source[p] THEN Worker(r) ELSE Hands[q]
  BY <1>1, HandsAre
<1> QED BY <1>2 DEF Hands

LEMMA WorkerIs ==
  ASSUME NEW r
  PROVE  /\ r.pc \notin {"address", "put"} => Worker(r) = Abstract!Free
         /\ r.pc = "address" /\ r.todo = <<>> => Worker(r) = Abstract!Holding(r.item)
         /\ r.pc = "put" => Worker(r) = Abstract!Sending(r.item, Elements(r.todo))
<1>1. r.todo = <<>> => {r.todo[i]: i \in DOMAIN r.todo} = {}
  OBVIOUS
<1>2. r.pc \notin {"address", "put"} => Worker(r) = Abstract!Free
  BY DEF Worker, Resting, Abstract!Free
<1>3. r.pc = "address" /\ r.todo = <<>> => Worker(r) = Abstract!Holding(r.item)
  BY <1>1 DEF Worker, Abstract!Holding
<1>4. r.pc = "put" => Worker(r) = Abstract!Sending(r.item, Elements(r.todo))
  BY DEF Worker, Abstract!Sending, Elements
<1> QED BY <1>2, <1>3, <1>4

AbstractVars == <<log, head, {}, Hands>>
AbstractNext == Abstract!Next \/ AbstractVars' = AbstractVars

LEMMA MapsInit == Init => Abstract!Init
<1> SUFFICES ASSUME Init PROVE Abstract!Init
  OBVIOUS
<1>1. ASSUME NEW p \in Publishers PROVE Worker(thread[p]) = Abstract!Free
  <2>1. thread[p] = At(Home(p)) /\ Home(p) \in {"check", "away"}
    BY HomeTyped DEF Init, Threads
  <2>2. thread[p].pc \notin {"address", "put"}
    BY <2>1 DEF At
  <2> QED BY <2>2, WorkerIs
<1>2. Resting = Abstract!Free
  BY DEF Resting, Abstract!Free
<1>3. \A q \in Queues: Hands[q] = Abstract!Free
  BY <1>1, <1>2, HandsAre
<1>4. Hands = [q \in Queues |-> Abstract!Free]
  BY <1>3 DEF Hands
<1> QED BY <1>4 DEF Init, Abstract!Init

\* Nobody outside sees the polling, the clock, the stop requests or the calls.
LEMMA Unseen ==
  ASSUME \A p \in Publishers: Worker(thread'[p]) = Worker(thread[p]),
         log' = log, head' = head
  PROVE  AbstractNext
  BY HandsKept DEF AbstractNext, AbstractVars

\* A thread that is not busy remains so.
LEMMA UnseenTurn ==
  ASSUME TypeOK, NEW p \in Publishers, NEW r, Becomes(p, r), ~Busy(p),
         r.pc \notin {"address", "put"}, log' = log, head' = head
  PROVE  AbstractNext
<1>1. Worker(thread[p]) = Abstract!Free /\ Worker(r) = Abstract!Free
  BY WorkerIs DEF Busy
<1>2. \A o \in Publishers: thread'[o] = IF o = p THEN r ELSE thread[o]
  BY DEF Becomes, TypeOK, Threads
<1> QED BY <1>1, <1>2, Unseen

LEMMA MapsReader ==
  ASSUME TypeOK, CallInv, NEW r \in Readers, SafeGet(r) \/ Ask(r)
  PROVE  AbstractNext
<1>0. /\ r \in Threads /\ Source[r] \in Queues
      /\ \A p \in Publishers: thread'[p] = thread[p]
  BY ThreadsAssumption
     DEF SafeGet, PollZero, PollEnds, PollEmpty, PollFound, Wake, Get, Ask, Becomes, Goes,
         TypeOK, Threads
<1>1. CASE Get(r)
  <2>1. /\ Unread(Source[r]) /\ head' = [head EXCEPT ![Source[r]] = @ + 1] /\ log' = log
    BY <1>0, <1>1, GetTurn
  <2>2. Hands' = Hands
    BY <1>0, HandsKept
  <2>3. Abstract!Remove(Source[r])
    BY <2>1, <2>2 DEF Abstract!Remove, Abstract!Unread, Unread
  <2> QED BY <1>0, <2>3 DEF AbstractNext, Abstract!Next
<1>2. CASE ~Get(r)
  <2>1. log' = log /\ head' = head
    BY <1>2 DEF SafeGet, PollZero, PollEnds, PollEmpty, PollFound, Wake, Ask
  <2> QED BY <1>0, <2>1, Unseen
<1> QED BY <1>1, <1>2

LEMMA MapsGet ==
  ASSUME TypeOK, MapInv, NEW p \in Publishers, Get(p)
  PROVE  AbstractNext
<1> DEFINE q == Source[p]
<1>1. p \in Threads /\ q \in Queues /\ Hands[q] = Worker(thread[p])
  BY HandsAre DEF Threads
<1>2. /\ Unread(q) /\ head' = [head EXCEPT ![q] = @ + 1] /\ log' = log /\ ~Busy(p)
  BY <1>1, GetTurn
<1>3. PICK r: /\ Becomes(p, r) /\ r.pc = "address" /\ r.todo = <<>>
              /\ r.item = log[q][head[q] + 1]
  BY PublisherBecomes
<1>4. Hands[q] = Abstract!Free /\ Worker(r) = Abstract!Holding(log[q][head[q] + 1])
  BY <1>1, <1>2, <1>3, WorkerIs DEF Busy
<1>5. Hands' = [Hands EXCEPT ![q] = Abstract!Holding(log[q][head[q] + 1])]
  BY <1>3, <1>4, HandsTurn
<1>6. Abstract!Take(q)
  BY <1>2, <1>4, <1>5 DEF Abstract!Take, Abstract!Unread, Unread, Abstract!Becomes, Abstract!Free
<1> QED BY <1>1, <1>6 DEF AbstractNext, Abstract!Next

LEMMA MapsPut ==
  ASSUME TypeOK, MapInv, NEW p \in Publishers, Put(p)
  PROVE  AbstractNext
<1> DEFINE q == Source[p]
           s == thread[p].todo
           d == Head(s)
           todo == Elements(s)
<1>0. /\ q \in Queues /\ Hands[q] = Worker(thread[p]) /\ s \in Seq(Queues) /\ s # <<>>
      /\ Distinct(s) /\ thread[p].pc = "put"
  BY HandsAre DEF Threads, TypeOK, ThreadType, Put, MapInv, TodoOK
<1>T. /\ Head(s) \in Elements(s) /\ Head(s) \in Queues
      /\ Elements(Tail(s)) = Elements(s) \ {Head(s)}
  <2> HIDE DEF s
  <2>1. s \in Seq(Queues) /\ s # <<>> /\ Distinct(s)
    BY <1>0
  <2>2. Head(s) \in Queues
    BY <2>1
  <2>3. Elements(Tail(s)) = Elements(s) \ {Head(s)} /\ Head(s) \in Elements(s)
    BY <2>1, TailFacts
  <2> QED BY <2>2, <2>3
<1>1. d \in todo /\ Elements(Tail(s)) = todo \ {d} /\ d \in Queues
  BY <1>T
<1>2. PICK r: /\ Becomes(p, r) /\ r.pc = "put" /\ r.todo = Tail(s) /\ r.item = thread[p].item
  BY PublisherBecomes
<1>3. Hands[q] = Abstract!Sending(thread[p].item, todo)
  BY <1>0, WorkerIs
<1>4. Worker(r) = Abstract!Sending(thread[p].item, todo \ {d})
  <2>1. Elements(r.todo) = todo \ {d}
    BY <1>1, <1>2
  <2> HIDE DEF todo, d, s
  <2> QED BY <1>2, <2>1, WorkerIs
<1>5. Hands' = [Hands EXCEPT ![q] = Worker(r)]
  BY <1>2, HandsTurn
<1>6. /\ log' = [log EXCEPT ![d] = Append(@, thread[p].item)] /\ head' = head
      /\ Len(log[d]) - head[d] < PipeRoom[d]
  BY DEF Put, HasRoom
<1> HIDE DEF todo, d, s
<1>7. Abstract!Deliver(q, d)
  BY <1>3, <1>4, <1>5, <1>6
     DEF Abstract!Deliver, Abstract!HasRoom, Abstract!Becomes, Abstract!Sending
<1>8. d \in Hands[q].todo
  BY <1>1, <1>3 DEF Abstract!Sending
<1> QED BY <1>0, <1>7, <1>8 DEF AbstractNext, Abstract!Next

LEMMA MapsPublisher ==
  ASSUME TypeOK, CallInv, MapInv, NEW p \in Publishers, Publish(p)
  PROVE  AbstractNext
<1> DEFINE q == Source[p]
<1>0. /\ p \in Threads /\ q \in Queues /\ Hands[q] = Worker(thread[p])
      /\ thread[p] \in ThreadType /\ To[p] \in Seq(Queues)
  BY HandsAre, ThreadsAssumption DEF Threads, TypeOK
<1>1. CASE SafeGet(p) /\ ~Get(p)
  <2>1. InTime(thread[p])
    BY <1>0 DEF CallInv
  <2>2. PICK r \in ThreadType: Turn(p, r) /\ r.pc \notin {"address", "put"}
    BY <1>0, <1>1, <2>1, SafeGetTurn
  <2>3. ~Busy(p) /\ log' = log /\ head' = head
    BY <1>0, <1>1, <2>1, SafeGetTurn
  <2> QED BY <2>2, <2>3, UnseenTurn DEF Turn
<1>2. CASE Get(p)
  BY <1>2, MapsGet
<1>3. CASE CheckStop(p)
  <2>1. PICK r: Becomes(p, r) /\ r.pc \notin {"address", "put"} /\ r.todo = <<>>
    BY <1>3, PublisherBecomes
  <2> QED BY <1>3, <2>1, UnseenTurn DEF CheckStop, Busy
<1>4. CASE Address(p)
  <2> DEFINE to == Elements(To[p])
  <2>1. PICK r: Becomes(p, r) /\ r.pc = "put" /\ r.todo = To[p] /\ r.item = thread[p].item
    BY <1>4, PublisherBecomes
  <2>2. Worker(r) = Abstract!Sending(thread[p].item, to)
    BY <2>1, WorkerIs
  <2>3. Hands[q] = Abstract!Holding(thread[p].item)
    BY <1>0, <1>4, WorkerIs DEF Address, MapInv, TodoOK
  <2>4. to \in SUBSET Queues
    BY <1>0 DEF Elements
  <2>5. Hands' = [Hands EXCEPT ![q] = Worker(r)]
    BY <2>1, HandsTurn
  <2>6. log' = log /\ head' = head
    BY <1>4 DEF Address
  <2> HIDE DEF to
  <2>7. Abstract!Address(q)
    <3>1. Hands[q].stage = "taken" /\ Hands[q].item = thread[p].item
      BY <2>3 DEF Abstract!Holding
    <3>2. Abstract!Becomes(q, Abstract!Sending(Hands[q].item, to))
      BY <2>2, <2>5, <3>1 DEF Abstract!Becomes
    <3> QED BY <2>4, <2>6, <3>1, <3>2 DEF Abstract!Address
  <2> QED BY <1>0, <2>7 DEF AbstractNext, Abstract!Next
<1>5. CASE Put(p)
  BY <1>5, MapsPut
<1>6. CASE Finish(p)
  <2>1. PICK r: Becomes(p, r) /\ r.pc \notin {"address", "put"} /\ r.todo = <<>>
    BY <1>6, PublisherBecomes
  <2>2. Hands[q] = Abstract!Sending(thread[p].item, {}) /\ Worker(r) = Abstract!Free
    <3>1. thread[p].pc = "put" /\ Elements(thread[p].todo) = {}
      BY <1>6 DEF Finish, Elements
    <3>2. Worker(thread[p]) = Abstract!Sending(thread[p].item, {})
      BY <3>1, WorkerIs
    <3> QED BY <1>0, <2>1, <3>2, WorkerIs
  <2>3. Hands' = [Hands EXCEPT ![q] = Worker(r)] /\ log' = log /\ head' = head
    BY <1>6, <2>1, HandsTurn DEF Finish
  <2>4. Abstract!Finish(q)
    BY <2>2, <2>3 DEF Abstract!Finish, Abstract!Becomes, Abstract!Sending
  <2> QED BY <1>0, <2>4 DEF AbstractNext, Abstract!Next
<1> QED BY <1>1, <1>2, <1>3, <1>4, <1>5, <1>6 DEF Publish

LEMMA MapsCaller ==
  ASSUME TypeOK, MapInv, Begin \/ Calls
  PROVE  AbstractNext
<1>1. CASE thread' = thread
  BY <1>1, Unseen DEF Begin, Calls, Request, Join, EndStop, Start
<1>2. CASE Start /\ call.rest # <<>>
  <2> DEFINE p == Head(call.rest)
  <2>1. p \in Publishers /\ InSeq(p, call.rest)
    <3>1. call.rest \in Seq(Publishers)
      BY DEF TypeOK
    <3> QED BY <1>2, <3>1 DEF InSeq
  <2>2. ~Busy(p)
    BY <1>2, <2>1 DEF Start, MapInv, RestartInv, IsDead, Busy
  <2>3. Becomes(p, At("check")) /\ At("check").pc = "check" /\ log' = log /\ head' = head
    BY <1>2 DEF Start, At
  <2> QED BY <2>1, <2>2, <2>3, UnseenTurn
<1> QED BY <1>1, <1>2 DEF Begin, Calls, Request, Join, EndStop, Start

LEMMA MapsApplication ==
  ASSUME TypeOK, (\E q \in Queues: Produce(q) \/ Consume(q)) \/ Tick
  PROVE  AbstractNext
<1>1. ASSUME NEW q \in Queues, Produce(q) PROVE AbstractNext
  <2>1. Hands' = Hands
    BY <1>1, HandsKept DEF Produce
  <2>2. Abstract!Produce(q)
    BY <1>1, <2>1 DEF Produce, HasRoom, Own, Abstract!Produce, Abstract!HasRoom, Abstract!Own,
           Cardinality, Abstract!Cardinality
  <2> QED BY <2>2 DEF AbstractNext, Abstract!Next
<1>2. ASSUME NEW q \in Queues, Consume(q) PROVE AbstractNext
  <2>1. Hands' = Hands
    BY <1>2, HandsKept DEF Consume
  <2>2. Abstract!Remove(q)
    BY <1>2, <2>1 DEF Consume, Unread, Abstract!Remove, Abstract!Unread
  <2> QED BY <2>2 DEF AbstractNext, Abstract!Next
<1>3. CASE Tick
  <2>1. ASSUME NEW p \in Publishers PROVE Worker(thread'[p]) = Worker(thread[p])
    <3>0. p \in Threads /\ thread[p] \in ThreadType
      BY DEF Threads, TypeOK
    <3>1. CASE thread[p].pc \in {"sleep", "away"}
      <4>1. \/ thread'[p] = [thread[p] EXCEPT !.lap = @ + 1, !.slept = @ + 1] /\ thread[p].pc = "sleep"
            \/ thread'[p] = [thread[p] EXCEPT !.pc = "back"]
        BY <1>3, <3>0, <3>1 DEF Tick
      <4>2. thread'[p].pc \in {"sleep", "back"}
        BY <3>0, <4>1 DEF ThreadType
      <4> QED BY <3>1, <4>2, WorkerIs
    <3>2. CASE thread[p].pc \notin {"sleep", "away"}
      BY <1>3, <3>0, <3>2 DEF Tick
    <3> QED BY <3>1, <3>2
  <2> QED BY <1>3, <2>1, Unseen DEF Tick
<1> QED BY <1>1, <1>2, <1>3

LEMMA MapsNext == TypeOK /\ CallInv /\ MapInv /\ [Next]_vars => AbstractNext
<1> SUFFICES ASSUME TypeOK, CallInv, MapInv, [Next]_vars PROVE AbstractNext
  OBVIOUS
<1>1. CASE UNCHANGED vars
  BY <1>1, Unseen DEF vars
<1> QED BY <1>1, MapsReader, MapsPublisher, MapsCaller, MapsApplication DEF Next

\* Spec => ImplementsFanOut: between SimpleQueues a publisher keeps the promise of FanOut
\* without ever giving a destination up, whatever stop requests, restarts and readers of
\* its source do.
THEOREM PollingImplements == Spec => ImplementsFanOut
<1>1. TypeOK /\ CallInv /\ MapInv /\ [Next]_vars => [Abstract!Next]_Abstract!vars
  BY MapsNext DEF AbstractNext, AbstractVars, Abstract!vars
<1> QED BY <1>1, MapsInit, MapInvariant, PTL DEF Spec, ImplementsFanOut, Abstract!Spec

=============================================================================
