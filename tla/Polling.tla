------------------------------ MODULE Polling ------------------------------
(***************************************************************************)
(* A QueueLink between multiprocessing.SimpleQueues, whose get() and put() *)
(* know no timeout.  safe_get polls: it looks at its stop event, at its    *)
(* Timer and at empty(), sleeps for a cycle, and calls the blocking get()  *)
(* once it has seen an item.  The application reads and writes the same    *)
(* queues, with safe_get too, and may read the source of a publisher.      *)
(*                                                                         *)
(* Time passes in ticks, and only while every thread waits: the steps of a *)
(* thread take no time beside a cycle of 5 ms.  The application does other *)
(* things for a tick or more between two of its calls.                     *)
(***************************************************************************)
EXTENDS Integers, Sequences, FiniteSets

CONSTANTS
  Queues,
  Publishers, Readers,  \* the threads of the link and those of the application
  Source,       \* the queue each of them reads
  To,           \* the destinations of each publisher, in the order of the dict
  Order,        \* the publishers in the order of client_queues_source
  LinkTimeout,  \* link_timeout, cycle_time and the timeouts below, in ticks
  Cycle,
  Asked,        \* how each thread of the application calls safe_get
  Consumed,     \* queues the application reads with their own get()
  PipeRoom,     \* items the pipe of a queue takes
  MaxPuts,      \* bound: items the application puts on each queue
  MaxCalls,     \* bound: calls of the link that stop publishers
  NoItem

Threads == Publishers \cup Readers
Asks    == [block: BOOLEAN, timeout: Nat]
Targets(p) == {To[p][i]: i \in DOMAIN To[p]}

ASSUME ThreadsAssumption ==
  /\ Publishers \cap Readers = {}
  /\ Source \in [Threads -> Queues]
  /\ \A p, o \in Publishers: Source[p] = Source[o] => p = o
  /\ To \in [Publishers -> Seq(Queues)]
  /\ \A p \in Publishers: \A i, j \in DOMAIN To[p]: To[p][i] = To[p][j] => i = j
  /\ Order \in Seq(Publishers)
  /\ \A i, j \in DOMAIN Order: Order[i] = Order[j] => i = j
ASSUME TimesAssumption ==
  LinkTimeout \in Nat /\ Cycle \in Nat \ {0} /\ Asked \in [Readers -> SUBSET Asks]
ASSUME QueuesAssumption ==
  /\ Consumed \subseteq Queues /\ PipeRoom \in [Queues -> Nat \ {0}]
  /\ MaxPuts \in [Queues -> Nat] /\ MaxCalls \in Nat

VARIABLES
  log,       \* every item ever put on each queue, in order
  head,      \* how many of them have been taken
  thread,    \* what each thread is doing
  stopped,   \* publisher_stops
  call       \* what the caller of stop() or register_queue(TO) is doing

vars == <<log, head, thread, stopped, call>>

Unread(q)  == Len(log[q]) > head[q]
HasRoom(q) == Len(log[q]) - head[q] < PipeRoom[q]
Own(q)     == {i \in 1..Len(log[q]): log[q][i].from = q}

\* lap: ticks since safe_get made its Timer; slept: ticks of the present sleep.
At(pc) == [pc |-> pc, ask |-> [block |-> TRUE, timeout |-> LinkTimeout], lap |-> 0,
           slept |-> 0, item |-> NoItem, todo |-> <<>>]

Becomes(t, r) == thread' = [thread EXCEPT ![t] = r]
Goes(t, pc)   == thread' = [thread EXCEPT ![t].pc = pc]

-----------------------------------------------------------------------------
(* safe_get on a SimpleQueue *)

\* Where Empty takes a thread: `continue` in _publisher, back to the application.
Home(t) == IF t \in Publishers THEN "check" ELSE "away"

\* The application passes no stop event here.
Stopping(t) == t \in Publishers /\ stopped[t]

\* Mutant: an interval has to be exceeded.
ExpiredLate(t) == thread[t].lap > thread[t].ask.timeout

\* Timer.interval: the first time it is true is the last time it is asked.
Expired(t) == thread[t].lap >= thread[t].ask.timeout

Polls(t) == thread[t].pc = "poll"

\* The interval of Timer is its divisor: ZeroDivisionError ends the call, and with it
\* a publisher.
PollZero(t) ==
  /\ Polls(t) /\ ~Stopping(t) /\ thread[t].ask.timeout = 0
  /\ Becomes(t, At(IF t \in Publishers THEN "dead" ELSE "away"))
  /\ UNCHANGED <<log, head, stopped, call>>

\* Mutant: Empty ends the publisher, as EOFError does.
EmptyEnds(t) ==
  /\ Polls(t)
  /\ Stopping(t) \/ (thread[t].ask.timeout > 0 /\ Expired(t))
  /\ Becomes(t, At(IF t \in Publishers THEN "dead" ELSE Home(t)))
  /\ UNCHANGED <<log, head, stopped, call>>

PollEnds(t) ==
  /\ Polls(t)
  /\ Stopping(t) \/ (thread[t].ask.timeout > 0 /\ Expired(t))
  /\ Becomes(t, At(Home(t)))
  /\ UNCHANGED <<log, head, stopped, call>>

\* It has time left, and is not to stop.
Looks(t) == Polls(t) /\ ~Stopping(t) /\ ~Expired(t)

PollEmpty(t) ==
  /\ Looks(t) /\ ~Unread(Source[t])
  /\ Becomes(t, IF thread[t].ask.block THEN [thread[t] EXCEPT !.pc = "sleep", !.slept = 0]
                ELSE At(Home(t)))
  /\ UNCHANGED <<log, head, stopped, call>>

\* Mutant: get() without a look at empty().
PollBlindly(t) ==
  /\ Looks(t)
  /\ Goes(t, "get")
  /\ UNCHANGED <<log, head, stopped, call>>

PollFound(t) ==
  /\ Looks(t) /\ Unread(Source[t])
  /\ Goes(t, "get")
  /\ UNCHANGED <<log, head, stopped, call>>

\* wait(cycle_time) is over early when the stop event is set.
Awake(t) == thread[t].slept >= Cycle \/ Stopping(t)

Wake(t) ==
  /\ thread[t].pc = "sleep" /\ Awake(t)
  /\ IF Stopping(t) THEN Becomes(t, At(Home(t))) ELSE Goes(t, "poll")
  /\ UNCHANGED <<log, head, stopped, call>>

\* Mutant: get() takes an item that is not there.
GetNothing(t) ==
  /\ thread[t].pc = "get"
  /\ head' = [head EXCEPT ![Source[t]] = @ + 1]
  /\ Becomes(t, At(Home(t)))
  /\ UNCHANGED <<log, stopped, call>>

\* get() waits for as long as it takes, whatever the stop event and the Timer say.
Get(t) ==
  LET q == Source[t] IN
    /\ thread[t].pc = "get" /\ Unread(q)
    /\ head' = [head EXCEPT ![q] = @ + 1]
    /\ Becomes(t, IF t \in Publishers
                  THEN [At("address") EXCEPT !.item = log[q][head[q] + 1]]
                  ELSE At("away"))
    /\ UNCHANGED <<log, stopped, call>>

SafeGet(t) ==
  PollZero(t) \/ PollEnds(t) \/ PollEmpty(t) \/ PollFound(t) \/ Wake(t) \/ Get(t)

-----------------------------------------------------------------------------
(* The publisher: its loop, and put() on a SimpleQueue *)

\* Mutant: the stop event is left to safe_get.
CheckNothing(p) ==
  /\ thread[p].pc = "check"
  /\ Becomes(p, At("poll"))
  /\ UNCHANGED <<log, head, stopped, call>>

CheckStop(p) ==
  /\ thread[p].pc = "check"
  /\ Becomes(p, At(IF stopped[p] THEN "dead" ELSE "poll"))
  /\ UNCHANGED <<log, head, stopped, call>>

\* _fan_out's list of the destinations.
Address(p) ==
  /\ thread[p].pc = "address"
  /\ Becomes(p, [thread[p] EXCEPT !.pc = "put", !.todo = To[p]])
  /\ UNCHANGED <<log, head, stopped, call>>

\* Mutant: a stop request ends a put that has to wait, as with the other queues.
PutOrGiveUp(p) ==
  /\ thread[p].pc = "put" /\ thread[p].todo # <<>>
  /\ LET d == Head(thread[p].todo) IN
       \/ HasRoom(d) /\ log' = [log EXCEPT ![d] = Append(@, thread[p].item)]
       \/ ~HasRoom(d) /\ stopped[p] /\ UNCHANGED log
  /\ Becomes(p, [thread[p] EXCEPT !.todo = Tail(@)])
  /\ UNCHANGED <<head, stopped, call>>

\* A full pipe makes put() wait; it has no timeout and does not look at the stop event.
Put(p) ==
  /\ thread[p].pc = "put" /\ thread[p].todo # <<>>
  /\ LET d == Head(thread[p].todo) IN
       HasRoom(d) /\ log' = [log EXCEPT ![d] = Append(@, thread[p].item)]
  /\ Becomes(p, [thread[p] EXCEPT !.todo = Tail(@)])
  /\ UNCHANGED <<head, stopped, call>>

Finish(p) ==
  /\ thread[p].pc = "put" /\ thread[p].todo = <<>>
  /\ Becomes(p, At("check"))
  /\ UNCHANGED <<log, head, stopped, call>>

Publish(p) == CheckStop(p) \/ Address(p) \/ Put(p) \/ Finish(p) \/ SafeGet(p)

-----------------------------------------------------------------------------
(* stop(), and register_queue(TO), which starts the publishers again *)

GoTo(step) == [call EXCEPT !.step = step]

Begin ==
  /\ call.step = "none" /\ call.made < MaxCalls
  /\ \E again \in BOOLEAN:
       call' = [step |-> "stop", rest |-> Order, again |-> again, made |-> call.made + 1]
  /\ UNCHANGED <<log, head, thread, stopped>>

\* _stop_publishers: one publisher after the other.
Request ==
  /\ call.step = "stop" /\ call.rest # <<>>
  /\ stopped' = [stopped EXCEPT ![Head(call.rest)] = TRUE]
  /\ call' = GoTo("join")
  /\ UNCHANGED <<log, head, thread>>

\* join in a loop, and clear.
Join ==
  /\ call.step = "join" /\ thread[Head(call.rest)].pc = "dead"
  /\ stopped' = [stopped EXCEPT ![Head(call.rest)] = FALSE]
  /\ call' = [call EXCEPT !.step = "stop", !.rest = Tail(@)]
  /\ UNCHANGED <<log, head, thread>>

EndStop ==
  /\ call.step = "stop" /\ call.rest = <<>>
  /\ call' = IF call.again THEN [call EXCEPT !.step = "start", !.rest = Order] ELSE GoTo("none")
  /\ UNCHANGED <<log, head, thread, stopped>>

Start ==
  /\ call.step = "start"
  /\ IF call.rest = <<>>
     THEN call' = GoTo("none") /\ UNCHANGED thread
     ELSE Becomes(Head(call.rest), At("check")) /\ call' = [call EXCEPT !.rest = Tail(@)]
  /\ UNCHANGED <<log, head, stopped>>

Calls == Request \/ Join \/ EndStop \/ Start

-----------------------------------------------------------------------------
(* The application, and time *)

Produce(q) ==
  LET item == [from |-> q, n |-> Cardinality(Own(q)) + 1] IN
    /\ item.n <= MaxPuts[q] /\ HasRoom(q)
    /\ log' = [log EXCEPT ![q] = Append(@, item)]
    /\ UNCHANGED <<head, thread, stopped, call>>

Consume(q) ==
  /\ q \in Consumed /\ Unread(q)
  /\ head' = [head EXCEPT ![q] = @ + 1]
  /\ UNCHANGED <<log, thread, stopped, call>>

Ask(r) ==
  /\ thread[r].pc = "back"
  /\ \E ask \in Asked[r]: Becomes(r, [At("poll") EXCEPT !.ask = ask])
  /\ UNCHANGED <<log, head, stopped, call>>

\* What need not wait for time to pass, for an item or for room.
Runnable(t) ==
  \/ thread[t].pc \in {"check", "poll", "address"}
  \/ thread[t].pc = "sleep" /\ Awake(t)
  \/ thread[t].pc = "get" /\ Unread(Source[t])
  \/ thread[t].pc = "put" /\ (thread[t].todo = <<>> \/ HasRoom(Head(thread[t].todo)))
CallerRunnable ==
  \/ call.step \in {"stop", "start"}
  \/ call.step = "join" /\ thread[Head(call.rest)].pc = "dead"

Tick ==
  /\ ~CallerRunnable /\ \A t \in Threads: ~Runnable(t)
  /\ thread' = [t \in Threads |->
       CASE thread[t].pc = "sleep" -> [thread[t] EXCEPT !.lap = @ + 1, !.slept = @ + 1]
         [] thread[t].pc = "away"  -> [thread[t] EXCEPT !.pc = "back"]
         [] OTHER -> thread[t]]
  /\ UNCHANGED <<log, head, stopped, call>>

-----------------------------------------------------------------------------
Init ==
  /\ log = [q \in Queues |-> <<>>]
  /\ head = [q \in Queues |-> 0]
  /\ thread = [t \in Threads |-> At(Home(t))]
  /\ stopped = [p \in Publishers |-> FALSE]
  /\ call = [step |-> "none", rest |-> <<>>, again |-> TRUE, made |-> 0]

Next ==
  \/ \E p \in Publishers: Publish(p)
  \/ \E r \in Readers: Ask(r) \/ SafeGet(r)
  \/ \E q \in Queues: Produce(q) \/ Consume(q)
  \/ Begin \/ Calls \/ Tick

Spec == Init /\ [][Next]_vars

\* Every thread is scheduled, the application goes on reading, and time does not stop
\* while all of them wait.
Fairness ==
  /\ \A p \in Publishers: WF_vars(Publish(p))
  /\ \A r \in Readers: WF_vars(Ask(r) \/ SafeGet(r))
  /\ \A q \in Consumed: WF_vars(Consume(q))
  /\ WF_vars(Calls)
  /\ WF_vars(Tick)

-----------------------------------------------------------------------------
(* Properties *)

Items == [from: Queues, n: Nat \ {0}]
Places == {"away", "back", "dead", "check", "poll", "sleep", "get", "address", "put"}

ThreadType == [pc: Places, ask: Asks, lap: Nat, slept: 0..Cycle,
               item: Items \cup {NoItem}, todo: Seq(Queues)]
Busy(t) == thread[t].pc \in {"address", "put"}

\* The type of every variable.
TypeOK ==
  /\ log \in [Queues -> Seq(Items)]
  /\ head \in [Queues -> Nat] /\ \A q \in Queues: head[q] <= Len(log[q])
  /\ thread \in [Threads -> ThreadType]
  /\ \A t \in Threads: Busy(t) => t \in Publishers /\ thread[t].item \in Items
  /\ stopped \in [Publishers -> BOOLEAN]
  /\ call \in [step: {"none", "stop", "join", "start"}, rest: Seq(Publishers),
               again: BOOLEAN, made: 0..MaxCalls]
  /\ call.step = "join" => call.rest # <<>>

OnlyReader(t) ==
  Source[t] \notin Consumed /\ \A o \in Threads: Source[o] = Source[t] => o = t

\* safe_get: "Can deadlock if a SimpleQueue is read by multiple consumers." With one
\* consumer the item empty() has shown is still there when get() is called.
SoleReaderNeverStuck ==
  \A t \in Threads: OnlyReader(t) /\ thread[t].pc = "get" => Unread(Source[t])

\* safe_get: "if block is True, raise Empty after this duration". While it polls, the
\* call is less than a cycle late (and a stop event ends it at once: see StopReturns).
WithinACycle ==
  \A t \in Threads: thread[t].pc \in {"poll", "sleep"} /\ thread[t].ask.timeout > 0 =>
    thread[t].lap < thread[t].ask.timeout + Cycle

\* The worker of a queue in FanOut is the publisher that reads it.
Resting == [stage |-> "free", item |-> NoItem, todo |-> {}, full |-> {}]
Worker(r) ==
  IF r.pc \in {"address", "put"}
  THEN [stage |-> IF r.pc = "put" THEN "sent" ELSE "taken",
        item |-> r.item, todo |-> {r.todo[i]: i \in DOMAIN r.todo}, full |-> {}]
  ELSE Resting
Hand(q) ==
  IF \E p \in Publishers: Source[p] = q
  THEN Worker(thread[CHOOSE p \in Publishers: Source[p] = q]) ELSE Resting
Hands == [q \in Queues |-> Hand(q)]

Abstract == INSTANCE FanOut WITH Capacity <- PipeRoom, broken <- {}, hand <- Hands

\* The publishers of SimpleQueues implement FanOut without ever finding a queue full:
\* what one has taken it puts once on every destination, and no stop request makes it
\* leave one out, as it does with the other queues.
ImplementsFanOut == Abstract!Spec

\* Nobody else reads its source, and its destinations are read.
Unhindered(p) ==
  OnlyReader(p) /\ Targets(p) \subseteq Consumed

\* README.rst: stop() "can hang forever" if a SimpleQueue destination is never read. It
\* waits for no other publisher for ever.
StopReturns ==
  \A p \in Publishers: Unhindered(p) => (stopped[p] ~> ~stopped[p])

\* stop() was the last call.
Off == call.step = "none" /\ ~call.again

Arrived(p, n) ==
  \A d \in Targets(p): \E i \in DOMAIN log[d]: log[d][i] = log[Source[p]][n]

\* The call waits for a publisher that may be stuck.
Held == call.step = "join" /\ ~Unhindered(Head(call.rest))

\* An item on the source of such a publisher reaches all its destinations, across
\* timeouts and restarts, unless stop() was called before it was taken, or a restart
\* waits for ever for another publisher, with this one already stopped.
EventuallyForwarded ==
  LinkTimeout > 0 /\ []<>~Held =>
    \A p \in Publishers: Unhindered(p) =>
      \A n \in 1..MaxPuts[Source[p]]:
        n <= Len(log[Source[p]]) ~> \/ n <= Len(log[Source[p]]) /\ Arrived(p, n)
                                    \/ Off /\ n > head[Source[p]]

=============================================================================
