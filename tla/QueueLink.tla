------------------------------ MODULE QueueLink ------------------------------
(***************************************************************************)
(* queuelink.QueueLink: the registry of source and destination queues, the *)
(* calls application threads make on it, and the publishers that move      *)
(* items from every source to all destinations.                            *)
(*                                                                         *)
(* A step is what runs without another thread being able to see its middle *)
(* matter: register_queue and unregister_queue hold queues_lock, but stop  *)
(* does not, so every step of theirs that stop can meet is an action.      *)
(***************************************************************************)
EXTENDS Integers, Sequences, FiniteSets

CONSTANTS
  Queues,      \* queue objects the application owns
  NoQueue,     \* the q field of a call that takes no queue
  Callers,     \* application threads that call the link
  Nobody,      \* the holder of a free lock
  Program,     \* Program[c][k]: the calls c may make as its k-th call
  Capacity,    \* maxsize of each queue; 0 is unbounded, as in queue.Queue
  Threaded,    \* thread publishers (live dicts) or process publishers (copies)
  MaxPuts,     \* bound: items the application puts on each queue
  Consumed,    \* queues the application reads
  Breakable    \* queues whose manager may go away

Directions == {"source", "destination"}

\* A call of the public interface. q is used by register, id and dir by the
\* others; the fields a call does not take have the values of stop's record.
Call == [op: {"register", "unregister", "stop", "is_drained", "audit"},
         dir: Directions, q: Queues \cup {NoQueue}, id: Nat]

ASSUME NamesAssumption == NoQueue \notin Queues /\ Nobody \notin Callers
ASSUME ProgramAssumption == Program \in [Callers -> Seq(SUBSET Call)]
ASSUME RegisterAssumption ==
  \A c \in Callers: \A k \in DOMAIN Program[c]: \A call \in Program[c][k]:
    call.op = "register" => call.q \in Queues
ASSUME QueuesAssumption ==
  /\ Capacity \in [Queues -> Nat]
  /\ MaxPuts \in [Queues -> Nat]
  /\ Consumed \subseteq Queues
  /\ Breakable \subseteq Queues
ASSUME ThreadedAssumption == Threaded \in BOOLEAN

VARIABLES
  lock,          \* queues_lock: its holder
  queueOf,       \* the queue each id was given to; its length is last_queue_id
  sources,       \* keys of client_queues_source, whose iteration order is id order
  destinations,  \* keys of client_queues_destination
  hasStop,       \* keys of publisher_stops
  stopSet,       \* ids whose stop event is set
  pubOf,         \* client_pair_publishers: the publisher of each id, 0 for none
  started,       \* the started event
  procs,         \* every publisher ever started, in the order of their start()
  local,         \* what each application thread is doing
  log,           \* every item ever put on each queue, in order
  head,          \* how many of them have been taken
  done,          \* task_done() calls a publisher has made on each queue
  broken,        \* queues whose manager has gone away
  owed,          \* history: deliveries register_queue's docstring promises
  lost           \* history: promised deliveries given up, and why

registry   == <<queueOf, sources, destinations, hasStop, pubOf, started>>
queueVars  == <<log, head, done, broken>>
history    == <<owed, lost>>
callerVars == <<lock, local>>
vars == <<registry, stopSet, procs, queueVars, history, callerVars>>

-----------------------------------------------------------------------------
(* Data *)

Ids   == 1..Len(queueOf)
Items == [from: Queues, n: Nat \ {0}]
Owed  == [item: Items, dest: Nat]

\* The item of a publisher that holds none, and the loop of a thread in none.
NoItem == [from |-> NoQueue, n |-> 0]
NoLoop == [last |-> 0, left |-> 0, size |-> 0]

\* Ids are given out in increasing order, so dicts iterate from the least.
IsLeast(i, S) == i \in S /\ \A j \in S: i <= j

Unread(q)  == Len(log[q]) > head[q]
HasRoom(q) == Capacity[q] = 0 \/ Len(log[q]) - head[q] < Capacity[q]

Alive(p)      == procs[p].pc # "dead"
Running(p)    == p # 0 /\ Alive(p)  \* of a client_pair_publishers entry
Registered(q) == \E i \in sources \cup destinations: queueOf[i] = q

\* An iterator over client_queues_source: the key it is at, the keys it still
\* expects and the size the dict had. Dicts never reuse a key here.
LoopOver(S)     == [last |-> 0, left |-> Cardinality(S), size |-> Cardinality(S)]
Ahead(loop)     == {i \in sources: i > loop.last}
Disturbed(loop) == \/ Cardinality(sources) # loop.size
                   \/ Ahead(loop) # {} /\ loop.left = 0

InCall(c) == local[c].pc # "idle"

\* register_queue has returned for destination d.
Established(d) ==
  /\ d \in destinations
  /\ \A c \in Callers: InCall(c) /\ local[c].call.op = "register" => local[c].new # d

-----------------------------------------------------------------------------
(* Beginning and ending a call *)

NoCall == [op |-> "stop", dir |-> "source", q |-> NoQueue, id |-> 0]

Idle(made, call, result) ==
  [pc |-> "idle", made |-> made, call |-> call, new |-> 0, cur |-> 0,
   loop |-> NoLoop, proc |-> 0, look |-> {}, result |-> result]

\* c makes `call` next and goes to step pc of it.
Enter(c, call, pc) ==
  [Idle(local[c].made + 1, call, "none") EXCEPT !.pc = pc]

\* c's state becomes r: within a call, on taking the lock, and on leaving
\* `with self.queues_lock` by return or by an exception.
Becomes(c, r) == local' = [local EXCEPT ![c] = r]
Continue(c, r) == Becomes(c, r) /\ UNCHANGED lock
Acquire(c, r) == Becomes(c, r) /\ lock = Nobody /\ lock' = c
Return(c, result) ==
  /\ Becomes(c, Idle(local[c].made, local[c].call, result))
  /\ lock' = IF lock = c THEN Nobody ELSE lock

\* A call that is over as soon as it has begun.
Refuse(c, call, result) == Continue(c, Idle(local[c].made + 1, call, result))

Goto(c, pc) == Continue(c, [local[c] EXCEPT !.pc = pc])

\* The calls c may make now, if it is in none.
CallsOf(c) ==
  IF local[c].pc = "idle" /\ local[c].made < Len(Program[c])
    THEN Program[c][local[c].made + 1]
    ELSE {}

\* register_queue up to the insertion in the dict: the lock, the two checks, the id.
Register(c, call) ==
  /\ call.op = "register" /\ lock = Nobody
  /\ \/ /\ Registered(call.q)
        /\ Refuse(c, call, "ValueError")
        /\ UNCHANGED <<queueOf, sources, destinations, pubOf>>
     \/ /\ ~Registered(call.q)
        /\ LET id == Len(queueOf) + 1 IN
             /\ queueOf' = Append(queueOf, call.q)
             /\ pubOf' = Append(pubOf, 0)
             /\ \/ /\ call.dir = "source"
                   /\ sources' = sources \cup {id}
                   /\ Acquire(c, [Enter(c, call, "event") EXCEPT !.new = id, !.cur = id])
                   /\ UNCHANGED destinations
                \/ /\ call.dir = "destination"
                   /\ destinations' = destinations \cup {id}
                   /\ Acquire(c, [Enter(c, call, "next") EXCEPT !.new = id,
                                                               !.loop = LoopOver(sources)])
                   /\ UNCHANGED sources
  /\ UNCHANGED <<hasStop, stopSet, started, procs, queueVars, history>>

\* Mutant: the publishers are started again without being stopped.
UnregisterNoStop(c, call) ==
  /\ call.op = "unregister" /\ lock = Nobody
  /\ sources' = IF call.dir = "source" THEN sources \ {call.id} ELSE sources
  /\ destinations' = IF call.dir = "destination" THEN destinations \ {call.id} ELSE destinations
  /\ owed' = {o \in owed: call.dir = "source" \/ o.dest # call.id}
  /\ Acquire(c, [Enter(c, call, "restart") EXCEPT !.loop = LoopOver(sources)])
  /\ UNCHANGED <<queueOf, hasStop, stopSet, pubOf, started, procs, queueVars, lost>>

\* unregister_queue up to the pop from the dict.
Unregister(c, call) ==
  /\ call.op = "unregister" /\ lock = Nobody
  /\ \/ /\ call.dir = "source"
        /\ sources' = sources \ {call.id}
        /\ \/ /\ call.id \in hasStop
              /\ Acquire(c, [Enter(c, call, "set") EXCEPT !.cur = call.id])
           \/ /\ call.id \notin hasStop
              /\ Refuse(c, call, "ok")
        /\ UNCHANGED <<destinations, owed>>
     \/ /\ call.dir = "destination"
        /\ destinations' = destinations \ {call.id}
        /\ owed' = {o \in owed: o.dest # call.id}
        /\ Acquire(c, [Enter(c, call, "next") EXCEPT !.loop = LoopOver(sources)])
        /\ UNCHANGED sources
  /\ UNCHANGED <<queueOf, hasStop, stopSet, pubOf, started, procs, queueVars, lost>>

\* stop takes no lock: it starts the loop of _stop_publishers at once.
Stop(c, call) ==
  /\ call.op = "stop"
  /\ Continue(c, [Enter(c, call, "next") EXCEPT !.loop = LoopOver(sources)])
  /\ UNCHANGED <<registry, stopSet, procs, queueVars, history>>

-----------------------------------------------------------------------------
(* _stop_publishers and _stop_publisher *)

\* One turn of `for source_id in self.client_queues_source`: an exception if the
\* dict changed under the iterator, the next id, or the end of the loop.
Advance(c, body) ==
  LET loop == local[c].loop IN
    /\ ~Disturbed(loop)
    /\ \E id \in sources:
         /\ IsLeast(id, Ahead(loop))
         /\ Continue(c, [local[c] EXCEPT !.pc = body, !.cur = id,
                           !.loop = [loop EXCEPT !.last = id, !.left = @ - 1]])

Exhausted(c) == ~Disturbed(local[c].loop) /\ Ahead(local[c].loop) = {}

NextToStop(c) ==
  /\ local[c].pc = "next"
  /\ \/ Disturbed(local[c].loop) /\ Return(c, "RuntimeError")
     \/ Advance(c, "set")
     \/ /\ Exhausted(c)
        /\ \/ local[c].call.op = "stop" /\ Return(c, "ok")
           \/ /\ local[c].call.op # "stop"
              /\ Continue(c, [local[c] EXCEPT !.pc = "restart", !.loop = LoopOver(sources)])
  /\ UNCHANGED <<registry, stopSet, procs, queueVars, history>>

SetStop(c) ==
  /\ local[c].pc = "set"
  /\ \/ /\ local[c].cur \notin hasStop
        /\ Return(c, "KeyError")
        /\ UNCHANGED stopSet
     \/ /\ local[c].cur \in hasStop
        /\ stopSet' = stopSet \cup {local[c].cur}
        /\ Goto(c, "fetch")
  /\ UNCHANGED <<registry, procs, queueVars, history>>

\* proc_old; with no entry in the dict, KeyError skips the wait.
FetchPublisher(c) ==
  /\ local[c].pc = "fetch"
  /\ LET p == pubOf[local[c].cur] IN
       Continue(c, [local[c] EXCEPT !.proc = p, !.pc = IF p = 0 THEN "clear" ELSE "join"])
  /\ UNCHANGED <<registry, stopSet, procs, queueVars, history>>

\* Mutant: one join(timeout=1) and no loop around it.
JoinOnce(c) ==
  /\ local[c].pc = "join"
  /\ Goto(c, "clear")
  /\ UNCHANGED <<registry, stopSet, procs, queueVars, history>>

\* The join(timeout=1) loop ends when the publisher is no longer alive.
JoinPublisher(c) ==
  /\ local[c].pc = "join"
  /\ ~Alive(local[c].proc)
  /\ Goto(c, "clear")
  /\ UNCHANGED <<registry, stopSet, procs, queueVars, history>>

ForgetsSource(call) == call.op = "unregister" /\ call.dir = "source"

\* Mutant: the event is left set.
KeepStop(c) ==
  /\ local[c].pc = "clear"
  /\ Goto(c, IF ForgetsSource(local[c].call) THEN "forget" ELSE "next")
  /\ UNCHANGED <<registry, stopSet, procs, queueVars, history>>

ClearStop(c) ==
  /\ local[c].pc = "clear"
  /\ stopSet' = stopSet \ {local[c].cur}
  /\ Goto(c, IF ForgetsSource(local[c].call) THEN "forget" ELSE "next")
  /\ UNCHANGED <<registry, procs, queueVars, history>>

\* unregister_queue(FROM): publisher_stops.pop, but not client_pair_publishers.
ForgetStop(c) ==
  /\ local[c].pc = "forget"
  /\ hasStop' = hasStop \ {local[c].cur}
  /\ Return(c, "ok")
  /\ UNCHANGED <<queueOf, sources, destinations, pubOf, started, stopSet, procs,
                 queueVars, history>>

-----------------------------------------------------------------------------
(* _start_publisher and the restart loops *)

\* register_queue(FROM): a stop event of the source's own.
CreateStop(c) ==
  /\ local[c].pc = "event"
  /\ hasStop' = hasStop \cup {local[c].cur}
  /\ Goto(c, "start")
  /\ UNCHANGED <<queueOf, sources, destinations, pubOf, started, stopSet, procs,
                 queueVars, history>>

\* Mutant: only the first source is restarted.
StartFirstOnly(c) ==
  /\ local[c].pc = "restart"
  /\ \/ local[c].loop.last = 0 /\ Advance(c, "start")
     \/ (local[c].loop.last # 0 \/ Exhausted(c)) /\ Return(c, "ok")
  /\ UNCHANGED <<registry, stopSet, procs, queueVars, history>>

NextToStart(c) ==
  /\ local[c].pc = "restart"
  /\ \/ Disturbed(local[c].loop) /\ Return(c, "RuntimeError")
     \/ Advance(c, "start")
     \/ Exhausted(c) /\ Return(c, "ok")
  /\ UNCHANGED <<registry, stopSet, procs, queueVars, history>>

RegistersSource(call) == call.op = "register" /\ call.dir = "source"

AfterStart(c) ==
  IF RegistersSource(local[c].call) THEN Return(c, "ok") ELSE Goto(c, "restart")

\* A publisher that has not yet run. A process gets a copy of the destinations.
NewPublisher(id) ==
  [src |-> id, pc |-> "check", item |-> NoItem, todo |-> {}, undelivered |-> {},
   copy |-> IF Threaded THEN {} ELSE destinations]

StartPublisher(c) ==
  /\ local[c].pc = "start"
  /\ LET id == local[c].cur
         old == pubOf[id]
     IN \/ /\ id \notin hasStop
           /\ Return(c, "KeyError")
           /\ UNCHANGED <<procs, started>>
        \/ /\ id \in hasStop
           /\ Running(old)
           /\ Return(c, "ValueError: running")
           /\ UNCHANGED <<procs, started>>
        \/ /\ id \in hasStop
           /\ ~Running(old)
           /\ destinations = {}
           /\ AfterStart(c)
           /\ UNCHANGED <<procs, started>>
        \/ /\ id \in hasStop
           /\ ~Running(old)
           /\ destinations # {}
           /\ procs' = Append(procs, NewPublisher(id))
           /\ started' = TRUE
           /\ Continue(c, [local[c] EXCEPT !.pc = "store", !.proc = Len(procs) + 1])
  /\ UNCHANGED <<queueOf, sources, destinations, hasStop, pubOf, stopSet, queueVars, history>>

\* The publisher runs before client_pair_publishers knows it.
StorePublisher(c) ==
  /\ local[c].pc = "store"
  /\ pubOf' = [pubOf EXCEPT ![local[c].cur] = local[c].proc]
  /\ AfterStart(c)
  /\ UNCHANGED <<queueOf, sources, destinations, hasStop, started, stopSet, procs,
                 queueVars, history>>

-----------------------------------------------------------------------------
(* is_drained (with is_empty) and destructive_audit *)

\* is_drained: False before the first start; is_empty then takes the lock and
\* reads the queues one after another, upstream first for a destination.
IsDrained(c, call) ==
  /\ call.op = "is_drained"
  /\ \/ ~started /\ Refuse(c, call, "False")
     \/ /\ started /\ lock = Nobody
        /\ call.id # 0 => call.id \in sources \cup destinations
        /\ Acquire(c, [Enter(c, call, "look") EXCEPT !.result = "True",
             !.look = IF call.id = 0 THEN sources \cup destinations
                      ELSE IF call.id \in destinations THEN sources \cup {call.id}
                      ELSE {call.id}])
     \/ /\ started /\ lock = Nobody
        /\ call.id # 0 /\ call.id \notin sources \cup destinations
        /\ Refuse(c, call, "KeyError")
  /\ UNCHANGED <<registry, stopSet, procs, queueVars, history>>

NextToLookAt(look) ==
  IF look \cap sources # {} THEN look \cap sources ELSE look

\* Asked about the whole link (id 0), it looks no further than the first unread queue.
LookAtQueue(c) ==
  /\ local[c].pc = "look"
  /\ LET look == local[c].look
         decided == look = {} \/ (local[c].call.id = 0 /\ local[c].result = "False")
     IN \/ decided /\ Return(c, local[c].result)
        \/ /\ ~decided
           /\ \E id \in look:
                /\ IsLeast(id, NextToLookAt(look))
                /\ \/ queueOf[id] \in broken /\ Return(c, "BrokenPipeError")
                   \/ /\ queueOf[id] \notin broken
                      /\ Continue(c, [local[c] EXCEPT !.look = @ \ {id},
                                        !.result = IF Unread(queueOf[id]) THEN "False" ELSE @])
  /\ UNCHANGED <<registry, stopSet, procs, queueVars, history>>

Audit(c, call) ==
  /\ call.op = "audit"
  /\ Acquire(c, [Enter(c, call, "audit") EXCEPT
       !.look = IF call.dir = "source" THEN sources ELSE destinations])
  /\ UNCHANGED <<registry, stopSet, procs, queueVars, history>>

\* The deliveries promised for an item, given up for the reason why.
GiveUp(item, dests, why) ==
  {[item |-> item, dest |-> d, why |-> why]:
     d \in {i \in dests: [item |-> item, dest |-> i] \in owed}}

\* safe_get(block=False) on the next queue: an item is removed and only logged. Taken
\* from the queue the application put it on, it never reaches the destinations. Without a
\* timeout Empty may also mean that another reader holds the read lock of the queue.
AuditQueue(c) ==
  /\ local[c].pc = "audit"
  /\ \/ local[c].look = {} /\ Return(c, "ok") /\ UNCHANGED <<head, lost>>
     \/ \E id \in local[c].look:
          LET q == queueOf[id] IN
            /\ IsLeast(id, local[c].look)
            /\ Continue(c, [local[c] EXCEPT !.look = @ \ {id}])
            /\ \/ /\ Unread(q) /\ q \notin broken
                  /\ head' = [head EXCEPT ![q] = @ + 1]
                  /\ LET item == log[q][head[q] + 1] IN
                       lost' = lost \cup GiveUp(item, {d \in destinations: item.from = q}, "audit")
               \/ UNCHANGED <<head, lost>>
  /\ UNCHANGED <<registry, stopSet, procs, log, done, broken, owed>>

-----------------------------------------------------------------------------
(* Publishers *)

Source(p) == queueOf[procs[p].src]
At(p, pc) == procs[p].pc = pc
Turns(p, r) == procs' = [procs EXCEPT ![p] = r]
Move(p, pc) == Turns(p, [procs[p] EXCEPT !.pc = pc])

\* A publisher that has returned holds nothing (its locals are gone).
Exit(p) == Turns(p, [procs[p] EXCEPT !.pc = "dead", !.item = NoItem, !.todo = {},
                                       !.undelivered = {}])

\* `if stop_event.is_set()` at the top of the loop.
CheckStop(p) ==
  /\ At(p, "check")
  /\ \/ procs[p].src \in stopSet /\ Exit(p)
     \/ procs[p].src \notin stopSet /\ Move(p, "get")
  /\ UNCHANGED <<registry, stopSet, queueVars, history, callerVars>>

\* safe_get: an item, or Empty after the timeout or from a broken source.
GetItem(p) ==
  /\ At(p, "get")
  /\ LET q == Source(p) IN
       /\ Unread(q) /\ q \notin broken
       /\ head' = [head EXCEPT ![q] = @ + 1]
       /\ Turns(p, [procs[p] EXCEPT !.pc = "snapshot", !.item = log[q][head[q] + 1]])
  /\ UNCHANGED <<registry, stopSet, log, done, broken, history, callerVars>>

\* Mutant: safe_get returns None where it should raise Empty.
GetNone(p) ==
  /\ At(p, "get")
  /\ ~Unread(Source(p)) \/ Source(p) \in broken
  /\ Move(p, "snapshot")
  /\ UNCHANGED <<registry, stopSet, queueVars, history, callerVars>>

GetEmpty(p) ==
  /\ At(p, "get")
  /\ ~Unread(Source(p)) \/ Source(p) \in broken
  /\ Move(p, "check")
  /\ UNCHANGED <<registry, stopSet, queueVars, history, callerVars>>

\* The dict a publisher was started with: the live one, or its copy.
DestQueues(p) == IF Threaded THEN destinations ELSE procs[p].copy

Snapshot(p) ==
  /\ At(p, "snapshot")
  /\ Turns(p, [procs[p] EXCEPT !.pc = "put", !.todo = DestQueues(p)])
  /\ UNCHANGED <<registry, stopSet, queueVars, history, callerVars>>

\* _put_until_stopped is about to put on d, the next destination of the snapshot.
Trying(p, d) == At(p, "put") /\ IsLeast(d, procs[p].todo)

Put(p, d) ==
  /\ Trying(p, d)
  /\ HasRoom(queueOf[d]) /\ queueOf[d] \notin broken
  /\ log' = [log EXCEPT ![queueOf[d]] = Append(@, procs[p].item)]
  /\ owed' = owed \ {[item |-> procs[p].item, dest |-> d]}
  /\ Turns(p, [procs[p] EXCEPT !.todo = @ \ {d}])
  /\ UNCHANGED <<registry, stopSet, head, done, broken, lost, callerVars>>

\* Mutant: a full destination makes the publisher begin the fan-out again.
StartOver(p, d) ==
  /\ Trying(p, d)
  /\ ~HasRoom(queueOf[d]) /\ queueOf[d] \notin broken
  /\ Move(p, "snapshot")
  /\ UNCHANGED <<registry, stopSet, queueVars, history, callerVars>>

\* Mutant: put(timeout=) is called once and Full is ignored.
IgnoreFull(p, d) ==
  /\ Trying(p, d)
  /\ ~HasRoom(queueOf[d]) /\ queueOf[d] \notin broken
  /\ Turns(p, [procs[p] EXCEPT !.todo = @ \ {d}])
  /\ UNCHANGED <<registry, stopSet, queueVars, history, callerVars>>

\* put(timeout=) raises Full: the destination was full until the deadline.
PutTimesOut(p, d) ==
  /\ Trying(p, d)
  /\ ~HasRoom(queueOf[d]) /\ queueOf[d] \notin broken
  /\ Move(p, "full")
  /\ UNCHANGED <<registry, stopSet, queueVars, history, callerVars>>

\* Mutant: the first destination given up takes the ones after it along.
GiveUpAll(p, d) ==
  /\ At(p, "full") /\ IsLeast(d, procs[p].todo)
  /\ procs[p].src \in stopSet
  /\ Turns(p, [procs[p] EXCEPT !.pc = "put", !.todo = {}, !.undelivered = @ \cup {d}])
  /\ lost' = lost \cup GiveUp(procs[p].item, {d}, "full")
  /\ UNCHANGED <<registry, stopSet, queueVars, owed, callerVars>>

\* Mutant: the stop event is not looked at while the destination is full.
NeverAbandon(p, d) ==
  /\ At(p, "full") /\ IsLeast(d, procs[p].todo)
  /\ procs[p].src \in stopSet
  /\ Move(p, "put")
  /\ UNCHANGED <<registry, stopSet, queueVars, history, callerVars>>

\* After Full, when a stop was requested: this destination is given up.
Abandon(p, d) ==
  /\ At(p, "full") /\ IsLeast(d, procs[p].todo)
  /\ procs[p].src \in stopSet
  /\ Turns(p, [procs[p] EXCEPT !.pc = "put", !.todo = @ \ {d}, !.undelivered = @ \cup {d}])
  /\ lost' = lost \cup GiveUp(procs[p].item, {d}, "full")
  /\ UNCHANGED <<registry, stopSet, queueVars, owed, callerVars>>

\* After Full, when none was: the put is tried again.
PutAgain(p) ==
  /\ At(p, "full")
  /\ procs[p].src \notin stopSet
  /\ Move(p, "put")
  /\ UNCHANGED <<registry, stopSet, queueVars, history, callerVars>>

\* Mutant: an item given up for some destination is not marked done.
ForgetTaskDone(p) ==
  /\ At(p, "put") /\ procs[p].todo = {}
  /\ \/ procs[p].undelivered # {} /\ Exit(p) /\ UNCHANGED done
     \/ /\ procs[p].undelivered = {} /\ Source(p) \notin broken
        /\ Turns(p, [procs[p] EXCEPT !.pc = "check", !.item = NoItem])
        /\ done' = [done EXCEPT ![Source(p)] = @ + 1]
  /\ UNCHANGED <<registry, stopSet, log, head, broken, history, callerVars>>

\* The end of _fan_out: task_done, which ends the publisher when the manager of the source
\* has gone away, and exit if a destination was given up.
FinishItem(p) ==
  /\ At(p, "put") /\ procs[p].todo = {}
  /\ \/ Source(p) \in broken /\ Exit(p) /\ UNCHANGED done
     \/ /\ Source(p) \notin broken
        /\ done' = [done EXCEPT ![Source(p)] = @ + 1]
        /\ \/ procs[p].undelivered # {} /\ Exit(p)
           \/ /\ procs[p].undelivered = {}
              /\ Turns(p, [procs[p] EXCEPT !.pc = "check", !.item = NoItem])
  /\ UNCHANGED <<registry, stopSet, log, head, broken, history, callerVars>>

\* EOFError or BrokenPipeError from a put: the publisher returns with the item.
PutBreaks(p, d) ==
  /\ Trying(p, d)
  /\ queueOf[d] \in broken
  /\ Exit(p)
  /\ lost' = lost \cup GiveUp(procs[p].item, procs[p].todo, "broken")
  /\ UNCHANGED <<registry, stopSet, queueVars, owed, callerVars>>

-----------------------------------------------------------------------------
(* The application's side of the queues *)

\* The n-th item the application puts on q; each established destination is
\* then promised it.
Produce(q) ==
  LET n == Cardinality({i \in 1..Len(log[q]): log[q][i].from = q}) + 1
      item == [from |-> q, n |-> n]
  IN /\ n <= MaxPuts[q] /\ HasRoom(q) /\ q \notin broken
     /\ log' = [log EXCEPT ![q] = Append(@, item)]
     /\ owed' = owed \cup {[item |-> item, dest |-> d]: d \in {i \in destinations: Established(i)}}
     /\ UNCHANGED <<registry, stopSet, procs, head, done, broken, lost, callerVars>>

Consume(q) ==
  /\ q \in Consumed /\ Unread(q) /\ q \notin broken
  /\ head' = [head EXCEPT ![q] = @ + 1]
  /\ UNCHANGED <<registry, stopSet, procs, log, done, broken, history, callerVars>>

Break(q) ==
  /\ q \in Breakable \ broken
  /\ broken' = broken \cup {q}
  /\ UNCHANGED <<registry, stopSet, procs, log, head, done, history, callerVars>>

-----------------------------------------------------------------------------
Init ==
  /\ lock = Nobody
  /\ queueOf = <<>> /\ pubOf = <<>>
  /\ sources = {} /\ destinations = {}
  /\ hasStop = {} /\ stopSet = {}
  /\ started = FALSE
  /\ procs = <<>>
  /\ local = [c \in Callers |-> Idle(0, NoCall, "none")]
  /\ log = [q \in Queues |-> <<>>]
  /\ head = [q \in Queues |-> 0]
  /\ done = [q \in Queues |-> 0]
  /\ broken = {}
  /\ owed = {} /\ lost = {}

BeginCall(c) ==
  \E call \in CallsOf(c):
    Register(c, call) \/ Unregister(c, call) \/ Stop(c, call)
      \/ IsDrained(c, call) \/ Audit(c, call)

ContinueCall(c) ==
  \/ NextToStop(c) \/ SetStop(c) \/ FetchPublisher(c) \/ JoinPublisher(c)
  \/ ClearStop(c) \/ ForgetStop(c)
  \/ CreateStop(c) \/ NextToStart(c) \/ StartPublisher(c) \/ StorePublisher(c)
  \/ LookAtQueue(c) \/ AuditQueue(c)

\* What a publisher does on its own; d is the destination it is trying.
Publish(p) ==
  \/ CheckStop(p) \/ GetItem(p) \/ GetEmpty(p) \/ Snapshot(p) \/ PutAgain(p) \/ FinishItem(p)
  \/ \E d \in procs[p].todo: Put(p, d) \/ PutTimesOut(p, d) \/ Abandon(p, d) \/ PutBreaks(p, d)

Next ==
  \/ \E c \in Callers: BeginCall(c) \/ ContinueCall(c)
  \/ \E p \in DOMAIN procs: Publish(p)
  \/ \E q \in Queues: Produce(q) \/ Consume(q) \/ Break(q)

Spec == Init /\ [][Next]_vars

-----------------------------------------------------------------------------
(* Fairness: threads and processes are scheduled, and a timeout that has run out
   is noticed. n bounds the publishers a run can start. *)

Fairness(n) ==
  /\ \A c \in Callers: WF_vars(ContinueCall(c))
  /\ \A p \in 1..n: WF_vars(p \in DOMAIN procs /\ Publish(p))

\* The application goes on reading the queues it reads.
ConsumersFair == \A q \in Consumed: WF_vars(Consume(q))

-----------------------------------------------------------------------------
(* Properties *)

CallerPcs == {"idle", "next", "set", "fetch", "join", "clear", "forget",
              "event", "restart", "start", "store", "look", "audit"}
PublisherPcs == {"check", "get", "snapshot", "put", "full", "dead"}

RegistryType ==
  /\ lock \in Callers \cup {Nobody}
  /\ queueOf \in Seq(Queues)
  /\ pubOf \in Seq(Nat) /\ Len(pubOf) = Len(queueOf)
  /\ \A i \in Ids: pubOf[i] \in 0..Len(procs)
  /\ sources \subseteq Ids /\ destinations \subseteq Ids
  /\ hasStop \subseteq Ids /\ stopSet \subseteq Ids
  /\ started \in BOOLEAN

\* What a call returned or raised; "none" until it has.
Results == {"none", "ok", "True", "False", "ValueError", "ValueError: running",
            "KeyError", "RuntimeError", "BrokenPipeError"}

Publisher == [src: Nat, pc: PublisherPcs, item: Items \cup {NoItem},
              todo: SUBSET Nat, undelivered: SUBSET Nat, copy: SUBSET Nat]
Caller == [pc: CallerPcs, made: Nat, call: Call, new: Nat, cur: Nat,
           loop: [last: Nat, left: Int, size: Nat], proc: Nat, look: SUBSET Nat,
           result: Results]

\* A publisher knows ids that were given out, and on its way to a destination it
\* holds an item.
PublisherOK(publisher) ==
  /\ publisher.src \in Ids /\ publisher.todo \subseteq Ids /\ publisher.copy \subseteq Ids
  /\ publisher.pc \in {"snapshot", "put", "full"} => publisher.item \in Items
PublishersType ==
  /\ procs \in Seq(Publisher)
  /\ \A p \in DOMAIN procs: PublisherOK(procs[p])

\* A caller that stops or starts a publisher knows the source, one that waits
\* for a publisher or has started it knows the publisher.
AtSource    == {"set", "fetch", "join", "clear", "forget", "event", "start", "store"}
AtPublisher == {"join", "store"}
CallerOK(r, ids, publishers) ==
  /\ r.pc \in AtSource => r.cur \in ids
  /\ r.pc \in AtPublisher => r.proc \in publishers
CallersType ==
  /\ local \in [Callers -> Caller]
  /\ \A c \in Callers: CallerOK(local[c], Ids, DOMAIN procs)

QueuesType ==
  /\ log \in [Queues -> Seq(Items)]
  /\ head \in [Queues -> Nat] /\ \A q \in Queues: head[q] <= Len(log[q])
  /\ done \in [Queues -> Nat]
  /\ broken \subseteq Queues

HistoryType ==
  /\ owed \subseteq Owed
  /\ lost \subseteq [item: Items, dest: Nat, why: {"full", "broken", "audit"}]

\* The type of every variable, and that whatever a caller or a publisher is about
\* to use (an id, a publisher, an item, a destination) exists.
TypeOK ==
  /\ RegistryType /\ PublishersType /\ CallersType /\ QueuesType /\ HistoryType

\* A source queue is read by one publisher at a time, across every restart and
\* even when the queue is unregistered and registered again under another id:
\* two readers would deliver its items out of order. (_start_publisher's
\* "Cannot overwrite a running publisher" only looks at one id.)
OneReaderPerQueue ==
  \A p1, p2 \in DOMAIN procs:
    Alive(p1) /\ Alive(p2) /\ Source(p1) = Source(p2) => p1 = p2

\* No destination receives the items of a source out of order or twice, however
\* often publishers are stopped and restarted in between.
InOrderOnce ==
  \A d \in Queues: \A i, j \in 1..Len(log[d]):
    i < j /\ log[d][i].from = log[d][j].from => log[d][i].n < log[d][j].n

\* The item is still in the queue the application put it on.
Waits(item) ==
  \E k \in 1..Len(log[item.from]): k > head[item.from] /\ log[item.from][k] = item

\* It is there, or in the hand of a publisher that has yet to try this destination.
Pending(o) ==
  \/ Waits(o.item)
  \/ \E p \in DOMAIN procs:
       /\ procs[p].item = o.item
       /\ \/ At(p, "snapshot") /\ o.dest \in DestQueues(p)
          \/ o.dest \in procs[p].todo

\* register_queue's docstring: once it has returned, every message put to a
\* source is delivered to all registered destinations.
ConsistencyGuarantee == \A o \in owed: Pending(o)

\* What the code keeps of it: a promised delivery is made, still to come, or
\* was given up for a reason that was recorded when it happened.
NothingLostSilently ==
  \A o \in owed: Pending(o) \/ \E l \in lost: l.item = o.item /\ l.dest = o.dest

\* The caller c has requested the stop of source id's publisher and is waiting.
Stopping(c, id) == local[c].cur = id /\ local[c].pc \in {"fetch", "join", "clear"}

\* A stop event is set only while some caller is between the set() and the
\* clear() of _stop_publisher: none is left over to stop a later publisher.
NoStaleStopRequest ==
  \A id \in stopSet: \E c \in Callers: Stopping(c, id)

\* A call that holds queues_lock never fails halfway: no KeyError, no
\* "dictionary changed size", no "Cannot overwrite a running publisher".
LockedCallsComplete ==
  \A c \in Callers:
    local[c].result \in {"KeyError", "RuntimeError", "ValueError: running"} =>
      local[c].call.op \in {"stop", "is_drained"}

\* task_done() has been called once for every item taken from a source and
\* decided on, so the application's source.join() ends when they are delivered.
TaskDoneBalanced ==
  \A q \in Queues \ Consumed:
    broken = {} => head[q] = done[q]
      + Cardinality({p \in DOMAIN procs: Alive(p) /\ Source(p) = q /\ procs[p].item # NoItem})

\* A publisher puts only on registered destinations, or on one whose
\* unregister_queue has not returned: afterwards the caller owns the queue alone.
Unregistering(id) ==
  \E c \in Callers: /\ InCall(c) /\ local[c].call.op = "unregister"
                    /\ local[c].call.dir = "destination" /\ local[c].call.id = id
PublisherPuts == \E p \in DOMAIN procs: procs[p].pc = "put" /\ procs'[p].todo # procs[p].todo
QuietAfterUnregister ==
  [][\A q \in Queues:
       PublisherPuts /\ log'[q] # log[q] =>
         \E id \in Ids: queueOf[id] = q /\ (id \in destinations \/ Unregistering(id))]_vars

\* Between calls every source has a publisher at work, whatever was registered
\* and unregistered before, if there is a destination and nobody called stop.
EverySourceServed ==
  lock = Nobody /\ destinations # {} /\ broken = {} =>
    \A id \in sources: Running(pubOf[id])

\* With readers on every destination, each promised delivery of a source that has
\* a publisher is made in the end, or has been given up, unless the source itself
\* has gone away.
EventuallyDelivered ==
  <>[](\A o \in owed:
         \/ o.item.from \in broken
         \/ \E l \in lost: l.item = o.item /\ l.dest = o.dest
         \/ \A p \in DOMAIN procs: Alive(p) => Source(p) # o.item.from)

\* A call that has begun returns: no full destination, slow consumer or restart
\* keeps stop, register_queue or unregister_queue waiting for ever.
EveryCallReturns == \A c \in Callers: InCall(c) ~> ~InCall(c)

-----------------------------------------------------------------------------
(* The inductive strengthening of OneReaderPerQueue *)

\* No two registered ids have the same queue, and none is registered both ways.
DistinctQueues ==
  /\ sources \cap destinations = {}
  /\ \A i, j \in sources \cup destinations: queueOf[i] = queueOf[j] => i = j

\* Every call but stop holds the lock to its end.
CallersHoldLock ==
  \A c \in Callers: InCall(c) /\ local[c].call.op # "stop" => lock = c

\* stop starts no publisher, and forgetting a source is no loop over the sources.
StepsOfCalls ==
  \A c \in Callers:
    /\ local[c].pc \in {"event", "restart", "start", "store"} => local[c].call.op # "stop"
    /\ local[c].pc \in {"next", "event", "restart", "start", "store"} =>
         ~ForgetsSource(local[c].call)
    /\ local[c].pc = "forget" => ForgetsSource(local[c].call)

\* c has taken a source out of the dict and is stopping its publisher.
Forgetting(c) ==
  /\ ForgetsSource(local[c].call)
  /\ local[c].pc \in {"set", "fetch", "join", "clear", "forget"}

\* The id it forgets still has a stop event, and no other id has its queue.
ForgottenSource ==
  \A c \in Callers: Forgetting(c) =>
    /\ local[c].cur \in hasStop
    /\ \A i \in sources \cup destinations: queueOf[i] # queueOf[local[c].cur]
    /\ local[c].pc = "join" => local[c].proc = pubOf[local[c].cur]

\* Every source has a stop event but the one about to get it, and every stop event
\* a source but the one of a source being forgotten.
StopsOfSources ==
  /\ \A i \in hasStop \ sources: \E c \in Callers: Forgetting(c) /\ local[c].cur = i
  /\ \A i \in sources \ hasStop: \E c \in Callers: local[c].pc = "event" /\ local[c].cur = i

\* Publishers are started for sources only, and where none is running.
StartsAtSource ==
  \A c \in Callers:
    /\ local[c].pc \in {"event", "start", "store"} => local[c].cur \in sources
    /\ local[c].pc = "store" => ~Running(pubOf[local[c].cur])

\* A living publisher reads a source, or one that waits for it to be gone.
AliveReadsSource ==
  \A p \in DOMAIN procs: Alive(p) =>
    \/ procs[p].src \in sources
    \/ \E c \in Callers: /\ Forgetting(c) /\ local[c].cur = procs[p].src
                          /\ local[c].pc \in {"set", "fetch", "join"}

\* client_pair_publishers knows every living publisher but the one just started.
AliveIsKnown ==
  \A p \in DOMAIN procs: Alive(p) =>
    \/ p = pubOf[procs[p].src]
    \/ \E c \in Callers: /\ local[c].pc = "store" /\ local[c].proc = p
                          /\ local[c].cur = procs[p].src

\* Nothing two callers or a restart do makes a second reader possible: the lock,
\* the registry and the living publishers agree at every point of every call.
ReaderInv ==
  /\ DistinctQueues /\ CallersHoldLock /\ StepsOfCalls /\ ForgottenSource
  /\ StopsOfSources /\ StartsAtSource /\ AliveReadsSource /\ AliveIsKnown

=============================================================================
