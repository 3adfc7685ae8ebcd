------------------------------ MODULE Pipeline ------------------------------
(***************************************************************************)
(* What queuelink.link() builds around multiprocessing queues: a reader    *)
(* adapter that moves the lines of a handle to a queue, the publisher of a *)
(* QueueLink that copies them to one queue per destination, a writer       *)
(* adapter per file, and _LinkResult.stop, which stops them one by one.    *)
(*                                                                         *)
(* The publisher is QueueLink's, reduced to one source and to the calls    *)
(* that link() and stop() make; in exchange its queues have feeder threads *)
(* and pipes, and a process publisher has to flush them before it exits.   *)
(***************************************************************************)
EXTENDS Integers, Sequences, SequencesExt

CONSTANTS
  Calls,        \* calls of link(): the kind of source, what it gives, the destinations
  Names,        \* the destinations that occur in them
  KindOf,       \* "queue", "handle", "path" or "connection"
  In,           \* the queue the publisher reads: the source or an internal one
  Itself,       \* the source queue, where it is given as a destination as well
  Lines,        \* bound: lines the source produces, numbered 1..Lines
  Wrapped,      \* lines that are in a ContentWrapper
  Opened,       \* the mode of each open handle
  MaxSize,      \* maxsize of the application's queues
  Consumed,     \* queues the application reads
  PipeRoom      \* lines a queue's pipe takes before its feeder thread waits

Kinds == {"queue", "handle", "path", "connection"}
Modes == {"str", "bytes"}

\* early: lines a source queue holds before link() is called. meanwhile: it is given
\* more of them while link() runs. ends: after the last line an open handle or a
\* Connection ends, or is silent for ever. content: the type of each line.
Call == [source: Kinds, dests: Seq(Names), early: 0..Lines, meanwhile: BOOLEAN,
         ends: BOOLEAN, content: [1..Lines -> Modes]]

ASSUME EndpointsAssumption ==
  /\ Calls \subseteq Call /\ KindOf \in [Names -> Kinds]
  /\ Itself \in Names => KindOf[Itself] = "queue" /\ Itself \notin Consumed
  /\ \A c \in Calls: Itself \in Range(c.dests) => c.source = "queue"
  /\ In \notin Names
  /\ Consumed \subseteq {d \in Names: KindOf[d] = "queue"}
  /\ MaxSize \in [Names -> Nat]
  /\ Opened \in [Names -> Modes]
ASSUME LinesAssumption ==
  /\ Lines \in Nat /\ PipeRoom \in Nat \ {0}
  /\ Wrapped \subseteq 1..Lines

VARIABLES
  args,        \* link()'s arguments, one of Calls, and thread_only
  threadOnly,
  taken,       \* lines read from the handle, or put on the source queue
  reader,      \* the reader adapter: where it is, and its stop_event
  publisher,   \* the same, the line in hand, where it still goes, its destinations
  writer,      \* the writer adapter of each file
  queue,       \* of each queue, what its feeder thread and what its pipe holds
  received,    \* lines written to each file or taken by the application
  mode,        \* how each file is open, "path" if not yet
  wired,       \* destinations link() has registered
  writers,     \* the writers it has made, in this order
  builder,     \* where link(), and then stop(), is
  waiting,     \* internal queues and writers stop() has yet to come to
  timedOut,    \* history: the drain deadline has passed
  dropped      \* history: destinations some line was given up for

stages == <<reader, publisher, writer>>
files  == <<received, mode>>
calls  == <<args, threadOnly, wired, writers, builder, waiting, timedOut>>
vars   == <<taken, stages, queue, files, calls, dropped>>

-----------------------------------------------------------------------------
(* What link() makes of its arguments *)

Dests        == args.dests
Destinations == Range(Dests)
Files        == {d \in Destinations: KindOf[d] \in {"handle", "path"}}
HasReader    == args.source # "queue"
\* A reader feeds a single destination directly, through no QueueLink.
HasLink      == ~HasReader \/ Len(Dests) # 1

\* An open handle cannot be sent to another process.
ReaderIsProcess    == args.source \in {"path", "connection"} /\ ~threadOnly
PublisherIsProcess == ~threadOnly

\* link()'s own checks: _normalize_destination, then _classify and the guard for
\* Connections. None of them compares the source with the destinations.
Rejected ==
  IF Dests = <<>> \/ ~IsInjective(Dests) THEN "ValueError"
  ELSE IF \/ \E d \in Destinations: KindOf[d] = "connection"
          \/ args.source = "connection" /\ Files # {} THEN "TypeError"
  ELSE "no"

-----------------------------------------------------------------------------
(* Queues: multiprocessing.Queue, a buffer whose feeder thread fills a pipe *)

Queues == Names \cup {In}
Queued(q) == Len(queue[q].buffer) + Len(queue[q].pipe)
\* Its semaphore counts puts less gets: a line dropped from a buffer keeps its place for ever.
Held(q) == Queued(q) + queue[q].leaked
Bound(q) == IF q \in Files \cup {In} THEN 0 ELSE MaxSize[q]
HasRoom(q) == Bound(q) = 0 \/ Held(q) < Bound(q)
\* empty() only looks at the pipe.
LooksEmpty(q) == queue[q].pipe = <<>>

PutOn(q, line) == queue' = [queue EXCEPT ![q].buffer = Append(@, line)]
GetFrom(q)     == queue' = [queue EXCEPT ![q].pipe = Tail(@)]

\* The feeder thread of whoever puts on q.
Flush(q) ==
  /\ queue[q].buffer # <<>> /\ Len(queue[q].pipe) < PipeRoom
  /\ queue' = [queue EXCEPT ![q].buffer = Tail(@), ![q].pipe = Append(@, Head(queue[q].buffer))]
  /\ UNCHANGED <<taken, stages, files, calls, dropped>>

-----------------------------------------------------------------------------
(* QueueHandleAdapterReader *)

ReaderPuts == IF HasLink THEN In ELSE Dests[1]

\* A thread that is done is dead; a process first joins its feeder threads.
ReaderEnds ==
  reader' = [reader EXCEPT !.pc = IF ReaderIsProcess THEN "flush" ELSE "dead"]

\* readline returns a line, or its end: None, an empty line, ValueError, EOFError.
Read ==
  /\ reader.pc = "read"
  /\ \/ /\ taken < Lines
        /\ taken' = taken + 1
        /\ reader' = [reader EXCEPT !.pc = "put"]
     \/ /\ \/ taken = Lines /\ (args.ends \/ args.source = "path")
           \/ args.source = "connection" /\ reader.stop
        /\ ReaderEnds
        /\ UNCHANGED taken
  /\ UNCHANGED <<publisher, writer, queue, files, calls, dropped>>

\* put without a timeout: a full queue makes it wait, whatever the stop event says.
ReaderPut ==
  /\ reader.pc = "put" /\ HasRoom(ReaderPuts)
  /\ PutOn(ReaderPuts, taken)
  /\ reader' = [reader EXCEPT !.pc = "check"]
  /\ UNCHANGED <<taken, publisher, writer, files, calls, dropped>>

ReaderCheck ==
  /\ reader.pc = "check"
  /\ \/ reader.stop /\ ReaderEnds
     \/ ~reader.stop /\ reader' = [reader EXCEPT !.pc = "read"]
  /\ UNCHANGED <<taken, publisher, writer, queue, files, calls, dropped>>

ReaderFlushed ==
  /\ reader.pc = "flush" /\ queue[ReaderPuts].buffer = <<>>
  /\ reader' = [reader EXCEPT !.pc = "dead"]
  /\ UNCHANGED <<taken, publisher, writer, queue, files, calls, dropped>>

-----------------------------------------------------------------------------
(* The publisher *)

\* The destinations it knows: the live dict of a thread, the copy of a process.
Targets == SubSeq(Dests, 1, IF PublisherIsProcess THEN publisher.dests ELSE wired)

PublisherEnds ==
  publisher' = [publisher EXCEPT !.pc = IF PublisherIsProcess THEN "flush" ELSE "dead",
                                 !.line = 0, !.missed = {}]

PublisherCheck ==
  /\ publisher.pc = "check"
  /\ \/ publisher.stop /\ PublisherEnds
     \/ ~publisher.stop /\ publisher' = [publisher EXCEPT !.pc = "get"]
  /\ UNCHANGED <<taken, reader, writer, queue, files, calls, dropped>>

PublisherGet ==
  /\ publisher.pc = "get"
  /\ \/ /\ LooksEmpty(In)
        /\ publisher' = [publisher EXCEPT !.pc = "check"]
        /\ UNCHANGED queue
     \/ /\ ~LooksEmpty(In)
        /\ GetFrom(In)
        /\ publisher' = [publisher EXCEPT !.pc = "put", !.line = Head(queue[In].pipe),
                                          !.todo = Targets]
  /\ UNCHANGED <<taken, reader, writer, files, calls, dropped>>

PublisherPut ==
  /\ publisher.pc = "put" /\ publisher.todo # <<>>
  /\ LET d == Head(publisher.todo) IN
       \/ /\ HasRoom(d)
          /\ PutOn(d, publisher.line)
          /\ publisher' = [publisher EXCEPT !.todo = Tail(@)]
          /\ UNCHANGED dropped
       \/ /\ ~HasRoom(d) /\ publisher.stop
          /\ publisher' = [publisher EXCEPT !.todo = Tail(@), !.missed = @ \cup {d}]
          /\ dropped' = dropped \cup {d}
          /\ UNCHANGED queue
  /\ UNCHANGED <<taken, reader, writer, files, calls>>

PublisherDone ==
  /\ publisher.pc = "put" /\ publisher.todo = <<>>
  /\ \/ publisher.missed # {} /\ PublisherEnds
     \/ /\ publisher.missed = {}
        /\ publisher' = [publisher EXCEPT !.pc = "check", !.line = 0]
  /\ UNCHANGED <<taken, reader, writer, queue, files, calls, dropped>>

Cut(content) == [content EXCEPT !.buffer = <<>>, !.leaked = @ + Len(content.buffer)]

\* Mutant: the process exits without waiting for its feeder threads.
ExitAtOnce ==
  /\ publisher.pc = "flush"
  /\ publisher' = [publisher EXCEPT !.pc = "dead"]
  /\ queue' = [q \in Queues |-> IF q = In THEN queue[q] ELSE Cut(queue[q])]
  /\ UNCHANGED <<taken, reader, writer, files, calls, dropped>>

\* _release_destinations: the process exits when its feeder threads have flushed,
\* or the timeout passes and what they still hold is dropped.
Release ==
  /\ publisher.pc = "flush"
  /\ publisher' = [publisher EXCEPT !.pc = "dead"]
  /\ LET unflushed == {d \in Range(Targets): queue[d].buffer # <<>>} IN
       /\ queue' = [q \in Queues |-> IF q \in unflushed THEN Cut(queue[q]) ELSE queue[q]]
       /\ dropped' = dropped \cup unflushed
  /\ UNCHANGED <<taken, reader, writer, files, calls>>

-----------------------------------------------------------------------------
(* QueueHandleAdapterWriter *)

\* open_location looks at the item, not at the content: a wrapper has no `decode`.
ModeFor(d, line) ==
  IF mode[d] # "path" THEN mode[d]
  ELSE IF line \in Wrapped THEN "str" ELSE args.content[line]

WriterTurn(d, pc) == writer' = [writer EXCEPT ![d].pc = pc]

\* Mutant: a line of the wrong type is logged and skipped.
SkipMixed(d) ==
  /\ writer[d].pc = "get"
  /\ WriterTurn(d, "check")
  /\ \/ LooksEmpty(d) /\ UNCHANGED <<queue, files>>
     \/ /\ ~LooksEmpty(d)
        /\ GetFrom(d)
        /\ LET line == Head(queue[d].pipe) IN
             /\ mode' = [mode EXCEPT ![d] = ModeFor(d, line)]
             /\ received' = IF ModeFor(d, line) # args.content[line] THEN received
                            ELSE [received EXCEPT ![d] = Append(@, line)]
  /\ UNCHANGED <<taken, reader, publisher, calls, dropped>>

\* Mutant: the writer ends when it finds no line.
EndWhenEmpty(d) ==
  /\ writer[d].pc = "get"
  /\ \/ LooksEmpty(d) /\ WriterTurn(d, "dead") /\ UNCHANGED <<queue, files>>
     \/ /\ ~LooksEmpty(d)
        /\ GetFrom(d)
        /\ received' = [received EXCEPT ![d] = Append(@, Head(queue[d].pipe))]
        /\ WriterTurn(d, "check")
        /\ UNCHANGED mode
  /\ UNCHANGED <<taken, reader, publisher, calls, dropped>>

\* A line, or Empty after the timeout. TypeError ends the writer with the line.
WriterGet(d) ==
  /\ writer[d].pc = "get"
  /\ \/ LooksEmpty(d) /\ WriterTurn(d, "check") /\ UNCHANGED <<queue, files>>
     \/ /\ ~LooksEmpty(d)
        /\ GetFrom(d)
        /\ LET line == Head(queue[d].pipe) IN
             /\ mode' = [mode EXCEPT ![d] = ModeFor(d, line)]
             /\ \/ /\ ModeFor(d, line) = args.content[line]
                   /\ received' = [received EXCEPT ![d] = Append(@, line)]
                   /\ WriterTurn(d, "check")
                \/ /\ ModeFor(d, line) # args.content[line]
                   /\ WriterTurn(d, "failed")
                   /\ UNCHANGED received
  /\ UNCHANGED <<taken, reader, publisher, calls, dropped>>

\* Mutant: the writer does not look at its stop event.
WriteOn(d) ==
  /\ writer[d].pc = "check"
  /\ WriterTurn(d, "get")
  /\ UNCHANGED <<taken, reader, publisher, queue, files, calls, dropped>>

WriterCheck(d) ==
  /\ writer[d].pc = "check"
  /\ WriterTurn(d, IF writer[d].stop THEN "dead" ELSE "get")
  /\ UNCHANGED <<taken, reader, publisher, queue, files, calls, dropped>>

-----------------------------------------------------------------------------
(* link(): destinations first, one at a time, and the reader last *)

\* Its own checks come before anything is built.
Link ==
  /\ builder = "call"
  /\ builder' = IF Rejected # "no" THEN Rejected ELSE IF HasLink THEN "insert" ELSE "reader"
  /\ UNCHANGED <<taken, stages, queue, files, args, threadOnly, wired, writers, waiting, timedOut, dropped>>

\* register_queue(TO): the check for a circle, which raises, the dict, the stop of the
\* old publisher, the start of a new one.
Insert ==
  /\ builder = "insert"
  /\ \/ /\ Dests[wired + 1] = Itself
        /\ builder' = "broken"
        /\ UNCHANGED wired
     \/ /\ Dests[wired + 1] # Itself
        /\ wired' = wired + 1
        /\ builder' = "request"
  /\ UNCHANGED <<taken, stages, queue, files, args, threadOnly, writers, waiting, timedOut, dropped>>

Request ==
  /\ builder = "request"
  /\ publisher' = [publisher EXCEPT !.stop = TRUE]
  /\ builder' = "start"
  /\ UNCHANGED <<taken, reader, writer, queue, files, args, threadOnly, wired, writers, waiting, timedOut, dropped>>

\* Mutant: the publisher is promised one destination too many.
NewPublisherAhead == [pc |-> "check", stop |-> FALSE, line |-> 0, todo |-> <<>>, missed |-> {},
                      dests |-> wired + 1]
NewPublisher == [pc |-> "check", stop |-> FALSE, line |-> 0, todo |-> <<>>, missed |-> {},
                 dests |-> wired]
StartWriter(d) ==
  \/ d \in Files /\ WriterTurn(d, "get") /\ writers' = Append(writers, d)
  \/ d \notin Files /\ UNCHANGED <<writer, writers>>


Start ==
  /\ builder = "start" /\ publisher.pc = "dead"
  /\ publisher' = NewPublisher
  /\ StartWriter(Dests[wired])
  /\ builder' = IF wired < Len(Dests) THEN "insert" ELSE IF HasReader THEN "reader" ELSE "up"
  /\ UNCHANGED <<taken, reader, queue, files, args, threadOnly, wired, waiting, timedOut, dropped>>

\* Mutant: the reader is started before the destinations are registered.
StartReaderEarly ==
  /\ builder # "up" /\ reader.pc = "off"
  /\ reader' = [reader EXCEPT !.pc = "read"]
  /\ builder' = IF builder = "reader" THEN "up" ELSE builder
  /\ IF HasLink THEN UNCHANGED <<writer, writers>> ELSE StartWriter(Dests[1])
  /\ UNCHANGED <<taken, publisher, queue, files, args, threadOnly, wired, waiting, timedOut, dropped>>

StartReader ==
  /\ builder = "reader"
  /\ reader' = [reader EXCEPT !.pc = "read"]
  /\ builder' = "up"
  /\ IF HasLink THEN UNCHANGED <<writer, writers>> ELSE StartWriter(Dests[1])
  /\ UNCHANGED <<taken, publisher, queue, files, args, threadOnly, wired, waiting, timedOut, dropped>>

\* The thread or process of a publisher or a reader cannot be started, or the one of a
\* writer, after what it is to write from: link() raises where it is.
StartFails ==
  /\ \/ /\ builder = "start" /\ publisher.pc = "dead"
        /\ \/ publisher' = [publisher EXCEPT !.stop = FALSE]
           \/ Dests[wired] \in Files /\ publisher' = NewPublisher
        /\ UNCHANGED reader
     \/ /\ builder = "reader"
        /\ \/ UNCHANGED reader
           \/ ~HasLink /\ Files # {} /\ reader' = [reader EXCEPT !.pc = "read"]
        /\ UNCHANGED publisher
  /\ builder' = "broken"
  /\ UNCHANGED <<taken, writer, queue, files, args, threadOnly, wired, writers, waiting, timedOut, dropped>>

\* The QueueLink and the adapters of a link() that raised are closed by __del__, in any
\* order and one after the other, when the application lets go of the exception.
Working(stage) == stage.pc \in {"read", "check", "get", "put", "flush"}
NoneEnding ==
  /\ reader.stop => ~Working(reader)
  /\ publisher.stop => ~Working(publisher)
  /\ \A d \in Names: writer[d].stop => ~Working(writer[d])

\* Mutant: the QueueLink has no __del__.
CollectAdapters ==
  /\ builder = "broken" /\ NoneEnding
  /\ \/ /\ Working(reader)
        /\ reader' = [reader EXCEPT !.stop = TRUE]
        /\ UNCHANGED writer
     \/ \E d \in Names:
          /\ Working(writer[d])
          /\ writer' = [writer EXCEPT ![d].stop = TRUE]
          /\ UNCHANGED reader
  /\ UNCHANGED <<taken, publisher, queue, files, calls, dropped>>

Collect ==
  /\ builder = "broken" /\ NoneEnding
  /\ \/ /\ Working(reader)
        /\ reader' = [reader EXCEPT !.stop = TRUE]
        /\ UNCHANGED <<publisher, writer>>
     \/ /\ Working(publisher)
        /\ publisher' = [publisher EXCEPT !.stop = TRUE]
        /\ UNCHANGED <<reader, writer>>
     \/ \E d \in Names:
          /\ Working(writer[d])
          /\ writer' = [writer EXCEPT ![d].stop = TRUE]
          /\ UNCHANGED <<reader, publisher>>
  /\ UNCHANGED <<taken, queue, files, calls, dropped>>

-----------------------------------------------------------------------------
(* _LinkResult.stop *)

\* The queues link() created, in the order it created them: one per writer, after its own.
InternalQueues == (IF HasReader /\ HasLink THEN <<In>> ELSE <<>>) \o writers

\* From step `from` of stop() to step `to`.
Step(from, to) == builder = from /\ builder' = to

BeginStop ==
  /\ Step("up", IF HasReader THEN "join reader" ELSE "drain")
  /\ reader' = [reader EXCEPT !.stop = HasReader]
  /\ waiting' = InternalQueues
  /\ UNCHANGED <<taken, publisher, writer, queue, files, args, threadOnly, wired, writers, timedOut, dropped>>

\* Mutant: close() does not wait for the reader.
LeaveReader ==
  /\ Step("join reader", "drain")
  /\ UNCHANGED <<taken, stages, queue, files, args, threadOnly, wired, writers, waiting, timedOut, dropped>>

JoinReader ==
  /\ Step("join reader", "drain") /\ reader.pc = "dead"
  /\ UNCHANGED <<taken, stages, queue, files, args, threadOnly, wired, writers, waiting, timedOut, dropped>>

\* empty() of one queue after another, until the deadline for all of them.
Drain ==
  /\ builder = "drain"
  /\ \/ /\ waiting # <<>>
        /\ \/ LooksEmpty(Head(waiting)) /\ waiting' = Tail(waiting) /\ UNCHANGED timedOut
           \/ waiting' = <<>> /\ timedOut' = TRUE
        /\ UNCHANGED <<builder, publisher>>
     \/ /\ waiting = <<>>
        /\ publisher' = [publisher EXCEPT !.stop = HasLink]
        /\ builder' = IF HasLink THEN "join publisher" ELSE "stop writers"
        /\ waiting' = writers
        /\ UNCHANGED timedOut
  /\ UNCHANGED <<taken, reader, writer, queue, files, args, threadOnly, wired, writers, dropped>>

\* Mutant: the publisher is not waited for.
LeavePublisher ==
  /\ Step("join publisher", "stop writers")
  /\ UNCHANGED <<taken, stages, queue, files, args, threadOnly, wired, writers, waiting, timedOut, dropped>>

JoinPublisher ==
  /\ Step("join publisher", "stop writers") /\ publisher.pc = "dead"
  /\ publisher' = [publisher EXCEPT !.stop = FALSE]
  /\ UNCHANGED <<taken, reader, writer, queue, files, args, threadOnly, wired, writers, waiting, timedOut, dropped>>

StopWriter ==
  /\ waiting # <<>> /\ Step("stop writers", "join writer")
  /\ writer' = [writer EXCEPT ![Head(waiting)].stop = TRUE]
  /\ UNCHANGED <<taken, reader, publisher, queue, files, args, threadOnly, wired, writers, waiting, timedOut, dropped>>

JoinWriter ==
  /\ Step("join writer", "stop writers")
  /\ writer[Head(waiting)].pc \in {"dead", "failed"}
  /\ waiting' = Tail(waiting)
  /\ UNCHANGED <<taken, stages, queue, files, args, threadOnly, wired, writers, timedOut, dropped>>

EndStop ==
  /\ waiting = <<>> /\ Step("stop writers", "down")
  /\ UNCHANGED <<taken, stages, queue, files, args, threadOnly, wired, writers, waiting, timedOut, dropped>>

-----------------------------------------------------------------------------
(* The application *)

\* It puts on its source queue whenever it likes, or when link() has returned or raised.
Produce ==
  /\ ~HasReader /\ taken < Lines
  /\ args.meanwhile \/ builder \notin {"call", "insert", "request", "start"}
  /\ taken' = taken + 1
  /\ PutOn(In, taken + 1)
  /\ UNCHANGED <<stages, files, calls, dropped>>

Consume(d) ==
  /\ d \in Consumed /\ ~LooksEmpty(d)
  /\ GetFrom(d)
  /\ received' = [received EXCEPT ![d] = Append(@, Head(queue[d].pipe))]
  /\ UNCHANGED <<taken, stages, mode, calls, dropped>>

-----------------------------------------------------------------------------
Init ==
  /\ args \in Calls /\ threadOnly \in BOOLEAN
  /\ taken = IF HasReader THEN 0 ELSE args.early
  /\ reader = [pc |-> IF HasReader THEN "off" ELSE "dead", stop |-> FALSE]
  /\ publisher = [pc |-> "dead", stop |-> FALSE, line |-> 0, todo |-> <<>>, missed |-> {},
                  dests |-> 0]
  /\ writer = [d \in Names |-> [pc |-> "off", stop |-> FALSE]]
  /\ queue = [q \in Queues |->
       [buffer |-> <<>>, leaked |-> 0,
        pipe |-> IF q = In /\ ~HasReader THEN [i \in 1..args.early |-> i] ELSE <<>>]]
  /\ received = [d \in Names |-> <<>>]
  /\ mode = [d \in Names |-> IF KindOf[d] = "path" THEN "path" ELSE Opened[d]]
  /\ wired = 0 /\ writers = <<>>
  /\ builder = "call"
  /\ waiting = <<>> /\ timedOut = FALSE /\ dropped = {}

Reader    == Read \/ ReaderPut \/ ReaderCheck \/ ReaderFlushed
Publisher == PublisherCheck \/ PublisherGet \/ PublisherPut \/ PublisherDone \/ Release
Writer(d) == WriterGet(d) \/ WriterCheck(d)
Build     == Link \/ Insert \/ Request \/ Start \/ StartReader
Stop      == \/ JoinReader \/ Drain \/ JoinPublisher \/ StopWriter \/ JoinWriter \/ EndStop

Next ==
  \/ Reader \/ Publisher \/ Build \/ StartFails \/ Collect \/ BeginStop \/ Stop \/ Produce
  \/ \E d \in Names: Writer(d)
  \/ \E d \in Names: Consume(d)
  \/ \E q \in Queues: Flush(q)

Spec == Init /\ [][Next]_vars

\* Threads, processes and feeder threads are scheduled; the application need not
\* call stop(), but lets go of an exception.
Fairness ==
  /\ WF_vars(Reader) /\ WF_vars(Publisher) /\ WF_vars(Build) /\ WF_vars(Stop)
  /\ WF_vars(Produce) /\ WF_vars(Collect)
  /\ \A d \in {n \in Names: KindOf[n] \in {"handle", "path"}}: WF_vars(Writer(d))
  /\ \A d \in Consumed: WF_vars(Consume(d))
  /\ \A q \in Queues: WF_vars(Flush(q))

-----------------------------------------------------------------------------
(* Properties *)

Numbers == 1..Lines
Steps == {"call", "TypeError", "ValueError", "insert", "request", "start", "reader", "broken",
          "up", "join reader", "drain", "join publisher", "stop writers", "join writer", "down"}

\* The type of every variable.
TypeOK ==
  /\ args \in Calls /\ threadOnly \in BOOLEAN
  /\ taken \in 0..Lines
  /\ reader \in [pc: {"off", "read", "put", "check", "flush", "dead"}, stop: BOOLEAN]
  /\ publisher \in [pc: {"check", "get", "put", "flush", "dead"}, stop: BOOLEAN,
                    line: 0..Lines, todo: Seq(Names), missed: SUBSET Names,
                    dests: 0..Len(Dests)]
  /\ writer \in [Names -> [pc: {"off", "get", "check", "dead", "failed"}, stop: BOOLEAN]]
  /\ queue \in [Queues -> [buffer: Seq(Numbers), pipe: Seq(Numbers), leaked: Nat]]
  /\ received \in [Names -> Seq(Numbers)]
  /\ mode \in [Names -> Modes \cup {"path"}]
  /\ wired \in 0..Len(Dests) /\ builder \in Steps
  /\ writers \in Seq(Names) /\ waiting \in Seq(Queues)
  /\ timedOut \in BOOLEAN /\ dropped \subseteq Names

\* Destinations are registered one at a time, and a source queue may give lines meanwhile,
\* which the later ones never get. This says that it does not: it is empty until link()
\* has returned or raised, or has only one destination.
WiredFirst == HasReader \/ Len(Dests) <= 1 \/ (args.early = 0 /\ ~args.meanwhile)

\* A file or an application gets the lines in the order they were read, from the
\* first one and without a gap: restarts, stop requests, a flush that was cut
\* short and a writer that failed only ever cost a tail.
PrefixReceived ==
  WiredFirst => \A d \in Destinations: received[d] = [i \in 1..Len(received[d]) |-> i]

\* On its way to d a line is in exactly one place: the file, d's queue, the hand of
\* the publisher, the source queue, or the hand of the reader.
InQueue(q) == queue[q].pipe \o queue[q].buffer
InPublisher(d) ==
  IF publisher.pc = "put" /\ d \in Range(publisher.todo) THEN <<publisher.line>> ELSE <<>>
InReader == IF reader.pc = "put" THEN <<taken>> ELSE <<>>
OnTheWay(d) ==
  received[d] \o InQueue(d) \o (IF HasLink THEN InPublisher(d) \o InQueue(In) ELSE <<>>) \o InReader

\* A link() that has raised may not have come to all of them.
Registered == Range(SubSeq(Dests, 1, wired))
Reached    == IF builder = "broken" /\ HasLink THEN Registered ELSE Destinations

\* Every line that was read is on its way to every destination or has arrived, if
\* nothing was given up for it and its writer has not failed. When link() has raised
\* this is so for the destinations it has registered.
NothingVanishes ==
  WiredFirst => \A d \in Reached \ dropped:
    writer[d].pc # "failed" => OnTheWay(d) = [i \in 1..taken |-> i]

\* Nobody puts on the queue of a writer that has been stopped: stop() goes
\* downstream and waits for each stage.
WritersOutlive ==
  [][\A d \in Files: writer[d].pc = "dead" /\ builder # "broken" =>
       Len(queue'[d].buffer) <= Len(queue[d].buffer)]_vars

\* link() has neither started nor filled anything for d.
Untouched(d) ==
  /\ writer[d].pc = "off" /\ received[d] = <<>>
  /\ queue[d].buffer = <<>> /\ queue[d].pipe = <<>>

\* A link() that raises on its own checks has started nothing. One that raises while it
\* registers destinations, or starts what belongs to them, leaves publishers and writers at
\* work, but only for those it has come to; of a source that it reads itself it has not
\* taken a line that they would have to share.
RaisesPartway ==
  /\ builder \in {"TypeError", "ValueError"} =>
       /\ ~Working(reader) /\ ~Working(publisher)
       /\ \A d \in Names: Untouched(d)
  /\ builder = "broken" /\ HasLink =>
       /\ ~Working(reader) /\ (HasReader => taken = 0)
       /\ \A i \in 1..Len(Dests): i > wired => Untouched(Dests[i])

\* What a link() that raised has started ends, whatever it is doing, when the application
\* lets go of the exception. Only a reader process whose writer could not be started may
\* wait for ever, for somebody to empty the pipe its lines are to go through.
Stuck(stage) == stage.pc = "flush" /\ Len(queue[ReaderPuts].pipe) = PipeRoom
NothingLeftRunning ==
  builder = "broken" ~>
    /\ Working(reader) => Stuck(reader) /\ ~HasLink /\ writers = <<>>
    /\ ~Working(publisher) /\ \A d \in Names: ~Working(writer[d])

\* docs/link_guide.rst says that a list of destinations is there "to broadcast each message
\* to multiple endpoints". Of a source queue that is filled while link() registers them, one
\* after the other, with a restart of the publisher for each, a destination misses the lines
\* taken before its turn: the first ones, then none; the first destination misses nothing, and
\* a later one never less than an earlier one.
FirstFor(d) == taken - Len(OnTheWay(d)) + 1

\* _LinkResult.stop: "Wait (bounded) for internal queues to drain into downstream
\* stages". If the bound was not reached they are drained when stop() returns.
StopDrains ==
  builder = "down" /\ ~timedOut =>
    \A i \in DOMAIN InternalQueues: InQueue(InternalQueues[i]) = <<>>

\* WriteMode: "All subsequent lines must be the same type": a writer whose lines all
\* have the type of their file does not fail.
FailsOnMixedTypes ==
  \A d \in Files: writer[d].pc = "failed" =>
    \E i, j \in 1..Lines:
      \/ args.content[i] # args.content[j]
      \/ KindOf[d] = "handle" /\ Opened[d] # args.content[i]

\* The lines before the first one whose type is not that of the file.
Writable(d) ==
  LET typ == IF KindOf[d] = "handle" THEN Opened[d] ELSE args.content[1]
  IN  {n \in Numbers: \A i \in 1..n: args.content[i] = typ}

\* Without a stop() every line of a source that ends arrives everywhere, up to the one a
\* writer fails on; the other destinations of that line are not affected.
AllReceived ==
  args.ends /\ WiredFirst => <>[](builder = "up" => \A d \in Destinations:
                      Range(received[d]) = IF d \in Files THEN Writable(d) ELSE Numbers)

\* Once stop() has been called it returns: each stage it waits for looks at its stop
\* event again and again.
StopReturns == builder \in {"join reader", "drain"} ~> builder = "down"

=============================================================================
