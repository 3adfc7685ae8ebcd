--------------------------- MODULE Pipeline_proofs ---------------------------
(***************************************************************************)
(* Theorems of Pipeline: types, what has been built and what has been      *)
(* stopped at each step of link() and stop(), that writers are stopped     *)
(* after all that feeds them, where each line is between its source and    *)
(* its destinations, and that the pipelines implement Tee.                 *)
(***************************************************************************)
EXTENDS PipelineTee, SequenceTheorems, TLAPS

-----------------------------------------------------------------------------
(* The order of starting and stopping *)

Before  == {"call", "TypeError", "ValueError"}
Wiring  == {"insert", "request", "start"}
Running == {"reader", "up", "join reader", "drain"}
Stopped == {"stop writers", "join writer", "down"}

\* link() has not built anything.
Unbuilt ==
  builder \in Before =>
    /\ wired = 0 /\ publisher.pc = "dead"
    /\ \A d \in Names: /\ received[d] = <<>> /\ writer[d].pc = "off"
                       /\ queue[d].buffer = <<>> /\ queue[d].pipe = <<>>

\* What link() has wired when.
Wired ==
  /\ builder \notin Before => Rejected = "no"
  /\ ~HasLink => builder \notin Wiring \cup {"join publisher"}
  /\ HasLink /\ builder = "insert" => wired < Len(Dests)
  /\ builder \in {"request", "start"} => wired # 0
  /\ HasLink /\ builder \notin Before \cup Wiring \cup {"broken"} => wired = Len(Dests)
  /\ builder = "reader" => HasReader

\* Where the start of a thread or process may fail.
Unstarted == {"start", "reader"}

\* A link() that raises at a QueueLink has not come to its reader.
Unread == builder \in Before \cup Wiring \cup {"reader"} \/ (builder = "broken" /\ HasLink)

\* When the reader has not started, or has ended.
ReaderInTurn ==
  /\ HasReader /\ Unread => reader.pc = "off" /\ taken = 0
  /\ ~HasReader \/ builder \in Stopped \cup {"drain", "join publisher"} => reader.pc = "dead"
  /\ reader.pc = "put" => taken # 0

\* When the publisher may end, and when it has.
PublisherInTurn ==
  /\ publisher.stop \/ publisher.pc = "flush" => builder \in {"start", "join publisher", "broken"}
  /\ publisher.missed # {} => publisher.stop /\ publisher.pc = "put"
  /\ ~HasLink \/ builder \in Stopped => publisher.pc = "dead"
  /\ HasLink /\ builder \in Running =>
       publisher.pc # "dead" /\ publisher.dests = Len(Dests)
  /\ builder = "join publisher" => publisher.dests = Len(Dests)
  /\ publisher.dests <= wired
  /\ builder \in {"insert", "broken"} => publisher.pc = "dead" \/ publisher.dests = wired
  /\ publisher.pc = "put" => publisher.line # 0 /\ Range(publisher.todo) \subseteq Registered

\* Files have writers, and writers are stopped last.
WritersInTurn ==
  /\ builder = "join writer" => waiting # <<>>
  /\ \A d \in Names:
       /\ writer[d].pc # "off" => d \in Files
       /\ writer[d].stop => builder \in Stopped \cup {"broken"}
       /\ writer[d].pc = "dead" => writer[d].stop

StagesInv == Unbuilt /\ Wired /\ ReaderInTurn /\ PublisherInTurn /\ WritersInTurn

-----------------------------------------------------------------------------
(* Types *)

LEMMA ArgsTyped ==
  ASSUME TypeOK
  PROVE  /\ Dests \in Seq(Names) /\ Len(Dests) \in Nat
         /\ Destinations \subseteq Names /\ Files \subseteq Names
         /\ \A n \in 1..Len(Dests): Dests[n] \in Destinations
         /\ ~HasLink => HasReader /\ Len(Dests) = 1 /\ Dests[1] \in Destinations
         /\ args.early \in 0..Lines
<1>1. args \in Call
  BY EndpointsAssumption DEF TypeOK
<1>2. Dests \in Seq(Names) /\ args.early \in 0..Lines
  BY <1>1 DEF Call, Dests
<1>3. Len(Dests) \in Nat /\ DOMAIN Dests = 1..Len(Dests) /\ \A n \in 1..Len(Dests): Dests[n] \in Names
  BY <1>2
<1>4. Destinations = {Dests[n]: n \in 1..Len(Dests)}
  BY <1>3 DEF Destinations, Range
<1> QED BY <1>2, <1>3, <1>4 DEF Files, HasLink

\* link()'s arguments stay what they are.
LEMMA ArgsKept ==
  ASSUME [Next]_vars
  PROVE  args' = args /\ threadOnly' = threadOnly
BY DEF Next, vars, calls, Reader, Publisher, Build, Stop, Writer,
   Read, ReaderPut, ReaderCheck, ReaderFlushed, PublisherCheck, PublisherGet, PublisherPut,
   PublisherDone, Release, Link, Insert, Request, Start, StartReader, StartFails, Collect,
   BeginStop, JoinReader, Drain, JoinPublisher, StopWriter, JoinWriter, EndStop, Produce,
   WriterGet, WriterCheck, Consume, Flush

\* The destinations link() has registered are the first ones, and become more.
LEMMA Firsts ==
  ASSUME NEW S, NEW s \in Seq(S), NEW n \in 0..Len(s)
  PROVE  /\ Range(SubSeq(s, 1, n)) = {s[i]: i \in 1..n} /\ Range(SubSeq(s, 1, n)) \subseteq Range(s)
         /\ DOMAIN SubSeq(s, 1, n) \subseteq DOMAIN s
         /\ \A i \in DOMAIN SubSeq(s, 1, n): SubSeq(s, 1, n)[i] = s[i]
<1>1. Len(s) \in Nat /\ DOMAIN s = 1..Len(s) /\ \A i \in 1..Len(s): s[i] \in S
  BY LenProperties
<1>2. /\ SubSeq(s, 1, n) \in Seq(S) /\ Len(SubSeq(s, 1, n)) = n
      /\ \A i \in 1..n: SubSeq(s, 1, n)[i] = s[i]
  BY <1>1, SubSeqProperties
<1>3. DOMAIN SubSeq(s, 1, n) = 1..n /\ 1..n \subseteq 1..Len(s)
  BY <1>1, <1>2, LenProperties
<1> QED BY <1>1, <1>2, <1>3 DEF Range

LEMMA RegisteredTyped ==
  ASSUME TypeOK
  PROVE  /\ Registered = {Dests[i]: i \in 1..wired}
         /\ Registered \subseteq Destinations /\ Reached \subseteq Destinations
         /\ wired = Len(Dests) => Registered = Destinations
<1>1. Dests \in Seq(Names) /\ wired \in 0..Len(Dests)
  BY ArgsTyped DEF TypeOK
<1>2. Registered = {Dests[i]: i \in 1..wired} /\ Registered \subseteq Destinations
  BY <1>1, Firsts DEF Registered, Destinations
<1>3. wired = Len(Dests) => Registered = Destinations
  BY <1>1, <1>2, LenProperties DEF Destinations, Range
<1> QED BY <1>2, <1>3 DEF Reached

LEMMA RegisteredGrows ==
  ASSUME TypeOK, TypeOK', args' = args, wired <= wired'
  PROVE  Registered \subseteq Registered'
<1>1. Dests' = Dests /\ Dests \in Seq(Names) /\ wired \in 0..Len(Dests) /\ wired' \in 0..Len(Dests)
  BY ArgsTyped DEF TypeOK, Dests
<1>2. Registered = {Dests[i]: i \in 1..wired} /\ Registered' = {Dests[i]: i \in 1..wired'}
  BY <1>1, Firsts DEF Registered
<1>3. Len(Dests) \in Nat
  BY <1>1, LenProperties
<1>4. 1..wired \subseteq 1..wired'
  BY <1>1, <1>3
<1> QED BY <1>2, <1>4

Contents == [buffer: Seq(Numbers), pipe: Seq(Numbers), leaked: Nat]

\* put, get and the feeder thread change one queue.
LEMMA PutChanges ==
  ASSUME TypeOK, NEW q \in Queues, NEW line \in Numbers, PutOn(q, line)
  PROVE  /\ queue' \in [Queues -> Contents]
         /\ queue'[q].buffer = Append(queue[q].buffer, line) /\ queue'[q].pipe = queue[q].pipe
         /\ \A o \in Queues: o # q => queue'[o] = queue[o]
<1>1. queue \in [Queues -> Contents]
  BY DEF TypeOK, Contents
<1>2. queue[q].buffer \in Seq(Numbers) /\ queue[q].pipe \in Seq(Numbers)
  BY <1>1 DEF Contents
<1>3. Append(queue[q].buffer, line) \in Seq(Numbers)
  BY <1>2, AppendProperties
<1>4. queue' = [queue EXCEPT ![q] = [queue[q] EXCEPT !.buffer = Append(queue[q].buffer, line)]]
  BY DEF PutOn
<1>5. [queue[q] EXCEPT !.buffer = Append(queue[q].buffer, line)] \in Contents
  BY <1>1, <1>2, <1>3 DEF Contents
<1>6. /\ [queue[q] EXCEPT !.buffer = Append(queue[q].buffer, line)].buffer = Append(queue[q].buffer, line)
      /\ [queue[q] EXCEPT !.buffer = Append(queue[q].buffer, line)].pipe = queue[q].pipe
  BY <1>1 DEF Contents
<1> HIDE DEF Contents
<1> QED BY <1>1, <1>4, <1>5, <1>6

LEMMA GetChanges ==
  ASSUME TypeOK, NEW q \in Queues, ~LooksEmpty(q), GetFrom(q)
  PROVE  /\ queue' \in [Queues -> Contents]
         /\ Head(queue[q].pipe) \in Numbers
         /\ queue'[q].pipe = Tail(queue[q].pipe) /\ queue'[q].buffer = queue[q].buffer
         /\ \A o \in Queues: o # q => queue'[o] = queue[o]
<1>1. queue \in [Queues -> Contents]
  BY DEF TypeOK, Contents
<1>2. queue[q].buffer \in Seq(Numbers) /\ queue[q].pipe \in Seq(Numbers) /\ queue[q].pipe # <<>>
  BY <1>1 DEF Contents, LooksEmpty
<1>3. Tail(queue[q].pipe) \in Seq(Numbers) /\ Head(queue[q].pipe) \in Numbers
  BY <1>2, HeadTailProperties
<1>4. queue' = [queue EXCEPT ![q] = [queue[q] EXCEPT !.pipe = Tail(queue[q].pipe)]]
  BY DEF GetFrom
<1>5. [queue[q] EXCEPT !.pipe = Tail(queue[q].pipe)] \in Contents
  BY <1>1, <1>2, <1>3 DEF Contents
<1>6. /\ [queue[q] EXCEPT !.pipe = Tail(queue[q].pipe)].pipe = Tail(queue[q].pipe)
      /\ [queue[q] EXCEPT !.pipe = Tail(queue[q].pipe)].buffer = queue[q].buffer
  BY <1>1 DEF Contents
<1> HIDE DEF Contents
<1> QED BY <1>1, <1>3, <1>4, <1>5, <1>6

LEMMA FlushChanges ==
  ASSUME TypeOK, NEW q \in Queues, Flush(q)
  PROVE  /\ queue' \in [Queues -> Contents]
         /\ queue[q].buffer # <<>>
         /\ queue'[q].buffer = Tail(queue[q].buffer)
         /\ queue'[q].pipe = Append(queue[q].pipe, Head(queue[q].buffer))
         /\ \A o \in Queues: o # q => queue'[o] = queue[o]
<1> DEFINE c == [queue[q] EXCEPT !.buffer = Tail(queue[q].buffer),
                                 !.pipe = Append(queue[q].pipe, Head(queue[q].buffer))]
<1>1. queue \in [Queues -> Contents]
  BY DEF TypeOK, Contents
<1>2. queue[q].buffer \in Seq(Numbers) /\ queue[q].pipe \in Seq(Numbers) /\ queue[q].buffer # <<>>
  BY <1>1 DEF Contents, Flush
<1>3. /\ Tail(queue[q].buffer) \in Seq(Numbers)
      /\ Append(queue[q].pipe, Head(queue[q].buffer)) \in Seq(Numbers)
  BY <1>2, HeadTailProperties, AppendProperties
<1>4. queue' = [queue EXCEPT ![q] = c]
  BY DEF Flush
<1>5. c \in Contents
  BY <1>1, <1>2, <1>3 DEF Contents
<1>6. c.buffer = Tail(queue[q].buffer) /\ c.pipe = Append(queue[q].pipe, Head(queue[q].buffer))
  BY <1>1 DEF Contents
<1> HIDE DEF Contents, c
<1> QED BY <1>1, <1>2, <1>4, <1>5, <1>6

\* The publisher knows destinations only.
LEMMA TargetsTyped ==
  ASSUME TypeOK
  PROVE  /\ Targets \in Seq(Names) /\ Range(Targets) \subseteq Destinations
         /\ \A n \in 1..Len(Targets): n <= Len(Dests) /\ Targets[n] = Dests[n]
<1> DEFINE n == IF PublisherIsProcess THEN publisher.dests ELSE wired
<1>1. n \in 0..Len(Dests)
  BY DEF TypeOK
<1>2. Dests \in Seq(Names) /\ \A i \in 1..Len(Dests): Dests[i] \in Destinations
  BY ArgsTyped
<1>3. Targets = SubSeq(Dests, 1, n)
  BY DEF Targets
<1> HIDE DEF n
<1>4. Targets \in Seq(Names) /\ Len(Targets) = n /\ \A i \in 1..n: Targets[i] = Dests[i]
  BY <1>1, <1>2, <1>3, SubSeqProperties
<1>5. Range(Targets) \subseteq Destinations
  BY <1>1, <1>2, <1>4 DEF Range
<1> QED BY <1>1, <1>4, <1>5

LEMMA TargetsKnown ==
  ASSUME TypeOK, StagesInv
  PROVE  Range(Targets) \subseteq Registered
<1> DEFINE n == IF PublisherIsProcess THEN publisher.dests ELSE wired
<1>1. /\ wired \in 0..Len(Dests) /\ publisher.dests \in 0..Len(Dests)
      /\ publisher.dests <= wired /\ Len(Dests) \in Nat /\ Dests \in Seq(Names)
  BY ArgsTyped DEF TypeOK, StagesInv, PublisherInTurn
<1>2. n \in 0..Len(Dests) /\ 1..n \subseteq 1..wired
  BY <1>1
<1>3. Targets = SubSeq(Dests, 1, n)
  BY DEF Targets
<1> HIDE DEF n
<1>4. Range(Targets) = {Dests[i]: i \in 1..n}
  BY <1>1, <1>2, <1>3, Firsts
<1> QED BY <1>2, <1>4, RegisteredTyped

\* A process that exits empties buffers, and gives up what was in them.
LEMMA ReleaseChanges ==
  ASSUME TypeOK, Release
  PROVE  /\ queue' \in [Queues -> Contents]
         /\ dropped \subseteq dropped' /\ dropped' \subseteq dropped \cup Destinations
         /\ \A d \in dropped' \ dropped: queue[d].buffer # <<>>
         /\ \A q \in Queues:
              /\ queue'[q].pipe = queue[q].pipe
              /\ \/ queue'[q] = queue[q]
                 \/ q \in dropped' /\ queue'[q].buffer = <<>>
<1> DEFINE unflushed == {d \in Range(Targets): queue[d].buffer # <<>>}
           emptied(q) == Cut(queue[q])
<1>1. /\ queue' = [q \in Queues |-> IF q \in unflushed THEN emptied(q) ELSE queue[q]]
      /\ dropped' = dropped \cup unflushed
  BY DEF Release
<1>2. queue \in [Queues -> Contents]
  BY DEF TypeOK, Contents
<1>3. unflushed \subseteq Destinations
  BY TargetsTyped
<1>4. ASSUME NEW q \in Queues
      PROVE emptied(q) \in Contents /\ emptied(q).buffer = <<>> /\ emptied(q).pipe = queue[q].pipe
  <2>1. queue[q] \in Contents
    BY <1>2
  <2>2. <<>> \in Seq(Numbers)
    BY EmptySeq
  <2>3. queue[q].leaked + Len(queue[q].buffer) \in Nat
    <3> DEFINE n == Len(queue[q].buffer)
    <3>1. queue[q].leaked \in Nat /\ n \in Nat
      BY <2>1, LenProperties DEF Contents
    <3> HIDE DEF n
    <3> QED BY <3>1 DEF n
  <2> QED BY <2>1, <2>2, <2>3 DEF Contents, Cut
<1>5. \A d \in unflushed: queue[d].buffer # <<>>
  OBVIOUS
<1> HIDE DEF unflushed, emptied, Contents
<1> QED BY <1>1, <1>2, <1>3, <1>4, <1>5

LEMMA TypeInit == Init => TypeOK
<1> SUFFICES ASSUME Init PROVE TypeOK
  OBVIOUS
<1>1. args \in Call
  BY EndpointsAssumption DEF Init
<1>2. args.early \in 0..Lines /\ Dests \in Seq(Names) /\ Len(Dests) \in Nat
  BY <1>1 DEF Call, Dests
<1>3. [i \in 1..args.early |-> i] \in Seq(Numbers)
  <2>1. args.early \in Nat /\ \A i \in 1..args.early: i \in Numbers
    BY <1>2, LinesAssumption DEF Numbers
  <2> QED BY <2>1, IsASeq
<1>4. queue \in [Queues -> [buffer: Seq(Numbers), pipe: Seq(Numbers), leaked: Nat]]
  BY <1>3 DEF Init
<1>5. mode \in [Names -> Modes \cup {"path"}]
  BY EndpointsAssumption DEF Init
<1>6. received \in [Names -> Seq(Numbers)] /\ waiting \in Seq(Queues) /\ writers \in Seq(Names)
  BY DEF Init
<1>7. /\ publisher \in [pc: {"check", "get", "put", "flush", "dead"}, stop: BOOLEAN,
                        line: 0..Lines, todo: Seq(Names), missed: SUBSET Names,
                        dests: 0..Len(Dests)]
      /\ taken \in 0..Lines
  BY <1>2, LinesAssumption DEF Init
<1>8. /\ args \in Calls /\ threadOnly \in BOOLEAN /\ timedOut \in BOOLEAN
      /\ builder \in Steps /\ dropped \subseteq Names
  BY ZenonT(30) DEF Init, Steps
<1>9. wired \in 0..Len(Dests)
  BY <1>2 DEF Init
<1>10. /\ reader \in [pc: {"off", "read", "put", "check", "flush", "dead"}, stop: BOOLEAN]
       /\ writer \in [Names -> [pc: {"off", "get", "check", "dead", "failed"}, stop: BOOLEAN]]
  BY DEF Init
<1> QED BY <1>4, <1>5, <1>6, <1>7, <1>8, <1>9, <1>10 DEF TypeOK

LEMMA TypeReader == TypeOK /\ StagesInv /\ Reader => TypeOK'
<1> SUFFICES ASSUME TypeOK, StagesInv, Reader PROVE TypeOK'
  OBVIOUS
<1>1. CASE Read
  <2>1. taken' \in 0..Lines
    BY <1>1, LinesAssumption DEF Read, TypeOK
  <2>2. reader' \in [pc: {"off", "read", "put", "check", "flush", "dead"}, stop: BOOLEAN]
    BY <1>1 DEF Read, ReaderEnds, TypeOK
  <2> QED BY <1>1, <2>1, <2>2 DEF Read, TypeOK, calls, files, Dests
<1>2. CASE ReaderPut
  <2>1. ReaderPuts \in Queues
    BY ArgsTyped DEF ReaderPuts, Queues
  <2>2. taken \in Numbers
    <3>1. taken \in 0..Lines
      BY DEF TypeOK
    <3>2. taken # 0
      BY <1>2 DEF ReaderPut, StagesInv, ReaderInTurn
    <3> QED BY <3>1, <3>2, LinesAssumption DEF Numbers
  <2>3. queue' \in [Queues -> Contents]
    BY <1>2, <2>1, <2>2, PutChanges DEF ReaderPut
  <2>4. reader' \in [pc: {"off", "read", "put", "check", "flush", "dead"}, stop: BOOLEAN]
    BY <1>2 DEF ReaderPut, TypeOK
  <2> QED BY <1>2, <2>3, <2>4 DEF ReaderPut, TypeOK, calls, files, Dests, Contents
<1>3. CASE ReaderCheck \/ ReaderFlushed
  <2>1. reader' \in [pc: {"off", "read", "put", "check", "flush", "dead"}, stop: BOOLEAN]
    BY <1>3 DEF ReaderCheck, ReaderFlushed, ReaderEnds, TypeOK
  <2> QED BY <1>3, <2>1 DEF ReaderCheck, ReaderFlushed, TypeOK, calls, files, Dests
<1> QED BY <1>1, <1>2, <1>3 DEF Reader

LEMMA TypePublisher == TypeOK /\ StagesInv /\ Publisher => TypeOK'
<1> SUFFICES ASSUME TypeOK, StagesInv, Publisher PROVE TypeOK'
  OBVIOUS
<1> DEFINE PublisherType ==
      [pc: {"check", "get", "put", "flush", "dead"}, stop: BOOLEAN, line: 0..Lines,
       todo: Seq(Names), missed: SUBSET Names, dests: 0..Len(Dests)]
<1>a. publisher \in PublisherType /\ 0 \in 0..Lines
  BY LinesAssumption DEF TypeOK
<1>b. PublisherEnds => publisher' \in PublisherType
  BY <1>a DEF PublisherEnds
<1>1. CASE PublisherCheck
  <2>1. publisher' \in PublisherType
    BY <1>1, <1>a, <1>b DEF PublisherCheck
  <2> QED BY <1>1, <2>1 DEF PublisherCheck, TypeOK, calls, files, Dests
<1>2. CASE PublisherGet
  <2>1. CASE LooksEmpty(In) /\ publisher' = [publisher EXCEPT !.pc = "check"] /\ UNCHANGED queue
    <3>1. publisher' \in PublisherType
      BY <2>1, <1>a
    <3> QED BY <1>2, <2>1, <3>1 DEF PublisherGet, TypeOK, calls, files, Dests
  <2>2. CASE /\ ~LooksEmpty(In) /\ GetFrom(In)
             /\ publisher' = [publisher EXCEPT !.pc = "put", !.line = Head(queue[In].pipe),
                                               !.todo = Targets]
    <3>1. queue' \in [Queues -> Contents] /\ Head(queue[In].pipe) \in Numbers
      BY <2>2, GetChanges DEF Queues
    <3>2. Targets \in Seq(Names)
      BY TargetsTyped
    <3>3. Numbers \subseteq 0..Lines
      BY LinesAssumption DEF Numbers
    <3>4. publisher' \in PublisherType
      BY <2>2, <1>a, <3>1, <3>2, <3>3
    <3> QED BY <1>2, <3>1, <3>4 DEF PublisherGet, TypeOK, calls, files, Dests, Contents
  <2> QED BY <1>2, <2>1, <2>2 DEF PublisherGet
<1>3. CASE PublisherPut
  <2> DEFINE d == Head(publisher.todo)
  <2>1. d \in Names /\ Tail(publisher.todo) \in Seq(Names)
    BY <1>3, <1>a, HeadTailProperties DEF PublisherPut
  <2>2. publisher.line \in Numbers
    <3>1. publisher.line \in 0..Lines
      BY <1>a
    <3>2. publisher.line # 0
      BY <1>3 DEF PublisherPut, StagesInv, PublisherInTurn
    <3> QED BY <3>1, <3>2, LinesAssumption DEF Numbers
  <2> HIDE DEF d
  <2>3. CASE /\ PutOn(d, publisher.line)
             /\ publisher' = [publisher EXCEPT !.todo = Tail(@)]
             /\ UNCHANGED dropped
    <3>1. queue' \in [Queues -> Contents]
      BY <2>1, <2>2, <2>3, PutChanges DEF Queues
    <3>2. publisher' \in PublisherType
      BY <2>1, <2>3, <1>a
    <3> QED BY <1>3, <2>3, <3>1, <3>2 DEF PublisherPut, TypeOK, calls, files, Dests, Contents
  <2>4. CASE /\ publisher' = [publisher EXCEPT !.todo = Tail(@), !.missed = @ \cup {d}]
             /\ dropped' = dropped \cup {d} /\ UNCHANGED queue
    <3>1. publisher' \in PublisherType
      BY <2>1, <2>4, <1>a
    <3>2. dropped' \subseteq Names
      BY <2>1, <2>4 DEF TypeOK
    <3> QED BY <1>3, <2>4, <3>1, <3>2 DEF PublisherPut, TypeOK, calls, files, Dests
  <2> QED BY <1>3, <2>3, <2>4 DEF PublisherPut, d
<1>4. CASE PublisherDone
  <2>1. publisher' \in PublisherType
    BY <1>4, <1>a, <1>b DEF PublisherDone
  <2> QED BY <1>4, <2>1 DEF PublisherDone, TypeOK, calls, files, Dests
<1>5. CASE Release
  <2>1. publisher' \in PublisherType
    BY <1>5, <1>a DEF Release
  <2>2. queue' \in [Queues -> Contents] /\ dropped' \subseteq Names
    BY <1>5, ReleaseChanges, ArgsTyped DEF TypeOK
  <2> QED BY <1>5, <2>1, <2>2 DEF Release, TypeOK, calls, files, Dests, Contents
<1> QED BY <1>1, <1>2, <1>3, <1>4, <1>5 DEF Publisher

LEMMA TypeFlow ==
  ASSUME TypeOK, NEW d \in Queues,
         Flush(d) \/ Produce \/ (d \in Names /\ (Writer(d) \/ Consume(d)))
  PROVE  TypeOK'
<1> DEFINE Received(line) == received' = [received EXCEPT ![d] = Append(@, line)]
<1>1. ASSUME d \in Names, NEW line \in Numbers, Received(line)
      PROVE received' \in [Names -> Seq(Numbers)]
  <2>1. received \in [Names -> Seq(Numbers)]
    BY DEF TypeOK
  <2>2. Append(received[d], line) \in Seq(Numbers)
    BY <1>1, <2>1, AppendProperties
  <2> QED BY <1>1, <2>1, <2>2
<1>2. CASE Flush(d)
  <2>1. queue' \in [Queues -> Contents]
    BY <1>2, FlushChanges
  <2> QED BY <1>2, <2>1 DEF Flush, TypeOK, stages, calls, files, Dests, Contents
<1>3. CASE Produce
  <2>1. taken + 1 \in Numbers /\ taken' \in 0..Lines
    BY <1>3, LinesAssumption DEF Produce, TypeOK, Numbers
  <2>2. queue' \in [Queues -> Contents]
    BY <1>3, <2>1, PutChanges DEF Produce, Queues
  <2> QED BY <1>3, <2>1, <2>2 DEF Produce, TypeOK, stages, calls, files, Dests, Contents
<1>4. CASE d \in Names /\ Consume(d)
  <2>1. queue' \in [Queues -> Contents] /\ Head(queue[d].pipe) \in Numbers
    BY <1>4, GetChanges DEF Consume
  <2>2. received' \in [Names -> Seq(Numbers)]
    BY <1>1, <1>4, <2>1 DEF Consume
  <2> QED BY <1>4, <2>1, <2>2 DEF Consume, TypeOK, stages, calls, Dests, Contents
<1>5. CASE d \in Names /\ Writer(d)
  <2> DEFINE WriterType == [Names -> [pc: {"off", "get", "check", "dead", "failed"}, stop: BOOLEAN]]
  <2>1. ASSUME NEW pc \in {"get", "check", "dead", "failed"}, WriterTurn(d, pc)
        PROVE  writer' \in WriterType
    BY <2>1 DEF WriterTurn, TypeOK
  <2>2. writer' \in WriterType
    BY <1>5, <2>1 DEF Writer, WriterGet, WriterCheck
  <2>3. CASE UNCHANGED <<queue, files>>
    BY <1>5, <2>2, <2>3 DEF Writer, WriterGet, WriterCheck, TypeOK, stages, calls, files, Dests
  <2>4. CASE ~LooksEmpty(d) /\ WriterGet(d)
    <3> DEFINE line == Head(queue[d].pipe)
    <3>1. queue' \in [Queues -> Contents] /\ line \in Numbers
      BY <2>4, GetChanges DEF WriterGet
    <3>2. received' \in [Names -> Seq(Numbers)]
      BY <1>1, <1>5, <2>4, <3>1 DEF WriterGet, TypeOK
    <3>3. ModeFor(d, line) \in Modes \cup {"path"}
      <4>1. args \in Call /\ mode[d] \in Modes \cup {"path"}
        BY <1>5, EndpointsAssumption DEF TypeOK
      <4>2. args.content[line] \in Modes
        BY <4>1, <3>1 DEF Call, Numbers
      <4> QED BY <4>1, <4>2 DEF ModeFor, Modes
    <3>4. mode' \in [Names -> Modes \cup {"path"}]
      BY <2>4, <3>3 DEF WriterGet, TypeOK
    <3> QED BY <2>2, <2>4, <3>1, <3>2, <3>4 DEF WriterGet, TypeOK, calls, Dests, Contents
  <2> QED BY <1>5, <2>3, <2>4 DEF Writer, WriterGet, WriterCheck
<1> QED BY <1>2, <1>3, <1>4, <1>5

\* link() stays within its arguments.
LEMMA TypeBuild == TypeOK /\ StagesInv /\ (Build \/ StartFails) => TypeOK'
<1> SUFFICES ASSUME TypeOK, StagesInv, Build \/ StartFails PROVE TypeOK'
  OBVIOUS
<1> DEFINE WriterType == [Names -> [pc: {"off", "get", "check", "dead", "failed"}, stop: BOOLEAN]]
           PublisherType ==
             [pc: {"check", "get", "put", "flush", "dead"}, stop: BOOLEAN, line: 0..Lines,
              todo: Seq(Names), missed: SUBSET Names, dests: 0..Len(Dests)]
<1>a. Len(Dests) \in Nat /\ \A n \in 1..Len(Dests): Dests[n] \in Names
  BY ArgsTyped
<1>b. ASSUME NEW d \in Names, StartWriter(d) PROVE writer' \in WriterType /\ writers' \in Seq(Names)
  <2>1. writer \in WriterType /\ writers \in Seq(Names)
    BY DEF TypeOK
  <2>2. Append(writers, d) \in Seq(Names)
    BY <2>1, AppendProperties
  <2> QED BY <1>b, <2>1, <2>2 DEF StartWriter, WriterTurn
<1>1. CASE Link
  <2>1. builder' \in Steps
    BY <1>1 DEF Link, Rejected, Steps
  <2> QED BY <1>1, <2>1 DEF Link, TypeOK, stages, files, Dests
<1>2. CASE Insert
  <2>1. wired' \in 0..Len(Dests)
    <3>1. builder = "insert" /\ (wired' = wired \/ wired' = wired + 1)
      BY <1>2 DEF Insert
    <3>2. wired \in 0..Len(Dests) /\ wired < Len(Dests)
      BY <3>1 DEF TypeOK, StagesInv, Wired, Wiring
    <3> QED BY <1>a, <3>1, <3>2
  <2>2. builder' \in Steps
    BY <1>2 DEF Insert, Steps
  <2> QED BY <1>2, <2>1, <2>2 DEF Insert, TypeOK, stages, files, Dests
<1>3. CASE Request
  <2>1. publisher' \in PublisherType
    BY <1>3 DEF Request, TypeOK
  <2>2. builder' \in Steps
    BY <1>3 DEF Request, Steps
  <2> QED BY <1>3, <2>1, <2>2 DEF Request, TypeOK, stages, files, Dests
<1>4. CASE Start
  <2>1. wired \in 1..Len(Dests)
    BY <1>4, <1>a DEF Start, TypeOK, StagesInv, Wired
  <2>2. writer' \in WriterType /\ writers' \in Seq(Names)
    BY <1>4, <1>a, <1>b, <2>1 DEF Start
  <2>3. publisher' \in PublisherType
    <3>1. 0 \in 0..Lines /\ wired \in 0..Len(Dests)
      BY LinesAssumption DEF TypeOK
    <3>2. <<>> \in Seq(Names)
      BY EmptySeq
    <3> QED BY <1>4, <3>1, <3>2 DEF Start, NewPublisher
  <2>4. builder' \in Steps
    BY <1>4 DEF Start, Steps
  <2> QED BY <1>4, <2>2, <2>3, <2>4 DEF Start, TypeOK, files, Dests
<1>5. CASE StartReader
  <2>1. writer' \in WriterType /\ writers' \in Seq(Names)
    BY <1>5, <1>b, ArgsTyped DEF StartReader, TypeOK
  <2>2. reader' \in [pc: {"off", "read", "put", "check", "flush", "dead"}, stop: BOOLEAN]
    BY <1>5 DEF StartReader, TypeOK
  <2>3. builder' \in Steps
    BY <1>5 DEF StartReader, Steps
  <2> QED BY <1>5, <2>1, <2>2, <2>3 DEF StartReader, TypeOK, files, Dests
<1>6. CASE StartFails
  <2>1. publisher' \in PublisherType
    <3>1. 0 \in 0..Lines /\ wired \in 0..Len(Dests) /\ publisher \in PublisherType
      BY LinesAssumption DEF TypeOK
    <3>2. <<>> \in Seq(Names)
      BY EmptySeq
    <3>3. NewPublisher \in PublisherType
      BY <3>1, <3>2 DEF NewPublisher
    <3>4. \/ publisher' = [publisher EXCEPT !.stop = FALSE] \/ publisher' = NewPublisher
          \/ publisher' = publisher
      BY <1>6 DEF StartFails
    <3> QED BY <3>1, <3>3, <3>4
  <2>2. reader' \in [pc: {"off", "read", "put", "check", "flush", "dead"}, stop: BOOLEAN]
    BY <1>6 DEF StartFails, TypeOK
  <2>3. builder' \in Steps
    BY <1>6 DEF StartFails, Steps
  <2> QED BY <1>6, <2>1, <2>2, <2>3 DEF StartFails, TypeOK, files, Dests
<1> QED BY <1>1, <1>2, <1>3, <1>4, <1>5, <1>6 DEF Build

LEMMA TypeCollect == TypeOK /\ Collect => TypeOK'
<1> SUFFICES ASSUME TypeOK, Collect PROVE TypeOK'
  OBVIOUS
<1>1. reader' \in [pc: {"off", "read", "put", "check", "flush", "dead"}, stop: BOOLEAN]
  BY DEF Collect, TypeOK
<1>2. publisher' \in [pc: {"check", "get", "put", "flush", "dead"}, stop: BOOLEAN, line: 0..Lines,
                      todo: Seq(Names), missed: SUBSET Names, dests: 0..Len(Dests)]
  BY DEF Collect, TypeOK
<1>3. writer' \in [Names -> [pc: {"off", "get", "check", "dead", "failed"}, stop: BOOLEAN]]
  <2> DEFINE WriterType == [Names -> [pc: {"off", "get", "check", "dead", "failed"}, stop: BOOLEAN]]
  <2>1. writer' = writer \/ \E d \in Names: writer' = [writer EXCEPT ![d].stop = TRUE]
    BY DEF Collect
  <2>2. writer \in WriterType
    BY DEF TypeOK
  <2>3. ASSUME NEW d \in Names, writer' = [writer EXCEPT ![d].stop = TRUE] PROVE writer' \in WriterType
    BY <2>2, <2>3
  <2> QED BY <2>1, <2>2, <2>3
<1> QED BY <1>1, <1>2, <1>3 DEF Collect, TypeOK, calls, files, Dests

LEMMA TypeStop == TypeOK /\ StagesInv /\ (BeginStop \/ Stop) => TypeOK'
<1> SUFFICES ASSUME TypeOK, StagesInv, BeginStop \/ Stop PROVE TypeOK'
  OBVIOUS
<1>a. /\ writers \in Seq(Queues) /\ waiting \in Seq(Queues) /\ <<>> \in Seq(Queues)
      /\ waiting # <<>> => Tail(waiting) \in Seq(Queues)
  <2>1. writers \in Seq(Names) /\ waiting \in Seq(Queues) /\ Names \subseteq Queues
    BY DEF TypeOK, Queues
  <2>2. writers \in Seq(Queues)
    BY <2>1, SeqMonotonic
  <2> QED BY <2>1, <2>2, EmptySeq, HeadTailProperties
<1>1. CASE BeginStop
  <2>1. waiting' \in Seq(Queues)
    <3>1. <<In>> \in Seq(Queues)
      BY DEF Queues
    <3>2. InternalQueues \in Seq(Queues)
      BY <1>a, <3>1, ConcatProperties DEF InternalQueues
    <3> QED BY <1>1, <3>2 DEF BeginStop
  <2>2. reader' \in [pc: {"off", "read", "put", "check", "flush", "dead"}, stop: BOOLEAN]
    BY <1>1 DEF BeginStop, TypeOK, HasReader
  <2>3. builder' \in Steps
    BY <1>1 DEF BeginStop, Step, Steps
  <2> QED BY <1>1, <2>1, <2>2, <2>3 DEF BeginStop, TypeOK, files, Dests
<1>2. CASE Drain
  <2>1. waiting' \in Seq(Queues)
    BY <1>2, <1>a DEF Drain
  <2>2. publisher' \in [pc: {"check", "get", "put", "flush", "dead"}, stop: BOOLEAN, line: 0..Lines,
                        todo: Seq(Names), missed: SUBSET Names, dests: 0..Len(Dests)]
    BY <1>2 DEF Drain, TypeOK, HasLink, HasReader
  <2>3. builder' \in Steps
    BY <1>2 DEF Drain, Steps, TypeOK
  <2>4. timedOut' \in BOOLEAN
    BY <1>2 DEF Drain, TypeOK
  <2> QED BY <1>2, <2>1, <2>2, <2>3, <2>4 DEF Drain, TypeOK, files, Dests
<1>3. CASE JoinPublisher
  <2>1. publisher' \in [pc: {"check", "get", "put", "flush", "dead"}, stop: BOOLEAN, line: 0..Lines,
                        todo: Seq(Names), missed: SUBSET Names, dests: 0..Len(Dests)]
    BY <1>3 DEF JoinPublisher, TypeOK
  <2>2. builder' \in Steps
    BY <1>3 DEF JoinPublisher, Step, Steps
  <2> QED BY <1>3, <2>1, <2>2 DEF JoinPublisher, TypeOK, files, Dests
<1>4. CASE StopWriter
  <2>1. writer' \in [Names -> [pc: {"off", "get", "check", "dead", "failed"}, stop: BOOLEAN]]
    BY <1>4 DEF StopWriter, TypeOK
  <2>2. builder' \in Steps
    BY <1>4 DEF StopWriter, Step, Steps
  <2> QED BY <1>4, <2>1, <2>2 DEF StopWriter, TypeOK, files, Dests
<1>5. CASE JoinReader \/ JoinWriter \/ EndStop
  <2>1. waiting' \in Seq(Queues)
    BY <1>5, <1>a DEF JoinReader, JoinWriter, EndStop, Step, StagesInv, WritersInTurn
  <2>2. builder' \in Steps
    BY <1>5 DEF JoinReader, JoinWriter, EndStop, Step, Steps
  <2> QED BY <1>5, <2>1, <2>2 DEF JoinReader, JoinWriter, EndStop, TypeOK, stages, files, Dests
<1> QED BY <1>1, <1>2, <1>3, <1>4, <1>5 DEF Stop

LEMMA TypeNext == TypeOK /\ StagesInv /\ [Next]_vars => TypeOK'
<1> SUFFICES ASSUME TypeOK, StagesInv, [Next]_vars PROVE TypeOK'
  OBVIOUS
<1>1. CASE UNCHANGED vars
  <2>1. /\ taken' = taken /\ queue' = queue /\ dropped' = dropped /\ received' = received
        /\ mode' = mode /\ reader' = reader /\ publisher' = publisher /\ writer' = writer
        /\ args' = args /\ wired' = wired /\ writers' = writers /\ builder' = builder
        /\ waiting' = waiting
    BY <1>1 DEF vars, stages, files, calls
  <2>2. threadOnly' \in BOOLEAN /\ timedOut' \in BOOLEAN
    BY <1>1 DEF vars, calls, TypeOK
  <2> QED BY <2>1, <2>2 DEF TypeOK, Dests
<1>2. CASE Reader \/ Publisher \/ Build \/ StartFails \/ Collect \/ BeginStop \/ Stop
  BY <1>2, TypeReader, TypePublisher, TypeBuild, TypeCollect, TypeStop
<1>3. CASE Produce
  <2>1. PICK q \in Queues: q = In
    BY DEF Queues
  <2>2. Flush(q) \/ Produce \/ (q \in Names /\ (Writer(q) \/ Consume(q)))
    BY <1>3
  <2> QED BY <2>2, TypeFlow
<1>4. ASSUME NEW d \in Queues, Flush(d) \/ (d \in Names /\ (Writer(d) \/ Consume(d)))
      PROVE  TypeOK'
  BY <1>4, TypeFlow
<1>5. ASSUME NEW d \in Names, Writer(d) \/ Consume(d) PROVE TypeOK'
  <2>1. d \in Queues
    BY DEF Queues
  <2> QED BY <1>4, <1>5, <2>1
<1> QED BY <1>1, <1>2, <1>3, <1>4, <1>5 DEF Next

-----------------------------------------------------------------------------
(* The order of starting and stopping, proved *)

\* What each kind of step leaves as it is.
LEMMA OthersMove ==
  ASSUME [Next]_vars
  PROVE  \/ Build \/ StartFails \/ BeginStop \/ Stop
         \/ UNCHANGED <<args, wired, builder, waiting>>
BY DEF Next, vars, calls, Reader, Publisher, Writer, Collect,
   Read, ReaderPut, ReaderCheck, ReaderFlushed, PublisherCheck, PublisherGet, PublisherPut,
   PublisherDone, Release, Produce, WriterGet, WriterCheck, Consume, Flush

LEMMA WiredNext == TypeOK /\ StagesInv /\ [Next]_vars => Wired'
<1> SUFFICES ASSUME TypeOK, StagesInv, [Next]_vars PROVE Wired'
  OBVIOUS
<1>1. args' = args /\ threadOnly' = threadOnly
  BY ArgsKept
<1>2. /\ HasReader' = HasReader /\ HasLink' = HasLink /\ Rejected' = Rejected /\ Dests' = Dests
      /\ Len(Dests) \in Nat /\ wired \in 0..Len(Dests) /\ (~HasLink => HasReader)
  BY <1>1, ArgsTyped DEF HasReader, HasLink, Rejected, Dests, Files, Destinations, TypeOK
<1>3. CASE UNCHANGED <<args, wired, builder, waiting>>
  BY <1>2, <1>3 DEF Wired, StagesInv
<1>4. CASE Link
  <2>1. Rejected \in {"no", "ValueError", "TypeError"} /\ (Rejected = "no" => Dests # <<>>)
    BY DEF Rejected
  <2>2. wired = 0 /\ wired' = wired
    BY <1>4 DEF Link, StagesInv, Unbuilt, Before
  <2>3. Dests # <<>> => Len(Dests) > 0
    BY ArgsTyped, EmptySeq
  <2>4. builder' = IF Rejected # "no" THEN Rejected ELSE IF HasLink THEN "insert" ELSE "reader"
    BY <1>4 DEF Link
  <2>5. CASE Rejected # "no"
    BY <1>2, <2>1, <2>4, <2>5 DEF Wired, Before, Wiring
  <2>6. CASE Rejected = "no" /\ HasLink
    BY <1>2, <2>1, <2>2, <2>3, <2>4, <2>6 DEF Wired, Before, Wiring
  <2>7. CASE Rejected = "no" /\ ~HasLink
    BY <1>2, <2>4, <2>7 DEF Wired, Before, Wiring
  <2> QED BY <2>5, <2>6, <2>7
<1>5. CASE Insert
  <2>1. HasLink /\ builder = "insert" /\ Rejected = "no"
    BY <1>5 DEF Insert, Wired, StagesInv, Before, Wiring
  <2>2. builder' = "broken" \/ (builder' = "request" /\ wired' # 0)
    BY <1>2, <1>5 DEF Insert
  <2> QED BY <1>2, <2>1, <2>2 DEF Wired, Before, Wiring
<1>6. CASE Request
  BY <1>2, <1>6 DEF Request, Wired, StagesInv, Before, Wiring
<1>7. CASE Start
  BY <1>2, <1>7 DEF Start, Wired, StagesInv, Before, Wiring
<1>8. CASE StartReader
  BY <1>2, <1>8 DEF StartReader, Wired, StagesInv, Before, Wiring
<1>9. CASE BeginStop \/ Stop
  BY <1>2, <1>9 DEF BeginStop, Stop, JoinReader, Drain, JoinPublisher, StopWriter, JoinWriter,
     EndStop, Step, Wired, StagesInv, Before, Wiring
<1>10. CASE StartFails
  BY <1>2, <1>10 DEF StartFails, Wired, StagesInv, Before, Wiring
<1> QED BY <1>3, <1>4, <1>5, <1>6, <1>7, <1>8, <1>9, <1>10, OthersMove DEF Build

LEMMA UnbuiltNext == TypeOK /\ StagesInv /\ [Next]_vars => Unbuilt'
<1> SUFFICES ASSUME TypeOK, StagesInv, [Next]_vars, builder' \in Before
             PROVE  /\ wired' = 0 /\ publisher'.pc = "dead"
                    /\ \A d \in Names: /\ received'[d] = <<>> /\ writer'[d].pc = "off"
                                       /\ queue'[d].buffer = <<>> /\ queue'[d].pipe = <<>>
  BY DEF Unbuilt
<1>1. builder \in Before /\ (~Link => builder' = builder /\ wired' = wired)
  BY OthersMove, ArgsTyped DEF Build, Stop, Link, Insert, Request, Start, StartReader, StartFails,
     BeginStop, JoinReader, Drain, JoinPublisher, StopWriter, JoinWriter, EndStop, Step, Before
<1>2. /\ wired = 0 /\ publisher.pc = "dead" /\ ~publisher.stop /\ reader.pc \in {"off", "dead"}
      /\ \A d \in Names: /\ received[d] = <<>> /\ writer[d].pc = "off"
                         /\ queue[d].buffer = <<>> /\ queue[d].pipe = <<>>
  BY <1>1 DEF StagesInv, Unbuilt, ReaderInTurn, Unread, PublisherInTurn, Before
<1>3. wired' = 0
  BY <1>1, <1>2 DEF Link
<1>4. ~(Reader \/ Publisher)
  BY <1>2 DEF Reader, Read, ReaderPut, ReaderCheck, ReaderFlushed, Publisher, PublisherCheck,
     PublisherGet, PublisherPut, PublisherDone, Release
<1>5. ~(BeginStop \/ Stop \/ Insert \/ Request \/ Start \/ StartReader \/ StartFails \/ Collect)
  BY <1>1 DEF BeginStop, Stop, Insert, Request, Start, StartReader, StartFails, Collect, JoinReader,
     Drain, JoinPublisher, StopWriter, JoinWriter, EndStop, Step, Before
<1>6. CASE Link \/ UNCHANGED vars
  BY <1>2, <1>3, <1>6 DEF Link, vars, stages, files, calls
<1>7. CASE Produce
  <2>1. UNCHANGED <<stages, files>>
    BY <1>7 DEF Produce
  <2>2. \A d \in Names: queue'[d] = queue[d]
    <3>1. taken + 1 \in Numbers
      BY <1>7, LinesAssumption DEF Produce, TypeOK, Numbers
    <3> QED BY <1>7, <3>1, PutChanges, EndpointsAssumption DEF Produce, Queues
  <2> QED BY <1>2, <1>3, <2>1, <2>2 DEF stages, files
<1>8. ASSUME NEW q \in Queues, Flush(q)
      PROVE  UNCHANGED <<stages, files>> /\ \A d \in Names: queue'[d] = queue[d]
  <2>1. q = In
    BY <1>2, <1>8 DEF Flush, Queues
  <2> QED BY <1>8, <2>1, FlushChanges, EndpointsAssumption DEF Flush, Queues
<1>9. ASSUME NEW d \in Names PROVE ~Writer(d) /\ ~Consume(d)
  BY <1>2 DEF Writer, WriterGet, WriterCheck, Consume, LooksEmpty
<1>10. CASE \E q \in Queues: Flush(q)
  BY <1>2, <1>3, <1>8, <1>10 DEF stages, files
<1> QED BY <1>4, <1>5, <1>6, <1>7, <1>9, <1>10 DEF Next, Build

LEMMA WritersNext == TypeOK /\ StagesInv /\ [Next]_vars => WritersInTurn'
<1> SUFFICES ASSUME TypeOK, StagesInv, [Next]_vars PROVE WritersInTurn'
  OBVIOUS
<1>1. Files' = Files
  BY ArgsKept DEF Files, Destinations, Dests
<1>2. builder' = "join writer" => waiting' # <<>>
  BY OthersMove DEF Build, Stop, Link, Insert, Request, Start, StartReader, StartFails, BeginStop,
     JoinReader, Drain, JoinPublisher, StopWriter, JoinWriter, EndStop, Step, Rejected,
     StagesInv, WritersInTurn
<1> DEFINE Closing == Stopped \cup {"broken"}
<1>3. builder \in Closing => builder' \in Closing
  BY OthersMove DEF Build, Stop, Link, Insert, Request, Start, StartReader, StartFails, BeginStop,
     JoinReader, Drain, JoinPublisher, StopWriter, JoinWriter, EndStop, Step, Stopped
<1>4. SUFFICES ASSUME NEW d \in Names
               PROVE  /\ writer'[d].pc # "off" => d \in Files
                      /\ writer'[d].stop => builder' \in Closing
                      /\ writer'[d].pc = "dead" => writer'[d].stop
  BY <1>1, <1>2 DEF WritersInTurn
<1>5. /\ writer[d].pc # "off" => d \in Files
      /\ writer[d].stop => builder \in Closing
      /\ writer[d].pc = "dead" => writer[d].stop
      /\ writer \in [Names -> [pc: {"off", "get", "check", "dead", "failed"}, stop: BOOLEAN]]
  BY DEF StagesInv, WritersInTurn, TypeOK
<1>6. CASE UNCHANGED writer
  BY <1>3, <1>5, <1>6
<1>7. ASSUME NEW f, StartWriter(f), UNCHANGED builder \/ builder' \notin Closing,
             builder \notin Closing
      PROVE  /\ writer'[d].pc # "off" => d \in Files
             /\ writer'[d].stop => builder' \in Closing
             /\ writer'[d].pc = "dead" => writer'[d].stop
  BY <1>5, <1>7 DEF StartWriter, WriterTurn
<1>8. CASE Start
  BY <1>7, <1>8 DEF Start, Stopped
<1>9. CASE StartReader
  BY <1>6, <1>7, <1>9 DEF StartReader, Stopped
<1>10. CASE StopWriter
  BY <1>5, <1>10 DEF StopWriter, Step, Stopped
<1>11. ASSUME NEW f \in Names, Writer(f)
       PROVE  /\ writer'[d].pc # "off" => d \in Files
              /\ writer'[d].stop => builder' \in Closing
              /\ writer'[d].pc = "dead" => writer'[d].stop
  <2>1. builder' = builder
    BY <1>11 DEF Writer, WriterGet, WriterCheck, calls
  <2>2. CASE d = f
    <3>1. writer[d].pc # "off" /\ writer'[d].stop = writer[d].stop
      BY <1>5, <1>11, <2>2 DEF Writer, WriterGet, WriterCheck, WriterTurn
    <3>2. writer'[d].pc = "dead" => writer[d].stop
      BY <1>5, <1>11, <2>2 DEF Writer, WriterGet, WriterCheck, WriterTurn
    <3> QED BY <1>5, <2>1, <3>1, <3>2
  <2>3. CASE d # f
    <3>1. writer'[d] = writer[d]
      BY <1>5, <1>11, <2>3 DEF Writer, WriterGet, WriterCheck, WriterTurn
    <3> QED BY <1>5, <2>1, <3>1
  <2> QED BY <2>2, <2>3
<1>12. \/ UNCHANGED writer \/ Start \/ StartReader \/ StopWriter \/ Collect
       \/ \E f \in Names: Writer(f)
  BY DEF Next, vars, stages, Reader, Publisher, Build, StartFails, Stop, Link, Insert, Request, BeginStop,
     Read, ReaderPut, ReaderCheck, ReaderFlushed, PublisherCheck, PublisherGet, PublisherPut,
     PublisherDone, Release, Produce, Consume, Flush, JoinReader, Drain, JoinPublisher,
     JoinWriter, EndStop
<1>13. CASE Collect
  BY <1>5, <1>6, <1>13 DEF Collect, calls
<1> QED BY <1>6, <1>8, <1>9, <1>10, <1>11, <1>12, <1>13

LEMMA ReaderNext == TypeOK /\ StagesInv /\ [Next]_vars => ReaderInTurn'
<1> SUFFICES ASSUME TypeOK, StagesInv, [Next]_vars PROVE ReaderInTurn'
  OBVIOUS
<1>1. HasReader' = HasReader /\ HasLink' = HasLink
  BY ArgsKept DEF HasReader, HasLink, Dests
<1>2. /\ HasReader /\ Unread => reader.pc = "off" /\ taken = 0
      /\ ~HasReader \/ builder \in Stopped \cup {"drain", "join publisher"} => reader.pc = "dead"
      /\ reader.pc = "put" => taken # 0
      /\ reader \in [pc: {"off", "read", "put", "check", "flush", "dead"}, stop: BOOLEAN]
      /\ taken \in Nat
  <2>1. ReaderInTurn
    BY DEF StagesInv
  <2>2. /\ reader \in [pc: {"off", "read", "put", "check", "flush", "dead"}, stop: BOOLEAN]
        /\ taken \in Nat
    BY LinesAssumption DEF TypeOK
  <2> QED BY <2>1, <2>2 DEF ReaderInTurn
<1>3. CASE UNCHANGED <<reader, taken, builder>>
  BY <1>1, <1>2, <1>3 DEF ReaderInTurn, Unread
<1>4. CASE Reader
  <2>1. builder' = builder /\ (taken' = taken \/ taken' = taken + 1)
    BY <1>4 DEF Reader, Read, ReaderPut, ReaderCheck, ReaderFlushed, calls
  <2>2. /\ reader.pc \notin {"off", "dead"}
        /\ reader'.pc = "put" => taken' = taken + 1
    BY <1>2, <1>4 DEF Reader, Read, ReaderPut, ReaderCheck, ReaderFlushed, ReaderEnds
  <2>3. reader'.pc = "put" => taken' # 0
    <3>1. taken \in Nat
      BY LinesAssumption DEF TypeOK
    <3>2. taken + 1 # 0
      BY <3>1
    <3> QED BY <2>2, <3>2
  <2>4. /\ HasReader /\ ~Unread
        /\ builder \notin Stopped \cup {"drain", "join publisher"}
    <3>1. reader.pc # "dead" /\ reader.pc # "off"
      BY <2>2
    <3>2. ~(HasReader /\ Unread)
      BY <1>2, <3>1
    <3>3. ~(~HasReader \/ builder \in Stopped \cup {"drain", "join publisher"})
      BY <1>2, <3>1
    <3> QED BY <3>2, <3>3
  <2> QED BY <1>1, <2>1, <2>3, <2>4 DEF ReaderInTurn, Unread
<1>5. CASE Link \/ Insert \/ Request \/ Start
  <2>1. UNCHANGED <<reader, taken>>
    BY <1>5 DEF Link, Insert, Request, Start, stages
  <2>2. /\ builder \in Before \cup Wiring
        /\ \/ builder' \in Before \cup Wiring \cup {"reader", "broken"}
           \/ builder' = "up" /\ ~HasReader
    BY <1>5 DEF Link, Insert, Request, Start, Before, Wiring, Rejected
  <2> QED BY <1>1, <1>2, <2>1, <2>2 DEF ReaderInTurn, Unread, Before, Wiring, Stopped
<1>6. CASE StartReader
  BY <1>1, <1>2, <1>6 DEF StartReader, ReaderInTurn, Unread, Before, Wiring, Stopped, StagesInv, Wired
<1>7. CASE BeginStop \/ Stop
  <2>1. taken' = taken /\ reader'.pc = reader.pc
    BY <1>2, <1>7 DEF BeginStop, Stop, JoinReader, Drain, JoinPublisher, StopWriter, JoinWriter,
       EndStop, stages
  <2>2. /\ builder' \notin Before \cup Wiring \cup {"reader", "broken"}
        /\ builder' \in Stopped \cup {"drain", "join publisher"} => reader.pc = "dead"
    BY <1>2, <1>7 DEF BeginStop, Stop, JoinReader, Drain, JoinPublisher, StopWriter, JoinWriter,
       EndStop, Step, Before, Wiring, Stopped
  <2> QED BY <1>1, <1>2, <2>1, <2>2 DEF ReaderInTurn, Unread
<1>8. CASE Produce
  BY <1>1, <1>2, <1>8 DEF Produce, ReaderInTurn, Unread, stages, calls
<1>9. CASE StartFails
  <2>1. taken' = taken /\ builder \in Unstarted /\ builder' = "broken" /\ (HasLink => reader' = reader)
    BY <1>9 DEF StartFails, Unstarted
  <2>2. reader'.pc = "put" => reader.pc = "put"
    BY <1>2, <1>9 DEF StartFails
  <2>3. ~HasReader => reader'.pc = "dead"
    BY <1>2, <2>1 DEF HasLink
  <2>4. HasReader /\ HasLink => reader'.pc = "off" /\ taken' = 0
    BY <1>2, <2>1 DEF Unread, Unstarted, Wiring
  <2>5. reader'.pc = "put" => taken' # 0
    BY <1>2, <2>1, <2>2
  <2> QED BY <1>1, <2>1, <2>3, <2>4, <2>5 DEF ReaderInTurn, Unread, Before, Wiring, Stopped
<1>10. CASE Collect
  <2>1. taken' = taken /\ builder' = builder /\ reader'.pc = reader.pc
    BY <1>2, <1>10 DEF Collect, calls
  <2> QED BY <1>1, <1>2, <2>1 DEF ReaderInTurn, Unread
<1>11. \/ UNCHANGED <<reader, taken, builder>>
       \/ Reader \/ Build \/ BeginStop \/ Stop \/ Produce \/ StartFails \/ Collect
  BY DEF Next, vars, stages, calls, Publisher, Writer, PublisherCheck, PublisherGet, PublisherPut,
     PublisherDone, Release, WriterGet, WriterCheck, Consume, Flush
<1> QED BY <1>3, <1>4, <1>5, <1>6, <1>7, <1>8, <1>9, <1>10, <1>11 DEF Build

LEMMA PublisherNext == TypeOK /\ StagesInv /\ [Next]_vars => PublisherInTurn'
<1> SUFFICES ASSUME TypeOK, StagesInv, [Next]_vars PROVE PublisherInTurn'
  OBVIOUS
<1>1. HasLink' = HasLink /\ Dests' = Dests /\ args' = args
  BY ArgsKept DEF HasLink, HasReader, Dests
<1>w. wired \in 0..Len(Dests) /\ Len(Dests) \in Nat
  BY ArgsTyped DEF TypeOK
<1>r. \/ wired' = wired
      \/ builder = "insert" /\ builder' = "request" /\ wired' = wired + 1
  BY OthersMove DEF Build, Stop, Link, Insert, Request, Start, StartReader, StartFails, BeginStop,
     JoinReader, Drain, JoinPublisher, StopWriter, JoinWriter, EndStop
<1>s. wired <= wired' /\ Registered \subseteq Registered'
  <2>1. wired <= wired'
    BY <1>w, <1>r
  <2> QED BY <1>1, <2>1, TypeNext, RegisteredGrows
<1>2. /\ publisher.stop \/ publisher.pc = "flush" => builder \in {"start", "join publisher", "broken"}
      /\ publisher.missed # {} => publisher.stop /\ publisher.pc = "put"
      /\ ~HasLink \/ builder \in Stopped => publisher.pc = "dead"
      /\ HasLink /\ builder \in Running =>
           publisher.pc # "dead" /\ publisher.dests = Len(Dests)
      /\ builder = "join publisher" => publisher.dests = Len(Dests)
      /\ publisher.dests <= wired
      /\ builder \in {"insert", "broken"} => publisher.pc = "dead" \/ publisher.dests = wired
      /\ publisher.pc = "put" => publisher.line # 0 /\ Range(publisher.todo) \subseteq Registered
  BY DEF StagesInv, PublisherInTurn
<1>3. publisher \in [pc: {"check", "get", "put", "flush", "dead"}, stop: BOOLEAN,
                     line: 0..Lines, todo: Seq(Names), missed: SUBSET Names, dests: 0..Len(Dests)]
  BY DEF TypeOK
<1>t. publisher'.dests = publisher.dests => publisher'.dests <= wired'
  <2>1. publisher.dests \in Nat /\ wired \in Nat /\ wired' \in Nat
    BY <1>w, <1>r, <1>3
  <2>2. publisher.dests <= wired /\ wired <= wired'
    BY <1>s, <1>2
  <2> QED BY <2>1, <2>2
<1>4. CASE UNCHANGED <<publisher, builder>>
  BY <1>1, <1>r, <1>s, <1>t, <1>2, <1>4 DEF PublisherInTurn
<1>5. CASE Publisher
  <2>1. builder' = builder /\ wired' = wired /\ publisher.pc # "dead"
    BY <1>5 DEF Publisher, PublisherCheck, PublisherGet, PublisherPut, PublisherDone, Release, calls
  <2>2. /\ publisher.pc # "dead" /\ publisher'.stop = publisher.stop
        /\ publisher'.dests = publisher.dests
        /\ publisher'.missed # {} => publisher.stop /\ publisher'.pc = "put"
        /\ publisher'.pc = "flush" => publisher.stop
        /\ publisher'.pc = "dead" => publisher.stop \/ publisher.pc = "flush"
    <3>1. CASE PublisherPut
      BY <1>2, <1>3, <3>1 DEF PublisherPut
    <3>2. CASE PublisherCheck
      BY <1>2, <1>3, <3>2 DEF PublisherCheck, PublisherEnds
    <3>3. CASE PublisherGet
      <4>1. /\ publisher.pc = "get"
            /\ \E line, todo: \/ publisher' = [publisher EXCEPT !.pc = "check"]
                             \/ publisher' = [publisher EXCEPT !.pc = "put", !.line = line, !.todo = todo]
        BY <3>3, Zenon DEF PublisherGet
      <4> QED BY <1>2, <1>3, <4>1
    <3>4. CASE PublisherDone
      BY <1>2, <1>3, <3>4 DEF PublisherDone, PublisherEnds
    <3>5. CASE Release
      BY <1>2, <1>3, <3>5 DEF Release
    <3> QED BY <1>5, <3>1, <3>2, <3>3, <3>4, <3>5 DEF Publisher
  <2>3. CASE PublisherGet /\ publisher'.pc = "put"
    <3>1. ~LooksEmpty(In) /\ GetFrom(In)
          /\ publisher' = [publisher EXCEPT !.pc = "put", !.line = Head(queue[In].pipe), !.todo = Targets]
      BY <1>3, <2>3 DEF PublisherGet
    <3>2. Head(queue[In].pipe) \in Numbers
      BY <3>1, GetChanges DEF Queues
    <3>3. publisher'.line # 0 /\ Range(publisher'.todo) \subseteq Registered
      BY <1>3, <3>1, <3>2, TargetsKnown DEF Numbers
    <3> QED BY <1>1, <1>s, <1>t, <1>2, <2>1, <2>2, <3>3 DEF PublisherInTurn, Running
  <2>4. CASE PublisherPut
    <3>1. publisher'.line = publisher.line /\ publisher'.todo = Tail(publisher.todo)
          /\ publisher.pc = "put" /\ publisher.todo # <<>>
      BY <1>3, <2>4 DEF PublisherPut
    <3>2. Range(Tail(publisher.todo)) \subseteq Range(publisher.todo)
      BY <1>3, <3>1, HeadTailProperties DEF Range
    <3> QED BY <1>1, <1>s, <1>t, <1>2, <2>1, <2>2, <3>1, <3>2 DEF PublisherInTurn, Running
  <2>5. CASE publisher'.pc # "put"
    BY <1>1, <1>t, <1>2, <2>1, <2>2, <2>5 DEF PublisherInTurn, Running
  <2>6. PublisherPut \/ PublisherGet \/ publisher'.pc # "put"
    BY <1>3, <1>5 DEF Publisher, PublisherCheck, PublisherDone, PublisherEnds, Release
  <2> QED BY <2>3, <2>4, <2>5, <2>6
<1>6. CASE Link \/ Insert \/ StartReader
  <2>1. publisher' = publisher
    BY <1>6 DEF Link, Insert, StartReader, stages
  <2>2. /\ ~publisher.stop /\ publisher.pc # "flush"
        /\ \/ builder' \in Before \cup Wiring \cup {"reader"}
           \/ builder = "reader" /\ builder' = "up"
           \/ builder = "insert" /\ builder' = "broken" /\ wired' = wired
        /\ builder' = "reader" => ~HasLink
    BY <1>2, <1>6 DEF Link, Insert, StartReader, Before, Wiring, Rejected
  <2>3. builder' = "insert" => publisher.pc = "dead"
    <3>1. builder' = "insert" => builder = "call"
      BY <1>6 DEF Link, Insert, StartReader
    <3> QED BY <3>1 DEF StagesInv, Unbuilt, Before
  <2>4. publisher'.pc = "put" => publisher'.line # 0 /\ Range(publisher'.todo) \subseteq Registered'
    BY <1>s, <1>2, <2>1
  <2>5. builder' = "broken" => publisher.pc = "dead" \/ publisher.dests = wired'
    BY <1>2, <2>2 DEF Before, Wiring
  <2>6. /\ ~HasLink \/ builder' \in Stopped => publisher.pc = "dead"
        /\ HasLink /\ builder' \in Running => publisher.pc # "dead" /\ publisher.dests = Len(Dests)
        /\ builder' # "join publisher"
    BY <1>2, <2>2 DEF Before, Wiring, Running, Stopped
  <2>7. publisher'.dests <= wired' /\ (publisher.missed # {} => FALSE)
    BY <1>t, <1>2, <2>1, <2>2
  <2> QED BY <1>1, <2>1, <2>2, <2>3, <2>4, <2>5, <2>6, <2>7 DEF PublisherInTurn
<1>7. CASE Request
  <2>1. HasLink
    BY <1>7 DEF Request, StagesInv, Wired, Wiring
  <2>2. publisher' = [publisher EXCEPT !.stop = TRUE] /\ builder' = "start"
    BY <1>7 DEF Request
  <2> QED BY <1>1, <1>s, <1>t, <1>2, <1>3, <2>1, <2>2 DEF PublisherInTurn, Running, Stopped
<1>8. CASE Start
  <2>1. HasLink
    BY <1>8 DEF Start, StagesInv, Wired, Wiring
  <2>2. publisher' = NewPublisher /\ builder' \in {"insert", "reader", "up"}
        /\ (builder' # "insert" => wired = Len(Dests)) /\ wired' = wired
    BY <1>w, <1>8 DEF Start
  <2>3. /\ publisher'.pc = "check" /\ ~publisher'.stop /\ publisher'.missed = {}
        /\ publisher'.dests = wired' /\ publisher'.dests <= wired'
    BY <1>w, <2>2 DEF NewPublisher
  <2> QED BY <1>1, <2>1, <2>2, <2>3 DEF PublisherInTurn, Running, Stopped
<1>9. CASE BeginStop \/ JoinReader \/ StopWriter \/ JoinWriter \/ EndStop
  <2>1. /\ publisher' = publisher
        /\ \/ builder \in Running /\ builder' \in Running
           \/ builder \in Stopped /\ builder' \in Stopped
    BY <1>9 DEF BeginStop, JoinReader, StopWriter, JoinWriter, EndStop, Step, Running, Stopped, stages
  <2>2. publisher'.pc = "put" => publisher'.line # 0 /\ Range(publisher'.todo) \subseteq Registered'
    BY <1>s, <1>2, <2>1
  <2> QED BY <1>1, <1>t, <1>2, <2>1, <2>2 DEF PublisherInTurn, Running, Stopped
<1>10. CASE Drain
  <2>1. builder = "drain" /\ publisher'.pc = publisher.pc /\ publisher'.line = publisher.line
        /\ publisher'.todo = publisher.todo /\ publisher'.missed = publisher.missed
        /\ publisher'.dests = publisher.dests
    BY <1>3, <1>10 DEF Drain
  <2>2. \/ builder' = builder /\ publisher'.stop = publisher.stop
        \/ HasLink /\ builder' = "join publisher" /\ publisher'.stop
        \/ ~HasLink /\ builder' = "stop writers" /\ ~publisher'.stop
    BY <1>3, <1>10 DEF Drain
  <2> QED BY <1>1, <1>s, <1>t, <1>2, <2>1, <2>2 DEF PublisherInTurn, Running, Stopped
<1>11. CASE JoinPublisher
  <2>1. publisher.pc = "dead" /\ builder' = "stop writers"
        /\ publisher' = [publisher EXCEPT !.stop = FALSE]
    BY <1>11 DEF JoinPublisher, Step
  <2> QED BY <1>1, <1>t, <1>2, <1>3, <2>1 DEF PublisherInTurn, Running, Stopped
<1>12. CASE StartFails
  <2>1. /\ builder' = "broken" /\ wired' = wired
        /\ \/ publisher' = NewPublisher /\ builder = "start"
           \/ publisher' = [publisher EXCEPT !.stop = FALSE] /\ builder = "start" /\ publisher.pc = "dead"
           \/ publisher' = publisher /\ builder = "reader"
    BY <1>12 DEF StartFails
  <2>2. builder = "start" => HasLink
    BY DEF StagesInv, Wired, Wiring
  <2>3. builder = "reader" => publisher.pc = "dead" \/ publisher.dests = wired
    <3>1. builder = "reader" /\ HasLink => publisher.dests = Len(Dests) /\ wired = Len(Dests)
      BY <1>2 DEF StagesInv, Wired, Running, Before, Wiring
    <3> QED BY <1>2, <3>1
  <2>4. CASE publisher' = NewPublisher /\ builder = "start"
    <3>1. /\ publisher'.pc = "check" /\ ~publisher'.stop /\ publisher'.missed = {}
          /\ publisher'.dests = wired' /\ publisher'.dests <= wired'
      BY <1>w, <2>1, <2>4 DEF NewPublisher
    <3> QED BY <1>1, <2>1, <2>2, <2>4, <3>1 DEF PublisherInTurn, Running, Stopped
  <2>5. CASE publisher' = [publisher EXCEPT !.stop = FALSE] /\ builder = "start" /\ publisher.pc = "dead"
    BY <1>1, <1>t, <1>2, <1>3, <2>1, <2>2, <2>5 DEF PublisherInTurn, Running, Stopped
  <2>6. CASE publisher' = publisher /\ builder = "reader"
    BY <1>1, <1>s, <1>t, <1>2, <2>1, <2>3, <2>6 DEF PublisherInTurn, Running, Stopped
  <2> QED BY <2>1, <2>4, <2>5, <2>6
<1>13. CASE Collect
  <2>1. /\ builder = "broken" /\ builder' = "broken" /\ wired' = wired
        /\ publisher'.pc = publisher.pc /\ publisher'.line = publisher.line
        /\ publisher'.todo = publisher.todo /\ publisher'.missed = publisher.missed
        /\ publisher'.dests = publisher.dests /\ (publisher.stop => publisher'.stop)
    BY <1>3, <1>13 DEF Collect, calls
  <2> QED BY <1>1, <1>s, <1>t, <1>2, <2>1 DEF PublisherInTurn, Running, Stopped
<1>14. \/ UNCHANGED <<publisher, builder>> \/ Publisher \/ Build \/ BeginStop \/ Stop
       \/ StartFails \/ Collect
  BY DEF Next, vars, stages, calls, Reader, Read, ReaderPut, ReaderCheck, ReaderFlushed, Writer,
     WriterGet, WriterCheck, Consume, Flush, Produce
<1> QED BY <1>4, <1>5, <1>6, <1>7, <1>8, <1>9, <1>10, <1>11, <1>12, <1>13, <1>14 DEF Build, Stop

LEMMA StagesInit == Init => StagesInv
<1> SUFFICES ASSUME Init PROVE StagesInv
  OBVIOUS
<1>1. /\ builder = "call" /\ wired = 0 /\ waiting = <<>> /\ taken = IF HasReader THEN 0 ELSE args.early
      /\ reader.pc = (IF HasReader THEN "off" ELSE "dead") /\ publisher.pc = "dead"
      /\ ~publisher.stop /\ publisher.missed = {} /\ publisher.dests = 0
      /\ \A d \in Names: writer[d].pc = "off" /\ ~writer[d].stop /\ received[d] = <<>>
  BY DEF Init
<1>2. \A d \in Names: queue[d].buffer = <<>> /\ queue[d].pipe = <<>>
  BY EndpointsAssumption DEF Init, Queues
<1>3. Unbuilt
  BY <1>1, <1>2 DEF Unbuilt
<1>4. Wired /\ WritersInTurn
  BY <1>1 DEF Wired, WritersInTurn, Before, Wiring
<1>5. ReaderInTurn /\ PublisherInTurn
  BY <1>1 DEF ReaderInTurn, Unread, PublisherInTurn, Before, Wiring, Running, Stopped
<1> QED BY <1>3, <1>4, <1>5 DEF StagesInv

LEMMA StagesNext == TypeOK /\ StagesInv /\ [Next]_vars => StagesInv'
BY WiredNext, UnbuiltNext, ReaderNext, PublisherNext, WritersNext DEF StagesInv

\* Every variable keeps its type, and every stage starts and ends in its turn: the reader runs
\* only when all destinations are wired, the publisher ends only when it is stopped.
THEOREM PipelineTypeCorrect == Spec => []TypeOK
BY TypeInit, StagesInit, TypeNext, StagesNext, PTL DEF Spec

THEOREM StagesInTurn == Spec => []StagesInv
BY TypeInit, StagesInit, TypeNext, StagesNext, PTL DEF Spec

\* stop() takes the stages down from the source on and waits for each, so that nobody is left to
\* put on the queue of a writer when that writer ends.
THEOREM WritersLast == Spec => WritersOutlive
<1>1. TypeOK /\ StagesInv /\ [Next]_vars =>
        [\A d \in Files: writer[d].pc = "dead" /\ builder # "broken" =>
           Len(queue'[d].buffer) <= Len(queue[d].buffer)]_vars
  <2> SUFFICES ASSUME TypeOK, StagesInv, Next, NEW d \in Files, writer[d].pc = "dead", builder # "broken"
               PROVE  Len(queue'[d].buffer) <= Len(queue[d].buffer)
    OBVIOUS
  <2>1. d \in Names /\ d # In /\ d \in Queues
    BY ArgsTyped, EndpointsAssumption DEF Queues
  <2>2. builder \in Stopped
    BY <2>1 DEF StagesInv, WritersInTurn
  <2>3. reader.pc = "dead" /\ publisher.pc = "dead"
    BY <2>2 DEF StagesInv, ReaderInTurn, PublisherInTurn
  <2>4. queue[d].buffer \in Seq(Numbers)
    BY <2>1 DEF TypeOK
  <2>5. CASE queue'[d].buffer = queue[d].buffer
    BY <2>4, <2>5
  <2>6. ASSUME NEW q \in Queues, GetFrom(q), ~LooksEmpty(q)
        PROVE  queue'[d].buffer = queue[d].buffer
    BY <2>1, <2>6, GetChanges
  <2>7. ASSUME NEW q \in Queues, Flush(q)
        PROVE  Len(queue'[d].buffer) <= Len(queue[d].buffer)
    <3>1. CASE q = d
      <4>1. queue[d].buffer # <<>> /\ queue'[d].buffer = Tail(queue[d].buffer)
        BY <2>7, <3>1, FlushChanges
      <4> QED BY <2>4, <4>1
    <3>2. CASE q # d
      <4>1. queue'[d] = queue[d]
        BY <2>1, <2>7, <3>2, FlushChanges
      <4> QED BY <2>5, <4>1
    <3> QED BY <3>1, <3>2
  <2>8. CASE Produce
    <3>1. taken + 1 \in Numbers
      BY <2>8, LinesAssumption DEF Produce, TypeOK, Numbers
    <3> QED BY <2>1, <2>5, <2>8, <3>1, PutChanges DEF Produce, Queues
  <2>9. ~(Reader \/ Publisher)
    BY <2>3 DEF Reader, Read, ReaderPut, ReaderCheck, ReaderFlushed, Publisher, PublisherCheck,
       PublisherGet, PublisherPut, PublisherDone, Release
  <2>10. CASE Build \/ StartFails \/ Collect \/ BeginStop \/ Stop
    BY <2>5, <2>10 DEF Build, StartFails, Collect, Stop, Link, Insert, Request, Start, StartReader, BeginStop,
       JoinReader, Drain, JoinPublisher, StopWriter, JoinWriter, EndStop
  <2>11. ASSUME NEW o \in Names, Writer(o) \/ Consume(o)
         PROVE  queue'[d].buffer = queue[d].buffer
    <3>1. o \in Queues
      BY DEF Queues
    <3> QED BY <2>6, <2>11, <3>1 DEF Writer, WriterGet, WriterCheck, Consume
  <2> QED BY <2>5, <2>7, <2>8, <2>9, <2>10, <2>11 DEF Next
<1> QED BY <1>1, PipelineTypeCorrect, StagesInTurn, PTL DEF WritersOutlive, Spec

-----------------------------------------------------------------------------
(* Where the lines are *)

\* The lines of s are those after the first n, one by one; those of a queue are, from the
\* oldest, which get returns next, to the newest.
Follows(s, n) == \A i \in 1..Len(s): s[i] = n + i
InTurn(content, n) == Follows(content.pipe, n) /\ Follows(content.buffer, n + Len(content.pipe))

\* How many lines have been put on d, how many the reader has put, how many the publisher has
\* taken, and whether it still has to put the last of them on d.
PutBefore(d) == Len(received[d]) + Queued(d)
ReadOut  == taken - (IF reader.pc = "put" THEN 1 ELSE 0)
Got      == ReadOut - Queued(In)
ToPut(d) == IF publisher.pc = "put" /\ d \in Range(publisher.todo) THEN 1 ELSE 0

\* What a destination has received, and what is queued for it, has no gap.
GetsInOrder(d) ==
  /\ Follows(received[d], 0) /\ Len(received[d]) <= taken
  /\ writer[d].pc # "failed" => InTurn(queue[d], Len(received[d])) /\ PutBefore(d) <= taken
  /\ writer[d].pc = "failed" => taken # 0
InOrder == \A d \in Names: GetsInOrder(d)

\* Nor has what is queued for the publisher, which has the last line it took in hand.
SourceInOrder ==
  HasLink =>
    /\ Got >= 0 /\ InTurn(queue[In], Got)
    /\ publisher.pc = "put" => publisher.line = Got /\ IsInjective(publisher.todo)

\* Every line the publisher has decided on has been put on each destination not given up.
HasAll(d) == writer[d].pc # "failed" => PutBefore(d) = IF HasLink THEN Got - ToPut(d) ELSE ReadOut
Complete == \A d \in Reached \ dropped: HasAll(d)

\* While link() wires a source queue is empty, or has a single destination, at which nobody works.
FilledInTurn ==
  ~HasReader /\ builder \in Wiring \cup {"call"} =>
    \/ taken = 0 /\ ~args.meanwhile
    \/ Len(Dests) <= 1 /\ publisher.pc = "dead" /\ \A d \in Names: writer[d].pc = "off"

\* A destination is given up only by a publisher that takes no line any more, whom nobody replaces.
GivenUp ==
  /\ dropped # {} =>
       /\ HasLink /\ builder \in Stopped \cup {"join publisher", "broken"}
       /\ \/ publisher.pc \in {"flush", "dead"}
          \/ publisher.pc = "put" /\ publisher.missed # {}
  /\ publisher.pc = "put" => \A d \in Range(publisher.todo): d \notin dropped
  /\ FilledInTurn

Flow == InOrder /\ SourceInOrder /\ Complete
FlowInv == Flow /\ GivenUp

LEMMA FollowsAppend ==
  ASSUME NEW s \in Seq(Int), NEW n \in Int, Follows(s, n)
  PROVE  /\ Len(Append(s, n + Len(s) + 1)) = Len(s) + 1
         /\ Follows(Append(s, n + Len(s) + 1), n)
<1> DEFINE e == n + Len(s) + 1
           a == Append(s, e)
<1>1. Len(s) \in Nat /\ e \in Int
  BY LenProperties
<1>2. e = n + (Len(s) + 1)
  BY <1>1
<1> HIDE DEF e
<1>3. Len(a) = Len(s) + 1 /\ \A i \in 1..Len(s): a[i] = s[i]
  BY <1>1, AppendProperties
<1>4. a[Len(s) + 1] = e
  BY <1>1, AppendProperties
<1> HIDE DEF a
<1>5. ASSUME NEW i \in 1..Len(a) PROVE a[i] = n + i
  <2>1. i \in 1..Len(s) \/ i = Len(s) + 1
    BY <1>1, <1>3
  <2> QED BY <1>2, <1>3, <1>4, <2>1 DEF Follows
<1> QED BY <1>3, <1>5 DEF Follows, a, e

LEMMA FollowsTail ==
  ASSUME NEW s \in Seq(Int), NEW n \in Int, Follows(s, n), s # <<>>
  PROVE  Head(s) = n + 1 /\ Len(Tail(s)) = Len(s) - 1 /\ Follows(Tail(s), n + 1)
<1>1. Len(s) \in Nat \ {0} /\ Head(s) = s[1]
  BY EmptySeq, LenProperties
<1>2. Len(Tail(s)) = Len(s) - 1 /\ \A i \in 1..Len(s) - 1: Tail(s)[i] = s[i + 1]
  BY HeadTailProperties
<1>3. ASSUME NEW i \in 1..Len(Tail(s)) PROVE Tail(s)[i] = (n + 1) + i
  <2>1. i \in 1..Len(s) - 1 /\ i + 1 \in 1..Len(s) /\ (n + 1) + i = n + (i + 1)
    BY <1>1, <1>2
  <2> QED BY <1>2, <2>1 DEF Follows
<1> QED BY <1>1, <1>2, <1>3 DEF Follows

LEMMA FollowsConcat ==
  ASSUME NEW s \in Seq(Int), NEW t \in Seq(Int), NEW n \in Int, NEW m \in Int,
         Follows(s, n), m = n + Len(s), Follows(t, m)
  PROVE  s \o t \in Seq(Int) /\ Len(s \o t) = Len(s) + Len(t) /\ Follows(s \o t, n)
<1>1. s \o t \in Seq(Int) /\ Len(s \o t) = Len(s) + Len(t)
  BY ConcatProperties
<1>2. ASSUME NEW i \in 1..Len(s \o t) PROVE (s \o t)[i] = n + i
  <2>1. CASE i <= Len(s)
    BY <2>1, <1>1, ConcatProperties DEF Follows
  <2>2. CASE i > Len(s)
    <3>1. (s \o t)[i] = t[i - Len(s)]
      BY <2>2, <1>1, ConcatProperties
    <3>2. i - Len(s) \in 1..Len(t)
      BY <2>2, <1>1
    <3> QED BY <3>1, <3>2 DEF Follows
  <2> QED BY <2>1, <2>2
<1> QED BY <1>1, <1>2 DEF Follows

LEMMA FollowsEqual ==
  ASSUME NEW s \in Seq(Int), Follows(s, 0)
  PROVE  s = [i \in 1..Len(s) |-> i]
BY DEF Follows

\* Arithmetic on its own: the provers do not see it among sequences.
LEMMA Sums ==
  ASSUME NEW a \in Nat, NEW b \in Nat, NEW n \in Int
  PROVE  /\ a + b \in Nat /\ n + a \in Int /\ n + b \in Int
         /\ n + (a + b) + 1 = (n + b) + a + 1
         /\ (n + 1) + (a - 1) = n + a /\ n + (a + 1) = (n + a) + 1
         /\ (a + 1) + b = (a + b) + 1
         /\ b > 0 => a + (b - 1) = (a + b) - 1 /\ a + b > 0
         /\ (a - 1) + (b + 1) = a + b
OBVIOUS

LEMMA Zeros ==
  ASSUME NEW a \in Nat, NEW b \in Nat, NEW c \in Nat, a + (b + c) <= 0 PROVE b = 0
OBVIOUS

LEMMA QueueTyped ==
  ASSUME TypeOK, NEW q \in Queues
  PROVE  /\ queue[q].buffer \in Seq(Int) /\ queue[q].pipe \in Seq(Int)
         /\ Len(queue[q].buffer) \in Nat /\ Len(queue[q].pipe) \in Nat /\ Queued(q) \in Nat
<1>1. queue[q].buffer \in Seq(Numbers) /\ queue[q].pipe \in Seq(Numbers) /\ Numbers \subseteq Int
  BY LinesAssumption DEF TypeOK, Numbers
<1>2. queue[q].buffer \in Seq(Int) /\ queue[q].pipe \in Seq(Int)
  BY <1>1, SeqMonotonic
<1>3. Len(queue[q].buffer) \in Nat /\ Len(queue[q].pipe) \in Nat
  BY <1>2, LenProperties
<1>4. Queued(q) \in Nat
  <2> DEFINE a == Len(queue[q].buffer)
             b == Len(queue[q].pipe)
  <2>1. a \in Nat /\ b \in Nat /\ Queued(q) = a + b
    BY <1>3 DEF Queued
  <2> HIDE DEF a, b
  <2> QED BY <2>1
<1> QED BY <1>2, <1>3, <1>4

\* put adds the next line, get takes the oldest, the feeder thread leaves the order alone.
LEMMA PutInTurn ==
  ASSUME TypeOK, NEW q \in Queues, NEW n \in Int, NEW line \in Numbers, PutOn(q, line),
         InTurn(queue[q], n), line = n + Queued(q) + 1
  PROVE  InTurn(queue'[q], n)
<1> DEFINE buffer == queue[q].buffer
           m == n + Len(queue[q].pipe)
<1>1. queue'[q].buffer = Append(buffer, line) /\ queue'[q].pipe = queue[q].pipe
  BY PutChanges
<1>2. buffer \in Seq(Int) /\ Len(buffer) \in Nat /\ Len(queue[q].pipe) \in Nat
  BY QueueTyped
<1>3. m \in Int /\ line = m + Len(buffer) + 1
  <2> DEFINE a == Len(buffer)
             b == Len(queue[q].pipe)
  <2>1. a \in Nat /\ b \in Nat
    BY <1>2
  <2>2. Queued(q) = a + b /\ m = n + b
    BY DEF Queued
  <2>3. line = n + (a + b) + 1
    BY <2>2
  <2> HIDE DEF a, b, m
  <2>4. m \in Int /\ line = m + a + 1
    BY <2>1, <2>2, <2>3, Sums
  <2> QED BY <2>4 DEF a
<1>4. Follows(buffer, m) /\ Follows(queue[q].pipe, n)
  BY DEF InTurn
<1>5. Follows(Append(buffer, line), m)
  <2> HIDE DEF buffer, m
  <2> QED BY <1>2, <1>3, <1>4, FollowsAppend
<1> QED BY <1>1, <1>4, <1>5 DEF InTurn

LEMMA GetInTurn ==
  ASSUME TypeOK, NEW q \in Queues, NEW n \in Int, ~LooksEmpty(q), GetFrom(q), InTurn(queue[q], n)
  PROVE  Head(queue[q].pipe) = n + 1 /\ InTurn(queue'[q], n + 1)
<1> DEFINE pipe == queue[q].pipe
<1>1. queue'[q].buffer = queue[q].buffer /\ queue'[q].pipe = Tail(pipe) /\ pipe # <<>>
  BY GetChanges DEF LooksEmpty
<1>2. pipe \in Seq(Int) /\ Len(pipe) \in Nat
  BY QueueTyped
<1>3. Follows(pipe, n) /\ Follows(queue[q].buffer, n + Len(pipe))
  BY DEF InTurn
<1> HIDE DEF pipe
<1>4. Head(pipe) = n + 1 /\ Len(Tail(pipe)) = Len(pipe) - 1 /\ Follows(Tail(pipe), n + 1)
  BY <1>1, <1>2, <1>3, FollowsTail
<1>5. n + 1 + Len(Tail(pipe)) = n + Len(pipe)
  <2> DEFINE a == Len(pipe)
  <2>1. a \in Nat /\ Len(Tail(pipe)) = a - 1
    BY <1>2, <1>4
  <2> HIDE DEF a
  <2>2. (n + 1) + (a - 1) = n + a
    BY <2>1
  <2> QED BY <2>1, <2>2 DEF a
<1> QED BY <1>1, <1>3, <1>4, <1>5 DEF InTurn, pipe

LEMMA FlushInTurn ==
  ASSUME TypeOK, NEW q \in Queues, NEW n \in Int, Flush(q), InTurn(queue[q], n)
  PROVE  InTurn(queue'[q], n)
<1> DEFINE buffer == queue[q].buffer
           pipe == queue[q].pipe
           m == n + Len(pipe)
<1>1. buffer # <<>> /\ queue'[q].buffer = Tail(buffer) /\ queue'[q].pipe = Append(pipe, Head(buffer))
  BY FlushChanges
<1>2. buffer \in Seq(Int) /\ pipe \in Seq(Int) /\ Len(pipe) \in Nat
  BY QueueTyped
<1>3. m \in Int /\ Follows(buffer, m) /\ Follows(pipe, n)
  BY <1>2 DEF InTurn
<1>4. Head(buffer) = m + 1 /\ Follows(Tail(buffer), m + 1)
  <2> HIDE DEF buffer, m
  <2> QED BY <1>1, <1>2, <1>3, FollowsTail
<1>5. Follows(Append(pipe, m + 1), n) /\ Len(Append(pipe, m + 1)) = Len(pipe) + 1
  <2> HIDE DEF pipe
  <2> QED BY <1>2, <1>3, FollowsAppend DEF m
<1>6. n + Len(Append(pipe, m + 1)) = m + 1
  BY <1>2, <1>5
<1> QED BY <1>1, <1>4, <1>5, <1>6 DEF InTurn

\* How many lines a queue holds.
LEMMA QueuedChanges ==
  ASSUME TypeOK, NEW q \in Queues
  PROVE  /\ \A line \in Numbers: PutOn(q, line) => Queued(q)' = Queued(q) + 1
         /\ ~LooksEmpty(q) /\ GetFrom(q) => Queued(q)' = Queued(q) - 1 /\ Queued(q) > 0
         /\ Flush(q) => Queued(q)' = Queued(q)
<1> DEFINE buffer == queue[q].buffer
           pipe == queue[q].pipe
<1>a. buffer \in Seq(Int) /\ pipe \in Seq(Int) /\ Len(buffer) \in Nat /\ Len(pipe) \in Nat
  BY QueueTyped
<1>b. Queued(q) = Len(buffer) + Len(pipe)
  BY DEF Queued
<1>1. ASSUME NEW line \in Numbers, PutOn(q, line) PROVE Queued(q)' = Queued(q) + 1
  <2>1. queue'[q].buffer = Append(buffer, line) /\ queue'[q].pipe = pipe
    BY <1>1, PutChanges
  <2>2. line \in Int
    BY LinesAssumption DEF Numbers
  <2>3. Len(Append(buffer, line)) = Len(buffer) + 1
    <3> HIDE DEF buffer
    <3> QED BY <1>a, <2>2
  <2>4. Queued(q)' = Len(Append(buffer, line)) + Len(pipe)
    BY <2>1 DEF Queued
  <2> HIDE DEF buffer, pipe
  <2>5. (Len(buffer) + 1) + Len(pipe) = (Len(buffer) + Len(pipe)) + 1
    BY <1>a, Sums
  <2> QED BY <1>b, <2>3, <2>4, <2>5
<1>2. ASSUME ~LooksEmpty(q), GetFrom(q) PROVE Queued(q)' = Queued(q) - 1 /\ Queued(q) > 0
  <2>1. queue'[q].buffer = buffer /\ queue'[q].pipe = Tail(pipe) /\ pipe # <<>>
    BY <1>2, GetChanges DEF LooksEmpty
  <2>2. Len(Tail(pipe)) = Len(pipe) - 1 /\ Len(pipe) > 0
    <3> HIDE DEF pipe
    <3> QED BY <1>a, <2>1
  <2>3. Queued(q)' = Len(buffer) + Len(Tail(pipe))
    BY <2>1 DEF Queued
  <2> HIDE DEF buffer, pipe
  <2>4. Len(buffer) + (Len(pipe) - 1) = (Len(buffer) + Len(pipe)) - 1 /\ Len(buffer) + Len(pipe) > 0
    BY <1>a, <2>2, Sums
  <2> QED BY <1>b, <2>2, <2>3, <2>4
<1>3. ASSUME Flush(q) PROVE Queued(q)' = Queued(q)
  <2>1. buffer # <<>> /\ queue'[q].buffer = Tail(buffer) /\ queue'[q].pipe = Append(pipe, Head(buffer))
    BY <1>3, FlushChanges
  <2>2. Len(Tail(buffer)) = Len(buffer) - 1 /\ Len(Append(pipe, Head(buffer))) = Len(pipe) + 1
    <3> HIDE DEF buffer, pipe
    <3> QED BY <1>a, <2>1
  <2>3. Queued(q)' = Len(Tail(buffer)) + Len(Append(pipe, Head(buffer)))
    BY <2>1 DEF Queued
  <2> HIDE DEF buffer, pipe
  <2>4. (Len(buffer) - 1) + (Len(pipe) + 1) = Len(buffer) + Len(pipe)
    BY <1>a, Sums
  <2> QED BY <1>b, <2>2, <2>3, <2>4
<1> QED BY <1>1, <1>2, <1>3

\* What is counted is numbers.
LEMMA Counts ==
  ASSUME TypeOK
  PROVE  /\ taken \in Nat /\ ReadOut \in Int /\ ReadOut <= taken
         /\ reader.pc = "put" => ReadOut = taken - 1
         /\ reader.pc # "put" => ReadOut = taken
         /\ Got \in Int /\ Got = ReadOut - Queued(In) /\ Queued(In) \in Nat
         /\ \A d \in Names: /\ Len(received[d]) \in Nat /\ received[d] \in Seq(Int)
                            /\ Queued(d) \in Nat /\ PutBefore(d) \in Nat
                            /\ PutBefore(d) = Len(received[d]) + Queued(d)
         /\ \A d: ToPut(d) \in {0, 1}
<1>1. taken \in Nat
  BY LinesAssumption DEF TypeOK
<1>2. /\ ReadOut \in Int /\ ReadOut <= taken
      /\ reader.pc = "put" => ReadOut = taken - 1
      /\ reader.pc # "put" => ReadOut = taken
  BY <1>1 DEF ReadOut
<1>3. Queued(In) \in Nat
  <2>1. In \in Queues
    BY DEF Queues
  <2> QED BY <2>1, QueueTyped
<1>4. Got \in Int /\ Got = ReadOut - Queued(In)
  <2>1. Got = ReadOut - Queued(In)
    BY DEF Got
  <2> QED BY <1>2, <1>3, <2>1
<1>5. ASSUME NEW d \in Names
      PROVE  /\ Len(received[d]) \in Nat /\ received[d] \in Seq(Int)
             /\ Queued(d) \in Nat /\ PutBefore(d) \in Nat
             /\ PutBefore(d) = Len(received[d]) + Queued(d)
  <2>1. received[d] \in Seq(Numbers) /\ Numbers \subseteq Int /\ d \in Queues
    BY LinesAssumption DEF TypeOK, Numbers, Queues
  <2>2. received[d] \in Seq(Int) /\ Len(received[d]) \in Nat
    BY <2>1, SeqMonotonic, LenProperties
  <2>3. Queued(d) \in Nat
    BY <2>1, QueueTyped
  <2>4. PutBefore(d) = Len(received[d]) + Queued(d)
    BY DEF PutBefore
  <2> DEFINE a == Len(received[d])
  <2>5. a \in Nat /\ PutBefore(d) = a + Queued(d)
    BY <2>2, <2>4
  <2> HIDE DEF a
  <2>6. PutBefore(d) \in Nat
    BY <2>3, <2>5
  <2> QED BY <2>2, <2>3, <2>4, <2>6
<1>6. \A d: ToPut(d) \in {0, 1}
  BY DEF ToPut
<1> QED BY <1>1, <1>2, <1>3, <1>4, <1>5, <1>6

\* The queue q is left alone, or only flushed.
SameLines(q) == Queued(q)' = Queued(q) /\ \A n \in Int: InTurn(queue[q], n) => InTurn(queue'[q], n)
SameFailure(d) == (writer'[d].pc = "failed") <=> (writer[d].pc = "failed")

LEMMA SameQueue ==
  ASSUME NEW q, queue'[q] = queue[q] PROVE SameLines(q)
BY DEF SameLines, Queued

\* What a step that does not move a line to or from d leaves as it was.
LEMMA OrderKept ==
  ASSUME TypeOK, NEW d \in Names, GetsInOrder(d), SameLines(d), SameFailure(d),
         received'[d] = received[d], taken' \in Nat, taken <= taken'
  PROVE  GetsInOrder(d)' /\ PutBefore(d)' = PutBefore(d)
<1>1. taken \in Nat /\ Len(received[d]) \in Nat /\ PutBefore(d) \in Nat
  BY Counts
<1>2. PutBefore(d)' = PutBefore(d)
  BY DEF PutBefore, SameLines
<1>3. Follows(received[d], 0)' /\ Follows(received[d], 0) /\ Len(received[d]) <= taken
  BY DEF GetsInOrder, Follows
<1>4. Len(received[d])' <= taken'
  <2> DEFINE a == Len(received[d])
  <2>1. a \in Nat /\ a <= taken /\ Len(received[d])' = a
    BY <1>1, <1>3
  <2> HIDE DEF a
  <2> QED BY <1>1, <2>1
<1>5. ASSUME writer'[d].pc # "failed"
      PROVE  InTurn(queue'[d], Len(received'[d])) /\ PutBefore(d)' <= taken'
  <2>1. InTurn(queue[d], Len(received[d])) /\ PutBefore(d) <= taken
    BY <1>5 DEF SameFailure, GetsInOrder
  <2>2. InTurn(queue'[d], Len(received'[d]))
    BY <1>1, <2>1 DEF SameLines
  <2>3. PutBefore(d)' <= taken'
    BY <1>1, <1>2, <2>1
  <2> QED BY <2>2, <2>3
<1>6. writer'[d].pc = "failed" => taken' # 0
  <2>1. writer'[d].pc = "failed" => taken # 0
    BY DEF SameFailure, GetsInOrder
  <2> QED BY <1>1, <2>1
<1> QED BY <1>2, <1>3, <1>4, <1>5, <1>6 DEF GetsInOrder

HandKept ==
  publisher'.pc = "put" =>
    publisher.pc = "put" /\ publisher'.line = publisher.line /\ publisher'.todo = publisher.todo

LEMMA SameArgs ==
  ASSUME args' = args
  PROVE  /\ Dests' = Dests /\ Destinations' = Destinations /\ Files' = Files
         /\ HasReader' = HasReader /\ HasLink' = HasLink /\ WiredFirst' = WiredFirst
BY DEF Dests, Destinations, Files, HasReader, HasLink, WiredFirst

\* The destinations link() is to reach become fewer when it raises, and never more.
LEMMA ReachedShrinks ==
  ASSUME TypeOK, TypeOK', [Next]_vars
  PROVE  Reached' \subseteq Reached
<1>1. args' = args /\ HasLink' = HasLink /\ Destinations' = Destinations
  BY ArgsKept, SameArgs
<1>2. CASE builder # "broken" \/ ~HasLink
  <2>1. Reached = Destinations
    BY <1>2 DEF Reached
  <2>2. Registered' \subseteq Destinations
    <3>1. Dests' = Dests /\ Dests \in Seq(Names)
      BY <1>1, ArgsTyped, SameArgs
    <3>2. wired' \in 0..Len(Dests)
      BY <3>1 DEF TypeOK
    <3> QED BY <3>1, <3>2, Firsts DEF Registered, Destinations
  <2> QED BY <1>1, <2>1, <2>2 DEF Reached
<1>3. CASE builder = "broken" /\ HasLink
  <2>1. builder' = "broken" /\ wired' = wired
    BY <1>3, OthersMove DEF Build, Stop, Link, Insert, Request, Start, StartReader, StartFails,
       BeginStop, JoinReader, Drain, JoinPublisher, StopWriter, JoinWriter, EndStop, Step
  <2> QED BY <1>1, <1>3, <2>1, SameArgs DEF Reached, Registered
<1> QED BY <1>2, <1>3

LEMMA SourceKept ==
  ASSUME TypeOK, SourceInOrder, args' = args, Got' = Got, HandKept,
         InTurn(queue[In], Got) => InTurn(queue'[In], Got)
  PROVE  SourceInOrder'
<1> SUFFICES ASSUME HasLink
             PROVE  /\ Got' >= 0 /\ InTurn(queue'[In], Got')
                    /\ publisher'.pc = "put" => publisher'.line = Got' /\ IsInjective(publisher'.todo)
  BY SameArgs DEF SourceInOrder
<1>1. /\ Got >= 0 /\ InTurn(queue[In], Got)
      /\ publisher.pc = "put" => publisher.line = Got /\ IsInjective(publisher.todo)
  BY DEF SourceInOrder
<1> QED BY <1>1 DEF HandKept

\* A step that moves no line but into the hand of the reader, or through a feeder thread.
LEMMA FlowKept ==
  ASSUME TypeOK, Flow, Reached' \subseteq Reached, args' = args, taken' \in Nat, taken <= taken',
         ReadOut' = ReadOut,
         received' = received, dropped' = dropped, HandKept,
         \A q \in Queues: SameLines(q),
         \A d \in Names: SameFailure(d) /\ ToPut(d)' = ToPut(d)
  PROVE  Flow'
<1>1. \A d \in Names: GetsInOrder(d)' /\ PutBefore(d)' = PutBefore(d)
  BY OrderKept DEF Flow, InOrder, Queues
<1>2. SameLines(In)
  BY DEF Queues
<1>3. Got' = Got /\ Got \in Int
  BY <1>2, Counts DEF Got, SameLines
<1>4. SourceInOrder'
  <2>1. InTurn(queue[In], Got) => InTurn(queue'[In], Got)
    BY <1>2, <1>3 DEF SameLines
  <2> QED BY <1>3, <2>1, SourceKept DEF Flow
<1>5. Complete'
  <2> SUFFICES ASSUME NEW d \in Reached \ dropped PROVE HasAll(d)'
    BY SameArgs DEF Complete
  <2>1. d \in Names /\ HasAll(d)
    BY ArgsTyped, RegisteredTyped DEF Flow, Complete
  <2>2. SameFailure(d) /\ ToPut(d)' = ToPut(d) /\ PutBefore(d)' = PutBefore(d) /\ HasLink' = HasLink
    BY <1>1, <2>1, SameArgs
  <2> QED BY <1>3, <2>1, <2>2 DEF HasAll, SameFailure
<1> QED BY <1>1, <1>4, <1>5 DEF Flow, InOrder

\* A line that is put on the queue of the publisher.
LEMMA SourcePut ==
  ASSUME TypeOK, Flow, Reached' \subseteq Reached, args' = args, HasLink, taken' \in Nat, taken <= taken',
         NEW line \in Numbers, line = ReadOut + 1, ReadOut' = ReadOut + 1, PutOn(In, line),
         received' = received, dropped' = dropped, HandKept,
         \A d \in Names: SameFailure(d) /\ ToPut(d)' = ToPut(d)
  PROVE  Flow'
<1>1. In \in Queues /\ \A d \in Names: d \in Queues /\ d # In
  BY EndpointsAssumption DEF Queues
<1>2. \A d \in Names: SameLines(d)
  BY <1>1, PutChanges, SameQueue
<1>3. \A d \in Names: GetsInOrder(d)' /\ PutBefore(d)' = PutBefore(d)
  BY <1>2, OrderKept DEF Flow, InOrder
<1>4. ReadOut \in Int /\ Got \in Int /\ Got = ReadOut - Queued(In) /\ Queued(In) \in Nat
  BY Counts
<1>5. Queued(In)' = Queued(In) + 1
  BY <1>1, QueuedChanges
<1>6. Got' = Got
  <2>1. Got' = ReadOut' - Queued(In)'
    BY DEF Got
  <2> QED BY <1>4, <1>5, <2>1
<1>7. line = Got + Queued(In) + 1
  BY <1>4
<1>8. SourceInOrder'
  <2>1. InTurn(queue[In], Got) => InTurn(queue'[In], Got)
    BY <1>1, <1>4, <1>7, PutInTurn
  <2> QED BY <1>6, <2>1, SourceKept DEF Flow
<1>9. Complete'
  <2> SUFFICES ASSUME NEW d \in Reached \ dropped PROVE HasAll(d)'
    BY SameArgs DEF Complete
  <2>1. d \in Names /\ HasAll(d)
    BY ArgsTyped, RegisteredTyped DEF Flow, Complete
  <2>2. SameFailure(d) /\ ToPut(d)' = ToPut(d) /\ PutBefore(d)' = PutBefore(d) /\ HasLink' = HasLink
    BY <1>3, <2>1, SameArgs
  <2> QED BY <1>6, <2>1, <2>2 DEF HasAll, SameFailure
<1> QED BY <1>3, <1>8, <1>9 DEF Flow, InOrder

\* A line that is put on the queue of the destination d, the next it has not got.
LEMMA NextPut ==
  ASSUME TypeOK, NEW d \in Names, GetsInOrder(d), SameFailure(d), received'[d] = received[d],
         taken' = taken, NEW line \in Numbers, PutOn(d, line),
         writer[d].pc # "failed" => line = PutBefore(d) + 1 /\ line <= taken
  PROVE  GetsInOrder(d)' /\ PutBefore(d)' = PutBefore(d) + 1
<1>1. d \in Queues
  BY DEF Queues
<1>2. /\ taken \in Nat /\ Len(received[d]) \in Nat /\ Queued(d) \in Nat
      /\ PutBefore(d) = Len(received[d]) + Queued(d) /\ PutBefore(d) \in Nat
  BY Counts
<1>3. PutBefore(d)' = PutBefore(d) + 1
  <2> DEFINE a == Len(received[d])
  <2>1. a \in Nat /\ PutBefore(d) = a + Queued(d) /\ PutBefore(d)' = a + Queued(d)'
    BY <1>2 DEF PutBefore
  <2>2. Queued(d)' = Queued(d) + 1
    BY <1>1, QueuedChanges
  <2> HIDE DEF a
  <2> QED BY <1>2, <2>1, <2>2
<1>4. Follows(received[d], 0)' /\ Len(received[d])' <= taken'
  BY DEF GetsInOrder, Follows
<1>5. ASSUME writer'[d].pc # "failed"
      PROVE  InTurn(queue'[d], Len(received'[d])) /\ PutBefore(d)' <= taken'
  <2>1. InTurn(queue[d], Len(received[d])) /\ line = PutBefore(d) + 1 /\ line <= taken
    BY <1>5 DEF SameFailure, GetsInOrder
  <2>2. line = Len(received[d]) + Queued(d) + 1
    BY <1>2, <2>1
  <2>3. Len(received[d]) \in Int
    BY <1>2
  <2>4. InTurn(queue'[d], Len(received[d]))
    BY <1>1, <2>1, <2>2, <2>3, PutInTurn
  <2> QED BY <1>3, <2>1, <2>4
<1>6. writer'[d].pc = "failed" => taken' # 0
  BY DEF SameFailure, GetsInOrder
<1> QED BY <1>3, <1>4, <1>5, <1>6 DEF GetsInOrder

\* A line that the destination d gets.
LEMMA NextGot ==
  ASSUME TypeOK, NEW d \in Names, GetsInOrder(d), SameFailure(d), writer[d].pc # "failed",
         taken' = taken, ~LooksEmpty(d), GetFrom(d),
         received'[d] = Append(received[d], Head(queue[d].pipe))
  PROVE  GetsInOrder(d)' /\ PutBefore(d)' = PutBefore(d)
<1> DEFINE n == Len(received[d])
<1>1. d \in Queues
  BY DEF Queues
<1>2. /\ taken \in Nat /\ n \in Nat /\ Queued(d) \in Nat /\ received[d] \in Seq(Int)
      /\ PutBefore(d) = n + Queued(d)
  BY Counts
<1>3. Queued(d)' = Queued(d) - 1 /\ Queued(d) > 0
  BY <1>1, QueuedChanges
<1>4. Follows(received[d], 0) /\ InTurn(queue[d], n) /\ PutBefore(d) <= taken
  BY DEF GetsInOrder
<1>5. Head(queue[d].pipe) = n + 1 /\ InTurn(queue'[d], n + 1)
  <2>1. n \in Int
    BY <1>2
  <2> HIDE DEF n
  <2> QED BY <1>1, <1>4, <2>1, GetInTurn
<1>6. Len(received'[d]) = n + 1 /\ Follows(received'[d], 0)
  <2>1. 0 + n + 1 = n + 1
    BY <1>2
  <2> QED BY <1>2, <1>4, <1>5, <2>1, FollowsAppend
<1>7. PutBefore(d)' = (n + 1) + Queued(d)'
  BY <1>6 DEF PutBefore
<1> HIDE DEF n
<1>8. PutBefore(d)' = PutBefore(d) /\ n + 1 <= taken
  BY <1>2, <1>3, <1>4, <1>7
<1> QED BY <1>4, <1>5, <1>6, <1>8 DEF GetsInOrder, SameFailure

\* Before everything is wired a publisher that runs finds nothing.
LEMMA EarlyPublisher ==
  ASSUME TypeOK, StagesInv, FlowInv, publisher.pc # "dead"
  PROVE  /\ HasLink
         /\ \/ builder \in Running \cup {"join publisher", "broken"}
            \/ builder \in Wiring /\ taken = 0 /\ LooksEmpty(In) /\ publisher.pc # "put"
<1>1. HasLink /\ builder \notin Stopped
  BY DEF StagesInv, PublisherInTurn
<1>2. builder \notin Before
  BY DEF StagesInv, Unbuilt
<1>3. builder \in Wiring \cup Running \cup {"join publisher", "broken"}
  BY <1>1, <1>2 DEF TypeOK, Steps, Before, Wiring, Running, Stopped
<1>4. ASSUME builder \in Wiring
      PROVE  taken = 0 /\ LooksEmpty(In) /\ publisher.pc # "put"
  <2>1. ~HasReader => taken = 0
    BY <1>4 DEF FlowInv, GivenUp, FilledInTurn
  <2>2. taken = 0 /\ reader.pc # "put"
    BY <1>4, <2>1 DEF StagesInv, ReaderInTurn, Unread
  <2>3. ReadOut = 0 /\ Got = 0 - Queued(In) /\ Queued(In) \in Nat
    BY <2>2, Counts
  <2>4. Got >= 0 /\ (publisher.pc = "put" => publisher.line = Got)
    BY <1>1 DEF FlowInv, Flow, SourceInOrder
  <2>5. Got = 0 /\ Queued(In) = 0
    BY <2>3, <2>4
  <2>6. publisher.pc # "put"
    BY <2>4, <2>5 DEF StagesInv, PublisherInTurn
  <2>7. LooksEmpty(In)
    <3>1. In \in Queues
      BY DEF Queues
    <3>2. Len(queue[In].pipe) \in Nat /\ Len(queue[In].buffer) \in Nat /\ queue[In].pipe \in Seq(Int)
      BY <3>1, QueueTyped
    <3> DEFINE a == Len(queue[In].pipe)
               b == Len(queue[In].buffer)
    <3>3. a \in Nat /\ b \in Nat /\ b + a = 0
      BY <2>5, <3>2 DEF Queued
    <3> HIDE DEF a, b
    <3>4. a = 0
      BY <3>3
    <3> QED BY <3>2, <3>4, EmptySeq DEF a, LooksEmpty
  <2> QED BY <2>2, <2>6, <2>7
<1> QED BY <1>1, <1>3, <1>4

LEMMA Distinct ==
  ASSUME TypeOK, StagesInv, builder \notin Before
  PROVE  IsInjective(Dests)
BY DEF StagesInv, Wired, Rejected

\* When the publisher has something to do it knows all destinations there are to reach.
LEMMA TargetsAll ==
  ASSUME TypeOK, StagesInv, HasLink, builder \in Running \cup {"join publisher", "broken"},
         publisher.pc # "dead"
  PROVE  Range(Targets) = Reached /\ IsInjective(Targets)
<1>1. publisher.dests = wired /\ (builder # "broken" => wired = Len(Dests))
  BY DEF StagesInv, PublisherInTurn, Wired, Before, Wiring, Running
<1>2. Targets = SubSeq(Dests, 1, wired)
  BY <1>1 DEF Targets
<1>3. Range(Targets) = Reached
  BY <1>1, <1>2, RegisteredTyped DEF Reached, Registered
<1>4. IsInjective(Dests)
  BY Distinct DEF Before, Running
<1>5. Dests \in Seq(Names) /\ wired \in 0..Len(Dests) /\ Len(Dests) \in Nat
  BY ArgsTyped DEF TypeOK
<1>6. /\ DOMAIN Targets \subseteq DOMAIN Dests
      /\ \A i \in DOMAIN Targets: Targets[i] = Dests[i]
  BY <1>2, <1>5, Firsts
<1> QED BY <1>3, <1>4, <1>6 DEF IsInjective

\* Steps of the others leave the hand of the publisher and its history alone.
LEMMA GivenKept ==
  ASSUME GivenUp, args' = args, dropped' = dropped,
         publisher'.pc = publisher.pc, publisher'.todo = publisher.todo,
         publisher'.missed = publisher.missed,
         builder \in Stopped \cup {"join publisher", "broken"} =>
           builder' \in Stopped \cup {"join publisher", "broken"},
         FilledInTurn'
  PROVE  GivenUp'
BY SameArgs DEF GivenUp

\* Nor do they fill a source queue, but by what they are allowed to put on it.
LEMMA FilledKept ==
  ASSUME GivenUp, args' = args, builder' = builder,
         taken' = taken \/ HasReader \/ args.meanwhile \/ builder \notin Wiring \cup {"call"},
         publisher.pc = "dead" => publisher'.pc = "dead",
         \A d \in Names: writer[d].pc = "off" => writer'[d].pc = "off"
  PROVE  FilledInTurn'
BY SameArgs DEF GivenUp, FilledInTurn

LEMMA FlowReader ==
  ASSUME TypeOK, StagesInv, FlowInv, TypeOK', Reached' \subseteq Reached, Reader
  PROVE  FlowInv'
<1>1. /\ args' = args /\ publisher' = publisher /\ writer' = writer /\ received' = received
      /\ dropped' = dropped /\ builder' = builder
  BY DEF Reader, Read, ReaderPut, ReaderCheck, ReaderFlushed, files, calls
<1>2. GivenUp'
  <2>1. HasReader
    BY DEF Reader, Read, ReaderPut, ReaderCheck, ReaderFlushed, StagesInv, ReaderInTurn
  <2> QED BY <1>1, <2>1, GivenKept, FilledKept DEF FlowInv
<1>3. HandKept /\ \A d \in Names: SameFailure(d) /\ ToPut(d)' = ToPut(d)
  BY <1>1 DEF HandKept, SameFailure, ToPut
<1>4. taken \in Nat /\ taken' \in Nat
  BY LinesAssumption DEF TypeOK
<1> SUFFICES Flow'
  BY <1>2 DEF FlowInv
<1>5. CASE Read \/ ReaderCheck \/ ReaderFlushed
  <2>1. queue' = queue
    BY <1>5 DEF Read, ReaderCheck, ReaderFlushed
  <2>2. \A q \in Queues: SameLines(q)
    BY <2>1, SameQueue
  <2>3. \/ taken' = taken + 1 /\ reader.pc # "put" /\ reader'.pc = "put"
        \/ taken' = taken /\ reader.pc # "put" /\ reader'.pc # "put"
    BY <1>5 DEF Read, ReaderCheck, ReaderFlushed, ReaderEnds, TypeOK
  <2>4. ReadOut' = ReadOut /\ taken <= taken'
    <3>1. CASE taken' = taken + 1 /\ reader.pc # "put" /\ reader'.pc = "put"
      <4>1. ReadOut = taken - 0 /\ ReadOut' = taken' - 1
        BY <3>1 DEF ReadOut
      <4> QED BY <1>4, <3>1, <4>1
    <3>2. CASE taken' = taken /\ reader.pc # "put" /\ reader'.pc # "put"
      <4>1. ReadOut = taken - 0 /\ ReadOut' = taken' - 0
        BY <3>2 DEF ReadOut
      <4> QED BY <1>4, <3>2, <4>1
    <3> QED BY <2>3, <3>1, <3>2
  <2>5. Flow
    BY DEF FlowInv
  <2> QED BY <1>1, <1>3, <1>4, <2>2, <2>4, <2>5, FlowKept
<1>6. CASE ReaderPut
  <2>1. taken' = taken /\ PutOn(ReaderPuts, taken) /\ reader.pc = "put" /\ reader'.pc = "check"
    BY <1>6 DEF ReaderPut, TypeOK
  <2>2. ReadOut = taken - 1 /\ ReadOut' = taken /\ ReadOut \in Int
    BY <1>4, <2>1 DEF ReadOut
  <2>3. taken \in Numbers
    <3>1. taken # 0
      BY <2>1 DEF StagesInv, ReaderInTurn
    <3> QED BY <3>1, LinesAssumption DEF TypeOK, Numbers
  <2>4. CASE HasLink
    <3>1. PutOn(In, taken)
      BY <2>1, <2>4 DEF ReaderPuts
    <3>2. taken = ReadOut + 1 /\ ReadOut' = ReadOut + 1 /\ taken <= taken'
      BY <1>4, <2>1, <2>2
    <3>3. PICK line \in Numbers: line = taken
      BY <2>3
    <3> QED BY <1>1, <1>3, <1>4, <2>4, <3>1, <3>2, <3>3, SourcePut DEF FlowInv
  <2>5. CASE ~HasLink
    <3>1. PICK d \in Names: d = Dests[1]
      BY <2>5, ArgsTyped
    <3>2. PutOn(d, taken) /\ Destinations = {d} /\ d \in Queues
      <4>1. Dests \in Seq(Names) /\ Len(Dests) = 1
        BY <2>5, ArgsTyped
      <4>2. DOMAIN Dests = {1}
        BY <4>1
      <4> QED BY <2>1, <2>5, <3>1, <4>2 DEF ReaderPuts, Destinations, Range, Queues
    <3>3. dropped = {}
      BY <2>5 DEF FlowInv, GivenUp
    <3>4. HasAll(d) /\ \A o \in Names: GetsInOrder(o)
      BY <2>5, <3>2, <3>3 DEF FlowInv, Flow, Complete, InOrder, Reached
    <3>5. writer[d].pc # "failed" => taken = PutBefore(d) + 1 /\ taken <= taken
      BY <1>4, <2>2, <2>5, <3>4 DEF HasAll
    <3>6. GetsInOrder(d)' /\ PutBefore(d)' = PutBefore(d) + 1
      <4>1. PICK line \in Numbers: line = taken
        BY <2>3
      <4> QED BY <1>1, <1>3, <2>1, <3>2, <3>4, <3>5, <4>1, NextPut
    <3>7. ASSUME NEW o \in Names, o # d PROVE GetsInOrder(o)'
      <4>1. PICK line \in Numbers: line = taken
        BY <2>3
      <4>2. o \in Queues
        BY DEF Queues
      <4>3. SameLines(o)
        BY <3>2, <3>7, <4>1, <4>2, PutChanges, SameQueue
      <4>4. taken <= taken'
        BY <1>4, <2>1
      <4> QED BY <1>1, <1>3, <1>4, <3>4, <4>3, <4>4, OrderKept
    <3>8. HasAll(d)'
      <4>1. ~HasLink'
        BY <1>1, <2>5, SameArgs
      <4>2. writer'[d].pc # "failed" => PutBefore(d)' = taken
        BY <1>1, <3>5, <3>6
      <4> QED BY <2>2, <4>1, <4>2 DEF HasAll
    <3>9. SourceInOrder' /\ Complete'
      BY <1>1, <2>5, <3>2, <3>8, SameArgs DEF SourceInOrder, Complete, Reached
    <3> QED BY <3>6, <3>7, <3>9 DEF Flow, InOrder
  <2> QED BY <2>4, <2>5
<1> QED BY <1>5, <1>6 DEF Reader

\* What the steps of the publisher have in common.
LEMMA PublisherFrame ==
  ASSUME TypeOK, GivenUp, Publisher
  PROVE  /\ args' = args /\ taken' = taken /\ reader' = reader /\ writer' = writer
         /\ received' = received /\ builder' = builder
         /\ taken' \in Nat /\ taken <= taken' /\ ReadOut' = ReadOut
         /\ publisher.pc # "dead" /\ FilledInTurn'
         /\ \A d \in Names: SameFailure(d)
<1>1. /\ args' = args /\ taken' = taken /\ reader' = reader /\ writer' = writer
      /\ received' = received /\ builder' = builder
  BY DEF Publisher, PublisherCheck, PublisherGet, PublisherPut, PublisherDone, Release, files, calls
<1>2. taken \in Nat
  BY LinesAssumption DEF TypeOK
<1>3. publisher.pc # "dead"
  BY DEF Publisher, PublisherCheck, PublisherGet, PublisherPut, PublisherDone, Release
<1>4. ReadOut' = ReadOut
  BY <1>1 DEF ReadOut
<1>5. taken' \in Nat /\ taken <= taken'
  BY <1>1, <1>2
<1>6. \A d \in Names: SameFailure(d)
  BY <1>1 DEF SameFailure
<1>7. FilledInTurn'
  BY <1>1, <1>3, FilledKept
<1> QED BY <1>1, <1>3, <1>4, <1>5, <1>6, <1>7

\* Between two lines, or with none in the queue.
LEMMA FlowIdle ==
  ASSUME TypeOK, StagesInv, FlowInv, TypeOK', Reached' \subseteq Reached,
         PublisherCheck \/ PublisherDone \/ (PublisherGet /\ LooksEmpty(In))
  PROVE  FlowInv'
<1>1. Publisher
  BY DEF Publisher
<1>2. queue' = queue /\ dropped' = dropped
  BY DEF PublisherCheck, PublisherDone, PublisherGet
<1>3. \A q \in Queues: SameLines(q)
  BY <1>2, SameQueue
<1>4. /\ publisher'.pc # "put"
      /\ publisher.pc # "put" \/ publisher.todo = <<>>
      /\ publisher.pc \in {"check", "get", "put"}
      /\ publisher.pc = "put" => publisher.missed = {} \/ publisher'.pc \in {"flush", "dead"}
  BY DEF PublisherCheck, PublisherDone, PublisherGet, PublisherEnds, TypeOK
<1>5. HandKept
  BY <1>4 DEF HandKept
<1>6. \A d \in Names: ToPut(d) = 0 /\ ToPut(d)' = 0
  <2>1. Range(<<>>) = {}
    BY DEF Range
  <2> QED BY <1>4, <2>1 DEF ToPut
<1>7. Flow'
  BY <1>1, <1>2, <1>3, <1>5, <1>6, PublisherFrame, FlowKept DEF FlowInv
<1>8. GivenUp'
  <2>1. GivenUp /\ args' = args /\ builder' = builder /\ FilledInTurn'
    BY <1>1, PublisherFrame DEF FlowInv
  <2>2. HasReader' = HasReader /\ HasLink' = HasLink
    BY <2>1, SameArgs
  <2>3. ASSUME dropped # {}
        PROVE  /\ HasLink /\ builder \in Stopped \cup {"join publisher", "broken"}
               /\ publisher'.pc \in {"flush", "dead"}
    BY <1>4, <2>1, <2>3 DEF GivenUp
  <2> QED BY <1>2, <1>4, <2>1, <2>2, <2>3 DEF GivenUp
<1> QED BY <1>7, <1>8 DEF FlowInv

\* The publisher takes a line.
LEMMA FlowTake ==
  ASSUME TypeOK, StagesInv, FlowInv, TypeOK', Reached' \subseteq Reached, PublisherGet, ~LooksEmpty(In)
  PROVE  FlowInv'
<1>1. Publisher
  BY DEF Publisher
<1>2. /\ args' = args /\ taken' = taken /\ received' = received /\ builder' = builder
      /\ writer' = writer /\ taken' \in Nat /\ taken <= taken' /\ ReadOut' = ReadOut
      /\ FilledInTurn' /\ \A d \in Names: SameFailure(d)
  BY <1>1, PublisherFrame DEF FlowInv
<1>3. /\ GetFrom(In) /\ dropped' = dropped /\ publisher.pc = "get" /\ publisher'.pc = "put"
      /\ publisher'.line = Head(queue[In].pipe) /\ publisher'.todo = Targets
  BY DEF PublisherGet, TypeOK
<1>4. HasLink /\ builder \in Running \cup {"join publisher", "broken"}
  BY <1>3, EarlyPublisher
<1>5. Range(Targets) = Reached /\ IsInjective(Targets)
  BY <1>3, <1>4, TargetsAll
<1>6. In \in Queues /\ \A d \in Names: d \in Queues /\ d # In
  BY EndpointsAssumption DEF Queues
<1>7. /\ Got \in Int /\ Got = ReadOut - Queued(In) /\ Queued(In) \in Nat /\ ReadOut \in Int
      /\ Queued(In)' = Queued(In) - 1
  BY <1>3, <1>6, Counts, QueuedChanges
<1>8. Got' = Got + 1
  <2>1. Got' = ReadOut' - Queued(In)'
    BY DEF Got
  <2> QED BY <1>2, <1>7, <2>1
<1>9. SourceInOrder'
  <2>1. Got >= 0 /\ InTurn(queue[In], Got)
    BY <1>4 DEF FlowInv, Flow, SourceInOrder
  <2>2. Head(queue[In].pipe) = Got + 1 /\ InTurn(queue'[In], Got + 1)
    BY <1>3, <1>6, <1>7, <2>1, GetInTurn
  <2>3. Got' >= 0
    BY <1>7, <1>8, <2>1
  <2> QED BY <1>3, <1>5, <1>8, <2>2, <2>3 DEF SourceInOrder
<1>10. \A d \in Names: GetsInOrder(d)' /\ PutBefore(d)' = PutBefore(d)
  <2>1. \A d \in Names: SameLines(d)
    BY <1>3, <1>6, GetChanges, SameQueue
  <2> QED BY <1>2, <2>1, OrderKept DEF FlowInv, Flow, InOrder
<1>11. Complete'
  <2> SUFFICES ASSUME NEW d \in Reached \ dropped PROVE HasAll(d)'
    BY <1>2, <1>3, SameArgs DEF Complete
  <2>1. d \in Names /\ HasAll(d)
    BY ArgsTyped, RegisteredTyped DEF FlowInv, Flow, Complete
  <2>2. ToPut(d) = 0 /\ ToPut(d)' = 1
    BY <1>3, <1>5 DEF ToPut
  <2>3. writer'[d].pc # "failed" => PutBefore(d)' = Got
    <3>1. writer'[d].pc # "failed" => PutBefore(d) = Got - 0
      BY <1>2, <1>4, <2>1, <2>2 DEF HasAll
    <3> QED BY <1>7, <1>10, <2>1, <3>1
  <2>4. Got' - 1 = Got
    BY <1>7, <1>8
  <2> QED BY <1>2, <1>4, <2>2, <2>3, <2>4, SameArgs DEF HasAll
<1>12. GivenUp'
  <2>1. dropped = {}
    BY <1>3 DEF FlowInv, GivenUp
  <2> QED BY <1>2, <1>3, <2>1, SameArgs DEF GivenUp
<1> QED BY <1>9, <1>10, <1>11, <1>12 DEF FlowInv, Flow, InOrder

\* The publisher puts its line on the next destination, or gives it up.
LEMMA FlowHand ==
  ASSUME TypeOK, StagesInv, FlowInv, TypeOK', Reached' \subseteq Reached, PublisherPut
  PROVE  FlowInv'
<1>1. Publisher
  BY DEF Publisher
<1>2. /\ args' = args /\ taken' = taken /\ received' = received /\ builder' = builder
      /\ writer' = writer /\ taken' \in Nat /\ taken <= taken' /\ ReadOut' = ReadOut
      /\ FilledInTurn' /\ \A d \in Names: SameFailure(d)
  BY <1>1, PublisherFrame DEF FlowInv
<1>a. publisher.todo # <<>> /\ publisher.todo \in Seq(Names)
  BY DEF PublisherPut, TypeOK
<1>b. PICK d \in Names: d = Head(publisher.todo)
  BY <1>a, HeadTailProperties
<1>3. /\ publisher.pc = "put" /\ publisher.todo # <<>>
      /\ \/ PutOn(d, publisher.line) /\ dropped' = dropped /\ publisher'.missed = publisher.missed
         \/ queue' = queue /\ dropped' = dropped \cup {d} /\ publisher'.missed # {} /\ publisher.stop
      /\ publisher'.todo = Tail(publisher.todo) /\ publisher'.pc = "put"
      /\ publisher'.line = publisher.line
  BY <1>b DEF PublisherPut, TypeOK
<1>5. HasLink /\ builder \in Running \cup {"join publisher", "broken"}
  BY <1>3, EarlyPublisher
<1>6. publisher.line = Got /\ IsInjective(publisher.todo) /\ Got >= 0 /\ InTurn(queue[In], Got)
  BY <1>3, <1>5 DEF FlowInv, Flow, SourceInOrder
<1>7. /\ d \in Names /\ d \in Range(publisher.todo) /\ d \notin Range(Tail(publisher.todo))
      /\ IsInjective(Tail(publisher.todo))
      /\ \A o: o # d => (o \in Range(Tail(publisher.todo)) <=> o \in Range(publisher.todo))
  <2> DEFINE todo == publisher.todo
  <2>1. /\ todo \in Seq(Names) /\ todo # <<>> /\ Len(todo) \in Nat \ {0} /\ DOMAIN todo = 1..Len(todo)
        /\ d = todo[1]
    BY <1>a, <1>b
  <2>2. /\ Tail(todo) \in Seq(Names) /\ Len(Tail(todo)) = Len(todo) - 1
        /\ \A i \in 1..Len(todo) - 1: Tail(todo)[i] = todo[i + 1]
    BY <1>a, <1>b, HeadTailProperties
  <2>3. IsInjective(todo)
    BY <1>6
  <2> DEFINE n == Len(todo)
             tail == Tail(todo)
  <2>4. /\ n \in Nat \ {0} /\ DOMAIN todo = 1..n /\ d = todo[1] /\ DOMAIN tail = 1..n - 1
        /\ \A i \in 1..n - 1: tail[i] = todo[i + 1]
    BY <2>1, <2>2
  <2> HIDE DEF n, tail, todo
  <2>5. Range(todo) = {todo[i]: i \in 1..n} /\ Range(tail) = {tail[i]: i \in 1..n - 1}
    BY <2>4 DEF Range
  <2>6. d \in Range(todo)
    BY <2>4, <2>5
  <2>7. ASSUME NEW i \in 1..n - 1 PROVE tail[i] # d /\ tail[i] \in Range(todo)
    <3>1. i + 1 \in 1..n /\ i + 1 # 1 /\ 1 \in 1..n
      BY <2>4
    <3>2. tail[i] = todo[i + 1] /\ d = todo[1]
      BY <2>4
    <3>3. todo[i + 1] # todo[1]
      BY <2>3, <2>4, <3>1 DEF IsInjective
    <3> QED BY <2>5, <3>1, <3>2, <3>3
  <2>8. d \notin Range(tail) /\ \A o: o \in Range(tail) => o \in Range(todo)
    BY <2>5, <2>7
  <2>9. ASSUME NEW o \in Range(todo), o # d PROVE o \in Range(tail)
    <3>1. PICK i \in 1..n: o = todo[i]
      BY <2>5
    <3>2. i # 1
      BY <2>4, <2>9, <3>1
    <3>3. i - 1 \in 1..n - 1 /\ i = (i - 1) + 1
      BY <2>4, <3>2
    <3> QED BY <2>4, <2>5, <3>1, <3>3
  <2>10. IsInjective(tail)
    <3> SUFFICES ASSUME NEW i \in 1..n - 1, NEW j \in 1..n - 1, tail[i] = tail[j] PROVE i = j
      BY <2>4 DEF IsInjective
    <3>1. i + 1 \in 1..n /\ j + 1 \in 1..n /\ todo[i + 1] = todo[j + 1]
      BY <2>4
    <3>2. i + 1 = j + 1
      BY <2>3, <2>4, <3>1 DEF IsInjective
    <3> QED BY <3>2
  <2> QED BY <2>6, <2>8, <2>9, <2>10 DEF tail, todo
<1>8. d \in Reached /\ d \notin dropped
  <2>1. d \in Registered /\ d \notin dropped
    BY <1>3, <1>7 DEF FlowInv, GivenUp, StagesInv, PublisherInTurn
  <2> QED BY <2>1, RegisteredTyped DEF Reached
<1>9. d \in Queues /\ d # In /\ In \in Queues /\ \A o \in Names: o \in Queues /\ o # In
  BY <1>7, EndpointsAssumption DEF Queues
<1>10. ToPut(d) = 1 /\ ToPut(d)' = 0 /\ \A o \in Names: o # d => ToPut(o)' = ToPut(o)
  BY <1>3, <1>7 DEF ToPut
<1>11. publisher.line \in Numbers
  <2>1. publisher.line # 0 /\ publisher.line \in 0..Lines
    BY <1>3 DEF StagesInv, PublisherInTurn, TypeOK
  <2> QED BY <2>1, LinesAssumption DEF Numbers
<1>12. /\ Got \in Int /\ Got = ReadOut - Queued(In) /\ Queued(In) \in Nat /\ ReadOut \in Int
       /\ ReadOut <= taken /\ taken \in Nat
  BY Counts
<1>13. GivenUp'
  <2>1. ASSUME dropped' # {}
        PROVE  HasLink /\ builder \in Stopped \cup {"join publisher", "broken"} /\ publisher'.missed # {}
    <3>1. CASE dropped # {}
      <4>1. builder \in Stopped \cup {"join publisher", "broken"} /\ publisher.missed # {}
        BY <1>3, <3>1 DEF FlowInv, GivenUp
      <4> QED BY <1>3, <1>5, <4>1
    <3>2. CASE dropped = {}
      <4>1. dropped' # dropped
        BY <2>1, <3>2
      <4>2. publisher.stop /\ publisher'.missed # {}
        BY <1>3, <4>1
      <4>3. builder \in {"start", "join publisher", "broken"}
        BY <4>2 DEF StagesInv, PublisherInTurn
      <4>4. builder \in {"join publisher", "broken"}
        BY <1>5, <4>3 DEF Running
      <4> QED BY <1>5, <4>2, <4>4
    <3> QED BY <3>1, <3>2
  <2>2. \A o \in Range(publisher'.todo): o \notin dropped'
    <3>1. \A o \in Range(publisher'.todo): o # d /\ o \notin dropped
      BY <1>3, <1>7 DEF FlowInv, GivenUp
    <3> QED BY <1>3, <3>1
  <2> QED BY <1>2, <1>3, <2>1, <2>2, SameArgs DEF GivenUp
<1>14. CASE PutOn(d, publisher.line) /\ dropped' = dropped
  <2>1. HasAll(d) /\ GetsInOrder(d) /\ \A o \in Names: GetsInOrder(o)
    BY <1>7, <1>8 DEF FlowInv, Flow, Complete, InOrder
  <2>2. PutBefore(d) \in Nat
    BY <1>7, Counts
  <2>3. writer[d].pc # "failed" => publisher.line = PutBefore(d) + 1 /\ publisher.line <= taken
    <3>1. writer[d].pc # "failed" => PutBefore(d) = Got - 1
      BY <1>5, <1>10, <2>1 DEF HasAll
    <3>2. Got <= taken
      BY <1>12
    <3>3. (Got - 1) + 1 = Got
      BY <1>12
    <3> QED BY <1>6, <3>1, <3>2, <3>3
  <2>4. PICK line \in Numbers: line = publisher.line
    BY <1>11
  <2>5. GetsInOrder(d)' /\ PutBefore(d)' = PutBefore(d) + 1
    BY <1>2, <1>7, <1>14, <2>1, <2>3, <2>4, NextPut
  <2>6. \A o \in Queues: o # d => queue'[o] = queue[o]
    BY <1>9, <1>14, <2>4, PutChanges
  <2>7. ASSUME NEW o \in Names, o # d PROVE GetsInOrder(o)' /\ PutBefore(o)' = PutBefore(o)
    <3>1. SameLines(o)
      BY <1>9, <2>6, <2>7, SameQueue
    <3> QED BY <1>2, <2>1, <3>1, OrderKept
  <2>8. Got' = Got
    <3>1. SameLines(In)
      BY <1>9, <2>6, SameQueue
    <3> QED BY <1>2, <3>1 DEF Got, SameLines
  <2>9. SourceInOrder'
    <3>1. InTurn(queue'[In], Got')
      BY <1>6, <1>9, <2>6, <2>8
    <3> QED BY <1>3, <1>6, <1>7, <2>8, <3>1 DEF SourceInOrder
  <2>10. Complete'
    <3> SUFFICES ASSUME NEW o \in Reached \ dropped PROVE HasAll(o)'
      BY <1>2, <1>14, SameArgs DEF Complete
    <3>1. o \in Names /\ HasAll(o) /\ HasLink'
      BY <1>2, <1>5, ArgsTyped, RegisteredTyped, SameArgs DEF FlowInv, Flow, Complete
    <3>2. CASE o # d
      <4>1. ToPut(o)' = ToPut(o) /\ PutBefore(o)' = PutBefore(o)
        BY <1>10, <2>7, <3>1, <3>2
      <4> QED BY <1>2, <1>5, <2>8, <3>1, <4>1 DEF HasAll
    <3>3. CASE o = d
      <4>1. writer'[d].pc # "failed" => PutBefore(d)' = Got
        BY <1>2, <1>6, <2>3, <2>5
      <4>2. Got - 0 = Got
        BY <1>12
      <4> QED BY <1>10, <2>8, <3>1, <3>3, <4>1, <4>2 DEF HasAll
    <3> QED BY <3>2, <3>3
  <2> QED BY <1>13, <2>5, <2>7, <2>9, <2>10 DEF FlowInv, Flow, InOrder
<1>15. CASE queue' = queue /\ dropped' = dropped \cup {d}
  <2>1. \A o \in Queues: SameLines(o)
    BY <1>15, SameQueue
  <2>2. \A o \in Names: GetsInOrder(o)' /\ PutBefore(o)' = PutBefore(o)
    BY <1>2, <1>9, <2>1, OrderKept DEF FlowInv, Flow, InOrder
  <2>3. Got' = Got
    BY <1>2, <1>9, <2>1 DEF Got, SameLines
  <2>4. SourceInOrder'
    <3>1. InTurn(queue'[In], Got')
      BY <1>6, <1>15, <2>3
    <3> QED BY <1>3, <1>6, <1>7, <2>3, <3>1 DEF SourceInOrder
  <2>5. Complete'
    <3> SUFFICES ASSUME NEW o \in Reached \ dropped, o # d PROVE HasAll(o)'
      BY <1>2, <1>15, SameArgs DEF Complete
    <3>1. o \in Names /\ HasAll(o) /\ HasLink'
      BY <1>2, <1>5, ArgsTyped, RegisteredTyped, SameArgs DEF FlowInv, Flow, Complete
    <3>2. ToPut(o)' = ToPut(o) /\ PutBefore(o)' = PutBefore(o)
      BY <1>10, <2>2, <3>1
    <3> QED BY <1>2, <1>5, <2>3, <3>1, <3>2 DEF HasAll
  <2> QED BY <1>13, <2>2, <2>4, <2>5 DEF FlowInv, Flow, InOrder
<1> QED BY <1>3, <1>14, <1>15

\* What a publisher process gives up when it exits is the tail of what it has put.
LEMMA FlowRelease ==
  ASSUME TypeOK, StagesInv, FlowInv, TypeOK', Reached' \subseteq Reached, Release
  PROVE  FlowInv'
<1>1. Publisher
  BY DEF Publisher
<1>2. /\ args' = args /\ taken' = taken /\ received' = received /\ builder' = builder
      /\ writer' = writer /\ taken' \in Nat /\ taken <= taken' /\ ReadOut' = ReadOut
      /\ FilledInTurn' /\ \A d \in Names: SameFailure(d)
  BY <1>1, PublisherFrame DEF FlowInv
<1>3. publisher.pc = "flush" /\ publisher'.pc = "dead"
  BY DEF Release, TypeOK
<1>4. HasLink /\ (builder \in {"join publisher", "broken"} \/ (builder \in Wiring /\ taken = 0))
  <2>1. builder \in {"start", "join publisher", "broken"}
    BY <1>3 DEF StagesInv, PublisherInTurn
  <2> QED BY <1>3, <2>1, EarlyPublisher DEF Running
<1>5. /\ In \in Queues /\ Destinations \subseteq Names /\ dropped \subseteq Names /\ In \notin Names
      /\ \A d \in Names: d \in Queues
  BY ArgsTyped, EndpointsAssumption DEF TypeOK, Queues
<1>6. /\ dropped \subseteq dropped' /\ dropped' \subseteq dropped \cup Destinations
      /\ \A d \in dropped' \ dropped: queue[d].buffer # <<>>
      /\ \A q \in Queues:
           /\ queue'[q].pipe = queue[q].pipe
           /\ \/ queue'[q] = queue[q]
              \/ q \in dropped' /\ queue'[q].buffer = <<>>
  BY ReleaseChanges
<1>7. \A d \in Names \ dropped': queue'[d] = queue[d]
  BY <1>5, <1>6
<1>8. queue'[In] = queue[In]
  BY <1>5, <1>6
<1>9. \A d \in Names: GetsInOrder(d)
  BY DEF FlowInv, Flow, InOrder
<1>10. ASSUME NEW d \in Names, queue'[d] = queue[d]
       PROVE  GetsInOrder(d)' /\ PutBefore(d)' = PutBefore(d)
  BY <1>2, <1>9, <1>10, SameQueue, OrderKept
<1>11. ASSUME NEW d \in Names, queue'[d].buffer = <<>>
       PROVE  GetsInOrder(d)'
  <2>1. queue'[d].pipe = queue[d].pipe
    BY <1>5, <1>6
  <2>2. /\ Len(received[d]) \in Nat /\ Len(queue[d].pipe) \in Nat /\ Len(queue[d].buffer) \in Nat
        /\ taken \in Nat
    BY <1>5, QueueTyped, Counts
  <2> DEFINE r == Len(received[d])
             p == Len(queue[d].pipe)
             b == Len(queue[d].buffer)
  <2>3. r \in Nat /\ p \in Nat /\ b \in Nat /\ PutBefore(d) = r + (b + p)
    BY <2>2 DEF PutBefore, Queued
  <2>4. PutBefore(d)' = r + (0 + p)
    BY <1>2, <1>11, <2>1 DEF PutBefore, Queued
  <2> HIDE DEF r, p, b
  <2>5. PutBefore(d)' <= PutBefore(d) /\ PutBefore(d)' \in Nat /\ PutBefore(d) \in Nat
    BY <2>3, <2>4
  <2>6. ASSUME writer'[d].pc # "failed"
        PROVE  InTurn(queue'[d], Len(received'[d])) /\ PutBefore(d)' <= taken'
    <3>1. InTurn(queue[d], Len(received[d])) /\ PutBefore(d) <= taken
      BY <1>2, <1>9, <2>6 DEF GetsInOrder
    <3>2. PutBefore(d)' <= taken'
      BY <1>2, <2>2, <2>5, <3>1
    <3>3. InTurn(queue'[d], Len(received'[d]))
      BY <1>2, <1>11, <2>1, <3>1 DEF InTurn, Follows
    <3> QED BY <3>2, <3>3
  <2>7. /\ Follows(received[d], 0)' /\ Len(received[d])' <= taken'
        /\ writer'[d].pc = "failed" => taken' # 0
    BY <1>2, <1>9 DEF GetsInOrder, Follows
  <2> QED BY <2>6, <2>7 DEF GetsInOrder
<1>12. InOrder'
  BY <1>5, <1>6, <1>10, <1>11 DEF InOrder
<1>13. Got' = Got
  BY <1>2, <1>8 DEF Got, Queued
<1>14. SourceInOrder'
  BY <1>2, <1>3, <1>4, <1>8, <1>13 DEF FlowInv, Flow, SourceInOrder
<1>15. Complete'
  <2> SUFFICES ASSUME NEW d \in Reached \ dropped' PROVE HasAll(d)'
    BY <1>2, SameArgs DEF Complete
  <2>1. d \in Names /\ HasAll(d) /\ HasLink'
    BY <1>2, <1>4, <1>5, <1>6, RegisteredTyped, SameArgs DEF FlowInv, Flow, Complete
  <2>2. PutBefore(d)' = PutBefore(d) /\ ToPut(d)' = ToPut(d)
    BY <1>3, <1>7, <1>10, <2>1 DEF ToPut
  <2> QED BY <1>2, <1>4, <1>13, <2>1, <2>2 DEF HasAll
<1>16. GivenUp'
  <2>1. dropped' # {} => builder \in {"join publisher", "broken"}
    <3> SUFFICES ASSUME builder \notin {"join publisher", "broken"}, NEW d \in dropped' PROVE FALSE
      OBVIOUS
    <3>1. taken = 0 /\ builder \in Wiring
      BY <1>4
    <3>2. dropped = {}
      BY <3>1 DEF FlowInv, GivenUp, Wiring, Stopped
    <3>3. d \in Names /\ queue[d].buffer # <<>>
      BY <1>5, <1>6, <3>2
    <3>4. PutBefore(d) <= 0
      BY <1>9, <3>1, <3>3 DEF GetsInOrder
    <3>5. /\ Len(received[d]) \in Nat /\ Len(queue[d].pipe) \in Nat /\ Len(queue[d].buffer) \in Nat
          /\ queue[d].buffer \in Seq(Int)
      BY <1>5, <3>3, QueueTyped, Counts
    <3> DEFINE r == Len(received[d])
               p == Len(queue[d].pipe)
               b == Len(queue[d].buffer)
    <3>6. r \in Nat /\ p \in Nat /\ b \in Nat /\ PutBefore(d) = r + (b + p)
      BY <3>5 DEF PutBefore, Queued
    <3>7. b # 0
      BY <3>3, <3>5, EmptySeq
    <3> HIDE DEF r, p, b
    <3>8. r + (b + p) <= 0
      BY <3>4, <3>6
    <3> QED BY <3>6, <3>7, <3>8, Zeros
  <2> QED BY <1>2, <1>3, <1>4, <2>1, SameArgs DEF GivenUp
<1> QED BY <1>12, <1>14, <1>15, <1>16 DEF FlowInv, Flow

LEMMA FlowPublisher ==
  ASSUME TypeOK, StagesInv, FlowInv, TypeOK', Reached' \subseteq Reached, Publisher
  PROVE  FlowInv'
<1>1. PublisherGet => PublisherGet /\ (LooksEmpty(In) \/ ~LooksEmpty(In))
  OBVIOUS
<1> QED BY <1>1, FlowIdle, FlowTake, FlowHand, FlowRelease DEF Publisher

-----------------------------------------------------------------------------
(* The other steps *)

\* A step at the destination d.
LEMMA DestinationStep ==
  ASSUME TypeOK, FlowInv, Reached' \subseteq Reached, NEW d \in Names,
         args' = args, taken' = taken, reader' = reader, publisher' = publisher, dropped' = dropped,
         \A q \in Queues: q # d => queue'[q] = queue[q],
         \A o \in Names: o # d => received'[o] = received[o] /\ SameFailure(o),
         GetsInOrder(d)',
         writer'[d].pc # "failed" => writer[d].pc # "failed" /\ PutBefore(d)' = PutBefore(d)
  PROVE  Flow'
<1>1. In \in Queues /\ In # d /\ \A o \in Names: o \in Queues
  BY EndpointsAssumption DEF Queues
<1>2. taken \in Nat /\ taken <= taken' /\ taken' \in Nat
  BY Counts
<1>3. \A o \in Names: o # d => GetsInOrder(o)' /\ PutBefore(o)' = PutBefore(o)
  BY <1>1, <1>2, SameQueue, OrderKept DEF FlowInv, Flow, InOrder
<1>4. Got' = Got /\ ReadOut' = ReadOut /\ queue'[In] = queue[In]
  BY <1>1 DEF Got, ReadOut, Queued
<1>5. SourceInOrder'
  BY <1>4, SameArgs DEF FlowInv, Flow, SourceInOrder
<1>6. Complete'
  <2> SUFFICES ASSUME NEW o \in Reached \ dropped PROVE HasAll(o)'
    BY SameArgs DEF Complete
  <2>1. o \in Names /\ HasAll(o) /\ HasLink' = HasLink /\ ToPut(o)' = ToPut(o)
    BY ArgsTyped, RegisteredTyped, SameArgs DEF FlowInv, Flow, Complete, ToPut
  <2>2. writer'[o].pc # "failed" => writer[o].pc # "failed" /\ PutBefore(o)' = PutBefore(o)
    BY <1>3, <2>1 DEF SameFailure
  <2> QED BY <1>4, <2>1, <2>2 DEF HasAll
<1> QED BY <1>3, <1>5, <1>6 DEF Flow, InOrder

LEMMA FlowWriter ==
  ASSUME TypeOK, StagesInv, FlowInv, TypeOK', Reached' \subseteq Reached, NEW d \in Names, Writer(d)
  PROVE  FlowInv'
<1>1. /\ args' = args /\ taken' = taken /\ reader' = reader /\ publisher' = publisher
      /\ dropped' = dropped /\ builder' = builder
      /\ writer[d].pc \in {"get", "check"} /\ \A o \in Names: o # d => writer'[o] = writer[o]
  BY DEF Writer, WriterGet, WriterCheck, WriterTurn, calls, TypeOK
<1>2. GivenUp'
  <2>1. \A o \in Names: writer[o].pc = "off" => writer'[o].pc = "off"
    BY <1>1
  <2> QED BY <1>1, <2>1, GivenKept, FilledKept DEF FlowInv
<1>3. GetsInOrder(d) /\ d \in Queues /\ writer[d].pc # "failed"
  BY <1>1 DEF FlowInv, Flow, InOrder, Queues
<1>4. taken \in Nat /\ taken <= taken' /\ taken' \in Nat
  BY <1>1, Counts
<1> SUFFICES Flow'
  BY <1>2 DEF FlowInv
<1>5. CASE WriterCheck(d) \/ (WriterGet(d) /\ LooksEmpty(d))
  <2>1. queue' = queue /\ received' = received /\ writer'[d].pc # "failed"
    BY <1>5 DEF WriterCheck, WriterGet, WriterTurn, files, TypeOK
  <2>2. SameLines(d) /\ SameFailure(d) /\ \A o \in Names: SameFailure(o)
    BY <1>1, <1>3, <2>1, SameQueue DEF SameFailure
  <2>3. GetsInOrder(d)' /\ PutBefore(d)' = PutBefore(d)
    BY <1>3, <1>4, <2>1, <2>2, OrderKept
  <2> QED BY <1>1, <1>3, <2>1, <2>2, <2>3, DestinationStep
<1>6. CASE WriterGet(d) /\ ~LooksEmpty(d)
  <2>1. GetFrom(d)
    BY <1>6 DEF WriterGet
  <2>2. \A q \in Queues: q # d => queue'[q] = queue[q]
    BY <1>3, <1>6, <2>1, GetChanges
  <2>3. \/ /\ received' = [received EXCEPT ![d] = Append(@, Head(queue[d].pipe))]
           /\ writer'[d].pc = "check"
        \/ received' = received /\ writer'[d].pc = "failed"
    <3>1. \/ /\ received' = [received EXCEPT ![d] = Append(@, Head(queue[d].pipe))]
             /\ WriterTurn(d, "check")
          \/ received' = received /\ WriterTurn(d, "failed")
      BY <1>6 DEF WriterGet
    <3>2. \A pc: WriterTurn(d, pc) => writer'[d].pc = pc
      BY DEF WriterTurn, TypeOK
    <3> QED BY <3>1, <3>2
  <2>4. \A o \in Names: o # d => received'[o] = received[o] /\ SameFailure(o)
    BY <1>1, <2>3 DEF SameFailure, TypeOK
  <2>5. CASE /\ received' = [received EXCEPT ![d] = Append(@, Head(queue[d].pipe))]
             /\ writer'[d].pc = "check"
    <3>1. received'[d] = Append(received[d], Head(queue[d].pipe)) /\ SameFailure(d)
      BY <1>3, <2>5 DEF SameFailure, TypeOK
    <3>2. GetsInOrder(d)' /\ PutBefore(d)' = PutBefore(d)
      BY <1>1, <1>3, <1>6, <2>1, <3>1, NextGot
    <3> QED BY <1>1, <1>3, <2>2, <2>4, <3>2, DestinationStep
  <2>6. CASE received' = received /\ writer'[d].pc = "failed"
    <3>1. taken # 0
      <4>1. Queued(d) > 0 /\ Queued(d) \in Nat
        BY <1>3, <1>6, <2>1, QueuedChanges, QueueTyped
      <4>2. Len(received[d]) \in Nat /\ PutBefore(d) = Len(received[d]) + Queued(d) /\ PutBefore(d) <= taken
        BY <1>3, Counts DEF GetsInOrder
      <4> DEFINE a == Len(received[d])
      <4>3. a \in Nat /\ a + Queued(d) <= taken
        BY <4>2
      <4> HIDE DEF a
      <4> QED BY <1>4, <4>1, <4>3
    <3>2. GetsInOrder(d)'
      BY <1>1, <1>3, <2>6, <3>1 DEF GetsInOrder, Follows
    <3> QED BY <1>1, <2>2, <2>4, <2>6, <3>2, DestinationStep
  <2> QED BY <2>3, <2>5, <2>6
<1> QED BY <1>5, <1>6 DEF Writer

LEMMA FlowConsume ==
  ASSUME TypeOK, StagesInv, FlowInv, TypeOK', Reached' \subseteq Reached, NEW d \in Names, Consume(d)
  PROVE  FlowInv'
<1>1. /\ args' = args /\ taken' = taken /\ reader' = reader /\ publisher' = publisher
      /\ writer' = writer /\ dropped' = dropped /\ builder' = builder
      /\ ~LooksEmpty(d) /\ GetFrom(d)
      /\ received' = [received EXCEPT ![d] = Append(@, Head(queue[d].pipe))]
  BY DEF Consume, calls, stages
<1>2. GivenUp'
  BY <1>1, GivenKept, FilledKept DEF FlowInv
<1>3. GetsInOrder(d) /\ d \in Queues /\ SameFailure(d)
  BY <1>1 DEF FlowInv, Flow, InOrder, Queues, SameFailure
<1>4. writer[d].pc # "failed"
  <2>1. KindOf[d] = "queue"
    BY EndpointsAssumption DEF Consume
  <2>2. d \notin Files
    BY <2>1 DEF Files
  <2> QED BY <2>2 DEF StagesInv, WritersInTurn
<1>5. /\ received'[d] = Append(received[d], Head(queue[d].pipe))
      /\ \A o \in Names: o # d => received'[o] = received[o] /\ SameFailure(o)
  BY <1>1 DEF TypeOK, SameFailure
<1>6. GetsInOrder(d)' /\ PutBefore(d)' = PutBefore(d)
  BY <1>1, <1>3, <1>4, <1>5, NextGot
<1>7. \A q \in Queues: q # d => queue'[q] = queue[q]
  BY <1>1, <1>3, GetChanges
<1>8. Flow'
  BY <1>1, <1>4, <1>5, <1>6, <1>7, DestinationStep
<1> QED BY <1>2, <1>8 DEF FlowInv

LEMMA FlowProduce ==
  ASSUME TypeOK, StagesInv, FlowInv, TypeOK', Reached' \subseteq Reached, Produce
  PROVE  FlowInv'
<1>1. /\ args' = args /\ reader' = reader /\ publisher' = publisher /\ writer' = writer
      /\ received' = received /\ dropped' = dropped /\ builder' = builder
      /\ ~HasReader /\ taken' = taken + 1 /\ taken < Lines /\ PutOn(In, taken + 1)
      /\ args.meanwhile \/ builder \notin Wiring \cup {"call"}
  BY DEF Produce, stages, files, calls, Wiring
<1>2. GivenUp'
  BY <1>1, GivenKept, FilledKept DEF FlowInv
<1>3. reader.pc # "put" /\ HasLink
  BY <1>1 DEF StagesInv, ReaderInTurn, HasLink
<1>4. taken \in Nat /\ ReadOut = taken /\ taken' \in Nat /\ taken <= taken' /\ taken + 1 \in Numbers
  <2>1. taken \in Nat /\ ReadOut = taken
    BY <1>3, Counts
  <2> QED BY <1>1, <2>1, LinesAssumption DEF Numbers
<1>5. ReadOut' = taken + 1
  <2>1. ReadOut' = taken' - 0
    BY <1>1, <1>3 DEF ReadOut
  <2> QED BY <1>1, <1>4, <2>1
<1>6. HandKept /\ \A d \in Names: SameFailure(d) /\ ToPut(d)' = ToPut(d)
  BY <1>1 DEF HandKept, SameFailure, ToPut
<1>7. PICK line \in Numbers: line = taken + 1
  BY <1>4
<1>8. PutOn(In, line) /\ line = ReadOut + 1 /\ ReadOut' = ReadOut + 1
  BY <1>1, <1>4, <1>5, <1>7
<1>9. Flow'
  BY <1>1, <1>3, <1>4, <1>6, <1>8, SourcePut DEF FlowInv
<1> QED BY <1>2, <1>9 DEF FlowInv

LEMMA FlowFlush ==
  ASSUME TypeOK, StagesInv, FlowInv, TypeOK', Reached' \subseteq Reached, NEW q \in Queues, Flush(q)
  PROVE  FlowInv'
<1>1. /\ args' = args /\ taken' = taken /\ reader' = reader /\ publisher' = publisher
      /\ writer' = writer /\ received' = received /\ dropped' = dropped /\ builder' = builder
  BY DEF Flush, stages, files, calls
<1>2. GivenUp'
  BY <1>1, GivenKept, FilledKept DEF FlowInv
<1>3. taken' \in Nat /\ taken <= taken' /\ ReadOut' = ReadOut
  BY <1>1, Counts DEF ReadOut
<1>4. HandKept /\ \A d \in Names: SameFailure(d) /\ ToPut(d)' = ToPut(d)
  BY <1>1 DEF HandKept, SameFailure, ToPut
<1>5. ASSUME NEW o \in Queues PROVE SameLines(o)
  <2>1. CASE o = q
    BY <2>1, QueuedChanges, FlushInTurn DEF SameLines
  <2>2. CASE o # q
    BY <2>2, FlushChanges, SameQueue
  <2> QED BY <2>1, <2>2
<1>6. Flow'
  BY <1>1, <1>3, <1>4, <1>5, FlowKept DEF FlowInv
<1> QED BY <1>2, <1>6 DEF FlowInv

LEMMA StartsOne ==
  ASSUME TypeOK, NEW o, StartWriter(o) \/ UNCHANGED <<writer, writers>>, NEW d \in Names
  PROVE  writer'[d].pc \in {writer[d].pc, "get"}
<1>1. CASE writer' = writer
  BY <1>1
<1>2. CASE writer' = [writer EXCEPT ![o].pc = "get"]
  <2>1. writer \in [Names -> [pc: {"off", "get", "check", "dead", "failed"}, stop: BOOLEAN]]
    BY DEF TypeOK
  <2>2. writer'[d] = IF d = o THEN [writer[d] EXCEPT !.pc = "get"] ELSE writer[d]
    BY <1>2, <2>1
  <2>3. [writer[d] EXCEPT !.pc = "get"].pc = "get"
    BY <2>1
  <2> QED BY <2>2, <2>3
<1> QED BY <1>1, <1>2 DEF StartWriter, WriterTurn

\* Building and stopping move no line. A writer is started before any line can reach it.
LEMMA BuildFrame ==
  ASSUME TypeOK, StagesInv, FlowInv, Build \/ StartFails \/ BeginStop \/ Stop
  PROVE  /\ args' = args /\ taken' = taken /\ queue' = queue /\ received' = received
         /\ dropped' = dropped
         /\ StartReader \/ Start =>
              /\ \A d \in Names: writer[d].pc # "failed" /\ writer'[d].pc # "failed"
              /\ HasReader => taken = 0 /\ reader.pc = "off"
         /\ \A d \in Names: SameFailure(d)
<1>1. /\ args' = args /\ taken' = taken /\ queue' = queue /\ received' = received
      /\ dropped' = dropped
  BY DEF Build, Stop, Link, Insert, Request, Start, StartReader, StartFails, BeginStop, JoinReader,
     Drain, JoinPublisher, StopWriter, JoinWriter, EndStop, files
<1>2. ASSUME StartReader \/ Start
      PROVE  /\ \A d \in Names: writer[d].pc # "failed" /\ writer'[d].pc # "failed"
             /\ HasReader => taken = 0 /\ reader.pc = "off"
  <2>0. \A d \in Names: writer'[d].pc \in {writer[d].pc, "get"}
    BY <1>2, StartsOne DEF StartReader, Start
  <2>1. builder \in {"reader", "start"}
    BY <1>2 DEF StartReader, Start
  <2>2. CASE HasReader
    <3>1. taken = 0 /\ reader.pc = "off"
      BY <2>1, <2>2 DEF StagesInv, ReaderInTurn, Unread, Wiring
    <3>2. \A d \in Names: writer[d].pc # "failed" /\ writer'[d].pc # "failed"
      <4>1. \A d \in Names: writer[d].pc # "failed"
        BY <3>1 DEF FlowInv, Flow, InOrder, GetsInOrder
      <4> QED BY <2>0, <4>1
    <3> QED BY <3>1, <3>2
  <2>3. CASE ~HasReader
    <3>1. builder = "start"
      BY <2>1, <2>3 DEF StagesInv, Wired
    <3>2. \A d \in Names: writer[d].pc # "failed"
      BY <2>3, <3>1 DEF FlowInv, GivenUp, FilledInTurn, Flow, InOrder, GetsInOrder, Wiring
    <3> QED BY <2>0, <2>3, <3>2
  <2> QED BY <2>2, <2>3
<1>3. \A d \in Names: SameFailure(d)
  <2>1. CASE StartReader \/ Start
    BY <1>2, <2>1 DEF SameFailure
  <2>2. CASE ~(StartReader \/ Start)
    <3>1. CASE StopWriter
      <4>1. writer' = [writer EXCEPT ![Head(waiting)].stop = TRUE]
        BY <3>1 DEF StopWriter
      <4>2. \A d \in Names: writer'[d].pc = writer[d].pc
        BY <4>1 DEF TypeOK
      <4> QED BY <4>2 DEF SameFailure
    <3>2. CASE ~StopWriter
      <4>1. writer' = writer
        BY <2>2, <3>2 DEF Build, Stop, Link, Insert, Request, StartFails, BeginStop, JoinReader, Drain,
           JoinPublisher, JoinWriter, EndStop, stages
      <4> QED BY <4>1 DEF SameFailure
    <3> QED BY <3>1, <3>2
  <2> QED BY <2>1, <2>2
<1> QED BY <1>1, <1>2, <1>3

LEMMA FlowBuild ==
  ASSUME TypeOK, StagesInv, FlowInv, TypeOK', Reached' \subseteq Reached,
         Build \/ StartFails \/ BeginStop \/ Stop
  PROVE  FlowInv'
<1>1. /\ args' = args /\ taken' = taken /\ queue' = queue /\ received' = received
      /\ dropped' = dropped
  BY BuildFrame
<1>2. ASSUME StartReader \/ Start
      PROVE  /\ \A d \in Names: writer[d].pc # "failed" /\ writer'[d].pc # "failed"
             /\ HasReader => taken = 0 /\ reader.pc = "off"
  BY <1>2, BuildFrame
<1>3. \A d \in Names: SameFailure(d)
  BY BuildFrame
<1>4. ReadOut' = ReadOut
  <2>1. CASE StartReader
    <3>1. HasReader
      BY <2>1 DEF StartReader, StagesInv, Wired
    <3>2. reader.pc = "off" /\ reader'.pc = "read"
      BY <1>2, <2>1, <3>1 DEF StartReader, TypeOK
    <3> QED BY <1>1, <3>2 DEF ReadOut
  <2>2. CASE StartFails
    <3>1. reader.pc # "put" /\ reader'.pc # "put"
      BY <2>2 DEF StartFails, StagesInv, ReaderInTurn, Unread, Wired, Wiring, TypeOK
    <3> QED BY <1>1, <3>1 DEF ReadOut
  <2>3. CASE ~StartReader /\ ~StartFails
    <3>1. reader'.pc = reader.pc
      BY <2>3 DEF Build, Stop, Link, Insert, Request, Start, BeginStop, JoinReader, Drain,
         JoinPublisher, StopWriter, JoinWriter, EndStop, stages, TypeOK
    <3> QED BY <1>1, <3>1 DEF ReadOut
  <2> QED BY <2>1, <2>2, <2>3
<1>5. \/ (Start \/ StartFails) /\ publisher.pc = "dead" /\ publisher' = NewPublisher
      \/ /\ publisher'.pc = publisher.pc /\ publisher'.todo = publisher.todo
         /\ publisher'.line = publisher.line /\ publisher'.missed = publisher.missed
  <2>1. CASE Start
    BY <2>1 DEF Start
  <2>2. CASE Request \/ Drain \/ JoinPublisher
             \/ (StartFails /\ ~(publisher.pc = "dead" /\ publisher' = NewPublisher))
    <3>1. PICK stop: publisher' = [publisher EXCEPT !.stop = stop] \/ publisher' = publisher
      BY <2>2 DEF Request, Drain, JoinPublisher, StartFails
    <3>2. publisher = [pc |-> publisher.pc, stop |-> publisher.stop, line |-> publisher.line,
                       todo |-> publisher.todo, missed |-> publisher.missed, dests |-> publisher.dests]
      BY DEF TypeOK
    <3> QED BY <3>1, <3>2
  <2>3. CASE ~(Start \/ StartFails \/ Request \/ Drain \/ JoinPublisher)
    <3>1. publisher' = publisher
      BY <2>3 DEF Build, Stop, Link, Insert, StartReader, BeginStop, JoinReader, StopWriter,
         JoinWriter, EndStop, stages
    <3> QED BY <3>1
  <2> QED BY <2>1, <2>2, <2>3
<1>6. HandKept /\ \A d \in Names: ToPut(d)' = ToPut(d)
  BY <1>5 DEF HandKept, ToPut, NewPublisher
<1>7. Flow'
  <2>1. taken' \in Nat /\ taken <= taken'
    BY <1>1, Counts
  <2>2. \A q \in Queues: SameLines(q)
    BY <1>1, SameQueue
  <2> QED BY <1>1, <1>3, <1>4, <1>6, <2>1, <2>2, FlowKept DEF FlowInv
<1>8. GivenUp'
  <2>1. CASE Start
    <3>1. publisher'.pc = "check" /\ builder = "start"
      BY <2>1 DEF Start, NewPublisher
    <3>2. dropped' = {}
      BY <1>1, <3>1 DEF FlowInv, GivenUp, Stopped
    <3>3. FilledInTurn'
      <4>1. CASE wired < Len(Dests)
        <5>1. wired # 0 /\ wired \in Nat /\ Len(Dests) \in Nat
          BY <2>1, ArgsTyped DEF Start, StagesInv, Wired, TypeOK
        <5>2. ~(Len(Dests) <= 1)
          BY <4>1, <5>1
        <5>3. ~HasReader => taken = 0 /\ ~args.meanwhile
          BY <3>1, <5>2 DEF FlowInv, GivenUp, FilledInTurn, Wiring
        <5> QED BY <1>1, <5>3, SameArgs DEF FilledInTurn
      <4>2. CASE ~(wired < Len(Dests))
        <5>1. builder' \in {"reader", "up"}
          BY <2>1, <4>2 DEF Start
        <5> QED BY <5>1 DEF FilledInTurn, Wiring
      <4> QED BY <4>1, <4>2
    <3> QED BY <1>1, <3>1, <3>2, <3>3, SameArgs DEF GivenUp
  <2>2. CASE StartFails
    <3>1. builder' = "broken" /\ builder \in {"start", "reader"}
      BY <2>2 DEF StartFails
    <3>2. dropped' = {}
      BY <1>1, <3>1 DEF FlowInv, GivenUp, Stopped
    <3>3. publisher'.pc = "put" => publisher.pc = "put" /\ publisher'.todo = publisher.todo
      BY <1>5 DEF NewPublisher
    <3> QED BY <3>1, <3>2, <3>3 DEF GivenUp, FilledInTurn, Wiring
  <2>3. CASE ~Start /\ ~StartFails
    <3>1. builder \in Stopped \cup {"join publisher", "broken"} =>
            builder' \in Stopped \cup {"join publisher", "broken"}
      BY <2>3 DEF Build, Stop, Link, Insert, Request, StartReader, BeginStop, JoinReader, Drain,
         JoinPublisher, StopWriter, JoinWriter, EndStop, Step, Stopped
    <3>2. builder' \in Wiring \cup {"call"} =>
            (Link \/ Insert \/ Request) /\ writer' = writer /\ builder \in Wiring \cup {"call"}
      BY <2>3 DEF Build, Stop, Link, Insert, Request, StartReader, BeginStop, JoinReader, Drain,
         JoinPublisher, StopWriter, JoinWriter, EndStop, Step, Wiring, stages
    <3>3. FilledInTurn'
      <4>1. publisher'.pc = publisher.pc
        BY <1>5, <2>3
      <4> QED BY <1>1, <3>2, <4>1, SameArgs DEF FlowInv, GivenUp, FilledInTurn
    <3>4. /\ publisher'.pc = publisher.pc /\ publisher'.todo = publisher.todo
          /\ publisher'.missed = publisher.missed
      BY <1>5, <2>3
    <3> QED BY <1>1, <3>1, <3>3, <3>4, GivenKept DEF FlowInv
  <2> QED BY <2>1, <2>2, <2>3
<1> QED BY <1>7, <1>8 DEF FlowInv

\* What __del__ asks to stop goes on as before.
LEMMA FlowCollect ==
  ASSUME TypeOK, StagesInv, FlowInv, TypeOK', Reached' \subseteq Reached, Collect
  PROVE  FlowInv'
<1>1. /\ args' = args /\ taken' = taken /\ queue' = queue /\ received' = received
      /\ dropped' = dropped /\ builder' = builder
  BY DEF Collect, files, calls
<1>2. reader'.pc = reader.pc
  BY DEF Collect, TypeOK
<1>3. /\ publisher'.pc = publisher.pc /\ publisher'.todo = publisher.todo
      /\ publisher'.line = publisher.line /\ publisher'.missed = publisher.missed
  BY DEF Collect, TypeOK
<1>4. ASSUME NEW d \in Names PROVE writer'[d].pc = writer[d].pc
  <2>1. writer \in [Names -> [pc: {"off", "get", "check", "dead", "failed"}, stop: BOOLEAN]]
    BY DEF TypeOK
  <2>2. CASE writer' = writer
    BY <2>2
  <2>3. ASSUME NEW o \in Names, writer' = [writer EXCEPT ![o].stop = TRUE]
        PROVE  writer'[d].pc = writer[d].pc
    <3>1. writer'[d] = IF d = o THEN [writer[d] EXCEPT !.stop = TRUE] ELSE writer[d]
      BY <2>1, <2>3
    <3> QED BY <2>1, <3>1
  <2> QED BY <2>2, <2>3 DEF Collect
<1>5. GivenUp'
  BY <1>1, <1>3, <1>4, GivenKept, FilledKept DEF FlowInv
<1>6. taken' \in Nat /\ taken <= taken' /\ ReadOut' = ReadOut
  BY <1>1, <1>2, Counts DEF ReadOut
<1>7. HandKept /\ \A d \in Names: SameFailure(d) /\ ToPut(d)' = ToPut(d)
  BY <1>3, <1>4 DEF HandKept, SameFailure, ToPut
<1>8. \A q \in Queues: SameLines(q)
  BY <1>1, SameQueue
<1>9. Flow'
  BY <1>1, <1>6, <1>7, <1>8, FlowKept DEF FlowInv
<1> QED BY <1>5, <1>9 DEF FlowInv

LEMMA Pieces ==
  ASSUME NEW n \in Int
  PROVE  /\ <<>> \in Seq(Int) /\ Len(<<>>) = 0 /\ Follows(<<>>, n)
         /\ <<n + 1>> \in Seq(Int) /\ Len(<<n + 1>>) = 1 /\ Follows(<<n + 1>>, n)
BY DEF Follows

LEMMA FlowInit == Init /\ WiredFirst => FlowInv
<1> SUFFICES ASSUME Init, WiredFirst PROVE FlowInv
  OBVIOUS
<1>1. TypeOK
  BY TypeInit
<1>2. /\ publisher.pc = "dead" /\ reader.pc # "put" /\ dropped = {} /\ builder = "call"
      /\ HasReader => taken = 0
      /\ ~HasReader => taken = args.early
      /\ \A d \in Names: writer[d].pc = "off" /\ received[d] = <<>>
      /\ queue = [q \in Queues |->
           [buffer |-> <<>>, leaked |-> 0,
            pipe |-> IF q = In /\ ~HasReader THEN [i \in 1..args.early |-> i] ELSE <<>>]]
  BY DEF Init
<1>3. In \in Queues /\ \A d \in Names: d \in Queues /\ d # In
  BY EndpointsAssumption DEF Queues
<1>4. taken \in Nat /\ ReadOut = taken /\ Got = taken - Queued(In)
  BY <1>1, <1>2, Counts
<1>5. \A d \in Names: queue[d].buffer = <<>> /\ queue[d].pipe = <<>>
  BY <1>2, <1>3
<1>6. queue[In].buffer = <<>> /\ queue[In].pipe = [i \in 1..taken |-> i]
  <2>1. CASE HasReader
    <3>1. queue[In].buffer = <<>> /\ queue[In].pipe = <<>> /\ taken = 0
      BY <1>2, <1>3, <2>1
    <3>2. <<>> = [i \in 1..0 |-> i]
      OBVIOUS
    <3> QED BY <3>1, <3>2
  <2>2. CASE ~HasReader
    BY <1>2, <1>3, <2>2
  <2> QED BY <2>1, <2>2
<1>7. Queued(In) = taken
  <2>1. Len(queue[In].pipe) = taken /\ Len(queue[In].buffer) = 0
    BY <1>4, <1>6
  <2> QED BY <1>4, <2>1 DEF Queued
<1>8. Got = 0
  BY <1>4, <1>7
<1>9. SourceInOrder
  <2>1. InTurn(queue[In], 0)
    BY <1>4, <1>6 DEF InTurn, Follows
  <2> QED BY <1>2, <1>8, <2>1 DEF SourceInOrder
<1>10. ASSUME NEW d \in Names PROVE GetsInOrder(d) /\ PutBefore(d) = 0
  <2>0. /\ received[d] = <<>> /\ queue[d].buffer = <<>> /\ queue[d].pipe = <<>>
        /\ 0 \in Int /\ 0 + 0 = 0
    BY <1>2, <1>5
  <2>1. Len(received[d]) = 0 /\ Len(queue[d].pipe) = 0 /\ Len(queue[d].buffer) = 0
    BY <2>0, Pieces
  <2>2. PutBefore(d) = 0
    BY <2>1 DEF PutBefore, Queued
  <2>3. InTurn(queue[d], Len(received[d])) /\ Follows(received[d], 0)
    BY <2>0, <2>1, Pieces DEF InTurn
  <2> QED BY <1>2, <1>4, <2>1, <2>2, <2>3 DEF GetsInOrder
<1>11. Complete
  <2> SUFFICES ASSUME NEW d \in Destinations PROVE HasAll(d)
    BY <1>1, RegisteredTyped DEF Complete
  <2>1. d \in Names /\ ToPut(d) = 0
    BY <1>1, <1>2, ArgsTyped DEF ToPut
  <2>2. ~HasLink => ReadOut = 0
    BY <1>2, <1>4 DEF HasLink
  <2> QED BY <1>8, <1>10, <2>1, <2>2 DEF HasAll
<1>12. GivenUp
  <2>1. ~HasReader => (taken = 0 /\ ~args.meanwhile) \/ Len(Dests) <= 1
    BY <1>2 DEF WiredFirst
  <2> QED BY <1>2, <2>1 DEF GivenUp, FilledInTurn
<1> QED BY <1>9, <1>10, <1>11, <1>12 DEF FlowInv, Flow, InOrder

LEMMA FlowNext ==
  ASSUME TypeOK, StagesInv, FlowInv, [Next]_vars, TypeOK'
  PROVE  FlowInv'
<1>0. Reached' \subseteq Reached
  BY ReachedShrinks
<1>1. CASE UNCHANGED vars
  <2>1. /\ args' = args /\ taken' = taken /\ reader' = reader /\ publisher' = publisher
        /\ writer' = writer /\ queue' = queue /\ received' = received /\ dropped' = dropped
        /\ builder' = builder
    BY <1>1 DEF vars, stages, files, calls
  <2>2. GivenUp'
    BY <2>1, GivenKept, FilledKept DEF FlowInv
  <2>3. taken' \in Nat /\ taken <= taken' /\ ReadOut' = ReadOut
    BY <2>1, Counts DEF ReadOut
  <2>4. /\ HandKept /\ \A d \in Names: SameFailure(d) /\ ToPut(d)' = ToPut(d)
        /\ \A q \in Queues: SameLines(q)
    BY <2>1, SameQueue DEF HandKept, SameFailure, ToPut
  <2> QED BY <1>0, <2>1, <2>2, <2>3, <2>4, FlowKept DEF FlowInv
<1>2. CASE Next
  BY <1>0, <1>2, FlowReader, FlowPublisher, FlowBuild, FlowCollect, FlowProduce, FlowWriter,
     FlowConsume, FlowFlush DEF Next
<1> QED BY <1>1, <1>2

-----------------------------------------------------------------------------
(* What that says of the destinations *)

LEMMA InQueueFollows ==
  ASSUME TypeOK, NEW q \in Queues, NEW n \in Int, InTurn(queue[q], n)
  PROVE  InQueue(q) \in Seq(Int) /\ Len(InQueue(q)) = Queued(q) /\ Follows(InQueue(q), n)
<1> DEFINE buffer == queue[q].buffer
           pipe == queue[q].pipe
           m == n + Len(pipe)
<1>1. buffer \in Seq(Int) /\ pipe \in Seq(Int) /\ Len(buffer) \in Nat /\ Len(pipe) \in Nat
  BY QueueTyped
<1>2. Follows(pipe, n) /\ Follows(buffer, m)
  BY DEF InTurn
<1>3. m \in Int
  <2> HIDE DEF pipe
  <2> QED BY <1>1
<1>4. InQueue(q) = pipe \o buffer
  BY DEF InQueue
<1>5. pipe \o buffer \in Seq(Int) /\ Len(pipe \o buffer) = Len(pipe) + Len(buffer) /\ Follows(pipe \o buffer, n)
  <2>1. m = n + Len(pipe)
    OBVIOUS
  <2> HIDE DEF pipe, buffer, m
  <2> QED BY <1>1, <1>2, <1>3, <2>1, FollowsConcat
<1>6. Queued(q) = Len(pipe) + Len(buffer)
  <2>1. Queued(q) = Len(buffer) + Len(pipe)
    BY DEF Queued
  <2> HIDE DEF pipe, buffer
  <2> QED BY <1>1, <2>1
<1> QED BY <1>4, <1>5, <1>6

\* The lines between the source and a destination for which none was given up.
LEMMA WayFull ==
  ASSUME TypeOK, FlowInv, NEW d \in Reached \ dropped, writer[d].pc # "failed"
  PROVE  OnTheWay(d) = [i \in 1..taken |-> i]
<1> DEFINE r == received[d]
           q == InQueue(d)
           m == IF HasLink THEN InPublisher(d) \o InQueue(In) ELSE <<>>
           h == InReader
<1>1. d \in Names /\ d \in Queues /\ In \in Queues
  BY ArgsTyped, RegisteredTyped DEF Queues
<1>2. /\ taken \in Nat /\ ReadOut \in Int /\ Len(r) \in Nat /\ r \in Seq(Int)
      /\ PutBefore(d) \in Nat /\ PutBefore(d) = Len(r) + Queued(d) /\ Queued(d) \in Nat
      /\ Got \in Int /\ Got = ReadOut - Queued(In) /\ Queued(In) \in Nat
      /\ reader.pc = "put" => ReadOut = taken - 1
      /\ reader.pc # "put" => ReadOut = taken
  BY <1>1, Counts
<1>3. Follows(r, 0) /\ InTurn(queue[d], Len(r)) /\ HasAll(d)
  BY <1>1 DEF FlowInv, Flow, InOrder, GetsInOrder, Complete
<1>4. q \in Seq(Int) /\ Len(q) = Queued(d) /\ Follows(q, Len(r))
  <2>1. Len(r) \in Int
    BY <1>2
  <2> QED BY <1>1, <1>3, <2>1, InQueueFollows
<1>5. m \in Seq(Int) /\ PutBefore(d) + Len(m) = ReadOut /\ Follows(m, PutBefore(d))
  <2>1. CASE HasLink
    <3> DEFINE p == InPublisher(d)
               s == InQueue(In)
    <3>1. /\ InTurn(queue[In], Got) /\ PutBefore(d) = Got - ToPut(d)
          /\ publisher.pc = "put" => publisher.line = Got
      BY <1>3, <2>1 DEF FlowInv, Flow, SourceInOrder, HasAll
    <3>2. s \in Seq(Int) /\ Len(s) = Queued(In) /\ Follows(s, Got)
      BY <1>1, <1>2, <3>1, InQueueFollows
    <3>3. p \in Seq(Int) /\ Len(p) = ToPut(d) /\ Follows(p, PutBefore(d))
      <4>1. CASE publisher.pc = "put" /\ d \in Range(publisher.todo)
        <5>1. ToPut(d) = 1 /\ p = <<Got>>
          BY <3>1, <4>1 DEF ToPut, InPublisher
        <5>2. PutBefore(d) \in Int /\ Got = PutBefore(d) + 1
          BY <1>2, <3>1, <5>1
        <5> QED BY <5>1, <5>2, Pieces
      <4>2. CASE ~(publisher.pc = "put" /\ d \in Range(publisher.todo))
        <5>1. ToPut(d) = 0 /\ p = <<>>
          BY <4>2 DEF ToPut, InPublisher
        <5>2. PutBefore(d) \in Int
          BY <1>2
        <5> QED BY <5>1, <5>2, Pieces
      <4> QED BY <4>1, <4>2
    <3>4. m = p \o s
      BY <2>1
    <3>5. ToPut(d) \in Int
      BY DEF ToPut
    <3>6. PutBefore(d) \in Int /\ Got = PutBefore(d) + Len(p)
      BY <1>2, <3>1, <3>3, <3>5
    <3> HIDE DEF p, s, m
    <3>7. m \in Seq(Int) /\ Len(m) = Len(p) + Len(s) /\ Follows(m, PutBefore(d))
      BY <1>2, <3>2, <3>3, <3>4, <3>6, FollowsConcat
    <3>8. PutBefore(d) + Len(m) = ReadOut
      BY <1>2, <3>1, <3>2, <3>3, <3>5, <3>7
    <3> QED BY <3>7, <3>8
  <2>2. CASE ~HasLink
    <3>1. m = <<>> /\ PutBefore(d) = ReadOut
      BY <1>3, <2>2 DEF HasAll
    <3>2. PutBefore(d) \in Int /\ PutBefore(d) + 0 = ReadOut
      BY <1>2, <3>1
    <3> HIDE DEF m
    <3> QED BY <3>1, <3>2, Pieces
  <2> QED BY <2>1, <2>2
<1>6. h \in Seq(Int) /\ ReadOut + Len(h) = taken /\ Follows(h, ReadOut)
  <2>1. CASE reader.pc = "put"
    <3>1. h = <<taken>> /\ taken = ReadOut + 1
      BY <1>2, <2>1 DEF InReader
    <3> HIDE DEF h
    <3> QED BY <1>2, <3>1, Pieces
  <2>2. CASE reader.pc # "put"
    <3>1. h = <<>> /\ taken = ReadOut
      BY <1>2, <2>2 DEF InReader
    <3>2. ReadOut + 0 = taken
      BY <1>2, <3>1
    <3> HIDE DEF h
    <3> QED BY <1>2, <3>1, <3>2, Pieces
  <2> QED BY <2>1, <2>2
<1>7. OnTheWay(d) = ((r \o q) \o m) \o h
  BY DEF OnTheWay
<1> HIDE DEF r, q, m, h
<1>8. r \o q \in Seq(Int) /\ Len(r \o q) = PutBefore(d) /\ Follows(r \o q, 0)
  <2>1. PICK z \in Int, k \in Int: z = 0 /\ k = Len(r)
    BY <1>2
  <2>2. k = z + Len(r) /\ Follows(r, z) /\ Follows(q, k)
    BY <1>3, <1>4, <2>1
  <2>3. r \o q \in Seq(Int) /\ Len(r \o q) = Len(r) + Len(q) /\ Follows(r \o q, z)
    BY <1>2, <1>4, <2>2, FollowsConcat
  <2> QED BY <1>2, <1>4, <2>1, <2>3
<1>9. (r \o q) \o m \in Seq(Int) /\ Len((r \o q) \o m) = ReadOut /\ Follows((r \o q) \o m, 0)
  <2> DEFINE a == r \o q
  <2>1. a \in Seq(Int) /\ Follows(a, 0) /\ PutBefore(d) = 0 + Len(a) /\ PutBefore(d) \in Int /\ Len(a) = PutBefore(d)
    BY <1>2, <1>8
  <2> HIDE DEF a
  <2>2. a \o m \in Seq(Int) /\ Len(a \o m) = ReadOut /\ Follows(a \o m, 0)
    BY <1>5, <2>1, FollowsConcat
  <2> QED BY <2>2 DEF a
<1>10. OnTheWay(d) \in Seq(Int) /\ Len(OnTheWay(d)) = taken /\ Follows(OnTheWay(d), 0)
  <2> DEFINE a == (r \o q) \o m
  <2>1. a \in Seq(Int) /\ Follows(a, 0) /\ ReadOut = 0 + Len(a) /\ Len(a) = ReadOut
    BY <1>2, <1>9
  <2> HIDE DEF a
  <2>2. a \o h \in Seq(Int) /\ Len(a \o h) = taken /\ Follows(a \o h, 0)
    BY <1>2, <1>6, <2>1, FollowsConcat
  <2> QED BY <1>7, <2>2 DEF a
<1> QED BY <1>10, FollowsEqual

\* If no line is given while link() registers several destinations, then
\* each line is at one place of the way from its source to each destination, unless it was
\* given up there, and what is given up, or lost with a writer, is a tail: the lines that a
\* publisher restarts, hands over or drops are never out of order and never leave a gap.
\* (The reader and the writer, the publisher, register_queue, _release_destinations)
THEOREM LinesInPlace == Spec => [](WiredFirst => FlowInv)
<1>1. Init => (WiredFirst => FlowInv)
  BY FlowInit
<1>2. TypeOK /\ StagesInv /\ (WiredFirst => FlowInv) /\ [Next]_vars /\ TypeOK' => (WiredFirst => FlowInv)'
  <2> SUFFICES ASSUME TypeOK, StagesInv, WiredFirst => FlowInv, [Next]_vars, TypeOK', WiredFirst'
               PROVE  FlowInv'
    OBVIOUS
  <2>1. WiredFirst
    BY ArgsKept, SameArgs
  <2> QED BY <2>1, FlowNext
<1> QED BY <1>1, <1>2, PipelineTypeCorrect, StagesInTurn, PTL DEF Spec

\* What a destination has received is the first lines of the source, in their order, if none
\* is given while link() registers several destinations. (The adapters and the publisher)
THEOREM NoGap == Spec => []PrefixReceived
<1>1. TypeOK /\ (WiredFirst => FlowInv) => PrefixReceived
  <2> SUFFICES ASSUME TypeOK, FlowInv, NEW d \in Destinations
               PROVE  received[d] = [i \in 1..Len(received[d]) |-> i]
    BY DEF PrefixReceived
  <2>1. d \in Names
    BY ArgsTyped
  <2>2. Follows(received[d], 0) /\ received[d] \in Seq(Int)
    BY <2>1, Counts DEF FlowInv, Flow, InOrder, GetsInOrder
  <2> QED BY <2>2, FollowsEqual
<1> QED BY <1>1, LinesInPlace, PipelineTypeCorrect, PTL

\* Under the same condition, whatever is stopped when, no line that was read is lost silently
\* or twice on its way. (The adapters, the publisher and _release_destinations)
THEOREM OneWay == Spec => []NothingVanishes
<1>1. TypeOK /\ (WiredFirst => FlowInv) => NothingVanishes
  BY WayFull DEF NothingVanishes
<1> QED BY <1>1, LinesInPlace, PipelineTypeCorrect, PTL

-----------------------------------------------------------------------------
(* What link() promises *)

\* A file whose writer is at work is one that stop() has yet to come to, and stop() waits for a
\* reader only if there is one. Nothing is put on the queues of other calls.
EndsInv ==
  /\ builder = "join reader" => HasReader
  /\ \A d \in Names: writer[d].pc # "off" => d \in Range(writers)
  /\ \A d \in Names: writer[d].pc \in {"get", "check"} =>
       /\ builder # "down"
       /\ builder \in {"join publisher", "stop writers", "join writer"} => d \in Range(waiting)
Known       == IF HasLink THEN Registered ELSE Destinations
OthersEmpty == \A d \in Names \ Known: Untouched(d)

LEMMA TailRange ==
  ASSUME NEW S, NEW s \in Seq(S), s # <<>>, NEW e \in Range(s), e # Head(s)
  PROVE  e \in Range(Tail(s))
<1>1. /\ Len(s) \in Nat \ {0} /\ DOMAIN s = 1..Len(s) /\ Head(s) = s[1]
      /\ Tail(s) \in Seq(S) /\ Len(Tail(s)) = Len(s) - 1
      /\ \A i \in 1..Len(s) - 1: Tail(s)[i] = s[i + 1]
  BY HeadTailProperties, LenProperties, EmptySeq
<1>2. PICK i \in DOMAIN s: s[i] = e
  BY DEF Range
<1> DEFINE n == Len(s)
<1>3. i \in 1..n /\ i # 1 /\ n \in Nat /\ DOMAIN Tail(s) = 1..n - 1 /\ \A k \in 1..n - 1: Tail(s)[k] = s[k + 1]
  BY <1>1, <1>2, LenProperties
<1> HIDE DEF n
<1>4. PICK k: k = i - 1
  OBVIOUS
<1>5. k \in 1..n - 1 /\ k + 1 = i
  BY <1>3, <1>4
<1>6. Tail(s)[k] = e
  BY <1>2, <1>3, <1>5
<1> QED BY <1>3, <1>5, <1>6 DEF Range

LEMMA AppendRange ==
  ASSUME NEW S, NEW s \in Seq(S), NEW e \in S
  PROVE  Range(Append(s, e)) = Range(s) \cup {e}
<1>1. /\ Len(s) \in Nat /\ DOMAIN s = 1..Len(s)
      /\ Append(s, e) \in Seq(S) /\ Len(Append(s, e)) = Len(s) + 1
      /\ \A i \in 1..Len(s): Append(s, e)[i] = s[i]
      /\ Append(s, e)[Len(s) + 1] = e
  BY AppendProperties, LenProperties
<1> DEFINE n == Len(s)
           a == Append(s, e)
<1>2. /\ n \in Nat /\ DOMAIN s = 1..n /\ DOMAIN a = 1..n + 1 /\ \A i \in 1..n: a[i] = s[i]
      /\ a[n + 1] = e
  BY <1>1, LenProperties
<1> HIDE DEF n, a
<1>3. \A i: i \in 1..n + 1 <=> i \in 1..n \/ i = n + 1
  BY <1>2
<1> QED BY <1>2, <1>3 DEF Range, a

LEMMA EndsInit == Init => EndsInv /\ OthersEmpty
<1> SUFFICES ASSUME Init PROVE EndsInv /\ OthersEmpty
  OBVIOUS
<1>1. \A d \in Names: Untouched(d)
  BY EndpointsAssumption DEF Init, Queues, Untouched
<1>2. builder = "call"
  BY DEF Init
<1> QED BY <1>1, <1>2 DEF EndsInv, OthersEmpty, Untouched

\* What a writer does with its lines does not start one, nor does anybody else's step.
LEMMA EndsKept ==
  ASSUME EndsInv, args' = args, writers' = writers, waiting' = waiting,
         \/ builder' = builder
         \/ /\ builder' \in {"stop writers", "join writer"}
            /\ builder \in {"join publisher", "stop writers", "join writer"},
         \A d \in Names: /\ writer'[d].pc # "off" => writer[d].pc # "off"
                         /\ writer'[d].pc \in {"get", "check"} => writer[d].pc \in {"get", "check"}
  PROVE  EndsInv'
BY SameArgs DEF EndsInv

LEMMA EndsStart ==
  ASSUME TypeOK, EndsInv, NEW f \in Names, StartWriter(f) \/ UNCHANGED <<writer, writers>>,
         builder' \in {"insert", "reader", "up"}
  PROVE  EndsInv'
<1>1. CASE UNCHANGED <<writer, writers>>
  BY <1>1 DEF EndsInv
<1>2. CASE StartWriter(f) /\ WriterTurn(f, "get") /\ writers' = Append(writers, f)
  <2>1. Range(writers') = Range(writers) \cup {f}
    BY <1>2, AppendRange DEF TypeOK
  <2>2. \A d \in Names: d # f => writer'[d] = writer[d]
    BY <1>2 DEF WriterTurn, TypeOK
  <2> QED BY <2>1, <2>2 DEF EndsInv
<1> QED BY <1>1, <1>2 DEF StartWriter

LEMMA EndsNext == TypeOK /\ StagesInv /\ EndsInv /\ [Next]_vars => EndsInv'
<1> SUFFICES ASSUME TypeOK, StagesInv, EndsInv, [Next]_vars PROVE EndsInv'
  OBVIOUS
<1>0. writer \in [Names -> [pc: {"off", "get", "check", "dead", "failed"}, stop: BOOLEAN]]
  BY DEF TypeOK
<1>a. args' = args /\ HasReader' = HasReader
  BY ArgsKept, SameArgs
<1>1. ASSUME UNCHANGED <<writer, writers, waiting, builder>> PROVE EndsInv'
  BY <1>1, <1>a, EndsKept
<1>2. CASE Reader \/ Publisher \/ Produce \/ (\E d \in Names: Consume(d)) \/ (\E q \in Queues: Flush(q))
           \/ UNCHANGED vars
  BY <1>1, <1>2 DEF Reader, Publisher, Read, ReaderPut, ReaderCheck, ReaderFlushed, PublisherCheck,
     PublisherGet, PublisherPut, PublisherDone, Release, Produce, Consume, Flush, vars, stages, calls
<1>3. ASSUME NEW f \in Names, Writer(f) PROVE EndsInv'
  <2>1. writers' = writers /\ waiting' = waiting /\ builder' = builder
    BY <1>3 DEF Writer, WriterGet, WriterCheck, calls
  <2>2. writer[f].pc \in {"get", "check"} /\ \A d \in Names: d # f => writer'[d] = writer[d]
    BY <1>0, <1>3 DEF Writer, WriterGet, WriterCheck, WriterTurn
  <2> QED BY <1>a, <2>1, <2>2, EndsKept
<1>4. CASE Link \/ Insert \/ Request \/ StartFails \/ BeginStop \/ JoinReader
  <2>1. writers' = writers /\ writer' = writer
    BY <1>4 DEF Link, Insert, Request, StartFails, BeginStop, JoinReader, stages
  <2>2. builder' \notin {"down", "join publisher", "stop writers", "join writer"}
    BY <1>4 DEF Link, Insert, Request, StartFails, BeginStop, JoinReader, Step, Rejected
  <2>3. builder' = "join reader" => HasReader
    BY <1>4 DEF Link, Insert, Request, StartFails, BeginStop, JoinReader, Step, Rejected
  <2> QED BY <1>a, <2>1, <2>2, <2>3 DEF EndsInv
<1>5. CASE Start
  <2>1. Dests[wired] \in Names
    <3>1. wired # 0 /\ wired \in 0..Len(Dests) /\ Len(Dests) \in Nat
      BY <1>5, ArgsTyped DEF Start, StagesInv, Wired, TypeOK
    <3> QED BY <3>1, ArgsTyped
  <2>2. builder' \in {"insert", "reader", "up"} /\ StartWriter(Dests[wired])
    BY <1>5 DEF Start
  <2> QED BY <2>1, <2>2, EndsStart
<1>6. CASE StartReader
  <2>1. builder' = "up"
    BY <1>6 DEF StartReader
  <2>2. CASE HasLink
    BY <1>6, <2>1, <2>2 DEF StartReader, EndsInv
  <2>3. CASE ~HasLink
    <3>1. Dests[1] \in Names /\ StartWriter(Dests[1])
      BY <1>6, <2>3, ArgsTyped DEF StartReader
    <3> QED BY <2>1, <3>1, EndsStart
  <2> QED BY <2>2, <2>3
<1>7. CASE Drain
  <2>1. writer' = writer /\ writers' = writers /\ (builder' = builder \/ waiting' = writers)
    BY <1>7 DEF Drain
  <2>2. builder = "drain" /\ builder' \in {"drain", "join publisher", "stop writers"}
    BY <1>7 DEF Drain
  <2> QED BY <2>1, <2>2 DEF EndsInv
<1>8. CASE JoinPublisher \/ StopWriter
  <2>1. /\ writers' = writers /\ waiting' = waiting
        /\ builder' \in {"stop writers", "join writer"}
        /\ builder \in {"join publisher", "stop writers", "join writer"}
    BY <1>8 DEF JoinPublisher, StopWriter, Step
  <2>2. \A d \in Names: writer'[d].pc = writer[d].pc
    <3>1. CASE JoinPublisher
      BY <3>1 DEF JoinPublisher
    <3>2. CASE StopWriter
      <4>1. writer' = [writer EXCEPT ![Head(waiting)].stop = TRUE]
        BY <3>2 DEF StopWriter
      <4> QED BY <1>0, <4>1
    <3> QED BY <1>8, <3>1, <3>2
  <2> QED BY <1>a, <2>1, <2>2, EndsKept
<1>9. CASE JoinWriter
  <2>1. /\ writers' = writers /\ writer' = writer /\ waiting' = Tail(waiting)
        /\ builder = "join writer" /\ builder' = "stop writers"
        /\ writer[Head(waiting)].pc \in {"dead", "failed"}
    BY <1>9 DEF JoinWriter, Step, stages
  <2>2. waiting # <<>> /\ waiting \in Seq(Queues)
    BY <2>1 DEF StagesInv, WritersInTurn, TypeOK
  <2>3. ASSUME NEW d \in Names, writer[d].pc \in {"get", "check"} PROVE d \in Range(Tail(waiting))
    <3>1. d \in Range(waiting) /\ d # Head(waiting)
      BY <2>1, <2>3 DEF EndsInv
    <3> QED BY <2>2, <3>1, TailRange
  <2> QED BY <2>1, <2>3 DEF EndsInv
<1>10. CASE EndStop
  <2>1. /\ writers' = writers /\ writer' = writer /\ waiting = <<>>
        /\ builder = "stop writers" /\ builder' = "down"
    BY <1>10 DEF EndStop, Step, stages
  <2>2. Range(waiting) = {}
    <3>1. waiting \in Seq(Queues) /\ Len(waiting) = 0
      BY <2>1, EmptySeq DEF TypeOK
    <3>2. DOMAIN waiting = 1..0
      BY <3>1, LenProperties
    <3>3. DOMAIN waiting = {}
      BY <3>2
    <3> QED BY <3>3 DEF Range
  <2> QED BY <2>1, <2>2 DEF EndsInv
<1>11. CASE Collect
  <2>1. writers' = writers /\ waiting' = waiting /\ builder' = builder
    BY <1>11 DEF Collect, calls
  <2>2. writer' = writer \/ \E o \in Names: writer' = [writer EXCEPT ![o].stop = TRUE]
    BY <1>11 DEF Collect
  <2>3. ASSUME NEW d \in Names PROVE writer'[d].pc = writer[d].pc
    <3>1. ASSUME NEW o \in Names, writer' = [writer EXCEPT ![o].stop = TRUE]
          PROVE  writer'[d].pc = writer[d].pc
      BY <1>0, <3>1
    <3> QED BY <2>2, <3>1
  <2> QED BY <1>a, <2>1, <2>3, EndsKept
<1> QED
  BY <1>2, <1>3, <1>4, <1>5, <1>6, <1>7, <1>8, <1>9, <1>10, <1>11 DEF Next, Build, Stop

\* put and get leave the other queues alone.
LEMMA OtherQueue ==
  ASSUME TypeOK, NEW d \in Queues, NEW q, q # d, (\E line: PutOn(q, line)) \/ GetFrom(q)
  PROVE  queue'[d] = queue[d]
BY DEF TypeOK, PutOn, GetFrom

LEMMA KnownGrows ==
  ASSUME TypeOK, TypeOK', [Next]_vars
  PROVE  Known \subseteq Known' /\ Known' \subseteq Destinations
<1>1. args' = args /\ HasLink' = HasLink /\ Destinations' = Destinations
  BY ArgsKept, SameArgs
<1>2. wired' = wired \/ wired' = wired + 1
  BY OthersMove DEF Build, Stop, Link, Insert, Request, Start, StartReader, StartFails, BeginStop,
     JoinReader, Drain, JoinPublisher, StopWriter, JoinWriter, EndStop
<1>3. wired \in Nat
  BY ArgsTyped DEF TypeOK
<1>4. wired <= wired'
  BY <1>2, <1>3
<1>5. Registered \subseteq Registered'
  BY <1>1, <1>4, RegisteredGrows
<1>6. Dests' = Dests /\ Dests \in Seq(Names) /\ wired' \in 0..Len(Dests)
  BY <1>1, ArgsTyped, SameArgs DEF TypeOK
<1>7. Registered' \subseteq Destinations
  BY <1>6, Firsts DEF Registered, Destinations
<1> QED BY <1>1, <1>5, <1>7 DEF Known

LEMMA OthersNext == TypeOK /\ StagesInv /\ OthersEmpty /\ [Next]_vars /\ TypeOK' => OthersEmpty'
<1> SUFFICES ASSUME TypeOK, StagesInv, OthersEmpty, [Next]_vars, TypeOK',
                    NEW d \in Names, d \notin Known'
             PROVE  Untouched(d)'
  BY DEF OthersEmpty
<1>1. /\ d \in Queues /\ d # In /\ d \notin Known /\ Untouched(d)
      /\ writer[d].pc = "off" /\ received[d] = <<>> /\ queue[d].buffer = <<>> /\ queue[d].pipe = <<>>
  BY KnownGrows, EndpointsAssumption DEF OthersEmpty, Queues, Untouched
<1>2. ASSUME writer'[d].pc = "off", received'[d] = received[d], queue'[d] = queue[d]
      PROVE  Untouched(d)'
  BY <1>1, <1>2 DEF Untouched
<1>0. writer \in [Names -> [pc: {"off", "get", "check", "dead", "failed"}, stop: BOOLEAN]]
  BY DEF TypeOK
<1>3. CASE Reader
  <2>1. received' = received /\ writer' = writer
    BY <1>3 DEF Reader, Read, ReaderPut, ReaderCheck, ReaderFlushed, files
  <2>2. CASE ReaderPut
    <3>1. ReaderPuts # d
      BY <1>1, ArgsTyped DEF ReaderPuts, Known
    <3>2. queue'[d] = queue[d]
      BY <1>1, <2>2, <3>1, OtherQueue DEF ReaderPut
    <3> QED BY <1>1, <1>2, <2>1, <3>2
  <2>3. CASE ~ReaderPut
    <3>1. queue' = queue
      BY <1>3, <2>3 DEF Reader, Read, ReaderCheck, ReaderFlushed
    <3> QED BY <1>1, <1>2, <2>1, <3>1
  <2> QED BY <2>2, <2>3
<1>4. CASE Publisher
  <2>1. received' = received /\ writer' = writer
    BY <1>4 DEF Publisher, PublisherCheck, PublisherGet, PublisherPut, PublisherDone, Release, files
  <2>2. queue'[d] = queue[d]
    <3>1. CASE PublisherCheck \/ PublisherDone
      BY <3>1 DEF PublisherCheck, PublisherDone
    <3>2. CASE PublisherGet
      BY <1>1, <3>2, OtherQueue DEF PublisherGet
    <3>3. CASE PublisherPut
      <4>1. /\ publisher.todo # <<>> /\ publisher.todo \in Seq(Names)
            /\ Range(publisher.todo) \subseteq Known
        BY <3>3 DEF PublisherPut, TypeOK, StagesInv, PublisherInTurn, Known
      <4>2. Head(publisher.todo) \in Range(publisher.todo)
        <5>1. Head(publisher.todo) = publisher.todo[1] /\ 1 \in DOMAIN publisher.todo
          BY <4>1, HeadTailProperties, EmptySeq, LenProperties
        <5> QED BY <5>1 DEF Range
      <4>3. Head(publisher.todo) # d
        BY <1>1, <4>1, <4>2
      <4> QED BY <1>1, <3>3, <4>3, OtherQueue DEF PublisherPut
    <3>4. CASE Release
      BY <1>1, <3>4 DEF Release
    <3> QED BY <1>4, <3>1, <3>2, <3>3, <3>4 DEF Publisher
  <2> QED BY <1>1, <1>2, <2>1, <2>2
<1>5. CASE Build \/ StartFails \/ BeginStop \/ Stop \/ Collect \/ UNCHANGED vars
  <2>1. queue' = queue /\ received' = received
    BY <1>5 DEF Build, Stop, Link, Insert, Request, Start, StartReader, StartFails, BeginStop,
       JoinReader, Drain, JoinPublisher, StopWriter, JoinWriter, EndStop, Collect, vars, files
  <2>2. writer'[d].pc = "off"
    <3>1. ASSUME NEW o, o \in Known, StartWriter(o) \/ UNCHANGED <<writer, writers>>
          PROVE  writer'[d] = writer[d]
      BY <1>0, <1>1, <3>1 DEF StartWriter, WriterTurn
    <3>2. CASE Start
      <4>1. Dests[wired] \in Known
        <5>1. builder = "start" /\ publisher.pc = "dead"
          BY <3>2 DEF Start
        <5>2. HasLink /\ wired # 0 /\ wired \in Nat
          BY <5>1, ArgsTyped DEF StagesInv, Wired, Wiring, TypeOK
        <5>3. wired \in 1..wired
          BY <5>2
        <5> QED BY <5>2, <5>3, RegisteredTyped DEF Known
      <4> QED BY <1>1, <3>1, <3>2, <4>1 DEF Start
    <3>3. CASE StartReader
      <4>1. ~HasLink => Dests[1] \in Known
        BY ArgsTyped DEF Known
      <4> QED BY <1>1, <3>1, <3>3, <4>1 DEF StartReader
    <3>4. ASSUME NEW o, writer' = [writer EXCEPT ![o].stop = TRUE]
          PROVE  writer'[d].pc = "off"
      BY <1>0, <1>1, <3>4
    <3>5. CASE ~Start /\ ~StartReader
      <4>1. writer' = writer \/ \E o: writer' = [writer EXCEPT ![o].stop = TRUE]
        BY <1>5, <3>5 DEF Build, Stop, Link, Insert, Request, StartFails, BeginStop,
           JoinReader, Drain, JoinPublisher, StopWriter, JoinWriter, EndStop, Collect, vars, stages
      <4> QED BY <1>1, <3>4, <4>1
    <3> QED BY <3>2, <3>3, <3>5
  <2> QED BY <1>2, <2>1, <2>2
<1>6. CASE Produce
  <2>1. received' = received /\ writer' = writer /\ PutOn(In, taken + 1)
    BY <1>6 DEF Produce, stages, files
  <2> QED BY <1>1, <1>2, <2>1, OtherQueue
<1>7. ASSUME NEW f \in Names, Writer(f) PROVE Untouched(d)'
  <2>1. f # d
    BY <1>1, <1>7 DEF Writer, WriterGet, WriterCheck
  <2>2. writer'[d] = writer[d] /\ received'[d] = received[d]
    BY <1>0, <1>7, <2>1 DEF Writer, WriterGet, WriterCheck, WriterTurn, files, TypeOK
  <2>3. queue' = queue \/ GetFrom(f)
    BY <1>7 DEF Writer, WriterGet, WriterCheck
  <2>4. queue'[d] = queue[d]
    BY <1>1, <2>1, <2>3, OtherQueue
  <2> QED BY <1>1, <1>2, <2>2, <2>4
<1>8. ASSUME NEW f \in Names, Consume(f) PROVE Untouched(d)'
  <2>1. f # d /\ GetFrom(f)
    BY <1>1, <1>8 DEF Consume, LooksEmpty
  <2>2. received'[d] = received[d] /\ writer' = writer
    BY <1>8, <2>1 DEF Consume, TypeOK, stages
  <2>3. queue'[d] = queue[d]
    BY <1>1, <2>1, OtherQueue
  <2> QED BY <1>1, <1>2, <2>2, <2>3
<1>9. ASSUME NEW q \in Queues, Flush(q) PROVE Untouched(d)'
  <2>1. q # d
    BY <1>1, <1>9 DEF Flush
  <2>2. queue'[d] = queue[d]
    BY <1>1, <1>9, <2>1, FlushChanges
  <2> QED BY <1>1, <1>2, <1>9, <2>2 DEF Flush, stages, files
<1> QED BY <1>3, <1>4, <1>5, <1>6, <1>7, <1>8, <1>9 DEF Next

LEMMA QueuedLater == TypeOK' => \A q \in Queues: Queued(q)' \in Nat
<1>1. TypeOK => \A q \in Queues: Queued(q) \in Nat
  BY QueueTyped
<1>2. Queues' = Queues
  BY DEF Queues
<1>3. (TypeOK => \A q \in Queues: Queued(q) \in Nat)'
  BY <1>1, PTL
<1> QED BY <1>3

\* Where a step leaves the arguments, what a destination has and will get.
\* The publisher gives a destination up for good, if no line came while link() was wiring.
LEMMA LeftOutIs ==
  ASSUME WiredFirst
  PROVE  LeftOut = dropped /\ (args' = args => LeftOut' = dropped')
<1>1. LeftOut = dropped
  BY DEF LeftOut
<1>2. ASSUME args' = args PROVE LeftOut' = dropped'
  <2>1. WiredFirst'
    BY <1>2, SameArgs
  <2> QED BY <2>1 DEF LeftOut
<1> QED BY <1>1, <1>2

LEMMA TeeKept ==
  ASSUME TypeOK, WiredFirst, args' = args, taken' = taken, received' = received, dropped' = dropped,
         \A d \in Names: SameFailure(d), \A d \in dropped: Queued(d)' = Queued(d)
  PROVE  Given' = Given /\ Short' = Short /\ Owed' = Owed
<1>1. Given' = Given
  BY SameArgs DEF Given
<1>2. Short' = Short
  BY LeftOutIs DEF Short, Failed, SameFailure
<1>3. Owed' = Owed
  BY LeftOutIs DEF Owed, Failed, SameFailure
<1> QED BY <1>1, <1>2, <1>3

LEMMA TeeStutter ==
  ASSUME TypeOK, WiredFirst, args' = args, builder' = builder, taken' = taken, received' = received,
         dropped' = dropped, \A d \in Names: SameFailure(d), \A d \in dropped: Queued(d)' = Queued(d)
  PROVE  UNCHANGED Abstract!vars
<1>1. Phase' = Phase
  BY DEF Phase
<1> QED BY <1>1, TeeKept DEF Abstract!vars

\* The steps of link() and stop() that nobody sees, and those that begin and end something.
LEMMA PhaseIs ==
  /\ builder = "call" => Phase = "called"
  /\ builder \in {"TypeError", "ValueError"} => Phase = "refused"
  /\ builder \in Wiring \cup {"reader", "up"} => Phase = "running"
  /\ builder = "broken" => Phase = "broken"
  /\ builder = "join reader" => Phase = "closing"
  /\ builder \in {"drain", "join publisher", "stop writers", "join writer"} => Phase = "draining"
  /\ builder = "down" => Phase = "down"
BY DEF Phase, Wiring

LEMMA PhaseWillBe ==
  /\ builder' = "call" => Phase' = "called"
  /\ builder' \in {"TypeError", "ValueError"} => Phase' = "refused"
  /\ builder' \in Wiring \cup {"reader", "up"} => Phase' = "running"
  /\ builder' = "broken" => Phase' = "broken"
  /\ builder' = "join reader" => Phase' = "closing"
  /\ builder' \in {"drain", "join publisher", "stop writers", "join writer"} => Phase' = "draining"
  /\ builder' = "down" => Phase' = "down"
BY DEF Phase, Wiring

\* What a link() that raised has started is asked to end.
LEMMA TeeCollect ==
  ASSUME TypeOK, WiredFirst, Collect
  PROVE  UNCHANGED Abstract!vars
<1>1. /\ args' = args /\ taken' = taken /\ queue' = queue /\ received' = received
      /\ dropped' = dropped /\ builder' = builder
  BY DEF Collect, files, calls
<1>2. ASSUME NEW d \in Names PROVE SameFailure(d)
  <2>1. writer \in [Names -> [pc: {"off", "get", "check", "dead", "failed"}, stop: BOOLEAN]]
    BY DEF TypeOK
  <2>2. ASSUME NEW o \in Names, writer' = [writer EXCEPT ![o].stop = TRUE]
        PROVE  writer'[d].pc = writer[d].pc
    BY <2>1, <2>2
  <2>3. writer'[d].pc = writer[d].pc
    BY <2>2 DEF Collect
  <2> QED BY <2>3 DEF SameFailure
<1>3. \A d \in dropped: Queued(d)' = Queued(d)
  BY <1>1 DEF Queued
<1> QED BY <1>1, <1>2, <1>3, TeeStutter

\* A line the source gives.
LEMMA TeeRead ==
  ASSUME TypeOK, WiredFirst, args' = args, builder' = builder, taken' = taken + 1, received' = received,
         dropped' = dropped, writer' = writer, \A d \in dropped: Queued(d)' = Queued(d),
         HasReader => builder \in {"up", "broken", "join reader"}
  PROVE  Abstract!Read
<1>1. Given' = Given /\ Phase' = Phase /\ Short' = Short
  BY SameArgs, LeftOutIs DEF Given, Phase, Short, Failed
<1>2. Given.reads => Phase \in {"running", "broken", "closing"}
  BY PhaseIs DEF Given, Wiring
<1>3. Owed' = [d \in Names |-> IF d \in Short THEN Owed[d] ELSE taken + 1]
  <2>1. ASSUME NEW d \in Names
        PROVE  (IF Failed(d)' THEN Len(received[d])' ELSE IF d \in dropped' THEN Len(received[d])' + Queued(d)' ELSE taken')
               = (IF d \in Short THEN Owed[d] ELSE taken + 1)
    BY LeftOutIs DEF Short, Failed, Owed
  <2> QED BY <2>1, LeftOutIs DEF Owed
<1> QED BY <1>1, <1>2, <1>3 DEF Abstract!Read

\* a received, h in the queue, of which k remain.
LEMMA Shortened ==
  ASSUME NEW a \in Nat, NEW h \in Nat, NEW k \in Nat, NEW t \in Nat, NEW old, NEW new,
         NEW d, NEW given, NEW some, NEW pc, k <= h, d \notin some => k = h,
         pc # "failed" => a + h <= t,
         old = IF pc = "failed" THEN a ELSE IF d \in given THEN a + h ELSE t,
         new = IF pc = "failed" THEN a ELSE IF d \in given \cup some THEN a + k ELSE t
  PROVE  new \in Nat /\ a <= new /\ new <= old /\ (d \notin some => new = old)
<1>1. CASE pc = "failed"
  BY <1>1
<1>2. CASE pc # "failed" /\ d \in given \cup some
  <2>1. new = a + k /\ old \in {a + h, t} /\ (d \notin some => old = a + h)
    BY <1>2
  <2> QED BY <1>2, <2>1
<1>3. CASE pc # "failed" /\ d \notin given \cup some
  <2>1. new = t /\ old = t
    BY <1>3
  <2> QED BY <1>3, <2>1
<1> QED BY <1>1, <1>2, <1>3

\* What the publisher gives up.
LEMMA TeeGiveUp ==
  ASSUME TypeOK, TypeOK', WiredFirst, FlowInv, args' = args, builder' = builder, taken' = taken,
         received' = received, writer' = writer, Phase \in {"draining", "broken"},
         NEW some \in SUBSET Destinations, dropped' = dropped \cup some,
         \A d \in Names: Queued(d)' <= Queued(d) /\ (d \notin some => Queued(d)' = Queued(d))
  PROVE  Abstract!GiveUp(some)
<1>1. Given' = Given /\ Phase' = Phase
  BY SameArgs DEF Given, Phase
<1>3. some \subseteq Names
  BY ArgsTyped
<1>4. Short' = Short \cup some
  BY <1>3, LeftOutIs DEF Short, Failed
<1>5. ASSUME NEW d \in Names
      PROVE  /\ Owed'[d] \in Nat
             /\ Len(received[d]) <= Owed'[d] /\ Owed'[d] <= Owed[d]
             /\ d \notin some => Owed'[d] = Owed[d]
  <2>1. PICK a: a = Len(received[d])
    OBVIOUS
  <2>2. PICK h: h = Queued(d)
    OBVIOUS
  <2>3. PICK k: k = Queued(d)'
    OBVIOUS
  <2>4. a \in Nat /\ h \in Nat /\ k \in Nat /\ taken \in Nat /\ k <= h /\ (d \notin some => k = h)
    <3>1. a \in Nat /\ h \in Nat /\ taken \in Nat
      BY <2>1, <2>2, Counts
    <3>2. Queued(d)' \in Nat
      BY QueuedLater DEF Queues
    <3> QED BY <2>2, <2>3, <3>1, <3>2
  <2>5. writer[d].pc # "failed" => a + h <= taken
    <3>1. writer[d].pc # "failed" => PutBefore(d) <= taken
      BY DEF FlowInv, Flow, InOrder, GetsInOrder
    <3> QED BY <2>1, <2>2, <3>1 DEF PutBefore
  <2>a. PICK old: old = Owed[d]
    OBVIOUS
  <2>b. PICK new: new = Owed'[d]
    OBVIOUS
  <2>6. old = IF writer[d].pc = "failed" THEN a ELSE IF d \in dropped THEN a + h ELSE taken
    BY <2>1, <2>2, <2>a, LeftOutIs DEF Owed, Failed
  <2>7. new = IF writer[d].pc = "failed" THEN a ELSE IF d \in dropped \cup some THEN a + k ELSE taken
    BY <2>1, <2>3, <2>b, LeftOutIs DEF Owed, Failed
  <2>8. new \in Nat /\ a <= new /\ new <= old /\ (d \notin some => new = old)
    BY <2>4, <2>5, <2>6, <2>7, Shortened
  <2> QED BY <2>1, <2>8, <2>a, <2>b
<1>6. Owed' \in [Names -> Nat]
  BY <1>5 DEF Owed
<1> QED BY <1>1, <1>4, <1>5, <1>6 DEF Abstract!GiveUp

LEMMA TeeReader ==
  ASSUME TypeOK, WiredFirst, StagesInv, FlowInv, Reader
  PROVE  Abstract!Read \/ UNCHANGED Abstract!vars
<1>1. /\ args' = args /\ writer' = writer /\ received' = received /\ dropped' = dropped
      /\ builder' = builder /\ reader.pc \in {"read", "put", "check", "flush"}
  BY DEF Reader, Read, ReaderPut, ReaderCheck, ReaderFlushed, files, calls
<1>2. dropped = {}
  BY <1>1 DEF StagesInv, ReaderInTurn, Unread, FlowInv, GivenUp
<1>3. HasReader => builder \in {"up", "broken", "join reader"}
  <2>1. /\ HasReader => builder \notin Before \cup Wiring \cup {"reader"}
        /\ builder \notin Stopped \cup {"drain", "join publisher"}
    BY <1>1 DEF StagesInv, ReaderInTurn, Unread
  <2> QED BY <2>1 DEF TypeOK, Steps, Before, Wiring, Stopped
<1>4. taken' = taken + 1 \/ taken' = taken
  BY DEF Reader, Read, ReaderPut, ReaderCheck, ReaderFlushed
<1>5. \A d \in Names: SameFailure(d)
  BY <1>1 DEF SameFailure
<1>6. CASE taken' = taken + 1
  BY <1>1, <1>2, <1>3, <1>6, TeeRead
<1>7. CASE taken' = taken
  BY <1>1, <1>2, <1>5, <1>7, TeeStutter
<1> QED BY <1>4, <1>6, <1>7

LEMMA TeePublisher ==
  ASSUME TypeOK, TypeOK', WiredFirst, StagesInv, FlowInv, FlowInv', Publisher
  PROVE  (\E some \in SUBSET Given.to: Abstract!GiveUp(some)) \/ UNCHANGED Abstract!vars
<1>1. /\ args' = args /\ taken' = taken /\ writer' = writer /\ received' = received
      /\ builder' = builder /\ publisher.pc # "dead" /\ \A d \in Names: SameFailure(d)
  BY PublisherFrame DEF FlowInv
<1>2. /\ In \notin Names /\ In \in Queues /\ dropped \subseteq Names /\ Destinations \subseteq Names
      /\ Names \subseteq Queues /\ Given.to = Destinations
  BY EndpointsAssumption, ArgsTyped DEF Queues, TypeOK, Given
<1>3. dropped' # {} => Phase \in {"draining", "broken"}
  <2>1. dropped' # {} => builder \in Stopped \cup {"join publisher", "broken"}
    BY <1>1 DEF FlowInv, GivenUp
  <2>2. builder \notin Stopped
    BY <1>1 DEF StagesInv, PublisherInTurn
  <2> QED BY <2>1, <2>2, PhaseIs
<1>4. ASSUME dropped' = dropped, \A d \in dropped: queue'[d] = queue[d]
      PROVE  UNCHANGED Abstract!vars
  <2>1. \A d \in dropped: Queued(d)' = Queued(d)
    BY <1>4 DEF Queued
  <2> QED BY <1>1, <1>4, <2>1, TeeStutter
<1>5. CASE PublisherCheck \/ PublisherDone
  BY <1>4, <1>5 DEF PublisherCheck, PublisherDone
<1>6. CASE PublisherGet
  <2>1. \A d \in Names: queue'[d] = queue[d]
    BY <1>2, <1>6, OtherQueue DEF PublisherGet
  <2> QED BY <1>2, <1>4, <1>6, <2>1 DEF PublisherGet
<1>7. CASE PublisherPut
  <2>1. /\ publisher.pc = "put" /\ publisher.todo # <<>> /\ publisher.todo \in Seq(Names)
        /\ Range(publisher.todo) \subseteq Destinations
    BY <1>7, RegisteredTyped DEF PublisherPut, TypeOK, StagesInv, PublisherInTurn
  <2>2. PICK d \in Names: d = Head(publisher.todo)
    BY <2>1, HeadTailProperties
  <2>3. d \in Range(publisher.todo) /\ d \in Destinations /\ d \notin dropped
    <3>1. d = publisher.todo[1] /\ 1 \in DOMAIN publisher.todo
      BY <2>1, <2>2, HeadTailProperties, EmptySeq, LenProperties
    <3>2. d \in Range(publisher.todo)
      BY <3>1 DEF Range
    <3> QED BY <2>1, <3>2 DEF FlowInv, GivenUp
  <2>4. \/ PutOn(d, publisher.line) /\ dropped' = dropped
        \/ queue' = queue /\ dropped' = dropped \cup {d}
    BY <1>7, <2>2 DEF PublisherPut
  <2>5. CASE PutOn(d, publisher.line) /\ dropped' = dropped
    <3>1. \A e \in dropped: queue'[e] = queue[e]
      BY <1>2, <2>3, <2>5, OtherQueue
    <3> QED BY <1>4, <2>5, <3>1
  <2>6. CASE queue' = queue /\ dropped' = dropped \cup {d}
    <3>1. \A e \in Names: Queued(e)' = Queued(e) /\ Queued(e) \in Nat
      BY <1>2, <2>6, QueueTyped DEF Queued
    <3>2. \A e \in Names: Queued(e)' <= Queued(e) /\ (e \notin {d} => Queued(e)' = Queued(e))
      BY <3>1
    <3>3. {d} \in SUBSET Destinations /\ {d} \in SUBSET Given.to /\ Phase \in {"draining", "broken"}
      BY <1>2, <1>3, <2>3, <2>6
    <3>4. Abstract!GiveUp({d})
      BY <1>1, <2>6, <3>2, <3>3, TeeGiveUp
    <3> QED BY <3>3, <3>4
  <2> QED BY <2>4, <2>5, <2>6
<1>8. CASE Release
  <2>1. PICK some: some = {d \in Range(Targets): queue[d].buffer # <<>>}
    OBVIOUS
  <2>2. some \in SUBSET Destinations /\ some \in SUBSET Given.to /\ dropped' = dropped \cup some
    BY <1>2, <1>8, <2>1, TargetsTyped DEF Release
  <2>3. \A q \in Queues: IF q \in some THEN queue'[q].pipe = queue[q].pipe /\ queue'[q].buffer = <<>>
                         ELSE queue'[q] = queue[q]
    <3>1. /\ queue' = [q \in Queues |-> IF q \in some THEN Cut(queue[q]) ELSE queue[q]]
          /\ \A q \in Queues: queue[q] \in Contents
      BY <1>8, <2>1 DEF Release, TypeOK, Contents
    <3> QED BY <3>1 DEF Contents, Cut
  <2>4. ASSUME NEW d \in Names
        PROVE  Queued(d)' <= Queued(d) /\ (d \notin some => Queued(d)' = Queued(d))
    <3>1. /\ d \in Queues /\ Queued(d) \in Nat /\ Queued(d)' = Len(queue'[d].buffer) + Len(queue'[d].pipe)
          /\ Len(queue[d].buffer) \in Nat /\ Len(queue[d].pipe) \in Nat
      BY <1>2, QueueTyped DEF Queued
    <3> DEFINE buffer == Len(queue[d].buffer)
               pipe == Len(queue[d].pipe)
               h == Queued(d)
               k == Queued(d)'
    <3>2. h = buffer + pipe /\ buffer \in Nat /\ pipe \in Nat /\ h \in Nat
      BY <3>1 DEF Queued
    <3>3. d \in some => k = 0 + pipe
      BY <2>3, <3>1, EmptySeq
    <3>4. d \notin some => k = h
      BY <2>3, <3>1 DEF Queued
    <3> HIDE DEF buffer, pipe, h, k
    <3>5. k <= h /\ (d \notin some => k = h)
      BY <3>2, <3>3, <3>4
    <3> QED BY <3>5 DEF h, k
  <2>5. CASE dropped' = {}
    <3>1. some = {} /\ dropped = {}
      BY <2>2, <2>5
    <3> QED BY <1>4, <2>5, <3>1
  <2>6. CASE dropped' # {}
    <3>1. Abstract!GiveUp(some)
      BY <1>1, <1>3, <2>2, <2>4, <2>6, TeeGiveUp
    <3> QED BY <2>2, <3>1
  <2> QED BY <2>5, <2>6
<1> QED BY <1>5, <1>6, <1>7, <1>8 DEF Publisher

LEMMA OpenPhase ==
  ASSUME TypeOK, builder \notin Before
  PROVE  builder # "down" => Phase \in {"running", "broken", "closing", "draining"}
BY DEF TypeOK, Steps, Before, Phase

\* The line a destination has not got comes next in its queue.
LEMMA NextLine ==
  ASSUME TypeOK, WiredFirst, StagesInv, FlowInv, OthersEmpty, NEW d \in Names, writer[d].pc # "failed",
         ~LooksEmpty(d)
  PROVE  /\ d \in Destinations /\ builder \notin Before
         /\ Head(queue[d].pipe) = Len(received[d]) + 1
         /\ Len(received[d]) < Owed[d]
<1>1. d \in Destinations /\ builder \notin Before
  BY RegisteredTyped DEF LooksEmpty, OthersEmpty, Known, Untouched, StagesInv, Unbuilt
<1>2. d \in Queues /\ InTurn(queue[d], Len(received[d])) /\ PutBefore(d) <= taken
  BY DEF Queues, FlowInv, Flow, InOrder, GetsInOrder
<1>3. /\ queue[d].pipe \in Seq(Int) /\ Len(queue[d].pipe) \in Nat /\ Len(queue[d].buffer) \in Nat
      /\ Queued(d) \in Nat
  BY <1>2, QueueTyped
<1>4. Len(queue[d].pipe) # 0
  BY <1>3, EmptySeq DEF LooksEmpty
<1>5. Head(queue[d].pipe) = queue[d].pipe[1]
  BY <1>3, <1>4
<1>6. Len(received[d]) \in Nat /\ taken \in Nat /\ PutBefore(d) = Len(received[d]) + Queued(d)
  BY Counts
<1>7. Owed[d] \in {Len(received[d]) + Queued(d), taken}
  BY LeftOutIs DEF Owed, Failed
<1> DEFINE a == Len(received[d])
           b == Len(queue[d].buffer)
           p == Len(queue[d].pipe)
           h == Queued(d)
           o == Owed[d]
<1>8. /\ a \in Nat /\ b \in Nat /\ p \in Nat /\ h \in Nat /\ p # 0 /\ h = b + p
      /\ a + h <= taken /\ taken \in Nat /\ o \in {a + h, taken}
  BY <1>2, <1>3, <1>4, <1>6, <1>7 DEF Queued
<1>9. \A i \in 1..p: queue[d].pipe[i] = a + i
  BY <1>2 DEF InTurn, Follows
<1> HIDE DEF a, b, p, h, o
<1>10. queue[d].pipe[1] = a + 1 /\ a < o
  <2>1. 1 \in 1..p
    BY <1>8
  <2>2. a < o
    BY <1>8
  <2> QED BY <1>9, <2>1, <2>2
<1> QED BY <1>1, <1>5, <1>10 DEF a, o

\* A destination that gets a line is owed as many as before.
LEMMA OwedReceived ==
  ASSUME TypeOK, WiredFirst, args' = args, FlowInv, NEW d \in Names, writer[d].pc # "failed",
         ~LooksEmpty(d), GetFrom(d), taken' = taken, dropped' = dropped,
         \A e \in Names: SameFailure(e),
         received' = [received EXCEPT ![d] = Append(@, Head(queue[d].pipe))]
  PROVE  Owed' = Owed
<1>1. /\ received'[d] = Append(received[d], Head(queue[d].pipe))
      /\ \A e \in Names: e # d => received'[e] = received[e]
  BY DEF TypeOK
<1>2. GetsInOrder(d) /\ SameFailure(d)
  BY DEF FlowInv, Flow, InOrder
<1>3. PutBefore(d)' = PutBefore(d)
  BY <1>1, <1>2, NextGot
<1>4. \A e \in Names: e # d => queue'[e] = queue[e]
  BY OtherQueue DEF Queues
<1>5. ASSUME NEW e \in Names
      PROVE  (IF Failed(e)' THEN Len(received[e])'
              ELSE IF e \in dropped' THEN Len(received[e])' + Queued(e)' ELSE taken')
             = (IF Failed(e) THEN Len(received[e])
                ELSE IF e \in dropped THEN Len(received[e]) + Queued(e) ELSE taken)
  <2>1. Failed(e)' <=> Failed(e)
    BY DEF SameFailure, Failed
  <2>2. CASE e = d
    <3>1. ~Failed(e) /\ ~Failed(e)'
      BY <2>1, <2>2 DEF Failed
    <3>2. Len(received[e])' + Queued(e)' = Len(received[e]) + Queued(e)
      BY <1>3, <2>2 DEF PutBefore
    <3> QED BY <3>1, <3>2
  <2>3. CASE e # d
    <3>1. Queued(e)' = Queued(e) /\ received'[e] = received[e]
      BY <1>1, <1>4, <2>3 DEF Queued
    <3>2. Len(received[e])' = Len(received[e])
      BY <3>1
    <3>3. Len(received[e])' + Queued(e)' = Len(received[e]) + Queued(e)
      BY <3>1, <3>2
    <3>4. (e \in dropped' <=> e \in dropped) /\ taken' = taken
      OBVIOUS
    <3> QED BY <2>1, <3>2, <3>3, <3>4
  <2> QED BY <2>2, <2>3
<1> QED BY <1>5, LeftOutIs DEF Owed

LEMMA TeeReceive ==
  ASSUME TypeOK, WiredFirst, StagesInv, FlowInv, OthersEmpty, NEW d \in Names, writer[d].pc # "failed",
         ~LooksEmpty(d), GetFrom(d), args' = args, builder' = builder, taken' = taken,
         dropped' = dropped, \A e \in Names: SameFailure(e),
         received' = [received EXCEPT ![d] = Append(@, Head(queue[d].pipe))], Abstract!Open(d)
  PROVE  Abstract!Receive(d)
<1>1. /\ d \in Given.to /\ Len(received[d]) < Owed[d]
      /\ Head(queue[d].pipe) = Len(received[d]) + 1
  BY NextLine DEF Given
<1>2. \E n \in Abstract!NextFor(d): received' = [received EXCEPT ![d] = Append(@, n)]
  <2>1. Abstract!NextFor(d) = {Len(received[d]) + 1}
    BY DEF Abstract!NextFor, Given
  <2> QED BY <1>1, <2>1
<1>3. Given' = Given /\ Phase' = Phase /\ Short' = Short
  BY SameArgs, LeftOutIs DEF Given, Phase, Short, Failed, SameFailure
<1>4. Owed' = Owed
  BY OwedReceived
<1> QED BY <1>1, <1>2, <1>3, <1>4 DEF Abstract!Receive

LEMMA TeeWriter ==
  ASSUME TypeOK, WiredFirst, StagesInv, FlowInv, EndsInv, OthersEmpty, NEW d \in Names, Writer(d)
  PROVE  Abstract!Receive(d) \/ Abstract!Fail(d) \/ UNCHANGED Abstract!vars
<1>1. /\ args' = args /\ taken' = taken /\ dropped' = dropped /\ builder' = builder
      /\ writer[d].pc \in {"get", "check"} /\ \A e \in Names: e # d => writer'[e] = writer[e]
  BY DEF Writer, WriterGet, WriterCheck, WriterTurn, calls, TypeOK
<1>2. /\ d \in Files /\ builder # "down" /\ d \in Queues
      /\ d \in {e \in Names: KindOf[e] \in {"handle", "path"}}
  BY <1>1 DEF StagesInv, WritersInTurn, EndsInv, Queues, Files
<1>3. CASE WriterCheck(d) \/ (WriterGet(d) /\ LooksEmpty(d))
  <2>1. queue' = queue /\ received' = received /\ writer'[d].pc # "failed"
    BY <1>3 DEF WriterCheck, WriterGet, WriterTurn, files, TypeOK
  <2>2. \A e \in Names: SameFailure(e)
    BY <1>1, <2>1 DEF SameFailure
  <2>3. \A e \in dropped: Queued(e)' = Queued(e)
    BY <2>1 DEF Queued
  <2> QED BY <1>1, <2>1, <2>2, <2>3, TeeStutter
<1>4. CASE WriterGet(d) /\ ~LooksEmpty(d)
  <2>1. GetFrom(d) /\ writer[d].pc # "failed"
    BY <1>1, <1>4 DEF WriterGet
  <2>2. /\ d \in Destinations /\ builder \notin Before
        /\ Head(queue[d].pipe) = Len(received[d]) + 1 /\ Len(received[d]) < Owed[d]
    BY <1>4, <2>1, NextLine
  <2>3. Abstract!Open(d)
    <3>1. Phase \in {"running", "broken", "closing", "draining"}
      BY <1>2, <2>2, OpenPhase
    <3> QED BY <3>1 DEF Abstract!Open
  <2>4. \/ /\ received' = [received EXCEPT ![d] = Append(@, Head(queue[d].pipe))]
           /\ writer'[d].pc = "check"
        \/ received' = received /\ writer'[d].pc = "failed"
    <3>1. \/ /\ received' = [received EXCEPT ![d] = Append(@, Head(queue[d].pipe))]
             /\ WriterTurn(d, "check")
          \/ received' = received /\ WriterTurn(d, "failed")
      BY <1>4 DEF WriterGet
    <3>2. \A pc: WriterTurn(d, pc) => writer'[d].pc = pc
      BY DEF WriterTurn, TypeOK
    <3> QED BY <3>1, <3>2
  <2>5. CASE /\ received' = [received EXCEPT ![d] = Append(@, Head(queue[d].pipe))]
             /\ writer'[d].pc = "check"
    <3>1. \A e \in Names: SameFailure(e)
      BY <1>1, <2>1, <2>5 DEF SameFailure
    <3> QED BY <1>1, <1>4, <2>1, <2>3, <2>5, <3>1, TeeReceive
  <2>6. CASE received' = received /\ writer'[d].pc = "failed"
    <3>1. Given' = Given /\ Phase' = Phase
      BY <1>1, SameArgs DEF Given, Phase
    <3>2. Short' = Short \cup {d}
      BY <1>1, <2>6, LeftOutIs DEF Short, Failed
    <3>3. \A e \in Names: e # d => queue'[e] = queue[e]
      BY <1>2, <2>1, OtherQueue DEF Queues
    <3>4. Owed' = [Owed EXCEPT ![d] = Len(received[d])]
      <4>1. ASSUME NEW e \in Names
            PROVE  (IF Failed(e)' THEN Len(received[e])'
                    ELSE IF e \in dropped' THEN Len(received[e])' + Queued(e)' ELSE taken')
                   = (IF e = d THEN Len(received[d]) ELSE Owed[e])
        <5>1. CASE e = d
          BY <2>6, <5>1 DEF Failed
        <5>2. CASE e # d
          <6>1. (Failed(e)' <=> Failed(e)) /\ Queued(e)' = Queued(e)
            BY <1>1, <3>3, <5>2 DEF Failed, Queued
          <6> QED BY <1>1, <2>6, <5>2, <6>1, LeftOutIs DEF Owed
        <5> QED BY <5>1, <5>2
      <4> QED BY <1>1, <4>1, LeftOutIs DEF Owed
    <3>5. d \in Given.to
      BY <2>2 DEF Given
    <3> QED BY <1>1, <1>2, <2>2, <2>3, <2>6, <3>1, <3>2, <3>4, <3>5 DEF Abstract!Fail
  <2> QED BY <2>4, <2>5, <2>6
<1> QED BY <1>3, <1>4 DEF Writer

LEMMA TeeConsume ==
  ASSUME TypeOK, WiredFirst, StagesInv, FlowInv, OthersEmpty, NEW d \in Names, Consume(d)
  PROVE  Abstract!Receive(d)
<1>1. /\ args' = args /\ taken' = taken /\ dropped' = dropped /\ builder' = builder
      /\ writer' = writer /\ GetFrom(d) /\ ~LooksEmpty(d)
      /\ received' = [received EXCEPT ![d] = Append(@, Head(queue[d].pipe))]
  BY DEF Consume, calls, stages
<1>2. KindOf[d] = "queue"
  BY EndpointsAssumption DEF Consume
<1>3. d \notin Files /\ writer[d].pc # "failed"
  <2>1. d \notin Files
    BY <1>2 DEF Files
  <2> QED BY <2>1 DEF StagesInv, WritersInTurn
<1>4. Abstract!Open(d)
  <2>1. builder \notin Before
    BY <1>1, <1>3, NextLine
  <2>2. Phase \in {"running", "broken", "closing", "draining", "down"}
    BY <2>1, OpenPhase, PhaseIs
  <2> QED BY <1>2, <2>2 DEF Abstract!Open
<1>5. \A e \in Names: SameFailure(e)
  BY <1>1 DEF SameFailure
<1> QED BY <1>1, <1>3, <1>4, <1>5, TeeReceive

LEMMA TeeProduce ==
  ASSUME TypeOK, WiredFirst, Produce
  PROVE  Abstract!Read
<1>1. /\ args' = args /\ writer' = writer /\ received' = received /\ dropped' = dropped
      /\ builder' = builder /\ taken' = taken + 1 /\ ~HasReader /\ PutOn(In, taken + 1)
  BY DEF Produce, stages, files, calls
<1>2. \A e \in dropped: Queued(e)' = Queued(e)
  <2>1. \A e \in dropped: e \in Queues /\ e # In
    BY EndpointsAssumption DEF TypeOK, Queues
  <2>2. \A e \in dropped: queue'[e] = queue[e]
    BY <1>1, <2>1, OtherQueue
  <2> QED BY <2>2 DEF Queued
<1> QED BY <1>1, <1>2, TeeRead

LEMMA TeeFlush ==
  ASSUME TypeOK, WiredFirst, NEW q \in Queues, Flush(q)
  PROVE  UNCHANGED Abstract!vars
<1>1. /\ args' = args /\ taken' = taken /\ writer' = writer /\ received' = received
      /\ dropped' = dropped /\ builder' = builder /\ dropped \subseteq Queues
  BY DEF Flush, stages, files, calls, TypeOK, Queues
<1>2. ASSUME NEW e \in dropped PROVE Queued(e)' = Queued(e)
  <2>1. CASE e = q
    BY <2>1, QueuedChanges
  <2>2. CASE e # q
    BY <1>1, <2>2, FlushChanges DEF Queued
  <2> QED BY <2>1, <2>2
<1>3. \A e \in Names: SameFailure(e)
  BY <1>1 DEF SameFailure
<1> QED BY <1>1, <1>2, <1>3, TeeStutter

LEMMA TeeBuild ==
  ASSUME TypeOK, WiredFirst, StagesInv, FlowInv, EndsInv, Build \/ StartFails \/ BeginStop \/ Stop
  PROVE  \/ Abstract!Refuse \/ Abstract!Build \/ Abstract!Break \/ Abstract!Close \/ Abstract!Drain \/ Abstract!End
         \/ UNCHANGED Abstract!vars
<1>1. /\ args' = args /\ taken' = taken /\ queue' = queue /\ received' = received
      /\ dropped' = dropped /\ \A d \in Names: SameFailure(d)
  BY BuildFrame
<1>2. \A d \in dropped: Queued(d)' = Queued(d)
  BY <1>1 DEF Queued
<1>3. Given' = Given /\ taken' = taken /\ received' = received /\ Short' = Short /\ Owed' = Owed
  BY <1>1, <1>2, TeeKept
<1>4. ASSUME Phase' = Phase PROVE UNCHANGED Abstract!vars
  BY <1>3, <1>4 DEF Abstract!vars
<1>5. CASE Link
  <2>1. Phase = "called"
    BY <1>5, PhaseIs DEF Link
  <2>2. builder' \in {"TypeError", "ValueError"} \/ builder' \in {"insert", "reader"}
    BY <1>5 DEF Link, Rejected
  <2>3. Phase' = "refused" \/ Phase' = "running"
    BY <2>2, PhaseWillBe DEF Wiring
  <2> QED BY <1>3, <2>1, <2>3 DEF Abstract!Refuse, Abstract!Build, Abstract!Moves
<1>6. CASE Insert \/ Request \/ Start \/ StartReader \/ StartFails
  <2>1. /\ builder \in Wiring \cup {"reader", "up"}
        /\ builder' \in Wiring \cup {"reader", "up", "broken"}
    BY <1>6 DEF Insert, Request, Start, StartReader, StartFails, Wiring
  <2>2. Phase = "running" /\ (Phase' = "running" \/ Phase' = "broken")
    BY <2>1, PhaseIs, PhaseWillBe
  <2> QED BY <1>3, <1>4, <2>2 DEF Abstract!Break, Abstract!Moves
<1>7. CASE BeginStop
  <2>1. Phase = "running" /\ builder' = IF HasReader THEN "join reader" ELSE "drain"
    BY <1>7, PhaseIs DEF BeginStop, Step
  <2>2. Phase' = IF HasReader THEN "closing" ELSE "draining"
    BY <2>1, PhaseWillBe
  <2> QED BY <1>3, <2>1, <2>2 DEF Abstract!Close, Abstract!Drain, Abstract!Moves, Given
<1>8. CASE JoinReader
  <2>1. builder = "join reader" /\ builder' = "drain"
    BY <1>8 DEF JoinReader, Step
  <2>2. HasReader /\ Phase = "closing" /\ Phase' = "draining"
    BY <2>1, PhaseIs, PhaseWillBe DEF EndsInv
  <2> QED BY <1>3, <2>2 DEF Abstract!Drain, Abstract!Moves, Given
<1>9. CASE Drain \/ JoinPublisher \/ StopWriter \/ JoinWriter
  <2>1. /\ builder \in {"drain", "join publisher", "stop writers", "join writer"}
        /\ builder' \in {"drain", "join publisher", "stop writers", "join writer"}
    BY <1>9 DEF Drain, JoinPublisher, StopWriter, JoinWriter, Step
  <2> QED BY <1>4, <2>1, PhaseIs, PhaseWillBe
<1>10. CASE EndStop
  <2>1. builder = "stop writers" /\ builder' = "down"
    BY <1>10 DEF EndStop, Step
  <2>2. Phase = "draining" /\ Phase' = "down"
    BY <2>1, PhaseIs, PhaseWillBe
  <2> QED BY <1>3, <2>2 DEF Abstract!End, Abstract!Moves
<1> QED BY <1>5, <1>6, <1>7, <1>8, <1>9, <1>10 DEF Build, Stop

LEMMA TeeInit == Init /\ WiredFirst => Abstract!Init
<1> SUFFICES ASSUME Init, WiredFirst PROVE Abstract!Init
  OBVIOUS
<1>1. TypeOK
  BY TypeInit
<1>2. Given \in [reads: BOOLEAN, to: SUBSET Names, whole: BOOLEAN]
  BY <1>1, ArgsTyped DEF Given, HasReader
<1>3. Phase = "called"
  BY PhaseIs DEF Init
<1>4. taken \in IF Given.reads THEN {0} ELSE Nat
  BY <1>1, Counts DEF Init, Given
<1>5. \A d \in Names: ~Failed(d)
  BY DEF Init, Failed
<1>6. Short = {} /\ Owed = [d \in Names |-> taken]
  BY <1>5, LeftOutIs DEF Init, Short, Owed
<1> QED BY <1>2, <1>3, <1>4, <1>6 DEF Init, Abstract!Init

LEMMA TeeNext ==
  ASSUME TypeOK, TypeOK', WiredFirst, StagesInv, FlowInv, FlowInv', EndsInv, OthersEmpty, [Next]_vars
  PROVE  [Abstract!Next]_(Abstract!vars)
<1>1. CASE Reader
  BY <1>1, TeeReader DEF Abstract!Next
<1>2. CASE Publisher
  BY <1>2, TeePublisher DEF Abstract!Next
<1>3. CASE Build \/ StartFails \/ BeginStop \/ Stop
  BY <1>3, TeeBuild DEF Abstract!Next
<1>4. CASE Produce
  BY <1>4, TeeProduce DEF Abstract!Next
<1>5. ASSUME NEW d \in Names, Writer(d) PROVE [Abstract!Next]_(Abstract!vars)
  BY <1>5, TeeWriter DEF Abstract!Next
<1>6. ASSUME NEW d \in Names, Consume(d) PROVE [Abstract!Next]_(Abstract!vars)
  BY <1>6, TeeConsume DEF Abstract!Next
<1>7. ASSUME NEW q \in Queues, Flush(q) PROVE [Abstract!Next]_(Abstract!vars)
  BY <1>7, TeeFlush
<1>8. CASE UNCHANGED vars
  <2>1. /\ args' = args /\ taken' = taken /\ writer' = writer /\ received' = received
        /\ dropped' = dropped /\ builder' = builder /\ queue' = queue
    BY <1>8 DEF vars, stages, files, calls
  <2>2. (\A d \in Names: SameFailure(d)) /\ (\A d \in dropped: Queued(d)' = Queued(d))
    BY <2>1 DEF SameFailure, Queued
  <2> QED BY <2>1, <2>2, TeeStutter
<1>9. CASE Collect
  BY <1>9, TeeCollect
<1> QED BY <1>1, <1>2, <1>3, <1>4, <1>5, <1>6, <1>7, <1>8, <1>9 DEF Next

\* When stop() returns every writer has ended, and a destination has a writer or holds lines
\* only if link() has come to it. (link, register_queue, _LinkResult.stop)
THEOREM WritersEnd == Spec => [](EndsInv /\ OthersEmpty)
BY EndsInit, EndsNext, OthersNext, PipelineTypeCorrect, StagesInTurn, PTL DEF Spec

\* A link() that raises on its own checks has started nothing. One that raises later, at the
\* source queue among the destinations or at a thread or process that does not start, has done
\* nothing for the destinations it had not come to, nor started the reader, whose lines only
\* some of them would have got. (link, QueueLink.register_queue, _start_publisher)
THEOREM RaisesClean == Spec => []RaisesPartway
<1>1. TypeOK /\ StagesInv /\ OthersEmpty => RaisesPartway
  <2> SUFFICES ASSUME TypeOK, StagesInv, OthersEmpty PROVE RaisesPartway
    OBVIOUS
  <2>1. ASSUME builder \in {"TypeError", "ValueError"}
        PROVE  /\ ~Working(reader) /\ ~Working(publisher)
               /\ \A d \in Names: Untouched(d)
    BY <2>1 DEF StagesInv, Unbuilt, ReaderInTurn, Unread, Before, Working, Untouched
  <2>2. ASSUME builder = "broken", HasLink
        PROVE  ~Working(reader) /\ (HasReader => taken = 0)
    BY <2>2 DEF StagesInv, ReaderInTurn, Unread, Working
  <2>3. ASSUME builder = "broken", HasLink, NEW i \in 1..Len(Dests), i > wired
        PROVE  Untouched(Dests[i])
    <3>1. IsInjective(Dests)
      BY <2>3, Distinct DEF Before
    <3>2. /\ wired \in 0..Len(Dests) /\ Len(Dests) \in Nat /\ Dests \in Seq(Names)
          /\ Dests[i] \in Names
      BY ArgsTyped DEF TypeOK
    <3>3. ASSUME NEW k \in 1..wired PROVE Dests[k] # Dests[i]
      <4>1. k \in 1..Len(Dests) /\ k # i
        BY <2>3, <3>2
      <4>2. DOMAIN Dests = 1..Len(Dests)
        BY <3>2, LenProperties
      <4> QED BY <3>1, <4>1, <4>2 DEF IsInjective
    <3>4. Dests[i] \notin Registered
      BY <3>3, RegisteredTyped
    <3> QED BY <2>3, <3>2, <3>4 DEF OthersEmpty, Known
  <2> QED BY <2>1, <2>2, <2>3 DEF RaisesPartway
<1> QED BY <1>1, PipelineTypeCorrect, StagesInTurn, WritersEnd, PTL

\* If no line is given while link() registers several destinations, every step of the
\* pipeline, seen from its ends, is one that Tee allows, or none: each
\* destination gets the lines of the source on its own, in order and without a gap; it misses
\* some only because its writer failed, the draining link gave it up, after the reader had
\* ended, or link() raised half way; it then gets no later ones; and nothing is written after
\* stop(). (link() and _LinkResult.stop, the adapters and the publisher)
THEOREM ImplementsPromise == Spec /\ WiredFirst => ImplementsTee
<1>1. WiredFirst /\ [Next]_vars => WiredFirst'
  BY ArgsKept, SameArgs
<1>2. TypeOK /\ TypeOK' /\ WiredFirst /\ StagesInv /\ FlowInv /\ FlowInv' /\ EndsInv /\ OthersEmpty
        /\ [Next]_vars => [Abstract!Next]_(Abstract!vars)
  BY TeeNext
<1> QED
  BY <1>1, <1>2, TeeInit, LinesInPlace, WritersEnd, PipelineTypeCorrect, StagesInTurn, PTL
  DEF Spec, ImplementsTee, Abstract!Spec

=============================================================================
