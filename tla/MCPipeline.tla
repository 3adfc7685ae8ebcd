----------------------------- MODULE MCPipeline -----------------------------
(* Instances of Pipeline for TLC. *)
EXTENDS PipelineTee, TLC

CONSTANTS path, handle, app, conn, same

Text    == [i \in 1..Lines |-> "str"]
Binary  == [i \in 1..Lines |-> "bytes"]
Mixed   == [i \in 1..Lines |-> IF i = 2 THEN "bytes" ELSE "str"]

CallsOf(sources, lists, early, ends, content) ==
  [source: sources, dests: lists, early: early, meanwhile: {early # {0}}, ends: ends,
   content: {content}]

\* What link() accepts, for each kind of source, and what it rejects.
Lists  == {<<path>>, <<app>>, <<path, app>>, <<app, handle>>}
Single == {<<path>>, <<handle>>}
Wrong  == {<<>>, <<app, path, app>>, <<app, conn>>}
\* Lists that hold the source queue itself, which only register_queue finds.
Circles == {<<same>>, <<path, same>>, <<path, app, same, handle>>}
AnyKind == {"queue", "path", "handle", "connection"}

MixedLines == CallsOf({"queue", "path"}, Lists, {0}, {TRUE}, Mixed)
                \cup CallsOf({"handle", "connection"}, Lists \ {<<path, app>>}, {0}, {TRUE}, Mixed)
                \cup CallsOf({"queue"}, Single, {1}, {TRUE}, Mixed)

\* Sources that end, and a Connection or a queue that falls silent.
EndOrSilence == CallsOf({"path"}, {<<path>>, <<path, app>>}, {0}, {TRUE}, Text)
                  \cup CallsOf({"connection"}, Lists, {0}, {FALSE}, Text)
                  \cup CallsOf({"queue"}, {<<app>>}, {0}, {FALSE}, Text)

\* A source queue that holds a line, and is given more, while link() comes to its destinations.
EarlyLines == CallsOf({"queue"}, {<<app, path>>}, {1}, {TRUE}, Text)

Shapes == MixedLines \cup EndOrSilence \cup EarlyLines
            \cup CallsOf(AnyKind, Wrong, {0}, {TRUE}, Text)
            \cup CallsOf({"queue"}, Circles, {0}, {TRUE}, Text)

OpenHandle  == CallsOf({"handle"}, Single, {0}, {TRUE}, Text)
QueueToFile == CallsOf({"queue"}, Single, {0}, {TRUE}, Binary)

KindOfName == path :> "path" @@ handle :> "handle" @@ app :> "queue" @@ conn :> "connection"
                @@ same :> "queue"
TextMode == [d \in Names |-> "str"]
\* The application's queue holds one line.
Small   == [d \in Names |-> 1]

Fair == Spec /\ Fairness

=============================================================================
