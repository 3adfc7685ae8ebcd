-------------------------------- MODULE Tee ---------------------------------
(***************************************************************************)
(* What link() promises, seen from its ends alone: every destination gets  *)
(* the lines of the source from the first one on, each of them for itself. *)
(* Of lines that are given while the link is built it promises the order.  *)
(* One can end up short of the others only when the lines it is given do   *)
(* not fit it, while the link is stopped, or when link() raised half way;  *)
(* what it was short of it does not get later.  There are no queues,       *)
(* threads or processes here.                                              *)
(***************************************************************************)
EXTENDS Integers, Sequences

CONSTANTS Names, Files

VARIABLES
  link,      \* whether it reads the source itself, its destinations, and whether the first
             \* line comes after all of them are registered: never changes
  phase,     \* where the call of link(), and then stop(), has got to
  read,      \* lines the source has given
  received,  \* the lines at each destination
  short,     \* the destinations that do not get all of them
  owed       \* how many lines each may still come to

vars == <<link, phase, read, received, short, owed>>

Moves(from, to) == phase \in from /\ phase' = to /\ UNCHANGED <<link, read, received, short, owed>>

Refuse == Moves({"called"}, "refused")
Build  == Moves({"called"}, "running")
\* link() raises after all, and some of the destinations may stay without a line.
Break  == Moves({"running"}, "broken")

\* The source first: nothing is read any more when the rest is stopped.
Close == link.reads /\ Moves({"running"}, "closing")
Drain == Moves(IF link.reads THEN {"closing"} ELSE {"running"}, "draining")
End   == Moves({"draining"}, "down")

\* The application may put lines on a source queue whenever it likes.
Read ==
  /\ link.reads => phase \in {"running", "broken", "closing"}
  /\ read' = read + 1
  /\ owed' = [d \in Names |-> IF d \in short THEN owed[d] ELSE read + 1]
  /\ UNCHANGED <<link, phase, received, short>>

\* Files are not written to after stop(); the application empties its queues when it likes.
Open(d) == phase \in {"running", "broken", "closing", "draining"} \cup (IF d \in Files THEN {} ELSE {"down"})

\* The next line that d has not got, or a later one if lines are given too early for some.
NextFor(d) ==
  IF link.whole THEN {Len(received[d]) + 1}
  ELSE {n \in 1..read: \A i \in DOMAIN received[d]: received[d][i] < n}
Receive(d) ==
  /\ d \in link.to /\ Open(d)
  /\ Len(received[d]) < owed[d]
  /\ \E n \in NextFor(d): received' = [received EXCEPT ![d] = Append(@, n)]
  /\ UNCHANGED <<link, phase, read, short, owed>>

\* The next line is not one for this file: it gets no other.
Fail(d) ==
  /\ d \in link.to \cap Files /\ Open(d)
  /\ Len(received[d]) < owed[d]
  /\ short' = short \cup {d}
  /\ owed' = [owed EXCEPT ![d] = Len(received[d])]
  /\ UNCHANGED <<link, phase, read, received>>

\* The destinations of `some` are given up, with more or less of what they were to get.
GiveUp(some) ==
  /\ phase \in {"draining", "broken"}
  /\ short' = short \cup some
  /\ owed' \in [Names -> Nat]
  /\ \A d \in Names: /\ Len(received[d]) <= owed'[d] /\ owed'[d] <= owed[d]
                     /\ d \notin some => owed'[d] = owed[d]
  /\ UNCHANGED <<link, phase, read, received>>

\* A source queue may hold lines before the call.
Init ==
  /\ link \in [reads: BOOLEAN, to: SUBSET Names, whole: BOOLEAN]
  /\ phase = "called"
  /\ read \in IF link.reads THEN {0} ELSE Nat
  /\ received = [d \in Names |-> <<>>]
  /\ short = {} /\ owed = [d \in Names |-> read]

Next ==
  \/ Refuse \/ Build \/ Break \/ Close \/ Drain \/ End \/ Read
  \/ \E d \in Names: Receive(d) \/ Fail(d)
  \/ \E some \in SUBSET link.to: GiveUp(some)

Spec == Init /\ [][Next]_vars

=============================================================================
