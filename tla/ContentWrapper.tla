--------------------------- MODULE ContentWrapper ---------------------------
(***************************************************************************)
(* queuelink.ContentWrapper: a value that moves to a temporary file when   *)
(* it is large, and is pickled once for every queue it is put on.  Every   *)
(* copy, in whatever process, refers to the same file; being_serialized    *)
(* decides which of them deletes it.                                       *)
(*                                                                         *)
(* All the wrappers are one that an application makes and the copies of    *)
(* it, copies of copies included: other wrappers have files of their own.  *)
(* Whether a value is text or bytes is left out: it only decides how it is *)
(* encoded.                                                                *)
(***************************************************************************)
EXTENDS Integers, Sequences

CONSTANTS
  Byte,
  Values,      \* contents, as sequences of bytes
  Nothing,     \* no value in memory
  Threshold,   \* a content of this length goes to a file
  Copies,      \* bound: pickled copies
  MaxWrites    \* bound: assignments to .value, the constructor's among them

ASSUME ValuesAssumption ==
  Values \subseteq Seq(Byte) /\ Nothing \notin Values /\ Threshold \in Nat
ASSUME BoundsAssumption == Copies \in Nat /\ MaxWrites \in Nat

VARIABLES
  wrapper,   \* the attributes of every wrapper
  files,     \* the temporary files, and how often each was removed
  writes,    \* assignments made
  wanted,    \* history: what was last assigned to it, or to what it is a copy of
  pickles    \* history: how often each was pickled

vars == <<wrapper, files, writes, wanted, pickles>>

\* 1 is the application's own; a copy is pickled before it is live.
Original == 1
Wrappers == 1..Copies + 1
IsLive(w)    == wrapper[w].state = "live"
Made(w)      == wrapper[w].state # "none"
IsPickled(w) == wrapper[w].state = "pickled"

\* The two ways of __init__ and an explicit storage_type of TYPES.DIRECT.
Storages == {given \in [storage: {"DIRECT", "FILE"}, explicit: BOOLEAN]:
               given.storage = "FILE" => given.explicit}
New(given) ==
  [state |-> "live", memory |-> Nothing, storage |-> given.storage, explicit |-> given.explicit,
   name |-> 0, handle |-> "none", position |-> 0, serialized |-> FALSE]
Unmade == [New([storage |-> "DIRECT", explicit |-> FALSE]) EXCEPT !.state = "none"]

-----------------------------------------------------------------------------
(* The temporary file *)

\* __del__ and a small value delete the file only for such a wrapper.
Owns(r) == r.name # 0 /\ ~r.serialized
Exists(f) == files[f].removed = 0

\* isinstance(location_handle, io.IOBase): true of what __setstate__ opens, not of
\* what NamedTemporaryFile returns, which therefore stays open.
Closed(r) == [r EXCEPT !.handle = IF @ = "open" THEN "closed" ELSE @]

\* Mutant: the name of the deleted file is kept.
KeepsName(r) == IF Owns(r) /\ Exists(r.name) THEN [r EXCEPT !.handle = "none"] ELSE Closed(r)

\* _delete_temp_file. A second os.remove raises and leaves the attributes.
Released(r) ==
  IF Owns(r) /\ Exists(r.name) THEN [r EXCEPT !.handle = "none", !.name = 0, !.position = 0]
  ELSE Closed(r)
FilesReleased(r) ==
  IF Owns(r) THEN [files EXCEPT ![r.name].removed = @ + 1] ELSE files

\* write() at the position of the handle.
Overwrite(content, position, v) ==
  SubSeq(content, 1, position) \o v
    \o SubSeq(content, position + Len(v) + 1, Len(content))

-----------------------------------------------------------------------------
(* Assigning to .value *)

GoesToMemory(r, v) == Len(v) < Threshold /\ ~(r.explicit /\ r.storage = "FILE")

WithFile(r) ==
  IF r.handle = "none"
  THEN [r EXCEPT !.storage = "FILE", !.handle = "temp", !.name = Len(files) + 1]
  ELSE [r EXCEPT !.storage = "FILE"]
FilesWith(r) ==
  IF r.handle = "none" THEN Append(files, [content |-> <<>>, removed |-> 0]) ELSE files

\* What becomes of r, and of the files, when v is assigned to its value. The value
\* in memory stays (`hasattr(object, 'value')` is never true), and a closed file
\* raises ValueError.
Assigned(r, v) ==
  IF GoesToMemory(r, v) THEN Released([r EXCEPT !.memory = v])
  ELSE LET s == WithFile(r) IN
       IF s.handle = "closed" THEN s ELSE [s EXCEPT !.position = @ + Len(v)]
FilesAssigned(r, v) ==
  IF GoesToMemory(r, v) THEN FilesReleased(r)
  ELSE IF r.handle = "closed" THEN files
  ELSE [FilesWith(r) EXCEPT ![WithFile(r).name].content = Overwrite(@, r.position, v)]

Assign(w, r, v) ==
  /\ writes < MaxWrites
  /\ wrapper' = [wrapper EXCEPT ![w] = Assigned(r, v)]
  /\ files' = FilesAssigned(r, v)
  /\ writes' = writes + 1
  /\ wanted' = [wanted EXCEPT ![w] = v]
  /\ UNCHANGED pickles

Create(v) ==
  \E given \in Storages: ~Made(Original) /\ Assign(Original, New(given), v)

SetValue(w, v) == IsLive(w) /\ Assign(w, wrapper[w], v)

-----------------------------------------------------------------------------
(* Reading, pickling, deleting *)

\* What .value gives; Nothing stands for the exception.
ValueOf(w) ==
  IF wrapper[w].memory # Nothing THEN wrapper[w].memory
  ELSE IF wrapper[w].handle \in {"temp", "open"} THEN files[wrapper[w].name].content
  ELSE Nothing

\* Reading from the file leaves its handle at the end.
Read(w) ==
  /\ IsLive(w) /\ wrapper[w].memory = Nothing /\ wrapper[w].handle \in {"temp", "open"}
  /\ wrapper' = [wrapper EXCEPT ![w].position = Len(files[wrapper[w].name].content)]
  /\ UNCHANGED <<files, writes, wanted, pickles>>

\* Mutants: being_serialized is set before the state is copied, or never.
StateMarked(r) ==
  [r EXCEPT !.state = "pickled", !.handle = "none", !.position = 0, !.serialized = TRUE]
StillOwner(r) == Closed(r)

\* __getstate__ closes the handle, copies the state, which has no handle, and sets
\* being_serialized in the wrapper only.
State(r) == [r EXCEPT !.state = "pickled", !.handle = "none", !.position = 0]
Pickled(r) == [Closed(r) EXCEPT !.serialized = TRUE]

\* Copies are numbered in the order they are made.
IsNext(copy) == copy # Original /\ ~Made(copy) /\ \A c \in 1..copy - 1: Made(c)

Pickle(w, copy) ==
  /\ IsLive(w) /\ IsNext(copy)
  /\ wrapper' = [wrapper EXCEPT ![w] = Pickled(wrapper[w]), ![copy] = State(wrapper[w])]
  /\ wanted' = [wanted EXCEPT ![copy] = wanted[w]]
  /\ pickles' = [pickles EXCEPT ![w] = @ + 1]
  /\ UNCHANGED <<files, writes>>

\* Mutant: the file is not opened.
UnpickleOnly(w) ==
  /\ IsPickled(w)
  /\ wrapper' = [wrapper EXCEPT ![w].state = "live"]
  /\ UNCHANGED <<files, writes, wanted, pickles>>

\* __setstate__: it opens the file, at its beginning, or raises FileNotFoundError.
Unpickle(w) ==
  /\ IsPickled(w)
  /\ \/ /\ wrapper[w].name = 0
        /\ wrapper' = [wrapper EXCEPT ![w].state = "live"]
     \/ /\ wrapper[w].name # 0 /\ Exists(wrapper[w].name)
        /\ wrapper' = [wrapper EXCEPT ![w].state = "live", ![w].handle = "open"]
     \/ /\ wrapper[w].name # 0 /\ ~Exists(wrapper[w].name)
        /\ wrapper' = [wrapper EXCEPT ![w].state = "gone"]
  /\ UNCHANGED <<files, writes, wanted, pickles>>

\* __del__
Delete(w) ==
  /\ IsLive(w)
  /\ wrapper' = [wrapper EXCEPT ![w] = [Released(wrapper[w]) EXCEPT !.state = "gone"]]
  /\ files' = FilesReleased(wrapper[w])
  /\ UNCHANGED <<writes, wanted, pickles>>

-----------------------------------------------------------------------------
Init ==
  /\ wrapper = [w \in Wrappers |-> Unmade]
  /\ files = <<>>
  /\ writes = 0
  /\ wanted = [w \in Wrappers |-> Nothing]
  /\ pickles = [w \in Wrappers |-> 0]

Next ==
  \/ \E v \in Values: Create(v)
  \/ \E w \in Wrappers, v \in Values: SetValue(w, v)
  \/ \E w \in Wrappers: Read(w) \/ Unpickle(w) \/ Delete(w)
  \/ \E w, copy \in Wrappers: Pickle(w, copy)

Spec == Init /\ [][Next]_vars

-----------------------------------------------------------------------------
(* Properties *)

Wrapper == [state: {"none", "live", "pickled", "gone"}, memory: Values \cup {Nothing},
            storage: {"DIRECT", "FILE"}, explicit: BOOLEAN, name: Nat,
            handle: {"none", "temp", "open", "closed"}, position: Nat, serialized: BOOLEAN]

LengthAt(fs, name) == IF name = 0 THEN 0 ELSE Len(fs[name].content)

\* The type of every variable; a wrapper has a handle exactly when it has a file,
\* a pickled one has none yet, and the position is within the file.
TypeOK ==
  /\ wrapper \in [Wrappers -> Wrapper]
  /\ writes \in 0..MaxWrites
  /\ wanted \in [Wrappers -> Values \cup {Nothing}]
  /\ pickles \in [Wrappers -> Nat]
  /\ files \in Seq([content: Seq(Byte), removed: Nat])
  /\ \A w \in Wrappers:
       /\ wrapper[w].name \in 0..Len(files)
       /\ IsLive(w) => (wrapper[w].handle = "none" <=> wrapper[w].name = 0)
       /\ IsPickled(w) => wrapper[w].handle = "none" /\ wrapper[w].position = 0
       /\ IsLive(w) => wrapper[w].position <= LengthAt(files, wrapper[w].name)

\* However a wrapper is assigned to, pickled, unpickled and deleted, in whatever
\* process, no file is removed twice: `cw.value = ...` never raises
\* FileNotFoundError. (__getstate__'s being_serialized)
RemovedOnce == \A f \in DOMAIN files: files[f].removed <= 1

Present(w) == IsLive(w) \/ IsPickled(w)
OwnsFile(w, f) == Present(w) /\ Owns(wrapper[w]) /\ wrapper[w].name = f

\* Of all that refer to a file, at most one will delete it, and has not yet.
OneOwner ==
  /\ \A u, w \in Wrappers: \A f \in DOMAIN files: OwnsFile(u, f) /\ OwnsFile(w, f) => u = w
  /\ \A w \in Wrappers: \A f \in DOMAIN files: OwnsFile(w, f) => Exists(f)

\* A wrapper whose value was only set by the constructor.
WrittenOnce == writes = 1

\* A copy that has been pickled on has closed its handle, for good.
PassedOn(w) == w # Original /\ pickles[w] > 0

\* A value written once reads back the same in every copy, wherever the copy came
\* from, however often it is read and whoever has deleted the file meanwhile.
ReadsBack ==
  WrittenOnce => \A w \in Wrappers: IsLive(w) /\ ~PassedOn(w) => ValueOf(w) = wanted[w]

\* If in addition no wrapper is pickled twice, whatever is in a queue can be taken
\* out: nobody has deleted its file. (A second destination has no such promise.)
Deliverable ==
  WrittenOnce /\ (\A w \in Wrappers: pickles[w] <= 1) =>
    \A w \in Wrappers: IsPickled(w) /\ wrapper[w].name # 0 => Exists(wrapper[w].name)

\* A file of a value written once always has someone who will delete it: no chain
\* of queues and processes leaves it behind.
NoLeftover ==
  WrittenOnce => \A f \in DOMAIN files: Exists(f) => \E w \in Wrappers: OwnsFile(w, f)

\* The docstring: `cw.value = "Updated text data"` stores data, and reads of a value
\* over the threshold come from the file, "transparent to callers".
StoredIsRead == \A w \in Wrappers: IsLive(w) /\ ~PassedOn(w) => ValueOf(w) = wanted[w]

=============================================================================
