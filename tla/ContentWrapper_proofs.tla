------------------------ MODULE ContentWrapper_proofs ------------------------
(***************************************************************************)
(* The types of ContentWrapper, that no temporary file is removed twice,   *)
(* and what is read and who removes the file when a value is written once, *)
(* for all contents, thresholds and numbers of copies and assignments.     *)
(***************************************************************************)
EXTENDS ContentWrapper, SequenceTheorems, TLAPS

File == [content: Seq(Byte), removed: Nat]

\* What TypeOK says of a live wrapper with attributes r.
Sound(r, fs) ==
  /\ r \in Wrapper /\ r.state = "live"
  /\ r.name \in 0..Len(fs)
  /\ r.handle = "none" <=> r.name = 0
  /\ r.position <= LengthAt(fs, r.name)

\* The files of fs are in gs, no shorter; those other than f were removed as often.
Grown(fs, gs, f) ==
  /\ Len(fs) <= Len(gs)
  /\ \A g \in 1..Len(fs):
       /\ Len(fs[g].content) <= Len(gs[g].content)
       /\ g # f => gs[g].removed = fs[g].removed

-----------------------------------------------------------------------------
(* The temporary file *)

\* write() at a position within the file never makes it shorter.
LEMMA OverwriteLonger ==
  ASSUME NEW content \in Seq(Byte), NEW v \in Seq(Byte), NEW position \in 0..Len(content)
  PROVE  /\ Overwrite(content, position, v) \in Seq(Byte)
         /\ Len(Overwrite(content, position, v)) >= Len(content)
         /\ Len(Overwrite(content, position, v)) >= position + Len(v)
<1> DEFINE before == SubSeq(content, 1, position)
           after  == SubSeq(content, position + Len(v) + 1, Len(content))
<1>1. Len(content) \in Nat /\ Len(v) \in Nat /\ position \in Nat
  BY LenProperties
<1>2. before \in Seq(Byte) /\ Len(before) = position
  <2>1. \A i \in 1..position: content[i] \in Byte
    BY <1>1, ElementOfSeq
  <2> QED BY <2>1, <1>1, SubSeqProperties
<1>3. /\ after \in Seq(Byte)
      /\ Len(after) = IF position + Len(v) + 1 <= Len(content)
                      THEN Len(content) - (position + Len(v) + 1) + 1 ELSE 0
  <2>1. \A i \in position + Len(v) + 1..Len(content): content[i] \in Byte
    BY <1>1, ElementOfSeq
  <2> QED BY <2>1, <1>1, SubSeqProperties
<1> HIDE DEF before, after
<1>4. before \o v \in Seq(Byte) /\ Len(before \o v) = position + Len(v)
  BY <1>2, ConcatProperties
<1>5. /\ (before \o v) \o after \in Seq(Byte)
      /\ Len((before \o v) \o after) = position + Len(v) + Len(after)
  BY <1>3, <1>4, ConcatProperties
<1> DEFINE whole == (before \o v) \o after
<1>6. Overwrite(content, position, v) = whole
  BY DEF Overwrite, before, after
<1> HIDE DEF whole
<1>7. whole \in Seq(Byte) /\ Len(whole) = position + Len(v) + Len(after)
  BY <1>5 DEF whole
<1>8. Len(after) \in Nat /\ position + Len(v) + Len(after) >= Len(content)
  <2> DEFINE p == position + Len(v)
  <2>1. p \in Nat
    BY <1>1
  <2>2. Len(after) = IF p + 1 <= Len(content) THEN Len(content) - (p + 1) + 1 ELSE 0
    BY <1>3
  <2> HIDE DEF p
  <2>3. CASE p + 1 <= Len(content)
    <3>1. Len(after) = Len(content) - (p + 1) + 1
      BY <2>2, <2>3
    <3>2. Len(after) = Len(content) - p
      BY <3>1, <2>1, <1>1
    <3>3. Len(after) \in Nat /\ p + Len(after) >= Len(content)
      BY <3>2, <2>1, <2>3, <1>1
    <3> QED BY <3>3 DEF p
  <2>4. CASE ~(p + 1 <= Len(content))
    <3>1. Len(after) = 0
      BY <2>2, <2>4
    <3>2. Len(after) \in Nat /\ p + Len(after) >= Len(content)
      BY <3>1, <2>1, <2>4, <1>1
    <3> QED BY <3>2 DEF p
  <2> QED BY <2>3, <2>4
<1> QED BY <1>1, <1>6, <1>7, <1>8

\* A file that is written is as long as the position after it.
Written(fs, f, position, v) == [fs EXCEPT ![f].content = Overwrite(@, position, v)]

LEMMA WriteGrows ==
  ASSUME NEW fs \in Seq(File), NEW f \in 1..Len(fs), NEW v \in Seq(Byte),
         NEW position \in 0..Len(fs[f].content),
         NEW gs, gs = Written(fs, f, position, v)
  PROVE  /\ gs \in Seq(File) /\ Len(gs) = Len(fs) /\ Grown(fs, gs, 0)
         /\ position + Len(v) <= Len(gs[f].content)
         /\ Len(v) \in Nat /\ position \in Nat
<1>1. fs[f] \in File /\ Len(fs) \in Nat
  BY ElementOfSeq, LenProperties
<1>2. fs[f].content \in Seq(Byte) /\ fs[f].removed \in Nat
  BY <1>1 DEF File
<1> DEFINE w == Overwrite(fs[f].content, position, v)
           e == [fs[f] EXCEPT !.content = w]
<1>3. w \in Seq(Byte) /\ Len(w) >= Len(fs[f].content) /\ Len(w) >= position + Len(v)
  BY <1>2, OverwriteLonger
<1>4. Len(w) \in Nat /\ Len(v) \in Nat /\ position \in Nat /\ Len(fs[f].content) \in Nat
  BY <1>2, <1>3, LenProperties
<1> HIDE DEF w
<1>5. e \in File /\ e.content = w /\ e.removed = fs[f].removed
  BY <1>1, <1>3 DEF File
<1>6. gs = [fs EXCEPT ![f] = e]
  BY DEF Written, w, e
<1> HIDE DEF e
<1>7. gs \in Seq(File) /\ Len(gs) = Len(fs) /\ gs[f] = e /\ \A g \in 1..Len(fs): g # f => gs[g] = fs[g]
  BY <1>5, <1>6, ExceptSeq
<1>8. \A g \in 1..Len(fs): Len(fs[g].content) \in Nat
  BY ElementOfSeq, LenProperties DEF File
<1>9. \A g \in 1..Len(fs): Len(fs[g].content) <= Len(gs[g].content) /\ gs[g].removed = fs[g].removed
  BY <1>3, <1>4, <1>5, <1>7, <1>8
<1>10. Grown(fs, gs, 0)
  BY <1>1, <1>7, <1>9 DEF Grown
<1>11. gs[f].content = w
  BY <1>5, <1>7
<1> QED BY <1>3, <1>4, <1>7, <1>10, <1>11

\* A new file is empty and has not been removed.
LEMMA NewFileGrows ==
  ASSUME NEW fs \in Seq(File), NEW gs, gs = Append(fs, [content |-> <<>>, removed |-> 0])
  PROVE  /\ gs \in Seq(File) /\ Len(gs) = Len(fs) + 1 /\ Grown(fs, gs, 0)
         /\ gs[Len(gs)].removed = 0 /\ gs[Len(gs)].content = <<>>
<1>1. [content |-> <<>>, removed |-> 0] \in File
  BY EmptySeq DEF File
<1>2. /\ gs \in Seq(File) /\ Len(gs) = Len(fs) + 1
      /\ \A i \in 1..Len(fs): gs[i] = fs[i]
      /\ gs[Len(fs) + 1] = [content |-> <<>>, removed |-> 0]
  BY <1>1, AppendProperties
<1>3. Len(fs) \in Nat /\ \A g \in 1..Len(fs): Len(fs[g].content) \in Nat
  BY ElementOfSeq, LenProperties DEF File
<1> QED BY <1>2, <1>3 DEF Grown

-----------------------------------------------------------------------------
(* What an assignment and a deletion do to a wrapper and the files *)

\* From attributes r and files fs to attributes s and files gs: the wrapper keeps
\* its file, gets a new one, or deletes the one it owned.
Outcome(r, fs, s, gs) ==
  /\ gs \in Seq(File) /\ Sound(s, gs) /\ s.serialized = r.serialized
  /\ \/ s.name = r.name /\ Len(gs) = Len(fs) /\ Grown(fs, gs, 0)
     \/ /\ r.name = 0 /\ s.name = Len(gs) /\ Len(gs) = Len(fs) + 1 /\ Grown(fs, gs, 0)
        /\ gs[Len(gs)].removed = 0
     \/ /\ Owns(r) /\ s.name = 0 /\ Len(gs) = Len(fs) /\ Grown(fs, gs, r.name)
        /\ gs[r.name].removed = 1

\* What changing some attributes leaves alone.
LEMMA FileRemoved ==
  ASSUME NEW x \in File, NEW e, e = [x EXCEPT !.removed = x.removed + 1]
  PROVE  e \in File /\ e.content = x.content /\ e.removed = x.removed + 1
BY DEF File

LEMMA WithoutFile ==
  ASSUME NEW r \in Wrapper, NEW s, s = [r EXCEPT !.handle = "none", !.name = 0, !.position = 0]
  PROVE  /\ s \in Wrapper /\ s.state = r.state /\ s.serialized = r.serialized
         /\ s.name = 0 /\ s.handle = "none" /\ s.position = 0
BY DEF Wrapper

LEMMA AtPosition ==
  ASSUME NEW r \in Wrapper, NEW n \in Nat, NEW s, s = [r EXCEPT !.position = n]
  PROVE  /\ s \in Wrapper /\ s.state = r.state /\ s.serialized = r.serialized
         /\ s.name = r.name /\ s.handle = r.handle /\ s.position = n
BY DEF Wrapper

NewFile(r, n) == [r EXCEPT !.storage = "FILE", !.handle = "temp", !.name = n]

LEMMA InNewFile ==
  ASSUME NEW r \in Wrapper, NEW n \in Nat
  PROVE  /\ NewFile(r, n) \in Wrapper /\ NewFile(r, n).state = r.state
         /\ NewFile(r, n).serialized = r.serialized /\ NewFile(r, n).name = n
         /\ NewFile(r, n).handle = "temp" /\ NewFile(r, n).position = r.position
<1> DEFINE s == NewFile(r, n)
<1>1. s = [r EXCEPT !.storage = "FILE", !.handle = "temp", !.name = n]
  BY DEF NewFile
<1> HIDE DEF s
<1>2. /\ s \in Wrapper /\ s.state = r.state /\ s.serialized = r.serialized
      /\ s.name = n /\ s.handle = "temp" /\ s.position = r.position
  BY <1>1 DEF Wrapper
<1> QED BY <1>2 DEF s

LEMMA InOldFile ==
  ASSUME NEW r \in Wrapper, NEW s, s = [r EXCEPT !.storage = "FILE"]
  PROVE  /\ s \in Wrapper /\ s.state = r.state /\ s.serialized = r.serialized
         /\ s.name = r.name /\ s.handle = r.handle /\ s.position = r.position
BY DEF Wrapper

LEMMA InMemory ==
  ASSUME NEW r \in Wrapper, NEW v \in Values, NEW s, s = [r EXCEPT !.memory = v]
  PROVE  /\ s \in Wrapper /\ s.state = r.state /\ s.serialized = r.serialized
         /\ s.name = r.name /\ s.handle = r.handle /\ s.position = r.position
BY DEF Wrapper

LEMMA FileLengths ==
  ASSUME NEW fs \in Seq(File)
  PROVE  Len(fs) \in Nat /\ \A g \in 1..Len(fs): Len(fs[g].content) \in Nat
BY ElementOfSeq, LenProperties DEF File

LEMMA GrownTwice ==
  ASSUME NEW fs \in Seq(File), NEW hs \in Seq(File), NEW gs \in Seq(File),
         Grown(fs, hs, 0), Grown(hs, gs, 0)
  PROVE  Grown(fs, gs, 0)
BY FileLengths DEF Grown

LEMMA GrownSame == ASSUME NEW fs \in Seq(File) PROVE Grown(fs, fs, 0)
BY ElementOfSeq, LenProperties DEF Grown, File

Removed(fs, f) == [fs EXCEPT ![f].removed = @ + 1]

LEMMA RemovedGrows ==
  ASSUME NEW fs \in Seq(File), NEW f \in 1..Len(fs), fs[f].removed = 0,
         NEW gs, gs = Removed(fs, f)
  PROVE  gs \in Seq(File) /\ Len(gs) = Len(fs) /\ Grown(fs, gs, f) /\ gs[f].removed = 1
<1>1. fs[f] \in File /\ Len(fs) \in Nat
  BY ElementOfSeq, LenProperties
<1> DEFINE e == [fs[f] EXCEPT !.removed = fs[f].removed + 1]
<1>2. e \in File /\ e.content = fs[f].content /\ e.removed = 1
  <2>1. e \in File /\ e.content = fs[f].content /\ e.removed = fs[f].removed + 1
    BY <1>1, FileRemoved
  <2> QED BY <2>1
<1>3. gs = [fs EXCEPT ![f] = e]
  BY DEF Removed, e
<1> HIDE DEF e
<1>4. gs \in Seq(File) /\ Len(gs) = Len(fs) /\ \A g \in 1..Len(fs): gs[g] = IF g = f THEN e ELSE fs[g]
  BY <1>2, <1>3, ExceptSeq
<1>5. \A g \in 1..Len(fs): Len(fs[g].content) \in Nat
  BY ElementOfSeq, LenProperties DEF File
<1> QED BY <1>1, <1>2, <1>4, <1>5 DEF Grown

\* _delete_temp_file
LEMMA ReleasedOutcome ==
  ASSUME files \in Seq(File), NEW r, Sound(r, files), Owns(r) => Exists(r.name),
         NEW s, s = Released(r), NEW gs, gs = FilesReleased(r)
  PROVE  Outcome(r, files, s, gs)
<1>1. r \in Wrapper /\ r.name \in 0..Len(files) /\ Len(files) \in Nat
  BY LenProperties DEF Sound
<1>2. CASE Owns(r)
  <2>1. r.name \in 1..Len(files) /\ files[r.name].removed = 0
    BY <1>1, <1>2 DEF Owns, Exists
  <2>2. gs = Removed(files, r.name)
    BY <1>2 DEF FilesReleased, Removed
  <2>3. gs \in Seq(File) /\ Len(gs) = Len(files) /\ Grown(files, gs, r.name) /\ gs[r.name].removed = 1
    BY <2>1, <2>2, RemovedGrows
  <2>4. s = [r EXCEPT !.handle = "none", !.name = 0, !.position = 0]
    BY <1>2 DEF Released
  <2>5. /\ s \in Wrapper /\ s.state = r.state /\ s.serialized = r.serialized
        /\ s.name = 0 /\ s.handle = "none" /\ s.position = 0
    BY <1>1, <2>4, WithoutFile
  <2>6. Sound(s, gs)
    BY <1>1, <2>3, <2>5 DEF Sound, LengthAt
  <2> QED BY <1>2, <2>3, <2>5, <2>6 DEF Outcome
<1>3. CASE ~Owns(r)
  <2>1. gs = files /\ s = [r EXCEPT !.handle = IF r.handle = "open" THEN "closed" ELSE r.handle]
    BY <1>3 DEF FilesReleased, Released, Closed
  <2>2. /\ s \in Wrapper /\ s.state = r.state /\ s.serialized = r.serialized
        /\ s.name = r.name /\ s.position = r.position /\ (s.handle = "none" <=> r.handle = "none")
    BY <1>1, <2>1 DEF Wrapper
  <2>3. Sound(s, gs)
    BY <1>1, <2>1, <2>2 DEF Sound
  <2> QED BY <2>1, <2>2, <2>3, GrownSame DEF Outcome
<1> QED BY <1>2, <1>3

\* A value that goes to a file.
LEMMA SpilledOutcome ==
  ASSUME files \in Seq(File), NEW r, Sound(r, files), NEW v \in Seq(Byte), ~GoesToMemory(r, v),
         NEW s, s = Assigned(r, v), NEW gs, gs = FilesAssigned(r, v)
  PROVE  Outcome(r, files, s, gs)
<1>1. /\ r \in Wrapper /\ r.name \in 0..Len(files) /\ Len(files) \in Nat /\ r.position \in Nat
      /\ r.state = "live"
  BY LenProperties DEF Sound, Wrapper
<1> DEFINE t == WithFile(r)
<1>2. /\ t \in Wrapper /\ t.state = "live" /\ t.serialized = r.serialized /\ t.position = r.position
      /\ t.name = IF r.handle = "none" THEN Len(files) + 1 ELSE r.name
      /\ t.handle = IF r.handle = "none" THEN "temp" ELSE r.handle
  <2>1. CASE r.handle = "none"
    <3> DEFINE n == Len(files) + 1
    <3>1. t = NewFile(r, n)
      BY <2>1 DEF WithFile, NewFile
    <3>2. n \in Nat
      BY <1>1
    <3> HIDE DEF t, n
    <3>3. /\ t \in Wrapper /\ t.state = r.state /\ t.serialized = r.serialized
          /\ t.name = n /\ t.handle = "temp" /\ t.position = r.position
      BY <1>1, <3>1, <3>2, InNewFile
    <3> QED BY <1>1, <2>1, <3>3 DEF n
  <2>2. CASE r.handle # "none"
    <3>1. t = [r EXCEPT !.storage = "FILE"]
      BY <2>2 DEF WithFile
    <3> HIDE DEF t
    <3> QED BY <1>1, <2>2, <3>1, InOldFile
  <2> QED BY <2>1, <2>2
<1>3. CASE r.handle = "closed"
  <2>1. s = t /\ gs = files
    BY <1>2, <1>3 DEF Assigned, FilesAssigned
  <2> HIDE DEF t
  <2>2. Sound(s, gs)
    BY <1>1, <1>2, <1>3, <2>1 DEF Sound
  <2> QED BY <1>2, <1>3, <2>1, <2>2, GrownSame DEF Outcome
<1>4. CASE r.handle # "closed"
  <2>1. s = [t EXCEPT !.position = t.position + Len(v)]
    BY <1>2, <1>4 DEF Assigned
  <2>2. gs = Written(FilesWith(r), t.name, r.position, v)
    BY <1>4 DEF FilesAssigned, Written
  <2> HIDE DEF t
  <2>3. Len(v) \in Nat
    BY LenProperties
  <2>4. /\ s \in Wrapper /\ s.state = "live" /\ s.serialized = r.serialized /\ s.name = t.name
        /\ s.handle = t.handle /\ s.position = r.position + Len(v)
    <3>1. t.position + Len(v) \in Nat
      BY <1>1, <1>2, <2>3
    <3> QED BY <1>2, <2>1, <3>1, AtPosition
  <2> DEFINE hs == FilesWith(r)
  <2>5. CASE r.handle = "none"
    <3>1. r.name = 0 /\ r.position = 0
      BY <1>1, <2>5 DEF Sound, LengthAt
    <3>2. hs = Append(files, [content |-> <<>>, removed |-> 0])
      BY <2>5 DEF FilesWith
    <3> HIDE DEF hs
    <3>3. /\ hs \in Seq(File) /\ Len(hs) = Len(files) + 1 /\ Grown(files, hs, 0)
          /\ hs[Len(hs)].removed = 0 /\ hs[Len(hs)].content = <<>>
      BY <3>2, NewFileGrows
    <3>4. t.name = Len(hs) /\ t.name \in 1..Len(hs) /\ r.position \in 0..Len(hs[t.name].content)
      BY <1>1, <1>2, <2>5, <3>1, <3>3, EmptySeq
    <3>5. gs = Written(hs, t.name, r.position, v)
      BY <2>2 DEF hs
    <3>6. /\ gs \in Seq(File) /\ Len(gs) = Len(hs) /\ Grown(hs, gs, 0)
          /\ r.position + Len(v) <= Len(gs[t.name].content)
      BY <3>3, <3>4, <3>5, WriteGrows
    <3>7. Grown(files, gs, 0)
      BY <3>3, <3>6, GrownTwice
    <3>8. gs[Len(hs)].removed = hs[Len(hs)].removed
      BY <1>1, <3>3, <3>4, <3>6 DEF Grown
    <3>9. Grown(files, gs, 0) /\ gs[Len(gs)].removed = 0
      BY <3>3, <3>6, <3>7, <3>8
    <3>10. Sound(s, gs)
      BY <1>1, <1>2, <2>4, <2>5, <3>3, <3>4, <3>6 DEF Sound, LengthAt
    <3> QED BY <1>2, <2>4, <3>1, <3>3, <3>4, <3>6, <3>9, <3>10 DEF Outcome
  <2>6. CASE r.handle # "none"
    <3>1. hs = files
      BY <2>6 DEF FilesWith
    <3> HIDE DEF hs
    <3>2. t.name = r.name /\ t.name \in 1..Len(files) /\ t.handle = r.handle
      BY <1>1, <1>2, <2>6 DEF Sound
    <3>3. r.position \in 0..Len(files[r.name].content)
      <4>1. Len(files[r.name].content) \in Nat
        BY <3>2, ElementOfSeq, LenProperties DEF File
      <4> QED BY <1>1, <3>2, <4>1 DEF Sound, LengthAt
    <3>4. gs = Written(files, r.name, r.position, v)
      BY <2>2, <3>1, <3>2 DEF hs
    <3>5. /\ gs \in Seq(File) /\ Len(gs) = Len(files) /\ Grown(files, gs, 0)
          /\ r.position + Len(v) <= Len(gs[r.name].content)
      BY <3>2, <3>3, <3>4, WriteGrows
    <3>6. Sound(s, gs)
      BY <1>1, <1>2, <2>4, <2>6, <3>2, <3>5 DEF Sound, LengthAt
    <3> QED BY <2>4, <3>2, <3>5, <3>6 DEF Outcome
  <2> QED BY <2>5, <2>6
<1> QED BY <1>3, <1>4

-----------------------------------------------------------------------------
(* The invariant *)

\* The invariant that makes RemovedOnce inductive: a file that somebody will
\* delete has one owner and has not been deleted.
OwnerInv == TypeOK /\ OneOwner /\ RemovedOnce

\* What TypeOK says of each wrapper.
LEMMA LiveIsSound ==
  ASSUME TypeOK, NEW w \in Wrappers, IsLive(w)
  PROVE  Sound(wrapper[w], files)
BY DEF TypeOK, Sound, IsLive

\* What an assignment does to a live wrapper that has its file, or to a new one.
LEMMA AssignedOutcome ==
  ASSUME files \in Seq(File), NEW r, Sound(r, files), Owns(r) => Exists(r.name),
         NEW v \in Values, NEW s, s = Assigned(r, v), NEW gs, gs = FilesAssigned(r, v)
  PROVE  Outcome(r, files, s, gs)
<1>1. v \in Seq(Byte)
  BY ValuesAssumption
<1>2. CASE GoesToMemory(r, v)
  <2> DEFINE t == [r EXCEPT !.memory = v]
  <2>1. r \in Wrapper
    BY DEF Sound
  <2>2. s = Released(t)
    BY <1>2 DEF Assigned
  <2>3. gs = FilesReleased(r)
    BY <1>2 DEF FilesAssigned
  <2>4. /\ t \in Wrapper /\ t.state = r.state /\ t.serialized = r.serialized
        /\ t.name = r.name /\ t.handle = r.handle /\ t.position = r.position
    BY <2>1, InMemory
  <2> HIDE DEF t
  <2>5. Sound(t, files) /\ (Owns(t) => Exists(t.name)) /\ (Owns(t) <=> Owns(r))
    BY <2>4 DEF Sound, Owns
  <2>6. gs = FilesReleased(t)
    BY <2>3, <2>4, <2>5 DEF FilesReleased
  <2>7. Outcome(t, files, s, gs)
    BY <2>2, <2>5, <2>6, ReleasedOutcome
  <2> QED BY <2>4, <2>5, <2>7 DEF Outcome
<1>3. CASE ~GoesToMemory(r, v)
  BY <1>1, <1>3, SpilledOutcome
<1> QED BY <1>2, <1>3

\* A wrapper w with attributes r, or a new one, gets attributes s; or it is deleted
\* then. In either case the invariant is preserved.
LEMMA OutcomePreserves ==
  ASSUME OwnerInv, NEW w \in Wrappers, NEW r, NEW s, NEW t \in Wrapper,
         Outcome(r, files, s, files'),
         (wrapper[w] = r /\ IsLive(w)) \/ (r.name = 0 /\ ~Present(w)),
         wrapper' = [wrapper EXCEPT ![w] = t],
         t = s \/ (t.state = "gone" /\ t.name = s.name)
  PROVE  /\ wrapper' \in [Wrappers -> Wrapper] /\ files' \in Seq(File)
         /\ \A u \in Wrappers:
              /\ wrapper'[u].name \in 0..Len(files')
              /\ IsLive(u)' => (wrapper'[u].handle = "none" <=> wrapper'[u].name = 0)
              /\ IsPickled(u)' => wrapper'[u].handle = "none" /\ wrapper'[u].position = 0
              /\ IsLive(u)' => wrapper'[u].position <= LengthAt(files', wrapper'[u].name)
         /\ OneOwner' /\ RemovedOnce'
<1>1. /\ wrapper \in [Wrappers -> Wrapper] /\ files \in Seq(File)
      /\ \A u \in Wrappers: wrapper[u].name \in 0..Len(files) /\ wrapper[u].position \in Nat
  BY DEF OwnerInv, TypeOK, File, Wrapper
<1>2. /\ files' \in Seq(File) /\ Sound(s, files') /\ s.serialized = r.serialized
      /\ Len(files) \in Nat /\ Len(files') \in Nat /\ Len(files) <= Len(files')
      /\ \A g \in 1..Len(files): Len(files[g].content) <= Len(files'[g].content)
  BY <1>1, FileLengths DEF Outcome, Grown
<1>3. wrapper'[w] = t /\ \A u \in Wrappers \ {w}: wrapper'[u] = wrapper[u]
  BY <1>1
<1>4. wrapper' \in [Wrappers -> Wrapper]
  BY <1>1
<1>5. ASSUME NEW u \in Wrappers
      PROVE  /\ wrapper'[u].name \in 0..Len(files')
             /\ IsLive(u)' => (wrapper'[u].handle = "none" <=> wrapper'[u].name = 0)
             /\ IsPickled(u)' => wrapper'[u].handle = "none" /\ wrapper'[u].position = 0
             /\ IsLive(u)' => wrapper'[u].position <= LengthAt(files', wrapper'[u].name)
  <2>1. CASE u = w
    BY <1>2, <1>3, <2>1 DEF Sound, IsLive, IsPickled
  <2>2. CASE u # w
    <3>1. wrapper'[u] = wrapper[u]
      BY <1>3, <2>2
    <3>2. LengthAt(files, wrapper[u].name) <= LengthAt(files', wrapper[u].name)
          /\ LengthAt(files, wrapper[u].name) \in Nat /\ LengthAt(files', wrapper[u].name) \in Nat
      BY <1>1, <1>2, FileLengths DEF LengthAt
    <3>3. IsLive(u) => wrapper[u].position <= LengthAt(files, wrapper[u].name)
      BY DEF OwnerInv, TypeOK
    <3>4. /\ IsLive(u) => (wrapper[u].handle = "none" <=> wrapper[u].name = 0)
          /\ IsPickled(u) => wrapper[u].handle = "none" /\ wrapper[u].position = 0
      BY DEF OwnerInv, TypeOK
    <3> QED BY <1>1, <1>2, <3>1, <3>2, <3>3, <3>4 DEF IsLive, IsPickled
  <2> QED BY <2>1, <2>2
\* Whoever owns a file afterwards owned it before, or the file is w's new one.
<1>6. ASSUME NEW u \in Wrappers, NEW f \in DOMAIN files', OwnsFile(u, f)'
      PROVE  \/ OwnsFile(u, f) /\ f \in DOMAIN files /\ files'[f].removed = 0
             \/ u = w /\ f = Len(files) + 1 /\ files'[f].removed = 0
  <2>1. f \in 1..Len(files') /\ DOMAIN files = 1..Len(files)
    BY <1>1, <1>2, LenProperties
  <2>2. CASE u # w
    <3>1. wrapper'[u] = wrapper[u]
      BY <1>3, <2>2
    <3>2. OwnsFile(u, f) /\ f \in DOMAIN files
      BY <1>1, <1>2, <1>6, <2>1, <3>1 DEF OwnsFile, Owns, Present, IsLive, IsPickled
    <3>3. files[f].removed = 0
      BY <3>2 DEF OwnerInv, OneOwner, Exists
    <3>4. r.name = f => ~Owns(r)
      <4>1. SUFFICES ASSUME r.name = f, Owns(r) PROVE FALSE
        OBVIOUS
      <4>2. r = wrapper[w] /\ IsLive(w)
        BY <4>1 DEF Owns
      <4>3. OwnsFile(w, f)
        BY <4>1, <4>2 DEF OwnsFile, Present
      <4> QED BY <2>2, <3>2, <4>3 DEF OwnerInv, OneOwner
    <3>5. files'[f].removed = files[f].removed
      BY <2>1, <3>2, <3>4, <1>2 DEF Outcome, Grown
    <3> QED BY <3>2, <3>3, <3>5
  <2>3. CASE u = w
    <3>1. t = s /\ t.name = f /\ ~s.serialized /\ f # 0
      BY <1>3, <1>6, <2>1, <2>3 DEF OwnsFile, Owns, Present, IsLive, IsPickled
    <3>2. CASE s.name = r.name /\ Len(files') = Len(files) /\ Grown(files, files', 0)
      <4>1. r = wrapper[w] /\ IsLive(w)
        BY <3>1, <3>2
      <4>2. OwnsFile(w, f) /\ f \in DOMAIN files
        BY <1>2, <2>1, <3>1, <3>2, <4>1 DEF OwnsFile, Owns, Present
      <4>3. files[f].removed = 0
        BY <4>2 DEF OwnerInv, OneOwner, Exists
      <4> QED BY <2>1, <2>3, <3>1, <3>2, <4>2, <4>3 DEF Grown
    <3>3. CASE /\ r.name = 0 /\ s.name = Len(files') /\ Len(files') = Len(files) + 1
               /\ files'[Len(files')].removed = 0
      BY <2>3, <3>1, <3>3
    <3> QED BY <3>1, <3>2, <3>3 DEF Outcome
  <2> QED BY <2>2, <2>3
<1>7. OneOwner'
  <2>1. \A u, x \in Wrappers: \A f \in DOMAIN files': OwnsFile(u, f)' /\ OwnsFile(x, f)' => u = x
    <3> SUFFICES ASSUME NEW u \in Wrappers, NEW x \in Wrappers, NEW f \in DOMAIN files',
                        OwnsFile(u, f)', OwnsFile(x, f)'
                 PROVE  u = x
      OBVIOUS
    <3>1. f \in DOMAIN files => f # Len(files) + 1
      BY <1>1, <1>2, LenProperties
    <3>2. OwnsFile(u, f) /\ OwnsFile(x, f) /\ f \in DOMAIN files => u = x
      BY DEF OwnerInv, OneOwner
    <3> QED BY <1>6, <3>1, <3>2
  <2>2. \A u \in Wrappers: \A f \in DOMAIN files': OwnsFile(u, f)' => Exists(f)'
    BY <1>6 DEF Exists
  <2> QED BY <2>1, <2>2 DEF OneOwner
<1>8. RemovedOnce'
  <2>1. ASSUME NEW f \in DOMAIN files' PROVE files'[f].removed <= 1
    <3>1. f \in 1..Len(files') /\ \A g \in 1..Len(files): files[g].removed <= 1
      BY <1>1, <1>2, LenProperties DEF OwnerInv, RemovedOnce
    <3> QED BY <1>2, <3>1 DEF Outcome, Grown
  <2> QED BY <2>1 DEF RemovedOnce
<1> QED BY <1>2, <1>4, <1>5, <1>7, <1>8

-----------------------------------------------------------------------------
(* The theorems *)

\* What an owner will delete is still there.
LEMMA OwnerHasFile ==
  ASSUME OwnerInv, NEW w \in Wrappers, IsLive(w), Owns(wrapper[w])
  PROVE  Exists(wrapper[w].name)
<1>1. Len(files) \in Nat /\ DOMAIN files = 1..Len(files) /\ wrapper[w].name \in 0..Len(files)
  BY LenProperties DEF OwnerInv, TypeOK
<1>2. wrapper[w].name \in DOMAIN files /\ OwnsFile(w, wrapper[w].name)
  BY <1>1 DEF OwnsFile, Owns, Present
<1> QED BY <1>2 DEF OwnerInv, OneOwner

LEMMA NewIsSound ==
  ASSUME files \in Seq(File), NEW given \in Storages
  PROVE  Sound(New(given), files) /\ New(given).name = 0
<1>1. given.storage \in {"DIRECT", "FILE"} /\ given.explicit \in BOOLEAN
  BY DEF Storages
<1>2. Len(files) \in Nat
  BY LenProperties
<1> QED BY <1>1, <1>2 DEF Sound, New, Wrapper, LengthAt

\* The history variables and the bounds keep their types.
LEMMA AssignPreserves ==
  ASSUME OwnerInv, NEW w \in Wrappers, NEW r, Sound(r, files), NEW v \in Values, Assign(w, r, v),
         Owns(r) => Exists(r.name),
         (wrapper[w] = r /\ IsLive(w)) \/ (r.name = 0 /\ ~Present(w))
  PROVE  OwnerInv'
<1> DEFINE s == Assigned(r, v)
<1>1. wrapper' = [wrapper EXCEPT ![w] = s] /\ files' = FilesAssigned(r, v)
  BY DEF Assign
<1>2. files \in Seq(File)
  BY DEF OwnerInv, TypeOK, File
<1> HIDE DEF s
<1>3. Outcome(r, files, s, files')
  BY <1>1, <1>2, AssignedOutcome DEF s
<1>4. s \in Wrapper
  BY <1>3 DEF Outcome, Sound
<1>5. /\ wrapper' \in [Wrappers -> Wrapper] /\ files' \in Seq(File)
      /\ \A u \in Wrappers:
           /\ wrapper'[u].name \in 0..Len(files')
           /\ IsLive(u)' => (wrapper'[u].handle = "none" <=> wrapper'[u].name = 0)
           /\ IsPickled(u)' => wrapper'[u].handle = "none" /\ wrapper'[u].position = 0
           /\ IsLive(u)' => wrapper'[u].position <= LengthAt(files', wrapper'[u].name)
      /\ OneOwner' /\ RemovedOnce'
  BY <1>1, <1>3, <1>4, OutcomePreserves
<1>6. /\ writes' \in 0..MaxWrites /\ pickles' \in [Wrappers -> Nat]
      /\ wanted' \in [Wrappers -> Values \cup {Nothing}]
  BY BoundsAssumption DEF Assign, OwnerInv, TypeOK
<1> QED BY <1>5, <1>6 DEF OwnerInv, TypeOK, File

LEMMA DeletePreserves ==
  ASSUME OwnerInv, NEW w \in Wrappers, Delete(w)
  PROVE  OwnerInv'
<1> DEFINE r == wrapper[w]
           s == Released(wrapper[w])
           t == [s EXCEPT !.state = "gone"]
<1>1. IsLive(w) /\ wrapper' = [wrapper EXCEPT ![w] = t] /\ files' = FilesReleased(r)
  BY DEF Delete
<1>2. files \in Seq(File) /\ Sound(r, files) /\ (Owns(r) => Exists(r.name))
  BY <1>1, LiveIsSound, OwnerHasFile DEF OwnerInv, TypeOK, File
<1> HIDE DEF s
<1>3. Outcome(r, files, s, files')
  BY <1>1, <1>2, ReleasedOutcome DEF s
<1>4. s \in Wrapper
  BY <1>3 DEF Outcome, Sound
<1>5. t \in Wrapper /\ t.state = "gone" /\ t.name = s.name
  BY <1>4 DEF Wrapper
<1> HIDE DEF t
<1>6. /\ wrapper' \in [Wrappers -> Wrapper] /\ files' \in Seq(File)
      /\ \A u \in Wrappers:
           /\ wrapper'[u].name \in 0..Len(files')
           /\ IsLive(u)' => (wrapper'[u].handle = "none" <=> wrapper'[u].name = 0)
           /\ IsPickled(u)' => wrapper'[u].handle = "none" /\ wrapper'[u].position = 0
           /\ IsLive(u)' => wrapper'[u].position <= LengthAt(files', wrapper'[u].name)
      /\ OneOwner' /\ RemovedOnce'
  BY <1>1, <1>3, <1>5, OutcomePreserves
<1>7. writes' = writes /\ pickles' = pickles /\ wanted' = wanted
  BY DEF Delete
<1> QED BY <1>6, <1>7 DEF OwnerInv, TypeOK, File

\* The copy owns the file if the original did, which no longer does.
LEMMA PicklePreserves ==
  ASSUME OwnerInv, NEW w \in Wrappers, NEW copy \in Wrappers, Pickle(w, copy)
  PROVE  OwnerInv'
<1> DEFINE r == wrapper[w]
           p == Pickled(wrapper[w])
           c == State(wrapper[w])
<1>1. IsLive(w) /\ ~Made(copy) /\ copy # w
  BY DEF Pickle, IsNext, IsLive, Made
<1>2. wrapper \in [Wrappers -> Wrapper] /\ r \in Wrapper /\ Sound(r, files)
  BY <1>1, LiveIsSound DEF OwnerInv, TypeOK
<1>3. wrapper' = [wrapper EXCEPT ![w] = p, ![copy] = c]
  BY DEF Pickle
<1>4. /\ p \in Wrapper /\ p.state = "live" /\ p.name = r.name /\ p.serialized = TRUE
      /\ p.position = r.position /\ (p.handle = "none" <=> r.handle = "none")
  <2>1. r.state = "live"
    BY <1>1 DEF IsLive
  <2> DEFINE m == Closed(r)
  <2>2. /\ m \in Wrapper /\ m.state = r.state /\ m.name = r.name /\ m.position = r.position
        /\ (m.handle = "none" <=> r.handle = "none")
    BY <1>2 DEF Closed, Wrapper
  <2>3. p = [m EXCEPT !.serialized = TRUE]
    BY DEF Pickled
  <2> HIDE DEF m, p
  <2> QED BY <2>1, <2>2, <2>3 DEF Wrapper
<1>5. /\ c \in Wrapper /\ c.state = "pickled" /\ c.name = r.name /\ c.serialized = r.serialized
      /\ c.handle = "none" /\ c.position = 0
  BY <1>2 DEF State, Wrapper
<1> HIDE DEF p, c
<1>6. /\ wrapper' \in [Wrappers -> Wrapper] /\ wrapper'[w] = p /\ wrapper'[copy] = c
      /\ \A u \in Wrappers \ {w, copy}: wrapper'[u] = wrapper[u]
  BY <1>1, <1>2, <1>3, <1>4, <1>5
<1>7. files' = files /\ writes' = writes
  BY DEF Pickle
<1>8. ASSUME NEW u \in Wrappers
      PROVE  /\ wrapper'[u].name \in 0..Len(files')
             /\ IsLive(u)' => (wrapper'[u].handle = "none" <=> wrapper'[u].name = 0)
             /\ IsPickled(u)' => wrapper'[u].handle = "none" /\ wrapper'[u].position = 0
             /\ IsLive(u)' => wrapper'[u].position <= LengthAt(files', wrapper'[u].name)
  <2>1. CASE u = w
    BY <1>2, <1>4, <1>6, <1>7, <2>1 DEF Sound, IsPickled
  <2>2. CASE u = copy
    BY <1>2, <1>5, <1>6, <1>7, <2>2 DEF Sound, IsLive
  <2>3. CASE u \notin {w, copy}
    BY <1>6, <1>7, <2>3 DEF OwnerInv, TypeOK, IsLive, IsPickled
  <2> QED BY <2>1, <2>2, <2>3
<1>9. /\ wanted' \in [Wrappers -> Values \cup {Nothing}] /\ pickles' \in [Wrappers -> Nat]
  BY DEF Pickle, OwnerInv, TypeOK
\* An owner afterwards is the copy of one, or one that was not pickled.
<1>10. ASSUME NEW u \in Wrappers, NEW f \in DOMAIN files, OwnsFile(u, f)'
       PROVE  (u = copy /\ OwnsFile(w, f)) \/ (u \notin {w, copy} /\ OwnsFile(u, f))
  <2>1. u # w
    BY <1>4, <1>6, <1>10 DEF OwnsFile, Owns
  <2>2. CASE u = copy
    BY <1>1, <1>5, <1>6, <1>10, <2>2 DEF OwnsFile, Owns, Present
  <2>3. CASE u \notin {w, copy}
    BY <1>6, <1>10, <2>3 DEF OwnsFile, Owns, Present, IsLive, IsPickled
  <2> QED BY <2>1, <2>2, <2>3
<1>11. OneOwner'
  <2>1. \A u, x \in Wrappers: \A f \in DOMAIN files': OwnsFile(u, f)' /\ OwnsFile(x, f)' => u = x
    BY <1>7, <1>10 DEF OwnerInv, OneOwner
  <2>2. \A u \in Wrappers: \A f \in DOMAIN files': OwnsFile(u, f)' => Exists(f)'
    BY <1>7, <1>10 DEF OwnerInv, OneOwner, Exists
  <2> QED BY <2>1, <2>2 DEF OneOwner
<1>12. RemovedOnce' /\ files' \in Seq([content: Seq(Byte), removed: Nat]) /\ writes' \in 0..MaxWrites
  BY <1>7 DEF OwnerInv, RemovedOnce, TypeOK
<1> QED BY <1>6, <1>8, <1>9, <1>11, <1>12 DEF OwnerInv, TypeOK

\* A step that changes neither the file of a wrapper nor who will delete it.
LEMMA SameOwners ==
  ASSUME OwnerInv, NEW w \in Wrappers, NEW t \in Wrapper, wrapper' = [wrapper EXCEPT ![w] = t],
         UNCHANGED <<files, writes, wanted, pickles>>,
         Present(w), t.name = wrapper[w].name, t.serialized = wrapper[w].serialized,
         t.state \in {"live", "gone"},
         t.state = "live" => /\ t.handle = "none" <=> t.name = 0
                             /\ t.position <= LengthAt(files, t.name)
  PROVE  OwnerInv'
<1>1. /\ wrapper' \in [Wrappers -> Wrapper] /\ wrapper'[w] = t
      /\ \A u \in Wrappers \ {w}: wrapper'[u] = wrapper[u]
  BY DEF OwnerInv, TypeOK
<1>2. ASSUME NEW u \in Wrappers
      PROVE  /\ wrapper'[u].name \in 0..Len(files')
             /\ IsLive(u)' => (wrapper'[u].handle = "none" <=> wrapper'[u].name = 0)
             /\ IsPickled(u)' => wrapper'[u].handle = "none" /\ wrapper'[u].position = 0
             /\ IsLive(u)' => wrapper'[u].position <= LengthAt(files', wrapper'[u].name)
  <2>1. CASE u = w
    BY <1>1, <2>1 DEF OwnerInv, TypeOK, IsLive, IsPickled
  <2>2. CASE u # w
    BY <1>1, <2>2 DEF OwnerInv, TypeOK, IsLive, IsPickled
  <2> QED BY <2>1, <2>2
<1>3. \A u \in Wrappers: \A f \in DOMAIN files: OwnsFile(u, f)' => OwnsFile(u, f)
  BY <1>1 DEF OwnsFile, Owns, Present, IsLive, IsPickled
<1>4. OneOwner'
  BY <1>3 DEF OwnerInv, OneOwner, Exists
<1>5. TypeOK'
  BY <1>1, <1>2 DEF OwnerInv, TypeOK
<1> QED BY <1>4, <1>5 DEF OwnerInv, RemovedOnce

LEMMA ReadPreserves ==
  ASSUME OwnerInv, NEW w \in Wrappers, Read(w)
  PROVE  OwnerInv'
<1> DEFINE r == wrapper[w]
           n == Len(files[r.name].content)
           t == [r EXCEPT !.position = n]
<1>1. IsLive(w) /\ r \in Wrapper /\ Sound(r, files) /\ r.handle # "none"
  BY LiveIsSound DEF Read, OwnerInv, TypeOK
<1>2. r.name \in 1..Len(files) /\ files \in Seq(File) /\ n \in Nat
  <2>1. files \in Seq(File) /\ r.name \in 1..Len(files)
    BY <1>1, LenProperties DEF Sound, OwnerInv, TypeOK, File
  <2> QED BY <2>1, FileLengths
<1>3. wrapper' = [wrapper EXCEPT ![w] = t] /\ UNCHANGED <<files, writes, wanted, pickles>>
  BY DEF Read
<1> HIDE DEF n
<1>4. /\ t \in Wrapper /\ t.state = "live" /\ t.name = r.name /\ t.serialized = r.serialized
      /\ t.handle = r.handle /\ t.position = n
  BY <1>1, <1>2, AtPosition DEF IsLive
<1> HIDE DEF t
<1>5. (t.handle = "none" <=> t.name = 0) /\ t.position <= LengthAt(files, t.name)
  BY <1>1, <1>2, <1>4 DEF Sound, LengthAt, n
<1> QED BY <1>1, <1>3, <1>4, <1>5, SameOwners DEF Present

LEMMA UnpicklePreserves ==
  ASSUME OwnerInv, NEW w \in Wrappers, Unpickle(w)
  PROVE  OwnerInv'
<1> DEFINE r == wrapper[w]
<1>1. /\ r \in Wrapper /\ r.handle = "none" /\ r.position = 0 /\ r.name \in 0..Len(files)
      /\ Present(w)
  BY DEF Unpickle, OwnerInv, TypeOK, Present
<1>2. files \in Seq(File) /\ 0 <= LengthAt(files, r.name)
  <2>1. files \in Seq(File)
    BY DEF OwnerInv, TypeOK, File
  <2> QED BY <1>1, <2>1, FileLengths DEF LengthAt
<1>3. UNCHANGED <<files, writes, wanted, pickles>>
  BY DEF Unpickle
<1>4. CASE r.name = 0 /\ wrapper' = [wrapper EXCEPT ![w].state = "live"]
  <2> DEFINE t == [r EXCEPT !.state = "live"]
  <2>1. wrapper' = [wrapper EXCEPT ![w] = t]
    BY <1>4
  <2>2. /\ t \in Wrapper /\ t.state = "live" /\ t.name = r.name /\ t.serialized = r.serialized
        /\ t.handle = "none" /\ t.position = 0
    BY <1>1 DEF Wrapper
  <2> HIDE DEF t
  <2> QED BY <1>1, <1>2, <1>3, <1>4, <2>1, <2>2, SameOwners
<1>5. CASE r.name # 0 /\ wrapper' = [wrapper EXCEPT ![w].state = "live", ![w].handle = "open"]
  <2> DEFINE t == [r EXCEPT !.state = "live", !.handle = "open"]
  <2>1. wrapper' = [wrapper EXCEPT ![w] = t]
    BY <1>5 DEF OwnerInv, TypeOK
  <2>2. /\ t \in Wrapper /\ t.state = "live" /\ t.name = r.name /\ t.serialized = r.serialized
        /\ t.handle = "open" /\ t.position = 0
    BY <1>1 DEF Wrapper
  <2> HIDE DEF t
  <2> QED BY <1>1, <1>2, <1>3, <1>5, <2>1, <2>2, SameOwners
<1>6. CASE wrapper' = [wrapper EXCEPT ![w].state = "gone"]
  <2> DEFINE t == [r EXCEPT !.state = "gone"]
  <2>1. wrapper' = [wrapper EXCEPT ![w] = t]
    BY <1>6
  <2>2. /\ t \in Wrapper /\ t.state = "gone" /\ t.name = r.name /\ t.serialized = r.serialized
    BY <1>1 DEF Wrapper
  <2> HIDE DEF t
  <2> QED BY <1>1, <1>3, <2>1, <2>2, SameOwners
<1> QED BY <1>4, <1>5, <1>6 DEF Unpickle

LEMMA InitOwner == ASSUME Init PROVE OwnerInv
<1>1. /\ Unmade \in Wrapper /\ Unmade.state = "none" /\ Unmade.name = 0
  BY DEF Unmade, New, Wrapper
<1>2. files = <<>> /\ Len(files) = 0 /\ DOMAIN files = {} /\ files \in Seq(File)
  BY EmptySeq DEF Init
<1>3. TypeOK
  BY <1>1, <1>2, BoundsAssumption DEF Init, TypeOK, IsLive, IsPickled, File
<1> QED BY <1>2, <1>3 DEF OwnerInv, OneOwner, RemovedOnce

LEMMA NextPreserves == ASSUME OwnerInv, [Next]_vars PROVE OwnerInv'
<1>1. ASSUME NEW v \in Values, Create(v) PROVE OwnerInv'
  <2>1. PICK given \in Storages: ~Made(Original) /\ Assign(Original, New(given), v)
    BY <1>1 DEF Create
  <2> DEFINE r == New(given)
  <2>2. Sound(r, files) /\ r.name = 0
    BY NewIsSound DEF OwnerInv, TypeOK, File
  <2>3. ~Present(Original) /\ Original \in Wrappers /\ ~Owns(r)
    BY <2>1, <2>2, BoundsAssumption DEF Present, IsLive, IsPickled, Made, Owns, Original, Wrappers
  <2>4. Assign(Original, r, v)
    BY <2>1
  <2> HIDE DEF r
  <2> QED BY <2>2, <2>3, <2>4, AssignPreserves
<1>2. ASSUME NEW w \in Wrappers, NEW v \in Values, SetValue(w, v) PROVE OwnerInv'
  <2>1. IsLive(w) /\ Assign(w, wrapper[w], v)
    BY <1>2 DEF SetValue
  <2>2. Sound(wrapper[w], files) /\ (Owns(wrapper[w]) => Exists(wrapper[w].name))
    BY <2>1, LiveIsSound, OwnerHasFile DEF OwnerInv
  <2> QED BY <2>1, <2>2, AssignPreserves
<1>3. ASSUME NEW w \in Wrappers, Read(w) \/ Unpickle(w) \/ Delete(w) PROVE OwnerInv'
  BY <1>3, ReadPreserves, UnpicklePreserves, DeletePreserves
<1>4. ASSUME NEW w \in Wrappers, NEW copy \in Wrappers, Pickle(w, copy) PROVE OwnerInv'
  BY <1>4, PicklePreserves
<1>5. CASE UNCHANGED vars
  BY <1>5 DEF vars, OwnerInv, TypeOK, OneOwner, RemovedOnce, OwnsFile, Present, IsLive, IsPickled, Exists
<1> QED BY <1>1, <1>2, <1>3, <1>4, <1>5 DEF Next

\* In every reachable state the types hold, and every file that will be deleted has
\* one owner and is still there.
THEOREM OwnersInvariant == Spec => []OwnerInv
<1>1. Init => OwnerInv
  BY InitOwner
<1>2. OwnerInv /\ [Next]_vars => OwnerInv'
  BY NextPreserves
<1> QED BY <1>1, <1>2, PTL DEF Spec

\* The types of a wrapper, its copies and their files hold for all contents,
\* thresholds and bounds.
THEOREM WrapperTypeCorrect == Spec => []TypeOK
<1>1. OwnerInv => TypeOK
  BY DEF OwnerInv
<1> QED BY <1>1, OwnersInvariant, PTL

\* Of all copies of a wrapper that refer to a file, one at most will delete it.
THEOREM OneOwnerAlways == Spec => []OneOwner
<1>1. OwnerInv => OneOwner
  BY DEF OwnerInv
<1> QED BY <1>1, OwnersInvariant, PTL

\* os.remove is called once at most for a file: neither an assignment nor __del__
\* meets FileNotFoundError, in whatever process the copies are.
THEOREM NeverRemovedTwice == Spec => []RemovedOnce
<1>1. OwnerInv => RemovedOnce
  BY DEF OwnerInv
<1> QED BY <1>1, OwnersInvariant, PTL

-----------------------------------------------------------------------------
(* A value written once *)

\* A wrapper has its value in memory, or in the only file; the copies open it when they are
\* unpickled, the original never closes it.
InMemoryOf(w) == wrapper[w].memory = wanted[w] /\ wanted[w] # Nothing /\ wrapper[w].name = 0
InFileOf(w) ==
  /\ wrapper[w].memory = Nothing /\ wrapper[w].name = 1
  /\ Len(files) = 1 /\ files[1].content = wanted[w]
  /\ IsLive(w) => IF w = Original THEN wrapper[w].handle = "temp"
                  ELSE pickles[w] = 0 => wrapper[w].handle = "open"

\* Who has not been pickled is the owner, while nobody is pickled twice.
NotShared ==
  (\A w \in Wrappers: pickles[w] <= 1) =>
    \A w \in Wrappers: Present(w) /\ pickles[w] = 0 => ~wrapper[w].serialized

Once ==
  /\ \A w \in Wrappers: Present(w) => InMemoryOf(w) \/ InFileOf(w)
  /\ \A w \in Wrappers: pickles[w] # 0 \/ w = Original => ~IsPickled(w)
  /\ \A w \in Wrappers: pickles[w] # 0 => Made(w)
  /\ NotShared
  /\ \A f \in DOMAIN files: Exists(f) => \E w \in Wrappers: OwnsFile(w, f)

\* Before it is written there is nothing.
OnceInv ==
  /\ writes = 0 => files = <<>> /\ \A w \in Wrappers: ~Made(w) /\ pickles[w] = 0
  /\ WrittenOnce => Once

LEMMA OverwriteNothing == ASSUME NEW v \in Seq(Byte) PROVE Overwrite(<<>>, 0, v) = v
<1>1. SubSeq(<<>>, 1, 0) = <<>> /\ SubSeq(<<>>, 0 + Len(v) + 1, Len(<<>>)) = <<>>
  <2>1. Len(v) \in Nat /\ Len(<<>>) = 0
    BY LenProperties
  <2>2. <<>> \in Seq(Byte)
    OBVIOUS
  <2> QED BY <2>1, <2>2, SubSeqEmpty
<1>2. v \o <<>> = v /\ <<>> \o v = v
  OBVIOUS
<1> QED BY <1>1, <1>2 DEF Overwrite

\* The constructor.
LEMMA CreateWritesOnce ==
  ASSUME OwnerInv, OnceInv, NEW v \in Values, Create(v)
  PROVE  OnceInv'
<1>1. PICK given \in Storages: ~Made(Original) /\ Assign(Original, New(given), v)
  BY DEF Create
<1>2. writes \in Nat /\ writes' = writes + 1 /\ pickles' = pickles
  BY <1>1, BoundsAssumption DEF Assign, OwnerInv, TypeOK
<1>3. CASE writes # 0
  BY <1>2, <1>3 DEF OnceInv, WrittenOnce
<1>4. CASE writes = 0
  <2> DEFINE r == New(given)
             s == Assigned(r, v)
  <2>1. files = <<>> /\ \A w \in Wrappers: ~Made(w) /\ pickles[w] = 0
    BY <1>4 DEF OnceInv
  <2>2. wrapper' = [wrapper EXCEPT ![Original] = s] /\ files' = FilesAssigned(r, v)
        /\ wanted' = [wanted EXCEPT ![Original] = v]
    BY <1>1 DEF Assign
  <2>3. Original \in Wrappers /\ v \in Seq(Byte) /\ v # Nothing /\ Len(v) \in Nat
    BY BoundsAssumption, ValuesAssumption, LenProperties DEF Original, Wrappers
  <2>4. given.storage \in {"DIRECT", "FILE"} /\ given.explicit \in BOOLEAN
    BY DEF Storages
  <2>5. /\ r \in Wrapper /\ r.state = "live" /\ r.name = 0 /\ r.handle = "none"
        /\ r.memory = Nothing /\ r.position = 0 /\ r.serialized = FALSE
    BY <2>4 DEF New, Wrapper
  <2> HIDE DEF r
  <2>6. \/ /\ s.memory = v /\ s.name = 0 /\ files' = <<>>
           /\ s.state = "live" /\ s.serialized = FALSE
        \/ /\ s.memory = Nothing /\ s.name = 1 /\ s.handle = "temp"
           /\ files' = <<[content |-> v, removed |-> 0]>>
           /\ s.state = "live" /\ s.serialized = FALSE
    <3>1. CASE GoesToMemory(r, v)
      <4> DEFINE t == [r EXCEPT !.memory = v]
      <4>1. /\ t.state = "live" /\ t.name = 0 /\ t.handle = "none" /\ t.memory = v
            /\ t.serialized = FALSE
        BY <2>5 DEF Wrapper
      <4>2. s = Released(t) /\ files' = files
        BY <2>2, <2>5, <3>1 DEF Assigned, FilesAssigned, FilesReleased, Owns
      <4>3. t \in Wrapper
        BY <2>5 DEF Wrapper
      <4> HIDE DEF t, s
      <4>4. s = [t EXCEPT !.handle = "none"]
        BY <4>1, <4>2 DEF Released, Closed, Owns
      <4>5. /\ s.memory = t.memory /\ s.name = t.name /\ s.state = t.state
            /\ s.serialized = t.serialized
        BY <4>3, <4>4 DEF Wrapper
      <4> QED BY <2>1, <4>1, <4>2, <4>5
    <3>2. CASE ~GoesToMemory(r, v)
      <4> DEFINE t == [r EXCEPT !.storage = "FILE", !.handle = "temp", !.name = 1]
                 gs == <<[content |-> <<>>, removed |-> 0]>>
      <4>1. /\ t \in Wrapper /\ t.state = "live" /\ t.name = 1 /\ t.handle = "temp"
            /\ t.memory = Nothing /\ t.serialized = FALSE /\ t.position = 0
        BY <2>5 DEF Wrapper
      <4>2. WithFile(r) = t /\ FilesWith(r) = gs
        BY <2>1, <2>5 DEF WithFile, FilesWith
      <4> HIDE DEF t
      <4>3. s = [t EXCEPT !.position = @ + Len(v)]
        BY <3>2, <4>1, <4>2 DEF Assigned
      <4>4. files' = [gs EXCEPT ![1].content = Overwrite(@, 0, v)]
        BY <2>2, <2>5, <3>2, <4>1, <4>2 DEF FilesAssigned
      <4>5. files' = <<[content |-> v, removed |-> 0]>>
        BY <2>3, <4>4, OverwriteNothing
      <4> HIDE DEF s, gs
      <4>6. /\ s.memory = t.memory /\ s.name = t.name /\ s.handle = t.handle /\ s.state = t.state
            /\ s.serialized = t.serialized
        BY <4>1, <4>3 DEF Wrapper
      <4> QED BY <4>1, <4>5, <4>6
    <3> QED BY <3>1, <3>2
  <2> HIDE DEF s
  <2>7. /\ wrapper'[Original] = s /\ wanted'[Original] = v
        /\ \A w \in Wrappers \ {Original}: wrapper'[w] = wrapper[w]
    BY <2>2, <2>3 DEF OwnerInv, TypeOK
  <2>8. \A w \in Wrappers: Present(w)' => w = Original
    BY <2>1, <2>7 DEF Present, IsLive, IsPickled, Made
  <2>9. InMemoryOf(Original)' \/ InFileOf(Original)'
    BY <2>3, <2>6, <2>7 DEF InMemoryOf, InFileOf
  <2>10. \A w \in Wrappers: pickles'[w] = 0 /\ ~IsPickled(w)'
    BY <1>2, <2>1, <2>6, <2>7 DEF IsPickled, Made
  <2>11. NotShared'
    BY <2>6, <2>7, <2>8 DEF NotShared
  <2>12. \A f \in DOMAIN files': OwnsFile(Original, f)'
    BY <2>6, <2>7 DEF OwnsFile, Owns, Present, IsLive
  <2>13. Once'
    BY <2>3, <2>8, <2>9, <2>10, <2>11, <2>12 DEF Once
  <2> QED BY <1>2, <1>4, <2>13 DEF OnceInv, WrittenOnce
<1> QED BY <1>3, <1>4

LEMMA SetValueWritesAgain ==
  ASSUME OwnerInv, OnceInv, NEW w \in Wrappers, NEW v \in Values, SetValue(w, v)
  PROVE  OnceInv'
<1>1. writes \in Nat /\ writes' = writes + 1 /\ IsLive(w)
  BY BoundsAssumption DEF SetValue, Assign, OwnerInv, TypeOK
<1>2. writes # 0
  BY <1>1 DEF OnceInv, Made, IsLive
<1> QED BY <1>1, <1>2 DEF OnceInv, WrittenOnce

LEMMA RemovedCounts ==
  ASSUME NEW fs \in Seq(File)
  PROVE  /\ Len(fs) \in Nat /\ DOMAIN fs = 1..Len(fs)
         /\ \A f \in 1..Len(fs): fs[f].removed \in Nat
<1>1. \A f \in 1..Len(fs): fs[f] \in File
  BY ElementOfSeq
<1>2. Len(fs) \in Nat /\ DOMAIN fs = 1..Len(fs)
  BY LenProperties
<1> QED BY <1>1, <1>2 DEF File

\* Reading, unpickling and deleting: a wrapper gets attributes t. If it goes, its file has gone
\* before or goes with it.
LEMMA OneChanges ==
  ASSUME OwnerInv, OnceInv, NEW w \in Wrappers, NEW t \in Wrapper, Present(w),
         wrapper' = [wrapper EXCEPT ![w] = t], UNCHANGED <<writes, wanted, pickles>>,
         files' \in Seq(File), Len(files') = Len(files),
         \A f \in 1..Len(files): files[f].removed <= files'[f].removed,
         t.state = "gone" => \A f \in DOMAIN files: OwnsFile(w, f) => files'[f].removed # 0,
         \/ t.state = "gone"
         \/ /\ t.state = "live" /\ t.memory = wrapper[w].memory /\ t.name = wrapper[w].name
            /\ t.serialized = wrapper[w].serialized
            /\ t.name # 0 => t.handle = IF IsLive(w) THEN wrapper[w].handle ELSE "open",
         \A f \in 1..Len(files): files'[f].content = files[f].content
  PROVE  OnceInv'
<1>1. /\ wrapper'[w] = t /\ \A u \in Wrappers \ {w}: wrapper'[u] = wrapper[u]
      /\ Len(files) \in Nat /\ DOMAIN files = 1..Len(files) /\ DOMAIN files' = 1..Len(files)
      /\ \A f \in 1..Len(files): files[f].removed \in Nat
  <2>1. files \in Seq(File) /\ wrapper \in [Wrappers -> Wrapper]
    BY DEF OwnerInv, TypeOK, File
  <2> QED BY <2>1, RemovedCounts
<1>2. writes # 0 /\ writes' # 0
  BY DEF OnceInv, Present, Made, IsLive, IsPickled
<1> SUFFICES ASSUME WrittenOnce PROVE Once'
  BY <1>2 DEF OnceInv, WrittenOnce
<1>3. Once
  BY DEF OnceInv
<1>4. \A u \in Wrappers: Present(u)' => Present(u)
  BY <1>1 DEF Present, IsLive, IsPickled
<1>5. ASSUME NEW u \in Wrappers, Present(u)'
      PROVE  InMemoryOf(u)' \/ InFileOf(u)'
  <2>1. InMemoryOf(u) \/ InFileOf(u)
    BY <1>3, <1>4, <1>5 DEF Once
  <2>2. wrapper'[u].memory = wrapper[u].memory /\ wrapper'[u].name = wrapper[u].name
    BY <1>1, <1>5 DEF Present, IsLive, IsPickled
  <2>3. CASE InMemoryOf(u)
    BY <2>2, <2>3 DEF InMemoryOf
  <2>4. CASE InFileOf(u)
    <3>1. Len(files') = 1 /\ files'[1].content = wanted'[u]
      BY <1>1, <2>4 DEF InFileOf
    <3>2. u = Original => ~IsPickled(u)
      BY <1>3 DEF Once
    <3>3. IsLive(u)' => IF u = Original THEN wrapper'[u].handle = "temp"
                        ELSE pickles'[u] = 0 => wrapper'[u].handle = "open"
      BY <1>1, <2>4, <3>2 DEF InFileOf, IsLive, IsPickled, Present
    <3> QED BY <2>2, <2>4, <3>1, <3>3 DEF InFileOf
  <2> QED BY <2>1, <2>3, <2>4
<1>6. \A u \in Wrappers: /\ pickles'[u] # 0 \/ u = Original => ~IsPickled(u)'
                         /\ pickles'[u] # 0 => Made(u)'
  BY <1>1, <1>3 DEF Once, IsPickled, Made
<1>7. NotShared'
  <2>1. \A u \in Wrappers: Present(u)' => Present(u) /\ wrapper'[u].serialized = wrapper[u].serialized
    BY <1>1, <1>4 DEF Present, IsLive, IsPickled
  <2> QED BY <1>3, <2>1 DEF Once, NotShared
<1>8. ASSUME NEW f \in DOMAIN files', Exists(f)'
      PROVE  \E u \in Wrappers: OwnsFile(u, f)'
  <2>1. f \in DOMAIN files /\ Exists(f)
    <3>1. f \in 1..Len(files) /\ files'[f].removed = 0
      BY <1>1, <1>8 DEF Exists
    <3>2. files[f].removed \in Nat /\ files[f].removed <= 0
      BY <1>1, <3>1
    <3> QED BY <1>1, <3>1, <3>2 DEF Exists
  <2>2. PICK u \in Wrappers: OwnsFile(u, f)
    BY <1>3, <2>1 DEF Once
  <2>3. CASE u = w
    BY <1>1, <1>8, <2>1, <2>2, <2>3 DEF OwnsFile, Owns, Exists, Present, IsLive
  <2>4. CASE u # w
    BY <1>1, <2>2, <2>4 DEF OwnsFile, Owns, Present, IsLive, IsPickled
  <2> QED BY <2>3, <2>4
<1> QED BY <1>5, <1>6, <1>7, <1>8 DEF Once

LEMMA FilesTyped ==
  ASSUME OwnerInv
  PROVE  files \in Seq(File) /\ \A f \in 1..Len(files): files[f].removed <= files[f].removed
<1>1. files \in Seq(File)
  BY DEF OwnerInv, TypeOK, File
<1>2. \A f \in 1..Len(files): files[f].removed \in Nat
  BY <1>1, RemovedCounts
<1> QED BY <1>1, <1>2

LEMMA ReadKeepsOnce ==
  ASSUME OwnerInv, OnceInv, NEW w \in Wrappers, Read(w)
  PROVE  OnceInv'
<1> DEFINE r == wrapper[w]
           n == Len(files[r.name].content)
           t == [r EXCEPT !.position = n]
<1>1. IsLive(w) /\ r \in Wrapper /\ Sound(r, files) /\ r.handle # "none"
  BY LiveIsSound DEF Read, OwnerInv, TypeOK
<1>2. n \in Nat
  <2>1. files \in Seq(File) /\ r.name \in 1..Len(files)
    BY <1>1, FilesTyped, LenProperties DEF Sound
  <2> QED BY <2>1, FileLengths
<1>3. wrapper' = [wrapper EXCEPT ![w] = t] /\ UNCHANGED <<files, writes, wanted, pickles>>
  BY DEF Read
<1> HIDE DEF n
<1>4. /\ t \in Wrapper /\ t.state = "live" /\ t.memory = r.memory /\ t.name = r.name
      /\ t.serialized = r.serialized /\ t.handle = r.handle
  BY <1>1, <1>2 DEF Wrapper, IsLive
<1> HIDE DEF t
<1> QED BY <1>1, <1>3, <1>4, FilesTyped, OneChanges DEF Present

LEMMA UnpickleKeepsOnce ==
  ASSUME OwnerInv, OnceInv, NEW w \in Wrappers, Unpickle(w)
  PROVE  OnceInv'
<1> DEFINE r == wrapper[w]
<1>1. r \in Wrapper /\ IsPickled(w) /\ ~IsLive(w) /\ Present(w)
  BY DEF Unpickle, OwnerInv, TypeOK, Present, IsPickled, IsLive
<1>2. UNCHANGED <<files, writes, wanted, pickles>>
  BY DEF Unpickle
<1>3. CASE r.name = 0 /\ wrapper' = [wrapper EXCEPT ![w].state = "live"]
  <2> DEFINE t == [r EXCEPT !.state = "live"]
  <2>1. wrapper' = [wrapper EXCEPT ![w] = t]
    BY <1>3
  <2>2. /\ t \in Wrapper /\ t.state = "live" /\ t.memory = r.memory /\ t.name = r.name
        /\ t.serialized = r.serialized
    BY <1>1 DEF Wrapper
  <2> HIDE DEF t
  <2> QED BY <1>1, <1>2, <1>3, <2>1, <2>2, FilesTyped, OneChanges
<1>4. CASE r.name # 0 /\ wrapper' = [wrapper EXCEPT ![w].state = "live", ![w].handle = "open"]
  <2> DEFINE t == [r EXCEPT !.state = "live", !.handle = "open"]
  <2>1. wrapper' = [wrapper EXCEPT ![w] = t]
    BY <1>4 DEF OwnerInv, TypeOK
  <2>2. /\ t \in Wrapper /\ t.state = "live" /\ t.memory = r.memory /\ t.name = r.name
        /\ t.serialized = r.serialized /\ t.handle = "open"
    BY <1>1 DEF Wrapper
  <2> HIDE DEF t
  <2> QED BY <1>1, <1>2, <2>1, <2>2, FilesTyped, OneChanges
<1>5. CASE r.name # 0 /\ ~Exists(r.name) /\ wrapper' = [wrapper EXCEPT ![w].state = "gone"]
  <2> DEFINE t == [r EXCEPT !.state = "gone"]
  <2>1. wrapper' = [wrapper EXCEPT ![w] = t]
    BY <1>5
  <2>2. t \in Wrapper /\ t.state = "gone"
    BY <1>1 DEF Wrapper
  <2>3. \A f \in DOMAIN files: ~OwnsFile(w, f)
    BY <1>5 DEF OwnsFile, OwnerInv, OneOwner
  <2> HIDE DEF t
  <2> QED BY <1>1, <1>2, <2>1, <2>2, <2>3, FilesTyped, OneChanges
<1> QED BY <1>3, <1>4, <1>5 DEF Unpickle

LEMMA DeleteKeepsOnce ==
  ASSUME OwnerInv, OnceInv, NEW w \in Wrappers, Delete(w)
  PROVE  OnceInv'
<1> DEFINE r == wrapper[w]
           s == Released(wrapper[w])
           t == [s EXCEPT !.state = "gone"]
<1>1. IsLive(w) /\ wrapper' = [wrapper EXCEPT ![w] = t] /\ files' = FilesReleased(r)
      /\ UNCHANGED <<writes, wanted, pickles>>
  BY DEF Delete
<1>2. files \in Seq(File) /\ Sound(r, files) /\ (Owns(r) => Exists(r.name))
  BY <1>1, FilesTyped, LiveIsSound, OwnerHasFile DEF OwnerInv
<1> HIDE DEF s
<1>3. s \in Wrapper
  BY <1>2, ReleasedOutcome DEF s, Outcome, Sound
<1>4. t \in Wrapper /\ t.state = "gone"
  BY <1>3 DEF Wrapper
<1> HIDE DEF t
<1>5. CASE ~Owns(r)
  <2>1. files' = files /\ \A f \in DOMAIN files: ~OwnsFile(w, f)
    BY <1>1, <1>5 DEF FilesReleased, OwnsFile
  <2> QED BY <1>1, <1>4, <2>1, FilesTyped, OneChanges DEF Present
<1>6. CASE Owns(r)
  <2>1. /\ r.name \in 1..Len(files) /\ Len(files) \in Nat /\ DOMAIN files = 1..Len(files)
        /\ \A f \in 1..Len(files): files[f] \in File
    BY <1>2, <1>6, LenProperties, ElementOfSeq DEF Sound, Owns
  <2> DEFINE e == [files[r.name] EXCEPT !.removed = @ + 1]
  <2>2. e \in File /\ e.content = files[r.name].content /\ e.removed = files[r.name].removed + 1
    BY <2>1 DEF File
  <2>3. files' = [files EXCEPT ![r.name] = e]
    BY <1>1, <1>6 DEF FilesReleased
  <2> HIDE DEF e
  <2>4. /\ files' \in Seq(File) /\ Len(files') = Len(files)
        /\ \A f \in 1..Len(files): files'[f] = IF f = r.name THEN e ELSE files[f]
    BY <1>2, <2>1, <2>2, <2>3, ExceptSeq
  <2>5. \A f \in 1..Len(files): /\ files'[f].content = files[f].content
                                /\ files[f].removed <= files'[f].removed
    <3>1. \A f \in 1..Len(files): files[f].removed \in Nat
      BY <2>1 DEF File
    <3> QED BY <2>1, <2>2, <2>4, <3>1
  <2>6. \A f \in DOMAIN files: OwnsFile(w, f) => files'[f].removed # 0
    <3>1. files[r.name].removed \in Nat
      BY <2>1 DEF File
    <3>2. files'[r.name].removed # 0
      BY <2>1, <2>2, <2>4, <3>1
    <3> QED BY <3>2 DEF OwnsFile
  <2> QED BY <1>1, <1>4, <2>4, <2>5, <2>6, OneChanges DEF Present
<1> QED BY <1>5, <1>6

\* The copy has what the wrapper has; it owns the file if the wrapper did.
LEMMA PickleKeepsOnce ==
  ASSUME OwnerInv, OnceInv, NEW w \in Wrappers, NEW copy \in Wrappers, Pickle(w, copy)
  PROVE  OnceInv'
<1> DEFINE r == wrapper[w]
           p == Pickled(wrapper[w])
           c == State(wrapper[w])
<1>1. IsLive(w) /\ Present(w) /\ ~Made(copy) /\ ~Present(copy) /\ copy # w /\ copy # Original
  BY DEF Pickle, IsNext, IsLive, IsPickled, Present, Made
<1>2. wrapper' = [wrapper EXCEPT ![w] = p, ![copy] = c] /\ r \in Wrapper
      /\ wanted' = [wanted EXCEPT ![copy] = wanted[w]]
      /\ pickles' = [pickles EXCEPT ![w] = @ + 1] /\ UNCHANGED <<files, writes>>
  BY DEF Pickle, OwnerInv, TypeOK
<1>3. /\ p.state = "live" /\ p.name = r.name /\ p.memory = r.memory /\ p.serialized = TRUE
      /\ r.handle = "temp" => p.handle = "temp"
  <2>1. r.state = "live"
    BY <1>1 DEF IsLive
  <2> DEFINE m == Closed(r)
  <2>2. /\ m \in Wrapper /\ m.state = r.state /\ m.name = r.name /\ m.memory = r.memory
        /\ r.handle = "temp" => m.handle = "temp"
    BY <1>2 DEF Closed, Wrapper
  <2>3. p = [m EXCEPT !.serialized = TRUE]
    BY DEF Pickled
  <2> HIDE DEF m, p
  <2> QED BY <2>1, <2>2, <2>3 DEF Wrapper
<1>4. /\ c.state = "pickled" /\ c.name = r.name /\ c.memory = r.memory
      /\ c.serialized = r.serialized
  BY <1>2 DEF State, Wrapper
<1> HIDE DEF p, c
<1>5. /\ wrapper'[w] = p /\ wrapper'[copy] = c
      /\ \A u \in Wrappers \ {w, copy}: wrapper'[u] = wrapper[u]
      /\ wanted'[copy] = wanted[w] /\ \A u \in Wrappers \ {copy}: wanted'[u] = wanted[u]
      /\ pickles'[w] = pickles[w] + 1 /\ \A u \in Wrappers \ {w}: pickles'[u] = pickles[u]
      /\ \A u \in Wrappers: pickles[u] \in Nat
  BY <1>1, <1>2 DEF OwnerInv, TypeOK
<1>6. writes # 0 /\ writes' # 0
  BY <1>1, <1>2 DEF OnceInv, Made, IsLive
<1> SUFFICES ASSUME WrittenOnce PROVE Once'
  BY <1>2, <1>6 DEF OnceInv, WrittenOnce
<1>7. Once
  BY <1>2 DEF OnceInv, WrittenOnce
<1>8. ASSUME NEW u \in Wrappers, Present(u)'
      PROVE  InMemoryOf(u)' \/ InFileOf(u)'
  <2>1. CASE u = copy
    <3>1. InMemoryOf(w) \/ InFileOf(w)
      BY <1>1, <1>7 DEF Once
    <3>2. ~IsLive(copy)'
      BY <1>4, <1>5 DEF IsLive
    <3> QED BY <1>2, <1>4, <1>5, <2>1, <3>1, <3>2 DEF InMemoryOf, InFileOf
  <2>2. CASE u = w
    <3>1. InMemoryOf(w) \/ InFileOf(w)
      BY <1>1, <1>7 DEF Once
    <3>2. CASE InMemoryOf(w)
      BY <1>1, <1>3, <1>5, <2>2, <3>2 DEF InMemoryOf
    <3>3. CASE InFileOf(w)
      BY <1>1, <1>2, <1>3, <1>5, <2>2, <3>3 DEF InFileOf
    <3> QED BY <3>1, <3>2, <3>3
  <2>3. CASE u \notin {w, copy}
    <3>1. Present(u) /\ (InMemoryOf(u) \/ InFileOf(u))
      BY <1>5, <1>7, <1>8, <2>3 DEF Once, Present, IsLive, IsPickled
    <3> QED BY <1>2, <1>5, <2>3, <3>1 DEF InMemoryOf, InFileOf, IsLive
  <2> QED BY <2>1, <2>2, <2>3
<1>9. \A u \in Wrappers: /\ pickles'[u] # 0 \/ u = Original => ~IsPickled(u)'
                         /\ pickles'[u] # 0 => Made(u)'
  <2>1. pickles[copy] = 0
    BY <1>1, <1>7 DEF Once
  <2>2. ~IsPickled(w)' /\ Made(w)'
    BY <1>3, <1>5 DEF IsPickled, Made
  <2>3. \A u \in Wrappers \ {w, copy}: (IsPickled(u)' <=> IsPickled(u)) /\ (Made(u)' <=> Made(u))
    BY <1>5 DEF IsPickled, Made
  <2> QED BY <1>1, <1>5, <1>7, <2>1, <2>2, <2>3 DEF Once
<1>10. NotShared'
  <2> SUFFICES ASSUME \A u \in Wrappers: pickles'[u] <= 1,
                      NEW u \in Wrappers, Present(u)', pickles'[u] = 0
               PROVE  ~wrapper'[u].serialized
    BY DEF NotShared
  <2>1. pickles[w] = 0 /\ \A x \in Wrappers: pickles[x] <= 1
    BY <1>5
  <2>2. \A x \in Wrappers: Present(x) /\ pickles[x] = 0 => ~wrapper[x].serialized
    BY <1>7, <2>1 DEF Once, NotShared
  <2>3. u # w
    BY <1>5
  <2>4. CASE u = copy
    BY <1>1, <1>4, <1>5, <2>1, <2>2, <2>4
  <2>5. CASE u \notin {w, copy}
    BY <1>5, <2>2, <2>5 DEF Present, IsLive, IsPickled
  <2> QED BY <2>3, <2>4, <2>5
<1>11. ASSUME NEW f \in DOMAIN files', Exists(f)'
       PROVE  \E u \in Wrappers: OwnsFile(u, f)'
  <2>1. PICK u \in Wrappers: OwnsFile(u, f)
    BY <1>2, <1>7, <1>11 DEF Once, Exists
  <2>2. CASE u = w
    <3>1. OwnsFile(copy, f)'
      BY <1>4, <1>5, <2>1, <2>2 DEF OwnsFile, Owns, Present, IsPickled
    <3> QED BY <3>1
  <2>3. CASE u # w
    BY <1>1, <1>5, <2>1, <2>3 DEF OwnsFile, Owns, Present, IsLive, IsPickled
  <2> QED BY <2>2, <2>3
<1> QED BY <1>8, <1>9, <1>10, <1>11 DEF Once

LEMMA InitOnce == ASSUME Init PROVE OnceInv
BY DEF Init, OnceInv, WrittenOnce, Made, Unmade, New

LEMMA NextKeepsOnce == ASSUME OwnerInv, OnceInv, [Next]_vars PROVE OnceInv'
<1>1. ASSUME NEW v \in Values, Create(v) PROVE OnceInv'
  BY <1>1, CreateWritesOnce
<1>2. ASSUME NEW w \in Wrappers, NEW v \in Values, SetValue(w, v) PROVE OnceInv'
  BY <1>2, SetValueWritesAgain
<1>3. ASSUME NEW w \in Wrappers, Read(w) \/ Unpickle(w) \/ Delete(w) PROVE OnceInv'
  BY <1>3, ReadKeepsOnce, UnpickleKeepsOnce, DeleteKeepsOnce
<1>4. ASSUME NEW w \in Wrappers, NEW copy \in Wrappers, Pickle(w, copy) PROVE OnceInv'
  BY <1>4, PickleKeepsOnce
<1>5. CASE UNCHANGED vars
  BY <1>5 DEF vars, OnceInv, WrittenOnce, Once, InMemoryOf, InFileOf, NotShared, OwnsFile,
     Present, IsLive, IsPickled, Exists, Made, Owns
<1> QED BY <1>1, <1>2, <1>3, <1>4, <1>5 DEF Next

\* While a value is written only once, every wrapper has it in memory or in the one file, which
\* somebody will delete; and while nobody is pickled twice, the last copy of a chain is its owner.
THEOREM OnceInvariant == Spec => []OnceInv
<1>1. Init => OnceInv
  BY InitOnce
<1>2. OwnerInv /\ OnceInv /\ [Next]_vars => OnceInv'
  BY NextKeepsOnce
<1> QED BY <1>1, <1>2, OwnersInvariant, PTL DEF Spec

\* A value written once is read as it was written, in the original and in every copy of a copy that
\* was not pickled on itself, for all contents and thresholds; __getstate__ and __setstate__ lose
\* nothing, and deleting the file does not matter to those that have it open.
THEOREM WrittenIsRead == Spec => []ReadsBack
<1>1. OwnerInv /\ OnceInv => ReadsBack
  <2> SUFFICES ASSUME OwnerInv, OnceInv, WrittenOnce, NEW w \in Wrappers, IsLive(w), ~PassedOn(w)
               PROVE  ValueOf(w) = wanted[w]
    BY DEF ReadsBack
  <2>1. InMemoryOf(w) \/ InFileOf(w)
    BY DEF OnceInv, Once, Present
  <2>2. w = Original \/ pickles[w] = 0
    BY DEF PassedOn, OwnerInv, TypeOK
  <2> QED BY <2>1, <2>2 DEF InMemoryOf, InFileOf, ValueOf
<1> QED BY <1>1, OwnersInvariant, OnceInvariant, PTL

\* A wrapper in a queue can be taken out as long as none is pickled twice: only the last of a chain
\* of copies deletes the file (being_serialized).
THEOREM TakenOut == Spec => []Deliverable
<1>1. OwnerInv /\ OnceInv => Deliverable
  <2> SUFFICES ASSUME OwnerInv, OnceInv, WrittenOnce, \A u \in Wrappers: pickles[u] <= 1,
                      NEW w \in Wrappers, IsPickled(w), wrapper[w].name # 0
               PROVE  Exists(wrapper[w].name)
    BY DEF Deliverable
  <2>1. pickles[w] = 0 /\ ~wrapper[w].serialized
    BY DEF OnceInv, Once, NotShared, Present
  <2>2. wrapper[w].name \in DOMAIN files
    BY LenProperties DEF OwnerInv, TypeOK
  <2>3. OwnsFile(w, wrapper[w].name)
    BY <2>1 DEF OwnsFile, Owns, Present
  <2> QED BY <2>2, <2>3 DEF OwnerInv, OneOwner
<1> QED BY <1>1, OwnersInvariant, OnceInvariant, PTL

\* The file of a value written once never stays behind: while it exists one of the wrappers, in a
\* process or in a queue, is to delete it.
THEOREM SomeoneDeletes == Spec => []NoLeftover
<1>1. OnceInv => NoLeftover
  BY DEF OnceInv, Once, NoLeftover
<1> QED BY <1>1, OnceInvariant, PTL

=============================================================================
