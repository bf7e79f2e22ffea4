-------------------------- MODULE QetDbFileProofs --------------------------
(***************************************************************************)
(* Proofs about QetDbFile, for any paths, tables, rows and histories.      *)
(***************************************************************************)
EXTENDS QetDbFile, SequenceTheorems, WellFoundedInduction, TLAPS

USE FileAssumption, NoneAssumption

(* The parts of the type invariant.                                         *)
DiskOK ==
    /\ file \in [Paths -> Files \union {None}]
    /\ versions \in [Paths -> {s \in Seq(Content) : Len(s) <= MaxVersions}]
    /\ linked \subseteq Paths
    /\ edits \in 0 .. MaxEdits

ProjectOK ==
    /\ at \in Paths \union {None}
    /\ db \in Content \union {None}
    /\ cache \in Digests
    /\ tracked \in BOOLEAN
    /\ written \subseteq Tables

SaveOK ==
    /\ stage \in Stages
    /\ target \in Paths \union {None}
    /\ moves \in BOOLEAN
    /\ reuse \in Digests
    /\ saving \in Files \union {None}

(* A save has a project to save, and the file it writes has got as far as   *)
(* the save has.                                                            *)
InSave ==
    /\ stage # "idle" => target \in Paths /\ db \in Content
    /\ stage \notin {"idle", "begun"} => saving \in Files
    /\ stage = "copied" => saving.content = db
    /\ stage \in {"finished", "recorded", "flushed"} => saving.content = Normalized(db)
    /\ stage = "flushed" => saving.medium = "flushed"

FilesWhole == \A p \in Paths : Exists(p) => file[p].medium = "flushed"

IInv == TypeOK /\ InSave /\ FilesWhole

-----------------------------------------------------------------------------
(* What the helpers return.                                                 *)

LEMMA TypeParts == TypeOK <=> DiskOK /\ ProjectOK /\ SaveOK
BY DEF TypeOK, DiskOK, ProjectOK, SaveOK

LEMMA NormalizedIsContent ==
    ASSUME NEW c \in Content
    PROVE  /\ Normalized(c) \in Content
           /\ Normalized(Normalized(c)) = Normalized(c)
BY DEF Normalized, Content

LEMMA KeptIsShort ==
    ASSUME NEW h \in Seq(Revision), NEW limit \in Nat
    PROVE  /\ Kept(h, limit) \in Seq(Revision)
           /\ limit = 0 \/ Len(Kept(h, limit)) <= limit
<1>1. Len(h) \in Nat /\ \A i \in 1 .. Len(h) : h[i] \in Revision
  BY LenProperties, ElementOfSeq
<1>2. CASE limit = 0 \/ Len(h) <= limit
  BY <1>2 DEF Kept
<1>3. CASE limit # 0 /\ Len(h) > limit
  <2>1. \A i \in Len(h) - limit + 1 .. Len(h) : h[i] \in Revision
    BY <1>1, <1>3
  <2>2. /\ SubSeq(h, Len(h) - limit + 1, Len(h)) \in Seq(Revision)
        /\ Len(SubSeq(h, Len(h) - limit + 1, Len(h))) = limit
    BY <1>1, <1>3, <2>1, SubSeqProperties
  <2> QED
    BY <1>1, <1>3, <2>2 DEF Kept
<1> QED
  BY <1>1, <1>2, <1>3

LEMMA FirstRevisions ==
    ASSUME NEW h \in Seq(Revision), NEW k \in 1 .. Len(h)
    PROVE  SubSeq(h, 1, k) \in Seq(Revision) /\ Len(SubSeq(h, 1, k)) = k
<1>1. Len(h) \in Nat /\ \A i \in 1 .. k : h[i] \in Revision
  BY LenProperties, ElementOfSeq
<1> QED
  BY <1>1, SubSeqProperties

(* The versions of a path after a save: what it replaces, then what was     *)
(* kept before, as far as there is room.                                    *)
LEMMA TrimmedAdds ==
    ASSUME NEW c \in Content, NEW old \in Seq(Content), Len(old) <= MaxVersions, MaxVersions > 0
    PROVE  LET new == Trimmed(<<c>> \o old)
           IN /\ new \in Seq(Content) /\ Len(new) <= MaxVersions
              /\ Len(new) >= Len(old)
              /\ new[1] = c
              /\ \A i \in 2 .. Len(new) : new[i] = old[i - 1]
<1> DEFINE all == <<c>> \o old
<1>1. /\ all \in Seq(Content) /\ Len(all) = Len(old) + 1 /\ Len(old) \in Nat
      /\ \A i \in 1 .. Len(all) : all[i] = IF i <= 1 THEN c ELSE old[i - 1]
  <2>1. <<c>> \in Seq(Content) /\ Len(<<c>>) = 1 /\ <<c>>[1] = c
    OBVIOUS
  <2> QED
    BY <2>1, ConcatProperties, LenProperties
<1>2. CASE Len(all) <= MaxVersions
  BY <1>1, <1>2 DEF Trimmed
<1>3. CASE Len(all) > MaxVersions
  <2>1. \A i \in 1 .. MaxVersions : all[i] \in Content
    BY <1>1, <1>3, ElementOfSeq
  <2>2. /\ SubSeq(all, 1, MaxVersions) \in Seq(Content)
        /\ Len(SubSeq(all, 1, MaxVersions)) = MaxVersions
        /\ \A i \in 1 .. MaxVersions : SubSeq(all, 1, MaxVersions)[i] = all[i]
    <3>1. 1 \in Int /\ MaxVersions \in Int /\ MaxVersions - 1 + 1 = MaxVersions /\ 1 <= MaxVersions
      OBVIOUS
    <3>2. \A i \in 1 .. MaxVersions : 1 + i - 1 = i
      OBVIOUS
    <3> HIDE DEF all
    <3> QED
      BY <2>1, <3>1, <3>2, SubSeqProperties
  <2>3. Trimmed(all) = SubSeq(all, 1, MaxVersions)
    BY <1>1, <1>3 DEF Trimmed
  <2>4. MaxVersions = Len(old) /\ 1 \in 1 .. MaxVersions
    BY <1>1, <1>3
  <2>5. all[1] = c /\ \A i \in 2 .. MaxVersions : all[i] = old[i - 1]
    BY <1>1, <1>3, <2>4
  <2> HIDE DEF all
  <2>6. /\ Trimmed(all) \in Seq(Content) /\ Len(Trimmed(all)) = MaxVersions
        /\ Trimmed(all)[1] = c
        /\ \A i \in 2 .. Len(Trimmed(all)) : Trimmed(all)[i] = old[i - 1]
    BY <2>2, <2>3, <2>4, <2>5
  <2> QED
    BY <2>4, <2>6 DEF all
<1> QED
  BY <1>1, <1>2, <1>3

LEMMA FileParts ==
    ASSUME NEW f \in Files
    PROVE  /\ f \in File
           /\ f.content \in Content /\ f.digest \in Digests
           /\ f.history \in Seq(Revision) /\ f.limit \in Nat
           /\ f.own \in BOOLEAN /\ f.touched \in BOOLEAN
           /\ f.limit = 0 \/ Len(f.history) <= f.limit
BY DEF Files, File

-----------------------------------------------------------------------------
(* What the steps keep.                                                     *)

LEMMA KeepKeeps ==
    ASSUME DiskOK, NEW p \in Paths, Keep(p)
    PROVE  /\ versions' \in [Paths -> {s \in Seq(Content) : Len(s) <= MaxVersions}]
           /\ linked' \subseteq Paths
<1>1. CASE UNCHANGED <<versions, linked>>
  BY <1>1 DEF DiskOK
<1>2. CASE NewVersion(p) /\ versions' = [versions EXCEPT ![p] = Trimmed(<<file[p].content>> \o @)]
                         /\ linked' \in {linked \union {p}, linked \ {p}}
  <2>1. file[p] \in Files
    BY <1>2 DEF NewVersion, Exists, DiskOK
  <2>2. file[p].content \in Content
    BY <2>1, FileParts
  <2>3. versions[p] \in Seq(Content) /\ Len(versions[p]) <= MaxVersions /\ MaxVersions > 0
    BY <1>2 DEF NewVersion, DiskOK
  <2>4. Trimmed(<<file[p].content>> \o versions[p]) \in {s \in Seq(Content) : Len(s) <= MaxVersions}
    BY <2>2, <2>3, TrimmedAdds
  <2> QED
    BY <1>2, <2>4 DEF DiskOK
<1> QED
  BY <1>1, <1>2 DEF Keep

LEMMA PutKeeps ==
    ASSUME DiskOK, FilesWhole, NEW p \in Paths, NEW f \in Files, f.medium = "flushed", Put(p, f)
    PROVE  DiskOK' /\ FilesWhole'
BY DEF DiskOK, FilesWhole, Put, Exists

LEMMA InitKeeps == Init => IInv
<1> SUFFICES ASSUME Init PROVE IInv
  OBVIOUS
<1>1. << >> \in Seq(Content) /\ Len(<< >>) = 0
  BY EmptySeq
<1>2. DiskOK
  BY <1>1 DEF Init, DiskOK
<1>3. ProjectOK /\ SaveOK
  BY DEF Init, ProjectOK, SaveOK, NoDigests, Digests, Stages
<1>4. InSave /\ FilesWhole
  BY DEF Init, InSave, FilesWhole, Exists
<1> QED
  BY <1>2, <1>3, <1>4, TypeParts DEF IInv

(* What the user does with the project.                                     *)
LEMMA WorkKeeps ==
    ASSUME IInv, (\E t \in Tables, value \in Values : Edit(t, value)) \/ NewProject \/ Close
                 \/ \E p \in Paths : Open(p)
    PROVE  IInv'
<1>1. ASSUME NEW t \in Tables, NEW value \in Values, Edit(t, value) PROVE IInv'
  <2>1. ProjectOK'
    BY <1>1 DEF IInv, TypeOK, ProjectOK, Edit, IsOpen, Content
  <2>2. DiskOK' /\ SaveOK' /\ InSave' /\ FilesWhole'
    BY <1>1 DEF IInv, TypeOK, DiskOK, SaveOK, InSave, FilesWhole, Edit, Idle, Exists, disk, save
  <2> QED
    BY <2>1, <2>2, TypeParts DEF IInv, TypeOK, DiskOK, SaveOK, ProjectOK
<1>2. CASE NewProject
  <2>1. ProjectOK'
    BY <1>2 DEF IInv, TypeOK, ProjectOK, NewProject
  <2>2. stage = "idle"
    BY <1>2 DEF NewProject, IsOpen, IInv, InSave
  <2>3. DiskOK' /\ SaveOK' /\ InSave' /\ FilesWhole'
    BY <1>2, <2>2 DEF IInv, TypeOK, DiskOK, SaveOK, InSave, FilesWhole, NewProject, Exists, disk, save
  <2> QED
    BY <2>1, <2>3 DEF IInv, TypeOK, DiskOK, SaveOK, ProjectOK
<1>3. CASE Close
  <2>1. ProjectOK'
    BY <1>3 DEF Close, Gone, ProjectOK, NoDigests, Digests
  <2>2. DiskOK' /\ SaveOK' /\ InSave' /\ FilesWhole'
    BY <1>3 DEF IInv, TypeOK, DiskOK, SaveOK, InSave, FilesWhole, Close, Idle, Exists, disk, save
  <2> QED
    BY <2>1, <2>2 DEF IInv, TypeOK, DiskOK, SaveOK, ProjectOK
<1>4. ASSUME NEW p \in Paths, Open(p) PROVE IInv'
  <2>1. file[p].content \in Content
    BY <1>4, FileParts DEF Open, Exists, IInv, TypeOK
  <2>2. file[p].content \in Digests
    BY <2>1 DEF Content, Digests
  <2>3. ProjectOK'
    BY <1>4, <2>1, <2>2 DEF IInv, TypeOK, ProjectOK, Open
  <2>4. stage = "idle"
    BY <1>4 DEF Open, IsOpen, IInv, InSave
  <2>5. DiskOK' /\ SaveOK' /\ InSave' /\ FilesWhole'
    BY <1>4, <2>4 DEF IInv, TypeOK, DiskOK, SaveOK, InSave, FilesWhole, Open, Exists, disk, save
  <2> QED
    BY <2>3, <2>5 DEF IInv, TypeOK, DiskOK, SaveOK, ProjectOK
<1> QED
  BY <1>1, <1>2, <1>3, <1>4

(* Nothing a crash could tear is in place.                                  *)
LEMMA CrashKeeps ==
    ASSUME IInv, Crash
    PROVE  IInv' /\ UNCHANGED file
<1>1. file \in [Paths -> Files \union {None}]
  BY DEF IInv, TypeOK
<1>2. UNCHANGED file
  BY <1>1 DEF Crash, IInv, FilesWhole
<1>3. ProjectOK' /\ SaveOK'
  BY DEF Crash, Gone, NoSave, ProjectOK, SaveOK, NoDigests, Digests, Stages
<1>4. DiskOK' /\ InSave' /\ FilesWhole'
  BY <1>2 DEF Crash, NoSave, IInv, TypeOK, DiskOK, InSave, FilesWhole, Exists
<1> QED
  BY <1>2, <1>3, <1>4 DEF IInv, TypeOK, DiskOK, SaveOK, ProjectOK

LEMMA OutsideEditKeeps ==
    ASSUME IInv, NEW p \in Paths, NEW t \in Tables, NEW value \in Outside, OutsideEdit(p, t, value)
    PROVE  IInv'
<1> DEFINE content == [file[p].content EXCEPT ![t] = value]
<1>1. file[p] \in Files /\ file \in [Paths -> Files \union {None}]
  BY DEF OutsideEdit, Exists, IInv, TypeOK
<1>2. content \in Content
  BY <1>1, FileParts DEF Content
<1> HIDE DEF content
<1>3. [file[p] EXCEPT !.content = content, !.own = FALSE, !.touched = TRUE] \in Files
  BY <1>1, <1>2 DEF Files, File
<1>4. file' = [file EXCEPT ![p] = [file[p] EXCEPT !.content = content, !.own = FALSE, !.touched = TRUE]]
  BY DEF OutsideEdit, content
<1>5. FilesWhole' /\ file' \in [Paths -> Files \union {None}]
  <2> DEFINE f == [file[p] EXCEPT !.content = content, !.own = FALSE, !.touched = TRUE]
  <2>1. f.medium = "flushed"
    BY <1>1 DEF IInv, FilesWhole, OutsideEdit, Files, File
  <2> HIDE DEF f
  <2>2. f \in Files /\ file' = [file EXCEPT ![p] = f]
    BY <1>3, <1>4 DEF f
  <2> QED
    BY <1>1, <2>1, <2>2 DEF IInv, FilesWhole, Exists
<1>6. versions' \in [Paths -> {s \in Seq(Content) : Len(s) <= MaxVersions}]
  <2>1. versions[p] \in Seq(Content) /\ Len(versions[p]) <= MaxVersions
    BY DEF IInv, TypeOK
  <2>2. CASE p \notin linked
    BY <2>2 DEF OutsideEdit, IInv, TypeOK
  <2>3. CASE p \in linked
    <3>1. [versions[p] EXCEPT ![1] = content] \in {s \in Seq(Content) : Len(s) <= MaxVersions}
      <4>1. CASE 1 \in 1 .. Len(versions[p])
        BY <1>2, <2>1, <4>1, ExceptSeq
      <4>2. CASE 1 \notin 1 .. Len(versions[p])
        <5>1. [versions[p] EXCEPT ![1] = content] = versions[p]
          BY <2>1, <4>2, LenProperties
        <5> QED
          BY <2>1, <5>1
      <4> QED
        BY <4>1, <4>2
    <3>2. versions' = [versions EXCEPT ![p] = [versions[p] EXCEPT ![1] = content]]
      BY <2>3 DEF OutsideEdit, content
    <3> QED
      BY <3>1, <3>2 DEF IInv, TypeOK
  <2> QED
    BY <2>2, <2>3
<1>7. edits' \in 0 .. MaxEdits /\ linked' \subseteq Paths
  BY DEF OutsideEdit, IInv, TypeOK
<1>8. ProjectOK' /\ SaveOK' /\ InSave'
  BY DEF OutsideEdit, Idle, IInv, TypeOK, ProjectOK, SaveOK, InSave, project, save
<1> QED
  BY <1>5, <1>6, <1>7, <1>8, TypeParts DEF IInv, TypeOK, DiskOK, SaveOK, ProjectOK

(* The steps of a save.                                                     *)
LEMMA BeginKeeps ==
    ASSUME IInv, NEW p \in Paths, NEW itsOwn \in BOOLEAN, Begin(p, itsOwn)
    PROVE  IInv'
<1>1. DiskOK' /\ FilesWhole'
  <2>1. CASE itsOwn
    BY <2>1, KeepKeeps, TypeParts DEF Begin, IInv, DiskOK, FilesWhole, Exists
  <2>2. CASE ~itsOwn
    BY <2>2, TypeParts DEF Begin, IInv, DiskOK, FilesWhole, Exists
  <2> QED
    BY <2>1, <2>2
<1>2. ProjectOK' /\ SaveOK' /\ InSave'
  BY DEF Begin, IsOpen, IInv, TypeOK, ProjectOK, SaveOK, InSave, Stages, project
<1> QED
  BY <1>1, <1>2 DEF IInv, TypeOK, DiskOK, ProjectOK, SaveOK

LEMMA CopyKeeps ==
    ASSUME IInv, Copy
    PROVE  IInv'
<1>1. db \in Content
  BY DEF Copy, IInv, InSave
<1>2. NewFile \in Files
  <2>1. << >> \in Seq(Revision) /\ Len(<< >>) = 0
    BY EmptySeq
  <2>2. NoDigests \in Digests
    BY DEF NoDigests, Digests
  <2> QED
    BY <1>1, <2>1, <2>2 DEF NewFile, Files, File
<1>3. NewFile.content = db
  BY DEF NewFile
<1>4. Unchanged \in Digests
  BY DEF Unchanged, Digests, IInv, TypeOK
<1>5. ProjectOK' /\ SaveOK' /\ InSave'
  BY <1>1, <1>2, <1>3, <1>4 DEF Copy, IInv, TypeOK, ProjectOK, SaveOK, InSave, Stages
<1>6. DiskOK' /\ FilesWhole'
  BY DEF Copy, disk, IInv, TypeOK, DiskOK, FilesWhole, Exists
<1> QED
  BY <1>5, <1>6 DEF IInv, TypeOK, DiskOK, ProjectOK, SaveOK

LEMMA FinishKeeps ==
    ASSUME IInv, Finish
    PROVE  IInv'
<1> DEFINE content == Normalized(saving.content)
           digest == [t \in Tables |-> IF reuse[t] # None THEN reuse[t] ELSE content[t]]
<1>1. saving \in Files /\ db \in Content /\ saving.content = db
  BY DEF Finish, IInv, InSave
<1>2. content \in Content
  BY <1>1, NormalizedIsContent
<1>3. digest \in Digests
  BY <1>2 DEF Digests, Content, IInv, TypeOK
<1>4. saving' = [saving EXCEPT !.content = content, !.digest = digest]
  BY DEF Finish
<1>5. content = Normalized(db)
  BY <1>1
<1> HIDE DEF content, digest
<1>6. saving' \in Files /\ saving'.content = content
  BY <1>1, <1>2, <1>3, <1>4 DEF Files, File
<1>7. ProjectOK' /\ SaveOK' /\ InSave'
  BY <1>1, <1>5, <1>6
     DEF Finish, project, IInv, TypeOK, ProjectOK, SaveOK, InSave, Stages, Normalized
<1>8. DiskOK' /\ FilesWhole'
  BY DEF Finish, disk, IInv, TypeOK, DiskOK, FilesWhole, Exists
<1> QED
  BY <1>7, <1>8 DEF IInv, TypeOK, DiskOK, ProjectOK, SaveOK

(* The history that goes on leaves the content of the new file alone.       *)
LEMMA RecordWrites ==
    ASSUME IInv, Record
    PROVE  /\ saving' \in Files
           /\ saving'.content = saving.content /\ saving'.digest = saving.digest
           /\ saving'.own = saving.own
<1>1. saving \in Files /\ saving.content \in Content /\ saving.digest \in Digests
  BY FileParts DEF Record, IInv, InSave
<1>2. CASE UNCHANGED saving
  BY <1>1, <1>2
<1>3. ASSUME Exists(Previous),
             NEW changes \in {[from |-> file[Previous].content, to |-> saving.content], None},
             saving' = [saving EXCEPT
                 !.history = Kept(Append(file[Previous].history,
                                         [digest |-> saving.digest, changes |-> changes]),
                                  file[Previous].limit),
                 !.limit = file[Previous].limit,
                 !.touched = file[Previous].touched]
      PROVE  /\ saving' \in Files
             /\ saving'.content = saving.content /\ saving'.digest = saving.digest
             /\ saving'.own = saving.own
  <2> DEFINE before == file[Previous]
             revision == [digest |-> saving.digest, changes |-> changes]
             history == Kept(Append(before.history, revision), before.limit)
  <2>1. before \in Files
    <3>1. Previous \in Paths
      BY DEF Previous, Record, IInv, InSave, TypeOK
    <3> QED
      BY <3>1, <1>3 DEF Exists, IInv, TypeOK
  <2>2. /\ before.content \in Content /\ before.history \in Seq(Revision)
        /\ before.limit \in Nat /\ before.touched \in BOOLEAN
    BY <2>1, FileParts
  <2>3. revision \in Revision
    BY <1>1, <2>2 DEF Revision, Changes
  <2> HIDE DEF revision, before
  <2>4. Append(before.history, revision) \in Seq(Revision)
    BY <2>2, <2>3
  <2>5. /\ history \in Seq(Revision)
        /\ before.limit = 0 \/ Len(history) <= before.limit
    BY <2>2, <2>4, KeptIsShort
  <2>6. saving' = [saving EXCEPT !.history = history, !.limit = before.limit,
                                 !.touched = before.touched]
    BY <1>3 DEF before, revision
  <2> HIDE DEF history
  <2> QED
    BY <1>1, <2>2, <2>5, <2>6 DEF Files, File
<1> QED
  BY <1>2, <1>3 DEF Record

LEMMA RecordKeeps ==
    ASSUME IInv, Record
    PROVE  IInv'
<1>1. ProjectOK' /\ SaveOK' /\ InSave'
  BY RecordWrites
     DEF Record, project, IInv, TypeOK, ProjectOK, SaveOK, InSave, Stages, Normalized
<1>2. DiskOK' /\ FilesWhole'
  BY DEF Record, disk, IInv, TypeOK, DiskOK, FilesWhole, Exists
<1> QED
  BY <1>1, <1>2 DEF IInv, TypeOK, DiskOK, ProjectOK, SaveOK

LEMMA FlushKeeps ==
    ASSUME IInv, Flush
    PROVE  IInv'
<1>1. saving \in Files
  BY DEF Flush, IInv, InSave
<1>2. /\ saving' \in Files
      /\ saving'.content = saving.content /\ saving'.medium = "flushed"
  BY <1>1 DEF Flush, Files, File
<1>3. ProjectOK' /\ SaveOK' /\ InSave'
  BY <1>2 DEF Flush, project, IInv, TypeOK, ProjectOK, SaveOK, InSave, Stages, Normalized
<1>4. DiskOK' /\ FilesWhole'
  BY DEF Flush, disk, IInv, TypeOK, DiskOK, FilesWhole, Exists
<1> QED
  BY <1>3, <1>4 DEF IInv, TypeOK, DiskOK, ProjectOK, SaveOK

LEMMA ReplaceKeeps ==
    ASSUME IInv, Replace
    PROVE  IInv'
<1>1. /\ saving \in Files /\ saving.medium = "flushed" /\ target \in Paths
      /\ saving.digest \in Digests
  BY FileParts DEF Replace, IInv, InSave
<1>2. DiskOK' /\ FilesWhole'
  BY <1>1, PutKeeps, TypeParts DEF Replace, IInv
<1>3. ProjectOK' /\ SaveOK' /\ InSave'
  BY <1>1 DEF Replace, NoSave, NoDigests, Digests, IInv, TypeOK, ProjectOK, SaveOK, InSave, Stages
<1> QED
  BY <1>2, <1>3 DEF IInv, TypeOK, DiskOK, ProjectOK, SaveOK

LEMMA GiveUpKeeps ==
    ASSUME IInv, GiveUp
    PROVE  IInv'
<1>1. SaveOK' /\ InSave'
  BY DEF GiveUp, NoSave, NoDigests, Digests, SaveOK, InSave, Stages
<1>2. DiskOK' /\ ProjectOK' /\ FilesWhole'
  BY DEF GiveUp, disk, project, IInv, TypeOK, DiskOK, ProjectOK, FilesWhole, Exists
<1> QED
  BY <1>1, <1>2 DEF IInv, TypeOK, DiskOK, ProjectOK, SaveOK

(* The commands on files: each puts a whole file in place, of the content   *)
(* it was made of.                                                          *)
Puts(p, f) == f \in Files /\ f.medium = "flushed" /\ Put(p, f)

LEMMA WholeIsFlushed ==
    ASSUME NEW f \in Files
    PROVE  /\ Whole(f) \in Files /\ Whole(f).medium = "flushed"
           /\ Whole(f).content = f.content /\ Whole(f).digest = f.digest
           /\ Whole(f).own = f.own /\ Whole(f).limit = f.limit /\ Whole(f).history = f.history
BY DEF Whole, Files, File

LEMMA SetHistoryPuts ==
    ASSUME IInv, NEW p \in Paths, NEW on \in BOOLEAN, SetHistory(p, on)
    PROVE  \E f : /\ Puts(p, f)
                  /\ f.content = file[p].content /\ f.digest = file[p].digest
                  /\ f.own = file[p].own
<1> DEFINE began == [digest |-> file[p].digest, changes |-> None]
           history == IF on THEN <<began>> ELSE << >>
           f == [Whole(file[p]) EXCEPT !.history = history, !.limit = 0, !.touched = ~file[p].own]
<1>1. file[p] \in Files
  BY DEF SetHistory, Exists, IInv, TypeOK
<1>2. CASE on /\ file[p].history # << >>
  <2>1. Put(p, Whole(file[p]))
    BY <1>2 DEF SetHistory
  <2> QED
    BY <1>1, <2>1, WholeIsFlushed DEF Puts
<1>3. CASE ~(on /\ file[p].history # << >>)
  <2>1. Put(p, f)
    BY <1>3 DEF SetHistory
  <2>2. history \in Seq(Revision)
    <3>1. began \in Revision
      BY <1>1, FileParts DEF Revision
    <3>2. <<began>> \in Seq(Revision)
      BY <3>1
    <3> QED
      BY <3>2, EmptySeq
  <2> HIDE DEF history
  <2>3. /\ f \in Files /\ f.medium = "flushed"
        /\ f.content = file[p].content /\ f.digest = file[p].digest /\ f.own = file[p].own
    BY <1>1, <2>2 DEF Whole, Files, File
  <2> QED
    BY <2>1, <2>3 DEF Puts
<1> QED
  BY <1>2, <1>3

LEMMA SetHistoryLimitPuts ==
    ASSUME IInv, NEW p \in Paths, NEW limit \in Limits, SetHistoryLimit(p, limit)
    PROVE  \E f : /\ Puts(p, f)
                  /\ f.content = file[p].content /\ f.digest = file[p].digest
                  /\ f.own = file[p].own
<1> DEFINE history == Kept(file[p].history, limit)
           f == [Whole(file[p]) EXCEPT !.history = history, !.limit = limit]
<1>1. file[p] \in Files /\ limit \in Nat
  BY DEF SetHistoryLimit, Exists, IInv, TypeOK
<1>2. /\ history \in Seq(Revision)
      /\ limit = 0 \/ Len(history) <= limit
  BY <1>1, FileParts, KeptIsShort
<1>3. Put(p, f)
  <2>1. Whole(file[p]).history = file[p].history
    BY <1>1, WholeIsFlushed
  <2>2. Put(p, [Whole(file[p]) EXCEPT !.history = Kept(Whole(file[p]).history, limit), !.limit = limit])
    BY DEF SetHistoryLimit
  <2> QED
    BY <2>1, <2>2
<1> HIDE DEF history
<1>4. /\ f \in Files /\ f.medium = "flushed"
      /\ f.content = file[p].content /\ f.digest = file[p].digest /\ f.own = file[p].own
  BY <1>1, <1>2 DEF Whole, Files, File
<1> QED
  BY <1>3, <1>4 DEF Puts

LEMMA ExportDeliveryPuts ==
    ASSUME IInv, NEW p \in Paths, NEW output \in Paths, ExportDelivery(p, output)
    PROVE  /\ output # at /\ Exists(p)
           /\ \E f : /\ Puts(output, f)
                     /\ f.content = file[p].content /\ f.digest = file[p].digest
                     /\ f.own = file[p].own
<1> DEFINE f == [Whole(file[p]) EXCEPT !.history = << >>, !.limit = 0, !.touched = ~file[p].own]
<1>1. file[p] \in Files
  BY DEF ExportDelivery, Exists, IInv, TypeOK
<1>2. << >> \in Seq(Revision)
  BY EmptySeq
<1>3. /\ f \in Files /\ f.medium = "flushed"
      /\ f.content = file[p].content /\ f.digest = file[p].digest /\ f.own = file[p].own
  BY <1>1, <1>2 DEF Whole, Files, File
<1>4. Put(output, f) /\ output # at /\ Exists(p)
  BY DEF ExportDelivery
<1> QED
  BY <1>3, <1>4 DEF Puts

LEMMA WriteRevisionPuts ==
    ASSUME IInv, NEW p \in Paths, NEW output \in Paths, NEW k, WriteRevision(p, k, output)
    PROVE  /\ output # at
           /\ \E f : /\ Puts(output, f)
                     /\ f.digest = f.content /\ Normalized(f.content) = f.content
<1> DEFINE content == Normalized(WindBack(file[p], k))
           history == SubSeq(file[p].history, 1, k)
           f == [Whole(file[p]) EXCEPT !.content = content, !.digest = content, !.own = TRUE,
                                       !.history = history]
<1>1. file[p] \in Files
  BY DEF WriteRevision, Exists, IInv, TypeOK
<1>2. k \in 1 .. Len(file[p].history) /\ Len(file[p].history) \in Nat
  BY <1>1, FileParts, LenProperties DEF WriteRevision
<1>3. content \in Content /\ Normalized(content) = content
  BY NormalizedIsContent DEF WriteRevision
<1>4. content \in Digests
  BY <1>3 DEF Content, Digests
<1>5. history \in Seq(Revision) /\ Len(history) = k
  BY <1>1, <1>2, FileParts, FirstRevisions
<1>6. file[p].limit = 0 \/ k <= file[p].limit
  BY <1>1, <1>2, FileParts
<1>7. Put(output, f) /\ output # at
  <2>1. Whole(file[p]).history = file[p].history
    BY <1>1, WholeIsFlushed
  <2>2. Put(output, [Whole(file[p]) EXCEPT
            !.content = content, !.digest = content, !.own = TRUE,
            !.history = SubSeq(Whole(file[p]).history, 1, k)])
    BY DEF WriteRevision
  <2> QED
    BY <2>1, <2>2 DEF WriteRevision
<1> HIDE DEF content, history
<1>8. /\ f \in Files /\ f.medium = "flushed"
      /\ f.digest = f.content /\ Normalized(f.content) = f.content
  BY <1>1, <1>3, <1>4, <1>5, <1>6 DEF Whole, Files, File
<1> QED
  BY <1>7, <1>8 DEF Puts

LEMMA CommandsKeep ==
    ASSUME IInv, NEW p \in Paths, Commands(p)
    PROVE  IInv'
<1>1. ASSUME NEW q \in Paths, NEW f, Puts(q, f), Idle, UNCHANGED <<project, save>> PROVE IInv'
  <2>1. DiskOK' /\ FilesWhole'
    BY <1>1, PutKeeps, TypeParts DEF IInv, Puts
  <2>2. ProjectOK' /\ SaveOK' /\ InSave'
    BY <1>1 DEF IInv, TypeOK, ProjectOK, SaveOK, InSave, Idle, project, save
  <2> QED
    BY <2>1, <2>2 DEF IInv, TypeOK, DiskOK, ProjectOK, SaveOK
<1>2. ASSUME NEW on \in BOOLEAN, SetHistory(p, on) PROVE IInv'
  BY <1>1, <1>2, SetHistoryPuts DEF SetHistory
<1>3. ASSUME NEW limit \in Limits, SetHistoryLimit(p, limit) PROVE IInv'
  BY <1>1, <1>3, SetHistoryLimitPuts DEF SetHistoryLimit
<1>4. ASSUME NEW output \in Paths, ExportDelivery(p, output) PROVE IInv'
  BY <1>1, <1>4, ExportDeliveryPuts DEF ExportDelivery
<1>5. ASSUME NEW output \in Paths, NEW k \in 1 .. MaxRevisions, WriteRevision(p, k, output)
      PROVE  IInv'
  BY <1>1, <1>5, WriteRevisionPuts DEF WriteRevision
<1> QED
  BY <1>2, <1>3, <1>4, <1>5 DEF Commands

LEMMA NextKeeps ==
    ASSUME IInv, [Next]_vars
    PROVE  IInv'
<1>1. CASE \/ \E t \in Tables, value \in Values : Edit(t, value)
           \/ NewProject \/ Close \/ \E p \in Paths : Open(p)
  BY <1>1, WorkKeeps
<1>2. CASE Crash
  BY <1>2, CrashKeeps
<1>3. ASSUME NEW p \in Paths, NEW itsOwn \in BOOLEAN, Begin(p, itsOwn) PROVE IInv'
  BY <1>3, BeginKeeps
<1>4. CASE SaveStep
  BY <1>4, CopyKeeps, FinishKeeps, RecordKeeps, FlushKeeps, ReplaceKeeps, GiveUpKeeps DEF SaveStep
<1>5. ASSUME NEW p \in Paths, Commands(p) PROVE IInv'
  BY <1>5, CommandsKeep
<1>6. ASSUME NEW p \in Paths, NEW t \in Tables, NEW value \in Outside, OutsideEdit(p, t, value)
      PROVE  IInv'
  BY <1>6, OutsideEditKeeps
<1>7. CASE UNCHANGED vars
  BY <1>7 DEF vars, disk, project, save, IInv, TypeOK, InSave, FilesWhole, Exists
<1> QED
  BY <1>1, <1>2, <1>3, <1>4, <1>5, <1>6, <1>7 DEF Next

LEMMA FilesAreWhole == Spec => []IInv
<1>1. IInv /\ [Next]_vars => IInv'
  BY NextKeeps
<1> QED
  BY <1>1, InitKeeps, PTL DEF Spec

-----------------------------------------------------------------------------
(* The digests.                                                             *)

(* Other programs leave the tables as a save would.                         *)
Tidy == \A v \in Outside : Normal[v] = v

(* A digest that is kept is that of what the table is saved as, unless the  *)
(* table was written to since; so is the digest of a file.                  *)
DigestsRight ==
    /\ \A t \in Tables : cache[t] # None /\ t \notin written =>
           tracked /\ db \in Content /\ cache[t] = Normal[db[t]]
    /\ stage \notin {"idle", "begun"} => tracked
    /\ stage = "copied" => \A t \in Tables : reuse[t] # None => reuse[t] = Normal[db[t]]
    /\ stage \in {"finished", "recorded", "flushed"} => saving.digest = saving.content

FilesRight ==
    \A p \in Paths : Exists(p) =>
        /\ Normalized(file[p].content) = file[p].content
        /\ file[p].own => file[p].digest = file[p].content

RInv == DigestsRight /\ FilesRight

LEMMA PutRight ==
    ASSUME IInv, FilesRight, NEW p \in Paths, NEW f, Puts(p, f),
           Normalized(f.content) = f.content, f.own => f.digest = f.content
    PROVE  FilesRight'
BY DEF IInv, TypeOK, FilesRight, Puts, Put, Exists, Normalized

LEMMA WorkRight ==
    ASSUME IInv, RInv, (\E t \in Tables, value \in Values : Edit(t, value)) \/ NewProject \/ Close
                       \/ \E p \in Paths : Open(p)
    PROVE  RInv'
<1>1. UNCHANGED <<disk, save>>
  BY DEF Edit, NewProject, Close, Open
<1>2. FilesRight'
  BY <1>1 DEF RInv, FilesRight, Exists, disk, Normalized
<1>3. stage = "idle"
  BY DEF Edit, NewProject, Close, Open, Idle, IsOpen, IInv, InSave
<1>4. stage' = "idle"
  BY <1>1, <1>3 DEF save
<1>5. ASSUME NEW t \in Tables, NEW value \in Values, Edit(t, value) PROVE DigestsRight'
  BY <1>1, <1>3, <1>5 DEF Edit, IsOpen, save, IInv, TypeOK, RInv, DigestsRight, Content, Digests
<1>6. CASE NewProject
  <2>1. \A t \in Tables : ~(cache[t] # None /\ t \notin written)
    BY <1>6 DEF NewProject, IsOpen, RInv, DigestsRight
  <2> QED
    BY <1>2, <1>6, <1>4, <2>1 DEF NewProject, RInv, DigestsRight
<1>7. CASE Close
  <2>1. \A t \in Tables : cache'[t] = None
    BY <1>7 DEF Close, Gone, NoDigests
  <2> QED
    BY <1>2, <1>4, <2>1 DEF RInv, DigestsRight
<1>8. ASSUME NEW p \in Paths, Open(p) PROVE DigestsRight'
  <2>1. file[p].content \in Content /\ Normalized(file[p].content) = file[p].content
    BY <1>8, FileParts DEF Open, Exists, IInv, TypeOK, RInv, FilesRight
  <2>2. \A t \in Tables : ~(cache[t] # None /\ t \notin written)
    BY <1>8 DEF Open, IsOpen, RInv, DigestsRight
  <2>3. CASE cache' = file[p].content /\ tracked' = TRUE
    BY <1>1, <1>3, <1>8, <2>1, <2>3 DEF Open, save, DigestsRight, Normalized
  <2>4. CASE UNCHANGED <<cache, tracked>>
    BY <1>1, <1>3, <1>8, <2>2, <2>4 DEF Open, save, DigestsRight
  <2> QED
    BY <1>8, <2>3, <2>4 DEF Open
<1> QED
  BY <1>2, <1>5, <1>6, <1>7, <1>8 DEF RInv

LEMMA SaveRight ==
    ASSUME IInv, RInv, SaveStep
    PROVE  RInv'
<1>1. CASE Copy
  BY <1>1 DEF Copy, disk, Unchanged, IInv, TypeOK, InSave, RInv, DigestsRight, FilesRight, Exists,
              Normalized
<1>2. CASE Finish
  <2> DEFINE content == Normalized(saving.content)
             digest == [t \in Tables |-> IF reuse[t] # None THEN reuse[t] ELSE content[t]]
  <2>1. saving \in Files /\ saving.content = db /\ db \in Content
    BY <1>2 DEF Finish, IInv, InSave
  <2>2. \A t \in Tables : digest[t] = content[t]
    BY <1>2, <2>1 DEF Finish, RInv, DigestsRight, Normalized
  <2>3. content = [t \in Tables |-> Normal[saving.content[t]]]
    BY DEF Normalized
  <2>4. digest = content
    BY <2>2, <2>3
  <2>5. saving' = [saving EXCEPT !.content = content, !.digest = digest]
    BY <1>2 DEF Finish
  <2> HIDE DEF content, digest
  <2>6. saving'.digest = saving'.content
    BY <2>1, <2>4, <2>5 DEF Files, File
  <2> QED
    BY <1>2, <2>6 DEF Finish, disk, project, RInv, DigestsRight, FilesRight, Exists, Normalized
<1>3. CASE Record
  <2>1. saving'.digest = saving.digest /\ saving'.content = saving.content
    BY <1>3, RecordWrites
  <2> QED
    BY <1>3, <2>1 DEF Record, disk, project, RInv, DigestsRight, FilesRight, Exists, Normalized
<1>4. CASE Flush
  <2>1. saving'.digest = saving.digest /\ saving'.content = saving.content
    BY <1>4 DEF Flush, IInv, InSave, Files, File
  <2> QED
    BY <1>4, <2>1 DEF Flush, disk, project, RInv, DigestsRight, FilesRight, Exists, Normalized
<1>5. CASE Replace
  <2>1. /\ saving \in Files /\ saving.medium = "flushed" /\ target \in Paths
        /\ db \in Content /\ saving.content = Normalized(db)
        /\ saving.digest = saving.content /\ tracked
    BY <1>5 DEF Replace, IInv, InSave, RInv, DigestsRight
  <2>2. Normalized(saving.content) = saving.content
    BY <2>1, NormalizedIsContent
  <2>3. FilesRight'
    BY <1>5, <2>1, <2>2, PutRight DEF Replace, Puts, RInv
  <2>4. DigestsRight'
    BY <1>5, <2>1 DEF Replace, NoSave, DigestsRight, Normalized
  <2> QED
    BY <2>3, <2>4 DEF RInv
<1>6. CASE GiveUp
  BY <1>6 DEF GiveUp, NoSave, disk, project, RInv, DigestsRight, FilesRight, Exists, Normalized
<1> QED
  BY <1>1, <1>2, <1>3, <1>4, <1>5, <1>6 DEF SaveStep

LEMMA CommandsRight ==
    ASSUME IInv, RInv, NEW p \in Paths, Commands(p)
    PROVE  RInv'
<1>1. ASSUME UNCHANGED <<project, save>> PROVE DigestsRight'
  BY <1>1 DEF project, save, RInv, DigestsRight
<1>2. ASSUME NEW q \in Paths, NEW f, Puts(q, f), Exists(p),
             f.content = file[p].content, f.digest = file[p].digest, f.own = file[p].own
      PROVE  FilesRight'
  BY <1>2, PutRight DEF RInv, FilesRight
<1>3. ASSUME NEW on \in BOOLEAN, SetHistory(p, on) PROVE RInv'
  BY <1>1, <1>2, <1>3, SetHistoryPuts DEF SetHistory, RInv
<1>4. ASSUME NEW limit \in Limits, SetHistoryLimit(p, limit) PROVE RInv'
  BY <1>1, <1>2, <1>4, SetHistoryLimitPuts DEF SetHistoryLimit, RInv
<1>5. ASSUME NEW output \in Paths, ExportDelivery(p, output) PROVE RInv'
  BY <1>1, <1>2, <1>5, ExportDeliveryPuts DEF ExportDelivery, RInv
<1>6. ASSUME NEW output \in Paths, NEW k \in 1 .. MaxRevisions, WriteRevision(p, k, output)
      PROVE  RInv'
  BY <1>1, <1>6, WriteRevisionPuts, PutRight DEF WriteRevision, RInv
<1> QED
  BY <1>3, <1>4, <1>5, <1>6 DEF Commands

LEMMA OutsideEditRight ==
    ASSUME Tidy, IInv, RInv, NEW p \in Paths, NEW t \in Tables, NEW value \in Outside,
           OutsideEdit(p, t, value)
    PROVE  RInv'
<1> DEFINE content == [file[p].content EXCEPT ![t] = value]
           f == [file[p] EXCEPT !.content = content, !.own = FALSE, !.touched = TRUE]
<1>1. file[p] \in Files /\ Normalized(file[p].content) = file[p].content
  BY DEF OutsideEdit, Exists, IInv, TypeOK, RInv, FilesRight
<1>2. file[p].content \in [Tables -> Values] /\ value \in Values /\ Normal[value] = value
  BY <1>1, FileParts DEF Content, Tidy
<1>3. Normalized(content) = content
  <2>1. \A u \in Tables : Normal[file[p].content[u]] = file[p].content[u]
    BY <1>1, <1>2 DEF Normalized
  <2>2. \A u \in Tables : Normal[content[u]] = content[u]
    BY <1>2, <2>1
  <2>3. content \in [Tables -> Values]
    BY <1>2
  <2> HIDE DEF content
  <2> QED
    BY <2>2, <2>3 DEF Normalized
<1>4. file' = [file EXCEPT ![p] = f]
  BY DEF OutsideEdit
<1> HIDE DEF content
<1>5. f.content = content /\ ~f.own
  BY <1>1 DEF Files, File
<1> HIDE DEF f
<1>6. FilesRight'
  BY <1>3, <1>4, <1>5 DEF RInv, FilesRight, Exists, IInv, TypeOK, Normalized
<1>7. DigestsRight'
  BY DEF OutsideEdit, project, save, RInv, DigestsRight
<1> QED
  BY <1>6, <1>7 DEF RInv

LEMMA NextRight ==
    ASSUME Tidy, IInv, RInv, [Next]_vars
    PROVE  RInv'
<1>1. CASE \/ \E t \in Tables, value \in Values : Edit(t, value)
           \/ NewProject \/ Close \/ \E p \in Paths : Open(p)
  BY <1>1, WorkRight
<1>2. CASE Crash
  <2>1. UNCHANGED file
    BY <1>2, CrashKeeps
  <2> QED
    BY <1>2, <2>1 DEF Crash, Gone, NoSave, NoDigests, RInv, DigestsRight, FilesRight, Exists,
                      Normalized
<1>3. ASSUME NEW p \in Paths, NEW itsOwn \in BOOLEAN, Begin(p, itsOwn) PROVE RInv'
  BY <1>3 DEF Begin, project, RInv, DigestsRight, FilesRight, Exists, Normalized
<1>4. CASE SaveStep
  BY <1>4, SaveRight
<1>5. ASSUME NEW p \in Paths, Commands(p) PROVE RInv'
  BY <1>5, CommandsRight
<1>6. ASSUME NEW p \in Paths, NEW t \in Tables, NEW value \in Outside, OutsideEdit(p, t, value)
      PROVE  RInv'
  BY <1>6, OutsideEditRight
<1>7. CASE UNCHANGED vars
  BY <1>7 DEF vars, disk, project, save, RInv, DigestsRight, FilesRight, Exists, Normalized
<1> QED
  BY <1>1, <1>2, <1>3, <1>4, <1>5, <1>6, <1>7 DEF Next

-----------------------------------------------------------------------------

(* The variables have their types; a history is no longer than it may be.   *)
THEOREM TypeCorrect == Spec => []TypeOK
BY FilesAreWhole, PTL DEF IInv

(* A file this program wrote is whole and its digest that of its content,   *)
(* as long as other programs leave the rows as a save does.                 *)
THEOREM OpensAsSaved == Tidy => (Spec => []OpensAgain)
<1>1. Init => RInv
  BY DEF Init, RInv, DigestsRight, FilesRight, Exists, NoDigests
<1>2. Tidy /\ IInv /\ RInv /\ [Next]_vars => RInv'
  BY NextRight
<1>3. IInv /\ RInv => OpensAgain
  BY DEF IInv, FilesWhole, RInv, FilesRight, OpensAgain
<1>4. ASSUME Tidy PROVE Spec => []OpensAgain
  <2>1. IInv /\ RInv /\ [Next]_vars => RInv'
    BY <1>2, <1>4
  <2> QED
    BY <1>1, <1>3, <2>1, FilesAreWhole, PTL DEF Spec
<1> QED
  BY <1>4

(* A save adds the file it replaces to the previous versions, and changes   *)
(* none of them.                                                            *)
THEOREM VersionsAreKept == Spec => VersionsStay
<1> DEFINE Step(p) == \/ edits' # edits
                      \/ /\ Exists(p) /\ versions'[p][1] = file[p].content
                         /\ \A i \in 2 .. Len(versions'[p]) : versions'[p][i] = versions[p][i - 1]
                         /\ Len(versions'[p]) >= Len(versions[p])
<1>1. ASSUME IInv, [Next]_vars, NEW p \in Paths, versions'[p] # versions[p] PROVE Step(p)
  <2>1. ASSUME NEW q \in Paths, Keep(q) PROVE Step(p)
    <3>1. /\ q = p /\ NewVersion(p)
          /\ versions'[p] = Trimmed(<<file[p].content>> \o versions[p])
      BY <1>1, <2>1 DEF Keep, IInv, TypeOK
    <3>2. file[p] \in Files /\ MaxVersions > 0 /\ Exists(p)
      BY <1>1, <3>1 DEF NewVersion, Exists, IInv, TypeOK
    <3>3. versions[p] \in Seq(Content) /\ Len(versions[p]) <= MaxVersions
      BY <1>1 DEF IInv, TypeOK
    <3> QED
      BY <3>1, <3>2, <3>3, FileParts, TrimmedAdds
  <2>2. ASSUME NEW q \in Paths, NEW itsOwn \in BOOLEAN, Begin(q, itsOwn) PROVE Step(p)
    BY <1>1, <2>1, <2>2 DEF Begin
  <2>3. ASSUME NEW q \in Paths, NEW t \in Tables, NEW value \in Outside, OutsideEdit(q, t, value)
        PROVE  Step(p)
    BY <1>1, <2>3 DEF OutsideEdit, IInv, TypeOK
  <2>4. UNCHANGED versions \/ (\E q \in Paths, itsOwn \in BOOLEAN : Begin(q, itsOwn))
            \/ \E q \in Paths, t \in Tables, value \in Outside : OutsideEdit(q, t, value)
    BY <1>1 DEF Next, Edit, NewProject, Close, Crash, Open, SaveStep, Copy, Finish, Record, Flush,
                Replace, GiveUp, Commands, SetHistory, SetHistoryLimit, ExportDelivery,
                WriteRevision, Put, vars, disk
  <2> QED
    BY <1>1, <2>2, <2>3, <2>4
<1>2. IInv /\ [Next]_vars => [\A p \in Paths : versions'[p] # versions[p] => Step(p)]_vars
  BY <1>1
<1> QED
  BY <1>2, FilesAreWhole, PTL DEF Spec, VersionsStay

(* Whatever step fails and whenever the program or the power does, a path   *)
(* goes from one whole file to the next, which is what the project holds.   *)
THEOREM SavesAreWhole == Spec => WholeOrNothing
<1> DEFINE there == [p \in Paths |-> IF Exists(p) /\ file[p].medium # "torn"
                                     THEN file[p].content ELSE None]
<1>1. Init => Promise!Init
  BY DEF Init, Promise!Init, Exists
<1>2. ASSUME IInv, [Next]_vars PROVE [Promise!Next]_(Promise!vars)
  <2>1. /\ file \in [Paths -> Files \union {None}] /\ db \in Content \union {None}
        /\ edits \in Nat /\ None \notin Content
    BY <1>2 DEF IInv, TypeOK
  <2>2. \A p \in Paths : there[p] = IF Exists(p) THEN file[p].content ELSE None
    BY <1>2 DEF IInv, FilesWhole
  <2>3. ASSUME UNCHANGED file PROVE there' = there
    BY <2>3 DEF Exists
  <2>4. ASSUME NEW p \in Paths, NEW f, Puts(p, f)
        PROVE  /\ there' = [there EXCEPT ![p] = f.content]
               /\ f.content \in Content /\ UNCHANGED edits
    <3>1. file' = [file EXCEPT ![p] = f] /\ UNCHANGED edits /\ f.medium # "torn"
      BY <2>4 DEF Puts, Put
    <3>2. f.content \in Content
      BY <2>4, FileParts DEF Puts
    <3>3. f # None
      BY <2>4 DEF Puts
    <3> QED
      BY <2>1, <3>1, <3>2, <3>3 DEF Exists
  <2>5. ASSUME NEW t \in Tables, NEW value \in Values, Edit(t, value) PROVE Promise!Work
    <3>1. db \in Content /\ db' \in Content
      BY <2>1, <2>5 DEF Edit, IsOpen, Content
    <3> QED
      BY <2>1, <2>3, <2>5, <3>1 DEF Edit, disk, Promise!Work
  <2>6. CASE NewProject
    <3>1. Promise!New
      BY <2>3, <2>6 DEF NewProject, IsOpen, disk, Promise!New
    <3> QED
      BY <3>1 DEF Promise!Next
  <2>7. CASE Close
    <3>1. Promise!Leave
      BY <2>3, <2>7 DEF Close, Gone, disk, Promise!Leave
    <3> QED
      BY <3>1 DEF Promise!Next
  <2>8. CASE Crash
    <3>1. UNCHANGED file
      BY <1>2, <2>8, CrashKeeps
    <3>2. Promise!Leave
      BY <2>3, <2>8, <3>1 DEF Crash, Gone, Promise!Leave
    <3> QED
      BY <3>2 DEF Promise!Next
  <2>9. ASSUME NEW p \in Paths, Open(p) PROVE Promise!Open(p)
    <3>1. there[p] = file[p].content /\ file[p].content \in Content
      BY <2>1, <2>2, <2>9, FileParts DEF Open, Exists
    <3> QED
      BY <2>3, <2>9, <3>1 DEF Open, IsOpen, disk, Promise!Open
  <2>10. CASE UNCHANGED <<file, edits, at, db>>
    BY <2>3, <2>10 DEF Promise!vars
  <2>11. CASE Replace
    <3>1. Puts(target, saving) /\ target \in Paths /\ saving.content = Normalized(db) /\ db \in Content
      BY <1>2, <2>11 DEF Replace, Puts, IInv, InSave
    <3>2. PICK p \in Paths : p = target
      BY <3>1
    <3>3. Promise!Save(p)
      BY <2>1, <2>4, <2>11, <3>1, <3>2 DEF Replace, Promise!Save
    <3> QED
      BY <3>3 DEF Promise!Next
  <2>12. ASSUME NEW p \in Paths, NEW f, Puts(p, f), Exists(p), f.content = file[p].content,
                UNCHANGED <<project, save>>
         PROVE  UNCHANGED Promise!vars
    <3>1. there' = [there EXCEPT ![p] = there[p]]
      BY <2>2, <2>4, <2>12
    <3>2. there' = there
      BY <3>1
    <3> QED
      BY <2>4, <2>12, <3>2 DEF project, Promise!vars
  <2>13. ASSUME NEW p \in Paths, NEW on \in BOOLEAN, SetHistory(p, on) PROVE UNCHANGED Promise!vars
    BY <1>2, <2>12, <2>13, SetHistoryPuts DEF SetHistory
  <2>14. ASSUME NEW p \in Paths, NEW limit \in Limits, SetHistoryLimit(p, limit)
         PROVE  UNCHANGED Promise!vars
    BY <1>2, <2>12, <2>14, SetHistoryLimitPuts DEF SetHistoryLimit
  <2>15. ASSUME NEW p \in Paths, NEW output \in Paths, ExportDelivery(p, output)
         PROVE  Promise!Derive(output)
    <3>1. PICK f : Puts(output, f)
      BY <1>2, <2>15, ExportDeliveryPuts
    <3> QED
      BY <1>2, <2>4, <2>15, <3>1, ExportDeliveryPuts DEF ExportDelivery, project, Promise!Derive
  <2>16. ASSUME NEW p \in Paths, NEW output \in Paths, NEW k, WriteRevision(p, k, output)
         PROVE  Promise!Derive(output)
    <3>1. PICK f : Puts(output, f)
      BY <1>2, <2>16, WriteRevisionPuts
    <3> QED
      BY <1>2, <2>4, <2>16, <3>1, WriteRevisionPuts DEF WriteRevision, project, Promise!Derive
  <2>17. ASSUME NEW p \in Paths, NEW t \in Tables, NEW value \in Outside, OutsideEdit(p, t, value)
         PROVE  Promise!Foreign(p)
    <3> DEFINE content == [file[p].content EXCEPT ![t] = value]
               f == [file[p] EXCEPT !.content = content, !.own = FALSE, !.touched = TRUE]
    <3>1. file[p] \in Files /\ file[p].medium = "flushed" /\ there[p] = file[p].content
          /\ file[p].content \in Content
      BY <1>2, <2>1, <2>2, <2>17, FileParts DEF OutsideEdit, Exists, IInv, FilesWhole
    <3>2. content \in Content
      BY <3>1 DEF Content
    <3>3. file' = [file EXCEPT ![p] = f]
      BY <2>17 DEF OutsideEdit
    <3> HIDE DEF content
    <3>4. f.content = content /\ f.medium = "flushed" /\ f \in Files
      BY <3>1, <3>2 DEF Files, File
    <3> HIDE DEF f
    <3>5. f # None
      BY <3>4
    <3>6. there' = [there EXCEPT ![p] = content]
      BY <2>1, <3>3, <3>4, <3>5 DEF Exists
    <3> QED
      BY <2>17, <3>1, <3>2, <3>6 DEF OutsideEdit, project, Promise!Foreign
  <2>18. CASE SaveStep
    <3>1. CASE Copy \/ Finish \/ Record \/ Flush \/ GiveUp
      BY <2>10, <3>1 DEF Copy, Finish, Record, Flush, GiveUp, disk, project
    <3> QED
      BY <2>11, <2>18, <3>1 DEF SaveStep
  <2>19. ASSUME NEW p \in Paths, NEW itsOwn \in BOOLEAN, Begin(p, itsOwn)
         PROVE  UNCHANGED <<file, edits, at, db>>
    BY <2>19 DEF Begin, project
  <2>20. ASSUME NEW p \in Paths, Commands(p) PROVE [Promise!Next]_(Promise!vars)
    BY <2>13, <2>14, <2>15, <2>16, <2>20 DEF Commands, Promise!Next
  <2>21. CASE UNCHANGED vars
    BY <2>10, <2>21 DEF vars, disk, project
  <2>22. CASE \E t \in Tables, value \in Values : Edit(t, value)
    BY <2>5, <2>22 DEF Promise!Next
  <2>23. CASE \E p \in Paths : Open(p)
    BY <2>9, <2>23 DEF Promise!Next
  <2>24. CASE \E p \in Paths, t \in Tables, value \in Outside : OutsideEdit(p, t, value)
    BY <2>17, <2>24 DEF Promise!Next
  <2> QED
    BY <1>2, <2>6, <2>7, <2>8, <2>10, <2>18, <2>19, <2>20, <2>21, <2>22, <2>23, <2>24 DEF Next
<1> QED
  BY <1>1, <1>2, FilesAreWhole, PTL DEF Spec, WholeOrNothing, Promise!Spec

-----------------------------------------------------------------------------
(* The history.  What windBack() computes is found by induction over a set  *)
(* of numbers: the least one for which it would be wrong.                   *)
LEMMA LeastOf ==
    ASSUME NEW T \in SUBSET Nat, T # {}
    PROVE  \E n \in T : \A m \in T : n <= m
<1> DEFINE R == OpToRel(<, Nat)
<1>1. IsWellFoundedOn(R, Nat)
  BY NatLessThanWellFounded
<1>2. \A x, y \in Nat : y < x => <<y, x>> \in R
  BY DEF OpToRel
<1> HIDE DEF R
<1>3. PICK n \in T : \A m \in T : ~ (<<m, n>> \in R)
  BY <1>1, WFMin
<1>4. ASSUME NEW m \in T PROVE n <= m
  <2>1. n \in Nat /\ m \in Nat
    OBVIOUS
  <2>2. ~ (m < n)
    BY <1>2, <1>3, <2>1
  <2> QED
    BY <2>1, <2>2
<1> QED
  BY <1>4

(* What is left of a content when the changes of the revision that is the   *)
(* j-th from the end are undone, and so on from the last one: back[j].      *)
OneBack(h, j, content) ==
    LET changes == h[Len(h) - j + 1].changes
    IN IF content = None \/ changes = None \/ ~Undoes(changes, content) THEN None
       ELSE Undone(changes, content)

WindsBack(f, m, back) ==
    back = [j \in 0 .. m |-> IF j = 0 THEN f.content ELSE OneBack(f.history, j, back[j - 1])]

LEMMA WindBackChooses ==
    ASSUME NEW f, NEW k
    PROVE  WindBack(f, k) = (CHOOSE b : WindsBack(f, Len(f.history) - k, b))[Len(f.history) - k]
BY DEF WindBack, WindsBack, OneBack

(* There is such a function, however long the history is.                   *)
LEMMA WindsBackExists ==
    ASSUME NEW f, NEW m \in Nat
    PROVE  \E b : WindsBack(f, m, b)
<1> DEFINE T == {n \in Nat : ~ \E b : WindsBack(f, n, b)}
<1>1. SUFFICES ASSUME T # {} PROVE FALSE
  OBVIOUS
<1>2. PICK n \in T : \A i \in T : n <= i
  BY <1>1, LeastOf
<1>3. n \in Nat /\ ~ \E b : WindsBack(f, n, b)
  OBVIOUS
<1>4. CASE n = 0
  <2> DEFINE b == [j \in 0 .. 0 |-> f.content]
  <2>1. b = [j \in 0 .. 0 |-> IF j = 0 THEN f.content ELSE OneBack(f.history, j, b[j - 1])]
    OBVIOUS
  <2>2. WindsBack(f, n, b)
    BY <1>4, <2>1 DEF WindsBack
  <2> QED
    BY <1>3, <2>2
<1>5. CASE n # 0
  <2>1. n - 1 \in Nat /\ n - 1 \notin T
    BY <1>2, <1>3, <1>5
  <2>2. PICK a : WindsBack(f, n - 1, a)
    BY <2>1
  <2> DEFINE b == [j \in 0 .. n |-> IF j = n THEN OneBack(f.history, n, a[n - 1]) ELSE a[j]]
  <2>3. \A j \in 0 .. n - 1 : b[j] = a[j]
    BY <1>3
  <2>4. \A j \in 0 .. n - 1 :
            a[j] = IF j = 0 THEN f.content ELSE OneBack(f.history, j, a[j - 1])
    BY <2>2 DEF WindsBack
  <2>5. ASSUME NEW j \in 0 .. n
        PROVE  b[j] = IF j = 0 THEN f.content ELSE OneBack(f.history, j, b[j - 1])
    <3>1. CASE j = n
      <4>1. b[n] = OneBack(f.history, n, a[n - 1]) /\ n - 1 \in 0 .. n - 1 /\ n # 0
        BY <1>3, <1>5
      <4> HIDE DEF b
      <4> QED
        BY <2>3, <3>1, <4>1
    <3>2. CASE j # n /\ j # 0
      <4>1. j \in 0 .. n - 1 /\ j - 1 \in 0 .. n - 1
        BY <1>3, <3>2
      <4>2. b[j] = a[j] /\ b[j - 1] = a[j - 1]
        BY <2>3, <4>1
      <4> HIDE DEF b
      <4> QED
        BY <2>4, <3>2, <4>1, <4>2
    <3>3. CASE j # n /\ j = 0
      <4>1. j \in 0 .. n - 1
        BY <1>3, <3>3
      <4> HIDE DEF b
      <4> QED
        BY <2>3, <2>4, <3>3, <4>1
    <3> QED
      BY <3>1, <3>2, <3>3
  <2>6. b = [j \in 0 .. n |-> b[j]]
    OBVIOUS
  <2> HIDE DEF b
  <2>7. WindsBack(f, n, b)
    BY <2>5, <2>6 DEF WindsBack
  <2> QED
    BY <1>3, <2>7
<1> QED
  BY <1>4, <1>5

LEMMA WindBackIs ==
    ASSUME NEW f \in Files, NEW k \in 1 .. Len(f.history)
    PROVE  \E b : /\ WindBack(f, k) = b[Len(f.history) - k]
                  /\ b[0] = f.content
                  /\ \A j \in 1 .. Len(f.history) - k : b[j] = OneBack(f.history, j, b[j - 1])
<1> DEFINE m == Len(f.history) - k
           b == CHOOSE c : WindsBack(f, m, c)
<1>1. m \in Nat
  BY FileParts, LenProperties
<1>2. WindBack(f, k) = b[m]
  BY WindBackChooses
<1> HIDE DEF m
<1>3. WindsBack(f, m, b)
  BY <1>1, WindsBackExists
<1> HIDE DEF b
<1>4. \A j \in 0 .. m : b[j] = IF j = 0 THEN f.content ELSE OneBack(f.history, j, b[j - 1])
  BY <1>3 DEF WindsBack
<1>5. b[0] = f.content
  BY <1>1, <1>4
<1>6. \A j \in 1 .. m : b[j] = OneBack(f.history, j, b[j - 1])
  BY <1>1, <1>4
<1> QED
  BY <1>2, <1>5, <1>6 DEF m

(* A history that can be gone back over: its last save is the file, each    *)
(* save was normalized, and what was recorded leads from one to the next.   *)
Traced(h, content) ==
    /\ h # << >> => content = h[Len(h)].digest
    /\ \A i \in 1 .. Len(h) :
           h[i].digest \in Content /\ Normalized(h[i].digest) = h[i].digest
    /\ \A i \in 2 .. Len(h) : h[i].changes # None =>
           h[i].changes = [from |-> h[i - 1].digest, to |-> h[i].digest]

LEMMA UndoneFrom ==
    ASSUME NEW from \in Content, NEW to \in Content
    PROVE  /\ Undoes([from |-> from, to |-> to], to)
           /\ Undone([from |-> from, to |-> to], to) = from
<1> DEFINE c == [from |-> from, to |-> to]
<1>1. c.from = from /\ c.to = to
  OBVIOUS
<1> HIDE DEF c
<1>2. Undoes(c, to) /\ Undone(c, to) = from
  BY <1>1 DEF Undoes, Undone, Content
<1> QED
  BY <1>2 DEF c

(* Going back over such a history gives what was saved, or nothing if some  *)
(* of what came after was not recorded.                                     *)
LEMMA GoesBack ==
    ASSUME NEW f \in Files, Traced(f.history, f.content), NEW k \in 1 .. Len(f.history)
    PROVE  /\ WindBack(f, k) \in {None, f.history[k].digest}
           /\ (\A j \in k + 1 .. Len(f.history) : f.history[j].changes # None)
              => WindBack(f, k) = f.history[k].digest
<1> DEFINE h == f.history
           n == Len(h)
<1>1. n \in Nat /\ k \in Nat /\ 1 <= k /\ k <= n
  BY FileParts, LenProperties
<1>2. PICK b : /\ WindBack(f, k) = b[n - k]
               /\ b[0] = f.content
               /\ \A j \in 1 .. n - k : b[j] = OneBack(h, j, b[j - 1])
  BY WindBackIs
<1>3. /\ h # << >>
      /\ h # << >> => f.content = h[n].digest
      /\ \A i \in 1 .. n : h[i].digest \in Content
      /\ \A i \in 2 .. n : h[i].changes # None =>
             h[i].changes = [from |-> h[i - 1].digest, to |-> h[i].digest]
  <2>1. h # << >>
    BY <1>1, EmptySeq
  <2> QED
    BY <2>1 DEF Traced
<1> HIDE DEF h, n
<1> DEFINE Fine(j) == /\ b[j] \in {None, h[n - j].digest}
                      /\ (\A i \in n - j + 1 .. n : h[i].changes # None) => b[j] = h[n - j].digest
           T == {j \in Nat : j <= n - k /\ ~Fine(j)}
<1>4. ASSUME NEW j \in 1 .. n - k, Fine(j - 1) PROVE Fine(j)
  <2> DEFINE i == n - j + 1
  <2>1. i \in 2 .. n /\ i - 1 = n - j /\ n - (j - 1) = i /\ i \in 1 .. n /\ i - 1 \in 1 .. n /\ i \in Nat
    BY <1>1
  <2>2. b[j] = OneBack(h, j, b[j - 1]) /\ Len(h) - j + 1 = i
    BY <1>2 DEF n
  <2>3. /\ b[j - 1] \in {None, h[i].digest}
        /\ (\A x \in i + 1 .. n : h[x].changes # None) => b[j - 1] = h[i].digest
    BY <1>4, <2>1
  <2> HIDE DEF i
  <2>4. CASE b[j - 1] = None \/ h[i].changes = None
    <3>1. b[j] = None
      BY <2>2, <2>4 DEF OneBack
    <3>2. ~ \A x \in i .. n : h[x].changes # None
      <4>1. h[i].digest # None
        BY <1>3, <2>1
      <4>2. \A x \in i + 1 .. n : x \in i .. n
        BY <1>1, <2>1
      <4>3. i \in i .. n
        BY <1>1, <2>1
      <4> QED
        BY <2>3, <2>4, <4>1, <4>2, <4>3
    <3> QED
      BY <3>1, <3>2 DEF i
  <2>5. CASE b[j - 1] # None /\ h[i].changes # None
    <3>1. b[j - 1] = h[i].digest
      BY <2>3, <2>5
    <3>2. h[i].changes = [from |-> h[i - 1].digest, to |-> h[i].digest]
      BY <1>3, <2>1, <2>5
    <3>3. h[i].digest \in Content /\ h[i - 1].digest \in Content
      BY <1>3, <2>1
    <3>4. Undoes(h[i].changes, b[j - 1]) /\ Undone(h[i].changes, b[j - 1]) = h[i - 1].digest
      BY <3>1, <3>2, <3>3, UndoneFrom
    <3>5. b[j] = h[i - 1].digest
      BY <2>2, <2>5, <3>4 DEF OneBack
    <3> QED
      BY <2>1, <3>5
  <2> QED
    BY <2>4, <2>5
<1>5. Fine(0)
  BY <1>1, <1>2, <1>3
<1> HIDE DEF Fine
<1>6. T = {}
  <2> SUFFICES ASSUME T # {} PROVE FALSE
    OBVIOUS
  <2>1. PICK j \in T : \A i \in T : j <= i
    BY LeastOf
  <2>2. j \in Nat /\ j <= n - k /\ ~Fine(j)
    OBVIOUS
  <2>3. j # 0
    BY <1>5, <2>2
  <2>4. j \in 1 .. n - k /\ j - 1 \in Nat /\ j - 1 <= n - k /\ ~(j <= j - 1)
    BY <1>1, <2>2, <2>3
  <2>5. Fine(j - 1)
    BY <2>1, <2>4
  <2> QED
    BY <1>4, <2>2, <2>4, <2>5
<1>7. Fine(n - k)
  BY <1>1, <1>6
<1>8. n - (n - k) = k /\ n - (n - k) + 1 = k + 1
  BY <1>1
<1> QED
  BY <1>2, <1>7, <1>8 DEF Fine, h, n

LEMMA TracedNone == \A c : Traced(<< >>, c)
<1>1. Len(<< >>) = 0
  BY EmptySeq
<1> QED
  BY <1>1 DEF Traced

LEMMA TracedFirst ==
    ASSUME NEW h \in Seq(Revision), NEW c, Traced(h, c), NEW k \in 1 .. Len(h)
    PROVE  Traced(SubSeq(h, 1, k), h[k].digest)
<1> DEFINE s == SubSeq(h, 1, k)
<1>1. Len(h) \in Nat /\ k \in Nat /\ 1 <= k /\ k <= Len(h)
  BY LenProperties
<1>2. \A i \in 1 .. k : h[i] \in Revision
  BY <1>1, ElementOfSeq
<1>3. /\ Len(s) = k /\ k \in 1 .. k
      /\ \A i \in 1 .. k : s[i] = h[i]
  <2>1. 1 \in Int /\ k \in Int /\ k - 1 + 1 = k /\ 1 <= k
    BY <1>1
  <2>2. \A i \in 1 .. k : 1 + i - 1 = i
    OBVIOUS
  <2> QED
    BY <1>2, <2>1, <2>2, SubSeqProperties
<1> HIDE DEF s
<1>4. s[Len(s)] = h[k]
  BY <1>3
<1>5. \A i \in 2 .. k : s[i] = h[i] /\ s[i - 1] = h[i - 1] /\ i \in 2 .. Len(h)
  BY <1>1, <1>3
<1>6. \A i \in 1 .. k : i \in 1 .. Len(h)
  BY <1>1
<1> QED
  BY <1>3, <1>4, <1>5, <1>6 DEF Traced, s

LEMMA TracedKept ==
    ASSUME NEW h \in Seq(Revision), NEW c, Traced(h, c), NEW limit \in Nat
    PROVE  Traced(Kept(h, limit), c)
<1>1. Len(h) \in Nat /\ \A i \in 1 .. Len(h) : h[i] \in Revision
  BY LenProperties, ElementOfSeq
<1>2. CASE limit = 0 \/ Len(h) <= limit
  BY <1>2 DEF Kept
<1>3. CASE limit # 0 /\ Len(h) > limit
  <2> DEFINE d == Len(h) - limit
             s == SubSeq(h, d + 1, Len(h))
  <2>1. d \in Nat /\ d + limit = Len(h) /\ 1 <= limit
    BY <1>1, <1>3
  <2>2. Kept(h, limit) = s
    BY <1>1, <1>3 DEF Kept
  <2> HIDE DEF d
  <2>3. Len(s) = limit /\ \A i \in 1 .. limit : s[i] = h[d + i]
    <3>1. d + 1 \in Int /\ Len(h) \in Int /\ d + 1 <= Len(h) /\ Len(h) - (d + 1) + 1 = limit
      BY <1>1, <2>1
    <3>2. \A i \in d + 1 .. Len(h) : h[i] \in Revision
      BY <1>1, <2>1
    <3> DEFINE m == d + 1
    <3>3. \A i \in 1 .. limit : m + i - 1 = d + i
      BY <2>1
    <3>4. m \in Int /\ Len(h) \in Int /\ m <= Len(h) /\ Len(h) - m + 1 = limit
          /\ \A i \in m .. Len(h) : h[i] \in Revision
      BY <3>1, <3>2
    <3> HIDE DEF m
    <3>5. /\ Len(SubSeq(h, m, Len(h))) = limit
          /\ \A i \in 1 .. limit : SubSeq(h, m, Len(h))[i] = h[m + i - 1]
      BY <3>4, SubSeqProperties
    <3> QED
      BY <3>3, <3>5 DEF m
  <2> HIDE DEF s
  <2>4. s[Len(s)] = h[Len(h)] /\ h # << >>
    <3>1. limit \in 1 .. limit
      BY <2>1
    <3>2. h # << >>
      BY <1>3, EmptySeq
    <3> QED
      BY <2>1, <2>3, <3>1, <3>2
  <2>5. \A i \in 1 .. limit : d + i \in 1 .. Len(h)
    BY <2>1
  <2>6. ASSUME NEW i \in 2 .. limit
        PROVE  d + i \in 2 .. Len(h) /\ s[i] = h[d + i] /\ s[i - 1] = h[(d + i) - 1]
    <3>1. i \in 1 .. limit /\ i - 1 \in 1 .. limit /\ d + (i - 1) = (d + i) - 1 /\ d + i \in 2 .. Len(h)
      BY <2>1
    <3> QED
      BY <2>3, <3>1
  <2>7. \A i \in 1 .. limit : s[i].digest \in Content /\ Normalized(s[i].digest) = s[i].digest
    BY <2>3, <2>5 DEF Traced
  <2>8. ASSUME NEW i \in 2 .. limit, s[i].changes # None
        PROVE  s[i].changes = [from |-> s[i - 1].digest, to |-> s[i].digest]
    <3> DEFINE j == d + i
    <3>1. j \in 2 .. Len(h) /\ s[i] = h[j] /\ s[i - 1] = h[j - 1]
      BY <2>6
    <3> HIDE DEF j
    <3> QED
      BY <2>8, <3>1 DEF Traced
  <2>9. c = s[Len(s)].digest
    BY <2>4 DEF Traced
  <2>10. Len(s) = limit
    BY <2>3
  <2>11. Traced(s, c)
    BY <2>7, <2>8, <2>9, <2>10 DEF Traced
  <2> QED
    BY <2>2, <2>11
<1> QED
  BY <1>1, <1>2, <1>3

LEMMA TracedAppend ==
    ASSUME NEW h \in Seq(Revision), NEW c, h # << >>, Traced(h, c),
           NEW d \in Content, Normalized(d) = d, NEW r \in Revision, r.digest = d,
           r.changes \in {[from |-> c, to |-> d], None}
    PROVE  Traced(Append(h, r), d)
<1> DEFINE a == Append(h, r)
           n == Len(h)
<1>1. n \in Nat /\ n > 0
  BY LenProperties
<1>2. /\ Len(a) = n + 1 /\ a[n + 1] = r
      /\ \A i \in 1 .. n : a[i] = h[i]
  BY <1>1
<1>3. /\ c = h[n].digest
      /\ \A i \in 1 .. n : h[i].digest \in Content /\ Normalized(h[i].digest) = h[i].digest
      /\ \A i \in 2 .. n : h[i].changes # None =>
             h[i].changes = [from |-> h[i - 1].digest, to |-> h[i].digest]
  BY DEF Traced
<1> HIDE DEF a, n
<1>4. ASSUME NEW i \in 1 .. n + 1
      PROVE  a[i].digest \in Content /\ Normalized(a[i].digest) = a[i].digest
  <2>1. CASE i = n + 1
    BY <1>2, <2>1
  <2>2. CASE i \in 1 .. n
    BY <1>2, <1>3, <2>2
  <2> QED
    BY <1>1, <2>1, <2>2
<1>5. ASSUME NEW i \in 2 .. n + 1, a[i].changes # None
      PROVE  a[i].changes = [from |-> a[i - 1].digest, to |-> a[i].digest]
  <2>1. CASE i = n + 1
    <3>1. a[i] = r /\ n \in 1 .. n /\ i - 1 = n
      BY <1>1, <1>2, <2>1
    <3>2. a[i - 1] = h[n]
      BY <1>2, <3>1
    <3> QED
      BY <1>3, <1>5, <3>1, <3>2
  <2>2. CASE i \in 2 .. n
    <3>1. i \in 1 .. n /\ i - 1 \in 1 .. n
      BY <1>1, <2>2
    <3> QED
      BY <1>2, <1>3, <1>5, <2>2, <3>1
  <2> QED
    BY <1>1, <2>1, <2>2
<1> QED
  BY <1>2, <1>4, <1>5 DEF Traced, a

(* What the steps do to a history.                                          *)
FilesTraced ==
    \A p \in Paths : Exists(p) /\ ~file[p].touched => Traced(file[p].history, file[p].content)

SaveTraced ==
    /\ stage \in {"copied", "finished"} => saving.history = << >>
    /\ stage \in {"recorded", "flushed"} /\ ~saving.touched =>
           Traced(saving.history, saving.content)

HInv == FilesTraced /\ SaveTraced

LEMMA PutTraces ==
    ASSUME IInv, FilesTraced, NEW p \in Paths, NEW f, Put(p, f),
           ~f.touched => Traced(f.history, f.content)
    PROVE  FilesTraced'
<1>1. file' = [file EXCEPT ![p] = f] /\ file \in [Paths -> Files \union {None}]
  BY DEF Put, IInv, TypeOK
<1>2. ASSUME NEW q \in Paths, file'[q] # None, ~file'[q].touched
      PROVE  Traced(file'[q].history, file'[q].content)
  <2>1. CASE q = p
    BY <1>1, <1>2, <2>1
  <2>2. CASE q # p
    BY <1>1, <1>2, <2>2 DEF FilesTraced, Exists
  <2> QED
    BY <2>1, <2>2
<1> QED
  BY <1>2 DEF FilesTraced, Exists

LEMMA RecordTraces ==
    ASSUME IInv, RInv, HInv, Record
    PROVE  SaveTraced'
<1>1. saving \in Files /\ saving.content \in Content /\ saving.digest = saving.content
      /\ saving.history = << >> /\ stage' = "recorded"
  BY FileParts DEF Record, IInv, InSave, RInv, DigestsRight, HInv, SaveTraced
<1>2. Normalized(saving.content) = saving.content
  BY NormalizedIsContent DEF Record, IInv, InSave
<1>3. CASE UNCHANGED saving
  BY <1>1, <1>3, TracedNone DEF SaveTraced
<1>4. ASSUME Exists(Previous), file[Previous].history # << >>,
             NEW changes \in {[from |-> file[Previous].content, to |-> saving.content], None},
             saving' = [saving EXCEPT
                 !.history = Kept(Append(file[Previous].history,
                                         [digest |-> saving.digest, changes |-> changes]),
                                  file[Previous].limit),
                 !.limit = file[Previous].limit,
                 !.touched = file[Previous].touched],
             ~saving'.touched
      PROVE  Traced(saving'.history, saving'.content)
  <2> DEFINE before == file[Previous]
             revision == [digest |-> saving.digest, changes |-> changes]
             saves == Append(before.history, revision)
             history == Kept(saves, before.limit)
  <2>1. Previous \in Paths /\ before \in Files
    <3>1. Previous \in Paths
      BY DEF Previous, Record, IInv, InSave, TypeOK
    <3> QED
      BY <3>1, <1>4 DEF Exists, IInv, TypeOK
  <2>2. /\ before.content \in Content /\ before.history \in Seq(Revision)
        /\ before.limit \in Nat /\ before.touched \in BOOLEAN
    BY <2>1, FileParts
  <2>3. /\ revision \in Revision /\ revision.digest = saving.content
        /\ revision.changes \in {[from |-> before.content, to |-> saving.content], None}
    <3>1. saving.digest \in Digests
      BY <1>1, FileParts
    <3> QED
      BY <1>1, <1>4, <2>2, <3>1 DEF Revision, Changes
  <2>4. saving' = [saving EXCEPT !.history = history, !.limit = before.limit,
                                 !.touched = before.touched]
    BY <1>4
  <2>5. before.history # << >>
    BY <1>4
  <2>6. ~before.touched => Traced(before.history, before.content)
    BY <1>4, <2>1 DEF HInv, FilesTraced
  <2> HIDE DEF before, revision, saves, history
  <2>7. saving'.history = history /\ saving'.content = saving.content /\ ~before.touched
    BY <1>1, <1>4, <2>4 DEF Files, File
  <2>8. saves \in Seq(Revision)
    BY <2>2, <2>3 DEF saves
  <2>9. Traced(saves, saving.content)
    BY <1>1, <1>2, <2>2, <2>3, <2>5, <2>6, <2>7, TracedAppend DEF saves
  <2> QED
    BY <2>2, <2>7, <2>8, <2>9, TracedKept DEF history
<1>5. stage' \notin {"copied", "finished"}
  BY <1>1
<1> QED
  BY <1>3, <1>4, <1>5 DEF Record, SaveTraced

LEMMA SaveTraces ==
    ASSUME IInv, RInv, HInv, SaveStep
    PROVE  HInv'
<1>1. CASE Copy
  <2>1. saving' = NewFile /\ stage' = "copied" /\ UNCHANGED file
    BY <1>1 DEF Copy, disk
  <2>2. saving'.history = << >>
    BY <2>1 DEF NewFile
  <2> QED
    BY <2>1, <2>2 DEF HInv, FilesTraced, SaveTraced, Exists
<1>2. CASE Finish
  <2>1. stage' = "finished" /\ saving \in Files /\ UNCHANGED file /\ saving.history = << >>
    BY <1>2 DEF Finish, disk, IInv, InSave, HInv, SaveTraced
  <2>2. saving'.history = saving.history
    BY <1>2, <2>1 DEF Finish, Files, File
  <2> QED
    BY <2>1, <2>2 DEF HInv, FilesTraced, SaveTraced, Exists
<1>3. CASE Record
  <2>1. UNCHANGED file
    BY <1>3 DEF Record, disk
  <2> QED
    BY <1>3, <2>1, RecordTraces DEF HInv, FilesTraced, Exists
<1>4. CASE Flush
  <2>1. stage' = "flushed" /\ saving \in Files /\ UNCHANGED file
        /\ (~saving.touched => Traced(saving.history, saving.content))
    BY <1>4 DEF Flush, disk, IInv, InSave, HInv, SaveTraced
  <2>2. saving'.history = saving.history /\ saving'.content = saving.content
        /\ saving'.touched = saving.touched
    BY <1>4, <2>1 DEF Flush, Files, File
  <2> QED
    BY <2>1, <2>2 DEF HInv, FilesTraced, SaveTraced, Exists
<1>5. CASE Replace
  <2>1. target \in Paths /\ Put(target, saving) /\ stage' = "idle"
        /\ (~saving.touched => Traced(saving.history, saving.content))
    BY <1>5 DEF Replace, NoSave, IInv, InSave, HInv, SaveTraced
  <2>2. FilesTraced'
    BY <2>1, PutTraces DEF HInv
  <2> QED
    BY <2>1, <2>2 DEF HInv, SaveTraced
<1>6. CASE GiveUp
  BY <1>6 DEF GiveUp, NoSave, disk, HInv, FilesTraced, SaveTraced, Exists
<1> QED
  BY <1>1, <1>2, <1>3, <1>4, <1>5, <1>6 DEF SaveStep

LEMMA SetHistoryTraces ==
    ASSUME IInv, RInv, HInv, NEW p \in Paths, NEW on \in BOOLEAN, SetHistory(p, on)
    PROVE  FilesTraced'
<1> DEFINE began == [digest |-> file[p].digest, changes |-> None]
           history == IF on THEN <<began>> ELSE << >>
           f == [Whole(file[p]) EXCEPT !.history = history, !.limit = 0, !.touched = ~file[p].own]
<1>1. file[p] \in Files /\ Exists(p)
  BY DEF SetHistory, Exists, IInv, TypeOK
<1>2. CASE on /\ file[p].history # << >>
  <2>1. Put(p, Whole(file[p]))
    BY <1>2 DEF SetHistory
  <2>2. Whole(file[p]).touched = file[p].touched
    BY <1>1 DEF Whole, Files, File
  <2>3. ~file[p].touched => Traced(file[p].history, file[p].content)
    BY <1>1 DEF HInv, FilesTraced
  <2> QED
    BY <1>1, <2>1, <2>2, <2>3, WholeIsFlushed, PutTraces DEF HInv
<1>3. CASE ~(on /\ file[p].history # << >>)
  <2>1. Put(p, f)
    BY <1>3 DEF SetHistory
  <2>2. file[p].own => /\ file[p].content \in Content
                       /\ Normalized(file[p].content) = file[p].content
                       /\ file[p].digest = file[p].content
    BY <1>1, FileParts DEF RInv, FilesRight
  <2>3. file[p].own => Traced(history, file[p].content)
    <3>1. CASE ~on
      BY <3>1, TracedNone
    <3>2. ASSUME on, file[p].own PROVE Traced(<<began>>, file[p].content)
      <4>1. began.digest = file[p].content
        BY <2>2, <3>2
      <4> HIDE DEF began
      <4>2. Len(<<began>>) = 1 /\ <<began>>[1] = began
        OBVIOUS
      <4>3. 1 .. 1 = {1} /\ 2 .. 1 = {}
        OBVIOUS
      <4> QED
        BY <2>2, <3>2, <4>1, <4>2, <4>3 DEF Traced
    <3> QED
      BY <3>1, <3>2
  <2> HIDE DEF history
  <2>4. f.history = history /\ f.content = file[p].content /\ (f.touched <=> ~file[p].own)
    BY <1>1 DEF Whole, Files, File
  <2> HIDE DEF f
  <2>5. ~f.touched => Traced(f.history, f.content)
    BY <2>3, <2>4
  <2> QED
    BY <2>1, <2>5, PutTraces DEF HInv
<1> QED
  BY <1>2, <1>3

LEMMA SetHistoryLimitTraces ==
    ASSUME IInv, RInv, HInv, NEW p \in Paths, NEW limit \in Limits, SetHistoryLimit(p, limit)
    PROVE  FilesTraced'
<1> DEFINE history == Kept(file[p].history, limit)
           f == [Whole(file[p]) EXCEPT !.history = history, !.limit = limit]
<1>1. file[p] \in Files /\ Exists(p) /\ limit \in Nat
  BY DEF SetHistoryLimit, Exists, IInv, TypeOK
<1>2. Put(p, f)
  <2>1. Whole(file[p]).history = file[p].history
    BY <1>1, WholeIsFlushed
  <2>2. Put(p, [Whole(file[p]) EXCEPT !.history = Kept(Whole(file[p]).history, limit), !.limit = limit])
    BY DEF SetHistoryLimit
  <2> QED
    BY <2>1, <2>2
<1>3. ~file[p].touched => Traced(history, file[p].content)
  <2>1. file[p].history \in Seq(Revision)
    BY <1>1, FileParts
  <2>2. ~file[p].touched => Traced(file[p].history, file[p].content)
    BY <1>1 DEF HInv, FilesTraced
  <2> QED
    BY <1>1, <2>1, <2>2, TracedKept
<1> HIDE DEF history
<1>4. f.history = history /\ f.content = file[p].content /\ f.touched = file[p].touched
  BY <1>1 DEF Whole, Files, File
<1> HIDE DEF f
<1> QED
  BY <1>2, <1>3, <1>4, PutTraces DEF HInv

LEMMA ExportDeliveryTraces ==
    ASSUME IInv, RInv, HInv, NEW p \in Paths, NEW output \in Paths, ExportDelivery(p, output)
    PROVE  FilesTraced'
<1> DEFINE f == [Whole(file[p]) EXCEPT !.history = << >>, !.limit = 0, !.touched = ~file[p].own]
<1>1. file[p] \in Files
  BY DEF ExportDelivery, Exists, IInv, TypeOK
<1>2. Put(output, f)
  BY DEF ExportDelivery
<1>3. f.history = << >>
  BY <1>1 DEF Whole, Files, File
<1> HIDE DEF f
<1> QED
  BY <1>2, <1>3, TracedNone, PutTraces DEF HInv

LEMMA WriteRevisionTraces ==
    ASSUME IInv, RInv, HInv, NEW p \in Paths, NEW output \in Paths, NEW k, WriteRevision(p, k, output)
    PROVE  FilesTraced'
<1> DEFINE content == Normalized(WindBack(file[p], k))
           history == SubSeq(file[p].history, 1, k)
           f == [Whole(file[p]) EXCEPT !.content = content, !.digest = content, !.own = TRUE,
                                       !.history = history]
<1>1. file[p] \in Files /\ Exists(p)
  BY DEF WriteRevision, Exists, IInv, TypeOK
<1>2. k \in 1 .. Len(file[p].history) /\ WindBack(file[p], k) \in Content
  BY <1>1 DEF WriteRevision
<1>3. Put(output, f)
  <2>1. Whole(file[p]).history = file[p].history
    BY <1>1, WholeIsFlushed
  <2>2. Put(output, [Whole(file[p]) EXCEPT
            !.content = content, !.digest = content, !.own = TRUE,
            !.history = SubSeq(Whole(file[p]).history, 1, k)])
    BY DEF WriteRevision
  <2> QED
    BY <2>1, <2>2
<1>4. ASSUME ~file[p].touched PROVE Traced(history, content)
  <2>1. Traced(file[p].history, file[p].content)
    BY <1>1, <1>4 DEF HInv, FilesTraced
  <2>2. WindBack(file[p], k) \in {None, file[p].history[k].digest}
    BY <1>1, <1>2, <2>1, GoesBack
  <2>3. WindBack(file[p], k) = file[p].history[k].digest
    BY <1>2, <2>2
  <2>4. content = file[p].history[k].digest
    <3>1. Normalized(file[p].history[k].digest) = file[p].history[k].digest
      BY <1>2, <2>1 DEF Traced
    <3> QED
      BY <2>3, <3>1
  <2>5. file[p].history \in Seq(Revision)
    BY <1>1, FileParts
  <2> QED
    BY <1>2, <2>1, <2>4, <2>5, TracedFirst
<1> HIDE DEF content, history
<1>5. f.history = history /\ f.content = content /\ f.touched = file[p].touched
  BY <1>1 DEF Whole, Files, File
<1> HIDE DEF f
<1> QED
  BY <1>3, <1>4, <1>5, PutTraces DEF HInv

LEMMA NextTraces ==
    ASSUME IInv, RInv, HInv, [Next]_vars
    PROVE  HInv'
<1>1. ASSUME UNCHANGED <<file, stage, saving>> PROVE HInv'
  BY <1>1 DEF HInv, FilesTraced, SaveTraced, Exists
<1>2. ASSUME UNCHANGED <<stage, saving>>, FilesTraced' PROVE HInv'
  BY <1>2 DEF HInv, SaveTraced
<1>3. CASE \/ \E t \in Tables, value \in Values : Edit(t, value)
           \/ NewProject \/ Close \/ \E p \in Paths : Open(p)
  BY <1>1, <1>3 DEF Edit, NewProject, Close, Open, disk, save
<1>4. CASE Crash
  <2>1. UNCHANGED file /\ stage' = "idle"
    BY <1>4, CrashKeeps DEF Crash, NoSave
  <2> QED
    BY <2>1 DEF HInv, FilesTraced, SaveTraced, Exists
<1>5. ASSUME NEW p \in Paths, NEW itsOwn \in BOOLEAN, Begin(p, itsOwn) PROVE HInv'
  BY <1>5 DEF Begin, HInv, FilesTraced, SaveTraced, Exists
<1>6. CASE SaveStep
  BY <1>6, SaveTraces
<1>7. ASSUME NEW p \in Paths, NEW on \in BOOLEAN, SetHistory(p, on) PROVE HInv'
  BY <1>2, <1>7, SetHistoryTraces DEF SetHistory, save
<1>8. ASSUME NEW p \in Paths, NEW limit \in Limits, SetHistoryLimit(p, limit) PROVE HInv'
  BY <1>2, <1>8, SetHistoryLimitTraces DEF SetHistoryLimit, save
<1>9. ASSUME NEW p \in Paths, NEW output \in Paths, ExportDelivery(p, output) PROVE HInv'
  BY <1>2, <1>9, ExportDeliveryTraces DEF ExportDelivery, save
<1>10. ASSUME NEW p \in Paths, NEW output \in Paths, NEW k, WriteRevision(p, k, output) PROVE HInv'
  BY <1>2, <1>10, WriteRevisionTraces DEF WriteRevision, save
<1>11. ASSUME NEW p \in Paths, NEW t \in Tables, NEW value \in Outside, OutsideEdit(p, t, value)
       PROVE  HInv'
  <2> DEFINE f == [file[p] EXCEPT !.content = [file[p].content EXCEPT ![t] = value],
                                  !.own = FALSE, !.touched = TRUE]
  <2>1. file[p] \in Files
    BY <1>11 DEF OutsideEdit, Exists, IInv, TypeOK
  <2>2. file' = [file EXCEPT ![p] = f] /\ UNCHANGED <<stage, saving>>
    BY <1>11 DEF OutsideEdit, save
  <2>3. f.touched
    BY <2>1 DEF Files, File
  <2> HIDE DEF f
  <2>4. FilesTraced'
    BY <2>2, <2>3 DEF HInv, FilesTraced, Exists, IInv, TypeOK
  <2> QED
    BY <1>2, <2>2, <2>4
<1>12. CASE UNCHANGED vars
  BY <1>1, <1>12 DEF vars, disk, save
<1> QED
  BY <1>3, <1>4, <1>5, <1>6, <1>7, <1>8, <1>9, <1>10, <1>11, <1>12 DEF Next, Commands

(* "As it was at its revision" (writeRevision()): each save in a history    *)
(* nobody else wrote into can be gone back to as far as what came after it  *)
(* was recorded, and gives what was saved, for any number of saves and any  *)
(* limit, as long as other programs leave the rows as a save does.          *)
THEOREM RevisionsComeBack == Tidy => (Spec => []HistoryGoesBack)
<1>1. Init => RInv
  BY DEF Init, RInv, DigestsRight, FilesRight, Exists, NoDigests
<1>2. Init => HInv
  BY DEF Init, HInv, FilesTraced, SaveTraced, Exists
<1>3. IInv /\ HInv => HistoryGoesBack
  <2> SUFFICES ASSUME IInv, HInv, NEW p \in Paths, Exists(p), ~file[p].touched,
                      NEW k \in 1 .. Len(file[p].history),
                      \A j \in k + 1 .. Len(file[p].history) : file[p].history[j].changes # None
               PROVE  WindBack(file[p], k) = file[p].history[k].digest
    BY DEF HistoryGoesBack
  <2>1. file[p] \in Files
    BY DEF Exists, IInv, TypeOK
  <2>2. Traced(file[p].history, file[p].content)
    BY DEF HInv, FilesTraced
  <2> QED
    BY <2>1, <2>2, GoesBack
<1>4. ASSUME Tidy PROVE Spec => []HistoryGoesBack
  <2>1. IInv /\ RInv /\ [Next]_vars => RInv'
    BY <1>4, NextRight
  <2>2. IInv /\ RInv /\ HInv /\ [Next]_vars => HInv'
    BY NextTraces
  <2> QED
    BY <1>1, <1>2, <1>3, <2>1, <2>2, FilesAreWhole, PTL DEF Spec
<1> QED
  BY <1>4
=============================================================================
