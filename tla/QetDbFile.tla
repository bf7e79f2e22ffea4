----------------------------- MODULE QetDbFile -----------------------------
(***************************************************************************)
(* A project saved as a database (dataBase/qetdbfile.cpp): the file is     *)
(* written whole beside the project and put in its place at once, with the *)
(* digest of its content, the history of its saves and the file it         *)
(* replaces among the previous versions.  Steps may fail, the program may  *)
(* crash, the power may fail, and another program may write to the file.   *)
(***************************************************************************)
EXTENDS Integers, Sequences

CONSTANTS
    Paths, Tables, Values,
    Normal,       \* what normalize() makes of the rows of a table
    Outside,      \* what another program may write into a table
    Limits,       \* the numbers of saves a history may be told to keep
    MaxVersions,  \* PreviousVersions::count()
    MaxRevisions, \* bound: the saves the histories of two files keep together
    MaxEdits,     \* bound: the writes of another program
    None          \* no file, no path, no digest, changes not recorded

Content == [Tables -> Values]

ASSUME FileAssumption ==
    /\ Normal \in [Values -> Values]
    /\ \A v \in Values : Normal[Normal[v]] = Normal[v]
    /\ Outside \subseteq Values
    /\ Limits \subseteq Nat \ {1}
    /\ MaxVersions \in Nat /\ MaxRevisions \in Nat /\ MaxEdits \in Nat
    /\ None \notin Paths /\ None \notin Values /\ None \notin Content

VARIABLES
    file,      \* what each path names
    versions,  \* its previous versions, the newest first
    linked,    \* the paths whose newest version is a second name of the file
    edits,     \* bound: how often another program wrote
    at,        \* m_disk_path of the project
    db,        \* the project database
    cache,     \* m_saved_digests
    tracked,   \* whether the tables have triggers that mark what is written
    written,   \* qet_written: the tables that were
    stage,     \* how far the save has got
    target,    \* the path it writes
    moves,     \* whether that becomes the project's path
    reuse,     \* m_copy_reuse
    saving     \* <path>.saving

disk == <<file, versions, linked, edits>>
project == <<at, db, cache, tracked, written>>
save == <<stage, target, moves, reuse, saving>>
vars == <<disk, project, save>>

Digests == [Tables -> Values \union {None}]
Changes == [from : Content, to : Content]
Revision == [digest : Digests, changes : Changes \union {None}]

\* own: nobody else wrote to it since; touched: nor to what its history covers
File == [content : Content, digest : Digests, medium : {"written", "flushed", "torn"},
         history : Seq(Revision), limit : Nat, own : BOOLEAN, touched : BOOLEAN]

Files == {f \in File : f.limit = 0 \/ Len(f.history) <= f.limit}

ASSUME NoneAssumption == None \notin Files

Stages == {"idle", "begun", "copied", "finished", "recorded", "flushed"}

TypeOK ==
    /\ file \in [Paths -> Files \union {None}]
    /\ versions \in [Paths -> {s \in Seq(Content) : Len(s) <= MaxVersions}]
    /\ linked \subseteq Paths
    /\ edits \in 0 .. MaxEdits
    /\ at \in Paths \union {None}
    /\ db \in Content \union {None}
    /\ cache \in Digests
    /\ tracked \in BOOLEAN
    /\ written \subseteq Tables
    /\ stage \in Stages
    /\ target \in Paths \union {None}
    /\ moves \in BOOLEAN
    /\ reuse \in Digests
    /\ saving \in Files \union {None}

NoDigests == [t \in Tables |-> None]
Normalized(content) == [t \in Tables |-> Normal[content[t]]]

Exists(p) == file[p] # None

\* Bound
Room(p, history) ==
    /\ Len(history) <= MaxRevisions
    /\ \A q \in Paths \ {p} : Exists(q) => Len(history) + Len(file[q].history) <= MaxRevisions

-----------------------------------------------------------------------------
(* The history a file keeps.                                                *)

\* A changeset undone: a row that is not as the changes left it is a
\* conflict, one they do not name is left as it is.
Undoes(changes, content) ==
    \A t \in Tables : changes.from[t] # changes.to[t] => content[t] = changes.to[t]

Undone(changes, content) ==
    [t \in Tables |-> IF changes.from[t] # changes.to[t] THEN changes.from[t] ELSE content[t]]

\* windBack(): the content of the file at its revision k, None if changes
\* after it were not recorded or do not undo cleanly.
WindBack(f, k) ==
    LET n == Len(f.history)
        back[j \in 0 .. n - k] ==
            IF j = 0 THEN f.content
            ELSE LET changes == f.history[n - j + 1].changes
                     content == back[j - 1]
                 IN IF content = None \/ changes = None \/ ~Undoes(changes, content) THEN None
                    ELSE Undone(changes, content)
    IN back[n - k]

\* A slip: the saves a limit drops are the last ones.
KeptFirst(history, limit) ==
    IF limit = 0 \/ Len(history) <= limit THEN history ELSE SubSeq(history, 1, limit)

\* keepLimit()
Kept(history, limit) ==
    IF limit = 0 \/ Len(history) <= limit THEN history
    ELSE SubSeq(history, Len(history) - limit + 1, Len(history))

-----------------------------------------------------------------------------
(* The project.                                                             *)

IsOpen == db # None

\* The save runs to its end before the event loop goes on.
Idle == stage = "idle"

\* A table written to: its trigger marks it.
Edit(t, value) ==
    /\ IsOpen /\ Idle
    /\ db' = [db EXCEPT ![t] = value]
    /\ written' = IF tracked THEN written \union {t} ELSE written
    /\ UNCHANGED <<disk, at, cache, tracked, save>>

NewProject ==
    /\ ~IsOpen
    /\ db' \in Content
    /\ UNCHANGED <<disk, at, cache, tracked, written, save>>

\* A file that is not what was saved is opened if the user says so.  Its
\* tables become the project's (adoptFile(), openedDigests()) unless they
\* are of another schema: then the project is filled from its document.
Open(p) ==
    /\ ~IsOpen
    /\ Exists(p) /\ file[p].medium # "torn"
    /\ at' = p
    /\ db' = file[p].content
    /\ \/ cache' = file[p].content /\ tracked' = TRUE
       \/ UNCHANGED <<cache, tracked>>
    /\ UNCHANGED <<disk, written, save>>

Gone ==
    /\ at' = None
    /\ db' = None
    /\ cache' = NoDigests
    /\ tracked' = FALSE
    /\ written' = {}

NoSave ==
    /\ stage' = "idle"
    /\ target' = None
    /\ moves' = FALSE
    /\ reuse' = NoDigests
    /\ saving' = None

Close == IsOpen /\ Idle /\ Gone /\ UNCHANGED <<disk, save>>

\* The program ends, or the power: what was not flushed is lost.
Crash ==
    /\ IsOpen
    /\ Gone /\ NoSave
    /\ \/ UNCHANGED file
       \/ file' = [p \in Paths |-> IF Exists(p) /\ file[p].medium = "written"
                                   THEN [file[p] EXCEPT !.medium = "torn"] ELSE file[p]]
    /\ UNCHANGED <<versions, linked, edits>>

\* Another program writes to the file that is there, and so to a version
\* that is the same one.
OutsideEdit(p, t, value) ==
    /\ Idle /\ edits < MaxEdits
    /\ Exists(p) /\ file[p].content[t] # value
    /\ LET content == [file[p].content EXCEPT ![t] = value]
       IN /\ file' = [file EXCEPT ![p].content = content, ![p].own = FALSE, ![p].touched = TRUE]
          /\ versions' = IF p \in linked THEN [versions EXCEPT ![p][1] = content] ELSE versions
    /\ edits' = edits + 1
    /\ UNCHANGED <<linked, project, save>>

-----------------------------------------------------------------------------
(* QetDbFile::save()                                                        *)

NewVersion(p) == /\ Exists(p) /\ MaxVersions > 0
                 /\ versions[p] # << >> => Head(versions[p]) # file[p].content

\* A slip: one too many.
TrimmedLate(all) == IF Len(all) <= MaxVersions + 1 THEN all ELSE SubSeq(all, 1, MaxVersions + 1)

Trimmed(all) == IF Len(all) <= MaxVersions THEN all ELSE SubSeq(all, 1, MaxVersions)

\* PreviousVersions::keep(): the file gets a second name, or is copied where
\* there are no hard links; failing does not stop the save.
Keep(p) ==
    \/ UNCHANGED <<versions, linked>>
    \/ /\ NewVersion(p)
       /\ versions' = [versions EXCEPT ![p] = Trimmed(<<file[p].content>> \o @)]
       /\ \/ linked' = linked \union {p}
          \/ linked' = linked \ {p}

\* QETProject::write() of a project at a path that is or becomes its own,
\* or writeDatabaseFile(), a copy beside it.
Begin(p, itsOwn) ==
    /\ IsOpen /\ Idle
    /\ stage' = "begun" /\ target' = p /\ moves' = itsOwn
    /\ IF itsOwn THEN Keep(p) ELSE p # at /\ UNCHANGED <<versions, linked>>
    /\ UNCHANGED <<file, edits, project, reuse, saving>>

NewFile == [content |-> db, digest |-> NoDigests, medium |-> "written",
            history |-> << >>, limit |-> 0, own |-> TRUE, touched |-> FALSE]

\* The digests of the tables nobody wrote to since the last file
Unchanged == [t \in Tables |-> IF tracked /\ t \notin written THEN cache[t] ELSE None]

\* A slip: the marks go with the copy, whether it becomes the file or not.
CopyForgets ==
    /\ stage = "begun"
    /\ stage' = "copied"
    /\ saving' = NewFile
    /\ reuse' = Unchanged
    /\ tracked' = TRUE
    /\ written' = {}
    /\ UNCHANGED <<disk, at, db, cache, target, moves>>

\* copyTo() and markCopy(): from now on writes are marked.
Copy ==
    /\ stage = "begun"
    /\ stage' = "copied"
    /\ saving' = NewFile
    /\ reuse' = Unchanged
    /\ tracked' = TRUE
    /\ UNCHANGED <<disk, at, db, cache, written, target, moves>>

\* finish(): the rows are normalized, and the digest of the tables is that
\* of the last file or worked out.
Finish ==
    /\ stage = "copied"
    /\ stage' = "finished"
    /\ LET content == Normalized(saving.content)
       IN saving' = [saving EXCEPT
              !.content = content,
              !.digest = [t \in Tables |-> IF reuse[t] # None THEN reuse[t] ELSE content[t]]]
    /\ UNCHANGED <<disk, project, target, moves, reuse>>

\* The file whose history goes on: after Save As, the one the project was.
Previous == IF at = None THEN target ELSE at

\* recordRevision(): what changed since the file before, if that one keeps
\* a history; some tables cannot be compared.
Record ==
    /\ stage = "finished"
    /\ stage' = "recorded"
    /\ IF ~Exists(Previous) \/ file[Previous].history = << >>
       THEN UNCHANGED saving
       ELSE \E changes \in {[from |-> file[Previous].content, to |-> saving.content], None} :
                LET before == file[Previous]
                    saves == Append(before.history, [digest |-> saving.digest, changes |-> changes])
                IN /\ Room(target, Kept(saves, before.limit))
                   /\ saving' = [saving EXCEPT !.history = Kept(saves, before.limit),
                                               !.limit = before.limit,
                                               !.touched = before.touched]
    /\ UNCHANGED <<disk, project, target, moves, reuse>>

\* A slip: the file is put in place while it is written out.
FlushLater ==
    /\ stage = "recorded"
    /\ stage' = "flushed"
    /\ UNCHANGED <<disk, project, target, moves, reuse, saving>>

\* check() and flushFile(), side by side
Flush ==
    /\ stage = "recorded"
    /\ stage' = "flushed"
    /\ saving' = [saving EXCEPT !.medium = "flushed"]
    /\ UNCHANGED <<disk, project, target, moves, reuse>>

\* A slip: the file is opened and written over.
PutWritesOver(p, f) ==
    /\ file' = [file EXCEPT ![p] = f]
    /\ versions' = IF p \in linked THEN [versions EXCEPT ![p][1] = f.content] ELSE versions
    /\ UNCHANGED <<linked, edits>>

\* replace(): the new file takes the name; a version that was the same file
\* as the old one is now that file's only name.
Put(p, f) ==
    /\ file' = [file EXCEPT ![p] = f]
    /\ linked' = linked \ {p}
    /\ UNCHANGED <<versions, edits>>

\* The end of save(), with savedDigests()
Replace ==
    /\ stage = "flushed"
    /\ Put(target, saving)
    /\ cache' = saving.digest
    /\ written' = {}
    /\ at' = IF moves THEN target ELSE at
    /\ UNCHANGED <<db, tracked>>
    /\ NoSave

\* Any of the steps fails: the new file is removed.
GiveUp ==
    /\ ~Idle
    /\ NoSave
    /\ UNCHANGED <<disk, project>>

-----------------------------------------------------------------------------
(* What is done to a file: rewrite() writes a new one, as a save does.      *)

Whole(f) == [f EXCEPT !.medium = "flushed"]

\* setHistory()
SetHistory(p, on) ==
    /\ Idle /\ Exists(p) /\ file[p].medium # "torn"
    /\ LET f == file[p]
           began == [digest |-> f.digest, changes |-> None]
       IN /\ on => Room(p, <<began>>)
          /\ Put(p, IF on /\ f.history # << >> THEN Whole(f)
                    ELSE [Whole(f) EXCEPT !.history = IF on THEN <<began>> ELSE << >>,
                                          !.limit = 0, !.touched = ~f.own])
    /\ UNCHANGED <<project, save>>

SetHistoryLimit(p, limit) ==
    /\ Idle /\ Exists(p) /\ file[p].medium # "torn" /\ file[p].history # << >>
    /\ Put(p, [Whole(file[p]) EXCEPT !.history = Kept(@, limit), !.limit = limit])
    /\ UNCHANGED <<project, save>>

\* exportDelivery() to another path, which is not that of the project
ExportDelivery(p, output) ==
    /\ Idle /\ Exists(p) /\ file[p].medium # "torn"
    /\ output \notin {p, at}
    /\ Put(output, [Whole(file[p]) EXCEPT !.history = << >>, !.limit = 0, !.touched = ~file[p].own])
    /\ UNCHANGED <<project, save>>

\* writeRevision(): the content is normalized and its digest worked out.
WriteRevision(p, k, output) ==
    /\ Idle /\ Exists(p) /\ file[p].medium # "torn"
    /\ k \in 1 .. Len(file[p].history)
    /\ output \notin {p, at}
    /\ WindBack(file[p], k) \in Content
    /\ LET content == Normalized(WindBack(file[p], k))
       IN Put(output, [Whole(file[p]) EXCEPT !.content = content, !.digest = content, !.own = TRUE,
                                             !.history = SubSeq(@, 1, k)])
    /\ UNCHANGED <<project, save>>

-----------------------------------------------------------------------------

Init ==
    /\ file = [p \in Paths |-> None]
    /\ versions = [p \in Paths |-> << >>]
    /\ linked = {} /\ edits = 0
    /\ at = None /\ db = None
    /\ cache = NoDigests /\ tracked = FALSE /\ written = {}
    /\ stage = "idle" /\ target = None /\ moves = FALSE
    /\ reuse = NoDigests /\ saving = None

SaveStep == Copy \/ Finish \/ Record \/ Flush \/ Replace \/ GiveUp

Commands(p) ==
    \/ \E on \in BOOLEAN : SetHistory(p, on)
    \/ \E limit \in Limits : SetHistoryLimit(p, limit)
    \/ \E output \in Paths : ExportDelivery(p, output)
    \/ \E output \in Paths, k \in 1 .. MaxRevisions : WriteRevision(p, k, output)

Next ==
    \/ \E t \in Tables, value \in Values : Edit(t, value)
    \/ NewProject \/ Close \/ Crash
    \/ \E p \in Paths : Open(p)
    \/ \E p \in Paths, itsOwn \in BOOLEAN : Begin(p, itsOwn)
    \/ SaveStep
    \/ \E p \in Paths : Commands(p)
    \/ \E p \in Paths, t \in Tables, value \in Outside : OutsideEdit(p, t, value)

Spec == Init /\ [][Next]_vars

-----------------------------------------------------------------------------

(* A file this program wrote and nobody else touched is whole, whatever     *)
(* failed or crashed, and its digest is that of its content, however many   *)
(* tables were not read again to make it: it opens as it was saved.         *)
OpensAgain ==
    \A p \in Paths : Exists(p) /\ file[p].own =>
        file[p].medium = "flushed" /\ file[p].digest = file[p].content

(* "Marked changed, so that saving writes a sound file" (tellRepair()): a   *)
(* project's file is sound once it was saved, also when it was opened with  *)
(* the changes another program made.                                        *)
SavesSound ==
    [][\A p \in Paths : Replace /\ file'[p] # file[p] => file'[p].digest = file'[p].content]_vars

(* "As it was at its revision": as long as no other program wrote into      *)
(* what a history covers, each save in it whose later changes were recorded *)
(* can be gone back to, and gives what was saved.                           *)
HistoryGoesBack ==
    \A p \in Paths : Exists(p) /\ ~file[p].touched =>
        \A k \in 1 .. Len(file[p].history) :
            (\A j \in k + 1 .. Len(file[p].history) : file[p].history[j].changes # None)
                => WindBack(file[p], k) = file[p].history[k].digest

(* A save changes no previous version: it adds what it replaces in front    *)
(* and drops the oldest.                                                    *)
VersionsStay ==
    [][\A p \in Paths : versions'[p] # versions[p] =>
        \/ edits' # edits
        \/ /\ Exists(p) /\ versions'[p][1] = file[p].content
           /\ \A i \in 2 .. Len(versions'[p]) : versions'[p][i] = versions[p][i - 1]
           /\ Len(versions'[p]) >= Len(versions[p])]_vars

(* A save is all or nothing: a path goes from one whole file to another,    *)
(* and a save puts there what the project holds.                            *)
Promise == INSTANCE WholeSaves WITH
        Saved <- Normalized,
        held  <- db,
        home  <- at,
        there <- [p \in Paths |-> IF Exists(p) /\ file[p].medium # "torn"
                                  THEN file[p].content ELSE None]

WholeOrNothing == Promise!Spec
=============================================================================
