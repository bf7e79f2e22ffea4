----------------------------- MODULE ProjectFile -----------------------------
(***************************************************************************)
(* One project file shared by several sessions of QElectroTech: opening it  *)
(* (qetdiagrameditor.cpp, QETProject::openFile()), saving it (ProjectView,  *)
(* QETProject::write()) and noticing that somebody else saved it            *)
(* (QETProject::changedOnDisk()).                                           *)
(*                                                                          *)
(* A step is one access to the file system and what the program does on it  *)
(* until the next one, or the user's answer to a dialog.  Here each call on *)
(* the lock is one step; module ProjectLock takes it apart.                 *)
(***************************************************************************)
EXTENDS Naturals

CONSTANTS
    Session,     \* the running programs, each with at most one project
    Edit,        \* the changes people make; each is made once
    NoOne,       \* nobody has the lock
    Unknown,     \* no content is remembered
    LocksOn,     \* ProjectLock::mayTake(): the setting, and not headless
    LockFails,   \* whether the lock file ever fails to be made or removed, or
                 \* a session finds the project file read-only when it opens it
    MayTakeOver, \* whether a user ever answers "Open anyway"
    MaySaveAs,   \* whether another project is ever saved as this file
    Database,    \* whether the file is a .qetdb
    SeesDead,    \* whether the holder's crash can be told (same machine)
    Overlap      \* whether a save or an open meets another one half way

ASSUME ConstantsAssumption ==
    /\ {LocksOn, LockFails, MayTakeOver, MaySaveAs, Database, SeesDead, Overlap} \subseteq BOOLEAN
    /\ NoOne \notin Session
    /\ \A content \in SUBSET Edit : content # Unknown

(* A content of the file: the edits it has in it.                           *)
Content == SUBSET Edit

VARIABLES
    disk,      \* the content of the file
    owner,     \* whose session its lock file names, or NoOne
    made,      \* the edits made so far
    pc,        \* what the session does next
    work,      \* the content of its project
    named,     \* m_file_path is the file (else untitled or another file)
    holds,     \* the project has the lock object and m_held is set
    heard,     \* lockTaken() of that object is connected to the window
    lockedOut, \* m_locked_out_path is the file
    known,     \* m_disk_hash
    sameStat,  \* m_disk_size and m_disk_mtime are the file's
    hash,      \* a content hash not yet remembered: the parameter of
               \* rememberDiskState()
    agreed,    \* the user has agreed to replace what is in the file
    base,      \* history: the content this session last read or wrote
    shown,     \* history: the content when the user was last asked
    taken,     \* history: the lock was taken over from this session
    told,      \* history: the user was told so
    unlocked,  \* history: its project was let in without the lock
    crossed    \* history: since this session last read or wrote the file
               \* another one saved, and one of the two had been let in so

project == <<work, named, holds, heard, lockedOut>>
remembered == <<known, sameStat, hash>>
beside == <<unlocked, crossed>>
history == <<base, shown, taken, told, beside>>
vars == <<disk, owner, made, pc, project, remembered, agreed, history>>

Opening == {"read", "readAgain", "stat"}
Saving == {"check", "replace", "restat", "rehash", "relock"}
Labels == {"none", "ask", "load", "open", "askChanged", "crashed"} \union Opening \union Saving

TypeOK ==
    /\ disk \in Content
    /\ owner \in Session \union {NoOne}
    /\ made \in SUBSET Edit
    /\ pc \in [Session -> Labels]
    /\ work \in [Session -> Content]
    /\ named \in [Session -> BOOLEAN]
    /\ holds \in [Session -> BOOLEAN]
    /\ heard \in [Session -> BOOLEAN]
    /\ lockedOut \in [Session -> BOOLEAN]
    /\ sameStat \in [Session -> BOOLEAN]
    /\ agreed \in [Session -> BOOLEAN]
    /\ taken \in [Session -> BOOLEAN]
    /\ told \in [Session -> BOOLEAN]
    /\ unlocked \in [Session -> BOOLEAN]
    /\ crossed \in [Session -> BOOLEAN]
    /\ known \in [Session -> Content \union {Unknown}]
    /\ hash \in [Session -> Content \union {Unknown}]
    /\ base \in [Session -> Content \union {Unknown}]
    /\ shown \in [Session -> Content \union {Unknown}]

Init ==
    /\ disk = {}
    /\ owner = NoOne
    /\ made = {}
    /\ pc = [s \in Session |-> "none"]
    /\ work = [s \in Session |-> {}]
    /\ named = [s \in Session |-> FALSE]
    /\ holds = [s \in Session |-> FALSE]
    /\ heard = [s \in Session |-> FALSE]
    /\ lockedOut = [s \in Session |-> FALSE]
    /\ known = [s \in Session |-> Unknown]
    /\ sameStat = [s \in Session |-> FALSE]
    /\ hash = [s \in Session |-> Unknown]
    /\ agreed = [s \in Session |-> FALSE]
    /\ base = [s \in Session |-> Unknown]
    /\ shown = [s \in Session |-> Unknown]
    /\ taken = [s \in Session |-> FALSE]
    /\ told = [s \in Session |-> FALSE]
    /\ unlocked = [s \in Session |-> FALSE]
    /\ crossed = [s \in Session |-> FALSE]

At(s, label) == pc[s] = label
Goto(s, label) == pc' = [pc EXCEPT ![s] = label]
Put(f, s, v) == [f EXCEPT ![s] = v]

-----------------------------------------------------------------------------
(* The lock.                                                                *)

\* liveHolder() in acquire() finds nobody: there is no lock, or it is that
\* of a process seen to be gone.  A lock that a session failed to remove
\* when it let it go keeps everybody out, that session too.
Free == owner # NoOne => SeesDead /\ pc[owner] = "crashed"

\* liveHolder() with an own session.
FreeOrOwn(s) == Free \/ owner = s

\* acquire() answers Acquired ...
TakeLock(s) ==
    /\ owner' = s
    /\ holds' = Put(holds, s, TRUE)
    /\ UNCHANGED unlocked

\* ... or Unavailable, when the file it was to replace may be gone.  The
\* project is opened, or stays open, as without locking.
LackLock(s, mayReplace) ==
    /\ LockFails
    /\ owner' = owner \/ (mayReplace /\ owner' = NoOne)
    /\ unlocked' = Put(unlocked, s, TRUE)
    /\ UNCHANGED holds

\* A slip: release() without the test that the lock is ours.
LetGoOfAny(s) == owner' = NoOne

\* release(): a lock that names another session is left alone.  Whether the
\* own one could be removed is not asked.
LetGo(s) ==
    \/ owner' = IF holds[s] /\ owner = s THEN NoOne ELSE owner
    \/ LockFails /\ UNCHANGED owner

\* refresh(), on a timer: in the dialogs of an open project too, and while
\* its folios are built, when the progress bar runs the event loop.
Heartbeat(s) ==
    /\ holds[s] /\ owner # s
    /\ pc[s] \in {"load", "open", "askChanged"}
    /\ IF owner = NoOne
       THEN owner' = s /\ UNCHANGED <<holds, told>>
       ELSE /\ holds' = Put(holds, s, FALSE)
            /\ told' = Put(told, s, heard[s])
            /\ UNCHANGED owner
    /\ UNCHANGED <<disk, made, pc, work, named, heard, lockedOut, remembered, agreed,
                   base, shown, taken, beside>>

-----------------------------------------------------------------------------
(* Opening the project.                                                     *)

Open(s) ==
    /\ At(s, "none")
    /\ \/ ~LocksOn /\ Goto(s, "read") /\ UNCHANGED <<owner, holds, unlocked>>
       \/ LocksOn /\ Free /\ TakeLock(s) /\ Goto(s, "read")
       \/ LocksOn /\ ~Free /\ Goto(s, "ask") /\ UNCHANGED <<owner, holds, unlocked>>
       \/ LocksOn /\ LackLock(s, Free) /\ Goto(s, "read")
    /\ UNCHANGED <<disk, made, work, named, heard, lockedOut, remembered, agreed,
                   base, shown, taken, told, crossed>>

\* A slip: the answer "Open read-only" does not reach the project.
OpenReadOnlyForgotten(s) ==
    /\ At(s, "ask")
    /\ Goto(s, "read")
    /\ UNCHANGED <<disk, owner, made, project, remembered, agreed, history>>

\* The answers to askAboutLock().
OpenReadOnly(s) ==
    /\ At(s, "ask")
    /\ Goto(s, "read")
    /\ lockedOut' = Put(lockedOut, s, TRUE)
    /\ UNCHANGED <<disk, owner, made, work, named, holds, heard, remembered, agreed, history>>

OpenAnyway(s) ==
    /\ MayTakeOver
    /\ At(s, "ask")
    /\ Goto(s, "read")
    /\ TakeLock(s) \/ LackLock(s, TRUE)
    /\ taken' = IF owner \in {NoOne, owner'} THEN taken ELSE Put(taken, owner, TRUE)
    /\ UNCHANGED <<disk, made, work, named, heard, lockedOut, remembered, agreed,
                   base, shown, told, crossed>>

CancelOpen(s) ==
    /\ At(s, "ask")
    /\ Goto(s, "none")
    /\ UNCHANGED <<disk, owner, made, project, remembered, agreed, history>>

\* file->readAll(): the hash remembered later is that of these bytes.  A
\* .qetdb is then read a second time, as a database.
Read(s) ==
    /\ At(s, "read")
    /\ hash' = Put(hash, s, disk)
    /\ IF Database
       THEN Goto(s, "readAgain") /\ UNCHANGED <<work, base>>
       ELSE Goto(s, "stat") /\ work' = Put(work, s, disk) /\ base' = Put(base, s, disk)
    /\ UNCHANGED <<disk, owner, made, named, holds, heard, lockedOut, known, sameStat,
                   agreed, shown, taken, told, beside>>

ReadAgain(s) ==
    /\ At(s, "readAgain")
    /\ Goto(s, "stat")
    /\ work' = Put(work, s, disk)
    /\ base' = Put(base, s, disk)
    /\ UNCHANGED <<disk, owner, made, named, holds, heard, lockedOut, remembered, agreed,
                   shown, taken, told, beside>>

\* rememberDiskState(): the size and time the file has by now.
Stat(s) ==
    /\ At(s, "stat")
    /\ Goto(s, "load")
    /\ known' = Put(known, s, hash[s])
    /\ sameStat' = Put(sameStat, s, TRUE)
    /\ hash' = Put(hash, s, Unknown)
    /\ UNCHANGED <<disk, owner, made, project, agreed, history>>

\* The folios are built: the project gets the lock, if it is still held.
Show(s) ==
    /\ At(s, "load")
    /\ Goto(s, "open")
    /\ named' = Put(named, s, TRUE)
    /\ heard' = Put(heard, s, holds[s])
    /\ UNCHANGED <<disk, owner, made, work, holds, lockedOut, remembered, agreed, history>>

NewProject(s) ==
    /\ MaySaveAs
    /\ At(s, "none")
    /\ Goto(s, "open")
    /\ UNCHANGED <<disk, owner, made, project, remembered, agreed, history>>

MakeEdit(s, e) ==
    /\ At(s, "open")
    /\ e \notin made
    /\ made' = made \union {e}
    /\ work' = Put(work, s, work[s] \union {e})
    /\ UNCHANGED <<disk, owner, pc, named, holds, heard, lockedOut, remembered, agreed, history>>

-----------------------------------------------------------------------------
(* Saving the project.                                                      *)

\* A slip: the check as it was before #1579, by size and time alone.
ChangedByTime(s) == known[s] # Unknown /\ ~sameStat[s]

ChangedOnDisk(s) == known[s] # Unknown /\ ~sameStat[s] /\ known[s] # disk

\* A slip: write() without its test of m_locked_out_path.
StartWriteLockedOut(s, overwrite) ==
    /\ Goto(s, IF overwrite THEN "replace" ELSE "check")
    /\ agreed' = Put(agreed, s, overwrite)

\* The head of write(): a project opened read-only for another's lock is
\* not written; one told to overwrite skips the check.
StartWrite(s, overwrite) ==
    /\ Goto(s, IF lockedOut[s] THEN "open" ELSE IF overwrite THEN "replace" ELSE "check")
    /\ agreed' = Put(agreed, s, overwrite /\ ~lockedOut[s])

\* ProjectView::writeProject(): the user is asked first if the file changed.
Save(s) ==
    /\ At(s, "open") /\ named[s]
    /\ IF ChangedOnDisk(s)
       THEN Goto(s, "askChanged") /\ shown' = Put(shown, s, disk) /\ UNCHANGED agreed
       ELSE StartWrite(s, FALSE) /\ UNCHANGED shown
    /\ UNCHANGED <<disk, owner, made, project, remembered, base, taken, told, beside>>

\* The autosave timer, a script: nobody to ask.
Autosave(s) ==
    /\ At(s, "open") /\ named[s]
    /\ StartWrite(s, FALSE)
    /\ UNCHANGED <<disk, owner, made, project, remembered, history>>

Overwrite(s) ==
    /\ At(s, "askChanged")
    /\ StartWrite(s, TRUE)
    /\ UNCHANGED <<disk, owner, made, project, remembered, history>>

CancelSave(s) ==
    /\ At(s, "askChanged")
    /\ Goto(s, "open")
    /\ shown' = Put(shown, s, Unknown)
    /\ UNCHANGED <<disk, owner, made, project, remembered, agreed, base, taken, told, beside>>

\* Save As under another name, or "Save as a copy": the lock moves there.
SaveElsewhere(s) ==
    /\ pc[s] \in {"open", "askChanged"} /\ named[s]
    /\ Goto(s, "open")
    /\ named' = Put(named, s, FALSE)
    /\ LetGo(s)
    /\ holds' = Put(holds, s, FALSE)
    /\ known' = Put(known, s, Unknown)
    /\ sameStat' = Put(sameStat, s, FALSE)
    /\ base' = Put(base, s, Unknown)
    /\ shown' = Put(shown, s, Unknown)
    /\ unlocked' = Put(unlocked, s, FALSE)
    /\ crossed' = Put(crossed, s, FALSE)
    /\ UNCHANGED <<disk, made, work, heard, lockedOut, hash, agreed, taken, told>>

\* Save As under the name of the file: refuseIfLockedByOther(), the file
\* dialog's own question, setFilePath(), write().  Nothing is remembered of
\* a file this project never read, so the check finds no change.
SaveAs(s) ==
    /\ MaySaveAs
    /\ At(s, "open") /\ ~named[s]
    /\ LocksOn => FreeOrOwn(s)
    /\ named' = Put(named, s, TRUE)
    /\ Goto(s, IF lockedOut[s] THEN "open" ELSE "check")
    /\ agreed' = Put(agreed, s, ~lockedOut[s])
    /\ shown' = Put(shown, s, disk)
    /\ UNCHANGED <<disk, owner, made, work, holds, heard, lockedOut, remembered,
                   base, taken, told, beside>>

Back(s) ==
    /\ Goto(s, "open")
    /\ agreed' = Put(agreed, s, FALSE)
    /\ shown' = Put(shown, s, Unknown)

\* A slip: the check left to the window that asks.
CheckNothing(s) ==
    /\ At(s, "check")
    /\ Goto(s, "replace")
    /\ UNCHANGED <<disk, owner, made, project, remembered, agreed, history>>

Check(s) ==
    /\ At(s, "check")
    /\ IF ChangedOnDisk(s) THEN Back(s) ELSE Goto(s, "replace") /\ UNCHANGED <<agreed, shown>>
    /\ UNCHANGED <<disk, owner, made, project, remembered, base, taken, told, beside>>

\* Whoever has read the file and may write to it.
HasRead(s) == pc[s] \notin {"none", "ask", "read", "readAgain", "crashed"}
MayWrite(s) == HasRead(s) /\ (holds[s] \/ unlocked[s])

\* A save by s passes these by.
PassedBy(s) == {t \in Session \ {s} : MayWrite(t) /\ (unlocked[s] \/ unlocked[t])}

Crossing(s) ==
    crossed' = [t \in Session |-> t # s /\ (crossed[t] \/ t \in PassedBy(s))]

\* A slip: the hash handed over is that of the file being replaced.
ReplaceHashedFirst(s) ==
    /\ At(s, "replace")
    /\ Goto(s, "restat")
    /\ disk' = work[s]
    /\ sameStat' = [t \in Session |-> FALSE]
    /\ hash' = IF Database THEN Put(hash, s, disk) ELSE hash
    /\ base' = Put(base, s, work[s])
    /\ Crossing(s)
    /\ UNCHANGED <<owner, made, project, known, agreed, shown, taken, told, unlocked>>

\* The new file is renamed over the old one.  The save of a .qetdb returns
\* the hash of what it wrote.
Replace(s) ==
    /\ At(s, "replace")
    /\ Goto(s, "restat")
    /\ disk' = work[s]
    /\ sameStat' = [t \in Session |-> FALSE]
    /\ hash' = IF Database THEN Put(hash, s, work[s]) ELSE hash
    /\ base' = Put(base, s, work[s])
    /\ Crossing(s)
    /\ UNCHANGED <<owner, made, project, known, agreed, shown, taken, told, unlocked>>

\* A slip: the state on disk remembered although nothing was written.
ReplaceFailsRemembers(s) ==
    /\ At(s, "replace")
    /\ Back(s)
    /\ known' = Put(known, s, disk)
    /\ sameStat' = Put(sameStat, s, TRUE)
    /\ UNCHANGED <<disk, owner, made, project, hash, base, taken, told, beside>>

ReplaceFails(s) ==
    /\ At(s, "replace")
    /\ Back(s)
    /\ UNCHANGED <<disk, owner, made, project, remembered, base, taken, told, beside>>

\* rememberDiskState() after the save: the size and time first, then the
\* hash, that of the file on disk unless the save returned it.
Restat(s) ==
    /\ At(s, "restat")
    /\ sameStat' = Put(sameStat, s, TRUE)
    /\ IF hash[s] = Unknown
       THEN Goto(s, "rehash") /\ UNCHANGED <<known, hash>>
       ELSE /\ Goto(s, "relock")
            /\ known' = Put(known, s, hash[s])
            /\ hash' = Put(hash, s, Unknown)
    /\ UNCHANGED <<disk, owner, made, project, agreed, history>>

Rehash(s) ==
    /\ At(s, "rehash")
    /\ Goto(s, "relock")
    /\ known' = Put(known, s, disk)
    /\ UNCHANGED <<disk, owner, made, project, sameStat, hash, agreed, history>>

\* A project without the lock takes it now, if it can.
Relock(s) ==
    /\ At(s, "relock")
    /\ Back(s)
    /\ \/ LocksOn /\ ~holds[s] /\ Free /\ TakeLock(s)
       \/ LocksOn /\ ~holds[s] /\ LackLock(s, Free)
       \/ ~(LocksOn /\ ~holds[s] /\ Free) /\ UNCHANGED <<owner, holds, unlocked>>
    /\ UNCHANGED <<disk, made, work, named, heard, lockedOut, remembered,
                   base, taken, told, crossed>>

-----------------------------------------------------------------------------
(* The end of a project, and what happens to the file by itself.            *)

Forget(s, label) ==
    /\ Goto(s, label)
    /\ work' = Put(work, s, {})
    /\ named' = Put(named, s, FALSE)
    /\ holds' = Put(holds, s, FALSE)
    /\ heard' = Put(heard, s, FALSE)
    /\ lockedOut' = Put(lockedOut, s, FALSE)
    /\ known' = Put(known, s, Unknown)
    /\ sameStat' = Put(sameStat, s, FALSE)
    /\ hash' = Put(hash, s, Unknown)
    /\ agreed' = Put(agreed, s, FALSE)
    /\ base' = Put(base, s, Unknown)
    /\ shown' = Put(shown, s, Unknown)
    /\ taken' = Put(taken, s, FALSE)
    /\ told' = Put(told, s, FALSE)
    /\ unlocked' = Put(unlocked, s, FALSE)
    /\ crossed' = Put(crossed, s, FALSE)
    /\ UNCHANGED <<disk, made>>

Close(s) ==
    /\ At(s, "open")
    /\ LetGo(s)
    /\ Forget(s, "none")

Crash(s) ==
    /\ ~ pc[s] \in {"none", "crashed"}
    /\ Forget(s, "crashed")
    /\ UNCHANGED owner

\* A network share reports another time for the same content.
Settle(s) ==
    /\ sameStat[s]
    /\ sameStat' = Put(sameStat, s, FALSE)
    /\ UNCHANGED <<disk, owner, made, pc, project, known, hash, agreed, history>>

-----------------------------------------------------------------------------

Step(s) ==
    \/ Heartbeat(s)
    \/ Open(s) \/ OpenReadOnly(s) \/ OpenAnyway(s) \/ CancelOpen(s)
    \/ Read(s) \/ ReadAgain(s) \/ Stat(s) \/ Show(s)
    \/ NewProject(s) \/ \E e \in Edit : MakeEdit(s, e)
    \/ Save(s) \/ Autosave(s) \/ Overwrite(s) \/ CancelSave(s)
    \/ SaveElsewhere(s) \/ SaveAs(s)
    \/ Check(s) \/ Replace(s) \/ ReplaceFails(s)
    \/ Restat(s) \/ Rehash(s) \/ Relock(s)
    \/ Close(s) \/ Crash(s) \/ Settle(s)

\* Unless Overlap, nobody steps while another is in the middle of an open
\* or a save.
Alone(s) == Overlap \/ \A t \in Session \ {s} : pc[t] \notin Opening \union Saving

Next == \E s \in Session : Alone(s) /\ Step(s)

Spec == Init /\ [][Next]_vars

-----------------------------------------------------------------------------
(* Safety.                                                                  *)

(* No save takes out of the file an edit somebody saved there, unless the   *)
(* user of that save was asked and agreed to replace the file, or somebody  *)
(* let in without the lock is about: another session has saved since the    *)
(* saver last read or wrote the file, and one of the two was let in so      *)
(* ("instead of both editing and the last save wiping the other's work",    *)
(* projectlock.h).                                                          *)
NoLostEdit ==
    [][\/ disk \subseteq disk'
       \/ \E s \in Session :
             (agreed[s] \/ crossed[s]) /\ At(s, "replace") /\ At(s, "restat")']_vars

(* changedOnDisk() finds every change: while the file is not what this      *)
(* session last read or wrote, the check of its next save says so.          *)
ChangeIsSeen ==
    \A s \in Session :
        At(s, "open") /\ known[s] # Unknown /\ disk # base[s] => ChangedOnDisk(s)

(* changedOnDisk() finds nothing else: a share that settles the time of a   *)
(* file late, or a save of the same content, is not a change (#1579).       *)
NoFalseAlarm ==
    \A s \in Session :
        At(s, "open") /\ ChangedOnDisk(s) => disk # base[s]

(* The file a save is about to replace is not locked by somebody else.      *)
NotOntoAnothers == \A s \in Session : At(s, "replace") => FreeOrOwn(s)

(* Who overwrites a changed file overwrites the change the dialog spoke of. *)
OverwritesWhatWasShown ==
    [][\A s \in Session : Replace(s) /\ agreed[s] => disk = shown[s]]_vars

(* Whose lock was taken over is told so at the next heartbeat.              *)
TakenMeansTold ==
    [][\A s \in Session : Heartbeat(s) /\ taken[s] => told'[s]]_vars

(* Where everybody opens the file through its lock, nobody takes a lock     *)
(* over and no other project is saved as the file, these hold together:     *)
(* one session at a time has the lock; besides it only those can be saving  *)
(* that were told that there is no lock to be had; and the project of who   *)
(* can be saving has all that is in the file, unless a save of or beside    *)
(* one let in without the lock has passed it by.  (As a project saved as    *)
(* the file is one that has the lock, was opened read-only or was let in    *)
(* without it, and one opened read-only is never saved, nobody else saves.) *)
Cautious == LocksOn /\ ~MayTakeOver /\ ~MaySaveAs

HoldersOwn == \A s \in Session : holds[s] => owner = s

LetIn(s) == holds[s] \/ lockedOut[s] \/ unlocked[s]

WritersHold ==
    \A s \in Session :
        /\ pc[s] \in {"none", "ask", "crashed"} => ~LetIn(s)
        /\ pc[s] \in Opening \union {"load"} \/ named[s] => LetIn(s)
        /\ pc[s] \in Saving \union {"askChanged"} => named[s]
        /\ lockedOut[s] => pc[s] \notin Saving /\ ~holds[s] /\ ~unlocked[s]

WritersAreUpToDate ==
    \A s \in Session :
        /\ MayWrite(s) /\ ~crossed[s] => disk \subseteq work[s]
        /\ crossed[s] => MayWrite(s)

OneWriter == HoldersOwn /\ WritersHold /\ WritersAreUpToDate

(* The detailed open and save implement working in turns (FileTurns): the   *)
(* turn starts when the project of the session with the lock has been read; *)
(* who was let in without the lock is a guest.                              *)
Turn ==
    IF owner # NoOne /\ holds[owner] /\ MayWrite(owner) /\ ~unlocked[owner]
    THEN owner ELSE NoOne
Draft == IF Turn = NoOne THEN {} ELSE work[Turn]
Guests == {s \in Session : MayWrite(s) /\ unlocked[s]}
Crossed == {s \in Session : crossed[s]}
Turns == INSTANCE FileTurns WITH
    file <- disk, writer <- Turn, draft <- Draft, guests <- Guests, crossed <- Crossed
InTurns == Turns!Spec
=============================================================================
