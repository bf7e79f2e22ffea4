------------------------------ MODULE Recovery ------------------------------
(***************************************************************************)
(* What a crash leaves of one saved project: the snapshots written every    *)
(* two minutes by a worker thread (QETProject::writeBackup()), the working  *)
(* copy committed at each edit (projectDataBase::commitWorkingCopy()), the  *)
(* flags that say there is something to save, and the dialog that offers    *)
(* it all at the next start (QETApp::checkBackupFiles()).                   *)
(*                                                                          *)
(* A step is one event of the GUI thread or one file operation of the       *)
(* worker.  A crash may come between any two.                               *)
(***************************************************************************)
EXTENDS Naturals, Sequences

CONSTANTS
    Generations,     \* QETProject::BackupGenerations
    MaxEdits,        \* bound: steps pushed on the undo stack
    MaxOptions,      \* bound: changes made outside the undo stack
    MaxCrashes,      \* bound
    Circumstances,   \* the sets of things that may happen together
    Torn,            \* the content of a snapshot cut short
    None             \* no snapshot, no working copy, nothing picked

ASSUME ConstantsAssumption ==
    /\ Generations \in Nat \ {0}
    /\ {MaxEdits, MaxOptions, MaxCrashes} \subseteq Nat

ASSUME CircumstancesAssumption ==
    Circumstances \subseteq SUBSET {"options", "autosave", "save fails", "snapshot fails",
                                   "snapshot restored", "collections", "symbol overwritten"}

(* The drawing is the sequence of the undo steps it is made of; what is     *)
(* changed without an undo entry is a count: the options (m_modified), and  *)
(* the embedded symbols and title block templates.                          *)
Drawing == Seq(1 .. MaxEdits)
Content == [drawing : Drawing, options : 0 .. MaxOptions, collections : 0 .. MaxOptions]

ASSUME NoneAssumption == None \notin Content

VARIABLES
    may,       \* what may happen: changes outside the undo stack, of three
               \* kinds; write() without doSave() (by the autosave timer, a
               \* script, an assistant); failures; a snapshot restored
    pc,        \* "down", "offer": the dialog is open, "restore": it has
               \* been accepted, "open"
    file,      \* the content of the project's file
    work,      \* the content of the open project
    floor,     \* how much of the drawing the undo stack cannot undo
    undone,    \* the steps it can redo
    clean,     \* the drawing at its clean index
    modified,  \* m_modified
    needed,    \* m_backup_needed
    slot,      \* m_next_backup_slot
    snaps,     \* m_backup_files: what each slot's file holds
    worker,    \* the job of m_backup_future
    copy,      \* the working copy as last committed, and whether its tables
               \* lack changes of the collections (m_collections_changed)
    left,      \* the snapshots crashes left
    leftCopy,  \* the newest working copy left that says it is modified
    picked,    \* what the user chose to restore
    edits,     \* undo steps made so far
    crashes

stack == <<work, floor, undone, clean>>
backup == <<needed, slot, snaps, worker>>
rest == <<left, leftCopy, picked, edits, crashes>>
vars == <<may, pc, file, stack, modified, backup, copy, rest>>

Idle == [state |-> "idle"]
Slot == 0 .. Generations - 1
Job == [state : {"queued", "opened"}, slot : Slot, content : Content]
Snapshot == Content \union {Torn}
WorkingCopy == [content : Content, modified : BOOLEAN, queued : BOOLEAN]
Choice == [copy : BOOLEAN, content : Snapshot]

StateOK ==
    /\ pc \in {"down", "offer", "restore", "open"}
    /\ file \in Content
    /\ work \in Content
    /\ floor \in Nat
    /\ undone \in Drawing
    /\ clean \in Drawing
    /\ modified \in BOOLEAN
    /\ needed \in BOOLEAN
    /\ slot \in Slot
    /\ snaps \in [Slot -> Snapshot \union {None}]
    /\ worker \in Job \union {Idle}
    /\ copy \in WorkingCopy \union {None}
    /\ pc = "open" => copy \in WorkingCopy
    /\ left \subseteq Snapshot
    /\ leftCopy \in Content \union {None}
    /\ picked \in Choice \union {None}
    /\ edits \in 0 .. MaxEdits
    /\ crashes \in 0 .. MaxCrashes

TypeOK == may \in Circumstances /\ StateOK

NoSnapshot == [s \in Slot |-> None]
Empty == [drawing |-> <<>>, options |-> 0, collections |-> 0]

Init ==
    /\ may \in Circumstances
    /\ pc = "down"
    /\ file = Empty /\ work = Empty
    /\ floor = 0 /\ undone = <<>> /\ clean = <<>> /\ modified = FALSE
    /\ needed = FALSE /\ slot = 0 /\ snaps = NoSnapshot /\ worker = Idle
    /\ copy = None
    /\ left = {} /\ leftCopy = None /\ picked = None
    /\ edits = 0 /\ crashes = 0

-----------------------------------------------------------------------------
(* The tables brought up to date.  The collections are compared only when   *)
(* they are said to have changed, as they are when the project is opened.   *)
Tables ==
    [drawing     |-> work'.drawing,
     options     |-> work'.options,
     collections |-> IF copy = None \/ copy.queued THEN work'.collections
                     ELSE copy.content.collections]

Committed(unsaved) == copy' = [content |-> Tables, modified |-> unsaved, queued |-> FALSE]

(* The working copy notes whether the project then differs from its file.   *)
Commit == Committed(modified' \/ work'.drawing # clean')

JobOf(s, content) == [state |-> "queued", slot |-> s, content |-> content]

(* The project is built from what was read: an undo stack of its own, whose *)
(* clean index is where it starts.                                          *)
Built(content) ==
    /\ work' = content
    /\ floor' = Len(content.drawing)
    /\ undone' = <<>>
    /\ clean' = content.drawing

(* Opened from its file there is nothing to back up.                        *)
OpenFile ==
    /\ Built(file)
    /\ modified' = FALSE
    /\ Commit
    /\ pc' = "open"
    /\ UNCHANGED <<file, backup, rest>>

(* Nothing is left, or the user does not want to be asked.                  *)
Start ==
    /\ pc = "down"
    /\ OpenFile

Offer ==
    /\ pc = "down"
    /\ left # {} \/ leftCopy # None
    /\ pc' = "offer"
    /\ UNCHANGED <<file, stack, modified, backup, copy, rest>>

(* What is not picked is removed before what is picked is opened.           *)
Pick(choice) ==
    /\ picked' = choice
    /\ left' = {}
    /\ leftCopy' = None
    /\ pc' = "restore"
    /\ UNCHANGED <<file, stack, modified, backup, copy, edits, crashes>>

AcceptCopy ==
    /\ pc = "offer"
    /\ leftCopy # None
    /\ Pick([copy |-> TRUE, content |-> leftCopy])

AcceptSnapshot ==
    /\ pc = "offer"
    /\ "snapshot restored" \in may
    /\ \E snap \in left : Pick([copy |-> FALSE, content |-> snap])

Decline ==
    /\ pc = "offer"
    /\ left' = {}
    /\ leftCopy' = None
    /\ pc' = "down"
    /\ UNCHANGED <<file, stack, modified, backup, copy, picked, edits, crashes>>

RestoredCopy(unsaved) ==
    /\ pc = "restore"
    /\ picked.copy
    /\ Built(picked.content)
    /\ modified' = unsaved
    /\ worker' = JobOf(slot, picked.content)
    /\ slot' = (slot + 1) % Generations
    /\ needed' = TRUE
    /\ Commit
    /\ picked' = None
    /\ pc' = "open"
    /\ UNCHANGED <<file, snaps, left, leftCopy, edits, crashes>>

(* Mutant: a recovered project is not set modified.                         *)
RestoreCopyUnmodified == RestoredCopy(FALSE)

(* The project recovered from a working copy has to be saved.               *)
RestoreCopy == RestoredCopy(TRUE)

(* A snapshot that cannot be read is passed over for the project's file.    *)
RestoreSnapshot ==
    /\ pc = "restore"
    /\ ~picked.copy
    /\ LET content == IF picked.content = Torn THEN file ELSE picked.content IN
       /\ Built(content)
       /\ worker' = JobOf(slot, content)
    /\ modified' = FALSE
    /\ slot' = (slot + 1) % Generations
    /\ needed' = FALSE
    /\ Commit
    /\ picked' = None
    /\ pc' = "open"
    /\ UNCHANGED <<file, snaps, left, leftCopy, edits, crashes>>

-----------------------------------------------------------------------------
(* Mutant: indexChanged() is not connected to commitWorkingCopy().          *)
MovedUncommitted ==
    /\ needed' = TRUE
    /\ UNCHANGED <<pc, file, floor, slot, snaps, worker, copy, left, leftCopy, picked, crashes>>

(* Mutant: indexChanged() does not ask for a backup.                        *)
MovedUnnoticed ==
    /\ Commit
    /\ UNCHANGED <<pc, file, floor, backup, left, leftCopy, picked, crashes>>

(* A step of the undo stack asks for a backup and is committed at once.     *)
Moved ==
    /\ needed' = TRUE
    /\ Commit
    /\ UNCHANGED <<pc, file, floor, slot, snaps, worker, left, leftCopy, picked, crashes>>

Edited ==
    /\ pc = "open"
    /\ edits < MaxEdits
    /\ edits' = edits + 1
    /\ work' = [work EXCEPT !.drawing = Append(@, edits + 1)]
    /\ undone' = <<>>
    /\ Moved

Edit ==
    /\ UNCHANGED <<clean, modified>>
    /\ Edited

(* The view of a new folio calls setClean() while its command is being      *)
(* pushed, and says that the project is modified.                           *)
AddFolio ==
    /\ clean' = work.drawing
    /\ modified' = TRUE
    /\ Edited

Undo ==
    /\ pc = "open"
    /\ Len(work.drawing) > floor
    /\ LET n == Len(work.drawing) IN
       /\ work' = [work EXCEPT !.drawing = SubSeq(@, 1, n - 1)]
       /\ undone' = <<work.drawing[n]>> \o undone
    /\ UNCHANGED <<clean, modified, edits>>
    /\ Moved

Redo ==
    /\ pc = "open"
    /\ undone # <<>>
    /\ work' = [work EXCEPT !.drawing = Append(@, Head(undone))]
    /\ undone' = Tail(undone)
    /\ UNCHANGED <<clean, modified, edits>>
    /\ Moved

(* Project options have no undo step.                                       *)
EditOptions ==
    /\ pc = "open"
    /\ "options" \in may /\ work.options < MaxOptions
    /\ work' = [work EXCEPT !.options = @ + 1]
    /\ modified' = TRUE
    /\ needed' = TRUE
    /\ UNCHANGED <<pc, file, floor, undone, clean, slot, snaps, worker, copy, rest>>

(* A symbol or a title block template is added, replaced or removed: that   *)
(* asks for a backup, but is neither an undo step nor a modification.       *)
EditCollection ==
    /\ pc = "open"
    /\ "collections" \in may /\ work.collections < MaxOptions
    /\ work' = [work EXCEPT !.collections = @ + 1]
    /\ needed' = TRUE
    /\ copy' = [copy EXCEPT !.queued = TRUE]
    /\ UNCHANGED <<pc, file, floor, undone, clean, modified, slot, snaps, worker, rest>>

(* The element editor saves an embedded symbol over itself (setXml()):      *)
(* no signal says so.                                                       *)
OverwriteSymbol ==
    /\ pc = "open"
    /\ "symbol overwritten" \in may /\ work.collections < MaxOptions
    /\ work' = [work EXCEPT !.collections = @ + 1]
    /\ UNCHANGED <<pc, file, floor, undone, clean, modified, backup, copy, rest>>

(* Once a second the tables changed outside the undo stack are committed.   *)
Poll ==
    /\ pc = "open"
    /\ copy.queued \/ copy.content.options # work.options
    /\ UNCHANGED <<pc, file, stack, modified, backup, rest>>
    /\ Commit

Write ==
    /\ file' = work
    /\ modified' = FALSE
    /\ UNCHANGED <<work, floor, undone>>

(* write() commits the working copy, then doSave() moves the clean index.   *)
Save ==
    /\ pc = "open"
    /\ Write
    /\ Committed(work.drawing # clean)
    /\ clean' = work.drawing
    /\ UNCHANGED <<pc, backup, rest>>

(* doSave() moves the clean index all the same.                             *)
SaveFails ==
    /\ pc = "open"
    /\ "save fails" \in may
    /\ clean' = work.drawing
    /\ UNCHANGED <<pc, file, work, floor, undone, modified, backup, copy, rest>>

(* write() alone leaves the clean index where it was.                       *)
Autosave ==
    /\ pc = "open"
    /\ "autosave" \in may
    /\ Write
    /\ UNCHANGED clean
    /\ Commit
    /\ UNCHANGED <<pc, backup, rest>>

(* The destructor waits for the worker; snapshots and working copy go.      *)
Closed ==
    /\ pc' = "down"
    /\ snaps' = NoSnapshot
    /\ slot' = 0
    /\ worker' = Idle
    /\ needed' = FALSE
    /\ copy' = None
    /\ UNCHANGED <<stack, modified, rest>>

AsksOnClose == modified \/ work.drawing # clean

CloseUnasked ==
    /\ pc = "open"
    /\ ~AsksOnClose
    /\ Closed
    /\ UNCHANGED file

CloseDiscarding ==
    /\ pc = "open"
    /\ AsksOnClose
    /\ Closed
    /\ UNCHANGED file

CloseSaving ==
    /\ pc = "open"
    /\ AsksOnClose
    /\ Closed
    /\ file' = work

-----------------------------------------------------------------------------
(* Mutants: the slot does not go round; it does not move; the need is       *)
(* forgotten before the early return for a backup still being written.      *)
WriteBackupNoWrap ==
    /\ pc = "open" /\ worker = Idle /\ needed
    /\ needed' = FALSE
    /\ worker' = JobOf(slot, work)
    /\ slot' = slot + 1
    /\ UNCHANGED <<pc, file, stack, modified, snaps, copy, rest>>

WriteBackupInPlace ==
    /\ pc = "open" /\ worker = Idle /\ needed
    /\ needed' = FALSE
    /\ worker' = JobOf(slot, work)
    /\ UNCHANGED <<pc, file, stack, modified, slot, snaps, copy, rest>>

WriteBackupForgets ==
    /\ pc = "open" /\ needed
    /\ needed' = FALSE
    /\ IF worker = Idle
       THEN worker' = JobOf(slot, work) /\ slot' = (slot + 1) % Generations
       ELSE UNCHANGED <<worker, slot>>
    /\ UNCHANGED <<pc, file, stack, modified, snaps, copy, rest>>

(* The backup timer: not while the last one is still being written, nor     *)
(* when nothing has changed since.                                          *)
WriteBackup ==
    /\ pc = "open"
    /\ worker = Idle
    /\ needed
    /\ needed' = FALSE
    /\ worker' = JobOf(slot, work)
    /\ slot' = (slot + 1) % Generations
    /\ UNCHANGED <<pc, file, stack, modified, snaps, copy, rest>>

(* Opening a file to write it empties it.                                   *)
WorkerOpens ==
    /\ worker.state = "queued"
    /\ snaps' = [snaps EXCEPT ![worker.slot] = Torn]
    /\ worker' = [worker EXCEPT !.state = "opened"]
    /\ UNCHANGED <<pc, file, stack, modified, needed, slot, copy, rest>>

WorkerWrites ==
    /\ worker.state = "opened"
    /\ snaps' = [snaps EXCEPT ![worker.slot] = worker.content]
    /\ worker' = Idle
    /\ UNCHANGED <<pc, file, stack, modified, needed, slot, copy, rest>>

(* Nobody looks at what writeTextToFile() returns.                          *)
WorkerFails ==
    /\ "snapshot fails" \in may
    /\ worker # Idle
    /\ worker' = Idle
    /\ UNCHANGED <<pc, file, stack, modified, needed, slot, snaps, copy, rest>>

(* Of two working copies that say they are modified the newer one will be   *)
(* offered; one that says it is not will be removed.                        *)
Crash ==
    /\ pc \in {"restore", "open"}
    /\ crashes < MaxCrashes
    /\ crashes' = crashes + 1
    /\ pc' = "down"
    /\ left' = IF picked # None /\ ~picked.copy THEN {picked.content}
               ELSE left \union ({snaps[s] : s \in Slot} \ {None})
    /\ leftCopy' = IF picked # None /\ picked.copy THEN picked.content
                   ELSE IF copy # None /\ copy.modified THEN copy.content
                   ELSE leftCopy
    /\ picked' = None
    /\ snaps' = NoSnapshot /\ slot' = 0 /\ worker' = Idle /\ needed' = FALSE
    /\ copy' = None
    /\ UNCHANGED <<file, stack, modified, edits>>

Step ==
    \/ Start \/ Offer \/ AcceptCopy \/ AcceptSnapshot \/ Decline
    \/ RestoreCopy \/ RestoreSnapshot
    \/ Edit \/ AddFolio \/ Undo \/ Redo
    \/ EditOptions \/ EditCollection \/ OverwriteSymbol \/ Poll
    \/ Save \/ SaveFails \/ Autosave
    \/ CloseUnasked \/ CloseDiscarding \/ CloseSaving
    \/ WriteBackup \/ WorkerOpens \/ WorkerWrites \/ WorkerFails
    \/ Crash

Next == Step /\ UNCHANGED may

Spec == Init /\ [][Next]_vars

(* The backup timer is repeated, and a thread of the pool gets to run.      *)
FairSpec ==
    /\ Spec
    /\ WF_vars(WriteBackup /\ UNCHANGED may)
    /\ WF_vars(WorkerOpens /\ UNCHANGED may)
    /\ WF_vars(WorkerWrites /\ UNCHANGED may)

-----------------------------------------------------------------------------
Open == pc = "open"

(* A project whose content is not its file's is one the close asks about    *)
(* (tryClosingDiagrams()): "nothing was modified" is never said of work     *)
(* that is nowhere else.                                                    *)
CloseAsks == Open /\ work # file => AsksOnClose

(* A user who saves with the save command, whose saves succeed and who      *)
(* recovers from the working copy.                                          *)
Careful ==
    may \subseteq {"options", "collections", "symbol overwritten", "snapshot fails"}

(* Of a careful user's work the close knows that it is not saved, but for   *)
(* what only the embedded collections have (setModified() is not called     *)
(* for them): a project closed unasked is drawn and set up as its file is.  *)
UnsavedIsKnown ==
    Careful /\ Open /\ ~AsksOnClose =>
        work.drawing = file.drawing /\ work.options = file.options

(* A careful user's working copy has every edit the file lacks, and says    *)
(* so: a crash now loses none (commitWorkingCopy()).                        *)
CopyKeepsEdits ==
    Careful /\ Open /\ work.drawing # file.drawing =>
        copy.modified /\ copy.content.drawing = work.drawing

SnapshotsSucceed == "snapshot fails" \notin may

(* When no backup is needed and none is being written, the last snapshot    *)
(* is the project (or, with none written yet, the file is): skipping the    *)
(* backup of an unchanged project skips nothing (writeBackup()).            *)
LastIsTheProject ==
    Open /\ ~needed /\ worker = Idle =>
        IF snaps = NoSnapshot THEN work = file
        ELSE snaps[(slot + Generations - 1) % Generations] = work

(* So it is where snapshots can be written and no embedded symbol is saved  *)
(* over itself, a change that asks for no backup.                           *)
AllCounted == SnapshotsSucceed /\ "symbol overwritten" \notin may
SnapshotIsCurrent == AllCounted => LastIsTheProject

Intact == \E s \in Slot : snaps[s] \in Content

(* While a project is open, writing a snapshot never leaves it without one  *)
(* that can be read, once it has one (m_backup_files written in turn).      *)
SnapshotKept == [][SnapshotsSucceed /\ Open /\ Open' /\ Intact => Intact']_vars

(* The snapshots that can be read are not removed for one that cannot: "the *)
(* earlier ones are still there to recover from".                           *)
EarlierOnesStay ==
    [][pc = "offer" /\ pc' = "restore" /\ left \ {Torn} # {}
         => picked'.content # Torn \/ left' # {}]_vars

(* A project the close would not ask about has a working copy that says     *)
(* there is nothing to recover (write() commits it for that).               *)
CopyMatchesFile == Open /\ work = file /\ ~AsksOnClose => ~copy.modified

Drawn(content) == {content.drawing[i] : i \in DOMAIN content.drawing}

(* An edit that is not undone, in a project that is not closed, reaches a   *)
(* snapshot: none is left behind by a backup skipped while the last one was *)
(* still being written (writeBackup()).                                     *)
EditReachesASnapshot ==
    \A n \in 1 .. MaxEdits :
        SnapshotsSucceed /\ Open /\ n \in Drawn(work) \ Drawn(file)
            ~> ~Open \/ n \notin Drawn(work) \ Drawn(file)
                \/ \E s \in Slot : snaps[s] \in Content /\ n \in Drawn(snaps[s])
=============================================================================
