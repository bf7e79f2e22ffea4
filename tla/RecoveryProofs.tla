--------------------------- MODULE RecoveryProofs ---------------------------
(***************************************************************************)
(* Proofs about Recovery, for any number of edits, snapshots and crashes.   *)
(***************************************************************************)
EXTENDS Recovery, SequenceTheorems, TLAPS

USE ConstantsAssumption

(* What a user picked can be opened, if it is a working copy.               *)
PickedOK ==
    LET openable == picked.copy => picked.content \in Content IN
    /\ pc = "restore" => picked \in Choice /\ openable
    /\ picked # None => openable

LEMMA SlotGoesRound ==
    ASSUME NEW s \in Slot PROVE (s + 1) % Generations \in Slot
BY DEF Slot

LEMMA BuiltIsTyped ==
    ASSUME NEW content \in Content, Built(content)
    PROVE  /\ work' \in Content
           /\ floor' \in Nat
           /\ undone' \in Drawing
           /\ clean' \in Drawing
<1>1. content.drawing \in Seq(1 .. MaxEdits)
  BY DEF Content, Drawing
<1>2. Len(content.drawing) \in Nat
  BY <1>1, LenProperties
<1> QED
  BY <1>1, <1>2, EmptySeq DEF Built, Drawing

LEMMA TablesAreTyped ==
    ASSUME StateOK, work' \in Content
    PROVE  Tables \in Content
<1>1. copy # None => copy.content.collections \in 0 .. MaxOptions
  BY DEF StateOK, WorkingCopy, Content
<1> QED
  BY <1>1 DEF Tables, Content

LEMMA CommitIsTyped ==
    ASSUME StateOK, work' \in Content, modified' \in BOOLEAN, Commit
    PROVE  copy' \in WorkingCopy
<1>1. (modified' \/ work'.drawing # clean') \in BOOLEAN
  OBVIOUS
<1>2. Tables \in Content
  BY TablesAreTyped
<1> QED
  BY <1>1, <1>2 DEF Commit, Committed, WorkingCopy

LEMMA JobIsTyped ==
    ASSUME NEW s \in Slot, NEW content \in Content
    PROVE  JobOf(s, content) \in Job
BY DEF JobOf, Job

LEMMA OpenFileIsTyped == ASSUME StateOK, PickedOK, pc # "restore", OpenFile PROVE StateOK' /\ PickedOK'
<1>1. Built(file) /\ file \in Content
  BY DEF OpenFile, StateOK
<1>2. work' \in Content /\ floor' \in Nat /\ undone' \in Drawing /\ clean' \in Drawing
  BY <1>1, BuiltIsTyped
<1>3. copy' \in WorkingCopy
  BY <1>2, CommitIsTyped DEF OpenFile
<1> QED
  BY <1>2, <1>3 DEF OpenFile, StateOK, PickedOK, backup, rest

LEMMA RestoreIsTyped ==
    ASSUME StateOK, PickedOK, RestoreCopy \/ RestoreSnapshot
    PROVE  StateOK' /\ PickedOK'
<1>1. picked \in Choice
  BY DEF RestoreCopy, RestoredCopy, RestoreSnapshot, StateOK, PickedOK
<1>2. PICK content \in Content : Built(content) /\ worker' = JobOf(slot, content)
  <2>1. CASE RestoreCopy
    BY <2>1, <1>1 DEF RestoreCopy, RestoredCopy, PickedOK
  <2>2. CASE RestoreSnapshot
    BY <2>2, <1>1 DEF RestoreSnapshot, StateOK, Choice, Snapshot
  <2> QED
    BY <2>1, <2>2
<1>3. work' \in Content /\ floor' \in Nat /\ undone' \in Drawing /\ clean' \in Drawing
  BY <1>2, BuiltIsTyped
<1>4. worker' \in Job
  BY <1>2, JobIsTyped DEF StateOK
<1>5. slot' \in Slot
  BY SlotGoesRound DEF RestoreCopy, RestoredCopy, RestoreSnapshot, StateOK
<1>6. modified' \in BOOLEAN /\ needed' \in BOOLEAN
  BY DEF RestoreCopy, RestoredCopy, RestoreSnapshot
<1>7. copy' \in WorkingCopy
  BY <1>3, <1>6, CommitIsTyped DEF RestoreCopy, RestoredCopy, RestoreSnapshot
<1> QED
  BY <1>3, <1>4, <1>5, <1>6, <1>7
  DEF RestoreCopy, RestoredCopy, RestoreSnapshot, StateOK, PickedOK

LEMMA EditedIsTyped ==
    ASSUME StateOK, PickedOK, Edited, modified' \in BOOLEAN, clean' \in Drawing
    PROVE  StateOK' /\ PickedOK'
<1>1. work.drawing \in Seq(1 .. MaxEdits) /\ work.options \in 0 .. MaxOptions
      /\ work.collections \in 0 .. MaxOptions
  BY DEF StateOK, Content, Drawing
<1>2. edits' \in 0 .. MaxEdits /\ edits + 1 \in 1 .. MaxEdits
  BY DEF Edited, StateOK
<1>3. Append(work.drawing, edits + 1) \in Seq(1 .. MaxEdits)
  BY <1>1, <1>2, AppendProperties
<1>4. work' \in Content
  BY <1>1, <1>3 DEF Edited, Content, Drawing, StateOK
<1>5. copy' \in WorkingCopy
  BY <1>4, CommitIsTyped DEF Edited, Moved
<1>6. undone' \in Drawing
  BY EmptySeq DEF Edited, Drawing
<1> QED
  BY <1>2, <1>4, <1>5, <1>6 DEF Edited, Moved, StateOK, PickedOK

LEMMA UndoIsTyped == ASSUME StateOK, PickedOK, Undo PROVE StateOK' /\ PickedOK'
<1> DEFINE d == work.drawing
<1>1. d \in Seq(1 .. MaxEdits) /\ work.options \in 0 .. MaxOptions /\ undone \in Seq(1 .. MaxEdits)
  BY DEF StateOK, Content, Drawing
<1>2. Len(d) \in Nat /\ Len(d) > 0
  BY <1>1, LenProperties DEF Undo, StateOK
<1>3. d[Len(d)] \in 1 .. MaxEdits
  BY <1>1, <1>2, ElementOfSeq
<1>4. SubSeq(d, 1, Len(d) - 1) \in Seq(1 .. MaxEdits)
  BY <1>1, <1>2, <1>3, SubSeqProperties
<1>5. <<d[Len(d)]>> \o undone \in Seq(1 .. MaxEdits)
  BY <1>1, <1>3, ConcatProperties
<1>6. work' = [work EXCEPT !.drawing = SubSeq(d, 1, Len(d) - 1)] /\ undone' = <<d[Len(d)]>> \o undone
  BY DEF Undo
<1> HIDE DEF d
<1>7. work' \in Content
  BY <1>1, <1>4, <1>6 DEF Content, Drawing, StateOK
<1>8. undone' \in Drawing
  BY <1>5, <1>6 DEF Drawing
<1>9. copy' \in WorkingCopy
  BY <1>7, CommitIsTyped DEF Undo, Moved, StateOK
<1> QED
  BY <1>7, <1>8, <1>9 DEF Undo, Moved, StateOK, PickedOK

LEMMA RedoIsTyped == ASSUME StateOK, PickedOK, Redo PROVE StateOK' /\ PickedOK'
<1>1. work.drawing \in Seq(1 .. MaxEdits) /\ work.options \in 0 .. MaxOptions /\ undone \in Seq(1 .. MaxEdits)
  BY DEF StateOK, Content, Drawing
<1>2. Head(undone) \in 1 .. MaxEdits /\ Tail(undone) \in Seq(1 .. MaxEdits)
  BY <1>1, HeadTailProperties DEF Redo
<1>3. Append(work.drawing, Head(undone)) \in Seq(1 .. MaxEdits)
  BY <1>1, <1>2, AppendProperties
<1>4. work' \in Content
  BY <1>1, <1>3 DEF Redo, Content, Drawing, StateOK
<1>5. copy' \in WorkingCopy
  BY <1>4, CommitIsTyped DEF Redo, Moved, StateOK
<1>6. undone' \in Drawing
  BY <1>2 DEF Redo, Drawing
<1> QED
  BY <1>4, <1>5, <1>6 DEF Redo, Moved, StateOK, PickedOK

LEMMA SaveIsTyped ==
    ASSUME StateOK, PickedOK,
           \/ Save \/ SaveFails \/ Autosave \/ Poll
           \/ EditOptions \/ EditCollection \/ OverwriteSymbol
    PROVE  StateOK' /\ PickedOK'
<1> USE DEF StateOK, PickedOK, backup, rest
<1>1. /\ work.drawing \in Drawing /\ work.options \in 0 .. MaxOptions
      /\ work.collections \in 0 .. MaxOptions
  BY DEF Content
<1>2. CASE Save
  <2>1. Tables \in Content
    BY <1>2, TablesAreTyped DEF Save, Write
  <2>2. copy' \in WorkingCopy
    BY <1>2, <2>1 DEF Save, Committed, WorkingCopy
  <2> QED
    BY <1>1, <1>2, <2>2 DEF Save, Write
<1>3. CASE SaveFails
  BY <1>1, <1>3 DEF SaveFails
<1>4. CASE Autosave
  <2>1. work' \in Content /\ modified' \in BOOLEAN
    BY <1>4 DEF Autosave, Write
  <2>2. copy' \in WorkingCopy
    BY <1>4, <2>1, CommitIsTyped DEF Autosave
  <2> QED
    BY <1>4, <2>2 DEF Autosave, Write
<1>5. CASE Poll
  <2>1. work' \in Content /\ modified' \in BOOLEAN
    BY <1>5 DEF Poll, stack
  <2>2. copy' \in WorkingCopy
    BY <1>5, <2>1, CommitIsTyped DEF Poll
  <2> QED
    BY <1>5, <2>2 DEF Poll, stack
<1>6. CASE EditOptions
  <2>1. work.options + 1 \in 0 .. MaxOptions
    BY <1>1, <1>6 DEF EditOptions
  <2>2. work' \in Content
    BY <1>6, <2>1 DEF EditOptions, Content
  <2> QED
    BY <1>6, <2>2 DEF EditOptions
<1>7. CASE EditCollection \/ OverwriteSymbol
  <2>1. work.collections < MaxOptions /\ pc = "open" /\ work' = [work EXCEPT !.collections = @ + 1]
    BY <1>7 DEF EditCollection, OverwriteSymbol
  <2>2. work.collections + 1 \in 0 .. MaxOptions
    BY <1>1, <2>1
  <2>3. work' \in Content
    BY <2>1, <2>2 DEF Content
  <2>4. [copy EXCEPT !.queued = TRUE] \in WorkingCopy
    BY <2>1 DEF WorkingCopy
  <2> QED
    BY <1>7, <2>3, <2>4 DEF EditCollection, OverwriteSymbol
<1> QED
  BY <1>2, <1>3, <1>4, <1>5, <1>6, <1>7

LEMMA NoSnapshotIsTyped == NoSnapshot \in [Slot -> Snapshot \union {None}]
BY DEF NoSnapshot

LEMMA CloseIsTyped ==
    ASSUME StateOK, PickedOK, CloseUnasked \/ CloseDiscarding \/ CloseSaving
    PROVE  StateOK' /\ PickedOK'
<1>1. Closed /\ file' \in Content
  BY DEF CloseUnasked, CloseDiscarding, CloseSaving, StateOK
<1>2. 0 \in Slot
  BY DEF Slot
<1> QED
  BY <1>1, <1>2, NoSnapshotIsTyped DEF Closed, StateOK, PickedOK, stack, rest

LEMMA WorkerIsTyped ==
    ASSUME StateOK, PickedOK, WriteBackup \/ WorkerOpens \/ WorkerWrites \/ WorkerFails
    PROVE  StateOK' /\ PickedOK'
<1> USE DEF StateOK, PickedOK, stack, rest
<1>1. CASE WriteBackup
  BY <1>1, SlotGoesRound, JobIsTyped DEF WriteBackup
<1>2. CASE WorkerOpens
  <2>1. worker \in Job
    BY <1>2 DEF WorkerOpens, Idle
  <2>2. [worker EXCEPT !.state = "opened"] \in Job
    BY <2>1 DEF Job
  <2>3. [snaps EXCEPT ![worker.slot] = Torn] \in [Slot -> Snapshot \union {None}]
    BY <2>1 DEF Snapshot
  <2> QED
    BY <1>2, <2>2, <2>3 DEF WorkerOpens
<1>3. CASE WorkerWrites
  <2>1. worker \in Job
    BY <1>3 DEF WorkerWrites, Idle
  <2>2. worker.content \in Snapshot
    BY <2>1 DEF Job, Snapshot
  <2>3. [snaps EXCEPT ![worker.slot] = worker.content] \in [Slot -> Snapshot \union {None}]
    BY <2>2
  <2> QED
    BY <1>3, <2>3 DEF WorkerWrites
<1>4. CASE WorkerFails
  BY <1>4 DEF WorkerFails
<1> QED
  BY <1>1, <1>2, <1>3, <1>4

LEMMA CrashIsTyped == ASSUME StateOK, PickedOK, Crash PROVE StateOK' /\ PickedOK'
<1>1. left' \subseteq Snapshot
  <2>1. CASE picked # None /\ ~picked.copy
    BY <2>1 DEF Crash, StateOK, Choice
  <2>2. CASE ~(picked # None /\ ~picked.copy)
    <3>1. {snaps[s] : s \in Slot} \ {None} \subseteq Snapshot
      BY DEF StateOK
    <3> QED
      BY <2>2, <3>1 DEF Crash, StateOK
  <2> QED
    BY <2>1, <2>2
<1>2. leftCopy' \in Content \union {None}
  BY DEF Crash, StateOK, PickedOK, WorkingCopy
<1>3. 0 \in Slot /\ crashes' \in 0 .. MaxCrashes
  BY DEF Slot, Crash, StateOK
<1> QED
  BY <1>1, <1>2, <1>3, NoSnapshotIsTyped DEF Crash, StateOK, PickedOK, stack

LEMMA DialogIsTyped ==
    ASSUME StateOK, PickedOK, Offer \/ AcceptCopy \/ AcceptSnapshot \/ Decline
    PROVE  StateOK' /\ PickedOK'
<1> USE DEF StateOK, PickedOK, stack, backup, rest
<1>1. CASE Offer
  BY <1>1 DEF Offer
<1>2. CASE AcceptCopy
  <2> DEFINE choice == [copy |-> TRUE, content |-> leftCopy]
  <2>1. Pick(choice) /\ leftCopy \in Content
    BY <1>2 DEF AcceptCopy
  <2>2. choice \in Choice /\ choice.copy /\ choice.content \in Content
    BY <2>1 DEF Choice, Snapshot
  <2> HIDE DEF choice
  <2> QED
    BY <2>1, <2>2 DEF Pick
<1>3. CASE AcceptSnapshot
  <2>1. PICK snap \in left : Pick([copy |-> FALSE, content |-> snap])
    BY <1>3 DEF AcceptSnapshot
  <2> DEFINE choice == [copy |-> FALSE, content |-> snap]
  <2>2. choice \in Choice /\ ~choice.copy
    BY DEF Choice
  <2>3. Pick(choice)
    BY <2>1
  <2> HIDE DEF choice
  <2> QED
    BY <2>2, <2>3 DEF Pick
<1>4. CASE Decline
  BY <1>4 DEF Decline
<1> QED
  BY <1>1, <1>2, <1>3, <1>4

(* Every variable keeps its type (the members of QETProject and its working *)
(* copy, the files a crash leaves).                                         *)
LEMMA StateCorrect == Spec => [](StateOK /\ PickedOK)
<1>1. Init => StateOK /\ PickedOK
  <2> SUFFICES ASSUME Init PROVE StateOK /\ PickedOK
    OBVIOUS
  <2>1. Empty \in Content
    BY EmptySeq DEF Empty, Content, Drawing
  <2>2. <<>> \in Drawing
    BY EmptySeq DEF Drawing
  <2>3. 0 \in Slot
    BY DEF Slot
  <2> QED
    BY <2>1, <2>2, <2>3, NoSnapshotIsTyped DEF Init, StateOK, PickedOK
<1>2. StateOK /\ PickedOK /\ [Next]_vars => StateOK' /\ PickedOK'
  <2> SUFFICES ASSUME StateOK, PickedOK, [Next]_vars PROVE StateOK' /\ PickedOK'
    OBVIOUS
  <2>1. CASE Start
    BY <2>1, OpenFileIsTyped DEF Start
  <2>2. CASE RestoreCopy \/ RestoreSnapshot
    BY <2>2, RestoreIsTyped
  <2>3. CASE Edit \/ AddFolio
    <3>1. Edited /\ modified' \in BOOLEAN /\ clean' \in Drawing
      BY <2>3 DEF Edit, AddFolio, StateOK, Content
    <3> QED
      BY <3>1, EditedIsTyped
  <2>4. CASE Undo
    BY <2>4, UndoIsTyped
  <2>5. CASE Redo
    BY <2>5, RedoIsTyped
  <2>6. CASE \/ Save \/ SaveFails \/ Autosave \/ Poll
             \/ EditOptions \/ EditCollection \/ OverwriteSymbol
    BY <2>6, SaveIsTyped
  <2>7. CASE CloseUnasked \/ CloseDiscarding \/ CloseSaving
    BY <2>7, CloseIsTyped
  <2>8. CASE WriteBackup \/ WorkerOpens \/ WorkerWrites \/ WorkerFails
    BY <2>8, WorkerIsTyped
  <2>9. CASE Crash
    BY <2>9, CrashIsTyped
  <2>10. CASE Offer \/ AcceptCopy \/ AcceptSnapshot \/ Decline
    BY <2>10, DialogIsTyped
  <2>11. CASE UNCHANGED vars
    BY <2>11 DEF vars, stack, backup, rest, StateOK, PickedOK
  <2> QED
    BY <2>1, <2>2, <2>3, <2>4, <2>5, <2>6, <2>7, <2>8, <2>9, <2>10, <2>11 DEF Next, Step
<1> QED
  BY <1>1, <1>2, PTL DEF Spec

(* The variables have their types.                                          *)
THEOREM TypeCorrect == Spec => []TypeOK
<1>1. Init /\ StateOK => TypeOK
  BY DEF Init, TypeOK
<1>2. TypeOK /\ StateOK' /\ [Next]_vars => TypeOK'
  BY DEF Next, vars, TypeOK
<1> QED
  BY <1>1, <1>2, StateCorrect, PTL DEF Spec

(* For a careful user, until something is said to be modified, the clean    *)
(* index stays where the file is.  UnsavedIsKnown alone is not kept by an   *)
(* undo: it says nothing of where the clean index is.                       *)
CleanIsSaved ==
    Open /\ ~modified => clean = file.drawing /\ work.options = file.options

PickedCopy == pc = "restore" => picked.copy

CopyHasEdits ==
    Open /\ work.drawing # file.drawing =>
        copy.modified /\ copy.content.drawing = work.drawing

IInv == StateOK /\ PickedOK /\ PickedCopy /\ CleanIsSaved /\ CopyHasEdits

LEMMA MovedKeepsCopy ==
    ASSUME Commit, work' \in Content,
           pc' = "open", CleanIsSaved', UNCHANGED file
    PROVE  CopyHasEdits'
<1> SUFFICES ASSUME work'.drawing # file'.drawing
             PROVE  copy'.modified /\ copy'.content.drawing = work'.drawing
  BY DEF CopyHasEdits
<1>1. modified' \/ work'.drawing # clean'
  BY DEF CleanIsSaved, Open
<1> QED
  BY <1>1 DEF Commit, Committed, Tables

LEMMA CarefulStep ==
    ASSUME Careful, IInv, StateOK', PickedOK', [Next]_vars
    PROVE  PickedCopy' /\ CleanIsSaved' /\ CopyHasEdits'
<1> USE DEF IInv, PickedCopy, CleanIsSaved, Open
<1>1. CASE Start
  BY <1>1 DEF Start, OpenFile, Built, CopyHasEdits
<1>2. CASE Offer \/ Decline
  BY <1>2 DEF Offer, Decline, CopyHasEdits
<1>3. CASE AcceptCopy
  BY <1>3 DEF AcceptCopy, Pick, CopyHasEdits
<1>4. CASE AcceptSnapshot \/ RestoreSnapshot \/ SaveFails \/ Autosave
  BY <1>4 DEF Careful, AcceptSnapshot, RestoreSnapshot, SaveFails, Autosave
<1>5. CASE RestoreCopy
  BY <1>5 DEF RestoreCopy, RestoredCopy, Commit, Committed, Tables, CopyHasEdits
<1>6. CASE Edit
  <2>1. CleanIsSaved' /\ PickedCopy'
    BY <1>6 DEF Edit, Edited, Moved, StateOK, Content
  <2> QED
    BY <1>6, <2>1, MovedKeepsCopy DEF Edit, Edited, Moved, StateOK
<1>7. CASE AddFolio
  <2>1. CleanIsSaved' /\ PickedCopy'
    BY <1>7 DEF AddFolio, Edited, Moved
  <2> QED
    BY <1>7, <2>1, MovedKeepsCopy DEF AddFolio, Edited, Moved, StateOK
<1>8. CASE Undo
  <2>1. CleanIsSaved' /\ PickedCopy'
    BY <1>8 DEF Undo, Moved, StateOK, Content
  <2> QED
    BY <1>8, <2>1, MovedKeepsCopy DEF Undo, Moved, StateOK
<1>9. CASE Redo
  <2>1. CleanIsSaved' /\ PickedCopy'
    BY <1>9 DEF Redo, Moved, StateOK, Content
  <2> QED
    BY <1>9, <2>1, MovedKeepsCopy DEF Redo, Moved, StateOK
<1>10. CASE EditOptions
  <2>1. work'.drawing = work.drawing
    BY <1>10 DEF EditOptions, StateOK, Content
  <2> QED
    BY <1>10, <2>1 DEF EditOptions, CopyHasEdits, rest
<1>17. CASE EditCollection \/ OverwriteSymbol
  <2>1. work'.drawing = work.drawing /\ work'.options = work.options
    BY <1>17 DEF EditCollection, OverwriteSymbol, StateOK, Content
  <2>2. copy' = copy \/ (copy'.modified = copy.modified /\ copy'.content = copy.content)
    BY <1>17 DEF EditCollection, OverwriteSymbol, StateOK, WorkingCopy
  <2> QED
    BY <1>17, <2>1, <2>2 DEF EditCollection, OverwriteSymbol, CopyHasEdits, rest
<1>11. CASE Poll
  <2>1. CleanIsSaved' /\ PickedCopy'
    BY <1>11 DEF Poll, stack, rest
  <2> QED
    BY <1>11, <2>1, MovedKeepsCopy DEF Poll, StateOK
<1>12. CASE Save
  BY <1>12 DEF Save, Write, CopyHasEdits, rest
<1>13. CASE CloseUnasked \/ CloseDiscarding \/ CloseSaving
  BY <1>13 DEF CloseUnasked, CloseDiscarding, CloseSaving, Closed, CopyHasEdits
<1>14. CASE WriteBackup \/ WorkerOpens \/ WorkerWrites \/ WorkerFails
  BY <1>14
  DEF WriteBackup, WorkerOpens, WorkerWrites, WorkerFails, stack, rest, CopyHasEdits
<1>15. CASE Crash
  BY <1>15 DEF Crash, CopyHasEdits
<1>16. CASE UNCHANGED vars
  BY <1>16 DEF vars, stack, backup, rest, CopyHasEdits
<1> QED
  BY <1>1, <1>2, <1>3, <1>4, <1>5, <1>6, <1>7, <1>8, <1>9, <1>10, <1>11, <1>12, <1>13,
     <1>14, <1>15, <1>16, <1>17 DEF Next, Step

(* Whether a user is careful does not change.                               *)
LEMMA CarefulInvariant == Spec => [](Careful => IInv)
<1>1. Init => PickedCopy /\ CleanIsSaved /\ CopyHasEdits
  BY DEF Init, PickedCopy, CleanIsSaved, CopyHasEdits, Open
<1>2. [Next]_vars => (Careful' <=> Careful)
  BY DEF Next, vars, Careful
<1>3. Careful /\ IInv /\ StateOK' /\ PickedOK' /\ [Next]_vars
      => PickedCopy' /\ CleanIsSaved' /\ CopyHasEdits'
  BY CarefulStep
<1> QED
  BY <1>1, <1>2, <1>3, StateCorrect, PTL DEF Spec, IInv

(* What a careful user has drawn or set up is not dropped by a close that   *)
(* does not ask (ProjectView::tryClosingDiagrams()).                        *)
THEOREM UnsavedWorkIsKnown == Spec => []UnsavedIsKnown
<1>1. Careful /\ IInv => UnsavedIsKnown
  BY DEF IInv, CleanIsSaved, UnsavedIsKnown, AsksOnClose
<1>2. ~Careful => UnsavedIsKnown
  BY DEF UnsavedIsKnown
<1> QED
  BY <1>1, <1>2, CarefulInvariant, PTL

(* For a careful user the working copy has every edit the file lacks, at    *)
(* every step: no crash loses one (projectDataBase::commitWorkingCopy()).   *)
THEOREM TheCopyKeepsEdits == Spec => []CopyKeepsEdits
<1>1. Careful /\ IInv => CopyKeepsEdits
  BY DEF IInv, CopyHasEdits, CopyKeepsEdits
<1>2. ~Careful => CopyKeepsEdits
  BY DEF CopyKeepsEdits
<1> QED
  BY <1>1, <1>2, CarefulInvariant, PTL
-----------------------------------------------------------------------------
LEMMA NextInside == ASSUME NEW s \in Slot, s + 1 < Generations PROVE (s + 1) % Generations = s + 1
BY DEF Slot

LEMMA NextAround == Generations % Generations = 0
OBVIOUS

LEMMA AroundStays == ASSUME NEW s \in Slot PROVE (s + Generations) % Generations = s
BY DEF Slot

(* The slot before the next one is this one.                                *)
LEMMA BackFromNext ==
    ASSUME NEW s \in Slot
    PROVE  (((s + 1) % Generations) + Generations - 1) % Generations = s
<1>1. CASE s + 1 < Generations
  BY <1>1, NextInside, AroundStays DEF Slot
<1>2. CASE s + 1 = Generations
  BY <1>2, NextAround, AroundStays DEF Slot
<1> QED
  BY <1>1, <1>2 DEF Slot

(* With more than one slot, the next slot is another one.                   *)
LEMMA NextIsAnother ==
    ASSUME NEW s \in Slot, Generations > 1 PROVE (s + 1) % Generations # s
<1>1. CASE s + 1 < Generations
  BY <1>1, NextInside DEF Slot
<1>2. CASE s + 1 = Generations
  BY <1>2, NextAround DEF Slot
<1> QED
  BY <1>1, <1>2 DEF Slot

(* Only an open project has snapshots or one under way, and the slot of     *)
(* that is the one before the next.                                         *)
WorkerBehind ==
    /\ ~Open => worker = Idle /\ snaps = NoSnapshot
    /\ worker # Idle => slot = (worker.slot + 1) % Generations

(* The slot a backup will be written to, or is just going to be.            *)
Doomed == IF worker = Idle THEN slot ELSE worker.slot

(* A snapshot that can be read is not only in the slot to be overwritten.   *)
Spared ==
    worker.state # "opened" /\ Intact => \E s \in Slot \ {Doomed} : snaps[s] \in Content

(* What the worker writes, or has written last, is the project, unless a    *)
(* backup is needed.                                                        *)
LastIsCurrent ==
    Open /\ ~needed =>
        IF worker # Idle THEN worker.content = work
        ELSE IF snaps = NoSnapshot THEN work = file
        ELSE snaps[(slot + Generations - 1) % Generations] = work

BInv == StateOK /\ PickedOK /\ WorkerBehind

Counted == AllCounted => LastIsCurrent

LEMMA WorkerAtWork ==
    ASSUME StateOK, worker.state \in {"queued", "opened"}
    PROVE  worker \in Job /\ worker # Idle /\ worker.slot \in Slot /\ worker.content \in Content
BY DEF StateOK, Idle, Job

LEMMA IdleIsNoJob == ASSUME NEW s, NEW content PROVE JobOf(s, content) # Idle
BY DEF JobOf, Idle

(* The steps that touch neither the slots nor the worker.                   *)
LEMMA ElsewhereStep ==
    ASSUME WorkerBehind, Open', UNCHANGED <<slot, snaps, worker>>,
           Open,
           \/ needed'
           \/ UNCHANGED <<needed, work>> /\ file' \in {file, work}
    PROVE  WorkerBehind' /\ (LastIsCurrent => LastIsCurrent')
BY DEF WorkerBehind, LastIsCurrent

(* The steps of an open project's user are such steps, but for one.         *)
OfTheUser ==
    \/ Edit \/ AddFolio \/ Undo \/ Redo \/ EditOptions \/ EditCollection
    \/ Poll \/ Save \/ SaveFails \/ Autosave

LEMMA StackStep ==
    ASSUME BInv, Open,
           OfTheUser
    PROVE  /\ Open' /\ UNCHANGED <<slot, snaps, worker>>
           /\ needed' \/ (UNCHANGED <<needed, work>> /\ file' \in {file, work})
<1>1. CASE Edit \/ AddFolio \/ Undo \/ Redo
  BY <1>1 DEF Edit, AddFolio, Edited, Undo, Redo, Moved, Open
<1>2. CASE EditOptions \/ EditCollection
  BY <1>2 DEF EditOptions, EditCollection, Open
<1>3. CASE Poll
  BY <1>3 DEF Poll, stack, backup, Open
<1>4. CASE Save
  BY <1>4 DEF Save, Write, backup, Open
<1>5. CASE SaveFails
  BY <1>5 DEF SaveFails, backup, Open
<1>6. CASE Autosave
  BY <1>6 DEF Autosave, Write, backup, Open
<1> QED
  BY <1>1, <1>2, <1>3, <1>4, <1>5, <1>6 DEF OfTheUser

(* A project that is restored is written to a snapshot at once.             *)
LEMMA RestoreStep ==
    ASSUME BInv, RestoreCopy \/ RestoreSnapshot
    PROVE  /\ Open' /\ worker' # Idle /\ snaps' = snaps
           /\ worker'.state = "queued" /\ worker'.slot = slot /\ worker'.content = work'
           /\ slot' = (slot + 1) % Generations
<1>1. PICK content : work' = content /\ worker' = JobOf(slot, content)
  BY DEF RestoreCopy, RestoredCopy, RestoreSnapshot, Built
<1>2. worker' # Idle
  BY <1>1, IdleIsNoJob
<1> QED
  BY <1>1, <1>2 DEF RestoreCopy, RestoredCopy, RestoreSnapshot, JobOf, Open

LEMMA BackupStep ==
    ASSUME BInv, Counted, [Next]_vars
    PROVE  WorkerBehind' /\ (AllCounted => LastIsCurrent')
<1> USE DEF BInv, Counted, Open
<1>1. CASE Start
  BY <1>1 DEF Start, OpenFile, Built, backup, WorkerBehind, LastIsCurrent
<1>2. CASE Offer \/ AcceptCopy \/ AcceptSnapshot \/ Decline
  BY <1>2
  DEF Offer, AcceptCopy, AcceptSnapshot, Decline, Pick, backup, WorkerBehind, LastIsCurrent
<1>3. CASE RestoreCopy \/ RestoreSnapshot
  BY <1>3, RestoreStep DEF WorkerBehind, LastIsCurrent
<1>4. CASE OfTheUser
  <2>1. Open
    BY <1>4
    DEF OfTheUser, Edit, AddFolio, Edited, Undo, Redo, EditOptions, EditCollection, Poll,
        Save, SaveFails, Autosave
  <2> QED
    BY <1>4, <2>1, StackStep, ElsewhereStep
<1>5. CASE CloseUnasked \/ CloseDiscarding \/ CloseSaving
  BY <1>5
  DEF CloseUnasked, CloseDiscarding, CloseSaving, Closed, WorkerBehind, LastIsCurrent
<1>6. CASE WriteBackup
  <2>1. worker' # Idle /\ worker'.content = work' /\ worker'.slot = slot
    BY <1>6, IdleIsNoJob DEF WriteBackup, stack, JobOf
  <2> QED
    BY <1>6, <2>1 DEF WriteBackup, WorkerBehind, LastIsCurrent
<1>7. CASE WorkerOpens
  <2>1. worker \in Job /\ worker # Idle
    BY <1>7, WorkerAtWork DEF WorkerOpens
  <2>2. worker' # Idle /\ worker'.slot = worker.slot /\ worker'.content = worker.content
    BY <1>7, <2>1 DEF WorkerOpens, Job, Idle
  <2> QED
    BY <1>7, <2>1, <2>2 DEF WorkerOpens, WorkerBehind, LastIsCurrent, stack
<1>8. CASE WorkerWrites
  <2>1. worker # Idle /\ worker.slot \in Slot /\ worker.content \in Content
    BY <1>8, WorkerAtWork DEF WorkerWrites
  <2>2. (slot + Generations - 1) % Generations = worker.slot /\ Open
    BY <2>1, BackFromNext DEF WorkerBehind
  <2>3. snaps'[worker.slot] = worker.content
    BY <1>8, <2>1 DEF WorkerWrites, StateOK
  <2>4. snaps' # NoSnapshot
    BY <2>1, <2>3, NoneAssumption DEF NoSnapshot
  <2> QED
    BY <1>8, <2>1, <2>2, <2>3, <2>4 DEF WorkerWrites, WorkerBehind, LastIsCurrent, stack
<1>9. CASE WorkerFails
  BY <1>9 DEF WorkerFails, AllCounted, SnapshotsSucceed, WorkerBehind
<1>10. CASE Crash
  BY <1>10 DEF Crash, WorkerBehind, LastIsCurrent
<1>11. CASE UNCHANGED vars
  BY <1>11 DEF vars, stack, backup, rest, WorkerBehind, LastIsCurrent
<1>12. CASE OverwriteSymbol
  BY <1>12 DEF OverwriteSymbol, AllCounted, backup, WorkerBehind
<1> QED
  BY <1>1, <1>2, <1>3, <1>4, <1>5, <1>6, <1>7, <1>8, <1>9, <1>10, <1>11, <1>12
  DEF Next, Step, OfTheUser

LEMMA BackupInvariant == Spec => [](BInv /\ Counted)
<1>1. Init => WorkerBehind /\ LastIsCurrent
  BY DEF Init, WorkerBehind, LastIsCurrent, Open
<1>2. [Next]_vars => (AllCounted' <=> AllCounted)
  BY DEF Next, vars, AllCounted, SnapshotsSucceed
<1>3. BInv /\ Counted /\ [Next]_vars => WorkerBehind' /\ (AllCounted => LastIsCurrent')
  BY BackupStep
<1> QED
  BY <1>1, <1>2, <1>3, StateCorrect, PTL DEF Spec, BInv, Counted

(* If snapshots can be written, a backup that is skipped because none is    *)
(* needed would have been the same as the last one (writeBackup()), unless  *)
(* an embedded symbol was saved over itself.                                *)
THEOREM SkippedIsTheSame == Spec => []SnapshotIsCurrent
<1>1. Counted => SnapshotIsCurrent
  BY DEF Counted, LastIsCurrent, SnapshotIsCurrent, LastIsTheProject
<1> QED
  BY <1>1, BackupInvariant, PTL

(* A spare slot is one the worker is not going to overwrite.                *)
LEMMA SpareStep ==
    ASSUME BInv, Spared, StateOK', [Next]_vars, SnapshotsSucceed, Generations > 1
    PROVE  Spared' /\ (Open /\ Open' /\ Intact => Intact')
<1> USE DEF BInv
<1>1. ASSUME UNCHANGED <<slot, snaps, worker>> PROVE Spared' /\ (Intact => Intact')
  BY <1>1 DEF Spared, Intact, Doomed
<1>2. ASSUME snaps' = NoSnapshot, worker' = Idle, slot' \in Slot PROVE Spared'
  <2>1. (slot' + 1) % Generations \in Slot \ {slot'}
    BY <1>2, SlotGoesRound, NextIsAnother
  <2>2. ASSUME Intact' PROVE snaps'[(slot' + 1) % Generations] \in Content
    BY <1>2, <2>1, <2>2 DEF Intact, NoSnapshot
  <2> QED
    BY <1>2, <2>1, <2>2 DEF Spared, Doomed
<1>12. CASE OverwriteSymbol
  BY <1>1, <1>12 DEF OverwriteSymbol, backup
<1>3. CASE Start \/ Offer \/ AcceptCopy \/ AcceptSnapshot \/ Decline
  BY <1>1, <1>3
  DEF Start, OpenFile, Offer, AcceptCopy, AcceptSnapshot, Decline, Pick, backup
<1>4. CASE RestoreCopy \/ RestoreSnapshot
  <2>1. worker = Idle /\ ~Open
    BY <1>4 DEF RestoreCopy, RestoredCopy, RestoreSnapshot, WorkerBehind, Open
  <2>2. Doomed' = Doomed /\ snaps' = snaps /\ worker.state # "opened"
    BY <1>4, <2>1, RestoreStep DEF Doomed, Idle
  <2> QED
    BY <2>1, <2>2 DEF Spared, Intact
<1>5. CASE OfTheUser
  <2>1. Open
    BY <1>5
    DEF OfTheUser, Edit, AddFolio, Edited, Undo, Redo, EditOptions, EditCollection, Poll,
        Save, SaveFails, Autosave, Open
  <2> QED
    BY <1>1, <1>5, <2>1, StackStep
<1>6. CASE CloseUnasked \/ CloseDiscarding \/ CloseSaving \/ Crash
  <2>1. snaps' = NoSnapshot /\ worker' = Idle /\ slot' \in Slot /\ ~Open'
    BY <1>6 DEF CloseUnasked, CloseDiscarding, CloseSaving, Closed, Crash, StateOK, Open
  <2> QED
    BY <1>2, <2>1
<1>7. CASE WriteBackup
  <2>1. worker = Idle /\ snaps' = snaps /\ worker' # Idle /\ worker'.slot = slot
    BY <1>7, IdleIsNoJob DEF WriteBackup, JobOf
  <2>2. Doomed' = Doomed /\ worker.state # "opened"
    BY <2>1 DEF Doomed, Idle
  <2> QED
    BY <2>1, <2>2 DEF Spared, Intact
<1>8. CASE WorkerOpens
  <2>1. worker # Idle /\ worker.slot \in Slot /\ worker.state # "opened"
    BY <1>8, WorkerAtWork DEF WorkerOpens
  <2>2. worker'.state = "opened"
    BY <1>8, <2>1, WorkerAtWork DEF WorkerOpens, Job
  <2>3. ASSUME Intact PROVE Intact'
    <3>1. PICK s \in Slot \ {worker.slot} : snaps[s] \in Content
      BY <2>1, <2>3 DEF Spared, Doomed
    <3>2. snaps'[s] = snaps[s]
      BY <1>8, <3>1 DEF WorkerOpens, StateOK
    <3> QED
      BY <3>1, <3>2 DEF Intact
  <2> QED
    BY <2>2, <2>3 DEF Spared
<1>9. CASE WorkerWrites
  <2>1. worker # Idle /\ worker.slot \in Slot /\ worker.content \in Content
    BY <1>9, WorkerAtWork DEF WorkerWrites
  <2>2. snaps'[worker.slot] \in Content
    BY <1>9, <2>1 DEF WorkerWrites, StateOK
  <2>3. slot' # worker.slot
    BY <1>9, <2>1, NextIsAnother DEF WorkerWrites, WorkerBehind
  <2> QED
    BY <1>9, <2>1, <2>2, <2>3 DEF WorkerWrites, Spared, Intact, Doomed
<1>10. CASE WorkerFails
  BY <1>10 DEF WorkerFails, SnapshotsSucceed
<1>11. CASE UNCHANGED vars
  BY <1>1, <1>11 DEF vars, backup
<1> QED
  BY <1>3, <1>4, <1>5, <1>6, <1>7, <1>8, <1>9, <1>10, <1>11, <1>12
  DEF Next, Step, OfTheUser

(* With more than one slot a backup cut short is never the only snapshot    *)
(* there is, if there was one before (m_backup_files written in turn).      *)
THEOREM OneIsKept ==
    ASSUME Generations > 1 PROVE Spec => SnapshotKept
<1>1. Init => Spared
  <2> SUFFICES ASSUME Init PROVE Spared
    OBVIOUS
  <2>1. 0 \in Slot /\ (0 + 1) % Generations \in Slot
    BY SlotGoesRound DEF Slot
  <2>2. (0 + 1) % Generations # 0
    BY <2>1, NextIsAnother
  <2> QED
    BY <2>1, <2>2 DEF Init, Spared, Intact, Doomed, NoSnapshot
<1>2. SnapshotsSucceed /\ BInv /\ Spared /\ StateOK' /\ [Next]_vars
      => Spared' /\ (Open /\ Open' /\ Intact => Intact')
  BY SpareStep
<1>3. [Next]_vars => (SnapshotsSucceed' <=> SnapshotsSucceed)
  BY DEF Next, vars, SnapshotsSucceed
<1>4. BInv /\ (SnapshotsSucceed => Spared) /\ StateOK' /\ [Next]_vars
      => [SnapshotsSucceed /\ Open /\ Open' /\ Intact => Intact']_vars
  BY <1>2
<1> QED
  BY <1>1, <1>2, <1>3, <1>4, BackupInvariant, StateCorrect, PTL DEF Spec, SnapshotKept
=============================================================================
