-------------------------- MODULE ProjectFileProofs --------------------------
(***************************************************************************)
(* Proofs about ProjectFile, for any number of sessions and edits, any      *)
(* format of the file and any overlap of opens and saves.                   *)
(***************************************************************************)
EXTENDS ProjectFile, TLAPS

USE ConstantsAssumption

(* Every variable keeps its type (the state of an open project,             *)
(* qetproject.h).                                                           *)
THEOREM TypeCorrect == Spec => []TypeOK
<1>1. Init => TypeOK
  BY DEF Init, TypeOK, Labels, Content
<1>2. TypeOK /\ [Next]_vars => TypeOK'
  <2> SUFFICES ASSUME TypeOK, [Next]_vars PROVE TypeOK'
    OBVIOUS
  <2> USE DEF TypeOK, Labels, Opening, Saving, Content, project, remembered, history, beside,
              At, Goto, Put
  <2>1. CASE UNCHANGED vars
    BY <2>1 DEF vars
  <2>2. ASSUME NEW s \in Session, Step(s) PROVE TypeOK'
    <3>1. CASE Heartbeat(s)
      <4>1. CASE owner = NoOne
        BY <3>1, <4>1 DEF Heartbeat
      <4>2. CASE ~(owner = NoOne)
        BY <3>1, <4>2 DEF Heartbeat
      <4> QED
        BY <4>1, <4>2
    <3>2. CASE Open(s)
      BY <3>2 DEF Open, TakeLock, LackLock
    <3>3. CASE OpenReadOnly(s)
      BY <3>3 DEF OpenReadOnly
    <3>4. CASE OpenAnyway(s)
      <4>1. owner' \in Session \union {NoOne} /\ taken' \in [Session -> BOOLEAN]
        BY <3>4 DEF OpenAnyway, TakeLock, LackLock
      <4> QED
        BY <3>4, <4>1 DEF OpenAnyway, TakeLock, LackLock
    <3>5. CASE CancelOpen(s)
      BY <3>5 DEF CancelOpen
    <3>6. CASE Read(s)
      BY <3>6 DEF Read
    <3>7. CASE ReadAgain(s)
      BY <3>7 DEF ReadAgain
    <3>8. CASE Stat(s)
      BY <3>8 DEF Stat
    <3>9. CASE Show(s)
      BY <3>9 DEF Show
    <3>10. CASE NewProject(s)
      BY <3>10 DEF NewProject
    <3>11. ASSUME NEW e \in Edit, MakeEdit(s, e) PROVE TypeOK'
      BY <3>11 DEF MakeEdit
    <3>12. CASE Save(s)
      <4>1. CASE ChangedOnDisk(s)
        BY <3>12, <4>1 DEF Save, StartWrite
      <4>2. CASE ~(ChangedOnDisk(s))
        BY <3>12, <4>2 DEF Save, StartWrite
      <4> QED
        BY <4>1, <4>2
    <3>13. CASE Autosave(s)
      BY <3>13 DEF Autosave, StartWrite
    <3>14. CASE Overwrite(s)
      BY <3>14 DEF Overwrite, StartWrite
    <3>15. CASE CancelSave(s)
      BY <3>15 DEF CancelSave
    <3>16. CASE SaveElsewhere(s)
      BY <3>16 DEF SaveElsewhere, LetGo
    <3>17. CASE SaveAs(s)
      BY <3>17 DEF SaveAs
    <3>18. CASE Check(s)
      <4>1. CASE ChangedOnDisk(s)
        BY <3>18, <4>1 DEF Check, Back
      <4>2. CASE ~(ChangedOnDisk(s))
        BY <3>18, <4>2 DEF Check, Back
      <4> QED
        BY <4>1, <4>2
    <3>19. CASE Replace(s)
      <4>1. crossed' \in [Session -> BOOLEAN]
        BY <3>19 DEF Replace, Crossing
      <4> QED
        BY <3>19, <4>1 DEF Replace
    <3>20. CASE ReplaceFails(s)
      BY <3>20 DEF ReplaceFails, Back
    <3>21. CASE Restat(s)
      BY <3>21 DEF Restat
    <3>22. CASE Rehash(s)
      BY <3>22 DEF Rehash
    <3>23. CASE Relock(s)
      BY <3>23 DEF Relock, Back, TakeLock, LackLock
    <3>24. CASE Close(s)
      BY <3>24 DEF Close, LetGo, Forget
    <3>25. CASE Crash(s)
      BY <3>25 DEF Crash, Forget
    <3>26. CASE Settle(s)
      BY <3>26 DEF Settle
    <3> QED
      BY <2>2, <3>1, <3>2, <3>3, <3>4, <3>5, <3>6, <3>7, <3>8, <3>9, <3>10, <3>11, <3>12,
         <3>13, <3>14, <3>15, <3>16, <3>17, <3>18, <3>19, <3>20, <3>21, <3>22, <3>23,
         <3>24, <3>25, <3>26 DEF Step
  <2> QED
    BY <2>1, <2>2 DEF Next
<1> QED
  BY <1>1, <1>2, PTL DEF Spec

-----------------------------------------------------------------------------
(* One step of one session keeps OneWriter where everybody goes through the *)
(* lock.                                                                    *)
LEMMA StepKeepsOneWriter ==
    ASSUME Cautious, TypeOK, OneWriter, NEW s \in Session, Step(s)
    PROVE  OneWriter'
<1> USE DEF Cautious, TypeOK, OneWriter, HoldersOwn, WritersHold, WritersAreUpToDate,
            Labels, Opening, Saving, Content, project, remembered, history, beside,
            At, Goto, Put, Free, LetIn, MayWrite, HasRead
  <1>1. CASE Heartbeat(s)
    BY <1>1 DEF Heartbeat
  <1>2. CASE Open(s)
    BY <1>2 DEF Open, TakeLock, LackLock
  <1>3. CASE OpenReadOnly(s)
    BY <1>3 DEF OpenReadOnly
  <1>4. CASE OpenAnyway(s)
    BY <1>4 DEF OpenAnyway
  <1>5. CASE CancelOpen(s)
    BY <1>5 DEF CancelOpen
  <1>6. CASE Read(s)
    BY <1>6 DEF Read
  <1>7. CASE ReadAgain(s)
    BY <1>7 DEF ReadAgain
  <1>8. CASE Stat(s)
    BY <1>8 DEF Stat
  <1>9. CASE Show(s)
    BY <1>9 DEF Show
  <1>10. CASE NewProject(s)
    BY <1>10 DEF NewProject
  <1>11. ASSUME NEW e \in Edit, MakeEdit(s, e) PROVE OneWriter'
    BY <1>11 DEF MakeEdit
  <1>12. CASE Save(s)
    BY <1>12 DEF Save, StartWrite
  <1>13. CASE Autosave(s)
    BY <1>13 DEF Autosave, StartWrite
  <1>14. CASE Overwrite(s)
    BY <1>14 DEF Overwrite, StartWrite
  <1>15. CASE CancelSave(s)
    BY <1>15 DEF CancelSave
  <1>16. CASE SaveElsewhere(s)
    BY <1>16 DEF SaveElsewhere, LetGo
  <1>17. CASE SaveAs(s)
    BY <1>17 DEF SaveAs
  <1>18. CASE Check(s)
    BY <1>18 DEF Check, Back
  <1>19. CASE Replace(s)
    BY <1>19 DEF Replace, Crossing, PassedBy
  <1>20. CASE ReplaceFails(s)
    BY <1>20 DEF ReplaceFails, Back
  <1>21. CASE Restat(s)
    BY <1>21 DEF Restat
  <1>22. CASE Rehash(s)
    BY <1>22 DEF Rehash
  <1>23. CASE Relock(s)
    BY <1>23 DEF Relock, Back, TakeLock, LackLock
  <1>24. CASE Close(s)
    BY <1>24 DEF Close, LetGo, Forget
  <1>25. CASE Crash(s)
    BY <1>25 DEF Crash, Forget
  <1>26. CASE Settle(s)
    BY <1>26 DEF Settle
  <1> QED
    BY Cautious, <1>1, <1>2, <1>3, <1>4, <1>5, <1>6, <1>7, <1>8, <1>9, <1>10, <1>11,
       <1>12, <1>13, <1>14, <1>15, <1>16, <1>17, <1>18, <1>19, <1>20, <1>21, <1>22,
       <1>23, <1>24, <1>25, <1>26 DEF Step

(* Where everybody goes through the lock, one session at a time writes, and *)
(* its project has all of the file.                                         *)
THEOREM WritesInTurns == Cautious => (Spec => []OneWriter)
<1> SUFFICES ASSUME Cautious PROVE Spec => []OneWriter
  OBVIOUS
<1>1. Init => OneWriter
  BY DEF Init, OneWriter, HoldersOwn, WritersHold, WritersAreUpToDate, LetIn, MayWrite, HasRead,
         Opening, Saving
<1>2. TypeOK /\ OneWriter /\ [Next]_vars => OneWriter'
  <2> SUFFICES ASSUME TypeOK, OneWriter, [Next]_vars PROVE OneWriter'
    OBVIOUS
  <2>1. CASE UNCHANGED vars
    BY <2>1 DEF vars, project, remembered, history, beside, OneWriter, HoldersOwn, WritersHold,
                WritersAreUpToDate, LetIn, MayWrite, HasRead
  <2>2. CASE \E s \in Session : Step(s)
    BY <2>2, StepKeepsOneWriter
  <2> QED
    BY <2>1, <2>2 DEF Next
<1> QED
  BY <1>1, <1>2, TypeCorrect, PTL DEF Spec

-----------------------------------------------------------------------------
(* Where everybody goes through the lock, no save takes an edit out of the  *)
(* file, whether its user was asked or not, but one that somebody let in    *)
(* without the lock has crossed.                                            *)
THEOREM NothingIsLost == Cautious => (Spec => NoLostEdit)
<1> SUFFICES ASSUME Cautious PROVE Spec => NoLostEdit
  OBVIOUS
<1>1. TypeOK /\ OneWriter /\ [Next]_vars
      => [\/ disk \subseteq disk'
          \/ \E s \in Session :
                (agreed[s] \/ crossed[s]) /\ At(s, "replace") /\ At(s, "restat")']_vars
  <2> SUFFICES ASSUME TypeOK, OneWriter, [Next]_vars
               PROVE  \/ disk \subseteq disk'
                      \/ \E s \in Session : crossed[s] /\ At(s, "replace") /\ At(s, "restat")'
    OBVIOUS
  <2>1. CASE UNCHANGED vars
    BY <2>1 DEF vars
  <2>2. ASSUME NEW s \in Session, Replace(s)
        PROVE  disk \subseteq disk' \/ (crossed[s] /\ At(s, "replace") /\ At(s, "restat")')
    <3>1. At(s, "replace") /\ At(s, "restat")' /\ disk' = work[s]
      BY <2>2 DEF Replace, At, Goto, TypeOK
    <3>2. MayWrite(s)
      BY <3>1 DEF OneWriter, WritersHold, LetIn, MayWrite, HasRead, Saving, At
    <3> QED
      BY <3>1, <3>2 DEF OneWriter, WritersAreUpToDate
  <2>3. ASSUME NEW s \in Session, Step(s), ~Replace(s) PROVE disk' = disk
    BY <2>3 DEF Step, Heartbeat, Open, OpenReadOnly, OpenAnyway, CancelOpen,
       Read, ReadAgain, Stat, Show, NewProject, MakeEdit, Save, StartWrite, Autosave,
       Overwrite, CancelSave, SaveElsewhere, LetGo, SaveAs, Check, Back, ReplaceFails,
       Restat, Rehash, Relock, Close, Forget, Crash, Settle
  <2> QED
    BY <2>1, <2>2, <2>3 DEF Next
<1> QED
  BY <1>1, WritesInTurns, TypeCorrect, PTL DEF Spec, NoLostEdit

(* Whose turn it is, and who is a guest, said of one session.               *)
HasTurn(s) == holds[s] /\ HasRead(s) /\ ~unlocked[s]
IsGuest(s) == HasRead(s) /\ unlocked[s]

(* What the state says of whose turn it is.                                 *)
LEMMA WhoseTurn ==
    ASSUME TypeOK, HoldersOwn
    PROVE  /\ Turn \in Session \union {NoOne}
           /\ \A s \in Session : (Turn = s) <=> HasTurn(s)
           /\ \A s \in Session : (s \in Guests) <=> IsGuest(s)
           /\ \A s \in Session : (s \in Crossed) <=> crossed[s]
           /\ Guests \subseteq Session
           /\ Crossed \subseteq Session
BY DEF TypeOK, HoldersOwn, Turn, Guests, Crossed, HasTurn, IsGuest, MayWrite

(* The same of the state after a step.                                      *)
LEMMA WhoseTurnNext ==
    ASSUME TypeOK', HoldersOwn'
    PROVE  /\ Turn' \in Session \union {NoOne}
           /\ \A s \in Session : (Turn' = s) <=> HasTurn(s)'
           /\ \A s \in Session : (s \in Guests') <=> IsGuest(s)'
           /\ \A s \in Session : (s \in Crossed') <=> crossed'[s]
           /\ Guests' \subseteq Session
           /\ Crossed' \subseteq Session
BY DEF TypeOK, HoldersOwn, Turn, Guests, Crossed, HasTurn, IsGuest, MayWrite, HasRead

(* A step that changes nobody's turn changes nothing in FileTurns.          *)
LEMMA NobodysTurn ==
    ASSUME TypeOK, HoldersOwn, TypeOK', HoldersOwn',
           disk' = disk,
           \A t \in Session : HasTurn(t)' <=> HasTurn(t),
           \A t \in Session : IsGuest(t)' <=> IsGuest(t),
           \A t \in Session : crossed'[t] = crossed[t],
           \A t \in Session : HasTurn(t) => work'[t] = work[t]
    PROVE  UNCHANGED <<disk, Turn, Draft, Guests, Crossed>>
<1>1. Turn' = Turn
  BY WhoseTurn, WhoseTurnNext
<1>2. Guests' = Guests
  BY WhoseTurn, WhoseTurnNext
<1>3. Crossed' = Crossed
  BY WhoseTurn, WhoseTurnNext
<1>4. Turn # NoOne => work'[Turn] = work[Turn]
  BY WhoseTurn
<1> QED
  BY <1>1, <1>2, <1>3, <1>4 DEF Draft

(* Who ends a project gives the turn back, or is a guest no longer.         *)
LEMMA EndsATurn ==
    ASSUME TypeOK, OneWriter, TypeOK', OneWriter', NEW s \in Session,
           disk' = disk, ~holds'[s], ~unlocked'[s], ~crossed'[s],
           \A t \in Session \ {s} :
              /\ HasTurn(t)' <=> HasTurn(t)
              /\ IsGuest(t)' <=> IsGuest(t)
              /\ crossed'[t] = crossed[t]
              /\ work'[t] = work[t]
    PROVE  Turns!Next \/ UNCHANGED <<disk, Turn, Draft, Guests, Crossed>>
<1>1. ~HasTurn(s)' /\ ~IsGuest(s)'
  BY DEF HasTurn, IsGuest
<1>2. CASE HasTurn(s)
  <2>1. Turn = s /\ ~IsGuest(s)
    BY <1>2, WhoseTurn DEF HasTurn, IsGuest, OneWriter
  <2>2. Turn' = NoOne
    BY <1>1, <1>2, <2>1, WhoseTurn, WhoseTurnNext DEF OneWriter
  <2>3. Guests' = Guests
    BY <1>1, <2>1, WhoseTurn, WhoseTurnNext DEF OneWriter
  <2>4. Crossed' = Crossed \ {s}
    BY WhoseTurn, WhoseTurnNext DEF OneWriter
  <2>5. Turns!Leave
    BY <2>1, <2>2, <2>3, <2>4 DEF Turns!Leave, Draft
  <2> QED
    BY <2>5 DEF Turns!Next
<1>3. CASE ~HasTurn(s)
  <2>1. Turn' = Turn
    BY <1>1, <1>3, WhoseTurn, WhoseTurnNext DEF OneWriter
  <2>2. Draft' = Draft
    <3>1. Turn # s /\ Turn \in Session \union {NoOne}
      BY <1>3, WhoseTurn DEF OneWriter
    <3> QED
      BY <2>1, <3>1 DEF Draft
  <2>3. CASE IsGuest(s)
    <3>1. s \in Guests /\ Guests' = Guests \ {s}
      BY <1>1, <2>3, WhoseTurn, WhoseTurnNext DEF OneWriter
    <3>2. Crossed' = Crossed \ {s}
      BY WhoseTurn, WhoseTurnNext DEF OneWriter
    <3>3. Turns!Dismiss(s)
      BY <2>1, <2>2, <3>1, <3>2 DEF Turns!Dismiss
    <3> QED
      BY <3>3 DEF Turns!Next
  <2>4. CASE ~IsGuest(s)
    <3>1. Guests' = Guests
      BY <1>1, <2>4, WhoseTurn, WhoseTurnNext DEF OneWriter
    <3>2. ~crossed[s]
      BY <1>3, <2>4 DEF OneWriter, WritersAreUpToDate, MayWrite, HasTurn, IsGuest
    <3>3. Crossed' = Crossed
      BY <3>2, WhoseTurn, WhoseTurnNext DEF OneWriter
    <3> QED
      BY <2>1, <2>2, <3>1, <3>3
  <2> QED
    BY <2>3, <2>4
<1> QED
  BY <1>2, <1>3

(* Who has read the file takes the turn with the lock, is a guest where it  *)
(* was let in without one, and neither where it was opened read-only.       *)
LEMMA ReadsATurn ==
    ASSUME TypeOK, OneWriter, TypeOK', OneWriter', NEW s \in Session,
           ~HasRead(s), HasRead(s)', work'[s] = disk,
           UNCHANGED <<disk, holds, unlocked, crossed>>,
           \A t \in Session \ {s} : (HasRead(t)' <=> HasRead(t)) /\ work'[t] = work[t]
    PROVE  Turns!Next \/ UNCHANGED <<disk, Turn, Draft, Guests, Crossed>>
<1>1. ~HasTurn(s) /\ ~IsGuest(s) /\ ~crossed[s]
  BY DEF HasTurn, IsGuest, OneWriter, WritersAreUpToDate, MayWrite
<1>2. \A t \in Session \ {s} : (HasTurn(t)' <=> HasTurn(t)) /\ (IsGuest(t)' <=> IsGuest(t))
  BY DEF HasTurn, IsGuest
<1>3. Crossed' = Crossed /\ s \notin Crossed
  BY <1>1, WhoseTurn, WhoseTurnNext DEF OneWriter
<1>4. CASE unlocked[s]
  <2>1. IsGuest(s)' /\ ~HasTurn(s)'
    BY <1>4 DEF HasTurn, IsGuest
  <2>2. Guests' = Guests \union {s}
    BY <1>2, <2>1, WhoseTurn, WhoseTurnNext DEF OneWriter
  <2>3. Turn' = Turn /\ Turn # s
    BY <1>1, <1>2, <2>1, WhoseTurn, WhoseTurnNext DEF OneWriter
  <2>4. Draft' = Draft
    BY <2>3, WhoseTurn DEF Draft, OneWriter
  <2>5. Turns!Admit(s)
    BY <1>3, <2>2, <2>3, <2>4 DEF Turns!Admit
  <2> QED
    BY <2>5 DEF Turns!Next
<1>5. CASE ~unlocked[s]
  <2>1. ~IsGuest(s)'
    BY <1>5 DEF IsGuest
  <2>2. Guests' = Guests /\ s \notin Guests
    BY <1>1, <1>2, <2>1, WhoseTurn, WhoseTurnNext DEF OneWriter
  <2>3. CASE holds[s]
    <3>1. HasTurn(s)'
      BY <1>5, <2>3 DEF HasTurn
    <3>2. Turn' = s
      BY <3>1, WhoseTurnNext DEF OneWriter
    <3>3. Turn = NoOne
      BY <1>1, <2>3, WhoseTurn DEF OneWriter, HoldersOwn, HasTurn
    <3>4. Turns!Take(s)
      BY <1>3, <2>2, <3>2, <3>3 DEF Turns!Take, Draft
    <3> QED
      BY <3>4 DEF Turns!Next
  <2>4. CASE ~holds[s]
    <3>1. ~HasTurn(s)'
      BY <2>4 DEF HasTurn
    <3>2. Turn' = Turn /\ Turn # s
      BY <1>1, <1>2, <3>1, WhoseTurn, WhoseTurnNext DEF OneWriter
    <3>3. Draft' = Draft
      BY <3>2, WhoseTurn DEF Draft, OneWriter
    <3> QED
      BY <1>3, <2>2, <3>2, <3>3
  <2> QED
    BY <2>3, <2>4
<1> QED
  BY <1>4, <1>5

(* Who replaces the file publishes its turn, or barges in as a guest.       *)
LEMMA ReplacesInTurn ==
    ASSUME TypeOK, OneWriter, TypeOK', OneWriter', NEW s \in Session, Replace(s)
    PROVE  Turns!Next
<1>1. /\ HasRead(s) /\ LetIn(s) /\ ~lockedOut[s]
      /\ disk' = work[s]
      /\ UNCHANGED <<work, holds, unlocked>>
      /\ \A t \in Session : HasRead(t)' <=> HasRead(t)
  BY DEF Replace, OneWriter, WritersHold, TypeOK, HasRead, At, Goto, Saving, project, LetIn
<1>2. /\ \A t \in Session : HasTurn(t)' <=> HasTurn(t)
      /\ \A t \in Session : IsGuest(t)' <=> IsGuest(t)
  BY <1>1 DEF HasTurn, IsGuest
<1>3. Turn' = Turn /\ Guests' = Guests
  BY <1>2, WhoseTurn, WhoseTurnNext DEF OneWriter
<1>4. Draft' = Draft
  BY <1>1, <1>3 DEF Draft
<1>5. \A t \in Session : crossed'[t] <=> (t # s /\ (crossed[t] \/ t \in PassedBy(s)))
  BY DEF Replace, Crossing
<1>6. CASE unlocked[s]
  <2>1. s \in Guests
    BY <1>1, <1>6, WhoseTurn DEF IsGuest, OneWriter
  <2>2. \A t \in Session \ {s} : t \in PassedBy(s) <=> (t \in Guests \/ t = Turn)
    BY <1>6, WhoseTurn DEF PassedBy, MayWrite, HasTurn, IsGuest, OneWriter
  <2>3. Crossed' = (Crossed \union Guests \union {Turn}) \ {s, NoOne}
    BY <1>5, <2>2, WhoseTurn, WhoseTurnNext DEF OneWriter
  <2>4. s \notin Crossed => disk \subseteq disk'
    BY <1>1, <1>6, WhoseTurn DEF OneWriter, WritersAreUpToDate, MayWrite
  <2>5. disk' \in SUBSET Edit
    BY DEF TypeOK, Content
  <2>6. Turns!Barge(s)
    BY <1>3, <1>4, <2>1, <2>3, <2>4, <2>5 DEF Turns!Barge
  <2> QED
    BY <2>6 DEF Turns!Next
<1>7. CASE ~unlocked[s]
  <2>1. Turn = s
    BY <1>1, <1>7, WhoseTurn DEF HasTurn, LetIn, OneWriter
  <2>2. \A t \in Session \ {s} : t \in PassedBy(s) <=> t \in Guests
    BY <1>7, WhoseTurn DEF PassedBy, MayWrite, IsGuest, OneWriter
  <2>3. s \notin Guests
    BY <1>7, WhoseTurn DEF IsGuest, OneWriter
  <2>4. Crossed' = (Crossed \ {s}) \union Guests
    BY <1>5, <2>2, <2>3, WhoseTurn, WhoseTurnNext DEF OneWriter
  <2>5. Turns!Publish
    BY <1>1, <1>3, <1>4, <2>1, <2>4 DEF Turns!Publish, Draft
  <2> QED
    BY <2>5 DEF Turns!Next
<1> QED
  BY <1>6, <1>7

(* One step of one session is one of FileTurns, or changes nothing there.   *)
LEMMA StepIsATurn ==
    ASSUME Cautious, TypeOK, OneWriter, TypeOK', OneWriter', NEW s \in Session, Step(s)
    PROVE  Turns!Next \/ UNCHANGED <<disk, Turn, Draft, Guests, Crossed>>
<1> DEFINE Quiet == UNCHANGED <<disk, Turn, Draft, Guests, Crossed>>
<1>1. ASSUME disk' = disk, holds' = holds, unlocked' = unlocked, crossed' = crossed,
             \A t \in Session : HasRead(t)' <=> HasRead(t),
             \A t \in Session : HasTurn(t) => work'[t] = work[t]
      PROVE  Quiet
  <2>1. /\ \A t \in Session : HasTurn(t)' <=> HasTurn(t)
        /\ \A t \in Session : IsGuest(t)' <=> IsGuest(t)
    BY <1>1 DEF HasTurn, IsGuest
  <2> QED
    BY <1>1, <2>1, NobodysTurn DEF OneWriter
<1> HIDE DEF Quiet
<1> DEFINE Own == Turns!Next \/ Quiet
<1>4. CASE Heartbeat(s)
  BY <1>4 DEF Heartbeat, OneWriter, HoldersOwn
<1>5. CASE OpenReadOnly(s)
  <2>1. UNCHANGED <<disk, holds, unlocked, crossed, work>>
    BY <1>5 DEF OpenReadOnly, project, remembered, history, beside
  <2>2. \A t \in Session : HasRead(t)' <=> HasRead(t)
    BY <1>5 DEF OpenReadOnly, TypeOK, HasRead, At, Goto, Opening, Saving
  <2> QED
    BY <1>1, <2>1, <2>2 DEF Quiet
<1>6. CASE CancelOpen(s)
  <2>1. UNCHANGED <<disk, holds, unlocked, crossed, work>>
    BY <1>6 DEF CancelOpen, project, remembered, history, beside
  <2>2. \A t \in Session : HasRead(t)' <=> HasRead(t)
    BY <1>6 DEF CancelOpen, TypeOK, HasRead, At, Goto, Opening, Saving
  <2> QED
    BY <1>1, <2>1, <2>2 DEF Quiet
<1>7. CASE Stat(s)
  <2>1. UNCHANGED <<disk, holds, unlocked, crossed, work>>
    BY <1>7 DEF Stat, project, remembered, history, beside
  <2>2. \A t \in Session : HasRead(t)' <=> HasRead(t)
    BY <1>7 DEF Stat, TypeOK, HasRead, At, Goto, Opening, Saving
  <2> QED
    BY <1>1, <2>1, <2>2 DEF Quiet
<1>8. CASE Show(s)
  <2>1. UNCHANGED <<disk, holds, unlocked, crossed, work>>
    BY <1>8 DEF Show, project, remembered, history, beside
  <2>2. \A t \in Session : HasRead(t)' <=> HasRead(t)
    BY <1>8 DEF Show, TypeOK, HasRead, At, Goto, Opening, Saving
  <2> QED
    BY <1>1, <2>1, <2>2 DEF Quiet
<1>9. CASE NewProject(s)
  BY <1>9 DEF NewProject, Cautious
<1>10. CASE Save(s)
  <2>1. UNCHANGED <<disk, holds, unlocked, crossed, work>>
    BY <1>10 DEF Save, StartWrite, project, remembered, history, beside
  <2>2. \A t \in Session : HasRead(t)' <=> HasRead(t)
    BY <1>10 DEF Save, StartWrite, TypeOK, HasRead, At, Goto, Opening, Saving
  <2> QED
    BY <1>1, <2>1, <2>2 DEF Quiet
<1>11. CASE Autosave(s)
  <2>1. UNCHANGED <<disk, holds, unlocked, crossed, work>>
    BY <1>11 DEF Autosave, StartWrite, project, remembered, history, beside
  <2>2. \A t \in Session : HasRead(t)' <=> HasRead(t)
    BY <1>11 DEF Autosave, StartWrite, TypeOK, HasRead, At, Goto, Opening, Saving
  <2> QED
    BY <1>1, <2>1, <2>2 DEF Quiet
<1>12. CASE Overwrite(s)
  <2>1. UNCHANGED <<disk, holds, unlocked, crossed, work>>
    BY <1>12 DEF Overwrite, StartWrite, project, remembered, history, beside
  <2>2. \A t \in Session : HasRead(t)' <=> HasRead(t)
    BY <1>12 DEF Overwrite, StartWrite, TypeOK, HasRead, At, Goto, Opening, Saving
  <2> QED
    BY <1>1, <2>1, <2>2 DEF Quiet
<1>13. CASE CancelSave(s)
  <2>1. UNCHANGED <<disk, holds, unlocked, crossed, work>>
    BY <1>13 DEF CancelSave, project, remembered, history, beside
  <2>2. \A t \in Session : HasRead(t)' <=> HasRead(t)
    BY <1>13 DEF CancelSave, TypeOK, HasRead, At, Goto, Opening, Saving
  <2> QED
    BY <1>1, <2>1, <2>2 DEF Quiet
<1>14. CASE SaveAs(s)
  <2>1. UNCHANGED <<disk, holds, unlocked, crossed, work>>
    BY <1>14 DEF SaveAs, project, remembered, history, beside
  <2>2. \A t \in Session : HasRead(t)' <=> HasRead(t)
    BY <1>14 DEF SaveAs, TypeOK, HasRead, At, Goto, Opening, Saving
  <2> QED
    BY <1>1, <2>1, <2>2 DEF Quiet
<1>15. CASE Check(s)
  <2>1. UNCHANGED <<disk, holds, unlocked, crossed, work>>
    BY <1>15 DEF Check, Back, project, remembered, history, beside
  <2>2. \A t \in Session : HasRead(t)' <=> HasRead(t)
    BY <1>15 DEF Check, Back, TypeOK, HasRead, At, Goto, Opening, Saving
  <2> QED
    BY <1>1, <2>1, <2>2 DEF Quiet
<1>16. CASE ReplaceFails(s)
  <2>1. UNCHANGED <<disk, holds, unlocked, crossed, work>>
    BY <1>16 DEF ReplaceFails, Back, project, remembered, history, beside
  <2>2. \A t \in Session : HasRead(t)' <=> HasRead(t)
    BY <1>16 DEF ReplaceFails, Back, TypeOK, HasRead, At, Goto, Opening, Saving
  <2> QED
    BY <1>1, <2>1, <2>2 DEF Quiet
<1>17. CASE Restat(s)
  <2>1. UNCHANGED <<disk, holds, unlocked, crossed, work>>
    BY <1>17 DEF Restat, project, remembered, history, beside
  <2>2. \A t \in Session : HasRead(t)' <=> HasRead(t)
    BY <1>17 DEF Restat, TypeOK, HasRead, At, Goto, Opening, Saving
  <2> QED
    BY <1>1, <2>1, <2>2 DEF Quiet
<1>18. CASE Rehash(s)
  <2>1. UNCHANGED <<disk, holds, unlocked, crossed, work>>
    BY <1>18 DEF Rehash, project, remembered, history, beside
  <2>2. \A t \in Session : HasRead(t)' <=> HasRead(t)
    BY <1>18 DEF Rehash, TypeOK, HasRead, At, Goto, Opening, Saving
  <2> QED
    BY <1>1, <2>1, <2>2 DEF Quiet
<1>19. CASE Settle(s)
  <2>1. UNCHANGED <<disk, holds, unlocked, crossed, work>>
    BY <1>19 DEF Settle, project, remembered, history, beside
  <2>2. \A t \in Session : HasRead(t)' <=> HasRead(t)
    BY <1>19 DEF Settle, TypeOK, HasRead, At, Goto, Opening, Saving
  <2> QED
    BY <1>1, <2>1, <2>2 DEF Quiet
<1>20. CASE Open(s)
  <2>1. /\ UNCHANGED <<disk, crossed, work>>
        /\ \A t \in Session \ {s} : UNCHANGED <<holds[t], unlocked[t]>>
    BY <1>20 DEF Open, TakeLock, LackLock, TypeOK, Put
  <2>2. /\ \A t \in Session \ {s} : HasRead(t)' <=> HasRead(t)
        /\ ~HasRead(s) /\ ~HasRead(s)'
    <3>1. pc[s] = "none" /\ (pc' = [pc EXCEPT ![s] = "read"] \/ pc' = [pc EXCEPT ![s] = "ask"])
      BY <1>20 DEF Open, At, Goto
    <3> QED
      BY <3>1 DEF TypeOK, HasRead
  <2>3. /\ \A t \in Session : HasTurn(t)' <=> HasTurn(t)
        /\ \A t \in Session : IsGuest(t)' <=> IsGuest(t)
    BY <2>1, <2>2 DEF HasTurn, IsGuest
  <2> QED
    BY <2>1, <2>3, NobodysTurn DEF Quiet, OneWriter
<1>21. CASE OpenAnyway(s)
  BY <1>21 DEF OpenAnyway, Cautious
<1>22. CASE Read(s)
  <2>1. CASE Database
    <3>1. UNCHANGED <<disk, holds, unlocked, crossed, work>>
      BY <1>22, <2>1 DEF Read, beside
    <3>2. \A t \in Session : HasRead(t)' <=> HasRead(t)
      BY <1>22, <2>1 DEF Read, TypeOK, HasRead, At, Goto
    <3> QED
      BY <1>1, <3>1, <3>2 DEF Quiet
  <2>2. CASE ~Database
    <3>1. /\ ~HasRead(s) /\ HasRead(s)' /\ work'[s] = disk
          /\ UNCHANGED <<disk, holds, unlocked, crossed>>
          /\ \A t \in Session \ {s} : (HasRead(t)' <=> HasRead(t)) /\ work'[t] = work[t]
      BY <1>22, <2>2 DEF Read, TypeOK, HasRead, At, Goto, Put, beside
    <3> QED
      BY <3>1, ReadsATurn DEF Quiet
  <2> QED
    BY <2>1, <2>2
<1>23. CASE ReadAgain(s)
  <2>1. /\ ~HasRead(s) /\ HasRead(s)' /\ work'[s] = disk
        /\ UNCHANGED <<disk, holds, unlocked, crossed>>
        /\ \A t \in Session \ {s} : (HasRead(t)' <=> HasRead(t)) /\ work'[t] = work[t]
    BY <1>23 DEF ReadAgain, TypeOK, HasRead, At, Goto, Put, beside
  <2> QED
    BY <2>1, ReadsATurn DEF Quiet
<1>24. ASSUME NEW e \in Edit, MakeEdit(s, e) PROVE Own
  <2>1. /\ UNCHANGED <<disk, pc, holds, unlocked, crossed>>
        /\ work'[s] = work[s] \union {e}
        /\ \A t \in Session \ {s} : work'[t] = work[t]
    BY <1>24 DEF MakeEdit, TypeOK, Put, history, beside
  <2>2. \A t \in Session : HasRead(t)' <=> HasRead(t)
    BY <2>1 DEF HasRead
  <2>3. CASE HasTurn(s)
    <3>1. Turn = s
      BY <2>3, WhoseTurn DEF OneWriter
    <3>2. Turn' = s
      BY <2>1, <2>2, <2>3, WhoseTurnNext DEF OneWriter, HasTurn
    <3>3. Guests' = Guests /\ Crossed' = Crossed
      BY <2>1, <2>2, WhoseTurn, WhoseTurnNext DEF OneWriter, IsGuest
    <3>4. Turns!Change(e)
      BY <2>1, <3>1, <3>2, <3>3 DEF Turns!Change, Draft
    <3> QED
      BY <3>4, <1>24 DEF Turns!Next
  <2>4. CASE ~HasTurn(s)
    BY <1>1, <2>1, <2>2, <2>4 DEF Quiet
  <2> QED
    BY <2>3, <2>4
<1>25. CASE Replace(s)
  BY <1>25, ReplacesInTurn
<1>26. CASE Relock(s)
  <2>1. /\ UNCHANGED <<disk, crossed, work>>
        /\ \A t \in Session \ {s} : UNCHANGED <<holds[t], unlocked[t]>>
        /\ \A t \in Session : HasRead(t)' <=> HasRead(t)
        /\ LetIn(s) /\ ~lockedOut[s]
    BY <1>26 DEF Relock, Back, TakeLock, LackLock, TypeOK, HasRead, At, Goto, Put, OneWriter,
             WritersHold, Saving
  <2>2. /\ unlocked'[s] <=> unlocked[s]
        /\ HasTurn(s)' <=> HasTurn(s)
    <3>1. CASE holds[s]
      BY <1>26, <2>1, <3>1 DEF Relock, HasTurn
    <3>2. CASE ~holds[s]
      <4>1. unlocked[s]
        BY <2>1, <3>2 DEF LetIn
      <4>2. unlocked'[s]
        BY <1>26, <4>1 DEF Relock, TakeLock, LackLock, TypeOK, Put
      <4> QED
        BY <4>1, <4>2 DEF HasTurn
    <3> QED
      BY <3>1, <3>2
  <2>3. /\ \A t \in Session : HasTurn(t)' <=> HasTurn(t)
        /\ \A t \in Session : IsGuest(t)' <=> IsGuest(t)
    BY <2>1, <2>2 DEF HasTurn, IsGuest
  <2> QED
    BY <2>1, <2>3, NobodysTurn DEF Quiet, OneWriter
<1>27. CASE SaveElsewhere(s)
  <2>1. /\ disk' = disk /\ ~holds'[s] /\ ~unlocked'[s] /\ ~crossed'[s]
        /\ \A t \in Session \ {s} : UNCHANGED <<pc[t], holds[t], unlocked[t], crossed[t], work[t]>>
    BY <1>27 DEF SaveElsewhere, TypeOK, Goto, Put
  <2>2. \A t \in Session \ {s} :
           /\ HasTurn(t)' <=> HasTurn(t)
           /\ IsGuest(t)' <=> IsGuest(t)
    BY <2>1 DEF HasTurn, IsGuest, HasRead
  <2> QED
    BY <2>1, <2>2, EndsATurn DEF Quiet
<1>28. CASE Close(s)
  <2>1. /\ disk' = disk /\ ~holds'[s] /\ ~unlocked'[s] /\ ~crossed'[s]
        /\ \A t \in Session \ {s} : UNCHANGED <<pc[t], holds[t], unlocked[t], crossed[t], work[t]>>
    BY <1>28 DEF Close, Forget, TypeOK, Goto, Put
  <2>2. \A t \in Session \ {s} :
           /\ HasTurn(t)' <=> HasTurn(t)
           /\ IsGuest(t)' <=> IsGuest(t)
    BY <2>1 DEF HasTurn, IsGuest, HasRead
  <2> QED
    BY <2>1, <2>2, EndsATurn DEF Quiet
<1>29. CASE Crash(s)
  <2>1. /\ disk' = disk /\ ~holds'[s] /\ ~unlocked'[s] /\ ~crossed'[s]
        /\ \A t \in Session \ {s} : UNCHANGED <<pc[t], holds[t], unlocked[t], crossed[t], work[t]>>
    BY <1>29 DEF Crash, Forget, TypeOK, Goto, Put
  <2>2. \A t \in Session \ {s} :
           /\ HasTurn(t)' <=> HasTurn(t)
           /\ IsGuest(t)' <=> IsGuest(t)
    BY <2>1 DEF HasTurn, IsGuest, HasRead
  <2> QED
    BY <2>1, <2>2, EndsATurn DEF Quiet
<1> QED
  BY <1>4, <1>5, <1>6, <1>7, <1>8, <1>9, <1>10, <1>11, <1>12, <1>13, <1>14, <1>15, <1>16,
     <1>17, <1>18, <1>19, <1>20, <1>21, <1>22, <1>23, <1>24, <1>25, <1>26, <1>27, <1>28,
     <1>29 DEF Step, Quiet

(* Where everybody goes through the lock, opening and saving implement      *)
(* working in turns.                                                        *)
THEOREM ImplementsTurns == Cautious => (Spec => InTurns)
<1> SUFFICES ASSUME Cautious PROVE Spec => InTurns
  OBVIOUS
<1>1. Init => Turns!Init
  BY DEF Init, Turns!Init, Turn, Draft, Guests, Crossed, MayWrite, HasRead
<1>2. TypeOK /\ OneWriter /\ TypeOK' /\ OneWriter' /\ [Next]_vars => [Turns!Next]_(Turns!vars)
  <2> SUFFICES ASSUME TypeOK, OneWriter, TypeOK', OneWriter', [Next]_vars
               PROVE  Turns!Next \/ UNCHANGED <<disk, Turn, Draft, Guests, Crossed>>
    BY DEF Turns!vars
  <2>1. CASE UNCHANGED vars
    BY <2>1 DEF vars, project, history, beside, Turn, Draft, Guests, Crossed, MayWrite, HasRead
  <2>2. CASE \E s \in Session : Step(s)
    BY <2>2, StepIsATurn
  <2> QED
    BY <2>1, <2>2 DEF Next
<1> QED
  BY <1>1, <1>2, WritesInTurns, TypeCorrect, PTL DEF Spec, InTurns, Turns!Spec

(* Who works in turns keeps every variable in its type and the writer's     *)
(* project up to date with the file (the inductive invariant of the promise *)
(* of projectlock.h).                                                       *)
THEOREM TurnsInvariant == InTurns => [](Turns!TypeOK /\ Turns!DraftHasFile)
<1>1. Turns!Init => Turns!TypeOK /\ Turns!DraftHasFile
  BY DEF Turns!Init, Turns!TypeOK, Turns!DraftHasFile
<1>2. Turns!TypeOK /\ Turns!DraftHasFile /\ [Turns!Next]_(Turns!vars)
      => (Turns!TypeOK /\ Turns!DraftHasFile)'
  BY DEF Turns!TypeOK, Turns!DraftHasFile, Turns!Next, Turns!Take, Turns!Change,
         Turns!Publish, Turns!Leave, Turns!Admit, Turns!Barge, Turns!Dismiss, Turns!vars
<1> QED
  BY <1>1, <1>2, PTL DEF InTurns, Turns!Spec

(* The promise: under turns no save ever takes an edit out of the file      *)
(* while nobody's project is crossed by that of a guest ("instead of both   *)
(* editing and the last save wiping the other's work", projectlock.h).      *)
THEOREM TurnsLoseNothing == InTurns => Turns!FileGrows
<1>1. Turns!DraftHasFile /\ [Turns!Next]_(Turns!vars)
      => [Crossed = {} => disk \subseteq disk']_(Turns!vars)
  BY DEF Turns!DraftHasFile, Turns!Next, Turns!Take, Turns!Change, Turns!Publish,
         Turns!Leave, Turns!Admit, Turns!Barge, Turns!Dismiss, Turns!vars
<1> QED
  BY <1>1, TurnsInvariant, PTL DEF InTurns, Turns!Spec, Turns!FileGrows, Turns!vars

(* So the file only grows, where everybody goes through the lock and while  *)
(* no save of a session let in without it has crossed another's project:    *)
(* what FileTurns promises comes down to the detailed opens and saves.      *)
THEOREM FileOnlyGrows == Cautious => (Spec => Turns!FileGrows)
BY ImplementsTurns, TurnsLoseNothing
-----------------------------------------------------------------------------
(* What a session remembers of the file is what it last read or wrote, and  *)
(* a size and time that still match mean that the file is that, where       *)
(* nobody comes into the middle of an open or a save.  On the way there the *)
(* hash in hand is that of the file.                                        *)
Settling == {"readAgain", "stat", "restat", "rehash"}

RemembersBase ==
    \A s \in Session :
        pc[s] \notin Settling /\ known[s] # Unknown
        => known[s] = base[s] /\ (sameStat[s] => disk = base[s])

HashInHand ==
    \A s \in Session :
        /\ pc[s] \in {"readAgain", "stat"} => hash[s] = disk
        /\ pc[s] \in {"stat", "restat", "rehash"} => base[s] = disk
        /\ pc[s] = "restat" => hash[s] \in {Unknown, disk}
        /\ pc[s] \notin {"readAgain", "stat", "restat"} => hash[s] = Unknown

Remembers == RemembersBase /\ HashInHand

LEMMA StepKeepsRemembers ==
    ASSUME ~Overlap, TypeOK, Remembers, NEW s \in Session, Alone(s), Step(s)
    PROVE  Remembers'
<1>0. \A t \in Session \ {s} : pc[t] \notin Opening \union Saving
  BY DEF Alone
<1> USE DEF TypeOK, Remembers, RemembersBase, HashInHand, Settling, Labels, Opening, Saving,
            Content, project, remembered, history, beside, At, Goto, Put
<1>1. CASE Heartbeat(s)
  BY <1>1 DEF Heartbeat
<1>2. CASE Open(s)
  BY <1>2 DEF Open, TakeLock, LackLock
<1>3. CASE OpenReadOnly(s)
  BY <1>3 DEF OpenReadOnly
<1>4. CASE OpenAnyway(s)
  BY <1>4 DEF OpenAnyway, TakeLock, LackLock
<1>5. CASE CancelOpen(s)
  BY <1>5 DEF CancelOpen
<1>6. CASE Read(s)
  BY <1>6 DEF Read
<1>7. CASE ReadAgain(s)
  BY <1>7 DEF ReadAgain
<1>8. CASE Stat(s)
  BY <1>8 DEF Stat
<1>9. CASE Show(s)
  BY <1>9 DEF Show
<1>10. CASE NewProject(s)
  BY <1>10 DEF NewProject
<1>11. ASSUME NEW e \in Edit, MakeEdit(s, e) PROVE Remembers'
  BY <1>11 DEF MakeEdit
<1>12. CASE Save(s)
  BY <1>12 DEF Save, StartWrite
<1>13. CASE Autosave(s)
  BY <1>13 DEF Autosave, StartWrite
<1>14. CASE Overwrite(s)
  BY <1>14 DEF Overwrite, StartWrite
<1>15. CASE CancelSave(s)
  BY <1>15 DEF CancelSave
<1>16. CASE SaveElsewhere(s)
  BY <1>16 DEF SaveElsewhere, LetGo
<1>17. CASE SaveAs(s)
  BY <1>17 DEF SaveAs
<1>18. CASE Check(s)
  BY <1>18 DEF Check, Back, ChangedOnDisk
<1>19. CASE Replace(s)
  BY <1>0, <1>19 DEF Replace
<1>20. CASE ReplaceFails(s)
  BY <1>20 DEF ReplaceFails, Back
<1>21. CASE Restat(s)
  BY <1>21 DEF Restat
<1>22. CASE Rehash(s)
  BY <1>22 DEF Rehash
<1>23. CASE Relock(s)
  BY <1>23 DEF Relock, Back, TakeLock, LackLock
<1>24. CASE Close(s)
  BY <1>24 DEF Close, LetGo, Forget
<1>25. CASE Crash(s)
  BY <1>25 DEF Crash, Forget
<1>26. CASE Settle(s)
  BY <1>26 DEF Settle
<1> QED
  BY <1>1, <1>2, <1>3, <1>4, <1>5, <1>6, <1>7, <1>8, <1>9, <1>10, <1>11, <1>12, <1>13,
     <1>14, <1>15, <1>16, <1>17, <1>18, <1>19, <1>20, <1>21, <1>22, <1>23, <1>24, <1>25,
     <1>26 DEF Step

(* What is remembered is right, unless somebody comes into the middle of an *)
(* open or a save.                                                          *)
LEMMA RemembersWell == ~Overlap => (Spec => []Remembers)
<1> SUFFICES ASSUME ~Overlap PROVE Spec => []Remembers
  OBVIOUS
<1>1. Init => Remembers
  BY DEF Init, Remembers, RemembersBase, HashInHand, Settling
<1>2. TypeOK /\ Remembers /\ [Next]_vars => Remembers'
  <2> SUFFICES ASSUME TypeOK, Remembers, [Next]_vars PROVE Remembers'
    OBVIOUS
  <2>1. CASE UNCHANGED vars
    BY <2>1 DEF vars, project, remembered, history, beside, Remembers, RemembersBase, HashInHand
  <2>2. CASE \E s \in Session : Alone(s) /\ Step(s)
    BY <2>2, StepKeepsRemembers
  <2> QED
    BY <2>1, <2>2 DEF Next
<1> QED
  BY <1>1, <1>2, TypeCorrect, PTL DEF Spec

(* Where no open and no save is met half way, the check of a save finds     *)
(* every change made to the file since the project last read or wrote it    *)
(* (QETProject::changedOnDisk()).                                           *)
THEOREM ChangesAreSeen == ~Overlap => (Spec => []ChangeIsSeen)
<1> SUFFICES ASSUME ~Overlap PROVE Spec => []ChangeIsSeen
  OBVIOUS
<1>1. Remembers => ChangeIsSeen
  BY DEF Remembers, RemembersBase, Settling, ChangeIsSeen, ChangedOnDisk, At
<1> QED
  BY <1>1, RemembersWell, PTL

(* And it finds nothing else: a time that a share settled late, or another  *)
(* save of the same content, is not taken for a change.                     *)
THEOREM AlarmsAreTrue == ~Overlap => (Spec => []NoFalseAlarm)
<1> SUFFICES ASSUME ~Overlap PROVE Spec => []NoFalseAlarm
  OBVIOUS
<1>1. Remembers => NoFalseAlarm
  BY DEF Remembers, RemembersBase, Settling, NoFalseAlarm, ChangedOnDisk, At
<1> QED
  BY <1>1, RemembersWell, PTL
=============================================================================
