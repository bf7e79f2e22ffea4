------------------------------ MODULE FileTurns ------------------------------
(***************************************************************************)
(* What the lock beside a project promises (the comments of class           *)
(* ProjectLock, projectlock.h, and of acquire(), projectlock.cpp): the      *)
(* people who share a project file work on it in turns.  Whoever has the    *)
(* turn starts from the file as it is, and puts back at least what was      *)
(* there.  Where no lock is to be had, people are let in "as without        *)
(* locking": guests, who save when they like.  The promise is then for all  *)
(* whom no save of a guest, nor a guest whom no save at all, has crossed.   *)
(***************************************************************************)
CONSTANTS
    Session,  \* the running programs
    Edit,     \* what people put into the project
    NoOne     \* nobody has the turn

VARIABLES
    file,     \* the edits in the project file
    writer,   \* who has the turn
    draft,    \* the edits in the writer's project
    guests,   \* who works on the file without a turn
    crossed   \* whose project lacks what a crossing save may have put there

vars == <<file, writer, draft, guests, crossed>>

TypeOK ==
    /\ file \in SUBSET Edit
    /\ writer \in Session \union {NoOne}
    /\ draft \in SUBSET Edit
    /\ guests \in SUBSET Session
    /\ crossed \in SUBSET Session

Init ==
    /\ file = {}
    /\ writer = NoOne
    /\ draft = {}
    /\ guests = {}
    /\ crossed = {}

Take(s) ==
    /\ writer = NoOne
    /\ s \notin guests
    /\ writer' = s
    /\ draft' = file
    /\ UNCHANGED <<file, guests, crossed>>

Change(e) ==
    /\ writer # NoOne
    /\ draft' = draft \union {e}
    /\ UNCHANGED <<file, writer, guests, crossed>>

Publish ==
    /\ writer # NoOne
    /\ file' = draft
    /\ crossed' = (crossed \ {writer}) \union guests
    /\ UNCHANGED <<writer, draft, guests>>

\* The project is closed, saved elsewhere, or its program ends.
Leave ==
    /\ writer' = NoOne
    /\ draft' = {}
    /\ crossed' = crossed \ {writer}
    /\ UNCHANGED <<file, guests>>

Admit(s) ==
    /\ s \notin crossed \union {writer}
    /\ guests' = guests \union {s}
    /\ UNCHANGED <<file, writer, draft, crossed>>

\* A guest nobody has crossed drops nothing either.
Barge(s) ==
    /\ s \in guests
    /\ file' \in SUBSET Edit
    /\ s \notin crossed => file \subseteq file'
    /\ crossed' = (crossed \union guests \union {writer}) \ {s, NoOne}
    /\ UNCHANGED <<writer, draft, guests>>

Dismiss(s) ==
    /\ s \in guests
    /\ guests' = guests \ {s}
    /\ crossed' = crossed \ {s}
    /\ UNCHANGED <<file, writer, draft>>

Next ==
    \/ \E s \in Session : Take(s) \/ Admit(s) \/ Barge(s) \/ Dismiss(s)
    \/ \E e \in Edit : Change(e)
    \/ Publish
    \/ Leave

Spec == Init /\ [][Next]_vars

(* The writer's project has everything that is in the file, unless a guest  *)
(* has crossed it; the writer is no guest, and a crossed project is that of *)
(* one of them.                                                             *)
DraftHasFile ==
    /\ writer \notin guests
    /\ writer # NoOne /\ writer \notin crossed => file \subseteq draft
    /\ crossed \subseteq guests \union {writer}

(* Nothing that was once in the file is ever missing from it as long as     *)
(* nobody is crossed - so never, where nobody is let in without the lock.   *)
FileGrows == [][crossed = {} => file \subseteq file']_vars
=============================================================================
