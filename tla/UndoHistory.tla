---------------------------- MODULE UndoHistory ----------------------------
(***************************************************************************)
(* What an undo history promises, whatever the document is: a change can   *)
(* be taken back and made again, and each time the document is what it was *)
(* then.  Making a new change forgets the changes that were taken back.    *)
(***************************************************************************)
EXTENDS Sequences, SequencesExt

VARIABLES document,     \* what the document is now
          past,         \* what it was before each change that can be undone
          future        \* what it becomes by each change that can be redone

history == <<document, past, future>>

Init == /\ past = << >>
        /\ future = << >>

Change == /\ past' = Append(past, document)
          /\ future' = << >>

Undo == /\ past # << >>
        /\ document' = Last(past)
        /\ past' = Front(past)
        /\ future' = <<document>> \o future

Redo == /\ future # << >>
        /\ document' = Head(future)
        /\ past' = Append(past, document)
        /\ future' = Tail(future)

Next == Change \/ Undo \/ Redo

Spec == Init /\ [][Next]_history

\* A change that becomes part of the one before it is taken back with it.
Merge == /\ past # << >>
         /\ past' = past
         /\ future' = << >>

MergingSpec == Init /\ [][Next \/ Merge]_history
=============================================================================
