----------------------------- MODULE WholeSaves -----------------------------
(***************************************************************************)
(* What a save promises (QetDbFile::save(), "put in its place at once.  On *)
(* any failure path is as it was"): the file of a project goes from one    *)
(* whole file to the next, and the next one is what the project holds.     *)
(* Nothing in between is ever there, whatever fails.                       *)
(***************************************************************************)
EXTENDS Naturals

CONSTANTS
    Paths,
    Content,      \* what a project, or a file, may hold
    Saved(_),     \* how a file holds what a project holds
    None

VARIABLES
    held,   \* what the project holds, None when none is open
    home,   \* its path
    there,  \* what the file of each path holds
    edits   \* how often another program wrote to a file

vars == <<held, home, there, edits>>

Init ==
    /\ held = None
    /\ home = None
    /\ there = [p \in Paths |-> None]
    /\ edits = 0

New ==
    /\ held = None
    /\ held' \in Content
    /\ UNCHANGED <<home, there, edits>>

Open(p) ==
    /\ held = None
    /\ there[p] \in Content
    /\ held' = there[p]
    /\ home' = p
    /\ UNCHANGED <<there, edits>>

Work ==
    /\ held # None
    /\ held' \in Content
    /\ UNCHANGED <<home, there, edits>>

Leave ==
    /\ held' = None
    /\ home' = None
    /\ UNCHANGED <<there, edits>>

Save(p) ==
    /\ held # None
    /\ there' = [there EXCEPT ![p] = Saved(held)]
    /\ home' \in {home, p}
    /\ UNCHANGED <<held, edits>>

\* A copy of something else, never onto the open project
Derive(p) ==
    /\ p # home
    /\ \E content \in Content : there' = [there EXCEPT ![p] = content]
    /\ UNCHANGED <<held, home, edits>>

Foreign(p) ==
    /\ there[p] \in Content
    /\ \E content \in Content : there' = [there EXCEPT ![p] = content]
    /\ edits' = edits + 1
    /\ UNCHANGED <<held, home>>

Next ==
    \/ New \/ Work \/ Leave
    \/ \E p \in Paths : Open(p) \/ Save(p) \/ Derive(p) \/ Foreign(p)

Spec == Init /\ [][Next]_vars
=============================================================================
