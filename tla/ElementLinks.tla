---------------------------- MODULE ElementLinks ----------------------------
(***************************************************************************)
(* The links between the elements of a project: a coil and its contacts, a *)
(* controller and its cards, an arrow and the arrow it continues on another *)
(* folio.  Both ends hold the link; it is made and broken by commands of   *)
(* the undo stack, by the deletion of an element, and behind the stack's   *)
(* back by the timer that links the arrows of a chained project.           *)
(***************************************************************************)
EXTENDS Integers, Sequences, SequencesExt

CONSTANTS
    Elements,
    Kind,        \* what each is: linkType(), and whether it is of a PLC
    RowsOf,      \* the contact groups of a master, the I/Os of a PLC master
    Label,       \* the labels of the reports
    Folio,       \* where the elements are
    Scenes,      \* bound: the sets of elements a project may have
    Removals,    \* bound: the sets of elements a user deletes at once
    Chains,      \* chainedReports(): the choices of the projects considered
    MaxDone,     \* bound: how long the undo stack may get
    NoRow, NoLabel

Kinds == {"master", "plc master", "slave", "plc slave", "next", "previous"}
Rows == UNION {RowsOf[e] : e \in Elements}

ASSUME LinksAssumption ==
    /\ Kind \in [Elements -> Kinds]
    /\ NoRow \notin Rows
    /\ Scenes \subseteq SUBSET Elements
    /\ Removals \subseteq SUBSET Elements
    /\ Chains \subseteq BOOLEAN
    /\ MaxDone \in Nat

IsMaster(e) == Kind[e] \in {"master", "plc master"}
IsSlave(e) == Kind[e] \in {"slave", "plc slave"}
IsReport(e) == Kind[e] \in {"next", "previous"}

VARIABLES
    linked,   \* connected_elements of each element
    row,      \* m_group_index_map: row[m][s] is the row of m that s takes
    drawn,    \* the elements that are on a folio
    done,     \* the undo stack up to its index
    undone,   \* the commands above it
    clean,    \* the clean index of the undo stack, -1 when there is none
    chained,  \* m_chained_reports
    due,      \* m_pending_auto_link
    past, future  \* history: the documents undo and redo should bring back

stack == <<done, undone, clean, past, future>>
vars == <<linked, row, drawn, stack, chained, due>>

Command ==
    [what : {"link"}, of : Elements, before : SUBSET Elements, after : SUBSET Elements,
     index : Rows \union {NoRow}, rows : [Elements -> Rows \union {NoRow}]]
    \union [what : {"delete"}, items : SUBSET Elements, held : [Elements -> SUBSET Elements]]

TypeOK ==
    /\ linked \in [Elements -> SUBSET Elements]
    /\ row \in [Elements -> [Elements -> Rows \union {NoRow}]]
    /\ drawn \subseteq Elements
    /\ done \in Seq(Command)
    /\ undone \in Seq(Command)
    /\ clean \in Nat \union {-1}
    /\ chained \in BOOLEAN
    /\ due \in BOOLEAN

-----------------------------------------------------------------------------
(* Making and breaking links.                                               *)

\* The types linkToElement() takes.
Fits(a, b) == \/ IsMaster(a) /\ IsSlave(b)
              \/ IsSlave(a) /\ IsMaster(b)
              \/ IsReport(a) /\ IsReport(b) /\ Kind[a] # Kind[b]

\* What isLinkable() asks beyond that of a master and a slave.
Suits(a, b) == Fits(a, b) /\ (Kind[a] \in {"plc master", "plc slave"}
                              <=> Kind[b] \in {"plc master", "plc slave"})

IsFree(e) == linked[e] = {}

\* A slip: whether the other end is free is not asked.
IsLinkableTaken(a, b, alreadyLinked) == Suits(a, b)

\* LinkElementCommand::isLinkable()
IsLinkable(a, b, alreadyLinked) ==
    /\ Suits(a, b)
    /\ \/ \A e \in {a, b} : IsMaster(e) \/ IsFree(e)
       \/ alreadyLinked /\ b \in linked[a]

\* A slip: the partners are not told.
FreedAlone(links, some) == [e \in Elements |-> IF e \in some THEN {} ELSE links[e]]

\* unlinkAllElements() of each of them: their partners let go of them.
Freed(links, some) ==
    [e \in Elements |-> IF e \in some THEN {}
                        ELSE links[e] \ {x \in some : e \in links[x]}]

\* unlinkElement() of each of them, from e.
Unlinked(links, e, others) ==
    [x \in Elements |-> IF x = e THEN links[e] \ others
                        ELSE IF x \in others THEN links[x] \ {e}
                        ELSE links[x]]

Partners(pairs, e) == {x \in Elements : <<e, x>> \in pairs \/ <<x, e>> \in pairs}

\* A set of links in which who can have one partner only has one.
OneEach(pairs) ==
    \A e \in Elements : ~IsMaster(e) => \A x, y \in Partners(pairs, e) : x = y

\* A slip: the partner they had is kept.
JoinedToo(links, pairs) ==
    LET new == {p \in pairs : Fits(p[1], p[2]) /\ p[2] \notin links[p[1]]}
    IN [e \in Elements |-> links[e] \union Partners(new, e)]

\* linkToElement() for each of the pairs, OneEach: a slave and a report
\* leave the partner they had.
Joined(links, pairs) ==
    LET new == {p \in pairs : Fits(p[1], p[2]) /\ p[2] \notin links[p[1]]}
        moving == {e \in Elements : ~IsMaster(e) /\ Partners(new, e) # {}}
    IN [e \in Elements |-> Freed(links, moving)[e] \union Partners(new, e)]

\* A slip: no master does.
ForgottenByNone(rows, now) == rows

\* A slip: setGroupIndexForElement() keeps the -1 it is given.
ForgottenAsNumber(rows, now) ==
    [m \in Elements |-> [s \in Elements |->
        IF Kind[m] = "plc master" /\ s \in linked[m] \ now[m] THEN -1 ELSE rows[m][s]]]

\* MasterElement::unlinkElement(): a PLC master forgets which of its I/Os a
\* slave it lost had; another master does not.
Forgotten(rows, now) ==
    [m \in Elements |-> [s \in Elements |->
        IF Kind[m] = "plc master" /\ s \in linked[m] \ now[m] THEN NoRow ELSE rows[m][s]]]

-----------------------------------------------------------------------------
(* LinkElementCommand                                                       *)

\* makeLink() for the list of a command: the rows it gives,
GivenRows(c, list, rows) ==
    [m \in Elements |-> [s \in Elements |->
        IF s = c.of /\ IsSlave(s) /\ m \in list /\ IsMaster(m) /\ c.index # NoRow THEN c.index
        ELSE IF m = c.of /\ IsMaster(m) /\ s \in list /\ c.rows[s] # NoRow THEN c.rows[s]
        ELSE rows[m][s]]]

\* and the links: those of the list, and no others.
MadeLinks(e, list) ==
    LET joined == Joined(linked, {e} \X list)
    IN IF list = {} THEN Freed(linked, {e}) ELSE Unlinked(joined, e, joined[e] \ list)

MakeLink(c, list, rows) ==
    /\ linked' = MadeLinks(c.of, list)
    /\ row' = GivenRows(c, list, Forgotten(rows, linked'))
    /\ UNCHANGED <<drawn, due>>

\* undo() first takes back the row the command gave.
RowsTakenBack(c) ==
    [m \in Elements |-> [s \in Elements |->
        IF /\ s \in linked[m]
           /\ \/ s = c.of /\ IsSlave(s) /\ IsMaster(m) /\ c.index # NoRow
              \/ m = c.of /\ IsMaster(m) /\ c.rows[s] # NoRow
        THEN NoRow ELSE row[m][s]]]

NoRows == [e \in Elements |-> NoRow]

LinkCommand(e, after, index, rows) ==
    [what |-> "link", of |-> e, before |-> linked[e], after |-> after,
     index |-> index, rows |-> rows]

-----------------------------------------------------------------------------
(* DeleteQGraphicsItemCommand, and the timer that links reports.            *)

\* scheduleAutoLink(), called by addItem() and removeItem()
AutoLinkDue(items) == due \/ (chained /\ \E e \in items : IsReport(e))

Held(c) == [e \in Elements |-> IF e \in c.items /\ ~IsFree(e) THEN linked[e] ELSE c.held[e]]

\* A slip: removeItem() takes the elements away with their links.
DeleteItemsLinked(c) ==
    /\ drawn' = drawn \ c.items
    /\ due' = AutoLinkDue(c.items)
    /\ UNCHANGED <<linked, row>>

DeleteItems(c) ==
    /\ linked' = Freed(linked, c.items)
    /\ row' = Forgotten(row, linked')
    /\ drawn' = drawn \ c.items
    /\ due' = AutoLinkDue(c.items)

\* Every element that was deleted is linked again.  Two of them may ask for
\* the same partner when the timer has changed links in between: then the
\* last one has it.
AddItems(c) ==
    LET pairs == {p \in c.items \X Elements : p[2] \in c.held[p[1]]}
    IN /\ \E some \in SUBSET pairs :
            /\ OneEach(some)
            /\ OneEach(pairs) => some = pairs
            /\ linked' = Joined(linked, some)
       /\ row' = Forgotten(row, linked')
       /\ drawn' = drawn \union c.items
       /\ due' = AutoLinkDue(c.items)

\* autoLinkReportElements(), run by a timer: free reports of the same label
\* on different folios are paired, until none is left that could be.
AutoLink ==
    LET pairs == {p \in drawn \X drawn :
                    /\ Kind[p[1]] = "next" /\ Kind[p[2]] = "previous"
                    /\ IsFree(p[1]) /\ IsFree(p[2])
                    /\ Label[p[1]] = Label[p[2]] /\ Label[p[1]] # NoLabel
                    /\ Folio[p[1]] # Folio[p[2]]}
    IN /\ due
       /\ due' = FALSE
       /\ \E some \in SUBSET pairs :
            /\ OneEach(some)
            /\ \A p \in pairs : \E q \in some : p[1] = q[1] \/ p[2] = q[2]
            /\ linked' = Joined(linked, some)
       /\ UNCHANGED <<row, drawn, stack, chained>>

-----------------------------------------------------------------------------
(* The undo stack: a command is carried out when it is pushed, and one      *)
(* about the element of the command before it becomes part of that one.     *)

Document == <<linked, drawn>>

MergesInto(c) ==
    /\ done # << >>
    /\ Len(done) # clean
    /\ Last(done).what = "link" /\ c.what = "link"
    /\ Last(done).of = c.of

Pushed(c) ==
    /\ Len(done) < MaxDone
    /\ IF MergesInto(c)
       THEN /\ done' = Append(Front(done), [Last(done) EXCEPT !.after = c.after])
            /\ UNCHANGED past
       ELSE /\ done' = Append(done, c)
            /\ past' = Append(past, Document)
    /\ undone' = << >>
    /\ future' = << >>
    /\ clean' = IF clean > Len(done) THEN -1 ELSE clean
    /\ UNCHANGED chained

PushLink(c) == MakeLink(c, c.after, row) /\ Pushed(c)

Undo ==
    /\ done # << >>
    /\ LET c == Last(done)
       IN /\ IF c.what = "link" THEN MakeLink(c, c.before, RowsTakenBack(c)) ELSE AddItems(c)
          /\ undone' = <<c>> \o undone
    /\ done' = Front(done)
    /\ past' = Front(past)
    /\ future' = <<Document>> \o future
    /\ UNCHANGED <<clean, chained>>

Redo ==
    /\ undone # << >>
    /\ LET c == Head(undone)
       IN IF c.what = "link"
          THEN MakeLink(c, c.after, row) /\ done' = Append(done, c)
          ELSE DeleteItems(c) /\ done' = Append(done, [c EXCEPT !.held = Held(c)])
    /\ undone' = Tail(undone)
    /\ past' = Append(past, Document)
    /\ future' = Tail(future)
    /\ UNCHANGED <<clean, chained>>

\* A save
SetClean ==
    /\ clean' = Len(done)
    /\ UNCHANGED <<linked, row, drawn, done, undone, past, future, chained, due>>

-----------------------------------------------------------------------------
(* What users and scripts do.                                               *)

UsedRows(m) == {row[m][s] : s \in linked[m]} \ {NoRow}
FreeRows(m) == RowsOf[m] \ UsedRows(m)

\* Deleted elements are kept by the command that deleted them.
Deleted == UNION {c.items : c \in {d \in Range(done) : d.what = "delete"}}

\* Where a partner is chosen from, the lists being of an earlier moment: a
\* deletion that is redone does not rebuild the list of the element edited.
\* (Who then chooses a master that was deleted ends the program:
\* propertiesFor() reads the folio of an element that is on none.)
Listed == drawn \union {x \in Deleted : ~IsMaster(x)}

\* setUpNewLink() of the one element that was chosen
After(e, other) == IF IsLinkable(e, other, TRUE) THEN {other} ELSE {}

\* LinkSingleElementWidget: a report or a slave chooses its partner
LinkTo(e, other) ==
    /\ e \in drawn /\ other \in Listed
    /\ ~IsMaster(e) /\ Kind[e] # "plc slave"
    /\ Suits(e, other) /\ other \notin linked[e]
    /\ \E index \in IF RowsOf[other] = {} THEN {NoRow} ELSE FreeRows(other) :
            PushLink(LinkCommand(e, After(e, other), index, NoRows))

\* PlcLinkWidget: a slave takes an I/O, of the master it has or of another.
LinkToRow(e, other) ==
    /\ e \in drawn /\ other \in Listed
    /\ Kind[e] = "plc slave" /\ Kind[other] = "plc master"
    /\ \E index \in FreeRows(other) :
            PushLink(LinkCommand(e, After(e, other), index, NoRows))

\* the unlink buttons of both; that of PlcLinkWidget remembers the I/O
Unlink(e) ==
    /\ e \in drawn /\ ~IsMaster(e) /\ ~IsFree(e)
    /\ LET master == CHOOSE m \in linked[e] : TRUE
           index == IF Kind[e] = "plc slave" THEN row[master][e] ELSE NoRow
       IN PushLink(LinkCommand(e, {}, index, NoRows))

\* MasterPropertiesWidget: slaves are moved into and out of the list of a
\* master; each one moved in is given a row that no linked slave has.
SetSlaves(m, slaves) ==
    LET newcomers == slaves \ linked[m]
        after == {s \in slaves : IsLinkable(m, s, TRUE)}
    IN /\ m \in drawn /\ Kind[m] = "master"
       /\ slaves # linked[m]
       /\ newcomers \subseteq {s \in Listed : Kind[s] = "slave"}
       /\ \E rows \in [newcomers -> IF RowsOf[m] = {} THEN {NoRow} ELSE FreeRows(m)] :
            PushLink(LinkCommand(m, after, NoRow,
                [s \in Elements |-> IF s \in newcomers THEN rows[s] ELSE NoRow]))

\* QetScriptApi::linkElements(), with or without an I/O
ScriptLink(a, b) ==
    /\ a \in drawn /\ b \in drawn /\ a # b
    /\ IsLinkable(a, b, FALSE)
    /\ \E index \in {NoRow} \union (IF Kind[a] = "plc master" THEN RowsOf[a]
                                    ELSE IF Kind[b] = "plc master" THEN RowsOf[b] ELSE {}) :
         LET e == IF index # NoRow /\ IsSlave(b) THEN b ELSE a
             other == IF e = a THEN b ELSE a
         IN PushLink(LinkCommand(e, After(e, other), index, NoRows))

\* QetScriptApi::unlinkElement()
ScriptUnlink(e) ==
    /\ e \in drawn /\ ~IsFree(e)
    /\ PushLink(LinkCommand(e, {}, NoRow, NoRows))

Delete(items) ==
    LET c == [what |-> "delete", items |-> items,
              held |-> [e \in Elements |-> IF e \in items THEN linked[e] ELSE {}]]
    IN /\ items # {} /\ items \subseteq drawn
       /\ DeleteItems(c)
       /\ Pushed(c)

Init ==
    /\ linked = [e \in Elements |-> {}]
    /\ row = [m \in Elements |-> NoRows]
    /\ drawn \in Scenes
    /\ done = << >> /\ undone = << >> /\ clean = 0
    /\ past = << >> /\ future = << >>
    /\ chained \in Chains
    /\ due = FALSE

Next ==
    \/ \E e, other \in Elements : LinkTo(e, other) \/ LinkToRow(e, other) \/ ScriptLink(e, other)
    \/ \E e \in Elements : Unlink(e) \/ ScriptUnlink(e)
    \/ \E m \in Elements, slaves \in SUBSET Elements : SetSlaves(m, slaves)
    \/ \E items \in Removals : Delete(items)
    \/ Undo \/ Redo \/ SetClean \/ AutoLink

Spec == Init /\ [][Next]_vars

-----------------------------------------------------------------------------

(* Both ends of a link hold it: no element points to one that has let it go *)
(* or has another partner, in whatever order links are made and stolen.     *)
LinksMutual == \A a, b \in Elements : b \in linked[a] <=> a \in linked[b]

(* A contact belongs to one coil, an arrow leads to one arrow, and who is   *)
(* linked suits (isLinkable()), also after the timer linked a report while  *)
(* the partner it had was deleted and comes back.                           *)
OnePartner ==
    \A e \in Elements : /\ \A x \in linked[e] : Suits(e, x)
                        /\ ~IsMaster(e) => \A x, y \in linked[e] : x = y

\* A command of cmds, each carried out in the document before it, chose x
\* for e when x was already deleted.
ChosenDeleted(cmds, docs, e, x) ==
    \E i \in DOMAIN cmds : /\ cmds[i].what = "link" /\ cmds[i].of = e
                           /\ x \in cmds[i].after /\ x \notin docs[i][2]

(* No element is linked to one that was deleted, unless a command still on  *)
(* the stack chose it when it was deleted already: deleting, undoing,       *)
(* redoing and the timer leave none, and a choice from a stale list goes    *)
(* away with its command.                                                   *)
OnlyDrawn ==
    \A e \in Elements : \A x \in linked[e] :
        x \in drawn \/ ChosenDeleted(done, past, e, x)

(* An I/O of a PLC master is taken by a slave linked to it, or by none.     *)
RowsOfLinked ==
    \A m, s \in Elements : Kind[m] = "plc master" /\ row[m][s] # NoRow => s \in linked[m]

(* Links that undo brings back are the links there were, merged commands    *)
(* taken as one (the timer is no command: with it this is not promised).    *)
H == INSTANCE UndoHistory WITH
        document <- IF chained THEN << >> ELSE Document,
        past     <- IF chained THEN << >> ELSE past,
        future   <- IF chained THEN << >> ELSE future

UndoRestores == H!MergingSpec

(* "qet.linkElements() links ... a coil and its contacts": a contact that   *)
(* is linked to a coil stays so when a script links another one to it.      *)
LinkingKeepsContacts ==
    [][\A a, b \in Elements : IsMaster(a) /\ ScriptLink(a, b)
        => linked[a] \subseteq linked'[a]]_vars
=============================================================================
