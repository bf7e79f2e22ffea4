--------------------------- MODULE TerminalStrip ---------------------------
(***************************************************************************)
(* The terminal strips of a project and the undo commands that edit them   *)
(* (sources/TerminalStrip).                                                *)
(*                                                                         *)
(* A strip is a sequence of physical terminals, a physical terminal a      *)
(* sequence of real terminals, its levels.  Each object also knows its     *)
(* owner: a real terminal its physical terminal, a physical terminal its   *)
(* strip.  A bridge joins real terminals of one level.                     *)
(*                                                                         *)
(* The commands of the undo stack hold references to these objects.  An    *)
(* undo or a redo makes new physical terminals, so a command further up    *)
(* the stack can hold one that is in no strip any more.                    *)
(*                                                                         *)
(* Left out: what a strip or a terminal is called, the colours and grooves *)
(* of bridges, and the bridges that come from the drawing (the project     *)
(* has none drawn).                                                        *)
(***************************************************************************)
EXTENDS Naturals, Integers, FiniteSets, Sequences, SequencesExt

CONSTANTS Strips,       \* the strips
          Drawn,        \* real terminals that stand for a symbol on a folio
          Spare,        \* real terminals that are on no folio
          Phys,         \* the objects a physical terminal can be: numbers
          Bridges,      \* the objects a bridge can be: numbers
          Place,        \* where a drawn terminal is on the folios: a number
          Layouts,      \* the strips a project file can hold
          Habits,       \* what a user does: [names, the commands he gives;
                        \* most, bound on their number; careful, he bridges
                        \* what is on no bridge, sorts, changes levels and
                        \* takes away where no bridge is, adds and takes
                        \* away at the end, and deletes strips of plain
                        \* terminals]
          MaxLevels,    \* bound: levels the editor offers
          None

Reals == Drawn \cup Spare

ASSUME StripAssumption ==
    /\ None \notin Strips \cup Phys \cup Bridges \cup Reals
    /\ Phys \subseteq Nat /\ Bridges \subseteq Nat
    /\ Drawn \cap Spare = {}
    /\ IsFiniteSet(Reals) /\ IsFiniteSet(Phys)
    /\ Place \in [Drawn -> Nat]
    /\ \A h \in Habits : h.careful \in BOOLEAN /\ h.most \in Nat
    /\ MaxLevels \in Nat \ {0}

\* A project file as it is saved: each of its strips, physical terminals
\* and real terminals is an object of its own
ASSUME LayoutAssumption ==
    \A layout \in Layouts :
        /\ layout \in Seq(Strips \X Phys \X {q \in Seq(Reals) : IsInjective(q)})
        /\ \A k, l \in DOMAIN layout : k # l =>
              /\ layout[k][2] # layout[l][2]
              /\ Range(layout[k][3]) \cap Range(layout[l][3]) = {}

VARIABLES
    doc,        \* the strips and what is in them
    done,       \* the undo stack: the commands that can be undone,
    undone,     \* and those that can be redone, the next one first
    habit,      \* what this user does,
    given       \* and how many commands he gave

vars == <<doc, done, undone, habit, given>>

Careful == habit.careful

-----------------------------------------------------------------------------
(***************************************************************************)
(* Sequences: SelectSeq with a set and FoldLeft, as recursive functions.   *)
(***************************************************************************)

Selected(seq, S) ==
    LET kept[n \in 0..Len(seq)] ==
          IF n = 0 THEN << >>
          ELSE IF seq[n] \in S THEN Append(kept[n - 1], seq[n]) ELSE kept[n - 1]
    IN  kept[Len(seq)]

Without(seq, x) == Selected(seq, Range(seq) \ {x})

\* d after Op with each element of a sequence, one after the other
Through(Op(_, _), d, seq) ==
    LET after[n \in 0..Len(seq)] == IF n = 0 THEN d ELSE Op(after[n - 1], seq[n])
    IN  after[Len(seq)]

-----------------------------------------------------------------------------
(***************************************************************************)
(* Looking at the strips of a document d.                                  *)
(***************************************************************************)

\* RealTerminal::parentStrip()
ParentStrip(d, r) == IF d.phys[r] = None THEN None ELSE d.strip[d.phys[r]]

\* QVector::indexOf(): 0 stands for not found
IndexIn(s, e) == IF \E i \in DOMAIN s : s[i] = e
                 THEN CHOOSE i \in DOMAIN s :
                        s[i] = e /\ \A j \in 1..(i - 1) : s[j] # e
                 ELSE 0

\* RealTerminal::level()
Level(d, r) == IF d.phys[r] = None THEN 0 ELSE IndexIn(d.levels[d.phys[r]], r)

\* TerminalStrip::realTerminals()
RealsOf(d, s) == FlattenSeq([i \in DOMAIN d.order[s] |-> d.levels[d.order[s][i]]])

\* TerminalStrip::isBridged()
BridgeOf(d, s, r) ==
    IF \E b \in Bridges : d.home[b] = s /\ r \in d.on[b]
    THEN CHOOSE b \in Bridges : d.home[b] = s /\ r \in d.on[b]
    ELSE None

PositionsOf(d, s, R) == {IndexIn(d.order[s], d.phys[r]) : r \in R}

Consecutive(P) == \A i, j \in P : \A k \in i..j : k \in P

\* TerminalStrip::isBridgeable()
IsBridgeable(d, s, R) ==
    LET bridged == {r \in R : BridgeOf(d, s, r) # None}
    IN  /\ Cardinality(R) >= 2
        /\ \A q, r \in R : /\ Level(d, q) = Level(d, r)
                           /\ q # r => d.phys[q] # d.phys[r]
        /\ \A q, r \in bridged : BridgeOf(d, s, q) = BridgeOf(d, s, r)
        /\ Cardinality(PositionsOf(d, s, R)) = Cardinality(R)
        /\ Consecutive(PositionsOf(d, s, R))
        /\ bridged # R

\* TerminalStrip::previousTerminalInLevel() and nextTerminalInLevel() of the
\* terminal at position i
InLevelAt(d, s, level, i) ==
    IF i \in DOMAIN d.order[s] /\ Len(d.levels[d.order[s][i]]) >= level
    THEN d.levels[d.order[s][i]][level]
    ELSE None

\* TerminalStrip::canUnBridge(): the level of the neighbour is the one of
\* the terminal at that end
CanUnBridge(d, s, R) ==
    LET P == PositionsOf(d, s, R)
        bridge == {BridgeOf(d, s, r) : r \in R}
        At(i) == CHOOSE r \in R : IndexIn(d.order[s], d.phys[r]) = i
        least == CHOOSE i \in P : \A j \in P : i <= j
        most == CHOOSE i \in P : \A j \in P : i >= j
        Ends(i, step) ==
            LET next == InLevelAt(d, s, Level(d, At(i)), i + step)
            IN  next = None \/ BridgeOf(d, s, next) \notin bridge
    IN  /\ R # {}
        /\ Cardinality(bridge) = 1 /\ None \notin bridge
        /\ Consecutive(P)
        /\ Ends(least, -1) \/ Ends(most, 1)

-----------------------------------------------------------------------------
(***************************************************************************)
(* Objects.  A physical terminal or a bridge is one that nothing refers to *)
(* before it is made.                                                      *)
(***************************************************************************)

HeldBy(c) == CASE c.name = "Move"    -> Range(c.phys)
               [] c.name = "Spares"  -> {c.phys}
               [] c.name = "Group"   -> {c.receiver}
               [] c.name = "Ungroup" -> {c.groups[i].phys : i \in DOMAIN c.groups}
               [] c.name = "Sort"    -> Range(c.old)
               [] c.name \in {"Bridge", "Unbridge"} -> {c.bridge}
               [] OTHER -> {}

RealsIn(c) == CASE c.name \in {"Add", "Group", "RemoveStrip"} -> Range(c.reals)
                [] c.name = "Remove"  -> UNION {Range(c.groups[i]) : i \in DOMAIN c.groups}
                [] c.name \in {"Spares", "Level"} -> {c.real}
                [] c.name = "Ungroup" -> {c.levels[i][1] : i \in DOMAIN c.levels}
                [] c.name \in {"Bridge", "Unbridge"} -> c.reals
                [] OTHER -> {}

Entries == Range(done) \cup Range(undone)

HeldIn(entries) == UNION {HeldBy(e.cmd) : e \in entries}

Held == HeldIn(Entries)

Live(d) == Range(d.phys) \cup UNION {Range(d.order[s]) : s \in Strips}

FreePhys(d) == Phys \ (Held \cup Live(d))

FreeBridges(d) == {b \in Bridges : d.on[b] = {} /\ b \notin Held}

FreshPhys(d) == CHOOSE p \in FreePhys(d) : \A q \in FreePhys(d) : p <= q

FreshBridge(d) == CHOOSE b \in FreeBridges(d) : \A c \in FreeBridges(d) : b <= c

\* bound: a command is given or made again only while there are objects for
\* all it can make
Room == Cardinality(FreePhys(doc)) >= Cardinality(Reals) /\ FreeBridges(doc) # {}

-----------------------------------------------------------------------------
(***************************************************************************)
(* What TerminalStrip, PhysicalTerminal and TerminalStripBridge do.  A     *)
(* vector of terminals is worked through in its order.                     *)
(***************************************************************************)

\* new PhysicalTerminal(s, rs), appended to strip s; bound: if there is one
AppendNew(d, s, rs) ==
    LET p == FreshPhys(d)
    IN  IF FreePhys(d) = {} THEN d
        ELSE [d EXCEPT !.order[s] = Append(@, p), !.levels[p] = rs, !.strip[p] = s,
                       !.phys = [r \in Reals |-> IF r \in Range(rs) THEN p ELSE @[r]]]

\* PhysicalTerminal::removeTerminal()
TakeOut(d, p, r) ==
    IF p = None THEN d
    ELSE IF r \notin Range(d.levels[p]) THEN d
    ELSE [d EXCEPT !.levels[p] = Without(@, r), !.phys[r] = None]

\* A slip: the terminal stays on its bridge.
OffBridgeNever(d, r) == d

\* TerminalStripBridge::removeTerminal() of the bridge real_t->bridge()
OffBridge(d, r) ==
    LET b == BridgeOf(d, ParentStrip(d, r), r)
    IN  IF ParentStrip(d, r) = None \/ b = None THEN d
        ELSE [d EXCEPT !.on[b] = @ \ {r}]

\* the strip drops a physical terminal that is left without a level
DropIfEmpty(d, s, p) ==
    IF d.levels[p] = << >> THEN [d EXCEPT !.order[s] = Without(@, p)] ELSE d

\* TerminalStrip::addTerminals() of real terminals
AddTerminals(d, s, rs) ==
    Through(LAMBDA e, r : IF ParentStrip(e, r) # None THEN e ELSE AppendNew(e, s, <<r>>),
            d, rs)

\* TerminalStrip::addAndGroupTerminals()
Unplaced(d) == {r \in Reals : ParentStrip(d, r) = None}

AddAndGroupTerminals(d, s, groups) ==
    Through(LAMBDA e, rs : AppendNew(e, s, Selected(rs, Unplaced(e))), d, groups)

\* TerminalStrip::removeTerminals() of real terminals
RemoveTerminals(d, s, rs) ==
    Through(LAMBDA e, r :
                IF ParentStrip(e, r) # s THEN e
                ELSE DropIfEmpty(TakeOut(OffBridge(e, r), e.phys[r], r), s, e.phys[r]),
            d, rs)

\* TerminalStrip::insertTerminals() of physical terminals; at is the number
\* of terminals before them
InsertTerminals(d, s, at, ps) ==
    LET free == Selected(ps, {p \in Phys : d.strip[p] = None})
        from == IF at \in 0..Len(d.order[s]) THEN at ELSE Len(d.order[s])
    IN  [d EXCEPT !.order[s] = SubSeq(@, 1, from) \o free \o SubSeq(@, from + 1, Len(@)),
                  !.strip = [p \in Phys |-> IF p \in Range(free) THEN s ELSE @[p]]]

\* TerminalStrip::addTerminals() of physical terminals
AddPhysical(d, s, ps) == InsertTerminals(d, s, -1, ps)

\* A slip: the physical terminal keeps the strip it was taken from.
RemovePhysicalStays(d, s, ps) ==
    Through(LAMBDA e, p : Through(OffBridge, [e EXCEPT !.order[s] = Without(@, p)], e.levels[p]),
            d, ps)

\* TerminalStrip::removeTerminals() of physical terminals
RemovePhysical(d, s, ps) ==
    Through(LAMBDA e, p :
                IF p \notin Range(e.order[s]) THEN e
                ELSE LET out == [e EXCEPT !.order[s] = Without(@, p)]
                     IN  [Through(OffBridge, out, e.levels[p]) EXCEPT !.strip[p] = None],
            d, ps)

\* TerminalStrip::setOrderTo()
SetOrderTo(d, s, ps) ==
    IF Len(ps) = Len(d.order[s]) /\ Range(ps) \subseteq Range(d.order[s])
    THEN [d EXCEPT !.order[s] = ps] ELSE d

\* A slip: the terminal is not taken out of where it was.
GroupTerminalsCopies(d, s, receiver, rs) ==
    Through(LAMBDA e, r : [e EXCEPT !.levels[receiver] = Append(@, r), !.phys[r] = receiver],
            d, rs)

\* TerminalStrip::groupTerminals()
Joined(d, receiver, rs) ==
    Through(LAMBDA e, r : [TakeOut(e, e.phys[r], r) EXCEPT !.levels[receiver] = Append(@, r),
                                                           !.phys[r] = receiver],
            d, rs)

GroupTerminals(d, s, receiver, rs) ==
    LET joined == Joined(d, receiver, rs)
    IN  IF rs = << >> THEN d
        ELSE [joined EXCEPT !.order[s] = Selected(@, {p \in Phys : joined.levels[p] # << >>})]

\* TerminalStrip::unGroupTerminals()
UnGroupTerminals(d, s, rs) ==
    Through(LAMBDA e, r :
                IF e.phys[r] = None \/ Len(e.levels[e.phys[r]]) <= 1 THEN e
                ELSE AppendNew(TakeOut(e, e.phys[r], r), s, <<r>>),
            d, rs)

\* TerminalStrip::setLevel(): the terminal changes place with the one at
\* that level, or at the last one
SetLevel(d, r, level) ==
    LET p == d.phys[r]
        from == Level(d, r)
        size == Len(d.levels[p])
        to == IF level < size THEN level ELSE size
    IN  IF from = 0 THEN d
        ELSE [d EXCEPT !.levels[p][from] = d.levels[p][to],
                       !.levels[p][to] = d.levels[p][from]]

\* TerminalStripBridge::addTerminals() (1) of the bridge the terminals are on
\* already or of a new one, (2) of a bridge that is known
AddToBridge(d, s, b, R) ==
    IF \A r \in R : ParentStrip(d, r) = s
    THEN [d EXCEPT !.on[b] = @ \cup R, !.home[b] = s] ELSE d

SetBridge(d, s, R) ==
    LET used == {BridgeOf(d, s, r) : r \in R} \ {None}
        b == IF used = {} THEN FreshBridge(d) ELSE CHOOSE x \in used : TRUE
    IN  IF IsBridgeable(d, s, R) THEN AddToBridge(d, s, b, R) ELSE d

SetKnownBridge(d, s, b, R) ==
    IF /\ d.home[b] = s
       /\ R \cap d.on[b] = {} /\ IsBridgeable(d, s, R \cup d.on[b])
    THEN AddToBridge(d, s, b, R) ELSE d

UnBridge(d, s, R) ==
    LET b == BridgeOf(d, s, CHOOSE r \in R : TRUE)
    IN  IF CanUnBridge(d, s, R) THEN [d EXCEPT !.on[b] = @ \ R] ELSE d

-----------------------------------------------------------------------------
(***************************************************************************)
(* The undo commands.  Redo1 is what redo() does to the document, Undo1    *)
(* what undo() does.  Two commands keep what their first redo() made:      *)
(* Kept is the command after a redo().                                     *)
(***************************************************************************)

\* RemoveTerminalStripCommand works on symbols: what it does is
\* TerminalStrip::removeTerminal(Element *) and addTerminal(Element *)
RemoveSymbol(d, s, r) ==
    IF r \notin Range(RealsOf(d, s)) THEN d
    ELSE DropIfEmpty(TakeOut(d, d.phys[r], r), s, d.phys[r])

AddSymbol(d, s, r) ==
    IF r \in Range(RealsOf(d, s)) THEN d ELSE AppendNew(d, s, <<r>>)

\* AddSpareTerminalsCommand::redo() makes its physical terminal once
MakeSpare(d, r) ==
    LET p == FreshPhys(d)
    IN  [d EXCEPT !.levels[p] = <<r>>, !.strip[p] = None, !.phys[r] = p]

AddSpare(d, c) ==
    IF c.phys = None
    THEN LET e == MakeSpare(d, c.real)
         IN  InsertTerminals(e, c.strip, c.at, <<e.phys[c.real]>>)
    ELSE InsertTerminals(d, c.strip, c.at, <<c.phys>>)

Redo1(d, c) ==
    CASE c.name = "Add"      -> AddTerminals(d, c.strip, c.reals)
      [] c.name = "Remove"   -> 
            Through(LAMBDA e, rs : RemoveTerminals(e, c.strip, rs), d, c.groups)
      [] c.name = "Move"     -> AddPhysical(RemovePhysical(d, c.strip, c.phys), c.to, c.phys)
      [] c.name = "Spares"   -> AddSpare(d, c)
      [] c.name = "Level"    -> SetLevel(d, c.real, c.new)
      [] c.name = "Sort"     -> SetOrderTo(d, c.strip, c.new)
      [] c.name = "Group"    -> GroupTerminals(d, c.strip, c.receiver, c.reals)
      [] c.name = "Ungroup"  ->
            Through(LAMBDA e, g : UnGroupTerminals(e, c.strip, g.reals), d, c.groups)
      [] c.name = "Bridge"   -> IF c.bridge = None THEN SetBridge(d, c.strip, c.reals)
                                ELSE SetKnownBridge(d, c.strip, c.bridge, c.reals)
      [] c.name = "Unbridge" -> UnBridge(d, c.strip, c.reals)
      [] c.name = "AddStrip" -> [d EXCEPT !.listed = @ \cup {c.strip}]
      [] c.name = "RemoveStrip" ->
            [Through(LAMBDA e, r : RemoveSymbol(e, c.strip, r), d, c.reals)
                EXCEPT !.listed = @ \ {c.strip}]

Undo1(d, c) ==
    CASE c.name = "Add"      -> RemoveTerminals(d, c.strip, c.reals)
      [] c.name = "Remove"   -> AddAndGroupTerminals(d, c.strip, c.groups)
      [] c.name = "Move"     -> AddPhysical(RemovePhysical(d, c.to, c.phys), c.strip, c.phys)
      [] c.name = "Spares"   -> RemovePhysical(d, c.strip, <<c.phys>>)
      [] c.name = "Level"    -> SetLevel(d, c.real, c.old)
      [] c.name = "Sort"     -> SetOrderTo(d, c.strip, c.old)
      [] c.name = "Group"    -> UnGroupTerminals(d, c.strip, c.reals)
      [] c.name = "Ungroup"  ->
            LET grouped == Through(LAMBDA e, g : GroupTerminals(e, c.strip, g.phys, g.reals),
                                   d, c.groups)
            IN  Through(LAMBDA e, l : SetLevel(e, l[1], l[2]), grouped, c.levels)
      [] c.name = "Bridge"   -> UnBridge(d, c.strip, c.reals)
      [] c.name = "Unbridge" -> SetKnownBridge(d, c.strip, c.bridge, c.reals)
      [] c.name = "AddStrip" -> [d EXCEPT !.listed = @ \ {c.strip}]
      [] c.name = "RemoveStrip" ->
            [Through(LAMBDA e, r : AddSymbol(e, c.strip, r), d, c.reals)
                EXCEPT !.listed = @ \cup {c.strip}]

Kept(d, c) ==
    CASE c.name = "Spares" /\ c.phys = None -> [c EXCEPT !.phys = d.phys[c.real]]
      [] c.name = "Bridge" /\ c.bridge = None ->
            [c EXCEPT !.bridge = BridgeOf(d, c.strip, CHOOSE r \in c.reals : TRUE)]
      [] OTHER -> c

-----------------------------------------------------------------------------
(***************************************************************************)
(* What a reader of the strips sees of a document: which objects stand for *)
(* its physical terminals and its bridges he does not.                     *)
(***************************************************************************)
View(d) ==
    [listed  |-> d.listed,
     strips  |-> [s \in Strips |-> [i \in DOMAIN d.order[s] |-> d.levels[d.order[s][i]]]],
     bridges |-> [s \in Strips |-> {d.on[b] : b \in {x \in Bridges : d.home[x] = s}} \ {{}}]]

\* A spare that no command and no physical terminal within reach has: it is
\* free to be made
Unmade(d, entries) ==
    LET reach == HeldIn(entries) \cup UNION {Range(d.order[s]) : s \in Strips}
    IN  {r \in Spare : /\ \A e \in entries : r \notin RealsIn(e.cmd)
                       /\ \A p \in reach \cap Phys : r \notin Range(d.levels[p])}

\* What nothing refers to is gone; a physical terminal that goes lets go of
\* its real terminals
Collected(d, entries) ==
    LET unmade == Unmade(d, entries)
        owner == [r \in Reals |-> IF r \in unmade THEN None ELSE d.phys[r]]
        held == HeldIn(entries) \cup Live([d EXCEPT !.phys = owner])
        gone == {p \in Phys : p \notin held}
    IN  [d EXCEPT !.levels = [p \in Phys |-> IF p \in gone THEN << >>
                                              ELSE Selected(@[p], Reals \ unmade)],
                  !.strip  = [p \in Phys |-> IF p \in gone THEN None ELSE @[p]],
                  !.phys   = [r \in Reals |-> IF \E p \in gone : r \in Range(d.levels[p])
                                              THEN None ELSE owner[r]],
                  !.home   = [b \in Bridges |-> IF d.on[b] = {} /\ b \notin held
                                                 THEN None ELSE @[b]]]

\* QUndoStack::push(): redo() and forget what had been undone.  An entry
\* also has, for the properties only, what the strips were before and after
Push(c) ==
    LET d == Redo1(doc, c)
        entry == [cmd |-> Kept(d, c), before |-> View(doc), after |-> View(d)]
    IN  /\ done' = Append(done, entry)
        /\ undone' = << >>
        /\ given' = given + 1 /\ UNCHANGED habit
        /\ doc' = Collected(d, Range(done'))

\* QUndoStack::undo()
Undo == /\ done # << >>
        /\ done' = Front(done)
        /\ undone' = <<Last(done)>> \o undone
        /\ UNCHANGED <<habit, given>>
        /\ doc' = Collected(Undo1(doc, Last(done).cmd), Entries')

\* QUndoStack::redo()
Redo == /\ undone # << >> /\ Room
        /\ LET c == Head(undone).cmd
               d == Redo1(doc, c)
           IN  /\ done' = Append(done, [Head(undone) EXCEPT !.cmd = Kept(d, c)])
               /\ undone' = Tail(undone)
               /\ UNCHANGED <<habit, given>>
               /\ doc' = Collected(d, Entries')

-----------------------------------------------------------------------------
(***************************************************************************)
(* What the user does.  He selects in a table, so a selection comes in the *)
(* order of the table.                                                     *)
(***************************************************************************)
Listed(s) == Range(doc.order[s])

\* the user gives commands of that name, and another one
Gives(name) == name \in habit.names /\ given < habit.most /\ Room

Free == {r \in Drawn : ParentStrip(doc, r) = None}

UnusedSpare == Unmade(doc, Entries)

UnusedStrips == {s \in Strips \ doc.listed :
                   /\ doc.order[s] = << >>
                   /\ \A e \in Entries : s # e.cmd.strip}

\* nothing in the physical terminal p of strip s is bridged
Loose(s, p) == \A r \in Range(doc.levels[p]) : BridgeOf(doc, s, r) = None

\* the last terminals of a strip, none of them bridged
LastAndLoose(s, P) ==
    /\ P = {doc.order[s][i] : i \in (Len(doc.order[s]) - Cardinality(P) + 1)..Len(doc.order[s])}
    /\ \A p \in P : Loose(s, p)

AddTerminalToStripCommand ==
    /\ Gives("Add")
    /\ \E s \in doc.listed, R \in (SUBSET Free) \ {{}} :
           Push([name |-> "Add", strip |-> s, reals |-> SetToSeq(R)])

RemoveTerminalFromStripCommand ==
    /\ Gives("Remove")
    /\ \E s \in doc.listed : \E P \in (SUBSET Listed(s)) \ {{}} :
           LET ps == Selected(doc.order[s], P)
           IN  /\ Careful => LastAndLoose(s, P)
               /\ Push([name |-> "Remove", strip |-> s,
                        groups |-> [i \in DOMAIN ps |-> doc.levels[ps[i]]]])

MoveTerminalCommand ==
    /\ Gives("Move")
    /\ \E s, t \in doc.listed : \E P \in (SUBSET Listed(s)) \ {{}} :
           /\ s # t
           /\ Careful => LastAndLoose(s, P)
           /\ Push([name |-> "Move", strip |-> s, to |-> t,
                    phys |-> Selected(doc.order[s], P)])

AddSpareTerminalsCommand ==
    /\ Gives("Spares")
    /\ \E s \in doc.listed : \E r \in UnusedSpare, at \in -1..Len(doc.order[s]) :
           /\ Careful => at = -1
           /\ Push([name |-> "Spares", strip |-> s, at |-> at, real |-> r, phys |-> None])

ChangeTerminalLevel ==
    /\ Gives("Level")
    /\ \E s \in doc.listed : \E r \in Range(RealsOf(doc, s)), level \in 1..MaxLevels :
           /\ level # Level(doc, r) /\ Len(doc.levels[doc.phys[r]]) > 1
           /\ Careful => Loose(s, doc.phys[r])
           /\ Push([name |-> "Level", strip |-> s, real |-> r, new |-> level,
                    old |-> Level(doc, r)])

\* the drawn terminals in the order of the folios, then those with none:
\* sorted has what was at rank[i] at i
InFolioOrder(sorted, rank) ==
    LET drawn(p) == Selected(doc.levels[p], Drawn)
        before(p, q) == /\ drawn(p) # << >>
                        /\ drawn(q) # << >> => Place[Head(drawn(p))] < Place[Head(drawn(q))]
    IN  \A i, j \in DOMAIN rank : i < j =>
            \/ before(sorted[i], sorted[j])
            \/ ~before(sorted[j], sorted[i]) /\ rank[i] < rank[j]

SortTerminalStripCommand ==
    /\ Gives("Sort")
    /\ \E s \in doc.listed :
        LET order == doc.order[s]
        IN  /\ Careful => \A p \in Listed(s) : Loose(s, p)
            /\ \E rank \in {f \in [DOMAIN order -> DOMAIN order] : IsInjective(f)} :
                  LET sorted == [i \in DOMAIN order |-> order[rank[i]]]
                  IN  /\ InFolioOrder(sorted, rank)
                      /\ Push([name |-> "Sort", strip |-> s, old |-> order, new |-> sorted])

\* the receiver is the physical terminal with the most levels, or the first
IsReceiver(reals, p) ==
    LET count(i) == Len(doc.levels[doc.phys[reals[i]]])
    IN  \E i \in DOMAIN reals :
            /\ p = doc.phys[reals[i]]
            /\ \A j \in DOMAIN reals : count(i) > count(j) \/ (count(i) = count(j) /\ i <= j)

GroupTerminalsCommand ==
    /\ Gives("Group")
    /\ \E s \in doc.listed : \E R \in SUBSET Range(RealsOf(doc, s)) : \E p \in Listed(s) :
           LET reals == Selected(RealsOf(doc, s), R)
               others == Selected(reals, {r \in R : doc.phys[r] # p})
           IN  /\ IsReceiver(reals, p)
               /\ Cardinality(R) >= 2 /\ others # << >>
               /\ Len(doc.levels[p]) + Len(others) <= MaxLevels
               /\ Push([name |-> "Group", strip |-> s, receiver |-> p, reals |-> others])

\* UnGroupTerminalsCommand::setUp(): what is alone is left out; the hash
\* that keeps the rest has no order of its own
UnGroupTerminalsCommand ==
    /\ Gives("Ungroup")
    /\ \E s \in doc.listed : \E R \in SUBSET Range(RealsOf(doc, s)) :
           LET chosen == {r \in R : Len(doc.levels[doc.phys[r]]) > 1}
               reals == Selected(RealsOf(doc, s), chosen)
               group(p) == [phys |-> p, reals |-> Selected(reals, {r \in R : doc.phys[r] = p})]
           IN  /\ R # {} /\ R = chosen
               /\ \E ps \in SetToSeqs({doc.phys[r] : r \in R}) :
                    Push([name |-> "Ungroup", strip |-> s,
                          groups |-> [i \in DOMAIN ps |-> group(ps[i])],
                          levels |-> [i \in DOMAIN reals |-> <<reals[i], Level(doc, reals[i])>>]])

BridgeTerminalsCommand ==
    /\ Gives("Bridge")
    /\ \E s \in doc.listed : \E R \in SUBSET Range(RealsOf(doc, s)) :
           /\ IsBridgeable(doc, s, R)
           /\ Careful => \A r \in R : BridgeOf(doc, s, r) = None
           /\ Push([name |-> "Bridge", strip |-> s, reals |-> R, bridge |-> None])

\* a bridge is not left with one terminal
UnBridgeTerminalsCommand ==
    /\ Gives("Unbridge")
    /\ \E s \in doc.listed : \E R \in SUBSET Range(RealsOf(doc, s)) :
           /\ CanUnBridge(doc, s, R)
           /\ LET b == BridgeOf(doc, s, CHOOSE r \in R : TRUE)
              IN  Push([name |-> "Unbridge", strip |-> s, bridge |-> b,
                        reals |-> IF Cardinality(doc.on[b]) = Cardinality(R) + 1
                                  THEN doc.on[b] ELSE R])

AddTerminalStripCommand ==
    /\ Gives("AddStrip")
    /\ \E s \in UnusedStrips : Push([name |-> "AddStrip", strip |-> s])

RemoveTerminalStripCommand ==
    /\ Gives("RemoveStrip")
    /\ \E s \in doc.listed :
           /\ Careful => \A p \in Listed(s) :
                /\ Len(doc.levels[p]) = 1 /\ Loose(s, p)
                /\ Range(doc.levels[p]) \subseteq Drawn
           /\ Push([name |-> "RemoveStrip", strip |-> s,
                    reals |-> Selected(RealsOf(doc, s), Drawn)])

-----------------------------------------------------------------------------
\* TerminalStrip::fromXml(): the strips of a project file.  Numbers the
\* physical terminals through
Loaded(layout) ==
    LET of(s) == {l \in Range(layout) : l[1] = s}
        where(p) == {l \in Range(layout) : l[2] = p}
        who(r) == {l \in Range(layout) : r \in Range(l[3])}
    IN  [listed |-> {l[1] : l \in Range(layout)},
         order  |-> [s \in Strips |-> LET mine == Selected(layout, of(s))
                                      IN  [i \in DOMAIN mine |-> mine[i][2]]],
         levels |-> [p \in Phys |-> IF where(p) = {} THEN << >>
                                    ELSE (CHOOSE l \in where(p) : TRUE)[3]],
         strip  |-> [p \in Phys |-> IF where(p) = {} THEN None
                                    ELSE (CHOOSE l \in where(p) : TRUE)[1]],
         phys   |-> [r \in Reals |-> IF who(r) = {} THEN None
                                     ELSE (CHOOSE l \in who(r) : TRUE)[2]],
         on     |-> [b \in Bridges |-> {}],
         home   |-> [b \in Bridges |-> None]]

Init == /\ doc \in {Loaded(layout) : layout \in Layouts}
        /\ done = << >> /\ undone = << >>
        /\ habit \in Habits /\ given = 0

Next == \/ AddTerminalToStripCommand   \/ RemoveTerminalFromStripCommand
        \/ MoveTerminalCommand         \/ AddSpareTerminalsCommand
        \/ ChangeTerminalLevel         \/ SortTerminalStripCommand
        \/ GroupTerminalsCommand       \/ UnGroupTerminalsCommand
        \/ BridgeTerminalsCommand      \/ UnBridgeTerminalsCommand
        \/ AddTerminalStripCommand     \/ RemoveTerminalStripCommand
        \/ Undo \/ Redo

Spec == Init /\ [][Next]_vars

-----------------------------------------------------------------------------
(***************************************************************************)
(* Properties.                                                             *)
(***************************************************************************)

\* A real terminal has one place: no two physical terminals of the strips
\* have it, none has it twice, no physical terminal is in two strips or
\* twice in one, and each object knows its owner.
InOnePlace ==
    /\ \A s \in Strips : IsInjective(doc.order[s])
    /\ \A s \in Strips : \A p \in Listed(s) :
          /\ doc.strip[p] = s
          /\ IsInjective(doc.levels[p])
          /\ \A r \in Range(doc.levels[p]) : doc.phys[r] = p

\* The user deletes no strip, and does not both make spares and group, so
\* that nothing is grouped into the physical terminal of a spare.
Plain == "RemoveStrip" \notin habit.names /\ ~({"Spares", "Group"} \subseteq habit.names)

\* Each terminal of such a user keeps its one place, whatever he does, undoes
\* and redoes, and however little the commands on the stack still fit.
OnePlace == Plain => InOnePlace

\* A terminal that says it is in a strip is in the list of that strip: it
\* is neither in a list nor free otherwise, and is not saved.
NoTerminalLost ==
    \A r \in Reals : LET s == ParentStrip(doc, r)
                     IN  s # None => r \in Range(RealsOf(doc, s))

\* What a bridge joins is in its strip, so that the bridge is shown and can
\* be taken away.
InItsStrip ==
    \A b \in {x \in Bridges : doc.home[x] \in doc.listed} :
        \A r \in doc.on[b] : ParentStrip(doc, r) = doc.home[b]

\* That is so whatever is removed, moved, grouped, undone and redone, for
\* careful users and for the first three commands of any other; and a
\* careful user never gets a terminal on two bridges.
BridgesOnStrip ==
    /\ Careful \/ given <= 3 => InItsStrip
    /\ Careful => \A b, c \in Bridges :
          b # c /\ doc.home[b] = doc.home[c] /\ doc.home[b] \in doc.listed
              => doc.on[b] \cap doc.on[c] = {}

\* Undo takes a command of a careful user back and redo makes it again: the
\* strips are then what they were.
H == INSTANCE UndoHistory WITH
        document <- IF Careful THEN View(doc) ELSE << >>,
        past     <- IF Careful THEN [i \in DOMAIN done |-> done[i].before] ELSE << >>,
        future   <- IF Careful THEN [i \in DOMAIN undone |-> undone[i].after] ELSE << >>

UndoRestores == H!Spec
=============================================================================
