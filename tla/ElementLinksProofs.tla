------------------------- MODULE ElementLinksProofs -------------------------
(***************************************************************************)
(* Proofs about ElementLinks, for any elements, rows and undo stacks.      *)
(***************************************************************************)
EXTENDS ElementLinks, SequenceTheorems, TLAPS

USE LinksAssumption

(* Links as they should be, whatever made them.                             *)
Sound(links) ==
    /\ links \in [Elements -> SUBSET Elements]
    /\ \A a, b \in Elements : b \in links[a] <=> a \in links[b]
    /\ \A e \in Elements : /\ \A x \in links[e] : Suits(e, x)
                           /\ ~IsMaster(e) => \A x, y \in links[e] : x = y

(* A list of partners an element may be linked to, all at once.             *)
Fitting(e, list) ==
    /\ list \subseteq Elements
    /\ \A x \in list : Suits(e, x)
    /\ ~IsMaster(e) => \A x, y \in list : x = y

SoundCommand ==
    {c \in Command :
        /\ c.what = "link" => Fitting(c.of, c.before) /\ Fitting(c.of, c.after)
        /\ c.what = "delete" => \A e \in Elements : \A x \in c.held[e] : Suits(e, x)}

(* Rows are of slaves that are linked.                                      *)
Placed(rows, links) ==
    \A m, s \in Elements : Kind[m] = "plc master" /\ rows[m][s] # NoRow => s \in links[m]

IInv ==
    /\ TypeOK
    /\ Sound(linked)
    /\ Placed(row, linked)
    /\ done \in Seq(SoundCommand)
    /\ undone \in Seq(SoundCommand)

-----------------------------------------------------------------------------
(* What the operations on links keep.                                       *)

LEMMA SuitsBothWays ==
    ASSUME NEW a \in Elements, NEW b \in Elements, Suits(a, b)
    PROVE  /\ Suits(b, a) /\ Fits(a, b) /\ a # b
           /\ IsMaster(a) => ~IsMaster(b)
BY DEF Suits, Fits, IsMaster, IsSlave, IsReport, Kinds

LEMMA FreedIsSound ==
    ASSUME NEW links, Sound(links), NEW some \in SUBSET Elements
    PROVE  Sound(Freed(links, some))
<1> DEFINE freed == Freed(links, some)
<1>1. freed \in [Elements -> SUBSET Elements]
  BY DEF Freed, Sound
<1>2. ASSUME NEW e \in Elements PROVE freed[e] \subseteq links[e]
  BY DEF Freed, Sound
<1>3. ASSUME NEW a \in Elements, NEW b \in Elements
      PROVE  b \in freed[a] <=> b \in links[a] /\ a \notin some /\ b \notin some
  BY DEF Freed, Sound
<1>4. \A a, b \in Elements : b \in freed[a] <=> a \in freed[b]
  BY <1>3 DEF Sound
<1> QED
  BY <1>1, <1>2, <1>4 DEF Sound

LEMMA UnlinkedIsSound ==
    ASSUME NEW links, Sound(links), NEW e \in Elements, NEW others \in SUBSET Elements
    PROVE  Sound(Unlinked(links, e, others))
<1> DEFINE now == Unlinked(links, e, others)
<1>1. now \in [Elements -> SUBSET Elements]
  BY DEF Unlinked, Sound
<1>2. ASSUME NEW a \in Elements PROVE now[a] \subseteq links[a]
  BY DEF Unlinked, Sound
<1>3. e \notin links[e]
  BY SuitsBothWays DEF Sound
<1>4. ASSUME NEW a \in Elements, NEW b \in Elements
      PROVE  b \in now[a] <=> /\ b \in links[a]
                              /\ ~(a = e /\ b \in others) /\ ~(b = e /\ a \in others)
  BY <1>3 DEF Unlinked, Sound
<1>5. \A a, b \in Elements : b \in now[a] <=> a \in now[b]
  BY <1>4 DEF Sound
<1> QED
  BY <1>1, <1>2, <1>5 DEF Sound

LEMMA JoinedIsSound ==
    ASSUME NEW links, Sound(links), NEW pairs \in SUBSET (Elements \X Elements),
           OneEach(pairs), \A p \in pairs : Suits(p[1], p[2])
    PROVE  /\ Sound(Joined(links, pairs))
           /\ \A p \in pairs : p[2] \in Joined(links, pairs)[p[1]]
<1> DEFINE new == {p \in pairs : Fits(p[1], p[2]) /\ p[2] \notin links[p[1]]}
           moving == {e \in Elements : ~IsMaster(e) /\ Partners(new, e) # {}}
           freed == Freed(links, moving)
           joined == [e \in Elements |-> freed[e] \union Partners(new, e)]
<1>1. Joined(links, pairs) = joined
  BY DEF Joined
<1>2. Sound(freed)
  BY FreedIsSound
<1>3. ASSUME NEW a \in Elements, NEW b \in Elements
      PROVE  b \in Partners(new, a) <=> a \in Partners(new, b)
  BY DEF Partners
<1>4. ASSUME NEW a \in Elements PROVE Partners(new, a) \subseteq Partners(pairs, a)
  BY DEF Partners
<1>5. ASSUME NEW a \in Elements, NEW b \in Partners(new, a) PROVE b \in Elements /\ Suits(a, b)
  BY SuitsBothWays DEF Partners
<1>6. joined \in [Elements -> SUBSET Elements]
  BY <1>2, <1>5 DEF Sound
<1>7. \A a, b \in Elements : b \in joined[a] <=> a \in joined[b]
  BY <1>2, <1>3 DEF Sound
<1>8. ASSUME NEW e \in Elements PROVE \A x \in joined[e] : Suits(e, x)
  BY <1>2, <1>5 DEF Sound
<1>9. ASSUME NEW e \in Elements, ~IsMaster(e) PROVE \A x, y \in joined[e] : x = y
  <2>1. CASE Partners(new, e) = {}
    BY <2>1, <1>2, <1>9 DEF Sound
  <2>2. CASE Partners(new, e) # {}
    <3>1. freed[e] = {}
      BY <2>2, <1>9 DEF Freed
    <3> QED
      BY <3>1, <1>4, <1>9 DEF OneEach
  <2> QED
    BY <2>1, <2>2
<1>10. Sound(joined)
  BY <1>6, <1>7, <1>8, <1>9 DEF Sound
<1>11. ASSUME NEW p \in pairs PROVE p[2] \in joined[p[1]]
  <2>1. p[1] \in Elements /\ p[2] \in Elements /\ p = <<p[1], p[2]>>
    OBVIOUS
  <2>2. Suits(p[1], p[2]) /\ Fits(p[1], p[2])
    BY <2>1, SuitsBothWays
  <2>3. CASE p \in new
    BY <2>3, <2>1 DEF Partners
  <2>4. CASE p \notin new
    <3>1. p[2] \in links[p[1]]
      BY <2>2, <2>4
    <3>2. p[2] \in Partners(pairs, p[1]) /\ p[1] \in Partners(pairs, p[2])
      BY <2>1 DEF Partners
    <3>3. ASSUME NEW e \in Elements, ~IsMaster(e), NEW x \in Elements, x \in Partners(pairs, e), x \in links[e]
          PROVE  Partners(new, e) = {}
      <4>1. ASSUME NEW y \in Partners(new, e) PROVE FALSE
        <5>1. y = x
          BY <4>1, <3>3, <1>4 DEF OneEach
        <5>2. e \in links[x]
          BY <3>3 DEF Sound
        <5> QED
          BY <5>1, <5>2, <3>3, <4>1 DEF Partners
      <4> QED
        BY <4>1 DEF Partners
    <3>4. p[1] \in links[p[2]]
      BY <3>1, <2>1 DEF Sound
    <3>5. p[1] \notin moving /\ p[2] \notin moving
      BY <3>1, <3>2, <3>3, <3>4, <2>1
    <3> QED
      BY <3>1, <3>4, <3>5, <2>1 DEF Freed
  <2> QED
    BY <2>3, <2>4
<1> QED
  BY <1>1, <1>10, <1>11

LEMMA MadeIsSound ==
    ASSUME Sound(linked), NEW e \in Elements, NEW list, Fitting(e, list)
    PROVE  /\ Sound(MadeLinks(e, list))
           /\ list \subseteq MadeLinks(e, list)[e]
<1> DEFINE pairs == {e} \X list
           joined == Joined(linked, pairs)
<1>1. list \in SUBSET Elements
  BY DEF Fitting
<1>2. CASE list = {}
  BY <1>2, FreedIsSound DEF MadeLinks
<1>3. CASE list # {}
  <2>1. pairs \in SUBSET (Elements \X Elements) /\ \A p \in pairs : Suits(p[1], p[2])
    BY <1>1 DEF Fitting
  <2>2. e \notin list
    BY <1>1, SuitsBothWays DEF Fitting
  <2>3. ASSUME NEW x \in Elements, NEW y \in Elements
        PROVE  y \in Partners(pairs, x) <=> (x = e /\ y \in list) \/ (y = e /\ x \in list)
    BY DEF Partners
  <2>4. Partners(pairs, e) = list
    BY <2>2, <2>3, <1>1 DEF Partners
  <2>5. OneEach(pairs)
    <3>1. ASSUME NEW x \in Elements, ~IsMaster(x),
                 NEW y \in Partners(pairs, x), NEW z \in Partners(pairs, x)
          PROVE  y = z
      <4>1. y \in Elements /\ z \in Elements
        BY DEF Partners
      <4>2. CASE x = e
        BY <4>2, <3>1, <2>4 DEF Fitting
      <4>3. CASE x # e
        BY <4>1, <4>3, <2>3
      <4> QED
        BY <4>2, <4>3
    <3> QED
      BY <3>1 DEF OneEach
  <2>6. Sound(joined) /\ \A p \in pairs : p[2] \in joined[p[1]]
    BY <2>1, <2>5, JoinedIsSound
  <2>7. list \subseteq joined[e]
    <3>1. ASSUME NEW x \in list PROVE x \in joined[e]
      <4>1. <<e, x>> \in pairs
        OBVIOUS
      <4> QED
        BY <4>1, <2>6
    <3> QED
      BY <3>1
  <2>8. joined[e] \ list \in SUBSET Elements
    BY <2>6 DEF Sound
  <2>9. MadeLinks(e, list) = Unlinked(joined, e, joined[e] \ list)
    BY <1>3 DEF MadeLinks
  <2>10. Sound(MadeLinks(e, list))
    <3> HIDE DEF joined
    <3>1. Sound(Unlinked(joined, e, joined[e] \ list))
      BY <2>6, <2>8, UnlinkedIsSound
    <3> QED
      BY <3>1, <2>9
  <2>11. MadeLinks(e, list)[e] = joined[e] \ (joined[e] \ list)
    BY <2>9 DEF Unlinked
  <2> QED
    BY <2>7, <2>10, <2>11
<1> QED
  BY <1>2, <1>3
-----------------------------------------------------------------------------
(* What the steps keep.                                                     *)

(* A command that may be pushed: who comes to the list was free before.     *)
Newcomer(e, x) == \A y \in {e, x} : IsMaster(y) \/ IsFree(y)

Proper(c) ==
    /\ c \in SoundCommand /\ c.what = "link" /\ c.before = linked[c.of]
    /\ c.of \in drawn
    /\ \A x \in c.after : x \in linked[c.of] \/ Newcomer(c.of, x)

LEMMA LinksAreFitting ==
    ASSUME Sound(linked), NEW e \in Elements PROVE Fitting(e, linked[e])
BY DEF Sound, Fitting

LEMMA NewCommandIsProper ==
    ASSUME Sound(linked), NEW e \in Elements, NEW after, Fitting(e, after),
           NEW index \in Rows \union {NoRow}, NEW rows \in [Elements -> Rows \union {NoRow}],
           e \in drawn, \A x \in after : x \in linked[e] \/ Newcomer(e, x)
    PROVE  Proper(LinkCommand(e, after, index, rows))
<1> DEFINE c == LinkCommand(e, after, index, rows)
<1>1. Fitting(e, linked[e])
  BY LinksAreFitting
<1>2. c \in Command
  BY <1>1 DEF Command, LinkCommand, Fitting
<1> QED
  BY <1>1, <1>2 DEF Proper, SoundCommand, LinkCommand

LEMMA RowsAreTyped ==
    ASSUME TypeOK, NEW c \in Command, c.what = "link",
           NEW list, NEW now,
           NEW rows \in [Elements -> [Elements -> Rows \union {NoRow}]]
    PROVE  /\ GivenRows(c, list, Forgotten(rows, now))
                    \in [Elements -> [Elements -> Rows \union {NoRow}]]
           /\ RowsTakenBack(c) \in [Elements -> [Elements -> Rows \union {NoRow}]]
<1>1. c.index \in Rows \union {NoRow} /\ c.rows \in [Elements -> Rows \union {NoRow}]
  BY DEF Command
<1>2. Forgotten(rows, now) \in [Elements -> [Elements -> Rows \union {NoRow}]]
  BY DEF Forgotten
<1>3. GivenRows(c, list, Forgotten(rows, now))
                    \in [Elements -> [Elements -> Rows \union {NoRow}]]
  BY <1>1, <1>2 DEF GivenRows
<1> QED
  BY <1>3 DEF RowsTakenBack, TypeOK

LEMMA ForgottenIsPlaced ==
    ASSUME NEW rows \in [Elements -> [Elements -> Rows \union {NoRow}]], Placed(rows, linked),
           NEW now \in [Elements -> SUBSET Elements]
    PROVE  Placed(Forgotten(rows, now), now)
BY DEF Forgotten, Placed

LEMMA MakeLinkKeeps ==
    ASSUME IInv, NEW c \in SoundCommand, c.what = "link", NEW list, Fitting(c.of, list),
           NEW rows \in [Elements -> [Elements -> Rows \union {NoRow}]],
           Placed(rows, linked), MakeLink(c, list, rows)
    PROVE  /\ Sound(linked')
           /\ row' \in [Elements -> [Elements -> Rows \union {NoRow}]]
           /\ Placed(row', linked')
<1>1. c \in Command /\ c.of \in Elements
  BY DEF SoundCommand, Command
<1>2. Sound(linked') /\ list \subseteq linked'[c.of]
  BY <1>1, MadeIsSound DEF MakeLink, IInv
<1>3. row' \in [Elements -> [Elements -> Rows \union {NoRow}]]
  BY <1>1, RowsAreTyped DEF MakeLink, IInv
<1> DEFINE left == Forgotten(rows, linked')
<1>4. Placed(left, linked')
  BY <1>2, ForgottenIsPlaced DEF Sound
<1>5. \A m, s \in Elements : m \in linked'[s] <=> s \in linked'[m]
  BY <1>2 DEF Sound
<1>6. row' = GivenRows(c, list, left)
  BY DEF MakeLink
<1>7. ASSUME NEW m \in Elements, NEW s \in Elements,
             Kind[m] = "plc master", row'[m][s] # NoRow
      PROVE  s \in linked'[m]
  <2> HIDE DEF left
  <2>1. CASE s = c.of /\ m \in list
    BY <2>1, <1>2, <1>5
  <2>2. CASE m = c.of /\ s \in list
    BY <2>2, <1>2
  <2>3. CASE ~(s = c.of /\ m \in list) /\ ~(m = c.of /\ s \in list)
    <3>1. row'[m][s] = left[m][s]
      BY <2>3, <1>6 DEF GivenRows
    <3> QED
      BY <3>1, <1>4, <1>7 DEF Placed
  <2> QED
    BY <2>1, <2>2, <2>3
<1> QED
  BY <1>2, <1>3, <1>7 DEF Placed

LEMMA PushKeepsStack ==
    ASSUME IInv, NEW c \in SoundCommand, Pushed(c)
    PROVE  /\ done' \in Seq(SoundCommand) /\ undone' \in Seq(SoundCommand)
           /\ clean' \in Nat \union {-1}
<1>1. ASSUME MergesInto(c) PROVE done' \in Seq(SoundCommand)
  <2> DEFINE n == Len(done)
             d == [Last(done) EXCEPT !.after = c.after]
  <2>1. n \in Nat \ {0} /\ Last(done) = done[n] /\ Last(done) \in SoundCommand
    BY <1>1, EmptySeq, LenProperties, ElementOfSeq DEF MergesInto, Last, IInv
  <2>2. Last(done).what = "link" /\ c.what = "link" /\ Last(done).of = c.of
    BY <1>1 DEF MergesInto
  <2>3. /\ d \in Command /\ d.what = "link" /\ d.of = c.of
        /\ d.before = Last(done).before /\ d.after = c.after
    BY <2>1, <2>2 DEF SoundCommand, Command
  <2>4. d \in SoundCommand
    BY <2>1, <2>2, <2>3 DEF SoundCommand
  <2>5. Front(done) \in Seq(SoundCommand)
    BY <2>1, SubSeqProperties DEF Front, IInv
  <2>6. done' = Append(Front(done), d)
    BY <1>1 DEF Pushed
  <2> QED
    BY <2>4, <2>5, <2>6, AppendProperties
<1>2. ASSUME ~MergesInto(c) PROVE done' \in Seq(SoundCommand)
  <2>1. done' = Append(done, c)
    BY <1>2 DEF Pushed
  <2> QED
    BY <2>1, AppendProperties DEF IInv
<1>3. undone' \in Seq(SoundCommand)
  BY EmptySeq DEF Pushed
<1>4. clean' \in Nat \union {-1}
  BY DEF Pushed, IInv, TypeOK
<1> QED
  BY <1>1, <1>2, <1>3, <1>4

LEMMA CommandsAreTyped ==
    ASSUME NEW s \in Seq(SoundCommand) PROVE s \in Seq(Command)
BY SeqMonotonic DEF SoundCommand

LEMMA PushLinkKeeps ==
    ASSUME IInv, NEW c, Proper(c), PushLink(c)
    PROVE  IInv'
<1>1. c \in SoundCommand /\ c.what = "link" /\ Fitting(c.of, c.after)
  BY DEF Proper, SoundCommand
<1>2. /\ Sound(linked')
      /\ row' \in [Elements -> [Elements -> Rows \union {NoRow}]]
      /\ Placed(row', linked')
  BY <1>1, MakeLinkKeeps DEF PushLink, IInv, TypeOK
<1>3. done' \in Seq(SoundCommand) /\ undone' \in Seq(SoundCommand) /\ clean' \in Nat \union {-1}
  BY <1>1, PushKeepsStack DEF PushLink
<1>4. done' \in Seq(Command) /\ undone' \in Seq(Command)
  BY <1>3, CommandsAreTyped
<1>5. linked' \in [Elements -> SUBSET Elements]
  BY <1>2 DEF Sound
<1> QED
  BY <1>2, <1>3, <1>4, <1>5 DEF IInv, TypeOK, PushLink, MakeLink, Pushed

-----------------------------------------------------------------------------
(* The actions.                                                             *)

LEMMA AfterIsFitting ==
    ASSUME NEW e \in Elements, NEW other \in Elements
    PROVE  /\ Fitting(e, After(e, other))
           /\ \A x \in After(e, other) : x \in linked[e] \/ Newcomer(e, x)
BY DEF After, IsLinkable, Fitting, Newcomer

LEMMA NoneIsFitting ==
    ASSUME NEW e \in Elements PROVE Fitting(e, {})
BY DEF Fitting

LEMMA FreeRowsAreRows ==
    ASSUME NEW m \in Elements PROVE FreeRows(m) \subseteq Rows /\ RowsOf[m] \subseteq Rows
BY DEF FreeRows, Rows

LEMMA NoRowsAreRows ==
    NoRows \in [Elements -> Rows \union {NoRow}] /\ NoRow \in Rows \union {NoRow}
BY DEF NoRows

LEMMA LinkPushes ==
    ASSUME IInv, NEW e \in Elements, NEW other \in Elements,
           LinkTo(e, other) \/ LinkToRow(e, other) \/ ScriptLink(e, other)
    PROVE  \E c : Proper(c) /\ PushLink(c)
<1>1. ASSUME NEW a \in drawn, NEW b \in Elements, NEW index \in Rows \union {NoRow},
             PushLink(LinkCommand(a, After(a, b), index, NoRows))
      PROVE  \E c : Proper(c) /\ PushLink(c)
  <2>1. a \in Elements
    BY DEF IInv, TypeOK
  <2>2. Proper(LinkCommand(a, After(a, b), index, NoRows))
    BY <2>1, AfterIsFitting, NoRowsAreRows, NewCommandIsProper DEF IInv
  <2> QED
    BY <2>2, <1>1
<1>2. e \in drawn /\ (ScriptLink(e, other) => other \in drawn)
  BY DEF LinkTo, LinkToRow, ScriptLink
<1>3. CASE LinkTo(e, other)
  <2>1. PICK index \in Rows \union {NoRow} :
            PushLink(LinkCommand(e, After(e, other), index, NoRows))
    BY <1>3, FreeRowsAreRows DEF LinkTo
  <2> QED
    BY <2>1, <1>1, <1>2
<1>4. CASE LinkToRow(e, other)
  <2>1. PICK index \in Rows \union {NoRow} :
            PushLink(LinkCommand(e, After(e, other), index, NoRows))
    BY <1>4, FreeRowsAreRows DEF LinkToRow
  <2> QED
    BY <2>1, <1>1, <1>2
<1>5. CASE ScriptLink(e, other)
  <2>1. PICK index \in Rows \union {NoRow} :
            LET a == IF index # NoRow /\ IsSlave(other) THEN other ELSE e
                b == IF a = e THEN other ELSE e
            IN PushLink(LinkCommand(a, After(a, b), index, NoRows))
    BY <1>5, FreeRowsAreRows DEF ScriptLink
  <2>2. \E a \in drawn, b \in Elements : PushLink(LinkCommand(a, After(a, b), index, NoRows))
    BY ONLY <2>1, <1>2, <1>5, e \in Elements, other \in Elements
  <2> QED
    BY <2>2, <1>1
<1> QED
  BY <1>3, <1>4, <1>5

LEMMA UnlinkPushes ==
    ASSUME IInv, NEW e \in Elements, Unlink(e) \/ ScriptUnlink(e)
    PROVE  \E c : Proper(c) /\ PushLink(c)
<1>1. ASSUME NEW index \in Rows \union {NoRow}, e \in drawn,
             PushLink(LinkCommand(e, {}, index, NoRows))
      PROVE  \E c : Proper(c) /\ PushLink(c)
  <2>1. Proper(LinkCommand(e, {}, index, NoRows))
    BY <1>1, NoneIsFitting, NoRowsAreRows, NewCommandIsProper DEF IInv
  <2> QED
    BY <2>1, <1>1
<1>2. CASE Unlink(e)
  <2> DEFINE master == CHOOSE m \in linked[e] : TRUE
             index == IF Kind[e] = "plc slave" THEN row[master][e] ELSE NoRow
  <2>1. master \in Elements
    BY <1>2 DEF Unlink, IsFree, IInv, Sound
  <2>2. row[master][e] \in Rows \union {NoRow}
    BY <2>1 DEF IInv, TypeOK
  <2>3. PushLink(LinkCommand(e, {}, index, NoRows)) /\ e \in drawn
    BY <1>2 DEF Unlink
  <2> QED
    BY <2>2, <2>3, <1>1
<1>3. CASE ScriptUnlink(e)
  BY <1>3, <1>1 DEF ScriptUnlink
<1> QED
  BY <1>2, <1>3

LEMMA SetSlavesPushes ==
    ASSUME IInv, NEW m \in Elements, NEW slaves \in SUBSET Elements, SetSlaves(m, slaves)
    PROVE  \E c : Proper(c) /\ PushLink(c)
<1> DEFINE newcomers == slaves \ linked[m]
           after == {s \in slaves : IsLinkable(m, s, TRUE)}
           given(rows) == [s \in Elements |-> IF s \in newcomers THEN rows[s] ELSE NoRow]
<1>1. PICK rows \in [newcomers -> Rows \union {NoRow}] :
            PushLink(LinkCommand(m, after, NoRow, given(rows)))
  BY FreeRowsAreRows DEF SetSlaves
<1>2. Fitting(m, after)
  BY DEF SetSlaves, IsMaster, Fitting, IsLinkable
<1>3. given(rows) \in [Elements -> Rows \union {NoRow}]
  OBVIOUS
<1>4. m \in drawn /\ \A x \in after : x \in linked[m] \/ Newcomer(m, x)
  BY DEF SetSlaves, Newcomer, IsMaster, IsLinkable
<1>5. Proper(LinkCommand(m, after, NoRow, given(rows)))
  BY <1>2, <1>3, <1>4, NoRowsAreRows, NewCommandIsProper DEF IInv
<1> QED
  BY <1>1, <1>5

LEMMA DeleteItemsKeeps ==
    ASSUME IInv, NEW c \in SoundCommand, c.what = "delete", DeleteItems(c)
    PROVE  /\ Sound(linked') /\ Placed(row', linked')
           /\ row' \in [Elements -> [Elements -> Rows \union {NoRow}]]
           /\ drawn' \subseteq Elements /\ due' \in BOOLEAN
<1>1. c.items \in SUBSET Elements
  BY DEF SoundCommand, Command
<1>2. Sound(linked')
  BY <1>1, FreedIsSound DEF DeleteItems, IInv
<1>3. Placed(row', linked')
  BY <1>2, ForgottenIsPlaced DEF DeleteItems, IInv, TypeOK, Sound
<1>4. row' \in [Elements -> [Elements -> Rows \union {NoRow}]]
  BY DEF DeleteItems, Forgotten, IInv, TypeOK
<1> QED
  BY <1>2, <1>3, <1>4 DEF DeleteItems, AutoLinkDue, IInv, TypeOK

LEMMA AddItemsKeeps ==
    ASSUME IInv, NEW c \in SoundCommand, c.what = "delete", AddItems(c)
    PROVE  /\ Sound(linked') /\ Placed(row', linked')
           /\ row' \in [Elements -> [Elements -> Rows \union {NoRow}]]
           /\ drawn' \subseteq Elements /\ due' \in BOOLEAN
<1> DEFINE pairs == {p \in c.items \X Elements : p[2] \in c.held[p[1]]}
<1>1. c.items \in SUBSET Elements /\ \A e \in Elements : \A x \in c.held[e] : Suits(e, x)
  BY DEF SoundCommand, Command
<1>2. PICK some \in SUBSET pairs : OneEach(some) /\ linked' = Joined(linked, some)
  BY DEF AddItems
<1>3. some \in SUBSET (Elements \X Elements) /\ \A p \in some : Suits(p[1], p[2])
  BY <1>1, <1>2
<1>4. Sound(linked')
  <2> HIDE DEF pairs
  <2> QED
    BY <1>2, <1>3, JoinedIsSound DEF IInv
<1>5. Placed(row', linked')
  BY <1>4, ForgottenIsPlaced DEF AddItems, IInv, TypeOK, Sound
<1>6. row' \in [Elements -> [Elements -> Rows \union {NoRow}]]
  BY DEF AddItems, Forgotten, IInv, TypeOK
<1> QED
  BY <1>1, <1>4, <1>5, <1>6 DEF AddItems, AutoLinkDue, IInv, TypeOK

LEMMA DeleteKeeps ==
    ASSUME IInv, NEW items \in Removals, Delete(items)
    PROVE  IInv'
<1> DEFINE c == [what |-> "delete", items |-> items,
                 held |-> [e \in Elements |-> IF e \in items THEN linked[e] ELSE {}]]
<1>1. items \in SUBSET Elements
  OBVIOUS
<1>2. c \in SoundCommand /\ c.what = "delete"
  BY <1>1 DEF SoundCommand, Command, IInv, Sound
<1>3. DeleteItems(c) /\ Pushed(c)
  BY DEF Delete
<1> HIDE DEF c
<1>4. done' \in Seq(SoundCommand) /\ undone' \in Seq(SoundCommand) /\ clean' \in Nat \union {-1}
  BY <1>2, <1>3, PushKeepsStack
<1>5. /\ Sound(linked') /\ Placed(row', linked')
      /\ row' \in [Elements -> [Elements -> Rows \union {NoRow}]]
      /\ drawn' \subseteq Elements /\ due' \in BOOLEAN
  BY <1>2, <1>3, DeleteItemsKeeps
<1>6. done' \in Seq(Command) /\ undone' \in Seq(Command)
  BY <1>4, CommandsAreTyped
<1>7. chained' = chained
  BY <1>3 DEF Pushed
<1> QED
  BY <1>4, <1>5, <1>6, <1>7 DEF IInv, TypeOK, Sound

LEMMA TakenBackIsPlaced ==
    ASSUME IInv, NEW c \in SoundCommand, c.what = "link"
    PROVE  /\ Placed(RowsTakenBack(c), linked)
           /\ RowsTakenBack(c) \in [Elements -> [Elements -> Rows \union {NoRow}]]
BY RowsAreTyped DEF RowsTakenBack, Placed, IInv, TypeOK, SoundCommand, Command

LEMMA UndoKeeps ==
    ASSUME IInv, Undo
    PROVE  IInv'
<1> DEFINE c == Last(done)
<1>1. Len(done) \in Nat \ {0} /\ c = done[Len(done)] /\ c \in SoundCommand
  BY EmptySeq, LenProperties, ElementOfSeq DEF Undo, Last, IInv
<1>2. done' \in Seq(SoundCommand)
  BY <1>1, SubSeqProperties DEF Undo, Front, IInv
<1>3. undone' = <<c>> \o undone
  BY DEF Undo
<1>4. undone' \in Seq(SoundCommand)
  BY <1>1, <1>3, ConcatProperties DEF IInv
<1>5. done' \in Seq(Command) /\ undone' \in Seq(Command)
  BY <1>2, <1>4, CommandsAreTyped
<1>6. clean' = clean /\ chained' = chained
  BY DEF Undo
<1>7. CASE c.what = "link"
  <2>1. MakeLink(c, c.before, RowsTakenBack(c))
    BY <1>7 DEF Undo
  <2>2. Fitting(c.of, c.before)
    BY <1>1, <1>7 DEF SoundCommand
  <2> HIDE DEF c
  <2>3. /\ Sound(linked') /\ Placed(row', linked')
        /\ row' \in [Elements -> [Elements -> Rows \union {NoRow}]]
    BY <1>1, <1>7, <2>1, <2>2, TakenBackIsPlaced, MakeLinkKeeps
  <2>4. drawn' = drawn /\ due' = due
    BY <2>1 DEF MakeLink
  <2> QED
    BY <1>2, <1>4, <1>5, <1>6, <2>3, <2>4 DEF IInv, TypeOK, Sound
<1>8. CASE c.what # "link"
  <2>1. AddItems(c)
    BY <1>8 DEF Undo
  <2>2. c.what = "delete"
    BY <1>1, <1>8 DEF SoundCommand, Command
  <2> HIDE DEF c
  <2>3. /\ Sound(linked') /\ Placed(row', linked')
        /\ row' \in [Elements -> [Elements -> Rows \union {NoRow}]]
        /\ drawn' \subseteq Elements /\ due' \in BOOLEAN
    BY <1>1, <2>1, <2>2, AddItemsKeeps
  <2> QED
    BY <1>2, <1>4, <1>5, <1>6, <2>3 DEF IInv, TypeOK, Sound
<1> QED
  BY <1>7, <1>8

LEMMA RedoKeeps ==
    ASSUME IInv, Redo
    PROVE  IInv'
<1> DEFINE c == Head(undone)
           d == [c EXCEPT !.held = Held(c)]
<1>1. c \in SoundCommand /\ undone' \in Seq(SoundCommand)
  BY HeadTailProperties DEF Redo, IInv
<1>2. clean' = clean /\ chained' = chained
  BY DEF Redo
<1>3. CASE c.what = "link"
  <2>1. MakeLink(c, c.after, row) /\ done' = Append(done, c)
    BY <1>3 DEF Redo
  <2>2. Fitting(c.of, c.after)
    BY <1>1, <1>3 DEF SoundCommand
  <2> HIDE DEF c
  <2>3. /\ Sound(linked') /\ Placed(row', linked')
        /\ row' \in [Elements -> [Elements -> Rows \union {NoRow}]]
    BY <1>1, <1>3, <2>1, <2>2, MakeLinkKeeps DEF IInv, TypeOK
  <2>4. drawn' = drawn /\ due' = due
    BY <2>1 DEF MakeLink
  <2>5. done' \in Seq(SoundCommand)
    BY <1>1, <2>1, AppendProperties DEF IInv
  <2>6. done' \in Seq(Command) /\ undone' \in Seq(Command)
    BY <1>1, <2>5, CommandsAreTyped
  <2> QED
    BY <1>1, <1>2, <2>3, <2>4, <2>5, <2>6 DEF IInv, TypeOK, Sound
<1>4. CASE c.what # "link"
  <2>1. DeleteItems(c) /\ done' = Append(done, d)
    BY <1>4 DEF Redo
  <2>2. c.what = "delete"
    BY <1>1, <1>4 DEF SoundCommand, Command
  <2>3. d \in SoundCommand
    <3>1. c \in [what : {"delete"}, items : SUBSET Elements, held : [Elements -> SUBSET Elements]]
      BY <1>1, <2>2 DEF SoundCommand, Command
    <3>2. Held(c) \in [Elements -> SUBSET Elements]
      BY <3>1 DEF Held, IInv, Sound
    <3>3. d \in Command /\ d.what = "delete" /\ d.held = Held(c)
      BY <3>1, <3>2 DEF Command
    <3>4. \A e \in Elements : \A x \in c.held[e] : Suits(e, x)
      BY <1>1, <2>2 DEF SoundCommand
    <3>5. \A e \in Elements : \A x \in Held(c)[e] : Suits(e, x)
      BY <3>4 DEF Held, IInv, Sound
    <3> QED
      BY <3>3, <3>5 DEF SoundCommand
  <2> HIDE DEF c, d
  <2>4. /\ Sound(linked') /\ Placed(row', linked')
        /\ row' \in [Elements -> [Elements -> Rows \union {NoRow}]]
        /\ drawn' \subseteq Elements /\ due' \in BOOLEAN
    BY <1>1, <2>1, <2>2, DeleteItemsKeeps
  <2>5. done' \in Seq(SoundCommand)
    BY <2>1, <2>3, AppendProperties DEF IInv
  <2>6. done' \in Seq(Command) /\ undone' \in Seq(Command)
    BY <1>1, <2>5, CommandsAreTyped
  <2> QED
    BY <1>1, <1>2, <2>4, <2>5, <2>6 DEF IInv, TypeOK, Sound
<1> QED
  BY <1>3, <1>4

LEMMA AutoLinkKeeps ==
    ASSUME IInv, AutoLink
    PROVE  IInv'
<1> DEFINE pairs == {p \in drawn \X drawn :
                    /\ Kind[p[1]] = "next" /\ Kind[p[2]] = "previous"
                    /\ IsFree(p[1]) /\ IsFree(p[2])
                    /\ Label[p[1]] = Label[p[2]] /\ Label[p[1]] # NoLabel
                    /\ Folio[p[1]] # Folio[p[2]]}
<1>1. PICK some \in SUBSET pairs : OneEach(some) /\ linked' = Joined(linked, some)
  BY DEF AutoLink
<1>2. \A p \in some : /\ p[1] \in Elements /\ p[2] \in Elements
                      /\ IsReport(p[1]) /\ IsReport(p[2]) /\ Kind[p[1]] # Kind[p[2]]
  BY <1>1 DEF IInv, TypeOK, IsReport
<1>3. some \in SUBSET (Elements \X Elements)
  BY <1>1 DEF IInv, TypeOK
<1> HIDE DEF pairs
<1>4. \A p \in some : Suits(p[1], p[2])
  BY <1>2 DEF Suits, Fits, IsReport
<1>5. Sound(linked')
  BY <1>1, <1>3, <1>4, JoinedIsSound DEF IInv
<1>6. ASSUME NEW m \in Elements, Kind[m] = "plc master" PROVE linked[m] \subseteq linked'[m]
  <2>1. ASSUME NEW x \in linked[m] PROVE ~IsReport(x)
    BY <1>6, <2>1 DEF IInv, Sound, Suits, Fits, IsMaster, IsSlave, IsReport
  <2>2. ASSUME NEW x \in Elements, NEW y \in Partners(some, x) PROVE IsReport(x)
    BY <1>2 DEF Partners
  <2> DEFINE new == {p \in some : Fits(p[1], p[2]) /\ p[2] \notin linked[p[1]]}
             moving == {e \in Elements : ~IsMaster(e) /\ Partners(new, e) # {}}
  <2>3. \A x \in moving : IsReport(x)
    BY <2>2 DEF Partners
  <2>4. m \notin moving /\ \A x \in linked[m] : x \notin moving
    BY <1>6, <2>1, <2>3 DEF IsMaster
  <2> HIDE DEF moving
  <2>5. Freed(linked, moving)[m] = linked[m]
    BY <2>4 DEF Freed, IInv, Sound
  <2> USE DEF moving
  <2> QED
    BY <1>1, <2>5 DEF Joined
<1>7. Placed(row', linked')
  BY <1>6 DEF AutoLink, Placed, IInv
<1> QED
  BY <1>5, <1>7 DEF IInv, TypeOK, Sound, AutoLink, stack

LEMMA InitIsSound == Init => IInv
<1> SUFFICES ASSUME Init PROVE IInv
  OBVIOUS
<1>1. Sound(linked)
  BY DEF Init, Sound
<1>2. /\ row \in [Elements -> [Elements -> Rows \union {NoRow}]]
      /\ Placed(row, linked)
  BY DEF Init, Placed, NoRows
<1>3. done \in Seq(SoundCommand) /\ undone \in Seq(SoundCommand)
  BY EmptySeq DEF Init
<1>4. done \in Seq(Command) /\ undone \in Seq(Command)
  BY EmptySeq DEF Init
<1>5. drawn \subseteq Elements /\ chained \in BOOLEAN
  BY DEF Init
<1> QED
  BY <1>1, <1>2, <1>3, <1>4, <1>5 DEF Init, IInv, TypeOK, Sound

\* What a step is, for the invariants
LEMMA StepsAre ==
    ASSUME IInv, [Next]_vars
    PROVE  \/ \E c : Proper(c) /\ PushLink(c)
           \/ \E items \in Removals : Delete(items)
           \/ Undo \/ Redo \/ AutoLink
           \/ SetClean \/ UNCHANGED vars
<1>1. ASSUME NEW e \in Elements, NEW other \in Elements,
             LinkTo(e, other) \/ LinkToRow(e, other) \/ ScriptLink(e, other)
      PROVE  \E c : Proper(c) /\ PushLink(c)
  BY <1>1, LinkPushes
<1>2. ASSUME NEW e \in Elements, Unlink(e) \/ ScriptUnlink(e)
      PROVE  \E c : Proper(c) /\ PushLink(c)
  BY <1>2, UnlinkPushes
<1>3. ASSUME NEW m \in Elements, NEW slaves \in SUBSET Elements, SetSlaves(m, slaves)
      PROVE  \E c : Proper(c) /\ PushLink(c)
  BY <1>3, SetSlavesPushes
<1> QED
  BY <1>1, <1>2, <1>3 DEF Next

LEMMA NextKeeps ==
    ASSUME IInv, [Next]_vars
    PROVE  IInv'
<1>1. CASE \E c : Proper(c) /\ PushLink(c)
  BY <1>1, PushLinkKeeps
<1>2. CASE \E items \in Removals : Delete(items)
  BY <1>2, DeleteKeeps
<1>3. CASE Undo
  BY <1>3, UndoKeeps
<1>4. CASE Redo
  BY <1>4, RedoKeeps
<1>5. CASE SetClean
  BY <1>5, LenProperties DEF SetClean, IInv, TypeOK, Sound, Placed
<1>6. CASE AutoLink
  BY <1>6, AutoLinkKeeps
<1>7. CASE UNCHANGED vars
  BY <1>7 DEF vars, stack, IInv, TypeOK, Sound, Placed
<1> QED
  BY <1>1, <1>2, <1>3, <1>4, <1>5, <1>6, <1>7, StepsAre

LEMMA LinksAreSound == Spec => []IInv
<1>1. Init => IInv
  BY InitIsSound
<1>2. IInv /\ [Next]_vars => IInv'
  BY NextKeeps
<1> QED
  BY <1>1, <1>2, PTL DEF Spec

-----------------------------------------------------------------------------
(* The stack and the documents that history puts between its commands:      *)
(* past[i] was the document before done[i], future[i] is the one after      *)
(* undone[i].  Which command may lead from which document to which is a set *)
(* R of triples, so that what a stack does to them is said once.            *)

Documents == [Elements -> SUBSET Elements] \X SUBSET Elements

PastIn(R, cmds, docs, now) ==
    /\ Len(docs) = Len(cmds)
    /\ \A i \in 1..Len(cmds) :
            <<cmds[i], docs[i], IF i = Len(cmds) THEN now ELSE docs[i + 1]>> \in R

FutureIn(R, cmds, docs, now) ==
    /\ Len(docs) = Len(cmds)
    /\ \A i \in 1..Len(cmds) :
            <<cmds[i], IF i = 1 THEN now ELSE docs[i - 1], docs[i]>> \in R

LEMMA PastAppended ==
    ASSUME NEW R, NEW C, NEW D, NEW cmds \in Seq(C), NEW docs \in Seq(D), NEW now \in D,
           PastIn(R, cmds, docs, now), NEW c \in C, NEW next, <<c, now, next>> \in R
    PROVE  PastIn(R, Append(cmds, c), Append(docs, now), next)
<1> DEFINE n == Len(cmds)
           m == Append(cmds, c)
           e == Append(docs, now)
<1>1. n \in Nat /\ Len(docs) = n
  BY LenProperties DEF PastIn
<1>2. Len(m) = n + 1 /\ m[n + 1] = c /\ \A i \in 1..n : m[i] = cmds[i]
  BY AppendProperties
<1>3. Len(e) = n + 1 /\ e[n + 1] = now /\ \A i \in 1..n : e[i] = docs[i]
  BY <1>1, AppendProperties
<1>4. \A i \in 1..n : <<cmds[i], docs[i], IF i = n THEN now ELSE docs[i + 1]>> \in R
  BY DEF PastIn
<1> HIDE DEF n, m, e
<1>5. ASSUME NEW i \in 1..(n + 1)
      PROVE  <<m[i], e[i], IF i = n + 1 THEN next ELSE e[i + 1]>> \in R
  <2>1. CASE i = n + 1
    BY <2>1, <1>2, <1>3
  <2>2. CASE i = n
    <3>1. i \in 1..n /\ i # n + 1 /\ i + 1 = n + 1
      BY <2>2, <1>1
    <3>2. m[i] = cmds[i] /\ e[i] = docs[i] /\ e[i + 1] = now
      BY <3>1, <1>2, <1>3
    <3>3. <<cmds[i], docs[i], now>> \in R
      BY <3>1, <2>2, <1>4
    <3> QED
      BY <3>1, <3>2, <3>3
  <2>3. CASE i # n /\ i # n + 1
    <3>1. i \in 1..n /\ i + 1 \in 1..n
      BY <2>3, <1>1
    <3>2. m[i] = cmds[i] /\ e[i] = docs[i] /\ e[i + 1] = docs[i + 1]
      BY <3>1, <1>2, <1>3
    <3>3. <<cmds[i], docs[i], docs[i + 1]>> \in R
      BY <3>1, <2>3, <1>4
    <3> QED
      BY <2>3, <3>2, <3>3
  <2> QED
    BY <2>1, <2>2, <2>3
<1>6. PastIn(R, m, e, next)
  BY <1>2, <1>3, <1>5 DEF PastIn
<1> QED
  BY <1>6 DEF m, e

LEMMA PastReplaced ==
    ASSUME NEW R, NEW C, NEW D, NEW cmds \in Seq(C), NEW docs \in Seq(D), cmds # << >>,
           NEW now, PastIn(R, cmds, docs, now),
           NEW d \in C, NEW next, <<d, docs[Len(cmds)], next>> \in R
    PROVE  PastIn(R, Append(Front(cmds), d), docs, next)
<1> DEFINE n == Len(cmds)
           f == Front(cmds)
           m == Append(f, d)
<1>1. n \in Nat \ {0} /\ Len(docs) = n
  BY EmptySeq, LenProperties DEF PastIn
<1>2. \A i \in 1..(n - 1) : cmds[i] \in C
  BY <1>1, ElementOfSeq
<1>3. f \in Seq(C) /\ Len(f) = n - 1 /\ \A i \in 1..(n - 1) : f[i] = cmds[i]
  <2> HIDE DEF n
  <2>1. f = SubSeq(cmds, 1, n - 1)
    BY DEF Front, n
  <2> HIDE DEF f
  <2> QED
    BY <1>1, <1>2, <2>1, SubSeqProperties
<1>4. Len(m) = n /\ m[n] = d /\ \A i \in 1..(n - 1) : m[i] = cmds[i]
  <2> HIDE DEF n, f
  <2> QED
    BY <1>1, <1>3, AppendProperties
<1>5. \A i \in 1..n : <<cmds[i], docs[i], IF i = n THEN now ELSE docs[i + 1]>> \in R
  BY DEF PastIn
<1>6. <<d, docs[n], next>> \in R
  OBVIOUS
<1> HIDE DEF n, f, m
<1>7. ASSUME NEW i \in 1..n
      PROVE  <<m[i], docs[i], IF i = n THEN next ELSE docs[i + 1]>> \in R
  <2>1. CASE i = n
    BY <2>1, <1>4, <1>6
  <2>2. CASE i # n
    <3>1. i \in 1..(n - 1)
      BY <2>2, <1>1
    <3> QED
      BY <3>1, <2>2, <1>4, <1>5
  <2> QED
    BY <2>1, <2>2
<1>8. PastIn(R, m, docs, next)
  BY <1>1, <1>4, <1>7 DEF PastIn
<1> QED
  BY <1>8 DEF m, f

LEMMA PastTakenBack ==
    ASSUME NEW R, NEW C, NEW D, NEW cmds \in Seq(C), NEW docs \in Seq(D), cmds # << >>,
           NEW now, PastIn(R, cmds, docs, now)
    PROVE  /\ Len(docs) = Len(cmds) /\ Len(cmds) \in Nat \ {0}
           /\ Last(docs) = docs[Len(cmds)] /\ Last(docs) \in D /\ Last(cmds) \in C
           /\ <<Last(cmds), Last(docs), now>> \in R
           /\ Front(docs) \in Seq(D)
           /\ PastIn(R, Front(cmds), Front(docs), Last(docs))
<1> DEFINE n == Len(cmds)
           f == Front(cmds)
           g == Front(docs)
<1>1. n \in Nat \ {0} /\ Len(docs) = n
  BY EmptySeq, LenProperties DEF PastIn
<1>2. \A i \in 1..n : cmds[i] \in C /\ docs[i] \in D
  BY <1>1, ElementOfSeq
<1>3. f = SubSeq(cmds, 1, n - 1) /\ g = SubSeq(docs, 1, n - 1)
  BY <1>1 DEF Front
<1>4. Last(cmds) = cmds[n] /\ Last(docs) = docs[n]
  BY <1>1 DEF Last
<1>5. \A i \in 1..n : <<cmds[i], docs[i], IF i = n THEN now ELSE docs[i + 1]>> \in R
  BY DEF PastIn
<1> HIDE DEF n, f, g
<1>6. Len(f) = n - 1 /\ \A i \in 1..(n - 1) : f[i] = cmds[i]
  BY <1>1, <1>2, <1>3, SubSeqProperties
<1>7. g \in Seq(D) /\ Len(g) = n - 1 /\ \A i \in 1..(n - 1) : g[i] = docs[i]
  BY <1>1, <1>2, <1>3, SubSeqProperties
<1>8. ASSUME NEW i \in 1..(n - 1)
      PROVE  <<f[i], g[i], IF i = n - 1 THEN docs[n] ELSE g[i + 1]>> \in R
  <2>1. i \in 1..n /\ i # n
    BY <1>1
  <2>2. <<cmds[i], docs[i], docs[i + 1]>> \in R
    BY <2>1, <1>5
  <2>3. CASE i = n - 1
    <3>1. i + 1 = n
      BY <2>3, <1>1
    <3> QED
      BY <2>2, <2>3, <3>1, <1>6, <1>7
  <2>4. CASE i # n - 1
    <3>1. i + 1 \in 1..(n - 1)
      BY <2>4, <1>1
    <3> QED
      BY <2>2, <2>4, <3>1, <1>6, <1>7
  <2> QED
    BY <2>3, <2>4
<1>9. PastIn(R, f, g, docs[n])
  BY <1>6, <1>7, <1>8 DEF PastIn
<1>10. <<cmds[n], docs[n], now>> \in R /\ docs[n] \in D /\ cmds[n] \in C
  BY <1>1, <1>2, <1>5
<1>11. n = Len(cmds) /\ f = Front(cmds) /\ g = Front(docs)
  BY DEF n, f, g
<1> QED
  BY <1>1, <1>4, <1>7, <1>9, <1>10, <1>11

LEMMA FutureGrows ==
    ASSUME NEW R, NEW C, NEW D, NEW cmds \in Seq(C), NEW docs \in Seq(D), NEW now \in D,
           FutureIn(R, cmds, docs, now), NEW c \in C, NEW before, <<c, before, now>> \in R
    PROVE  /\ <<now>> \o docs \in Seq(D)
           /\ FutureIn(R, <<c>> \o cmds, <<now>> \o docs, before)
<1> DEFINE n == Len(cmds)
           m == <<c>> \o cmds
           e == <<now>> \o docs
<1>1. n \in Nat /\ Len(docs) = n
  BY LenProperties DEF FutureIn
<1>2. <<c>> \in Seq(C) /\ Len(<<c>>) = 1 /\ <<c>>[1] = c
  OBVIOUS
<1>3. <<now>> \in Seq(D) /\ Len(<<now>>) = 1 /\ <<now>>[1] = now
  OBVIOUS
<1>4. /\ Len(m) = 1 + n
      /\ \A i \in 1..(1 + n) : m[i] = IF i <= 1 THEN <<c>>[i] ELSE cmds[i - 1]
  BY <1>2, ConcatProperties
<1>5. /\ e \in Seq(D) /\ Len(e) = 1 + n
      /\ \A i \in 1..(1 + n) : e[i] = IF i <= 1 THEN <<now>>[i] ELSE docs[i - 1]
  BY <1>1, <1>3, ConcatProperties
<1>6. \A i \in 1..n : <<cmds[i], IF i = 1 THEN now ELSE docs[i - 1], docs[i]>> \in R
  BY DEF FutureIn
<1> HIDE DEF n, m, e
<1>7. m[1] = c /\ e[1] = now
  BY <1>1, <1>2, <1>3, <1>4, <1>5
<1>8. ASSUME NEW i \in 1..(1 + n), i # 1
      PROVE  i - 1 \in 1..n /\ m[i] = cmds[i - 1] /\ e[i] = docs[i - 1]
  <2>1. i - 1 \in 1..n /\ ~(i <= 1)
    BY <1>1, <1>8
  <2> QED
    BY <2>1, <1>4, <1>5
<1>9. ASSUME NEW i \in 1..(1 + n)
      PROVE  <<m[i], IF i = 1 THEN before ELSE e[i - 1], e[i]>> \in R
  <2>1. CASE i = 1
    BY <2>1, <1>7
  <2>2. CASE i # 1
    <3> DEFINE j == i - 1
    <3>1. j \in 1..n /\ m[i] = cmds[j] /\ e[i] = docs[j] /\ j \in 1..(1 + n)
      BY <2>2, <1>8, <1>1
    <3>2. <<cmds[j], IF j = 1 THEN now ELSE docs[j - 1], docs[j]>> \in R
      BY <3>1, <1>6
    <3>3. e[j] = IF j = 1 THEN now ELSE docs[j - 1]
      BY <3>1, <1>7, <1>8
    <3> HIDE DEF j
    <3>4. <<m[i], e[j], e[i]>> \in R
      BY <3>1, <3>2, <3>3
    <3> QED
      BY <2>2, <3>4 DEF j
  <2> QED
    BY <2>1, <2>2
<1>10. FutureIn(R, m, e, before)
  BY <1>4, <1>5, <1>9 DEF FutureIn
<1> QED
  BY <1>5, <1>10 DEF m, e

LEMMA FutureMadeAgain ==
    ASSUME NEW R, NEW C, NEW D, NEW cmds \in Seq(C), NEW docs \in Seq(D), cmds # << >>,
           NEW now, FutureIn(R, cmds, docs, now)
    PROVE  /\ docs # << >> /\ Head(docs) \in D /\ Head(cmds) \in C
           /\ <<Head(cmds), now, Head(docs)>> \in R
           /\ Tail(docs) \in Seq(D)
           /\ FutureIn(R, Tail(cmds), Tail(docs), Head(docs))
<1> DEFINE n == Len(cmds)
           f == Tail(cmds)
           g == Tail(docs)
<1>1. n \in Nat \ {0} /\ Len(docs) = n
  BY EmptySeq, LenProperties DEF FutureIn
<1>2. docs # << >>
  BY <1>1, EmptySeq
<1>3. Head(cmds) = cmds[1] /\ Head(docs) = docs[1]
  OBVIOUS
<1>4. /\ Head(cmds) \in C
      /\ Len(f) = n - 1 /\ \A i \in 1..(n - 1) : f[i] = cmds[i + 1]
  BY <1>1, HeadTailProperties
<1>5. /\ Head(docs) \in D /\ g \in Seq(D)
      /\ Len(g) = n - 1 /\ \A i \in 1..(n - 1) : g[i] = docs[i + 1]
  BY <1>1, <1>2, HeadTailProperties
<1>6. \A i \in 1..n : <<cmds[i], IF i = 1 THEN now ELSE docs[i - 1], docs[i]>> \in R
  BY DEF FutureIn
<1> HIDE DEF n, f, g
<1>7. ASSUME NEW i \in 1..(n - 1)
      PROVE  <<f[i], IF i = 1 THEN docs[1] ELSE g[i - 1], g[i]>> \in R
  <2>1. i + 1 \in 1..n /\ i + 1 # 1 /\ (i + 1) - 1 = i
    BY <1>1
  <2>2. <<cmds[i + 1], docs[i], docs[i + 1]>> \in R
    BY <2>1, <1>6
  <2>3. f[i] = cmds[i + 1] /\ g[i] = docs[i + 1]
    BY <1>4, <1>5
  <2>4. docs[i] = IF i = 1 THEN docs[1] ELSE g[i - 1]
    <3>1. CASE i = 1
      BY <3>1
    <3>2. CASE i # 1
      <4>1. i - 1 \in 1..(n - 1) /\ (i - 1) + 1 = i
        BY <3>2, <1>1
      <4> QED
        BY <4>1, <3>2, <1>5
    <3> QED
      BY <3>1, <3>2
  <2> QED
    BY <2>2, <2>3, <2>4
<1>8. FutureIn(R, f, g, docs[1])
  BY <1>4, <1>5, <1>7 DEF FutureIn
<1>9. <<cmds[1], now, docs[1]>> \in R
  BY <1>1, <1>6
<1> QED
  BY <1>2, <1>3, <1>4, <1>5, <1>8, <1>9 DEF f, g

(* Documents that R does not tell apart.                                    *)
Alike(R, a, b) ==
    \A c, d : /\ <<c, d, a>> \in R => <<c, d, b>> \in R
              /\ <<c, a, d>> \in R => <<c, b, d>> \in R

History(R) ==
    /\ past \in Seq(Documents) /\ future \in Seq(Documents)
    /\ PastIn(R, done, past, Document)
    /\ FutureIn(R, undone, future, Document)

LEMMA PastAlike ==
    ASSUME NEW R, NEW cmds, NEW docs, NEW a, NEW b, PastIn(R, cmds, docs, a), Alike(R, a, b)
    PROVE  PastIn(R, cmds, docs, b)
BY DEF PastIn, Alike

LEMMA FutureAlike ==
    ASSUME NEW R, NEW cmds, NEW docs, NEW a, NEW b, FutureIn(R, cmds, docs, a), Alike(R, a, b)
    PROVE  FutureIn(R, cmds, docs, b)
BY DEF FutureIn, Alike

LEMMA DocumentIsTyped == IInv => Document \in Documents
BY DEF IInv, TypeOK, Document, Documents

LEMMA DocumentStaysTyped ==
    ASSUME IInv, [Next]_vars PROVE Document' \in Documents
<1>1. IInv'
  BY NextKeeps
<1> QED
  BY <1>1 DEF IInv, TypeOK, Document, Documents

LEMMA HistoryIsThere ==
    ASSUME NEW R, IInv, History(R)
    PROVE  (done # << >> => past # << >>) /\ (undone # << >> => future # << >>)
<1>1. done \in Seq(Command) /\ undone \in Seq(Command)
  BY DEF IInv, TypeOK
<1>2. Len(past) = Len(done) /\ Len(future) = Len(undone)
  BY DEF History, PastIn, FutureIn
<1>3. past \in Seq(Documents) /\ future \in Seq(Documents)
  BY DEF History
<1> QED
  BY <1>1, <1>2, <1>3, EmptySeq

LEMMA PushedHistory ==
    ASSUME NEW R, IInv, History(R), NEW c \in Command, Pushed(c),
           ~MergesInto(c) => <<c, Document, Document'>> \in R,
           MergesInto(c) /\ <<Last(done), Last(past), Document>> \in R
                => <<[Last(done) EXCEPT !.after = c.after], Last(past), Document'>> \in R
    PROVE  History(R)'
<1>1. undone' = << >> /\ future' = << >>
  BY DEF Pushed
<1>2. FutureIn(R, undone', future', Document')
  BY <1>1 DEF FutureIn
<1>3. future' \in Seq(Documents)
  BY <1>1, EmptySeq
<1>4. done \in Seq(Command) /\ past \in Seq(Documents) /\ Document \in Documents
  BY DocumentIsTyped DEF IInv, TypeOK, History
<1>5. CASE ~MergesInto(c)
  <2>1. done' = Append(done, c) /\ past' = Append(past, Document)
    BY <1>5 DEF Pushed
  <2>2. PastIn(R, done', past', Document')
    BY <2>1, <1>4, <1>5, PastAppended DEF History
  <2>3. past' \in Seq(Documents)
    BY <2>1, <1>4, AppendProperties
  <2> QED
    BY <1>2, <1>3, <2>2, <2>3 DEF History
<1>6. CASE MergesInto(c)
  <2> DEFINE d == [Last(done) EXCEPT !.after = c.after]
  <2>1. done' = Append(Front(done), d) /\ past' = past
    BY <1>6 DEF Pushed
  <2>2. done # << >> /\ Last(done).what = "link" /\ c.what = "link"
    BY <1>6 DEF MergesInto
  <2>3. /\ Len(past) = Len(done) /\ Last(past) = past[Len(done)] /\ Last(done) \in Command
        /\ <<Last(done), Last(past), Document>> \in R
    <3>1. PastIn(R, done, past, Document)
      BY DEF History
    <3>2. done \in Seq(Command) /\ past \in Seq(Documents) /\ done # << >>
      BY <1>4, <2>2
    <3> HIDE DEF Document
    <3>3. Len(done) \in Nat \ {0} /\ Len(past) = Len(done)
      BY <3>1, <3>2, EmptySeq, LenProperties DEF PastIn
    <3>4. Last(done) = done[Len(done)] /\ Last(past) = past[Len(done)]
      BY <3>3 DEF Last
    <3>5. done[Len(done)] \in Command
      BY <3>2, <3>3, ElementOfSeq
    <3>6. <<done[Len(done)], past[Len(done)], Document>> \in R
      BY <3>1, <3>3 DEF PastIn
    <3> QED
      BY <3>3, <3>4, <3>5, <3>6
  <2>4. <<d, past[Len(done)], Document'>> \in R
    BY <1>6, <2>3
  <2>5. d \in Command
    BY <2>2, <2>3 DEF Command
  <2> HIDE DEF d
  <2>6. PastIn(R, done, past, Document)
    BY DEF History
  <2>7. PastIn(R, done', past, Document')
    BY <2>1, <2>2, <2>4, <2>5, <2>6, <1>4, PastReplaced
  <2> QED
    BY <1>2, <1>3, <1>4, <2>1, <2>7 DEF History
<1> QED
  BY <1>5, <1>6

LEMMA UndoneHistory ==
    ASSUME NEW R, IInv, History(R), Undo, Document' \in Documents,
           Alike(R, Last(past), Document')
    PROVE  History(R)'
<1> DEFINE c == Last(done)
<1>1. /\ done # << >> /\ done' = Front(done) /\ past' = Front(past)
      /\ undone' = <<c>> \o undone /\ future' = <<Document>> \o future
  BY DEF Undo
<1>2. /\ done \in Seq(Command) /\ past \in Seq(Documents) /\ Document \in Documents
      /\ undone \in Seq(Command) /\ future \in Seq(Documents)
  BY DocumentIsTyped DEF IInv, TypeOK, History
<1>3. PastIn(R, done, past, Document) /\ FutureIn(R, undone, future, Document)
  BY DEF History
<1>4. /\ c \in Command /\ <<c, Last(past), Document>> \in R
      /\ past' \in Seq(Documents)
      /\ PastIn(R, done', past', Last(past))
  BY <1>1, <1>2, <1>3, PastTakenBack
<1> HIDE DEF c
<1>5. PastIn(R, done', past', Document')
  BY <1>4, PastAlike
<1>6. <<c, Document', Document>> \in R
  BY <1>4 DEF Alike
<1>7. /\ future' \in Seq(Documents)
      /\ FutureIn(R, undone', future', Document')
  BY <1>1, <1>2, <1>3, <1>4, <1>6, FutureGrows
<1> QED
  BY <1>4, <1>5, <1>7 DEF History

LEMMA RedoneHistory ==
    ASSUME NEW R, IInv, History(R), Redo, Document' \in Documents,
           NEW d \in Command, done' = Append(done, d),
           <<d, Document, Document'>> \in R, Alike(R, Head(future), Document')
    PROVE  History(R)'
<1>1. /\ undone # << >> /\ past' = Append(past, Document)
      /\ undone' = Tail(undone) /\ future' = Tail(future)
  BY DEF Redo
<1>2. /\ done \in Seq(Command) /\ past \in Seq(Documents) /\ Document \in Documents
      /\ undone \in Seq(Command) /\ future \in Seq(Documents)
  BY DocumentIsTyped DEF IInv, TypeOK, History
<1>3. PastIn(R, done, past, Document) /\ FutureIn(R, undone, future, Document)
  BY DEF History
<1>4. future' \in Seq(Documents) /\ FutureIn(R, undone', future', Head(future))
  BY <1>1, <1>2, <1>3, FutureMadeAgain
<1>5. FutureIn(R, undone', future', Document')
  BY <1>4, FutureAlike
<1>6. PastIn(R, done', past', Document')
  BY <1>1, <1>2, <1>3, PastAppended
<1>7. past' \in Seq(Documents)
  BY <1>1, <1>2, AppendProperties
<1> QED
  BY <1>4, <1>5, <1>6, <1>7 DEF History

-----------------------------------------------------------------------------
(* The elements that are on a folio: each command on the stack finds those  *)
(* there that it is about, whenever it is carried out or taken back.        *)

DrawnStep(c, scene, next) ==
    /\ c.what = "link" => c.of \in scene /\ next = scene
    /\ c.what = "delete" => c.items \subseteq scene /\ next = scene \ c.items

DrawnSteps == {t \in Command \X Documents \X Documents : DrawnStep(t[1], t[2][2], t[3][2])}

DInv == IInv /\ History(DrawnSteps)

LEMMA DrawnStepsAre ==
    ASSUME NEW c \in Command, NEW a \in Documents, NEW b \in Documents
    PROVE  <<c, a, b>> \in DrawnSteps <=> DrawnStep(c, a[2], b[2])
BY DEF DrawnSteps

LEMMA SameScene ==
    ASSUME NEW a \in Documents, NEW b \in Documents, a[2] = b[2]
    PROVE  Alike(DrawnSteps, a, b)
<1> SUFFICES ASSUME NEW c, NEW d
             PROVE  /\ <<c, d, a>> \in DrawnSteps => <<c, d, b>> \in DrawnSteps
                    /\ <<c, a, d>> \in DrawnSteps => <<c, b, d>> \in DrawnSteps
  BY DEF Alike
<1>1. ASSUME <<c, d, a>> \in DrawnSteps PROVE <<c, d, b>> \in DrawnSteps
  <2>1. c \in Command /\ d \in Documents
    BY <1>1 DEF DrawnSteps
  <2> QED
    BY <1>1, <2>1, DrawnStepsAre
<1>2. ASSUME <<c, a, d>> \in DrawnSteps PROVE <<c, b, d>> \in DrawnSteps
  <2>1. c \in Command /\ d \in Documents
    BY <1>2 DEF DrawnSteps
  <2> QED
    BY <1>2, <2>1, DrawnStepsAre
<1> QED
  BY <1>1, <1>2

LEMMA PushLinkScene ==
    ASSUME DInv, NEW c, Proper(c), PushLink(c)
    PROVE  /\ DInv'
           /\ MergesInto(c) => Last(past)[2] = drawn
<1>1. IInv /\ History(DrawnSteps)
  BY DEF DInv
<1>2. c \in Command /\ c.what = "link" /\ c.of \in drawn /\ c.after \in SUBSET Elements
  BY DEF Proper, SoundCommand, Command
<1>3. drawn' = drawn /\ Pushed(c)
  BY DEF PushLink, MakeLink
<1>4. IInv'
  BY <1>1, PushLinkKeeps
<1>5. Document \in Documents /\ Document' \in Documents
  BY <1>1, <1>4 DEF IInv, TypeOK, Document, Documents
<1>6. Document[2] = drawn /\ (Document')[2] = drawn
  BY <1>3 DEF Document
<1>7. <<c, Document, Document'>> \in DrawnSteps
  <2>1. DrawnStep(c, drawn, drawn)
    BY <1>2 DEF DrawnStep
  <2> HIDE DEF Document
  <2> QED
    BY <2>1, <1>2, <1>5, <1>6, DrawnStepsAre
<1>8. ASSUME MergesInto(c), <<Last(done), Last(past), Document>> \in DrawnSteps
      PROVE  /\ <<[Last(done) EXCEPT !.after = c.after], Last(past), Document'>> \in DrawnSteps
             /\ Last(past)[2] = drawn
  <2> DEFINE l == Last(done)
             d == [l EXCEPT !.after = c.after]
             p == Last(past)
  <2>1. l \in Command /\ p \in Documents
    BY <1>8 DEF DrawnSteps
  <2>2. l.what = "link"
    BY <1>8 DEF MergesInto
  <2>3. d \in Command /\ d.what = "link" /\ d.of = l.of
    BY <2>1, <2>2, <1>2 DEF Command
  <2>4. <<l, p, Document>> \in DrawnSteps
    BY <1>8
  <2> HIDE DEF l, d, p
  <2>5. DrawnStep(l, p[2], drawn)
    BY <2>1, <2>4, <1>5, <1>6, DrawnStepsAre
  <2>6. DrawnStep(d, p[2], drawn) /\ p[2] = drawn
    BY <2>2, <2>3, <2>5 DEF DrawnStep
  <2>7. <<d, p, Document'>> \in DrawnSteps
    BY <2>1, <2>3, <2>6, <1>5, <1>6, DrawnStepsAre
  <2> QED
    BY <2>6, <2>7 DEF d, p, l
<1>9. History(DrawnSteps)'
  BY <1>1, <1>2, <1>3, <1>7, <1>8, PushedHistory
<1>10. ASSUME MergesInto(c) PROVE Last(past)[2] = drawn
  <2>1. done # << >>
    BY <1>10 DEF MergesInto
  <2>2. <<Last(done), Last(past), Document>> \in DrawnSteps
    BY <1>1, <2>1, PastTakenBack DEF History, IInv, TypeOK
  <2> QED
    BY <1>8, <1>10, <2>2
<1> QED
  BY <1>4, <1>9, <1>10 DEF DInv

LEMMA DeleteScene ==
    ASSUME DInv, NEW items \in Removals, Delete(items)
    PROVE  DInv'
<1> DEFINE c == [what |-> "delete", items |-> items,
                 held |-> [e \in Elements |-> IF e \in items THEN linked[e] ELSE {}]]
<1>1. IInv /\ History(DrawnSteps)
  BY DEF DInv
<1>2. /\ items \in SUBSET Elements /\ items \subseteq drawn
      /\ DeleteItems(c) /\ Pushed(c)
  <2>1. items \in SUBSET Elements
    OBVIOUS
  <2> QED
    BY <2>1 DEF Delete
<1>3. c \in Command /\ c.what = "delete" /\ c.items = items
  BY <1>1, <1>2 DEF Command, IInv, Sound
<1> HIDE DEF c
<1>4. drawn' = drawn \ items
  BY <1>2, <1>3 DEF DeleteItems
<1>5. IInv'
  BY <1>1, DeleteKeeps
<1>6. Document \in Documents /\ Document' \in Documents
  BY <1>1, <1>5 DEF IInv, TypeOK, Document, Documents
<1>7. Document[2] = drawn /\ (Document')[2] = drawn'
  BY DEF Document
<1>8. <<c, Document, Document'>> \in DrawnSteps
  <2>1. DrawnStep(c, drawn, drawn')
    BY <1>2, <1>3, <1>4 DEF DrawnStep
  <2> HIDE DEF Document
  <2> QED
    BY <2>1, <1>3, <1>6, <1>7, DrawnStepsAre
<1>9. ~MergesInto(c)
  BY <1>3 DEF MergesInto
<1>10. History(DrawnSteps)'
  BY <1>1, <1>2, <1>3, <1>8, <1>9, PushedHistory
<1> QED
  BY <1>5, <1>10 DEF DInv

LEMMA UndoScene ==
    ASSUME DInv, Undo
    PROVE  /\ DInv' /\ drawn' = Last(past)[2]
           /\ Last(done) \in Command /\ DrawnStep(Last(done), drawn', drawn)
<1> DEFINE c == Last(done)
           before == Last(past)
<1>1. IInv /\ History(DrawnSteps)
  BY DEF DInv
<1>2. IInv'
  BY <1>1, UndoKeeps
<1>3. Document \in Documents /\ Document' \in Documents
  BY <1>1, <1>2 DEF IInv, TypeOK, Document, Documents
<1>4. Document[2] = drawn /\ (Document')[2] = drawn'
  BY DEF Document
<1>5. c \in Command /\ before \in Documents /\ <<c, before, Document>> \in DrawnSteps
  BY <1>1, PastTakenBack DEF History, Undo, IInv, TypeOK
<1>6. /\ c.what = "link" => MakeLink(c, c.before, RowsTakenBack(c))
      /\ c.what # "link" => AddItems(c)
  BY DEF Undo
<1> HIDE DEF c, before, Document
<1>7. DrawnStep(c, before[2], drawn)
  BY <1>3, <1>4, <1>5, DrawnStepsAre
<1>8. c.what = "link" \/ c.what = "delete"
  BY <1>5 DEF Command
<1>9. drawn' = before[2]
  BY <1>6, <1>7, <1>8 DEF DrawnStep, MakeLink, AddItems
<1>10. Alike(DrawnSteps, before, Document')
  BY <1>3, <1>4, <1>5, <1>9, SameScene
<1>11. History(DrawnSteps)'
  <2>1. Alike(DrawnSteps, Last(past), Document')
    BY <1>10 DEF before
  <2> QED
    BY <2>1, <1>1, <1>3, UndoneHistory
<1> QED
  BY <1>2, <1>5, <1>7, <1>9, <1>11 DEF DInv, c, before

LEMMA RedoScene ==
    ASSUME DInv, Redo
    PROVE  /\ DInv' /\ drawn' = Head(future)[2]
           /\ Head(undone) \in Command /\ DrawnStep(Head(undone), drawn, drawn')
<1> DEFINE c == Head(undone)
           after == Head(future)
           again == [c EXCEPT !.held = Held(c)]
<1>1. IInv /\ History(DrawnSteps)
  BY DEF DInv
<1>2. IInv'
  BY <1>1, RedoKeeps
<1>3. Document \in Documents /\ Document' \in Documents
  BY <1>1, <1>2 DEF IInv, TypeOK, Document, Documents
<1>4. Document[2] = drawn /\ (Document')[2] = drawn'
  BY DEF Document
<1>5. c \in Command /\ after \in Documents /\ <<c, Document, after>> \in DrawnSteps
  BY <1>1, FutureMadeAgain DEF History, Redo, IInv, TypeOK
<1>6. /\ c.what = "link" => MakeLink(c, c.after, row) /\ done' = Append(done, c)
      /\ c.what # "link" => DeleteItems(c) /\ done' = Append(done, again)
  BY DEF Redo
<1> HIDE DEF c, after, Document
<1>7. DrawnStep(c, drawn, after[2])
  BY <1>3, <1>4, <1>5, DrawnStepsAre
<1> DEFINE Made(d) == /\ d \in Command /\ done' = Append(done, d)
                      /\ DrawnStep(d, drawn, drawn')
<1>8. drawn' = after[2] /\ \E d : Made(d)
  <2>1. CASE c.what = "link"
    <3>1. drawn' = after[2] /\ done' = Append(done, c)
      BY <1>6, <1>7, <2>1 DEF DrawnStep, MakeLink
    <3>2. Made(c)
      BY <3>1, <1>5, <1>7
    <3> QED
      BY <3>1, <3>2
  <2>2. CASE c.what # "link"
    <3>1. c \in [what : {"delete"}, items : SUBSET Elements, held : [Elements -> SUBSET Elements]]
      BY <1>5, <2>2 DEF Command
    <3>2. drawn' = after[2] /\ done' = Append(done, again)
      BY <1>6, <1>7, <2>2, <3>1 DEF DrawnStep, DeleteItems
    <3>3. Held(c) \in [Elements -> SUBSET Elements]
      BY <3>1, <1>1 DEF Held, IInv, Sound
    <3>4. again \in Command /\ again.what = "delete" /\ again.items = c.items
      BY <3>1, <3>3 DEF Command
    <3> HIDE DEF again
    <3>5. Made(again)
      BY <3>1, <3>2, <3>4, <1>7 DEF DrawnStep
    <3> QED
      BY <3>2, <3>5
  <2> QED
    BY <2>1, <2>2
<1>9. PICK d : Made(d)
  BY <1>8
<1>10. <<d, Document, Document'>> \in DrawnSteps
  BY <1>3, <1>4, <1>9, DrawnStepsAre
<1>11. Alike(DrawnSteps, Head(future), Document')
  <2>1. Alike(DrawnSteps, after, Document')
    BY <1>3, <1>4, <1>5, <1>8, SameScene
  <2> QED
    BY <2>1 DEF after
<1>12. History(DrawnSteps)'
  <2>1. d \in Command /\ done' = Append(done, d)
    BY <1>9
  <2> QED
    BY <2>1, <1>1, <1>3, <1>10, <1>11, RedoneHistory
<1> QED
  BY <1>2, <1>5, <1>7, <1>8, <1>12 DEF DInv, c, after

LEMMA AutoLinkScene ==
    ASSUME DInv, AutoLink
    PROVE  DInv'
<1>1. IInv /\ History(DrawnSteps)
  BY DEF DInv
<1>2. IInv'
  BY <1>1, AutoLinkKeeps
<1>3. Document \in Documents /\ Document' \in Documents
  BY <1>1, <1>2 DEF IInv, TypeOK, Document, Documents
<1>4. drawn' = drawn /\ UNCHANGED <<done, undone, past, future>>
  BY DEF AutoLink, stack
<1>5. Document[2] = (Document')[2]
  BY <1>4 DEF Document
<1>6. Alike(DrawnSteps, Document, Document')
  BY <1>3, <1>5, SameScene
<1>7. /\ PastIn(DrawnSteps, done, past, Document')
      /\ FutureIn(DrawnSteps, undone, future, Document')
  BY <1>1, <1>6, PastAlike, FutureAlike DEF History
<1> HIDE DEF Document
<1>8. History(DrawnSteps)'
  BY <1>1, <1>4, <1>7 DEF History
<1> QED
  BY <1>2, <1>8 DEF DInv

LEMMA ElementsAreThere == Spec => []DInv
<1>1. Init => DInv
  <2> SUFFICES ASSUME Init PROVE DInv
    OBVIOUS
  <2>1. past = << >> /\ future = << >> /\ done = << >> /\ undone = << >>
    BY DEF Init
  <2>2. History(DrawnSteps)
    BY <2>1, EmptySeq DEF History, PastIn, FutureIn
  <2> QED
    BY <2>2, InitIsSound DEF DInv
<1>2. DInv /\ [Next]_vars => DInv'
  <2> SUFFICES ASSUME DInv, [Next]_vars PROVE DInv'
    OBVIOUS
  <2>1. IInv /\ IInv'
    BY NextKeeps DEF DInv
  <2>2. CASE \E c : Proper(c) /\ PushLink(c)
    BY <2>2, PushLinkScene
  <2>3. CASE \E items \in Removals : Delete(items)
    BY <2>3, DeleteScene
  <2>4. CASE Undo
    BY <2>4, UndoScene
  <2>5. CASE Redo
    BY <2>5, RedoScene
  <2>6. CASE AutoLink
    BY <2>6, AutoLinkScene
  <2>7. CASE SetClean \/ UNCHANGED vars
    <3>1. UNCHANGED <<linked, drawn, done, undone, past, future>>
      BY <2>7 DEF SetClean, vars, stack
    <3> QED
      BY <3>1, <2>1 DEF DInv, History, Document
  <2> QED
    BY <2>1, <2>2, <2>3, <2>4, <2>5, <2>6, <2>7, StepsAre
<1> QED
  BY <1>1, <1>2, PTL DEF Spec

-----------------------------------------------------------------------------
(* Links to deleted elements.  The commands done and undone are one line,   *)
(* along which undo and redo only move: a link to an element that is not on *)
(* a folio was chosen by a command before, and so was each such link that a *)
(* command of the line would restore.                                       *)

CmdAt(i) == IF i <= Len(done) THEN done[i] ELSE undone[i - Len(done)]

SceneAt(i) == IF i <= Len(done) THEN past[i][2]
              ELSE IF i = Len(done) + 1 THEN drawn ELSE future[i - Len(done) - 1][2]

Chose(c, scene, e, x) ==
    c.what = "link" /\ c.of = e /\ x \in c.after /\ x \notin scene

ChosenBefore(n, e, x) == \E j \in 1..(n - 1) : Chose(CmdAt(j), SceneAt(j), e, x)

\* The partners a command gives e when it is undone
Restored(c, e) == IF c.what = "link" THEN IF e = c.of THEN c.before ELSE {}
                  ELSE c.held[e]

LinksChosen ==
    \A e \in Elements : \A x \in linked[e] : x \in drawn \/ ChosenBefore(Len(done) + 1, e, x)

CommandChosen(i) ==
    \A e \in Elements : \A x \in Restored(CmdAt(i), e) : x \in SceneAt(i) \/ ChosenBefore(i, e, x)

CInv ==
    /\ DInv
    /\ LinksChosen
    /\ \A i \in 1..(Len(done) + Len(undone)) : CommandChosen(i)

LEMMA LineIsTyped ==
    ASSUME DInv
    PROVE  /\ done \in Seq(Command) /\ undone \in Seq(Command)
           /\ past \in Seq(Documents) /\ future \in Seq(Documents)
           /\ Len(done) \in Nat /\ Len(undone) \in Nat
           /\ Len(past) = Len(done) /\ Len(future) = Len(undone)
<1>1. done \in Seq(Command) /\ undone \in Seq(Command)
  BY DEF DInv, IInv, TypeOK
<1>2. past \in Seq(Documents) /\ future \in Seq(Documents)
  BY DEF DInv, History
<1>3. Len(past) = Len(done) /\ Len(future) = Len(undone)
  BY DEF DInv, History, PastIn, FutureIn
<1> QED
  BY <1>1, <1>2, <1>3, LenProperties

LEMMA LineIsPushed ==
    ASSUME DInv, NEW c \in Command, Pushed(c), ~MergesInto(c), NEW n, n = Len(done)
    PROVE  /\ Len(done)' = n + 1 /\ Len(undone)' = 0
           /\ \A i \in 1..n : CmdAt(i)' = CmdAt(i) /\ SceneAt(i)' = SceneAt(i)
           /\ CmdAt(n + 1)' = c /\ SceneAt(n + 1)' = drawn
<1>1. done' = Append(done, c) /\ past' = Append(past, Document) /\ undone' = << >>
  BY DEF Pushed
<1>2. n \in Nat /\ Len(past) = n /\ done \in Seq(Command) /\ past \in Seq(Documents)
  BY LineIsTyped
<1>3. Document \in Documents /\ Document[2] = drawn
  BY DocumentIsTyped DEF DInv, Document
<1> HIDE DEF Document
<1>4. Len(done') = n + 1 /\ done'[n + 1] = c /\ \A i \in 1..n : done'[i] = done[i]
  BY <1>1, <1>2, AppendProperties
<1>5. past'[n + 1] = Document /\ \A i \in 1..n : past'[i] = past[i]
  BY <1>1, <1>2, <1>3, AppendProperties
<1>6. Len(undone') = 0
  BY <1>1
<1>7. ASSUME NEW i \in 1..n PROVE CmdAt(i)' = CmdAt(i) /\ SceneAt(i)' = SceneAt(i)
  <2>1. i <= n /\ i <= n + 1
    BY <1>2
  <2> QED
    BY <2>1, <1>4, <1>5 DEF CmdAt, SceneAt
<1>8. CmdAt(n + 1)' = c /\ SceneAt(n + 1)' = drawn
  <2>1. n + 1 <= Len(done')
    BY <1>2, <1>4
  <2> QED
    BY <2>1, <1>3, <1>4, <1>5 DEF CmdAt, SceneAt
<1> QED
  BY <1>4, <1>6, <1>7, <1>8

LEMMA LineIsMerged ==
    ASSUME DInv, NEW c \in Command, Pushed(c), MergesInto(c), NEW n, n = Len(done)
    PROVE  /\ n \in Nat \ {0}
           /\ Len(done)' = n /\ Len(undone)' = 0
           /\ \A i \in 1..(n - 1) : CmdAt(i)' = CmdAt(i)
           /\ \A i \in 1..n : SceneAt(i)' = SceneAt(i)
           /\ SceneAt(n) = Last(past)[2]
           /\ CmdAt(n) = Last(done) /\ Last(done) \in Command
           /\ CmdAt(n)' = [Last(done) EXCEPT !.after = c.after]
<1> DEFINE f == Front(done)
           d == [Last(done) EXCEPT !.after = c.after]
<1>1. done' = Append(f, d) /\ past' = past /\ undone' = << >>
  BY DEF Pushed
<1>2. n \in Nat \ {0} /\ Len(past) = n /\ done \in Seq(Command) /\ past \in Seq(Documents)
  BY LineIsTyped, EmptySeq DEF MergesInto
<1>3. Last(done) = done[n] /\ Last(past) = past[n] /\ Last(done) \in Command
  BY <1>2, ElementOfSeq DEF Last
<1>4. Last(done).what = "link" /\ c.what = "link"
  BY DEF MergesInto
<1>5. d \in Command
  BY <1>3, <1>4 DEF Command
<1>6. f \in Seq(Command) /\ Len(f) = n - 1 /\ \A i \in 1..(n - 1) : f[i] = done[i]
  <2>1. \A i \in 1..(n - 1) : done[i] \in Command
    BY <1>2, ElementOfSeq
  <2>2. f = SubSeq(done, 1, n - 1)
    BY DEF Front
  <2> HIDE DEF f
  <2> QED
    BY <1>2, <2>1, <2>2, SubSeqProperties
<1> HIDE DEF d, f
<1>7. Len(done') = n /\ done'[n] = d /\ \A i \in 1..(n - 1) : done'[i] = done[i]
  BY <1>1, <1>2, <1>5, <1>6, AppendProperties
<1>8. Len(undone') = 0
  BY <1>1
<1>9. ASSUME NEW i \in 1..(n - 1) PROVE CmdAt(i)' = CmdAt(i)
  <2>1. i <= n
    BY <1>2
  <2> QED
    BY <2>1, <1>7 DEF CmdAt
<1>10. ASSUME NEW i \in 1..n PROVE SceneAt(i)' = SceneAt(i)
  <2>1. i <= n
    BY <1>2
  <2> QED
    BY <2>1, <1>1, <1>7 DEF SceneAt
<1>11. SceneAt(n) = Last(past)[2] /\ CmdAt(n) = Last(done) /\ CmdAt(n)' = d
  <2>1. n <= Len(done) /\ n <= Len(done')
    BY <1>2, <1>7
  <2> QED
    BY <2>1, <1>3, <1>7 DEF SceneAt, CmdAt
<1> QED
  BY <1>2, <1>3, <1>7, <1>8, <1>9, <1>10, <1>11 DEF d

LEMMA LineIsUndone ==
    ASSUME DInv, Undo, NEW n, n = Len(done), NEW k, k = Len(undone)
    PROVE  /\ n \in Nat \ {0} /\ k \in Nat
           /\ Len(done)' = n - 1 /\ Len(undone)' = k + 1
           /\ \A i \in 1..(n + k) : CmdAt(i)' = CmdAt(i) /\ SceneAt(i)' = SceneAt(i)
           /\ CmdAt(n) = Last(done) /\ SceneAt(n) = Last(past)[2]
<1> DEFINE c == Last(done)
<1>1. /\ done # << >> /\ done' = Front(done) /\ past' = Front(past)
      /\ undone' = <<c>> \o undone /\ future' = <<Document>> \o future
  BY DEF Undo
<1>2. /\ done \in Seq(Command) /\ undone \in Seq(Command)
      /\ past \in Seq(Documents) /\ future \in Seq(Documents)
      /\ n \in Nat \ {0} /\ k \in Nat /\ Len(past) = n /\ Len(future) = k
  BY <1>1, LineIsTyped, EmptySeq
<1>3. c = done[n] /\ Last(past) = past[n] /\ c \in Command
  BY <1>2, ElementOfSeq DEF Last
<1>4. Document \in Documents /\ Document[2] = drawn
  BY DocumentIsTyped DEF DInv, Document
<1>5. drawn' = past[n][2]
  BY <1>3, UndoScene
<1>6. Len(done') = n - 1 /\ \A i \in 1..(n - 1) : done'[i] = done[i]
  <2>1. \A i \in 1..(n - 1) : done[i] \in Command
    BY <1>2, ElementOfSeq
  <2>2. done' = SubSeq(done, 1, n - 1)
    BY <1>1 DEF Front
  <2> QED
    BY <1>2, <2>1, <2>2, SubSeqProperties
<1>7. \A i \in 1..(n - 1) : past'[i] = past[i]
  <2>1. \A i \in 1..(n - 1) : past[i] \in Documents
    BY <1>2, ElementOfSeq
  <2>2. past' = SubSeq(past, 1, n - 1)
    BY <1>1, <1>2 DEF Front
  <2> QED
    BY <1>2, <2>1, <2>2, SubSeqProperties
<1> HIDE DEF c, Document
<1>8. /\ Len(undone') = 1 + k /\ undone'[1] = c
      /\ \A i \in 2..(1 + k) : undone'[i] = undone[i - 1]
  <2>1. <<c>> \in Seq(Command) /\ Len(<<c>>) = 1 /\ <<c>>[1] = c
    BY <1>3
  <2>2. /\ Len(<<c>> \o undone) = 1 + Len(undone)
        /\ \A i \in 1..(1 + Len(undone)) :
                (<<c>> \o undone)[i] = IF i <= 1 THEN <<c>>[i] ELSE undone[i - 1]
    BY <1>2, <2>1, ConcatProperties
  <2> QED
    BY <1>1, <1>2, <2>1, <2>2
<1>9. future'[1] = Document /\ \A i \in 2..(1 + k) : future'[i] = future[i - 1]
  <2>1. <<Document>> \in Seq(Documents) /\ Len(<<Document>>) = 1 /\ <<Document>>[1] = Document
    BY <1>4
  <2>2. \A i \in 1..(1 + Len(future)) :
                (<<Document>> \o future)[i] = IF i <= 1 THEN <<Document>>[i] ELSE future[i - 1]
    BY <1>2, <2>1, ConcatProperties
  <2> QED
    BY <1>1, <1>2, <2>1, <2>2
<1>10. ASSUME NEW i \in 1..(n + k) PROVE CmdAt(i)' = CmdAt(i) /\ SceneAt(i)' = SceneAt(i)
  <2>1. /\ CmdAt(i) = IF i <= n THEN done[i] ELSE undone[i - n]
        /\ CmdAt(i)' = IF i <= n - 1 THEN done'[i] ELSE undone'[i - (n - 1)]
    BY <1>6 DEF CmdAt
  <2>2. /\ SceneAt(i) = IF i <= n THEN past[i][2]
                        ELSE IF i = n + 1 THEN drawn ELSE future[i - n - 1][2]
        /\ SceneAt(i)' = IF i <= n - 1 THEN past'[i][2]
                         ELSE IF i = (n - 1) + 1 THEN drawn' ELSE future'[i - (n - 1) - 1][2]
    BY <1>6 DEF SceneAt
  <2>3. CASE i <= n - 1
    <3>1. i \in 1..(n - 1) /\ i <= n
      BY <2>3, <1>2
    <3> QED
      BY <2>1, <2>2, <2>3, <3>1, <1>6, <1>7
  <2>4. CASE i = n
    <3>1. i - (n - 1) = 1 /\ ~(i <= n - 1) /\ i <= n /\ i = (n - 1) + 1
      BY <2>4, <1>2
    <3> QED
      BY <2>1, <2>2, <2>4, <3>1, <1>3, <1>5, <1>8
  <2>5. CASE i > n
    <3>1. /\ i - (n - 1) \in 2..(1 + k) /\ (i - (n - 1)) - 1 = i - n
          /\ ~(i <= n - 1) /\ ~(i <= n) /\ i # (n - 1) + 1
      BY <2>5, <1>2
    <3>2. CmdAt(i)' = CmdAt(i)
      BY <2>1, <3>1, <1>8
    <3>3. i - (n - 1) - 1 = i - n
      BY <1>2
    <3>4. CASE i = n + 1
      <4>1. i - (n - 1) - 1 = 1
        BY <3>4, <1>2
      <4> QED
        BY <2>2, <3>1, <3>2, <3>4, <4>1, <1>4, <1>9
    <3>5. CASE i # n + 1
      <4>1. i - n \in 2..(1 + k) /\ (i - n) - 1 = i - n - 1
        BY <2>5, <3>5, <1>2
      <4> QED
        BY <2>2, <3>1, <3>2, <3>3, <3>5, <4>1, <1>9
    <3> QED
      BY <3>4, <3>5
  <2> QED
    BY <2>3, <2>4, <2>5, <1>2
<1>11. CmdAt(n) = c /\ SceneAt(n) = Last(past)[2]
  BY <1>2, <1>3 DEF CmdAt, SceneAt
<1> QED
  BY <1>2, <1>6, <1>8, <1>10, <1>11 DEF c

LEMMA LineIsRedone ==
    ASSUME DInv, Redo, NEW d \in Command, done' = Append(done, d),
           NEW n, n = Len(done), NEW k, k = Len(undone)
    PROVE  /\ n \in Nat /\ k \in Nat \ {0}
           /\ Len(done)' = n + 1 /\ Len(undone)' = k - 1
           /\ \A i \in 1..(n + k) : /\ i # n + 1 => CmdAt(i)' = CmdAt(i)
                                    /\ SceneAt(i)' = SceneAt(i)
           /\ CmdAt(n + 1) = Head(undone) /\ CmdAt(n + 1)' = d
           /\ SceneAt(n + 1) = drawn
<1>1. /\ undone # << >> /\ past' = Append(past, Document)
      /\ undone' = Tail(undone) /\ future' = Tail(future)
  BY DEF Redo
<1>2. /\ done \in Seq(Command) /\ undone \in Seq(Command)
      /\ past \in Seq(Documents) /\ future \in Seq(Documents)
      /\ n \in Nat /\ k \in Nat \ {0} /\ Len(past) = n /\ Len(future) = k
  BY <1>1, LineIsTyped, EmptySeq
<1>3. Document \in Documents /\ Document[2] = drawn
  BY DocumentIsTyped DEF DInv, Document
<1>4. future # << >> /\ Head(undone) = undone[1] /\ Head(future) = future[1]
  BY <1>2, EmptySeq
<1>5. drawn' = future[1][2]
  BY <1>4, RedoScene
<1> HIDE DEF Document
<1>6. Len(done') = n + 1 /\ done'[n + 1] = d /\ \A i \in 1..n : done'[i] = done[i]
  BY <1>2, AppendProperties
<1>7. past'[n + 1] = Document /\ \A i \in 1..n : past'[i] = past[i]
  BY <1>1, <1>2, <1>3, AppendProperties
<1>8. Len(undone') = k - 1 /\ \A i \in 1..(k - 1) : undone'[i] = undone[i + 1]
  BY <1>1, <1>2, HeadTailProperties
<1>9. \A i \in 1..(k - 1) : future'[i] = future[i + 1]
  BY <1>1, <1>2, <1>4, HeadTailProperties
<1>10. ASSUME NEW i \in 1..(n + k)
       PROVE  (i # n + 1 => CmdAt(i)' = CmdAt(i)) /\ SceneAt(i)' = SceneAt(i)
  <2>1. /\ CmdAt(i) = IF i <= n THEN done[i] ELSE undone[i - n]
        /\ CmdAt(i)' = IF i <= n + 1 THEN done'[i] ELSE undone'[i - (n + 1)]
    BY <1>6 DEF CmdAt
  <2>2. /\ SceneAt(i) = IF i <= n THEN past[i][2]
                        ELSE IF i = n + 1 THEN drawn ELSE future[i - n - 1][2]
        /\ SceneAt(i)' = IF i <= n + 1 THEN past'[i][2]
                         ELSE IF i = (n + 1) + 1 THEN drawn' ELSE future'[i - (n + 1) - 1][2]
    BY <1>6 DEF SceneAt
  <2>3. CASE i <= n
    <3>1. i \in 1..n /\ i <= n + 1
      BY <2>3, <1>2
    <3> QED
      BY <2>1, <2>2, <2>3, <3>1, <1>6, <1>7
  <2>4. CASE i = n + 1
    <3>1. ~(i <= n) /\ i <= n + 1
      BY <2>4, <1>2
    <3> QED
      BY <2>2, <2>4, <3>1, <1>3, <1>7
  <2>5. CASE i > n + 1
    <3>1. /\ i - (n + 1) \in 1..(k - 1) /\ (i - (n + 1)) + 1 = i - n
          /\ ~(i <= n) /\ ~(i <= n + 1) /\ i # n + 1
      BY <2>5, <1>2
    <3>2. CmdAt(i)' = CmdAt(i)
      BY <2>1, <3>1, <1>8
    <3>3. CASE i = (n + 1) + 1
      <4>1. i - n - 1 = 1
        BY <3>3, <1>2
      <4> QED
        BY <2>2, <3>1, <3>2, <3>3, <4>1, <1>5
    <3>4. CASE i # (n + 1) + 1
      <4>1. i - (n + 1) - 1 \in 1..(k - 1) /\ (i - (n + 1) - 1) + 1 = i - n - 1
        BY <2>5, <3>4, <1>2
      <4> QED
        BY <2>2, <3>1, <3>2, <3>4, <4>1, <1>9
    <3> QED
      BY <3>3, <3>4
  <2> QED
    BY <2>3, <2>4, <2>5, <1>2
<1>11. CmdAt(n + 1) = Head(undone) /\ CmdAt(n + 1)' = d /\ SceneAt(n + 1) = drawn
  <2>1. ~(n + 1 <= n) /\ (n + 1) - n = 1 /\ n + 1 <= Len(done')
    BY <1>2, <1>6
  <2> QED
    BY <2>1, <1>4, <1>6 DEF CmdAt, SceneAt
<1> QED
  BY <1>2, <1>6, <1>8, <1>10, <1>11


LEMMA FreedLinks ==
    ASSUME NEW links, Sound(links), NEW some \in SUBSET Elements, NEW e \in Elements
    PROVE  Freed(links, some)[e] \subseteq links[e] \ some
BY DEF Sound, Freed

LEMMA JoinedLinks ==
    ASSUME NEW links, Sound(links), NEW pairs \in SUBSET (Elements \X Elements),
           NEW e \in Elements, NEW x \in Joined(links, pairs)[e]
    PROVE  x \in links[e] \/ <<e, x>> \in pairs \/ <<x, e>> \in pairs
<1> DEFINE new == {p \in pairs : Fits(p[1], p[2]) /\ p[2] \notin links[p[1]]}
           moving == {y \in Elements : ~IsMaster(y) /\ Partners(new, y) # {}}
<1>1. x \in Freed(links, moving)[e] \/ x \in Partners(new, e)
  BY DEF Joined
<1>2. CASE x \in Freed(links, moving)[e]
  <2> HIDE DEF moving
  <2>1. moving \in SUBSET Elements
    BY DEF moving
  <2> QED
    BY <2>1, <1>2, FreedLinks
<1>3. CASE x \in Partners(new, e)
  BY <1>3 DEF Partners
<1> QED
  BY <1>1, <1>2, <1>3

LEMMA MadeLinksAre ==
    ASSUME Sound(linked), NEW e \in Elements, NEW list \in SUBSET Elements,
           NEW y \in Elements, NEW x \in MadeLinks(e, list)[y]
    PROVE  (y = e => x \in list) /\ (y # e => x \in linked[y] \/ x = e)
<1> DEFINE joined == Joined(linked, {e} \X list)
<1>1. CASE list = {}
  <2>1. x \in linked[y] \ {e}
    BY <1>1, FreedLinks DEF MadeLinks
  <2>2. y # e
    BY <1>1 DEF MadeLinks, Freed
  <2> QED
    BY <2>1, <2>2
<1>2. CASE list # {}
  <2> HIDE DEF joined
  <2>1. x \in Unlinked(joined, e, joined[e] \ list)[y]
    BY <1>2 DEF MadeLinks, joined
  <2>2. CASE y = e
    BY <2>1, <2>2 DEF Unlinked
  <2>3. CASE y # e
    <3>1. x \in joined[y]
      BY <2>1, <2>3 DEF Unlinked
    <3>2. {e} \X list \in SUBSET (Elements \X Elements)
      OBVIOUS
    <3>3. x \in linked[y] \/ <<y, x>> \in {e} \X list \/ <<x, y>> \in {e} \X list
      BY <3>1, <3>2, JoinedLinks DEF joined
    <3> QED
      BY <3>3, <2>3
  <2> QED
    BY <2>2, <2>3
<1> QED
  BY <1>1, <1>2

LEMMA MadeLinksChosen ==
    ASSUME DInv, LinksChosen, NEW n, n = Len(done), NEW e \in drawn, NEW list \in SUBSET Elements,
           linked' = MadeLinks(e, list),
           NEW y \in Elements, NEW x \in linked'[y]
    PROVE  \/ x \in drawn
           \/ y = e /\ x \in list
           \/ y # e /\ ChosenBefore(n + 1, y, x)
<1>1. Sound(linked) /\ e \in Elements
  BY DEF DInv, IInv, TypeOK
<1>2. (y = e => x \in list) /\ (y # e => x \in linked[y] \/ x = e)
  BY <1>1, MadeLinksAre
<1>3. x \in linked[y] => x \in drawn \/ ChosenBefore(n + 1, y, x)
  BY DEF LinksChosen
<1> QED
  BY <1>2, <1>3

LEMMA ChosenStays ==
    ASSUME NEW m \in Nat,
           \A j \in 1..m : \A e, x : Chose(CmdAt(j), SceneAt(j), e, x)
                                     => Chose(CmdAt(j), SceneAt(j), e, x)'
    PROVE  \A i \in 1..(m + 1) : \A e, x : ChosenBefore(i, e, x) => ChosenBefore(i, e, x)'
<1> SUFFICES ASSUME NEW i \in 1..(m + 1), NEW e, NEW x, ChosenBefore(i, e, x)
             PROVE  ChosenBefore(i, e, x)'
  OBVIOUS
<1>1. PICK j \in 1..(i - 1) : Chose(CmdAt(j), SceneAt(j), e, x)
  BY DEF ChosenBefore
<1>2. j \in 1..m
  OBVIOUS
<1>3. Chose(CmdAt(j), SceneAt(j), e, x)'
  BY <1>1, <1>2
<1> QED
  BY <1>3 DEF ChosenBefore

LEMMA CommandStaysChosen ==
    ASSUME NEW i, CommandChosen(i), CmdAt(i)' = CmdAt(i), SceneAt(i)' = SceneAt(i),
           \A e, x : ChosenBefore(i, e, x) => ChosenBefore(i, e, x)'
    PROVE  CommandChosen(i)'
BY DEF CommandChosen

LEMMA NextIsChosen ==
    ASSUME DInv', NEW n, Len(done)' = n, NEW k, Len(undone)' = k,
           \A e \in Elements : \A x \in linked'[e] : x \in drawn' \/ ChosenBefore(n + 1, e, x)',
           \A i \in 1..(n + k) : CommandChosen(i)'
    PROVE  CInv'
<1>1. LinksChosen'
  BY DEF LinksChosen, ChosenBefore
<1>2. \A i \in 1..(Len(done)' + Len(undone)') : CommandChosen(i)'
  OBVIOUS
<1> QED
  BY <1>1, <1>2 DEF CInv

LEMMA PushedIsChosen ==
    ASSUME CInv, DInv', NEW c \in Command, Pushed(c), ~MergesInto(c), NEW n, n = Len(done),
           \A e \in Elements : Restored(c, e) \subseteq linked[e],
           \A e \in Elements : \A x \in linked'[e] :
                x \in drawn' \/ Chose(c, drawn, e, x) \/ ChosenBefore(n + 1, e, x)
    PROVE  CInv'
<1>1. DInv /\ LinksChosen /\ n \in Nat /\ Len(undone) \in Nat
  BY LineIsTyped DEF CInv
<1>2. /\ Len(done)' = n + 1 /\ Len(undone)' = 0
      /\ \A i \in 1..n : CmdAt(i)' = CmdAt(i) /\ SceneAt(i)' = SceneAt(i)
      /\ CmdAt(n + 1)' = c /\ SceneAt(n + 1)' = drawn
  BY <1>1, LineIsPushed
<1>3. \A i \in 1..(n + 1) : \A e, x : ChosenBefore(i, e, x) => ChosenBefore(i, e, x)'
  <2>1. \A j \in 1..n : \A e, x : Chose(CmdAt(j), SceneAt(j), e, x)
                                  => Chose(CmdAt(j), SceneAt(j), e, x)'
    BY <1>2 DEF Chose
  <2> QED
    BY <2>1, <1>1, ChosenStays
<1>4. ASSUME NEW i \in 1..n PROVE CommandChosen(i)'
  <2>1. CommandChosen(i) /\ i \in 1..(n + 1)
    BY <1>1 DEF CInv
  <2> QED
    BY <2>1, <1>2, <1>3, CommandStaysChosen
<1>5. CommandChosen(n + 1)'
  <2>1. ASSUME NEW e \in Elements, NEW x \in Restored(c, e)
        PROVE  x \in drawn \/ ChosenBefore(n + 1, e, x)'
    <3>1. x \in drawn \/ ChosenBefore(n + 1, e, x)
      BY <2>1, <1>1 DEF LinksChosen
    <3>2. n + 1 \in 1..(n + 1)
      BY <1>1
    <3> QED
      BY <3>1, <3>2, <1>3
  <2> QED
    BY <2>1, <1>2 DEF CommandChosen
<1>6. ASSUME NEW e \in Elements, NEW x \in linked'[e]
      PROVE  x \in drawn' \/ ChosenBefore((n + 1) + 1, e, x)'
  <2>1. CASE Chose(c, drawn, e, x)
    <3>1. Chose(CmdAt(n + 1), SceneAt(n + 1), e, x)'
      BY <2>1, <1>2 DEF Chose
    <3>2. n + 1 \in 1..((n + 1) + 1 - 1)
      BY <1>1
    <3> QED
      BY <3>1, <3>2 DEF ChosenBefore
  <2>2. CASE ChosenBefore(n + 1, e, x)
    <3>1. n + 1 \in 1..(n + 1) /\ 1..((n + 1) - 1) \subseteq 1..((n + 1) + 1 - 1)
      BY <1>1
    <3>2. ChosenBefore(n + 1, e, x)'
      BY <2>2, <3>1, <1>3
    <3> QED
      BY <3>1, <3>2 DEF ChosenBefore
  <2> QED
    BY <2>1, <2>2
<1>7. \A i \in 1..((n + 1) + 0) : CommandChosen(i)'
  BY <1>1, <1>4, <1>5
<1> QED
  BY <1>2, <1>6, <1>7, NextIsChosen

LEMMA PushLinkChosen ==
    ASSUME CInv, NEW c, Proper(c), PushLink(c)
    PROVE  CInv'
<1>1. DInv /\ LinksChosen
  BY DEF CInv
<1>2. /\ DInv' /\ (MergesInto(c) => Last(past)[2] = drawn)
  BY <1>1, PushLinkScene
<1>3. /\ c \in Command /\ c.what = "link" /\ c.of \in drawn /\ c.of \in Elements
      /\ c.before = linked[c.of] /\ c.after \in SUBSET Elements
  BY DEF Proper, SoundCommand, Command
<1>4. linked' = MadeLinks(c.of, c.after) /\ drawn' = drawn /\ Pushed(c)
  BY DEF PushLink, MakeLink
<1>5. PICK n : n = Len(done)
  OBVIOUS
<1>6. ASSUME NEW e \in Elements, NEW x \in linked'[e]
      PROVE  \/ x \in drawn
             \/ e = c.of /\ x \in c.after
             \/ e # c.of /\ ChosenBefore(n + 1, e, x)
  BY <1>1, <1>3, <1>4, <1>5, <1>6, MadeLinksChosen
<1>7. CASE ~MergesInto(c)
  <2>1. \A e \in Elements : Restored(c, e) \subseteq linked[e]
    BY <1>3 DEF Restored
  <2>2. \A e \in Elements : \A x \in linked'[e] :
            x \in drawn' \/ Chose(c, drawn, e, x) \/ ChosenBefore(n + 1, e, x)
    BY <1>3, <1>4, <1>6 DEF Chose
  <2> QED
    BY <2>1, <2>2, <1>2, <1>3, <1>4, <1>5, <1>7, PushedIsChosen
<1>8. CASE MergesInto(c)
  <2> DEFINE d == [Last(done) EXCEPT !.after = c.after]
  <2>1. /\ n \in Nat \ {0}
        /\ Len(done)' = n /\ Len(undone)' = 0
        /\ \A i \in 1..(n - 1) : CmdAt(i)' = CmdAt(i)
        /\ \A i \in 1..n : SceneAt(i)' = SceneAt(i)
        /\ SceneAt(n) = Last(past)[2]
        /\ CmdAt(n) = Last(done) /\ Last(done) \in Command
        /\ CmdAt(n)' = d
    BY <1>1, <1>3, <1>4, <1>5, <1>8, LineIsMerged
  <2>2. /\ Last(done).what = "link" /\ Last(done).of = c.of
        /\ d.what = "link" /\ d.of = c.of /\ d.before = Last(done).before /\ d.after = c.after
    BY <1>8, <2>1 DEF MergesInto, Command
  <2> HIDE DEF d
  <2>3. \A i \in 1..n : \A e, x : ChosenBefore(i, e, x) => ChosenBefore(i, e, x)'
    <3>1. n - 1 \in Nat /\ (n - 1) + 1 = n
      BY <2>1
    <3>2. \A j \in 1..(n - 1) : \A e, x : Chose(CmdAt(j), SceneAt(j), e, x)
                                          => Chose(CmdAt(j), SceneAt(j), e, x)'
      BY <2>1 DEF Chose
    <3> QED
      BY ONLY <3>1, <3>2, ChosenStays
  <2>4. ASSUME NEW i \in 1..(n - 1) PROVE CommandChosen(i)'
    <3>1. CommandChosen(i) /\ i \in 1..n
      BY <2>1, <1>5, LineIsTyped, <1>1 DEF CInv
    <3> QED
      BY <3>1, <2>1, <2>3, CommandStaysChosen
  <2>5. CommandChosen(n)'
    <3>1. CommandChosen(n) /\ n \in 1..n
      BY <2>1, <1>5, LineIsTyped, <1>1 DEF CInv
    <3>2. \A e : Restored(d, e) = Restored(CmdAt(n), e)
      BY <2>1, <2>2 DEF Restored
    <3>3. SceneAt(n)' = SceneAt(n)
      BY <2>1
    <3> QED
      BY <3>1, <3>2, <3>3, <2>1, <2>3 DEF CommandChosen
  <2>6. ASSUME NEW e \in Elements, NEW x \in linked'[e]
        PROVE  x \in drawn' \/ ChosenBefore(n + 1, e, x)'
    <3>1. CASE x \in drawn
      BY <3>1, <1>4
    <3>2. CASE e = c.of /\ x \in c.after /\ x \notin drawn
      <4>1. SceneAt(n)' = drawn
        BY <2>1, <1>2, <1>8
      <4>2. Chose(CmdAt(n), SceneAt(n), e, x)'
        BY <3>2, <4>1, <2>1, <2>2 DEF Chose
      <4>3. n \in 1..(n + 1 - 1)
        BY <2>1
      <4> QED
        BY <4>2, <4>3 DEF ChosenBefore
    <3>3. CASE e # c.of /\ ChosenBefore(n + 1, e, x)
      <4>1. PICK j \in 1..(n + 1 - 1) : Chose(CmdAt(j), SceneAt(j), e, x)
        BY <3>3, <2>1 DEF ChosenBefore
      <4>2. j # n
        BY <4>1, <3>3, <2>1, <2>2 DEF Chose
      <4>3. j \in 1..(n - 1) /\ j \in 1..n
        BY <4>1, <4>2, <2>1
      <4>4. Chose(CmdAt(j), SceneAt(j), e, x)'
        BY <4>1, <4>3, <2>1 DEF Chose
      <4> QED
        BY <4>1, <4>4, <2>1 DEF ChosenBefore
    <3> QED
      BY <3>1, <3>2, <3>3, <1>6, <2>6
  <2>7. \A i \in 1..(n + 0) : CommandChosen(i)'
    BY <2>1, <2>4, <2>5
  <2> QED
    BY <2>1, <2>6, <2>7, <1>2, NextIsChosen
<1> QED
  BY <1>7, <1>8

LEMMA DeleteChosen ==
    ASSUME CInv, NEW items \in Removals, Delete(items)
    PROVE  CInv'
<1> DEFINE c == [what |-> "delete", items |-> items,
                 held |-> [e \in Elements |-> IF e \in items THEN linked[e] ELSE {}]]
<1>1. DInv /\ DInv' /\ LinksChosen /\ Sound(linked)
  BY DeleteScene DEF CInv, DInv, IInv
<1>2. items \in SUBSET Elements /\ DeleteItems(c) /\ Pushed(c)
  <2>1. items \in SUBSET Elements
    OBVIOUS
  <2> QED
    BY <2>1 DEF Delete
<1>3. c \in Command /\ c.what = "delete" /\ c.items = items
  BY <1>1, <1>2 DEF Command, Sound
<1>4. \A e \in Elements : Restored(c, e) \subseteq linked[e]
  BY <1>3 DEF Restored
<1> HIDE DEF c
<1>5. drawn' = drawn \ items /\ linked' = Freed(linked, items)
  BY <1>2, <1>3 DEF DeleteItems
<1>6. ~MergesInto(c)
  BY <1>3 DEF MergesInto
<1>7. PICK n : n = Len(done)
  OBVIOUS
<1>8. ASSUME NEW e \in Elements, NEW x \in linked'[e]
      PROVE  x \in drawn' \/ ChosenBefore(n + 1, e, x)
  <2>1. x \in linked[e] /\ x \notin items
    BY <1>1, <1>2, <1>5, <1>8, FreedLinks
  <2> QED
    BY <2>1, <1>1, <1>5, <1>7 DEF LinksChosen
<1> QED
  BY <1>1, <1>2, <1>3, <1>4, <1>6, <1>7, <1>8, PushedIsChosen

LEMMA UndoChosen ==
    ASSUME CInv, Undo
    PROVE  CInv'
<1> DEFINE c == Last(done)
<1>1. DInv /\ LinksChosen /\ Sound(linked) /\ drawn \subseteq Elements
  BY DEF CInv, DInv, IInv, TypeOK
<1>2. DInv' /\ drawn' = Last(past)[2] /\ c \in Command /\ DrawnStep(c, drawn', drawn)
  BY <1>1, UndoScene
<1>3. PICK n, k : n = Len(done) /\ k = Len(undone)
  OBVIOUS
<1>4. /\ n \in Nat \ {0} /\ k \in Nat
      /\ Len(done)' = n - 1 /\ Len(undone)' = k + 1
      /\ \A i \in 1..(n + k) : CmdAt(i)' = CmdAt(i) /\ SceneAt(i)' = SceneAt(i)
      /\ CmdAt(n) = c /\ SceneAt(n) = Last(past)[2]
  BY <1>1, <1>3, LineIsUndone
<1>5. /\ c.what = "link" => MakeLink(c, c.before, RowsTakenBack(c))
      /\ c.what # "link" => AddItems(c)
  BY DEF Undo
<1> HIDE DEF c
<1>6. \A i \in 1..(n + k) : \A e, x : ChosenBefore(i, e, x) => ChosenBefore(i, e, x)'
  <2>1. n + k \in Nat
    BY <1>4
  <2>2. \A j \in 1..(n + k) : \A e, x : Chose(CmdAt(j), SceneAt(j), e, x)
                                        => Chose(CmdAt(j), SceneAt(j), e, x)'
    BY <1>4 DEF Chose
  <2>3. \A i \in 1..((n + k) + 1) : \A e, x : ChosenBefore(i, e, x) => ChosenBefore(i, e, x)'
    BY ONLY <2>1, <2>2, ChosenStays
  <2> QED
    BY <2>1, <2>3
<1>7. ASSUME NEW i \in 1..(n + k) PROVE CommandChosen(i) /\ CommandChosen(i)'
  <2>1. CommandChosen(i)
    BY <1>3 DEF CInv
  <2> QED
    BY <2>1, <1>4, <1>6, CommandStaysChosen
<1>8. \A e \in Elements : \A x \in Restored(c, e) : x \in drawn' \/ ChosenBefore(n, e, x)
  <2>1. n \in 1..(n + k)
    BY <1>4
  <2>2. CommandChosen(n)
    BY <2>1, <1>7
  <2> QED
    BY <2>2, <1>2, <1>4 DEF CommandChosen
<1>9. ASSUME NEW e \in Elements, NEW x, ChosenBefore(n + 1, e, x), ~(c.what = "link" /\ c.of = e)
      PROVE  ChosenBefore(n, e, x)
  <2>1. PICK j \in 1..(n + 1 - 1) : Chose(CmdAt(j), SceneAt(j), e, x)
    BY <1>9, <1>4 DEF ChosenBefore
  <2>2. j # n
    BY <2>1, <1>4, <1>9 DEF Chose
  <2>3. j \in 1..(n - 1)
    BY <2>1, <2>2, <1>4
  <2> QED
    BY <2>1, <2>3 DEF ChosenBefore
<1>10. ASSUME NEW e \in Elements, NEW x \in linked'[e]
       PROVE  x \in drawn' \/ ChosenBefore(n, e, x)
  <2>1. CASE c.what = "link"
    <3>1. linked' = MadeLinks(c.of, c.before) /\ drawn' = drawn
      BY <1>5, <2>1 DEF MakeLink
    <3>2. c.of \in drawn /\ c.before \in SUBSET Elements
      BY <1>2, <2>1, <3>1 DEF DrawnStep, Command
    <3>3. \/ x \in drawn
          \/ e = c.of /\ x \in c.before
          \/ e # c.of /\ ChosenBefore(n + 1, e, x)
      BY <1>1, <1>3, <1>10, <3>1, <3>2, MadeLinksChosen
    <3>4. CASE e = c.of /\ x \in c.before
      BY <3>4, <2>1, <1>8 DEF Restored
    <3> QED
      BY <3>1, <3>3, <3>4, <1>9
  <2>2. CASE c.what # "link"
    <3>1. c.what = "delete" /\ c.items \in SUBSET Elements
      BY <1>2, <2>2 DEF Command
    <3> DEFINE pairs == {p \in c.items \X Elements : p[2] \in c.held[p[1]]}
    <3>2. drawn' = drawn \union c.items /\ \E some \in SUBSET pairs : linked' = Joined(linked, some)
      BY <1>5, <2>2 DEF AddItems
    <3>3. PICK some \in SUBSET pairs : linked' = Joined(linked, some)
      BY <3>2
    <3>4. some \in SUBSET (Elements \X Elements)
      BY <3>1
    <3>5. x \in linked[e] \/ <<e, x>> \in some \/ <<x, e>> \in some
      BY <1>1, <1>10, <3>3, <3>4, JoinedLinks
    <3>6. CASE x \in linked[e]
      <4>1. x \in drawn \/ ChosenBefore(n + 1, e, x)
        BY <3>6, <1>1, <1>3 DEF LinksChosen
      <4> QED
        BY <4>1, <3>2, <2>2, <1>9
    <3>7. CASE <<e, x>> \in some
      <4>1. x \in Restored(c, e)
        BY <3>7, <2>2 DEF Restored
      <4> QED
        BY <4>1, <1>8
    <3>8. CASE <<x, e>> \in some
      BY <3>8, <3>2
    <3> QED
      BY <3>5, <3>6, <3>7, <3>8
  <2> QED
    BY <2>1, <2>2
<1>11. \A e \in Elements : \A x \in linked'[e] : x \in drawn' \/ ChosenBefore((n - 1) + 1, e, x)'
  <2>1. (n - 1) + 1 = n /\ n \in 1..(n + k)
    BY <1>4
  <2> QED
    BY <2>1, <1>6, <1>10
<1>12. \A i \in 1..((n - 1) + (k + 1)) : CommandChosen(i)'
  BY <1>4, <1>7
<1> QED
  BY <1>2, <1>4, <1>11, <1>12, NextIsChosen

LEMMA RedoChosen ==
    ASSUME CInv, Redo
    PROVE  CInv'
<1> DEFINE c == Head(undone)
           again == [c EXCEPT !.held = Held(c)]
<1>1. DInv /\ LinksChosen /\ Sound(linked) /\ drawn \subseteq Elements
  BY DEF CInv, DInv, IInv, TypeOK
<1>2. DInv' /\ c \in Command /\ DrawnStep(c, drawn, drawn')
  BY <1>1, RedoScene
<1>3. PICK n, k : n = Len(done) /\ k = Len(undone)
  OBVIOUS
<1>4. /\ c.what = "link" => MakeLink(c, c.after, row) /\ done' = Append(done, c)
      /\ c.what # "link" => DeleteItems(c) /\ done' = Append(done, again)
  BY DEF Redo
<1>5. c.what # "link" => /\ again \in Command /\ again.what = "delete"
                         /\ again.held = Held(c) /\ c.what = "delete"
                         /\ c.items \in SUBSET Elements
  <2> SUFFICES ASSUME c.what # "link"
               PROVE  /\ again \in Command /\ again.what = "delete"
                      /\ again.held = Held(c) /\ c.what = "delete"
                      /\ c.items \in SUBSET Elements
    OBVIOUS
  <2>1. c \in [what : {"delete"}, items : SUBSET Elements, held : [Elements -> SUBSET Elements]]
    BY <1>2 DEF Command
  <2> HIDE DEF c
  <2>2. Held(c) \in [Elements -> SUBSET Elements]
    BY <2>1, <1>1 DEF Held, Sound
  <2> QED
    BY <2>1, <2>2 DEF Command
<1>6. PICK d \in Command : done' = Append(done, d) /\ d = IF c.what = "link" THEN c ELSE again
  BY <1>2, <1>4, <1>5
<1>7. /\ n \in Nat /\ k \in Nat \ {0}
      /\ Len(done)' = n + 1 /\ Len(undone)' = k - 1
      /\ \A i \in 1..(n + k) : /\ i # n + 1 => CmdAt(i)' = CmdAt(i)
                               /\ SceneAt(i)' = SceneAt(i)
      /\ CmdAt(n + 1) = c /\ CmdAt(n + 1)' = d /\ SceneAt(n + 1) = drawn
  <2>1. c = Head(undone)
    OBVIOUS
  <2>2. n = Len(done) /\ k = Len(undone) /\ DInv /\ done' = Append(done, d)
    BY <1>1, <1>3, <1>6
  <2> HIDE DEF c, again
  <2> QED
    BY ONLY <2>1, <2>2, Redo, d \in Command, LineIsRedone
<1> HIDE DEF c, again
<1>8. n + 1 \in 1..(n + k) /\ n + k \in Nat
  BY <1>7
<1>9. \A i \in 1..(n + k) : \A e, x : ChosenBefore(i, e, x) => ChosenBefore(i, e, x)'
  <2>1. ASSUME NEW j \in 1..(n + k), NEW e, NEW x, Chose(CmdAt(j), SceneAt(j), e, x)
        PROVE  Chose(CmdAt(j), SceneAt(j), e, x)'
    <3>1. CASE j # n + 1
      BY <2>1, <3>1, <1>7 DEF Chose
    <3>2. CASE j = n + 1
      <4>1. d = c
        BY <2>1, <3>2, <1>6, <1>7 DEF Chose
      <4> QED
        BY <2>1, <3>2, <4>1, <1>7, <1>8 DEF Chose
    <3> QED
      BY <3>1, <3>2
  <2>2. \A j \in 1..(n + k) : \A e, x : Chose(CmdAt(j), SceneAt(j), e, x)
                                        => Chose(CmdAt(j), SceneAt(j), e, x)'
    BY <2>1
  <2>3. \A i \in 1..((n + k) + 1) : \A e, x : ChosenBefore(i, e, x) => ChosenBefore(i, e, x)'
    BY ONLY <1>8, <2>2, ChosenStays
  <2> QED
    BY <1>8, <2>3
<1>10. ASSUME NEW i \in 1..(n + k) PROVE CommandChosen(i)
  BY <1>3 DEF CInv
<1>11. ASSUME NEW i \in 1..(n + k), i # n + 1 PROVE CommandChosen(i)'
  BY <1>7, <1>9, <1>10, <1>11, CommandStaysChosen
<1>12. CommandChosen(n + 1)'
  <2>1. ASSUME NEW e \in Elements, NEW x \in Restored(d, e)
        PROVE  x \in drawn \/ ChosenBefore(n + 1, e, x)
    <3>1. x \in Restored(c, e) => x \in drawn \/ ChosenBefore(n + 1, e, x)
      BY <1>7, <1>8, <1>10 DEF CommandChosen
    <3>2. x \in linked[e] => x \in drawn \/ ChosenBefore(n + 1, e, x)
      BY <1>1, <1>3 DEF LinksChosen
    <3>3. x \in Restored(c, e) \/ x \in linked[e]
      <4>1. CASE c.what = "link"
        BY <2>1, <4>1, <1>6
      <4>2. CASE c.what # "link"
        <5>1. x \in Held(c)[e]
          BY <2>1, <4>2, <1>5, <1>6 DEF Restored
        <5> QED
          BY <5>1, <4>2 DEF Held, Restored
      <4> QED
        BY <4>1, <4>2
    <3> QED
      BY <3>1, <3>2, <3>3
  <2>2. \A e, x : ChosenBefore(n + 1, e, x) => ChosenBefore(n + 1, e, x)'
    BY <1>8, <1>9
  <2>3. CmdAt(n + 1)' = d /\ SceneAt(n + 1)' = drawn
    BY <1>7, <1>8
  <2> QED
    BY <2>1, <2>2, <2>3 DEF CommandChosen
<1>13. ASSUME NEW e \in Elements, NEW x, ChosenBefore(n + 1, e, x)
       PROVE  ChosenBefore((n + 1) + 1, e, x)'
  <2>1. ChosenBefore(n + 1, e, x)'
    BY <1>8, <1>9, <1>13
  <2>2. 1..((n + 1) - 1) \subseteq 1..((n + 1) + 1 - 1)
    BY <1>7
  <2> QED
    BY <2>1, <2>2, <1>7 DEF ChosenBefore
<1>14. ASSUME NEW e \in Elements, NEW x \in linked'[e]
       PROVE  x \in drawn' \/ ChosenBefore((n + 1) + 1, e, x)'
  <2>1. CASE c.what = "link"
    <3>1. linked' = MadeLinks(c.of, c.after) /\ drawn' = drawn
      BY <1>4, <2>1 DEF MakeLink
    <3>2. c.of \in drawn /\ c.after \in SUBSET Elements
      BY <1>2, <2>1 DEF DrawnStep, Command
    <3>3. \/ x \in drawn
          \/ e = c.of /\ x \in c.after
          \/ e # c.of /\ ChosenBefore(n + 1, e, x)
      BY <1>1, <1>3, <1>14, <3>1, <3>2, MadeLinksChosen
    <3>4. CASE e = c.of /\ x \in c.after /\ x \notin drawn
      <4>1. CmdAt(n + 1)' = c /\ SceneAt(n + 1)' = drawn
        BY <2>1, <1>6, <1>7, <1>8
      <4>2. Chose(CmdAt(n + 1), SceneAt(n + 1), e, x)'
        BY <2>1, <3>4, <4>1 DEF Chose
      <4>3. n + 1 \in 1..((n + 1) + 1 - 1)
        BY <1>7
      <4> QED
        BY <4>2, <4>3 DEF ChosenBefore
    <3> QED
      BY <3>1, <3>3, <3>4, <1>13
  <2>2. CASE c.what # "link"
    <3>1. linked' = Freed(linked, c.items) /\ drawn' = drawn \ c.items
      BY <1>4, <2>2 DEF DeleteItems
    <3>2. x \in linked[e] /\ x \notin c.items
      BY <1>1, <1>5, <1>14, <2>2, <3>1, FreedLinks
    <3>3. x \in drawn \/ ChosenBefore(n + 1, e, x)
      BY <3>2, <1>1, <1>3 DEF LinksChosen
    <3> QED
      BY <3>1, <3>2, <3>3, <1>13
  <2> QED
    BY <2>1, <2>2
<1>15. \A i \in 1..((n + 1) + (k - 1)) : CommandChosen(i)'
  BY <1>7, <1>11, <1>12
<1> QED
  BY <1>2, <1>7, <1>14, <1>15, NextIsChosen

LEMMA StayingIsChosen ==
    ASSUME CInv, DInv', UNCHANGED <<done, undone, past, future, drawn>>,
           \A e \in Elements : \A x \in linked'[e] : x \in linked[e] \/ x \in drawn
    PROVE  CInv'
<1>1. LinksChosen'
  BY DEF CInv, LinksChosen, ChosenBefore, CmdAt, SceneAt
<1>2. \A i : CommandChosen(i) => CommandChosen(i)'
  BY DEF CommandChosen, ChosenBefore, CmdAt, SceneAt
<1> QED
  BY <1>1, <1>2 DEF CInv

LEMMA AutoLinkChosen ==
    ASSUME CInv, AutoLink
    PROVE  CInv'
<1>1. DInv /\ DInv' /\ Sound(linked) /\ drawn \subseteq Elements
  BY AutoLinkScene DEF CInv, DInv, IInv, TypeOK
<1>2. UNCHANGED <<done, undone, past, future, drawn>>
  BY DEF AutoLink, stack
<1>3. PICK pairs \in SUBSET (drawn \X drawn) : linked' = Joined(linked, pairs)
  BY DEF AutoLink
<1>4. ASSUME NEW e \in Elements, NEW x \in linked'[e] PROVE x \in linked[e] \/ x \in drawn
  <2>1. pairs \in SUBSET (Elements \X Elements)
    BY <1>1
  <2>2. x \in linked[e] \/ <<e, x>> \in pairs \/ <<x, e>> \in pairs
    BY <1>1, <1>3, <1>4, <2>1, JoinedLinks
  <2> QED
    BY <2>2
<1> QED
  BY <1>1, <1>2, <1>4, StayingIsChosen

LEMMA DeletedAreChosen == Spec => []CInv
<1>1. Init => CInv
  <2> SUFFICES ASSUME Init PROVE CInv
    OBVIOUS
  <2>1. past = << >> /\ future = << >> /\ done = << >> /\ undone = << >>
        /\ linked = [e \in Elements |-> {}]
    BY DEF Init
  <2>2. DInv
    <3>1. History(DrawnSteps)
      BY <2>1, EmptySeq DEF History, PastIn, FutureIn
    <3> QED
      BY <3>1, InitIsSound DEF DInv
  <2> QED
    BY <2>1, <2>2 DEF CInv, LinksChosen
<1>2. CInv /\ [Next]_vars => CInv'
  <2> SUFFICES ASSUME CInv, [Next]_vars PROVE CInv'
    OBVIOUS
  <2>1. DInv /\ IInv /\ IInv'
    BY NextKeeps DEF CInv, DInv
  <2>2. CASE \E c : Proper(c) /\ PushLink(c)
    BY <2>2, PushLinkChosen
  <2>3. CASE \E items \in Removals : Delete(items)
    BY <2>3, DeleteChosen
  <2>4. CASE Undo
    BY <2>4, UndoChosen
  <2>5. CASE Redo
    BY <2>5, RedoChosen
  <2>6. CASE AutoLink
    BY <2>6, AutoLinkChosen
  <2>7. CASE SetClean \/ UNCHANGED vars
    <3>1. UNCHANGED <<linked, drawn, done, undone, past, future>>
      BY <2>7 DEF SetClean, vars, stack
    <3>2. DInv'
      BY <3>1, <2>1 DEF DInv, History, Document
    <3> QED
      BY <3>1, <3>2, StayingIsChosen
  <2> QED
    BY <2>1, <2>2, <2>3, <2>4, <2>5, <2>6, <2>7, StepsAre
<1> QED
  BY <1>1, <1>2, PTL DEF Spec

-----------------------------------------------------------------------------
(* Undo and redo bring links back, as long as no timer links arrows: then   *)
(* a command leads from the document before it to one that only depends on  *)
(* that and on the command.                                                 *)

\* e is linked to those of the list and to no others.
Replaced(links, e, list) ==
    [x \in Elements |-> IF x = e THEN list
                        ELSE IF x \in list THEN links[x] \union {e} ELSE links[x] \ {e}]

\* Nobody in the list loses a partner by being linked to e.
Loose(links, e, list) ==
    /\ Fitting(e, list)
    /\ \A x \in list : IsMaster(x) \/ links[x] \subseteq {e}

LinkStep(c, a, b) ==
    /\ Sound(a[1])
    /\ c.what = "link" => /\ c.before = a[1][c.of] /\ Loose(a[1], c.of, c.after)
                          /\ b[1] = Replaced(a[1], c.of, c.after) /\ b[2] = a[2]
    /\ c.what = "delete" => /\ c.items \subseteq a[2]
                            /\ \A e \in c.items : c.held[e] = a[1][e]
                            /\ b[1] = Freed(a[1], c.items) /\ b[2] = a[2] \ c.items

LinkSteps == {t \in Command \X Documents \X Documents : LinkStep(t[1], t[2], t[3])}

LInv ==
    /\ DInv
    /\ ~chained => due = FALSE /\ History(LinkSteps)

LEMMA LinkStepsAre ==
    ASSUME NEW c \in Command, NEW a \in Documents, NEW b \in Documents
    PROVE  <<c, a, b>> \in LinkSteps <=> LinkStep(c, a, b)
BY DEF LinkSteps

LEMMA ReplacedTwice ==
    ASSUME NEW links \in [Elements -> SUBSET Elements], NEW e \in Elements, NEW list, NEW other
    PROVE  Replaced(Replaced(links, e, list), e, other) = Replaced(links, e, other)
<1> DEFINE mid == Replaced(links, e, list)
<1>1. ASSUME NEW x \in Elements
      PROVE  Replaced(mid, e, other)[x] = Replaced(links, e, other)[x]
  <2>1. CASE x = e
    BY <2>1 DEF Replaced
  <2>2. CASE x # e
    <3>1. mid[x] = IF x \in list THEN links[x] \union {e} ELSE links[x] \ {e}
      BY <2>2 DEF Replaced
    <3> HIDE DEF mid
    <3>2. mid[x] \union {e} = links[x] \union {e} /\ mid[x] \ {e} = links[x] \ {e}
      BY <3>1
    <3> QED
      BY <2>2, <3>2 DEF Replaced
  <2> QED
    BY <2>1, <2>2
<1> QED
  BY <1>1 DEF Replaced

LEMMA ReplacedBack ==
    ASSUME NEW links, Sound(links), NEW e \in Elements, NEW list
    PROVE  Replaced(Replaced(links, e, list), e, links[e]) = links
<1>1. links \in [Elements -> SUBSET Elements]
  BY DEF Sound
<1>2. Replaced(Replaced(links, e, list), e, links[e]) = Replaced(links, e, links[e])
  BY <1>1, ReplacedTwice
<1>3. ASSUME NEW x \in Elements PROVE Replaced(links, e, links[e])[x] = links[x]
  BY <1>1 DEF Replaced, Sound
<1>4. Replaced(links, e, links[e]) = links
  BY <1>1, <1>3 DEF Replaced
<1> QED
  BY <1>2, <1>4

LEMMA LooseBack ==
    ASSUME NEW links, Sound(links), NEW e \in Elements, NEW list
    PROVE  Loose(Replaced(links, e, list), e, links[e])
<1>1. Fitting(e, links[e])
  BY DEF Sound, Fitting
<1>2. ASSUME NEW x \in links[e], ~IsMaster(x) PROVE Replaced(links, e, list)[x] \subseteq {e}
  <2>1. x \in Elements /\ links[x] = {e}
    BY <1>2 DEF Sound
  <2>2. x # e
    BY <2>1, SuitsBothWays DEF Sound
  <2> QED
    BY <2>1, <2>2 DEF Replaced
<1> QED
  BY <1>1, <1>2 DEF Loose

LEMMA LooseThrough ==
    ASSUME NEW links \in [Elements -> SUBSET Elements], NEW e \in Elements, NEW list, NEW other,
           Loose(links, e, list), Loose(Replaced(links, e, list), e, other)
    PROVE  Loose(links, e, other)
<1>1. ASSUME NEW x \in other, ~IsMaster(x) PROVE links[x] \subseteq {e}
  <2>1. x \in Elements /\ x # e
    BY SuitsBothWays DEF Loose, Fitting
  <2>2. Replaced(links, e, list)[x] \subseteq {e}
    BY <1>1 DEF Loose
  <2>3. CASE x \in list
    BY <1>1, <2>3 DEF Loose
  <2>4. CASE x \notin list
    <3>1. links[x] \ {e} \subseteq {e}
      BY <2>1, <2>2, <2>4 DEF Replaced
    <3> QED
      BY <3>1
  <2> QED
    BY <2>3, <2>4
<1> QED
  BY <1>1 DEF Loose

LEMMA MadeIsReplaced ==
    ASSUME Sound(linked), NEW e \in Elements, NEW list, Loose(linked, e, list)
    PROVE  MadeLinks(e, list) = Replaced(linked, e, list)
<1> DEFINE pairs == {e} \X list
           joined == Joined(linked, pairs)
           new == {p \in pairs : Fits(p[1], p[2]) /\ p[2] \notin linked[p[1]]}
           moving == {x \in Elements : ~IsMaster(x) /\ Partners(new, x) # {}}
<1>1. /\ linked \in [Elements -> SUBSET Elements] /\ Fitting(e, list) /\ list \in SUBSET Elements
      /\ \A a, b \in Elements : b \in linked[a] <=> a \in linked[b]
  BY DEF Sound, Loose, Fitting
<1>2. e \notin list /\ e \notin linked[e]
  BY <1>1, SuitsBothWays DEF Fitting, Sound
<1>3. CASE list = {}
  <2>1. MadeLinks(e, list) = Freed(linked, {e})
    BY <1>3 DEF MadeLinks
  <2>2. ASSUME NEW x \in Elements PROVE Freed(linked, {e})[x] = Replaced(linked, e, {})[x]
    BY <1>1 DEF Freed, Replaced
  <2>3. Freed(linked, {e}) = Replaced(linked, e, {})
    BY <2>2 DEF Freed, Replaced
  <2> QED
    BY <2>1, <2>3, <1>3
<1>4. CASE list # {}
  <2>1. MadeLinks(e, list) = Unlinked(joined, e, joined[e] \ list)
    BY <1>4 DEF MadeLinks
  <2>2. Sound(MadeLinks(e, list)) /\ list \subseteq MadeLinks(e, list)[e]
    BY <1>1, MadeIsSound
  <2>3. \A x, y \in Elements : y \in Partners(new, x) =>
            \/ x = e /\ y \in list
            \/ y = e /\ x \in list
    BY DEF Partners
  <2>4. \A x \in moving : x = e \/ (x \in list /\ linked[x] \subseteq {e})
    BY <2>3 DEF Partners, Loose
  <2>5. joined = [x \in Elements |-> Freed(linked, moving)[x] \union Partners(new, x)]
    BY DEF Joined
  <2> HIDE DEF moving, new
  <2>6. ASSUME NEW x \in Elements, x # e, NEW y \in Elements, y # e
        PROVE  y \in joined[x] <=> y \in linked[x]
    <3>1. y \notin Partners(new, x)
      BY <2>3, <2>6
    <3>2. y \in joined[x] <=> y \in linked[x] /\ x \notin moving /\ y \notin moving
      BY <2>5, <3>1, <1>1 DEF Freed
    <3>3. ASSUME y \in linked[x] PROVE x \notin moving /\ y \notin moving
      <4>1. x \in linked[y]
        BY <3>3, <1>1
      <4> QED
        BY <3>3, <4>1, <2>4, <2>6
    <3> QED
      BY <3>2, <3>3
  <2>7. ASSUME NEW x \in Elements PROVE joined[x] \subseteq Elements
    <3>1. Freed(linked, moving)[x] \subseteq Elements
      BY <1>1 DEF Freed
    <3>2. Partners(new, x) \subseteq Elements
      BY DEF Partners
    <3>3. joined[x] = Freed(linked, moving)[x] \union Partners(new, x)
      BY <2>5
    <3> QED
      BY <3>1, <3>2, <3>3
  <2>8. MadeLinks(e, list)[e] = list
    <3> HIDE DEF joined
    <3>1. MadeLinks(e, list)[e] = joined[e] \ (joined[e] \ list)
      BY <2>1 DEF Unlinked
    <3> QED
      BY <3>1, <2>2
  <2>9. ASSUME NEW x \in Elements, x # e, NEW y \in Elements, y # e
        PROVE  y \in MadeLinks(e, list)[x] <=> y \in linked[x]
    <3> HIDE DEF joined
    <3>1. MadeLinks(e, list)[x] = IF x \in joined[e] \ list THEN joined[x] \ {e} ELSE joined[x]
      BY <2>1, <2>9 DEF Unlinked
    <3> QED
      BY <3>1, <2>6, <2>9
  <2>10. ASSUME NEW x \in Elements, x # e
         PROVE  e \in MadeLinks(e, list)[x] <=> x \in list
    BY <2>2, <2>8 DEF Sound
  <2>11. ASSUME NEW x \in Elements PROVE MadeLinks(e, list)[x] = Replaced(linked, e, list)[x]
    <3>1. CASE x = e
      BY <3>1, <2>8 DEF Replaced
    <3>2. CASE x # e
      <4>1. MadeLinks(e, list)[x] \subseteq Elements
        BY <2>2 DEF Sound
      <4>2. Replaced(linked, e, list)[x] = IF x \in list THEN linked[x] \union {e} ELSE linked[x] \ {e}
        BY <3>2 DEF Replaced
      <4>3. linked[x] \subseteq Elements
        BY <1>1
      <4> QED
        BY <3>2, <4>1, <4>2, <4>3, <2>9, <2>10
    <3> QED
      BY <3>1, <3>2
  <2>12. MadeLinks(e, list) \in [Elements -> SUBSET Elements]
    BY <2>2 DEF Sound
  <2>13. Replaced(linked, e, list) = [x \in Elements |-> Replaced(linked, e, list)[x]]
    BY DEF Replaced
  <2> QED
    BY <2>11, <2>12, <2>13
<1> QED
  BY <1>3, <1>4

LEMMA FreedThenJoined ==
    ASSUME NEW links, Sound(links), NEW items \in SUBSET Elements,
           NEW pairs, pairs = {p \in items \X Elements : p[2] \in links[p[1]]}
    PROVE  OneEach(pairs) /\ Joined(Freed(links, items), pairs) = links
<1> DEFINE freed == Freed(links, items)
           new == {p \in pairs : Fits(p[1], p[2]) /\ p[2] \notin freed[p[1]]}
           moving == {x \in Elements : ~IsMaster(x) /\ Partners(new, x) # {}}
<1>1. /\ links \in [Elements -> SUBSET Elements]
      /\ \A a, b \in Elements : b \in links[a] <=> a \in links[b]
  BY DEF Sound
<1>2. ASSUME NEW x \in Elements, NEW y \in Elements
      PROVE  y \in Partners(pairs, x) <=> y \in links[x] /\ (x \in items \/ y \in items)
  BY <1>1 DEF Partners
<1>3. ASSUME NEW x \in Elements, NEW y \in Elements
      PROVE  y \in freed[x] <=> y \in links[x] /\ x \notin items /\ y \notin items
  BY <1>1 DEF Freed
<1>4. OneEach(pairs)
  <2>1. ASSUME NEW x \in Elements, ~IsMaster(x),
               NEW y \in Partners(pairs, x), NEW z \in Partners(pairs, x)
        PROVE  y = z
    <3>1. y \in Elements /\ z \in Elements
      BY DEF Partners
    <3>2. y \in links[x] /\ z \in links[x]
      BY <3>1, <1>2
    <3> QED
      BY <3>2, <2>1 DEF Sound
  <2> QED
    BY <2>1 DEF OneEach
<1>5. new = pairs
  <2>1. ASSUME NEW p \in pairs PROVE Fits(p[1], p[2]) /\ p[2] \notin freed[p[1]]
    <3>1. p[1] \in items /\ p[1] \in Elements /\ p[2] \in Elements /\ p[2] \in links[p[1]]
      OBVIOUS
    <3>2. Fits(p[1], p[2])
      BY <3>1 DEF Sound, Suits
    <3> QED
      BY <3>1, <3>2, <1>3
  <2> QED
    BY <2>1
<1>6. Joined(freed, pairs) = [x \in Elements |-> Freed(freed, moving)[x] \union Partners(pairs, x)]
  BY <1>5 DEF Joined
<1>7. ASSUME NEW x \in moving PROVE freed[x] = {}
  <2>1. PICK y \in Elements : y \in Partners(pairs, x)
    BY <1>5 DEF Partners
  <2>2. x \in Elements /\ ~IsMaster(x) /\ y \in links[x] /\ (x \in items \/ y \in items)
    BY <2>1, <1>2
  <2>3. \A z \in links[x] : z = y
    BY <2>2 DEF Sound
  <2>4. freed[x] \subseteq Elements
    BY <1>1, <2>2 DEF Freed
  <2> HIDE DEF freed
  <2> QED
    BY <2>2, <2>3, <2>4, <1>3
<1>8. Sound(freed)
  BY FreedIsSound
<1> HIDE DEF moving
<1>9. ASSUME NEW x \in Elements PROVE Freed(freed, moving)[x] = freed[x]
  <2>1. CASE x \in moving
    BY <2>1, <1>7 DEF Freed
  <2>2. CASE x \notin moving
    <3> HIDE DEF freed
    <3>1. Freed(freed, moving)[x] = freed[x] \ {y \in moving : x \in freed[y]}
      BY <2>2 DEF Freed
    <3>2. {y \in moving : x \in freed[y]} = {}
      BY <1>7
    <3> QED
      BY <3>1, <3>2
  <2> QED
    BY <2>1, <2>2
<1>10. ASSUME NEW x \in Elements PROVE freed[x] \union Partners(pairs, x) = links[x]
  <2>1. freed[x] \subseteq Elements /\ Partners(pairs, x) \subseteq Elements /\ links[x] \subseteq Elements
    BY <1>1, <1>8 DEF Sound, Partners
  <2> HIDE DEF freed
  <2> QED
    BY <2>1, <1>2, <1>3
<1>11. Joined(freed, pairs) = [x \in Elements |-> links[x]]
  <2> HIDE DEF freed
  <2> QED
    BY <1>6, <1>9, <1>10
<1> QED
  BY <1>1, <1>4, <1>11

LEMMA AlikeItself == ASSUME NEW R, NEW a PROVE Alike(R, a, a)
BY DEF Alike

LEMMA DocumentsAre ==
    ASSUME NEW a \in Documents, NEW b \in Documents, a[1] = b[1], a[2] = b[2]
    PROVE  a = b
BY DEF Documents

\* What undo and redo bring back
LEMMA UndoBringsBack ==
    ASSUME LInv, ~chained, Undo
    PROVE  Document' = Last(past)
<1> DEFINE c == Last(done)
           before == Last(past)
<1>1. IInv /\ Sound(linked) /\ History(LinkSteps)
  BY DEF LInv, DInv, IInv
<1>2. IInv'
  BY <1>1, UndoKeeps
<1>3. Document \in Documents /\ Document' \in Documents
  BY <1>1, <1>2 DEF IInv, TypeOK, Document, Documents
<1>4. /\ Document[1] = linked /\ (Document')[1] = linked'
      /\ Document[2] = drawn /\ (Document')[2] = drawn'
  BY DEF Document
<1>5. c \in Command /\ before \in Documents /\ <<c, before, Document>> \in LinkSteps
  BY <1>1, PastTakenBack DEF History, Undo, IInv, TypeOK
<1>6. /\ c.what = "link" => MakeLink(c, c.before, RowsTakenBack(c))
      /\ c.what # "link" => AddItems(c)
  BY DEF Undo
<1> HIDE DEF c, before, Document
<1>7. LinkStep(c, before, Document)
  BY <1>3, <1>5, LinkStepsAre
<1>8. Sound(before[1])
  BY <1>7 DEF LinkStep
<1>9. ASSUME c.what = "link" PROVE linked' = before[1] /\ drawn' = before[2]
  <2>1. drawn' = drawn /\ linked' = MadeLinks(c.of, c.before)
    BY <1>6, <1>9 DEF MakeLink
  <2>2. c.of \in Elements
    BY <1>5, <1>9 DEF Command
  <2>3. /\ c.before = before[1][c.of]
        /\ linked = Replaced(before[1], c.of, c.after) /\ drawn = before[2]
    BY <1>4, <1>7, <1>9 DEF LinkStep
  <2>4. Loose(linked, c.of, c.before)
    BY <2>2, <2>3, <1>8, LooseBack
  <2>5. linked' = Replaced(linked, c.of, c.before)
    BY <2>1, <2>2, <2>4, <1>1, MadeIsReplaced
  <2> QED
    BY <2>1, <2>2, <2>3, <2>5, <1>8, ReplacedBack
<1>10. ASSUME c.what # "link" PROVE linked' = before[1] /\ drawn' = before[2]
  <2>1. c.what = "delete" /\ c.items \in SUBSET Elements
    BY <1>5, <1>10 DEF Command
  <2>2. /\ c.items \subseteq before[2] /\ drawn = before[2] \ c.items
        /\ \A e \in c.items : c.held[e] = before[1][e]
        /\ linked = Freed(before[1], c.items)
    BY <1>4, <1>7, <2>1 DEF LinkStep
  <2> DEFINE pairs == {p \in c.items \X Elements : p[2] \in c.held[p[1]]}
  <2>3. pairs = {p \in c.items \X Elements : p[2] \in before[1][p[1]]}
    BY <2>2
  <2>4. drawn' = drawn \union c.items
    BY <1>6, <1>10 DEF AddItems
  <2>5. \E some \in SUBSET pairs : /\ OneEach(pairs) => some = pairs
                                   /\ linked' = Joined(linked, some)
    BY <1>6, <1>10 DEF AddItems
  <2> HIDE DEF pairs
  <2>6. OneEach(pairs) /\ Joined(linked, pairs) = before[1]
    BY <2>1, <2>2, <2>3, <1>8, FreedThenJoined
  <2> QED
    BY <2>2, <2>4, <2>5, <2>6
<1>11. Document' = before
  BY <1>3, <1>4, <1>5, <1>9, <1>10, DocumentsAre
<1> QED
  BY <1>11 DEF before

LEMMA UndoRestoresLinks ==
    ASSUME LInv, ~chained, Undo
    PROVE  History(LinkSteps)'
<1>1. IInv /\ History(LinkSteps)
  BY DEF LInv, DInv
<1>2. IInv'
  BY <1>1, UndoKeeps
<1>3. Document' \in Documents
  BY <1>2 DEF IInv, TypeOK, Document, Documents
<1>4. Alike(LinkSteps, Last(past), Document')
  BY UndoBringsBack, AlikeItself
<1> QED
  BY <1>1, <1>3, <1>4, UndoneHistory

LEMMA RedoBringsBack ==
    ASSUME LInv, ~chained, Redo
    PROVE  Document' = Head(future) /\ History(LinkSteps)'
<1> DEFINE c == Head(undone)
           after == Head(future)
           again == [c EXCEPT !.held = Held(c)]
<1>1. IInv /\ Sound(linked) /\ History(LinkSteps)
  BY DEF LInv, DInv, IInv
<1>2. IInv'
  BY <1>1, RedoKeeps
<1>3. Document \in Documents /\ Document' \in Documents
  BY <1>1, <1>2 DEF IInv, TypeOK, Document, Documents
<1>4. /\ Document[1] = linked /\ (Document')[1] = linked'
      /\ Document[2] = drawn /\ (Document')[2] = drawn'
  BY DEF Document
<1>5. c \in Command /\ after \in Documents /\ <<c, Document, after>> \in LinkSteps
  BY <1>1, FutureMadeAgain DEF History, Redo, IInv, TypeOK
<1>6. /\ c.what = "link" => MakeLink(c, c.after, row) /\ done' = Append(done, c)
      /\ c.what # "link" => DeleteItems(c) /\ done' = Append(done, again)
  BY DEF Redo
<1> HIDE DEF c, after, Document
<1>7. LinkStep(c, Document, after)
  BY <1>3, <1>5, LinkStepsAre
<1>8. linked' = after[1] /\ drawn' = after[2]
  <2>1. ASSUME c.what = "link" PROVE linked' = after[1] /\ drawn' = after[2]
    <3>1. drawn' = drawn /\ linked' = MadeLinks(c.of, c.after)
      BY <1>6, <2>1 DEF MakeLink
    <3>2. /\ Loose(linked, c.of, c.after)
          /\ after[1] = Replaced(linked, c.of, c.after) /\ after[2] = drawn
      BY <1>4, <1>7, <2>1 DEF LinkStep
    <3>3. c.of \in Elements
      BY <1>5, <2>1 DEF Command
    <3> QED
      BY <3>1, <3>2, <3>3, <1>1, MadeIsReplaced
  <2>2. ASSUME c.what # "link" PROVE linked' = after[1] /\ drawn' = after[2]
    <3>1. c.what = "delete"
      BY <1>5, <2>2 DEF Command
    <3> QED
      BY <3>1, <1>4, <1>6, <1>7 DEF LinkStep, DeleteItems
  <2> QED
    BY <2>1, <2>2
<1>9. Document' = after
  BY <1>3, <1>4, <1>5, <1>8, DocumentsAre
<1> DEFINE Made(d) == /\ d \in Command /\ done' = Append(done, d)
                      /\ LinkStep(d, Document, after)
<1>10. \E d : Made(d)
  <2>1. CASE c.what = "link"
    <3>1. Made(c)
      BY <2>1, <1>5, <1>6, <1>7
    <3> QED
      BY <3>1
  <2>2. CASE c.what # "link"
    <3>1. c \in [what : {"delete"}, items : SUBSET Elements, held : [Elements -> SUBSET Elements]]
      BY <1>5, <2>2 DEF Command
    <3>2. Held(c) \in [Elements -> SUBSET Elements]
      BY <3>1, <1>1 DEF Held, Sound
    <3>3. /\ again \in Command /\ again.what = "delete"
          /\ again.items = c.items /\ again.held = Held(c)
      BY <3>1, <3>2 DEF Command
    <3>4. \A e \in c.items : c.held[e] = linked[e]
      BY <3>1, <1>4, <1>7 DEF LinkStep
    <3>5. \A e \in c.items : Held(c)[e] = linked[e]
      BY <3>1, <3>4 DEF Held
    <3> HIDE DEF again
    <3>6. LinkStep(again, Document, after)
      BY <3>1, <3>3, <3>5, <1>4, <1>7 DEF LinkStep
    <3>7. Made(again)
      BY <3>3, <3>6, <1>6, <2>2
    <3> QED
      BY <3>7
  <2> QED
    BY <2>1, <2>2
<1>11. PICK d : Made(d)
  BY <1>10
<1>12. <<d, Document, Document'>> \in LinkSteps
  BY <1>3, <1>5, <1>9, <1>11, LinkStepsAre
<1>13. Document' = Head(future)
  BY <1>9 DEF after
<1>14. Alike(LinkSteps, Head(future), Document')
  BY <1>13, AlikeItself
<1>15. History(LinkSteps)'
  <2>1. d \in Command /\ done' = Append(done, d)
    BY <1>11
  <2> QED
    BY <2>1, <1>1, <1>3, <1>12, <1>14, RedoneHistory
<1> QED
  BY <1>13, <1>15

LEMMA PushLinkIsStep ==
    ASSUME LInv, ~chained, NEW c, Proper(c), PushLink(c)
    PROVE  History(LinkSteps)'
<1>1. IInv /\ Sound(linked) /\ History(LinkSteps)
  BY DEF LInv, DInv, IInv
<1>2. /\ c \in Command /\ c.what = "link" /\ c.of \in Elements
      /\ c.before = linked[c.of] /\ Fitting(c.of, c.after)
  BY DEF Proper, SoundCommand, Command
<1>3. Loose(linked, c.of, c.after)
  <2>1. ASSUME NEW x \in c.after, ~IsMaster(x) PROVE linked[x] \subseteq {c.of}
    <3>1. CASE x \in linked[c.of]
      BY <3>1, <2>1, <1>1, <1>2 DEF Sound
    <3>2. CASE x \notin linked[c.of]
      BY <3>2, <2>1 DEF Proper, Newcomer, IsFree
    <3> QED
      BY <3>1, <3>2
  <2> QED
    BY <2>1, <1>2 DEF Loose
<1>4. drawn' = drawn /\ linked' = MadeLinks(c.of, c.after) /\ Pushed(c)
  BY DEF PushLink, MakeLink
<1>5. linked' = Replaced(linked, c.of, c.after)
  BY <1>1, <1>2, <1>3, <1>4, MadeIsReplaced
<1>6. IInv'
  BY <1>1, PushLinkKeeps
<1>7. Document \in Documents /\ Document' \in Documents
  BY <1>1, <1>6 DEF IInv, TypeOK, Document, Documents
<1>8. /\ Document[1] = linked /\ (Document')[1] = linked'
      /\ Document[2] = drawn /\ (Document')[2] = drawn'
  BY DEF Document
<1>9. <<c, Document, Document'>> \in LinkSteps
  <2> HIDE DEF Document
  <2>1. LinkStep(c, Document, Document')
    BY <1>1, <1>2, <1>3, <1>4, <1>5, <1>8 DEF LinkStep
  <2> QED
    BY <2>1, <1>2, <1>7, LinkStepsAre
<1>10. ASSUME MergesInto(c), <<Last(done), Last(past), Document>> \in LinkSteps
       PROVE  <<[Last(done) EXCEPT !.after = c.after], Last(past), Document'>> \in LinkSteps
  <2> DEFINE l == Last(done)
             d == [l EXCEPT !.after = c.after]
             p == Last(past)
  <2>1. l \in Command /\ p \in Documents
    BY <1>10 DEF LinkSteps
  <2>2. l.what = "link" /\ l.of = c.of
    BY <1>10 DEF MergesInto
  <2>3. d \in Command /\ d.what = "link" /\ d.of = l.of /\ d.before = l.before /\ d.after = c.after
    BY <2>1, <2>2, <1>2 DEF Command, Fitting
  <2>4. <<l, p, Document>> \in LinkSteps
    BY <1>10
  <2> HIDE DEF l, d, p, Document
  <2>5. LinkStep(l, p, Document)
    BY <2>1, <2>4, <1>7, LinkStepsAre
  <2>6. /\ Sound(p[1]) /\ l.before = p[1][c.of] /\ Loose(p[1], c.of, l.after)
        /\ linked = Replaced(p[1], c.of, l.after) /\ drawn = p[2]
    BY <2>2, <2>5, <1>8 DEF LinkStep
  <2>7. p[1] \in [Elements -> SUBSET Elements]
    BY <2>6 DEF Sound
  <2>8. Loose(p[1], c.of, c.after)
    BY <2>6, <2>7, <1>2, <1>3, LooseThrough
  <2>9. linked' = Replaced(p[1], c.of, c.after)
    BY <2>6, <2>7, <1>2, <1>5, ReplacedTwice
  <2>10. LinkStep(d, p, Document')
    BY <2>2, <2>3, <2>6, <2>8, <2>9, <1>4, <1>8 DEF LinkStep
  <2>11. <<d, p, Document'>> \in LinkSteps
    BY <2>1, <2>3, <2>10, <1>7, LinkStepsAre
  <2> QED
    BY <2>11 DEF d, p, l
<1> QED
  BY <1>1, <1>2, <1>4, <1>9, <1>10, PushedHistory

LEMMA DeleteIsStep ==
    ASSUME LInv, ~chained, NEW items \in Removals, Delete(items)
    PROVE  History(LinkSteps)'
<1> DEFINE c == [what |-> "delete", items |-> items,
                 held |-> [e \in Elements |-> IF e \in items THEN linked[e] ELSE {}]]
<1>1. IInv /\ Sound(linked) /\ History(LinkSteps)
  BY DEF LInv, DInv, IInv
<1>2. /\ items \in SUBSET Elements /\ items \subseteq drawn
      /\ DeleteItems(c) /\ Pushed(c)
  <2>1. items \in SUBSET Elements
    OBVIOUS
  <2> QED
    BY <2>1 DEF Delete
<1>3. c \in Command /\ c.what = "delete" /\ c.items = items
  BY <1>1, <1>2 DEF Command, Sound
<1>4. \A e \in items : c.held[e] = linked[e]
  BY <1>2
<1> HIDE DEF c
<1>5. drawn' = drawn \ items /\ linked' = Freed(linked, items)
  BY <1>2, <1>3 DEF DeleteItems
<1>6. IInv'
  BY <1>1, DeleteKeeps
<1>7. Document \in Documents /\ Document' \in Documents
  BY <1>1, <1>6 DEF IInv, TypeOK, Document, Documents
<1>8. /\ Document[1] = linked /\ (Document')[1] = linked'
      /\ Document[2] = drawn /\ (Document')[2] = drawn'
  BY DEF Document
<1>9. <<c, Document, Document'>> \in LinkSteps
  <2> HIDE DEF Document
  <2>1. LinkStep(c, Document, Document')
    BY <1>1, <1>2, <1>3, <1>4, <1>5, <1>8 DEF LinkStep
  <2> QED
    BY <2>1, <1>3, <1>7, LinkStepsAre
<1>10. ~MergesInto(c)
  BY <1>3 DEF MergesInto
<1> QED
  BY <1>1, <1>2, <1>3, <1>9, <1>10, PushedHistory

\* The timer stays still in a project that does not chain its reports.
LEMMA NothingIsDue ==
    ASSUME IInv, [Next]_vars
    PROVE  /\ chained' = chained
           /\ ~chained /\ due = FALSE => due' = FALSE /\ ~AutoLink
<1>1. CASE \E c : Proper(c) /\ PushLink(c)
  <2>1. chained' = chained /\ due' = due
    BY <1>1 DEF PushLink, MakeLink, Pushed
  <2> QED
    BY <2>1 DEF AutoLink
<1>2. CASE \E items \in Removals : Delete(items)
  BY <1>2 DEF Delete, DeleteItems, Pushed, AutoLinkDue, AutoLink
<1>3. CASE Undo
  <2>1. chained' = chained
    BY <1>3 DEF Undo
  <2>2. due' = due \/ \E items : due' = AutoLinkDue(items)
    BY <1>3 DEF Undo, MakeLink, AddItems
  <2> QED
    BY <2>1, <2>2 DEF AutoLinkDue, AutoLink
<1>4. CASE Redo
  <2>1. chained' = chained
    BY <1>4 DEF Redo
  <2>2. due' = due \/ \E items : due' = AutoLinkDue(items)
    BY <1>4 DEF Redo, MakeLink, DeleteItems
  <2> QED
    BY <2>1, <2>2 DEF AutoLinkDue, AutoLink
<1>5. CASE AutoLink
  BY <1>5 DEF AutoLink
<1>6. CASE SetClean
  BY <1>6 DEF SetClean, AutoLink
<1>7. CASE UNCHANGED vars
  BY <1>7 DEF vars, AutoLink
<1> QED
  BY <1>1, <1>2, <1>3, <1>4, <1>5, <1>6, <1>7, StepsAre

LEMMA LinksComeBack == Spec => []LInv
<1>1. Init => LInv
  <2> SUFFICES ASSUME Init PROVE LInv
    OBVIOUS
  <2>1. past = << >> /\ future = << >> /\ done = << >> /\ undone = << >> /\ due = FALSE
    BY DEF Init
  <2>2. History(LinkSteps) /\ History(DrawnSteps)
    BY <2>1, EmptySeq DEF History, PastIn, FutureIn
  <2> QED
    BY <2>1, <2>2, InitIsSound DEF LInv, DInv
<1>2. LInv /\ DInv' /\ [Next]_vars => LInv'
  <2> SUFFICES ASSUME LInv, DInv', [Next]_vars, ~chained
               PROVE  due' = FALSE /\ History(LinkSteps)'
    BY NothingIsDue DEF LInv, DInv
  <2>1. IInv /\ due = FALSE /\ History(LinkSteps)
    BY DEF LInv, DInv
  <2>2. due' = FALSE /\ ~AutoLink
    BY <2>1, NothingIsDue
  <2>3. CASE \E c : Proper(c) /\ PushLink(c)
    BY <2>2, <2>3, PushLinkIsStep
  <2>4. CASE \E items \in Removals : Delete(items)
    BY <2>2, <2>4, DeleteIsStep
  <2>5. CASE Undo
    BY <2>2, <2>5, UndoRestoresLinks
  <2>6. CASE Redo
    BY <2>2, <2>6, RedoBringsBack
  <2>7. CASE SetClean \/ UNCHANGED vars
    <3>1. UNCHANGED <<linked, drawn, done, undone, past, future>>
      BY <2>7 DEF SetClean, vars, stack
    <3> QED
      BY <2>1, <2>2, <3>1 DEF History, Document
  <2> QED
    BY <2>1, <2>2, <2>3, <2>4, <2>5, <2>6, <2>7, StepsAre
<1> QED
  BY <1>1, <1>2, ElementsAreThere, PTL DEF Spec

-----------------------------------------------------------------------------

(* The variables have their types, the commands on the undo stack and the   *)
(* rows of the masters among them.                                          *)
THEOREM TypeCorrect == Spec => []TypeOK
BY LinksAreSound, PTL DEF IInv

(* However links are made, broken, undone and redone, stolen by another     *)
(* element or taken by the timer, both ends hold each of them.              *)
THEOREM LinksAgree == Spec => []LinksMutual
<1>1. IInv => LinksMutual
  BY DEF IInv, Sound, LinksMutual
<1> QED
  BY <1>1, LinksAreSound, PTL

(* A contact has one coil and an arrow one arrow, of a type that suits.     *)
THEOREM PartnersSuit == Spec => []OnePartner
<1>1. IInv => OnePartner
  BY DEF IInv, Sound, OnePartner
<1> QED
  BY <1>1, LinksAreSound, PTL

(* Only a slave that is linked to a PLC master holds one of its I/Os.       *)
THEOREM RowsAreOfLinked == Spec => []RowsOfLinked
<1>1. IInv => RowsOfLinked
  BY DEF IInv, Placed, RowsOfLinked
<1> QED
  BY <1>1, LinksAreSound, PTL

(* A link leads to an element that is on a folio, or to one that a command  *)
(* still on the stack chose for that end when it had been deleted already   *)
(* (the lists of partners may be stale): no deletion, undo, redo or timer   *)
(* leaves a link to an element that is gone.                                *)
THEOREM LinksStayOnFolios == Spec => []OnlyDrawn
<1>1. CInv => OnlyDrawn
  <2> SUFFICES ASSUME CInv, NEW e \in Elements, NEW x \in linked[e], x \notin drawn
               PROVE  ChosenDeleted(done, past, e, x)
    BY DEF OnlyDrawn
  <2>1. Len(done) \in Nat /\ done \in Seq(Command)
    BY LineIsTyped DEF CInv
  <2>2. PICK j \in 1..(Len(done) + 1 - 1) : Chose(CmdAt(j), SceneAt(j), e, x)
    BY DEF CInv, LinksChosen, ChosenBefore
  <2>3. j \in 1..Len(done) /\ j <= Len(done) /\ DOMAIN done = 1..Len(done)
    BY <2>1, <2>2, LenProperties
  <2> QED
    BY <2>2, <2>3 DEF Chose, CmdAt, SceneAt, ChosenDeleted
<1> QED
  BY <1>1, DeletedAreChosen, PTL

(* Undo and redo implement an undo history: undo brings back the links and  *)
(* the elements there were, redo those there were before the undo.          *)
THEOREM UndoBringsLinksBack == Spec => UndoRestores
<1> USE DEF H!Next, H!Change, H!Merge, H!Undo, H!Redo, H!history
<1>1. Init => H!Init
  BY DEF Init, H!Init
<1>2. LInv /\ [Next]_vars => [H!Next \/ H!Merge]_(H!history)
  <2> SUFFICES ASSUME LInv, [Next]_vars PROVE [H!Next \/ H!Merge]_(H!history)
    OBVIOUS
  <2>1. IInv /\ chained' = chained
    BY NothingIsDue DEF LInv, DInv
  <2>2. CASE chained
    BY <2>1, <2>2
  <2>3. CASE ~chained
    <3>1. History(LinkSteps) /\ due = FALSE
      BY <2>3 DEF LInv
    <3>0. (done # << >> => past # << >>) /\ (undone # << >> => future # << >>)
      BY <2>1, <3>1, HistoryIsThere
    <3>2. ASSUME NEW c, Pushed(c) PROVE H!Next \/ H!Merge
      BY <2>1, <2>3, <3>0, <3>2 DEF Pushed, MergesInto
    <3>3. CASE \E c : Proper(c) /\ PushLink(c)
      BY <3>2, <3>3 DEF PushLink
    <3>4. CASE \E items \in Removals : Delete(items)
      BY <3>2, <3>4 DEF Delete
    <3>5. CASE Undo
      <4>1. Document' = Last(past)
        BY <2>3, <3>5, UndoBringsBack
      <4>2. past # << >> /\ past' = Front(past) /\ future' = <<Document>> \o future
        BY <3>0, <3>5 DEF Undo
      <4> HIDE DEF Document
      <4>3. H!Undo
        BY <4>1, <4>2, <2>1, <2>3 DEF H!Last, H!Front, Last, Front
      <4> QED
        BY <4>3
    <3>6. CASE Redo
      <4>1. Document' = Head(future)
        BY <2>3, <3>6, RedoBringsBack
      <4>2. future # << >>
        BY <3>0, <3>6 DEF Redo
      <4> QED
        BY <4>1, <4>2, <2>1, <2>3, <3>6 DEF Redo
    <3>7. CASE SetClean \/ UNCHANGED vars
      BY <3>7, <2>1 DEF SetClean, vars, stack, Document
    <3>8. ~AutoLink
      BY <2>1, <2>3, <3>1, NothingIsDue
    <3> QED
      BY <2>1, <3>3, <3>4, <3>5, <3>6, <3>7, <3>8, StepsAre
  <2> QED
    BY <2>2, <2>3
<1> QED
  BY <1>1, <1>2, LinksComeBack, PTL DEF Spec, UndoRestores, H!MergingSpec
=============================================================================
