-------------------------- MODULE MCTerminalStrip --------------------------
(***************************************************************************)
(* Instances of TerminalStrip.                                             *)
(***************************************************************************)
EXTENDS TerminalStrip

CONSTANTS r1, r2, r3, sp, A, B

MCPlace == [r \in Drawn |-> IF r = r1 THEN 2 ELSE IF r = r2 THEN 1 ELSE 3]

Careless(names, most) == [names |-> names, most |-> most, careful |-> FALSE]
CarefulUser(names, most) == [names |-> names, most |-> most, careful |-> TRUE]

Always == {"Add", "Remove", "Move", "Level", "Sort", "Ungroup", "Bridge", "Unbridge", "AddStrip"}

\* any command but the deletion of a strip and either Group or Spares; the
\* commands that keep the physical terminals; those that make some, but
\* hold none that another command made; and the deletion of strips
AllHabits == {Careless(Always \cup {"Group"}, 3), Careless(Always \cup {"Spares"}, 3),
              CarefulUser({"Move", "Sort", "Spares", "Level", "Bridge", "Unbridge", "AddStrip"}, 5),
              CarefulUser({"Add", "Ungroup", "Level", "Bridge", "Unbridge", "AddStrip", "Spares"}, 5),
              CarefulUser({"Add", "Bridge", "Unbridge", "AddStrip", "RemoveStrip"}, 5)}

\* any three commands; and four of those that show what goes wrong
AnyHabit == {Careless(Always \cup {"Group", "Spares"}, 3)}
Grouping == {Careless({"Add", "Spares", "Group"}, 4)}
Bridging == {Careless({"Bridge", "Unbridge", "Remove"}, 5)}

\* strips with plain terminals; one with a terminal of two levels and one
\* of one
MCLayouts == { << <<A, 1, <<r1>> >>, <<A, 2, <<r2>> >>, <<B, 3, <<r3>> >> >>,
               << <<A, 1, <<r1, r2>> >>, <<A, 2, <<r3>> >> >>,
               << <<A, 1, <<r1>> >>, <<A, 2, <<r2>> >> >>,
               << <<A, 1, <<r1, r2>> >> >> }
=============================================================================
