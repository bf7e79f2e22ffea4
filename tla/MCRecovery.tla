----------------------------- MODULE MCRecovery -----------------------------
(* Instances of Recovery: what may go wrong together.                       *)
EXTENDS Recovery

Careless == {"autosave", "save fails", "snapshot restored"}

MCCircumstances ==
    {{"options", "snapshot fails"}, {"collections"}, {"symbol overwritten"}, Careless}

SavesFailOnly == {{"options", "save fails"}}

CollectionsOnly == {{"collections"}}

SymbolsOnly == {{"symbol overwritten"}}
=============================================================================
