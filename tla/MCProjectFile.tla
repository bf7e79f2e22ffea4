---------------------------- MODULE MCProjectFile ----------------------------
(* Small instances of ProjectFile for TLC.                                  *)
EXTENDS ProjectFile, TLC

CONSTANTS s1, s2, s3, e1, e2, e3

Alike == Permutations(Session) \union Permutations(Edit)
=============================================================================
