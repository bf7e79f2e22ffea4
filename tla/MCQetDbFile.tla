---------------------------- MODULE MCQetDbFile ----------------------------
(***************************************************************************)
(* Instances of QetDbFile: a row that is written as "a_" is "a" in a file. *)
(***************************************************************************)
EXTENDS QetDbFile, TLC

CONSTANTS p1, p2, t1, t2

MCNormal == "a" :> "a" @@ "b" :> "b" @@ "a_" :> "a"

MCSymmetry == Permutations(Paths)
=============================================================================
