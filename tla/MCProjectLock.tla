--------------------------- MODULE MCProjectLock ---------------------------
(* Small instances of ProjectLock for TLC.                                 *)
EXTENDS ProjectLock, TLC
CONSTANTS s1, s2, s3, p1, p2, p3, pcA, pcB
\* Two QElectroTech on one machine, one on another.
OneMachineHosts == [s \in Session |-> pcA]
TwoMachineHosts == [s \in Session |-> IF s = s3 THEN pcB ELSE pcA]
\* s1 and s2 are alike: no fairness or order distinguishes them.
Alike == Permutations({s1, s2})
=============================================================================
