--------------------------- MODULE MCElementLinks ---------------------------
(***************************************************************************)
(* Instances of ElementLinks: coils and contacts, PLC masters and a slave, *)
(* and three arrows of one label, the last two on one folio.               *)
(***************************************************************************)
EXTENDS ElementLinks

CONSTANTS m1, m2, s1, s2, p1, p2, q1, n1, v1, v2, r1, r2

MCKind == [e \in Elements |->
    CASE e \in {m1, m2} -> "master" [] e \in {s1, s2} -> "slave"
      [] e \in {p1, p2} -> "plc master" [] e = q1 -> "plc slave"
      [] e = n1 -> "next" [] e \in {v1, v2} -> "previous"]

MCRowsOf == [e \in Elements |->
    IF e = p1 THEN {r1, r2} ELSE IF e \in {p2, m1} THEN {r1} ELSE {}]
MCLabel == [e \in Elements |-> IF IsReport(e) THEN "W1" ELSE NoLabel]
MCFolio == [e \in Elements |-> IF e = n1 THEN 1 ELSE 2]
MCScenes == {{m1, s1, s2}, {m1, m2, s1}, {p1, p2, q1}, {n1, v1, v2}}
MCFewScenes == {{m1, m2, s1}, {n1, v1}}
MCRemovals == {{e} : e \in Elements} \union {{m1, s1}, {n1, v1}}
=============================================================================
