-------------------------- MODULE MCSingleInstance --------------------------
(* Instances of SingleInstance: what may happen together.                   *)
EXTENDS SingleInstance

Busy == {"starting", "loading"}
Impatient == {"starting", "loading", "again", "closing"}

MCCircumstances == {Busy, Impatient}
Starting == {{"starting"}}
Loading == {{"loading"}}
=============================================================================
