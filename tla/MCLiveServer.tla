---------------------------- MODULE MCLiveServer ----------------------------
(* Small instances of LiveServer for TLC.                                   *)
EXTENDS LiveServer, TLC

CONSTANTS c1, c2, c3

Alike == Permutations(Conn)
=============================================================================
