---------------------------- MODULE MCEventPath ----------------------------
(***************************************************************************)
(* Small instances of EventPath for TLC.                                   *)
(***************************************************************************)
EXTENDS EventPath

CONSTANTS c1, c2

OneClient == {c1}
TwoClients == {c1, c2}
=============================================================================
