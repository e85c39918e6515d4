--------------------------- MODULE MCQueueThreads ---------------------------
(***************************************************************************)
(* A small instance of QueueThreads for TLC.                                *)
(***************************************************************************)
EXTENDS QueueThreads

CONSTANTS p1, p2

TwoSensors == {p1, p2}
=============================================================================
