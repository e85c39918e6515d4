--------------------------- MODULE MCSensorThread ---------------------------
(***************************************************************************)
(* Small instances of SensorThread for TLC.                                *)
(***************************************************************************)
EXTENDS SensorThread

CONSTANTS opto, dht

OptoDht == {opto, dht}
OnlyDht == {dht}

OptoDhtKind == [s \in OptoDht |-> IF s = opto THEN "opto" ELSE "dht"]
DhtKind == [s \in OnlyDht |-> "dht"]
=============================================================================
