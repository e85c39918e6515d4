--------------------------- MODULE MCClientUpdate ---------------------------
(***************************************************************************)
(* Small instances of ClientUpdate for TLC.                                *)
(***************************************************************************)
EXTENDS ClientUpdate

ShortFiles == {"copy"}
FullDisk == {"write"}
=============================================================================
