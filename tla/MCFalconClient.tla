--------------------------- MODULE MCFalconClient ---------------------------
(***************************************************************************)
(* Small instances of FalconClient.                                        *)
(***************************************************************************)
EXTENDS FalconClient

CONSTANTS c1, c2
=============================================================================
