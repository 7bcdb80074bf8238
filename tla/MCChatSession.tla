--------------------------- MODULE MCChatSession ---------------------------
(***************************************************************************)
(* Small instances of ChatSession.                                         *)
(***************************************************************************)
EXTENDS ChatSession

CONSTANTS w1, w2, t1, t2
=============================================================================
