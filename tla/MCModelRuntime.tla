--------------------------- MODULE MCModelRuntime ---------------------------
(***************************************************************************)
(* Small instances of ModelRuntime: chats over two models and a delete.    *)
(***************************************************************************)
EXTENDS ModelRuntime

CONSTANTS mA, mB, r1, r2, d1
=============================================================================
