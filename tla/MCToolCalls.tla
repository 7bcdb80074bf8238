----------------------------- MODULE MCToolCalls -----------------------------
(***************************************************************************)
(* A small instance of ToolCalls: a process whose settings are all in the  *)
(* vault, whose lookups may fail, and two turns at a time.                 *)
(***************************************************************************)
EXTENDS ToolCalls, TLC

CONSTANTS c1, c2, v

MCEnvironments == {[n \in Names |-> Empty]}
MCInit == Init /\ vault = [n \in Names |-> v]
MCSpec == MCInit /\ [][Next]_vars
MCSymmetry == Permutations(Calls)
=============================================================================
