---------------------------- MODULE MCScorecard ----------------------------
(***************************************************************************)
(* Small instances of Scorecard: the control case and one that expects a   *)
(* tool, and turns that answer without calling one, or fail.               *)
(***************************************************************************)
EXTENDS Scorecard, TLC

MCSuite == <<"control", "tool">>
MCOutcomes == {[called |-> "nothing", completed |-> TRUE]}
=============================================================================
