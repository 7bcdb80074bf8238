---------------------------- MODULE MCAgentLoop ----------------------------
(***************************************************************************)
(* Small instances of AgentLoop.  A turn starts from an empty              *)
(* conversation, from one with an answered question, or from one whose     *)
(* last question was never answered because its turn failed.               *)
(***************************************************************************)
EXTENDS AgentLoop, TLC

MCHistories ==
    {<<>>,
     <<Message("user", 0), Message("assistant", 0)>>,
     <<Message("user", 0)>>}
=============================================================================
