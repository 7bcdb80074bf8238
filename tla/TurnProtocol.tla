---------------------------- MODULE TurnProtocol ----------------------------
(***************************************************************************)
(* What an agent turn promises the page that shows it (web/static/chat.js  *)
(* lines 4-5): the order of the step events run_agent yields.  Every tool  *)
(* call is followed by its result before anything else, at most MaxCalls   *)
(* tools are called, nothing follows "done" or "error", and "done" only    *)
(* follows an answer.                                                      *)
(***************************************************************************)
EXTENDS Naturals

CONSTANT MaxCalls

VARIABLES
    heard,   \* the last event the page heard, or "nothing"
    calls    \* how many tool calls it heard

Events == {"status", "tool_call", "tool_result", "token", "error", "done"}

\* The events that may follow each.
Follows ==
    [nothing     |-> {"status", "error"},
     status      |-> {"status", "tool_call", "token", "error"},
     tool_call   |-> {"tool_result"},
     tool_result |-> {"status", "error"},
     token       |-> {"token", "done"},
     error       |-> {},
     done        |-> {}]

Init == heard = "nothing" /\ calls = 0

Hear(e) ==
    /\ e \in Follows[heard]
    /\ heard' = e
    /\ calls' = IF e = "tool_call" THEN calls + 1 ELSE calls
    /\ calls' <= MaxCalls

Next == \E e \in Events : Hear(e)

Spec == Init /\ [][Next]_<<heard, calls>>
=============================================================================
