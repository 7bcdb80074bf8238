----------------------------- MODULE AgentLoop -----------------------------
(***************************************************************************)
(* run_agent of agents/loop.py: the prompted-JSON tool loop as the sync    *)
(* generator it is.  The consumer (a workbench stream or a scorecard case) *)
(* resumes it after each event or closes it while it is suspended; the     *)
(* clock passes the deadline at any moment; each generation may call a     *)
(* tool, answer in prose or raise.                                         *)
(*                                                                         *)
(* A message is its role and the step it belongs to (0 for the messages    *)
(* before the loop).  An unknown tool, a tool that raises and one that     *)
(* answers all leave an observation, so they are one action; an empty      *)
(* answer is replaced by "(no answer)", so every answer is one token.      *)
(***************************************************************************)
EXTENDS Naturals, Sequences

CONSTANTS
    MaxSteps,    \* max_steps
    Histories    \* the conversations a turn may start from

Roles == {"user", "assistant"}
Message(role, n) == [role |-> role, step |-> n]
Messages == [role : Roles, step : Nat]

ASSUME ConstantsAssumption ==
    /\ MaxSteps \in Nat
    /\ Histories \subseteq Seq([role : Roles, step : {0}])

VARIABLES
    history,   \* the argument history
    messages,  \* the local list messages
    step,      \* completed iterations of the for loop
    pc,        \* where the generator is suspended or what it does next
    heard,     \* the last event it yielded, or "nothing"
    closed,    \* whether the consumer has closed it
    late,      \* whether the clock is past the deadline
    gens,      \* how many generations it has started
    lateGens   \* how many of them after the deadline

vars == <<history, messages, step, pc, heard, closed, late, gens, lateGens>>

PcStates == {"checking", "thinking", "calling", "observing", "summarising",
             "finishing", "ended"}

TypeOK ==
    /\ history \in Histories
    /\ messages \in Seq(Messages)
    /\ step \in 0..MaxSteps
    /\ pc \in PcStates
    /\ heard \in {"nothing", "status", "tool_call", "tool_result", "token",
                  "error", "done"}
    /\ closed \in BOOLEAN /\ late \in BOOLEAN
    /\ gens \in Nat /\ lateGens \in Nat

\* The call and the first next(): the question joins a copy of the history.
Init ==
    /\ history \in Histories
    /\ messages = Append(history, Message("user", 0))
    /\ step = 0
    /\ pc = "checking"
    /\ heard = "nothing"
    /\ closed = FALSE
    /\ late = FALSE
    /\ gens = 0
    /\ lateGens = 0

-----------------------------------------------------------------------------
Runs(at) == pc = at /\ ~closed
Yield(event, next) == heard' = event /\ pc' = next

\* The counters saturate: nothing depends on more than one generation too many.
Generate ==
    /\ gens' = IF gens <= MaxSteps + 1 THEN gens + 1 ELSE gens
    /\ lateGens' = IF late /\ lateGens <= 2 THEN lateGens + 1 ELSE lateGens

TimesOutSilently ==
    /\ Runs("checking") /\ step < MaxSteps
    /\ late
    /\ pc' = "ended"
    /\ UNCHANGED <<history, messages, step, heard, closed, late, gens, lateGens>>

\* The deadline has passed at the top of an iteration.
TimesOut ==
    /\ Runs("checking") /\ step < MaxSteps
    /\ late
    /\ Yield("error", "ended")
    /\ UNCHANGED <<history, messages, step, closed, late, gens, lateGens>>

ThinksOnceMore ==
    /\ Runs("checking") /\ step <= MaxSteps
    /\ ~late
    /\ Yield("status", "thinking")
    /\ UNCHANGED <<history, messages, step, closed, late, gens, lateGens>>

ThinksWhateverTheTime ==
    /\ Runs("checking") /\ step < MaxSteps
    /\ Yield("status", "thinking")
    /\ UNCHANGED <<history, messages, step, closed, late, gens, lateGens>>

\* "Thinking (step n/max)"
Thinks ==
    /\ Runs("checking") /\ step < MaxSteps
    /\ ~late
    /\ Yield("status", "thinking")
    /\ UNCHANGED <<history, messages, step, closed, late, gens, lateGens>>

CallsForgetting ==
    /\ Runs("thinking")
    /\ Generate
    /\ Yield("tool_call", "calling")
    /\ UNCHANGED <<history, messages, step, closed, late>>

\* The generation holds a tool call.
Calls ==
    /\ Runs("thinking")
    /\ Generate
    /\ messages' = Append(messages, Message("assistant", step + 1))
    /\ Yield("tool_call", "calling")
    /\ UNCHANGED <<history, step, closed, late>>

\* The generation is prose: out of the loop with the final answer.
Answers ==
    /\ Runs("thinking")
    /\ Generate
    /\ Yield("token", "finishing")
    /\ UNCHANGED <<history, messages, step, closed, late>>

\* The tool runs, _run_tool turns whatever it raises into evidence.
ToolRuns ==
    /\ Runs("calling")
    /\ Yield("tool_result", "observing")
    /\ UNCHANGED <<history, messages, step, closed, late, gens, lateGens>>

\* The observation joins the conversation, the next iteration begins.
Observes ==
    /\ Runs("observing")
    /\ messages' = Append(messages, Message("user", step + 1))
    /\ step' = step + 1
    /\ pc' = "checking"
    /\ UNCHANGED <<history, heard, closed, late, gens, lateGens>>

\* The else branch of the for loop.
Exhausted ==
    /\ Runs("checking") /\ step = MaxSteps
    /\ Yield("status", "summarising")
    /\ UNCHANGED <<history, messages, step, closed, late, gens, lateGens>>

\* The synthesis prompt is not added to messages itself.
Synthesises ==
    /\ Runs("summarising")
    /\ Generate
    /\ Yield("token", "finishing")
    /\ UNCHANGED <<history, messages, step, closed, late>>

FailsAndGoesOn(at) ==
    /\ Runs(at)
    /\ Generate
    /\ Yield("error", "finishing")
    /\ UNCHANGED <<history, messages, step, closed, late>>

\* "Generation failed", in the loop and in the synthesis.
Fails(at) ==
    /\ Runs(at)
    /\ Generate
    /\ Yield("error", "ended")
    /\ UNCHANGED <<history, messages, step, closed, late>>

Finishes ==
    /\ Runs("finishing")
    /\ Yield("done", "ended")
    /\ UNCHANGED <<history, messages, step, closed, late, gens, lateGens>>

-----------------------------------------------------------------------------
\* The consumer goes away while the generator is suspended.
Close ==
    /\ ~closed /\ pc # "ended"
    /\ closed' = TRUE
    /\ UNCHANGED <<history, messages, step, pc, heard, late, gens, lateGens>>

TimePasses ==
    /\ ~late
    /\ late' = TRUE
    /\ UNCHANGED <<history, messages, step, pc, heard, closed, gens, lateGens>>

Over == (pc = "ended" \/ closed) /\ UNCHANGED vars

GeneratorStep ==
    \/ TimesOut \/ Thinks \/ Calls \/ Answers \/ ToolRuns \/ Observes
    \/ Exhausted \/ Synthesises \/ Finishes
    \/ Fails("thinking") \/ Fails("summarising")

Next == GeneratorStep \/ Close \/ TimePasses \/ Over

Spec == Init /\ [][Next]_vars

\* The consumer drains the generator or closes it; generations and tools end.
FairSpec == Spec /\ WF_vars(GeneratorStep)

-----------------------------------------------------------------------------
(* Properties *)

Asked == Len(history) + 1

\* The messages of the loop after the question: call, observation, call, ...
InTurn(i) ==
    Message(IF i % 2 = 1 THEN "assistant" ELSE "user", (i + 1) \div 2)

\* The model is always shown the whole exchange in order: after the question
\* every call it made with the observation of that very step, and whenever it
\* is asked again the last word is not its own.
ConversationInStep ==
    /\ Len(messages) = Asked + 2 * step + (IF pc \in {"calling", "observing"} THEN 1 ELSE 0)
    /\ \A i \in 1..(Len(messages) - Asked) : messages[Asked + i] = InTurn(i)

\* A turn costs at most one generation per step and one for the synthesis.
GensBounded == gens <= MaxSteps + 1

\* Whatever the model, the tools and the clock do, the turn ends, and a page
\* that stays is told so: the last event is an answer's "done" or an "error".
EndsTold == <>(closed \/ (pc = "ended" /\ heard \in {"done", "error"}))

\* The page of the turn sees the protocol of TurnProtocol.
Protocol == INSTANCE TurnProtocol
    WITH MaxCalls <- MaxSteps,
         calls <- step + (IF pc \in {"calling", "observing"} THEN 1 ELSE 0)
FollowsProtocol == Protocol!Spec

\* loop.py:14-15: the loop is bounded by a wall-clock deadline.  Once it has
\* passed at most two generations are started: the one whose check came before,
\* and the synthesis, which has no check of its own.
BoundedByDeadline == lateGens <= 2
=============================================================================
