-------------------------- MODULE AgentLoopProofs --------------------------
(***************************************************************************)
(* Proofs about AgentLoop, for every max_steps and every set of histories. *)
(***************************************************************************)
EXTENDS AgentLoop, TLAPS

-----------------------------------------------------------------------------
(* Types and the bookkeeping of the loop                                   *)

\* The last event heard at each point of the generator.
HeardAt ==
    [checking    |-> {"nothing", "tool_result"},
     thinking    |-> {"status"},
     calling     |-> {"tool_call"},
     observing   |-> {"tool_result"},
     summarising |-> {"status"},
     finishing   |-> {"token"},
     ended       |-> {"error", "done"}]

\* Inside an iteration there is a step left, and no step costs two generations.
LoopInv ==
    /\ heard \in HeardAt[pc]
    /\ pc \in {"thinking", "calling", "observing"} => step < MaxSteps
    /\ gens <= step + (IF pc \in {"calling", "observing", "finishing", "ended"}
                       THEN 1 ELSE 0)

\* A sequence over a set is one over a larger set.
LEMMA SeqMonotone ==
    ASSUME NEW S, NEW T, S \subseteq T, NEW s \in Seq(S)
    PROVE  s \in Seq(T)
OBVIOUS

\* A history is a conversation.
LEMMA HistoryType ==
    ASSUME NEW h \in Histories
    PROVE  h \in Seq(Messages)
<1>1. h \in Seq([role : Roles, step : {0}])
    BY ConstantsAssumption
<1>2. [role : Roles, step : {0}] \subseteq Messages
    BY DEF Messages
<1> QED BY <1>1, <1>2, SeqMonotone

\* A message of the loop joins the conversation.
LEMMA AppendType ==
    ASSUME NEW ms \in Seq(Messages), NEW r \in Roles, NEW n \in Nat
    PROVE  Append(ms, Message(r, n)) \in Seq(Messages)
<1>1. Message(r, n) \in Messages
    BY DEF Message, Messages
<1> QED BY <1>1

\* The counters stay numbers and grow by at most one.
LEMMA GenerateType ==
    ASSUME gens \in Nat, lateGens \in Nat, Generate
    PROVE  gens' \in Nat /\ lateGens' \in Nat /\ gens' <= gens + 1
BY ConstantsAssumption DEF Generate

LEMMA LoopInit == Init => TypeOK /\ LoopInv
<1> SUFFICES ASSUME Init PROVE TypeOK /\ LoopInv
    OBVIOUS
<1>1. history \in Histories /\ "user" \in Roles
    BY DEF Init, Roles
<1>2. messages \in Seq(Messages)
  <2>1. history \in Seq(Messages)
      BY <1>1, HistoryType
  <2>2. Append(history, Message("user", 0)) \in Seq(Messages)
      BY <1>1, <2>1, AppendType
  <2> QED BY <2>2 DEF Init
<1>3. TypeOK
  <2>1. /\ step \in 0..MaxSteps /\ pc \in PcStates /\ heard = "nothing"
        /\ closed = FALSE /\ late = FALSE /\ gens = 0 /\ lateGens = 0
      BY ConstantsAssumption DEF Init, PcStates
  <2> QED BY <1>1, <1>2, <2>1 DEF TypeOK
<1>4. LoopInv
    BY ConstantsAssumption DEF Init, LoopInv, HeardAt
<1> QED BY <1>3, <1>4

LEMMA LoopStep == TypeOK /\ LoopInv /\ [Next]_vars => (TypeOK /\ LoopInv)'
<1> SUFFICES ASSUME TypeOK, LoopInv, [Next]_vars
             PROVE  TypeOK' /\ LoopInv'
    OBVIOUS
<1> USE ConstantsAssumption DEF PcStates, Runs, Yield, TypeOK, LoopInv, HeardAt
<1>1. CASE TimesOut
    BY <1>1 DEF TimesOut
<1>2. CASE Thinks
    BY <1>2 DEF Thinks
<1>3. CASE Calls
  <2>1. messages' \in Seq(Messages)
      BY <1>3, AppendType DEF Calls, Roles
  <2> QED BY <1>3, <2>1, GenerateType DEF Calls
<1>4. CASE Answers
    BY <1>4, GenerateType DEF Answers
<1>5. CASE ToolRuns
    BY <1>5 DEF ToolRuns
<1>6. CASE Observes
  <2>1. messages' \in Seq(Messages)
      BY <1>6, AppendType DEF Observes, Roles
  <2> QED BY <1>6, <2>1 DEF Observes
<1>7. CASE Exhausted
    BY <1>7 DEF Exhausted
<1>8. CASE Synthesises
    BY <1>8, GenerateType DEF Synthesises
<1>9. CASE Finishes
    BY <1>9 DEF Finishes
<1>10. ASSUME NEW at \in {"thinking", "summarising"}, Fails(at)
       PROVE  TypeOK' /\ LoopInv'
    BY <1>10, GenerateType DEF Fails
<1>11. CASE Close
    BY <1>11 DEF Close
<1>12. CASE TimePasses
    BY <1>12 DEF TimePasses
<1>13. CASE UNCHANGED vars
    BY <1>13 DEF vars
<1> QED BY <1>1, <1>2, <1>3, <1>4, <1>5, <1>6, <1>7, <1>8, <1>9, <1>10, <1>11,
           <1>12, <1>13 DEF Next, GeneratorStep, Over

LEMMA LoopInvariant == Spec => [](TypeOK /\ LoopInv)
BY LoopInit, LoopStep, PTL DEF Spec

\* Every reachable state of run_agent is well typed.
THEOREM TypeCorrect == Spec => []TypeOK
BY LoopInvariant, PTL

\* A turn costs at most max_steps + 1 generations (loop.py:149-190).
THEOREM GenerationsAreBounded == Spec => []GensBounded
<1>1. TypeOK /\ LoopInv => GensBounded
    BY ConstantsAssumption DEF TypeOK, LoopInv, GensBounded, HeardAt, PcStates
<1> QED BY <1>1, LoopInvariant, PTL

-----------------------------------------------------------------------------
(* The deadline                                                            *)

\* An iteration only begins before the deadline, so no generation of the loop
\* is late when another begins; the synthesis may follow a late one.
LateInv ==
    /\ ~late => lateGens = 0
    /\ pc = "thinking" => lateGens = 0
    /\ pc \notin {"finishing", "ended"} => lateGens <= 1
    /\ lateGens <= 2

LEMMA LateStep == TypeOK /\ LateInv /\ [Next]_vars => LateInv'
<1> SUFFICES ASSUME TypeOK, LateInv, [Next]_vars PROVE LateInv'
    OBVIOUS
<1> USE DEF TypeOK, LateInv, Runs, Yield
<1>1. CASE TimesOut \/ Thinks
    BY <1>1 DEF TimesOut, Thinks
<1>2. CASE Calls \/ Answers
    BY <1>2 DEF Calls, Answers, Generate
<1>3. CASE ToolRuns \/ Observes \/ Exhausted
    BY <1>3 DEF ToolRuns, Observes, Exhausted
<1>4. CASE Synthesises
    BY <1>4 DEF Synthesises, Generate
<1>5. CASE Finishes
    BY <1>5 DEF Finishes
<1>6. ASSUME NEW at \in {"thinking", "summarising"}, Fails(at) PROVE LateInv'
    BY <1>6 DEF Fails, Generate
<1>7. CASE Close \/ TimePasses \/ UNCHANGED vars
    BY <1>7 DEF Close, TimePasses, vars
<1> QED BY <1>1, <1>2, <1>3, <1>4, <1>5, <1>6, <1>7 DEF Next, GeneratorStep, Over

\* Past the deadline a turn starts at most two generations, for every max_steps.
THEOREM DeadlineBoundsTheTurn == Spec => []BoundedByDeadline
<1>1. Init => LateInv
    BY DEF Init, LateInv
<1>2. LateInv => BoundedByDeadline
    BY DEF LateInv, BoundedByDeadline
<1> QED BY <1>1, <1>2, LateStep, LoopInvariant, PTL DEF Spec

-----------------------------------------------------------------------------
(* The conversation                                                        *)

\* What the two messages of step s+1 are.
LEMMA TurnPositions ==
    ASSUME NEW s \in Nat
    PROVE  /\ InTurn(2*s + 1) = Message("assistant", s + 1)
           /\ InTurn(2*s + 2) = Message("user", s + 1)
<1>1. /\ (2*s + 1) % 2 = 1 /\ (2*s + 2) % 2 = 0
      /\ ((2*s + 1) + 1) \div 2 = s + 1
      /\ ((2*s + 2) + 1) \div 2 = s + 1
    OBVIOUS
<1> QED BY <1>1 DEF InTurn

\* The conversation grows by the message its length calls for.
LEMMA ConversationGrows ==
    ASSUME NEW ms \in Seq(Messages), NEW a \in Nat, NEW k \in Nat, NEW m \in Messages,
           Len(ms) = a + k,
           \A i \in 1..k : ms[a + i] = InTurn(i),
           m = InTurn(k + 1)
    PROVE  /\ Len(Append(ms, m)) = a + (k + 1)
           /\ \A i \in 1..(k + 1) : Append(ms, m)[a + i] = InTurn(i)
<1>1. Len(Append(ms, m)) = a + (k + 1)
    OBVIOUS
<1>2. ASSUME NEW i \in 1..k PROVE Append(ms, m)[a + i] = InTurn(i)
    BY <1>2
<1>3. Append(ms, m)[a + (k + 1)] = InTurn(k + 1)
    OBVIOUS
<1>4. \A i \in 1..(k + 1) : i \in 1..k \/ i = k + 1
    OBVIOUS
<1> QED BY <1>1, <1>2, <1>3, <1>4

\* Every conversation the model is shown alternates its calls with the
\* observations of the same step (loop.py:143-144, 166-178).
THEOREM ConversationStaysInStep == Spec => []ConversationInStep
<1>1. Init => ConversationInStep
  <2> SUFFICES ASSUME Init PROVE ConversationInStep
      OBVIOUS
  <2>1. history \in Seq(Messages)
      BY HistoryType DEF Init
  <2>2. Len(messages) = Len(history) + 1
      BY <2>1 DEF Init
  <2> QED BY <2>1, <2>2 DEF Init, ConversationInStep, Asked
<1>2. /\ TypeOK /\ LoopInv /\ ConversationInStep
      /\ [Next]_vars
      => ConversationInStep'
  <2> SUFFICES ASSUME TypeOK, LoopInv, ConversationInStep, [Next]_vars
               PROVE  ConversationInStep'
      OBVIOUS
  <2>1. /\ Asked \in Nat /\ step \in Nat /\ Asked' = Asked
        /\ messages \in Seq(Messages)
    <3>1. history \in Seq(Messages)
        BY HistoryType DEF TypeOK
    <3>2. history' = history
        BY DEF Next, GeneratorStep, TimesOut, Thinks, Calls, Answers, ToolRuns,
               Observes, Exhausted, Synthesises, Fails, Finishes, Close,
               TimePasses, Over, vars
    <3> QED BY <3>1, <3>2, ConstantsAssumption DEF Asked, TypeOK
  <2>2. CASE Calls
    <3>1. /\ Len(messages) = Asked + 2 * step
          /\ \A i \in 1..(2 * step) : messages[Asked + i] = InTurn(i)
        BY <2>1, <2>2 DEF Calls, Runs, ConversationInStep
    <3>2. /\ Message("assistant", step + 1) \in Messages
          /\ Message("assistant", step + 1) = InTurn(2 * step + 1)
      <4>1. Message("assistant", step + 1) \in Messages
          BY <2>1 DEF Message, Messages, Roles
      <4>2. Message("assistant", step + 1) = InTurn(2 * step + 1)
          BY <2>1, TurnPositions
      <4> QED BY <4>1, <4>2
    <3>3. /\ Len(messages') = Asked + (2 * step + 1)
          /\ \A i \in 1..(2 * step + 1) : messages'[Asked + i] = InTurn(i)
      <4>1. messages' = Append(messages, Message("assistant", step + 1))
          BY <2>2 DEF Calls
      <4>2. 2 * step \in Nat
          BY <2>1
      <4>3. \A m \in Messages : m = InTurn(2 * step + 1) =>
              /\ Len(Append(messages, m)) = Asked + (2 * step + 1)
              /\ \A i \in 1..(2 * step + 1) : Append(messages, m)[Asked + i] = InTurn(i)
          BY <2>1, <3>1, <4>2, ConversationGrows
      <4> QED BY <3>2, <4>1, <4>3
    <3>4. pc' = "calling" /\ step' = step
        BY <2>2 DEF Calls, Yield
    <3> QED BY <2>1, <3>3, <3>4 DEF ConversationInStep
  <2>3. CASE Observes
    <3>1. /\ Len(messages) = Asked + (2 * step + 1)
          /\ \A i \in 1..(2 * step + 1) : messages[Asked + i] = InTurn(i)
        BY <2>1, <2>3 DEF Observes, Runs, ConversationInStep
    <3>2. /\ Message("user", step + 1) \in Messages
          /\ Message("user", step + 1) = InTurn((2 * step + 1) + 1)
      <4>1. Message("user", step + 1) \in Messages
          BY <2>1 DEF Message, Messages, Roles
      <4>2. Message("user", step + 1) = InTurn(2 * step + 2)
          BY <2>1, TurnPositions
      <4>3. (2 * step + 1) + 1 = 2 * step + 2
          BY <2>1
      <4> QED BY <4>1, <4>2, <4>3
    <3>3. /\ Len(messages') = Asked + ((2 * step + 1) + 1)
          /\ \A i \in 1..((2 * step + 1) + 1) : messages'[Asked + i] = InTurn(i)
      <4>1. messages' = Append(messages, Message("user", step + 1))
          BY <2>3 DEF Observes
      <4>2. 2 * step + 1 \in Nat
          BY <2>1
      <4>3. \A m \in Messages : m = InTurn((2 * step + 1) + 1) =>
              /\ Len(Append(messages, m)) = Asked + ((2 * step + 1) + 1)
              /\ \A i \in 1..((2 * step + 1) + 1) :
                    Append(messages, m)[Asked + i] = InTurn(i)
          BY <2>1, <3>1, <4>2, ConversationGrows
      <4> QED BY <3>2, <4>1, <4>3
    <3>4. pc' = "checking" /\ step' = step + 1
        BY <2>3 DEF Observes
    <3> QED BY <2>1, <3>3, <3>4 DEF ConversationInStep
  <2>4. CASE ~Calls /\ ~Observes
    <3>1. /\ messages' = messages /\ step' = step
          /\ (pc' \in {"calling", "observing"}) = (pc \in {"calling", "observing"})
        BY <2>4 DEF Next, GeneratorStep, TimesOut, Thinks, Answers, ToolRuns,
                    Exhausted, Synthesises, Fails, Finishes, Close,
                    TimePasses, Over, vars, Runs, Yield
    <3> QED BY <2>1, <3>1 DEF ConversationInStep
  <2> QED BY <2>2, <2>3, <2>4
<1> QED BY <1>1, <1>2, LoopInvariant, PTL DEF Spec

-----------------------------------------------------------------------------
(* The protocol                                                            *)

\* run_agent implements the protocol the page is written for.
THEOREM LoopFollowsProtocol == Spec => FollowsProtocol
<1> DEFINE heardCalls == step + (IF pc \in {"calling", "observing"} THEN 1 ELSE 0)
<1>1. Init => Protocol!Init
    BY DEF Init, Protocol!Init
<1>2. TypeOK /\ LoopInv /\ [Next]_vars => [Protocol!Next]_<<heard, heardCalls>>
  <2> SUFFICES ASSUME TypeOK, LoopInv, [Next]_vars
               PROVE  \/ Protocol!Next
                      \/ heard' = heard /\ heardCalls' = heardCalls
      OBVIOUS
  <2> USE ConstantsAssumption
      DEF TypeOK, LoopInv, HeardAt, Runs, Yield, PcStates, Protocol!Next,
          Protocol!Hear, Protocol!Events, Protocol!Follows
  <2>1. CASE TimesOut
      BY <2>1 DEF TimesOut
  <2>2. CASE Thinks
      BY <2>2 DEF Thinks
  <2>3. CASE Calls
      BY <2>3 DEF Calls
  <2>4. CASE Answers
      BY <2>4 DEF Answers
  <2>5. CASE ToolRuns
      BY <2>5 DEF ToolRuns
  <2>6. CASE Observes
      BY <2>6 DEF Observes
  <2>7. CASE Exhausted
      BY <2>7 DEF Exhausted
  <2>8. CASE Synthesises
      BY <2>8 DEF Synthesises
  <2>9. CASE Finishes
      BY <2>9 DEF Finishes
  <2>10. ASSUME NEW at \in {"thinking", "summarising"}, Fails(at)
         PROVE  Protocol!Next
      BY <2>10 DEF Fails
  <2>11. CASE Close \/ TimePasses \/ UNCHANGED vars
      BY <2>11 DEF Close, TimePasses, vars
  <2> QED BY <2>1, <2>2, <2>3, <2>4, <2>5, <2>6, <2>7, <2>8, <2>9, <2>10, <2>11
          DEF Next, GeneratorStep, Over
<1> QED BY <1>1, <1>2, LoopInvariant, PTL DEF Spec, FollowsProtocol, Protocol!Spec
=============================================================================
