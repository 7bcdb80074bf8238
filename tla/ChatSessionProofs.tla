------------------------- MODULE ChatSessionProofs --------------------------
(***************************************************************************)
(* Proofs about ChatSession, for any tabs, turns and clears.  The history  *)
(* only ever grows at its end or is emptied, so what matters is which turn *)
(* may still append what: the inductive invariants read that off a turn's  *)
(* place in its handler.                                                   *)
(***************************************************************************)
EXTENDS ChatSession, SequenceTheorems, TLAPS

Message == {"user", "assistant"} \X Turns
EventNames == {"nothing", "status", "tool_call", "tool_result", "token", "error", "done"}

\* What a turn's stream may yield next is an event of the type.
LEMMA EventsAreEvents ==
    ASSUME TypeOK, NEW t \in Turns PROVE Events(t) \subseteq EventNames \ {"nothing"}
  BY DEF TypeOK, Events, EventNames, Protocol!Follows

\* The messages of a turn are messages.
LEMMA TurnMessages ==
    ASSUME NEW t \in Turns PROVE Question(t) \in Message /\ Answer(t) \in Message
  BY DEF Question, Answer, Message

\* An append keeps the type of the history.
LEMMA AppendKeepsType ==
    ASSUME NEW s \in History, NEW e \in Message PROVE Append(s, e) \in History
  BY AppendProperties DEF History, Message

-----------------------------------------------------------------------------
(* Types *)

LEMMA TypeInit == Init => TypeOK
<1> SUFFICES ASSUME Init PROVE TypeOK
  OBVIOUS
<1>1. <<>> \in History
  BY EmptySeq DEF History
<1> QED  BY <1>1, ConstantsAssumption DEF Init, TypeOK

LEMMA TypeNext == TypeOK /\ [Next]_vars => TypeOK'
<1> SUFFICES ASSUME TypeOK, [Next]_vars PROVE TypeOK'
  OBVIOUS
<1> USE DEF TypeOK, ghosts, Go
<1>1. ASSUME NEW t \in Turns, TurnStep(t) PROVE TypeOK'
  <2>1. CASE Reject(t)
    BY <2>1 DEF Reject, Yield
  <2>2. CASE Read(t)
    BY <2>2 DEF Read
  <2>3. CASE Ask(t)
    BY <2>3, AppendKeepsType, TurnMessages DEF Ask
  <2>4. CASE Stream(t)
    BY <2>4, EventsAreEvents DEF Stream, Yield, EventNames
  <2>5. CASE Fail(t)
    BY <2>5 DEF Fail, Yield
  <2>6. CASE RecordPlain(t)
    BY <2>6, AppendKeepsType, TurnMessages DEF RecordPlain, RecordAnswer
  <2>7. CASE FinishPlain(t)
    BY <2>7 DEF FinishPlain, Yield
  <2>8. CASE Return(t)
    <3>1. store' \in History
      BY <2>8, AppendKeepsType, TurnMessages DEF Return, RecordAnswer
    <3>2. <<>> \in History
      BY EmptySeq DEF History
    <3> QED  BY <2>8, <3>1, <3>2 DEF Return
  <2> QED  BY <1>1, <2>1, <2>2, <2>3, <2>4, <2>5, <2>6, <2>7, <2>8 DEF TurnStep
<1>2. ASSUME NEW t \in Turns, Cancel(t) PROVE TypeOK'
  <2>1. <<>> \in History
    BY EmptySeq DEF History
  <2> QED  BY <1>2, <2>1 DEF Cancel
<1>9. ASSUME NEW t \in Turns, Hang(t) PROVE TypeOK'
  BY <1>9 DEF Hang
<1>3. ASSUME NEW w \in Tabs, NEW t \in Turns, Submit(w, t) PROVE TypeOK'
  BY <1>3 DEF Submit
<1>4. ASSUME NEW w \in Tabs, NEW t \in Turns, EndOfStream(w, t) PROVE TypeOK'
  BY <1>4 DEF EndOfStream, Free
<1>5. ASSUME NEW w \in Tabs, NEW t \in Turns, Cut(w, t) PROVE TypeOK'
  BY <1>5 DEF Cut, Free
<1>6. ASSUME NEW w \in Tabs, Leave(w) PROVE TypeOK'
  BY <1>6 DEF Leave, LeavePage, Free
<1>7. ASSUME NEW w \in Tabs, Clear(w) PROVE TypeOK'
  <2>1. <<>> \in History
    BY EmptySeq DEF History
  <2>2. clears' \in 0..MaxClears
    BY <1>7, ConstantsAssumption DEF Clear
  <2> QED  BY <1>7, <2>1, <2>2 DEF Clear, LeavePage, Free
<1>8. CASE UNCHANGED vars
  BY <1>8 DEF vars
<1> QED  BY <1>1, <1>2, <1>3, <1>4, <1>5, <1>6, <1>7, <1>8, <1>9 DEF Next, Quiet

\* Every reachable state of a conversation is well typed.
THEOREM TypeCorrect == Spec => []TypeOK
<1> QED  BY TypeInit, TypeNext, PTL DEF Spec

-----------------------------------------------------------------------------
(* The history *)

Early == {"unsent", "received", "read"}
Asked(t) == pc[t] \notin Early /\ kind # "unknown"

\* What the place of a turn says of its last event.
PlaceView(t) ==
    /\ pc[t] \in Early => heard[t] = "nothing" /\ t \notin wiped
    /\ pc[t] = "read" => kind # "unknown"
    /\ pc[t] = "streaming" =>
          /\ kind # "unknown" /\ heard[t] \notin {"done", "error"}
          /\ kind = "plain" => heard[t] \in {"nothing", "status", "token"}
    /\ pc[t] = "recorded" => kind = "plain" /\ heard[t] \in {"status", "token"}
    /\ pc[t] \in {"closing", "ended"} => heard[t] \in {"done", "error"}
    /\ kind = "unknown" => heard[t] \in {"nothing", "error"}

\* The turns whose answer may be in the history.
MayBeAnswered(t) ==
    \/ kind = "plain" /\ pc[t] \in {"recorded", "closing", "ended", "cancelled"}
                      /\ heard[t] \in {"status", "token", "done"}
    \/ kind = "tools" /\ pc[t] = "ended" /\ heard[t] = "done"

\* The messages of a turn, wiped or not.
MessageView(t) ==
    /\ Asked(t) /\ t \notin wiped => \E i \in DOMAIN store : At(Question(t)) = {i}
    /\ ~Asked(t) \/ t \in wiped => At(Question(t)) = {}
    /\ At(Answer(t)) # {} => MayBeAnswered(t)
    /\ \A i, j \in At(Answer(t)) : i = j
    /\ Recorded(t) /\ t \notin wiped =>
          \E i, j \in DOMAIN store :
              i < j /\ At(Question(t)) = {i} /\ At(Answer(t)) = {j}

HistoryInv == \A t \in Turns : PlaceView(t) /\ MessageView(t)

\* Messages are told apart by role and turn.
LEMMA MessagesDiffer ==
    ASSUME NEW t \in Turns, NEW u \in Turns
    PROVE  /\ Question(t) # Answer(u)
           /\ Question(t) = Question(u) => t = u
           /\ Answer(t) = Answer(u) => t = u
  BY DEF Question, Answer

\* An append adds one place, the last, to those of its message only.
LEMMA PlacesAfterAppend ==
    ASSUME TypeOK, NEW e \in Message, store' = Append(store, e), NEW m
    PROVE  /\ At(m) \subseteq DOMAIN store /\ DOMAIN store \subseteq DOMAIN store'
           /\ m # e => At(m)' = At(m)
           /\ m = e => At(m)' = At(m) \cup {Len(store) + 1}
           /\ Len(store) + 1 \in DOMAIN store'
           /\ \A i \in DOMAIN store : i < Len(store) + 1
<1>1. /\ store \in Seq(Message) /\ Len(store) \in Nat
      /\ DOMAIN store = 1..Len(store)
  BY DEF TypeOK, History, Message
<1>2. /\ DOMAIN store' = 1..(Len(store) + 1)
      /\ \A i \in 1..Len(store) : store'[i] = store[i]
      /\ store'[Len(store) + 1] = e
  BY <1>1, AppendProperties
<1>3. m # e => At(m)' = At(m)
  BY <1>1, <1>2 DEF At
<1>4. m = e => At(m)' = At(m) \cup {Len(store) + 1}
  BY <1>1, <1>2 DEF At
<1> QED  BY <1>1, <1>2, <1>3, <1>4 DEF At

\* A step of another turn, which may append that turn's messages only.
LEMMA OthersHistory ==
    ASSUME TypeOK, NEW t \in Turns, NEW u \in Turns \ {t},
           PlaceView(u), MessageView(u),
           pc'[u] = pc[u], heard'[u] = heard[u], UNCHANGED <<kind, wiped>>,
           \/ UNCHANGED store
           \/ store' = Append(store, Question(t))
           \/ store' = Append(store, Answer(t))
    PROVE  PlaceView(u)' /\ MessageView(u)'
<1>1. PlaceView(u)'
  BY DEF PlaceView, Early
<1>2. /\ At(Question(u))' = At(Question(u)) /\ At(Answer(u))' = At(Answer(u))
      /\ DOMAIN store \subseteq DOMAIN store'
  <2>1. CASE UNCHANGED store
    BY <2>1 DEF At
  <2>2. CASE \E e \in {Question(t), Answer(t)} : store' = Append(store, e)
    <3>1. PICK e \in {Question(t), Answer(t)} : store' = Append(store, e)
      BY <2>2
    <3>2. e \in Message /\ Question(u) # e /\ Answer(u) # e
      BY <3>1, TurnMessages, MessagesDiffer
    <3> QED  BY <3>1, <3>2, PlacesAfterAppend
  <2> QED  BY <2>1, <2>2
<1> QED  BY <1>1, <1>2 DEF MessageView, Asked, Recorded, MayBeAnswered, Early

\* A turn that asks has one question more, a turn that asked nothing before.
LEMMA QuestionAsked ==
    ASSUME TypeOK, NEW t \in Turns, MessageView(t),
           ~Asked(t), ~Recorded(t)', Asked(t)', t \notin wiped', ~MayBeAnswered(t),
           store' = Append(store, Question(t))
    PROVE  MessageView(t)'
<1>1. /\ At(Question(t))' = {Len(store) + 1} /\ At(Answer(t))' = {}
      /\ Len(store) + 1 \in DOMAIN store'
  <2>1. Question(t) \in Message /\ Answer(t) # Question(t)
    BY TurnMessages, MessagesDiffer
  <2> QED  BY <2>1, PlacesAfterAppend DEF MessageView
<1> QED  BY <1>1 DEF MessageView

\* A turn that records has one answer, after its question if that is there.
LEMMA AnswerRecorded ==
    ASSUME TypeOK, NEW t \in Turns, MessageView(t),
           Asked(t), ~MayBeAnswered(t), Asked(t)', MayBeAnswered(t)', UNCHANGED wiped,
           store' = Append(store, Answer(t))
    PROVE  MessageView(t)'
<1> DEFINE last == Len(store) + 1
<1>1. /\ At(Question(t))' = At(Question(t)) /\ At(Answer(t))' = {last}
      /\ last \in DOMAIN store' /\ DOMAIN store \subseteq DOMAIN store'
      /\ \A i \in DOMAIN store : i < last
  <2>1. Answer(t) \in Message /\ Answer(t) # Question(t)
    BY TurnMessages, MessagesDiffer
  <2>2. At(Answer(t)) = {}
    BY DEF MessageView
  <2> QED  BY <2>1, <2>2, PlacesAfterAppend
<1> HIDE DEF last
<1>2. t \notin wiped => \E i \in DOMAIN store : At(Question(t)) = {i}
  BY DEF MessageView
<1>3. t \in wiped => At(Question(t)) = {}
  BY DEF MessageView
<1>4. \A i, j \in At(Answer(t))' : i = j
  BY <1>1
<1>5. t \notin wiped => \E i, j \in DOMAIN store' :
          i < j /\ At(Question(t))' = {i} /\ At(Answer(t))' = {j}
  BY <1>1, <1>2
<1> QED  BY <1>1, <1>2, <1>3, <1>4, <1>5 DEF MessageView

\* A turn that moves on without a word keeps what is there.
LEMMA NothingAppended ==
    ASSUME NEW t \in Turns, MessageView(t), UNCHANGED <<store, wiped>>,
           Asked(t)' <=> Asked(t), MayBeAnswered(t) => MayBeAnswered(t)',
           Recorded(t)' => Recorded(t)
    PROVE  MessageView(t)'
<1>1. At(Question(t))' = At(Question(t)) /\ At(Answer(t))' = At(Answer(t))
  BY DEF At
<1> QED  BY <1>1 DEF MessageView

\* A step of t that leaves the control of other turns alone.
LEMMA OneTurnMoves ==
    ASSUME TypeOK, HistoryInv, NEW t \in Turns,
           \A u \in Turns \ {t} : pc'[u] = pc[u] /\ heard'[u] = heard[u],
           UNCHANGED <<kind, wiped>>,
           \/ UNCHANGED store
           \/ store' = Append(store, Question(t))
           \/ store' = Append(store, Answer(t)),
           PlaceView(t)', MessageView(t)'
    PROVE  HistoryInv'
<1> SUFFICES ASSUME NEW u \in Turns \ {t} PROVE PlaceView(u)' /\ MessageView(u)'
  BY DEF HistoryInv
<1> QED  BY OthersHistory DEF HistoryInv

LEMMA HistoryInit == Init => HistoryInv
  BY DEF Init, HistoryInv, PlaceView, MessageView, Early, Asked, MayBeAnswered, Recorded, At

LEMMA HistoryNext ==
    ASSUME TypeOK, HistoryInv, [Next]_vars PROVE HistoryInv'
<1> USE DEF ghosts, Go, Yield, Early
<1>1. ASSUME NEW t \in Turns, TurnStep(t) PROVE HistoryInv'
  <2> PlaceView(t) /\ MessageView(t)
    BY DEF HistoryInv
  <2>1. \A u \in Turns \ {t} : pc'[u] = pc[u] /\ heard'[u] = heard[u]
    BY <1>1 DEF TypeOK, TurnStep, Reject, Read, Ask, Stream, Fail, RecordPlain, FinishPlain, Return
  <2>2. UNCHANGED <<kind, wiped>>
    BY <1>1 DEF TurnStep, Reject, Read, Ask, Stream, Fail, RecordPlain, FinishPlain, Return
  <2>3. CASE Reject(t)
    <3>1. /\ pc[t] = "received" /\ pc'[t] = "closing" /\ heard'[t] = "error"
          /\ kind = "unknown" /\ UNCHANGED store
      BY <2>3 DEF Reject, TypeOK
    <3>2. PlaceView(t)'
      BY <2>2, <3>1 DEF PlaceView
    <3>3. MessageView(t)'
      BY <2>2, <3>1, NothingAppended DEF Asked, MayBeAnswered, Recorded
    <3> QED  BY <2>1, <2>2, <3>1, <3>2, <3>3, OneTurnMoves
  <2>4. CASE Read(t)
    <3>1. /\ pc[t] = "received" /\ pc'[t] = "read" /\ heard'[t] = heard[t]
          /\ kind # "unknown" /\ UNCHANGED store
      BY <2>4 DEF Read, TypeOK
    <3>2. PlaceView(t)'
      BY <2>2, <3>1 DEF PlaceView
    <3>3. MessageView(t)'
      BY <2>2, <3>1, NothingAppended DEF Asked, MayBeAnswered, Recorded
    <3> QED  BY <2>1, <2>2, <3>1, <3>2, <3>3, OneTurnMoves
  <2>5. CASE Ask(t)
    <3>1. /\ pc[t] = "read" /\ pc'[t] = "streaming" /\ heard'[t] = heard[t]
          /\ store' = Append(store, Question(t))
      BY <2>5 DEF Ask, TypeOK
    <3>2. PlaceView(t)'
      BY <2>2, <3>1 DEF PlaceView
    <3>3. MessageView(t)'
      BY <2>2, <3>1, QuestionAsked DEF PlaceView, Asked, MayBeAnswered, Recorded
    <3> QED  BY <2>1, <2>2, <3>1, <3>2, <3>3, OneTurnMoves
  <2>6. CASE Stream(t)
    <3>1. /\ pc[t] = "streaming" /\ UNCHANGED store
          /\ \/ pc'[t] = "closing" /\ heard'[t] = "done" /\ kind # "plain"
             \/ pc'[t] = "streaming" /\ heard'[t] \notin {"done", "error"}
                  /\ (kind = "plain" => heard'[t] \in {"status", "token"})
      BY <2>6 DEF Stream, TypeOK, Events
    <3>2. PlaceView(t)'
      BY <2>2, <3>1 DEF PlaceView
    <3>3. MessageView(t)'
      BY <2>2, <3>1, NothingAppended DEF Asked, MayBeAnswered, Recorded
    <3> QED  BY <2>1, <2>2, <3>1, <3>2, <3>3, OneTurnMoves
  <2>7. CASE Fail(t)
    <3>1. /\ pc[t] = "streaming" /\ pc'[t] = "closing" /\ heard'[t] = "error"
          /\ UNCHANGED store
      BY <2>7 DEF Fail, TypeOK
    <3>2. PlaceView(t)'
      BY <2>2, <3>1 DEF PlaceView
    <3>3. MessageView(t)'
      BY <2>2, <3>1, NothingAppended DEF Asked, MayBeAnswered, Recorded
    <3> QED  BY <2>1, <2>2, <3>1, <3>2, <3>3, OneTurnMoves
  <2>8. CASE RecordPlain(t)
    <3>1. /\ pc[t] = "streaming" /\ pc'[t] = "recorded" /\ heard'[t] = heard[t]
          /\ heard[t] \in {"status", "token"} /\ kind = "plain"
          /\ store' = Append(store, Answer(t))
      BY <2>8 DEF RecordPlain, RecordAnswer, TypeOK
    <3>2. PlaceView(t)'
      BY <2>2, <3>1 DEF PlaceView
    <3>3. MessageView(t)'
      BY <2>2, <3>1, AnswerRecorded DEF Asked, MayBeAnswered
    <3> QED  BY <2>1, <2>2, <3>1, <3>2, <3>3, OneTurnMoves
  <2>9. CASE FinishPlain(t)
    <3>1. /\ pc[t] = "recorded" /\ pc'[t] = "closing" /\ heard'[t] = "done"
          /\ UNCHANGED store
      BY <2>9 DEF FinishPlain, TypeOK
    <3>2. PlaceView(t)'
      BY <2>2, <3>1 DEF PlaceView
    <3>3. MessageView(t)'
      BY <2>2, <3>1, NothingAppended DEF PlaceView, Asked, MayBeAnswered, Recorded
    <3> QED  BY <2>1, <2>2, <3>1, <3>2, <3>3, OneTurnMoves
  <2>10. CASE Return(t)
    <3>1. pc[t] = "closing" /\ pc'[t] = "ended" /\ heard'[t] = heard[t]
      BY <2>10 DEF Return, TypeOK
    <3>2. PlaceView(t)'
      BY <2>2, <3>1 DEF PlaceView
    <3>3. CASE kind = "tools" /\ heard[t] = "done"
      <4>1. store' = Append(store, Answer(t))
        BY <2>10, <3>3 DEF Return, RecordAnswer
      <4>2. MessageView(t)'
        BY <2>2, <3>1, <3>3, <4>1, AnswerRecorded DEF Asked, MayBeAnswered
      <4> QED  BY <2>1, <2>2, <3>2, <4>1, <4>2, OneTurnMoves
    <3>4. CASE ~(kind = "tools" /\ heard[t] = "done")
      <4>1. UNCHANGED store
        BY <2>10, <3>4 DEF Return
      <4>2. MessageView(t)'
        BY <2>2, <3>1, <3>4, <4>1, NothingAppended DEF Asked, MayBeAnswered, Recorded
      <4> QED  BY <2>1, <2>2, <3>2, <4>1, <4>2, OneTurnMoves
    <3> QED  BY <3>3, <3>4
  <2> QED  BY <1>1, <2>3, <2>4, <2>5, <2>6, <2>7, <2>8, <2>9, <2>10 DEF TurnStep
<1>2. ASSUME NEW t \in Turns, Cancel(t) PROVE HistoryInv'
  <2> PlaceView(t) /\ MessageView(t)
    BY DEF HistoryInv
  <2>1. /\ pc[t] \in {"streaming", "recorded", "closing"} /\ pc'[t] = "cancelled"
        /\ UNCHANGED <<kind, store, heard, wiped>>
        /\ \A u \in Turns \ {t} : pc'[u] = pc[u]
    BY <1>2 DEF Cancel, TypeOK
  <2>2. PlaceView(t)'
    BY <2>1 DEF PlaceView
  <2>3. MessageView(t)'
    BY <2>1, NothingAppended DEF Asked, MayBeAnswered, Recorded
  <2> QED  BY <2>1, <2>2, <2>3, OneTurnMoves
<1>9. ASSUME NEW t \in Turns, Hang(t) PROVE HistoryInv'
  <2> PlaceView(t) /\ MessageView(t)
    BY DEF HistoryInv
  <2>1. /\ pc[t] = "streaming" /\ pc'[t] = "hung"
        /\ UNCHANGED <<kind, store, heard, wiped>>
        /\ \A u \in Turns \ {t} : pc'[u] = pc[u]
    BY <1>9 DEF Hang, TypeOK
  <2>2. PlaceView(t)'
    BY <2>1 DEF PlaceView
  <2>3. MessageView(t)'
    BY <2>1, NothingAppended DEF Asked, MayBeAnswered, Recorded
  <2> QED  BY <2>1, <2>2, <2>3, OneTurnMoves
<1>3. ASSUME NEW w \in Tabs, NEW t \in Turns, Submit(w, t) PROVE HistoryInv'
  <2> PlaceView(t) /\ MessageView(t)
    BY DEF HistoryInv
  <2>1. /\ pc[t] = "unsent" /\ pc'[t] = "received"
        /\ UNCHANGED <<kind, store, heard, wiped>>
        /\ \A u \in Turns \ {t} : pc'[u] = pc[u]
    BY <1>3 DEF Submit, TypeOK
  <2>2. PlaceView(t)'
    BY <2>1 DEF PlaceView
  <2>3. MessageView(t)'
    BY <2>1, NothingAppended DEF Asked, MayBeAnswered, Recorded
  <2> QED  BY <2>1, <2>2, <2>3, OneTurnMoves
<1>4. ASSUME UNCHANGED <<kind, store, pc, heard, wiped>> PROVE HistoryInv'
  BY <1>4 DEF HistoryInv, PlaceView, MessageView, Asked, MayBeAnswered, Recorded, At
<1>5. ASSUME NEW w \in Tabs, NEW t \in Turns, EndOfStream(w, t) \/ Cut(w, t) PROVE HistoryInv'
  BY <1>4, <1>5 DEF EndOfStream, Cut
<1>6. ASSUME NEW w \in Tabs, Leave(w) PROVE HistoryInv'
  BY <1>4, <1>6 DEF Leave
<1>7. ASSUME NEW w \in Tabs, Clear(w) PROVE HistoryInv'
  <2>1. /\ store' = <<>> /\ UNCHANGED <<kind, pc, heard>>
        /\ wiped' = wiped \cup {t \in Turns : pc[t] \notin Early}
    BY <1>7 DEF Clear
  <2>2. ASSUME NEW t \in Turns PROVE PlaceView(t)' /\ MessageView(t)'
    <3> PlaceView(t)
      BY DEF HistoryInv
    <3>1. At(Question(t))' = {} /\ At(Answer(t))' = {}
      BY <2>1 DEF At
    <3>2. t \in wiped' <=> pc[t] \notin Early
      BY <2>1 DEF PlaceView
    <3>3. PlaceView(t)'
      BY <2>1, <3>2 DEF PlaceView
    <3>4. (Recorded(t) \/ Asked(t))' => pc[t] \notin Early
      BY <2>1 DEF Recorded, Asked
    <3> QED  BY <3>1, <3>2, <3>3, <3>4 DEF MessageView
  <2> QED  BY <2>2 DEF HistoryInv
<1>8. CASE UNCHANGED vars
  BY <1>4, <1>8 DEF vars
<1> QED  BY <1>1, <1>2, <1>3, <1>5, <1>6, <1>7, <1>8, <1>9 DEF Next, Quiet

LEMMA HistoryInvariant == Spec => [](TypeOK /\ HistoryInv)
<1> QED  BY HistoryInit, HistoryNext, TypeInit, TypeNext, PTL DEF Spec

\* However turns, tabs and cancellations interleave, no message is lost or
\* doubled, and a clear takes a question for good.
THEOREM HistoryStaysFaithful == Spec => []HistoryIsFaithful
<1>1. TypeOK /\ HistoryInv => HistoryIsFaithful
  <2> SUFFICES ASSUME TypeOK, HistoryInv PROVE HistoryIsFaithful
    OBVIOUS
  <2>1. ASSUME NEW t \in Turns \ wiped,
               pc[t] \in {"streaming", "recorded", "closing", "ended", "cancelled", "hung"},
               kind # "unknown"
        PROVE  \E i \in DOMAIN store : At(Question(t)) = {i}
    BY <2>1 DEF HistoryInv, MessageView, Asked, Early
  <2>2. ASSUME NEW t \in Turns \ wiped, Recorded(t)
        PROVE  \E i, j \in DOMAIN store :
                   i < j /\ At(Question(t)) = {i} /\ At(Answer(t)) = {j}
    BY <2>2 DEF HistoryInv, MessageView
  <2>3. ASSUME NEW t \in Turns \ wiped, At(Answer(t)) # {}
        PROVE  heard[t] \in {"status", "token", "done"}
    BY <2>3 DEF HistoryInv, MessageView, MayBeAnswered
  <2>4. ASSUME NEW t \in wiped
        PROVE  At(Question(t)) = {} /\ \A i, j \in At(Answer(t)) : i = j
    BY <2>4 DEF TypeOK, HistoryInv, MessageView
  <2> QED  BY <2>1, <2>2, <2>3, <2>4 DEF HistoryIsFaithful
<1> QED  BY <1>1, HistoryInvariant, PTL

-----------------------------------------------------------------------------
(* Follow-ups *)

\* A tab was told of turns only that are over, and answered.
ToldInv ==
    /\ \A u \in told : pc[u] = "ended" /\ heard[u] = "done"
    /\ \A t \in Turns : before[t] \subseteq told

FollowInv == ToldInv /\ FollowUpsSeeAnswers

\* The places from which a turn's prompt is read.
Prompted == {"read", "streaming", "recorded", "closing", "hung"}

\* What a completed turn has in the history, unless a clear wiped it.
LEMMA ToldIsStored ==
    ASSUME TypeOK, HistoryInv, ToldInv, NEW u \in told, u \notin wiped
    PROVE  \E i, j \in DOMAIN store :
               i < j /\ store[i] = Question(u) /\ store[j] = Answer(u)
<1>1. u \in Turns /\ PlaceView(u) /\ MessageView(u)
  BY DEF TypeOK, HistoryInv
<1>2. Recorded(u)
  BY <1>1 DEF TypeOK, ToldInv, PlaceView, Recorded
<1>3. PICK i, j \in DOMAIN store :
          i < j /\ At(Question(u)) = {i} /\ At(Answer(u)) = {j}
  BY <1>1, <1>2 DEF MessageView
<1>4. i \in At(Question(u)) /\ j \in At(Answer(u))
  BY <1>3
<1> QED  BY <1>3, <1>4 DEF At

\* A completed turn stays completed.
LEMMA ToldStays ==
    ASSUME TypeOK, ToldInv, [Next]_vars PROVE ToldInv'
<1> USE DEF ghosts, Go, Yield
<1>1. ASSUME NEW t \in Turns, TurnStep(t) \/ Cancel(t) \/ Hang(t) PROVE ToldInv'
  <2>1. /\ pc[t] # "ended" /\ UNCHANGED <<told, before>>
        /\ \A u \in Turns \ {t} : pc'[u] = pc[u] /\ heard'[u] = heard[u]
    BY <1>1 DEF TypeOK, TurnStep, Reject, Read, Ask, Stream, Fail, RecordPlain, FinishPlain,
                Return, Cancel, Hang
  <2> QED  BY <2>1 DEF ToldInv, TypeOK
<1>2. ASSUME NEW w \in Tabs, NEW t \in Turns, Submit(w, t) PROVE ToldInv'
  BY <1>2 DEF Submit, ToldInv, TypeOK
<1>3. ASSUME NEW w \in Tabs, NEW t \in Turns, EndOfStream(w, t) PROVE ToldInv'
  BY <1>3 DEF EndOfStream, StreamClosed, ToldInv
<1>4. ASSUME UNCHANGED <<pc, heard, told, before>> PROVE ToldInv'
  BY <1>4 DEF ToldInv
<1> QED
  BY <1>1, <1>2, <1>3, <1>4 DEF Next, Quiet, vars, Cut, Leave, Clear

\* The prompt of a turn is the history it read.
LEMMA FollowNext ==
    ASSUME TypeOK, HistoryInv, FollowInv, [Next]_vars PROVE FollowUpsSeeAnswers'
<1> USE DEF ghosts, Go, Yield, Prompted
<1> SUFFICES ASSUME NEW t \in Turns, NEW u \in before'[t] \ wiped',
                    pc'[t] \in Prompted, kind' # "unknown"
             PROVE  \E i, j \in DOMAIN snapshot'[t] :
                        i < j /\ snapshot'[t][i] = Question(u) /\ snapshot'[t][j] = Answer(u)
  BY DEF FollowUpsSeeAnswers
<1>1. CASE Read(t)
  <2>1. snapshot'[t] = store /\ u \in before[t] \ wiped
    BY <1>1 DEF Read, TypeOK
  <2>2. u \in told
    BY <2>1 DEF FollowInv, ToldInv
  <2> QED  BY <2>1, <2>2, ToldIsStored DEF FollowInv
<1>2. CASE ~Read(t)
  <2>1. pc[t] \in Prompted /\ UNCHANGED <<kind, snapshot[t], before[t]>>
    <3>1. ASSUME NEW v \in Turns, TurnStep(v) \/ Cancel(v) \/ Hang(v)
          PROVE  pc[t] \in Prompted /\ UNCHANGED <<kind, snapshot[t], before[t]>>
      <4>1. CASE v = t
        <5>1. UNCHANGED <<kind, before>>
          BY <3>1 DEF TurnStep, Reject, Read, Ask, Stream, Fail, RecordPlain, FinishPlain,
                      Return, Cancel, Hang
        <5>2. pc[t] \in Prompted /\ UNCHANGED snapshot
          BY <1>2, <3>1, <4>1
          DEF TypeOK, TurnStep, Reject, Ask, Stream, Fail, RecordPlain, FinishPlain, Return, Cancel, Hang
        <5> QED  BY <5>1, <5>2
      <4>2. CASE v # t
        BY <3>1, <4>2
        DEF TypeOK, TurnStep, Reject, Read, Ask, Stream, Fail, RecordPlain, FinishPlain, Return, Cancel, Hang
      <4> QED  BY <4>1, <4>2
    <3>2. ASSUME NEW w \in Tabs, NEW v \in Turns, Submit(w, v)
          PROVE  pc[t] \in Prompted /\ UNCHANGED <<kind, snapshot[t], before[t]>>
      BY <3>2 DEF Submit, TypeOK
    <3>3. ASSUME UNCHANGED <<kind, pc, snapshot, before>>
          PROVE  pc[t] \in Prompted /\ UNCHANGED <<kind, snapshot[t], before[t]>>
      BY <3>3
    <3> QED
      BY <3>1, <3>2, <3>3 DEF Next, Quiet, vars, EndOfStream, Cut, Leave, Clear
  <2>2. wiped \subseteq wiped'
    BY DEF Next, Quiet, vars, TurnStep, Reject, Read, Ask, Stream, Fail, RecordPlain, FinishPlain,
           Return, Cancel, Hang, Submit, EndOfStream, Cut, Leave, Clear
  <2> QED  BY <2>1, <2>2 DEF FollowInv, FollowUpsSeeAnswers
<1> QED  BY <1>1, <1>2

\* Whoever asks after a completed turn is answered with that turn in the
\* prompt, question before answer, unless a clear came in between.
THEOREM FollowUpsAlwaysSeeAnswers == Spec => []FollowUpsSeeAnswers
<1>1. Init => FollowInv
  BY DEF Init, FollowInv, ToldInv, FollowUpsSeeAnswers
<1>2. TypeOK /\ HistoryInv /\ FollowInv /\ [Next]_vars => FollowInv'
  BY ToldStays, FollowNext DEF FollowInv
<1>3. FollowInv => FollowUpsSeeAnswers
  BY DEF FollowInv
<1> QED  BY <1>1, <1>2, <1>3, HistoryInvariant, PTL DEF Spec
=============================================================================
