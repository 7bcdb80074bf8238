---------------------------- MODULE ChatSession ----------------------------
(***************************************************************************)
(* One conversation of the workbench: the history list that app/sessions.py*)
(* keeps for a (session, task, model), the chat requests of                *)
(* app/routes/workbench.py that read and extend it, its clear request, and *)
(* the browser tabs that show it (web/static/chat.js).                     *)
(*                                                                         *)
(* Each tab has a submit button and reads at most one reply stream; several*)
(* tabs of a browser share the session cookie, so the conversation.  The   *)
(* events of a tools task are those TurnProtocol allows (AgentLoop         *)
(* implements it); those of a plain chat are status, tokens, end.  A       *)
(* message of the history is its role and the turn it belongs to.          *)
(***************************************************************************)
EXTENDS Naturals, Sequences

CONSTANTS
    Tabs,      \* browser tabs showing this conversation
    Turns,     \* POST /workbench/chat requests
    None,      \* no turn
    MaxClears, \* bound on POST /workbench/clear requests
    MayCut     \* whether a connection may break under an open tab

ASSUME ConstantsAssumption ==
    /\ None \notin Turns
    /\ MaxClears \in Nat
    /\ MayCut \in BOOLEAN

VARIABLES
    kind,     \* the task: "plain", "tools" or "unknown"
    store,    \* _store of the conversation
    reading,  \* reading[w]: the turn tab w waits for; its button is disabled
    pc,       \* pc[t]: where workbench_chat and its generator stand
    snapshot, \* snapshot[t]: the local history, what get_history returned
    heard,    \* heard[t]: the last event the generator yielded
    wire,     \* wire[t]: the connection the reply goes over
    told,     \* ghost: the turns whose tab saw "done" and the stream's end
    before,   \* ghost: before[t], the value of told when t was submitted
    wiped,    \* ghost: the turns whose question a clear may have removed
    clears    \* how many clears were sent

ghosts == <<told, before, wiped, clears>>
vars == <<kind, store, reading, pc, snapshot, heard, wire, ghosts>>

Protocol(t) == INSTANCE TurnProtocol
    WITH heard <- heard[t], calls <- 0, MaxCalls <- 0

Question(t) == <<"user", t>>
AnswerOfModel(t) == <<"model", t>>
Answer(t) == <<"assistant", t>>
History == Seq({"user", "assistant"} \X Turns)

TypeOK ==
    /\ kind \in {"plain", "tools", "unknown"}
    /\ store \in History
    /\ reading \in [Tabs -> Turns \cup {None}]
    /\ pc \in [Turns -> {"unsent", "received", "read", "streaming", "recorded",
                         "closing", "ended", "cancelled", "hung"}]
    /\ snapshot \in [Turns -> History]
    /\ heard \in [Turns -> {"nothing", "status", "tool_call", "tool_result",
                            "token", "error", "done"}]
    /\ wire \in [Turns -> {"none", "open", "left", "cut"}]
    /\ told \subseteq Turns /\ wiped \subseteq Turns
    /\ before \in [Turns -> SUBSET Turns]
    /\ clears \in 0..MaxClears

Init ==
    /\ kind \in {"plain", "tools", "unknown"}
    /\ store = <<>>
    /\ reading = [w \in Tabs |-> None]
    /\ pc = [t \in Turns |-> "unsent"]
    /\ snapshot = [t \in Turns |-> <<>>]
    /\ heard = [t \in Turns |-> "nothing"]
    /\ wire = [t \in Turns |-> "none"]
    /\ told = {}
    /\ before = [t \in Turns |-> {}]
    /\ wiped = {}
    /\ clears = 0

-----------------------------------------------------------------------------
Go(t, next) == pc' = [pc EXCEPT ![t] = next]
Yield(t, event) == heard' = [heard EXCEPT ![t] = event]
Free(w) == reading' = [reading EXCEPT ![w] = None]

(* The chat request *)

\* The form is submitted: the button is disabled and the POST goes out.
Submit(w, t) ==
    /\ reading[w] = None
    /\ pc[t] = "unsent"
    /\ Go(t, "received")
    /\ reading' = [reading EXCEPT ![w] = t]
    /\ wire' = [wire EXCEPT ![t] = "open"]
    /\ before' = [before EXCEPT ![t] = told]
    /\ UNCHANGED <<kind, store, snapshot, heard, told, wiped, clears>>

\* "Unknown task.": one event and no trace in the history.
Reject(t) ==
    /\ pc[t] = "received"
    /\ kind = "unknown"
    /\ Yield(t, "error")
    /\ Go(t, "closing")
    /\ UNCHANGED <<kind, store, reading, snapshot, wire, ghosts>>

\* sessions.get_history
Read(t) ==
    /\ pc[t] = "received"
    /\ kind # "unknown"
    /\ snapshot' = [snapshot EXCEPT ![t] = store]
    /\ Go(t, "read")
    /\ UNCHANGED <<kind, store, reading, heard, wire, ghosts>>

AskOverSnapshot(t) ==
    /\ pc[t] = "read"
    /\ store' = Append(snapshot[t], Question(t))
    /\ Go(t, "streaming")
    /\ UNCHANGED <<kind, reading, snapshot, heard, wire, ghosts>>

\* sessions.append of the question; the response starts.
Ask(t) ==
    /\ pc[t] = "read"
    /\ store' = Append(store, Question(t))
    /\ Go(t, "streaming")
    /\ UNCHANGED <<kind, reading, snapshot, heard, wire, ghosts>>

\* One more event: what the task's stream may yield next.
Events(t) ==
    IF kind = "tools"
    THEN Protocol(t)!Follows[heard[t]]
    ELSE IF heard[t] = "nothing" THEN {"status"} ELSE {"token", "error"}

Stream(t) ==
    /\ pc[t] = "streaming"
    /\ \E e \in Events(t) \ {"error"} :
           /\ Yield(t, e)
           /\ Go(t, IF e = "done" THEN "closing" ELSE "streaming")
    /\ UNCHANGED <<kind, store, reading, snapshot, wire, ghosts>>

\* The load, the generation or the agent fails: nothing is recorded.
Fail(t) ==
    /\ pc[t] = "streaming"
    /\ "error" \in Events(t)
    /\ Yield(t, "error")
    /\ Go(t, "closing")
    /\ UNCHANGED <<kind, store, reading, snapshot, wire, ghosts>>

\* model.generate raises in its thread, after the model was loaded and while the
\* stream waits for the next piece of text: nobody ends the streamer, so the
\* generator waits for ever and cannot be dropped (ModelRuntime, CrashedChatEnds).
Hang(t) ==
    /\ pc[t] = "streaming"
    /\ heard[t] \in {"status", IF kind = "tools" THEN "tool_result" ELSE "token"}
    /\ Go(t, "hung")
    /\ UNCHANGED <<kind, store, reading, snapshot, heard, wire, ghosts>>

RecordAnswer(t) == store' = Append(store, Answer(t))

\* Plain chat: the answer is recorded before "done" is yielded.
RecordPlain(t) ==
    /\ kind = "plain"
    /\ pc[t] = "streaming" /\ heard[t] \in {"status", "token"}
    /\ RecordAnswer(t)
    /\ Go(t, "recorded")
    /\ UNCHANGED <<kind, reading, snapshot, heard, wire, ghosts>>

FinishPlain(t) ==
    /\ pc[t] = "recorded"
    /\ Yield(t, "done")
    /\ Go(t, "closing")
    /\ UNCHANGED <<kind, store, reading, snapshot, wire, ghosts>>

\* The generator returns.  A tools task records its answer only now, after
\* its "done" went out.
Return(t) ==
    /\ pc[t] = "closing"
    /\ IF kind = "tools" /\ heard[t] = "done"
       THEN RecordAnswer(t) ELSE UNCHANGED store
    /\ Go(t, "ended")
    /\ snapshot' = [snapshot EXCEPT ![t] = <<>>]
    /\ UNCHANGED <<kind, reading, heard, wire, ghosts>>

\* The server notices that the client is gone and drops the generator.
Cancel(t) ==
    /\ wire[t] \in {"left", "cut"}
    /\ pc[t] \in {"streaming", "recorded", "closing"}
    /\ Go(t, "cancelled")
    /\ snapshot' = [snapshot EXCEPT ![t] = <<>>]
    /\ UNCHANGED <<kind, store, reading, heard, wire, ghosts>>

-----------------------------------------------------------------------------
(* The tab *)

FreedOnAnswer(t) == pc[t] = "ended" /\ heard[t] = "done"
FreedOnDone(t) == heard[t] \in {"done", "error"}
StreamClosed(t) == pc[t] = "ended"

\* reader.read() reports the end of the stream: the button comes back.
EndOfStream(w, t) ==
    /\ reading[w] = t
    /\ wire[t] = "open"
    /\ StreamClosed(t)
    /\ Free(w)
    /\ wire' = [wire EXCEPT ![t] = "none"]
    /\ told' = IF heard[t] = "done" THEN told \cup {t} ELSE told
    /\ UNCHANGED <<kind, store, pc, snapshot, heard, before, wiped, clears>>

\* The tab is reloaded, closed, or goes to another page and back.
LeavePage(w) ==
    /\ Free(w)
    /\ wire' = [t \in Turns |-> IF t = reading[w] /\ wire[t] = "open"
                                THEN "left" ELSE wire[t]]

Leave(w) ==
    /\ reading[w] # None
    /\ LeavePage(w)
    /\ UNCHANGED <<kind, store, pc, snapshot, heard, ghosts>>

\* The connection breaks.  Before the response has started, fetch rejects and
\* the handler gives the button back; after that reader.read() rejects, which
\* nobody catches.
Cut(w, t) ==
    /\ MayCut
    /\ reading[w] = t
    /\ wire[t] = "open"
    /\ wire' = [wire EXCEPT ![t] = "cut"]
    /\ IF pc[t] \in {"received", "read"} THEN Free(w) ELSE UNCHANGED reading
    /\ UNCHANGED <<kind, store, pc, snapshot, heard, ghosts>>

\* sessions.clear; the redirect reloads the tab that sent it.
Clear(w) ==
    /\ clears < MaxClears
    /\ clears' = clears + 1
    /\ store' = <<>>
    /\ wiped' = wiped \cup {t \in Turns : pc[t] \notin {"unsent", "received", "read"}}
    /\ LeavePage(w)
    /\ UNCHANGED <<kind, pc, snapshot, heard, told, before>>

\* Every turn is over and every tab is left alone.
Quiet ==
    /\ \A t \in Turns : pc[t] \in {"ended", "cancelled", "hung"}
    /\ UNCHANGED vars

TurnStep(t) ==
    \/ Reject(t) \/ Read(t) \/ Ask(t) \/ Stream(t) \/ Fail(t)
    \/ RecordPlain(t) \/ FinishPlain(t) \/ Return(t)

Next ==
    \/ \E t \in Turns : TurnStep(t) \/ Cancel(t) \/ Hang(t)
    \/ \E w \in Tabs, t \in Turns : Submit(w, t) \/ EndOfStream(w, t) \/ Cut(w, t)
    \/ \E w \in Tabs : Leave(w) \/ Clear(w)
    \/ Quiet

Spec == Init /\ [][Next]_vars

\* Handlers run on, and a stream does not yield for ever: tokens are bounded
\* by MAX_NEW_TOKENS, agent turns by max_steps (AgentLoop), so an end that is
\* possible again and again is reached, as long as the stream has not hung.
Ends(t) == RecordPlain(t) \/ (Stream(t) /\ heard'[t] = "done") \/ Fail(t)

FairSpec ==
    /\ Spec
    /\ \A t \in Turns : WF_vars(TurnStep(t)) /\ SF_vars(Ends(t))
    /\ \A w \in Tabs : WF_vars(\E t \in Turns : EndOfStream(w, t))

-----------------------------------------------------------------------------
(* Properties *)

\* A follow-up builds on what the user has read: once a tab has its button
\* back after a completed turn, whoever asks next, from any tab, is answered
\* with that question and its answer in the prompt, in this order, unless a
\* clear came in between.  The order of recording and ending differs between
\* plain and tools tasks; only the end of the stream is late enough for both.
FollowUpsSeeAnswers ==
    \A t \in Turns : \A u \in before[t] \ wiped :
        pc[t] \in {"read", "streaming", "recorded", "closing", "hung"} /\ kind # "unknown" =>
            \E i, j \in DOMAIN snapshot[t] :
                i < j /\ snapshot[t][i] = Question(u) /\ snapshot[t][j] = Answer(u)

\* No interleaving of turns, tabs and cancellations loses or doubles a
\* message: the history holds the question of every turn that asked, once,
\* and its answer, once and later, exactly if it was recorded; only a clear
\* takes messages away, and then the question for good: a turn that was
\* streaming may still record its answer, alone and once.
Recorded(t) ==
    \/ kind = "plain" /\ pc[t] \in {"recorded", "closing", "ended"} /\ heard[t] # "error"
    \/ kind = "tools" /\ pc[t] = "ended" /\ heard[t] = "done"
At(m) == {i \in DOMAIN store : store[i] = m}
HistoryIsFaithful ==
    /\ \A t \in Turns \ wiped :
        /\ pc[t] \in {"streaming", "recorded", "closing", "ended", "cancelled", "hung"}
               /\ kind # "unknown" => \E i \in DOMAIN store : At(Question(t)) = {i}
        /\ Recorded(t) =>
               \E i, j \in DOMAIN store :
                   i < j /\ At(Question(t)) = {i} /\ At(Answer(t)) = {j}
        /\ At(Answer(t)) # {} => heard[t] \in {"status", "token", "done"}
    /\ \A t \in wiped :
        /\ At(Question(t)) = {}
        /\ \A i, j \in At(Answer(t)) : i = j

\* The button comes back, whatever became of the turn: rejected, failed in the
\* load or in a tool, answered, cleared away.  Again and again a time comes when
\* no tab waits, but for the two cases that leave the button disabled until the
\* page is reloaded: the connection broke under a started stream, or the
\* generation raised in its thread and the stream hangs.
Stuck(t) == wire[t] = "cut" \/ pc[t] = "hung"
ButtonReturns == []<>(\A w \in Tabs : reading[w] = None \/ Stuck(reading[w]))
=============================================================================
