----------------------------- MODULE Scorecard -----------------------------
(***************************************************************************)
(* The benchmark: the generator run_scorecard of agents/scorecard.py, the  *)
(* requests of app/routes/scorecard.py that drive it, the file latest.json *)
(* it writes in place, and the pages that start it and show its table      *)
(* (scorecard.html, scorecard.js).                                         *)
(*                                                                         *)
(* A page has one button, so at most one run.  _run_case drains run_agent  *)
(* within one resumption of the generator and is one step; what it saw of  *)
(* the turn is an outcome.  A row of the table is the number of cases it   *)
(* sums up and their points, in tenths: the overall score of the code      *)
(* times ten, not yet divided by the number of cases.                      *)
(***************************************************************************)
EXTENDS Naturals, Sequences

CONSTANTS
    Models,      \* model ids
    Suite,       \* CASES: "tool" where one is expected, "control" where none is
    Outcomes,    \* what a case may come to
    Pages,       \* visits of the scorecard page
    None,        \* no model
    MaxRuns,     \* bound on the runs a page starts
    MaxRestarts, \* bound on restarts of the process
    DiskFails    \* whether the models mount may refuse a write

\* The first tool a turn called, with the expected arguments or without.
Calls == {"nothing", "other", "loosely", "exactly"}
Raised == [called |-> "nothing", completed |-> FALSE]

ASSUME ConstantsAssumption ==
    /\ None \notin Models
    /\ Suite \in Seq({"tool", "control"}) /\ Len(Suite) > 0
    /\ Outcomes \subseteq [called : Calls, completed : BOOLEAN]
    /\ MaxRuns \in Nat /\ MaxRestarts \in Nat
    /\ DiskFails \in BOOLEAN

VARIABLES
    latest,   \* latest.json
    pc,       \* pc[p]: where the request of page p and its generator stand
    selected, \* selected[p]: the models of the run
    on,       \* on[p]: the model being benchmarked
    results,  \* results[p]: case_results of that model, summed up
    card,     \* card[p]: models_out
    view,     \* view[p]: what the page's script is doing
    rows,     \* rows[p]: the table the page shows
    told,     \* told[p]: the last event of the run that page p listens or listened to
    spoiled,  \* ghost: whether another run or a fault met the file after p's run opened it
    runs,     \* how many runs each page has started
    restarts  \* how many restarts there were

server == <<pc, selected, on, results, card>>
page == <<view, rows, told>>
bounds == <<runs, restarts>>
vars == <<latest, server, page, spoiled, bounds>>

Summaries == [points : Nat, cases : 0..Len(Suite)]
NoSummary == [points |-> 0, cases |-> 0]
NoRows == [m \in Models |-> NoSummary]

Events == {"nothing", "model_start", "case_done", "model_done", "result",
           "error", "done"}

TypeOK ==
    /\ latest \in [state : {"absent", "empty", "torn", "whole"}, rows : [Models -> Summaries]]
    /\ pc \in [Pages -> {"idle", "posted", "choosing", "benchmarking", "writing",
                         "saved", "finishing", "ended"}]
    /\ selected \in [Pages -> SUBSET Models]
    /\ on \in [Pages -> Models \cup {None}]
    /\ results \in [Pages -> Summaries]
    /\ card \in [Pages -> [Models -> Summaries]]
    /\ view \in [Pages -> {"closed", "open", "waiting", "lost"}]
    /\ rows \in [Pages -> [Models -> Summaries]]
    /\ told \in [Pages -> Events]
    /\ spoiled \in [Pages -> BOOLEAN]
    /\ runs \in [Pages -> 0..MaxRuns]
    /\ restarts \in 0..MaxRestarts

Init ==
    /\ latest = [state |-> "absent", rows |-> NoRows]
    /\ pc = [p \in Pages |-> "idle"]
    /\ selected = [p \in Pages |-> {}]
    /\ on = [p \in Pages |-> None]
    /\ results = [p \in Pages |-> NoSummary]
    /\ card = [p \in Pages |-> NoRows]
    /\ view = [p \in Pages |-> "closed"]
    /\ rows = [p \in Pages |-> NoRows]
    /\ told = [p \in Pages |-> "nothing"]
    /\ spoiled = [p \in Pages |-> FALSE]
    /\ runs = [p \in Pages |-> 0]
    /\ restarts = 0

-----------------------------------------------------------------------------
(* Scoring *)

Weight(points, earned) == IF earned THEN points ELSE 0

ToolCorrect(expected, o) ==
    o.called \in (IF expected = "tool" THEN {"loosely", "exactly"} ELSE {"nothing"})

\* Every case of the suite has one expected argument, or expects no tool.
ParamsCorrect(expected, o) ==
    o.called = (IF expected = "tool" THEN "exactly" ELSE "nothing")

\* _score_case: 0.5 tool, 0.3 parameters, 0.2 completed.
Score(expected, o) ==
    Weight(5, ToolCorrect(expected, o)) + Weight(3, ParamsCorrect(expected, o))
    + Weight(2, o.completed)

\* load_latest, as the page renders it: a file that does not parse is no scorecard.
Stored == IF latest.state = "whole" THEN latest.rows ELSE NoRows

\* The models of the run still to be benchmarked.
Todo(p) == {m \in selected[p] : card[p][m] = NoSummary}

-----------------------------------------------------------------------------
Go(p, next) == pc' = [pc EXCEPT ![p] = next]

\* An event is yielded; a page that is still there hears it.
Yield(p, event) ==
    told' = [told EXCEPT ![p] = IF view[p] = "waiting" THEN event ELSE @]

\* The locals of a generator go with it.
Drop(ps) ==
    /\ on' = [p \in Pages |-> IF p \in ps THEN None ELSE on[p]]
    /\ results' = [p \in Pages |-> IF p \in ps THEN NoSummary ELSE results[p]]
    /\ card' = [p \in Pages |-> IF p \in ps THEN NoRows ELSE card[p]]

(* The page *)

\* GET /scorecard
Open(p) ==
    /\ view[p] = "closed"
    /\ view' = [view EXCEPT ![p] = "open"]
    /\ rows' = [rows EXCEPT ![p] = Stored]
    /\ UNCHANGED <<latest, server, told, spoiled, bounds>>

\* "Run benchmark" with at least one model ticked.
Submit(p) ==
    /\ view[p] = "open"
    /\ runs[p] < MaxRuns
    /\ runs' = [runs EXCEPT ![p] = @ + 1]
    /\ view' = [view EXCEPT ![p] = "waiting"]
    /\ told' = [told EXCEPT ![p] = "nothing"]
    /\ Go(p, "posted")
    /\ UNCHANGED <<latest, selected, on, results, card, rows, spoiled, restarts>>

\* fetch rejects: the button comes back and no run has begun.
NetworkError(p) ==
    /\ view[p] = "waiting" /\ pc[p] = "posted"
    /\ view' = [view EXCEPT ![p] = "open"]
    /\ told' = [told EXCEPT ![p] = "error"]
    /\ Go(p, "idle")
    /\ UNCHANGED <<latest, selected, on, results, card, rows, spoiled, bounds>>

StreamClosedEarly(p) ==
    /\ view[p] = "waiting" /\ pc[p] = "finishing"
    /\ view' = [view EXCEPT ![p] = "open"]
    /\ Go(p, "idle")
    /\ UNCHANGED <<latest, selected, on, results, card, rows, told, spoiled, bounds>>

\* The reader is done: the button comes back.
StreamClosed(p) ==
    /\ view[p] = "waiting" /\ pc[p] = "ended"
    /\ view' = [view EXCEPT ![p] = "open"]
    /\ Go(p, "idle")
    /\ UNCHANGED <<latest, selected, on, results, card, rows, told, spoiled, bounds>>

\* The page is left or reloaded, or its connection breaks: reader.read() rejects,
\* nothing enables the button again and what it shows does not change any more.
\* A reload is another visit.
Lose(p) ==
    /\ view[p] \in {"open", "waiting"}
    /\ view' = [view EXCEPT ![p] = "lost"]
    /\ rows' = [rows EXCEPT ![p] = NoRows]
    /\ told' = [told EXCEPT ![p] = "nothing"]
    /\ UNCHANGED <<latest, server, spoiled, bounds>>

-----------------------------------------------------------------------------
(* The run *)

\* POST /scorecard/run: of the models ticked, those that are ready by now, so any
\* or none of them.
Choose(p) ==
    /\ pc[p] = "posted"
    /\ \E ms \in SUBSET Models : selected' = [selected EXCEPT ![p] = ms]
    /\ Go(p, "choosing")
    /\ UNCHANGED <<latest, on, results, card, page, spoiled, bounds>>

\* "No ready models selected."
Refuse(p) ==
    /\ pc[p] = "choosing"
    /\ selected[p] = {}
    /\ Yield(p, "error")
    /\ Go(p, "ended")
    /\ UNCHANGED <<latest, selected, on, results, card, view, rows, spoiled, bounds>>

\* "model_start"; the models come in the order of the registry, whichever it is.
StartModel(p) ==
    /\ pc[p] = "choosing"
    /\ Todo(p) # {}
    /\ on' = [on EXCEPT ![p] = CHOOSE m \in Todo(p) : TRUE]
    /\ results' = [results EXCEPT ![p] = NoSummary]
    /\ Yield(p, "model_start")
    /\ Go(p, "benchmarking")
    /\ UNCHANGED <<latest, selected, card, view, rows, spoiled, bounds>>

RunCaseCountedTwice(p) == \E o \in Outcomes \cup {Raised} :
    /\ pc[p] = "benchmarking"
    /\ results[p].cases < Len(Suite)
    /\ results' = [results EXCEPT ![p].cases = @ + (IF o = Raised THEN 2 ELSE 1),
                                  ![p].points = @ + Score(Suite[results[p].cases + 1], o)]
    /\ Yield(p, "case_done")
    /\ UNCHANGED <<latest, pc, selected, on, card, view, rows, spoiled, bounds>>

RunCaseOrStop(p) == \E o \in Outcomes \cup {Raised} :
    /\ pc[p] = "benchmarking"
    /\ results[p].cases < Len(Suite)
    /\ IF o = Raised
         THEN /\ card' = [card EXCEPT ![p][on[p]] = results[p]]
              /\ Go(p, "choosing")
              /\ UNCHANGED results
         ELSE /\ results' = [results EXCEPT ![p].cases = @ + 1,
                                            ![p].points = @ + Score(Suite[results[p].cases + 1], o)]
              /\ UNCHANGED <<pc, card>>
    /\ Yield(p, "case_done")
    /\ UNCHANGED <<latest, selected, on, view, rows, spoiled, bounds>>

\* The next case; one that raises is scored as a turn without call or answer.
RunCase(p) == \E o \in Outcomes \cup {Raised} :
    /\ pc[p] = "benchmarking"
    /\ results[p].cases < Len(Suite)
    /\ results' = [results EXCEPT ![p].cases = @ + 1,
                                  ![p].points = @ + Score(Suite[results[p].cases + 1], o)]
    /\ Yield(p, "case_done")
    /\ UNCHANGED <<latest, pc, selected, on, card, view, rows, spoiled, bounds>>

\* "model_done": the summary joins the scorecard and the page's table.
FinishModel(p) ==
    /\ pc[p] = "benchmarking"
    /\ results[p].cases = Len(Suite)
    /\ card' = [card EXCEPT ![p][on[p]] = results[p]]
    /\ rows' = [rows EXCEPT ![p][on[p]] = IF view[p] = "waiting" THEN results[p] ELSE @]
    /\ Yield(p, "model_done")
    /\ Go(p, "choosing")
    /\ UNCHANGED <<latest, selected, on, results, view, spoiled, bounds>>

SaveBeginsEarly(p) ==
    /\ pc[p] = "choosing"
    /\ selected[p] # {} /\ Todo(p) # selected[p]
    /\ latest' = [state |-> "empty", rows |-> NoRows]
    /\ spoiled' = [q \in Pages |-> q # p \/ \E w \in Pages : pc[w] = "writing"]
    /\ Go(p, "writing")
    /\ UNCHANGED <<selected, on, results, card, page, bounds>>

\* _save_latest opens the file for writing: what it held is gone.
SaveBegins(p) ==
    /\ pc[p] = "choosing"
    /\ selected[p] # {} /\ Todo(p) = {}
    /\ latest' = [state |-> "empty", rows |-> NoRows]
    /\ spoiled' = [q \in Pages |-> q # p \/ \E w \in Pages : pc[w] = "writing"]
    /\ Go(p, "writing")
    /\ UNCHANGED <<selected, on, results, card, page, bounds>>

\* The directory or the file cannot be opened: logged, and the run goes on.
SaveFails(p) ==
    /\ DiskFails
    /\ pc[p] = "choosing"
    /\ selected[p] # {} /\ Todo(p) = {}
    /\ spoiled' = [spoiled EXCEPT ![p] = TRUE]
    /\ Go(p, "saved")
    /\ UNCHANGED <<latest, selected, on, results, card, page, bounds>>

\* The text is written from the start of the file.  Over the text of another run
\* that opened the file as well, the shorter of the two leaves a tail of the longer.
SaveEnds(p) == \E state \in {"whole", "torn"} :
    /\ pc[p] = "writing"
    /\ latest.state = "empty" => state = "whole"
    /\ latest' = [state |-> state, rows |-> IF state = "whole" THEN card[p] ELSE NoRows]
    /\ Go(p, "saved")
    /\ UNCHANGED <<selected, on, results, card, page, spoiled, bounds>>

\* The mount fails in the middle of the text: logged, and the run goes on.
SaveBreaks(p) ==
    /\ DiskFails
    /\ pc[p] = "writing"
    /\ latest' = [state |-> "torn", rows |-> NoRows]
    /\ spoiled' = [spoiled EXCEPT ![p] = TRUE]
    /\ Go(p, "saved")
    /\ UNCHANGED <<selected, on, results, card, page, bounds>>

\* "result", then "done"
Result(p) ==
    /\ pc[p] = "saved"
    /\ Yield(p, "result")
    /\ Go(p, "finishing")
    /\ UNCHANGED <<latest, selected, on, results, card, view, rows, spoiled, bounds>>

Done(p) ==
    /\ pc[p] = "finishing"
    /\ Yield(p, "done")
    /\ Drop({p})
    /\ Go(p, "ended")
    /\ UNCHANGED <<latest, selected, view, rows, spoiled, bounds>>

\* The client has gone: the generator is dropped where it is suspended, or where
\* it ended.
Abandon(p) ==
    /\ view[p] = "lost"
    /\ pc[p] \in {"choosing", "benchmarking", "finishing", "ended"}
    /\ Drop({p})
    /\ selected' = [selected EXCEPT ![p] = {}]
    /\ Go(p, "idle")
    /\ UNCHANGED <<latest, page, spoiled, bounds>>

-----------------------------------------------------------------------------
(* The process *)

\* The process restarts: the runs are gone, the file is left as it is.  A
\* request still under way reaches the new process.
Restart ==
    /\ restarts < MaxRestarts
    /\ restarts' = restarts + 1
    /\ LET dead == {p \in Pages : pc[p] \notin {"idle", "posted", "ended"}}
           cut  == {p \in dead : view[p] = "waiting"}
       IN  /\ Drop(dead)
           /\ pc' = [p \in Pages |-> IF p \in dead THEN "ended" ELSE pc[p]]
           /\ view' = [p \in Pages |-> IF p \in cut THEN "lost" ELSE view[p]]
           /\ rows' = [p \in Pages |-> IF p \in cut THEN NoRows ELSE rows[p]]
           /\ told' = [p \in Pages |-> IF p \in cut THEN "nothing" ELSE told[p]]
    /\ UNCHANGED <<latest, selected, spoiled, runs>>

\* Nobody has anything left to do.
Quiet ==
    /\ \A p \in Pages : view[p] = "lost" /\ pc[p] \in {"idle", "ended"}
    /\ UNCHANGED vars

RunStep(p) ==
    \/ Choose(p) \/ Refuse(p) \/ StartModel(p) \/ RunCase(p) \/ FinishModel(p)
    \/ SaveBegins(p) \/ SaveFails(p) \/ SaveEnds(p) \/ SaveBreaks(p)
    \/ Result(p) \/ Done(p) \/ Abandon(p)

PageStep(p) ==
    \/ Open(p) \/ Submit(p) \/ NetworkError(p) \/ StreamClosed(p) \/ Lose(p)

Next ==
    \/ \E p \in Pages : RunStep(p) \/ PageStep(p)
    \/ Restart
    \/ Quiet

Spec == Init /\ [][Next]_vars

\* Requests and generators run on, cases end, and a page reads to the end of its stream.
FairSpec == Spec /\ \A p \in Pages : WF_vars(RunStep(p)) /\ WF_vars(StreamClosed(p))

-----------------------------------------------------------------------------
(* Properties *)

\* scorecard.html:14,19-20: every row, of the stored scorecard as of any page,
\* sums up the whole suite, whatever cases raised and wherever runs were
\* abandoned, cut off or killed: two rows can be compared.
SameQuestions ==
    \A m \in Models :
        /\ Stored[m].cases \in {0, Len(Suite)}
        /\ \A p \in Pages : rows[p][m].cases \in {0, Len(Suite)}

\* scorecard.py (the route) line 4: once a page was told that its run is done, a
\* page opened later shows a row for each of the run's models, and the very one
\* the first page shows, unless another run or a fault met the file since the
\* run opened it.
DoneIsStored ==
    \A p \in Pages :
        view[p] = "open" /\ told[p] = "done" /\ ~spoiled[p] =>
            \A m \in selected[p] : Stored[m] = rows[p][m] /\ Stored[m] # NoSummary

\* Every run whose page stays with an unbroken connection comes to an end that
\* the page is told, and the page can start another.
RunIsTold ==
    \A p \in Pages :
        view[p] = "waiting" ~>
            \/ view[p] = "lost"
            \/ view[p] = "open" /\ told[p] \in {"done", "error"}
=============================================================================
