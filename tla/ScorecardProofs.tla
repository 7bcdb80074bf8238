-------------------------- MODULE ScorecardProofs --------------------------
(***************************************************************************)
(* Proofs about Scorecard, for any models, any suite and any number of     *)
(* pages, runs and restarts.                                               *)
(***************************************************************************)
EXTENDS Scorecard, TLAPS

-----------------------------------------------------------------------------
\* The score of a case is a number of tenths, at most ten.
LEMMA ScoreBounded == \A e, o : Score(e, o) \in 0..10
<1> SUFFICES ASSUME NEW e, NEW o PROVE Score(e, o) \in 0..10
  OBVIOUS
<1>1. Weight(5, ToolCorrect(e, o)) \in {0, 5}
  BY DEF Weight
<1>2. Weight(3, ParamsCorrect(e, o)) \in {0, 3}
  BY DEF Weight
<1>3. Weight(2, o.completed) \in {0, 2}
  BY DEF Weight
<1> QED  BY <1>1, <1>2, <1>3 DEF Score

\* A suite has a first case, so a summary of all of it is not the empty one.
LEMMA SuiteType == Len(Suite) \in Nat /\ Len(Suite) > 0
BY ConstantsAssumption

LEMMA NoSummaryType == NoSummary \in Summaries /\ NoRows \in [Models -> Summaries]
BY SuiteType DEF NoSummary, NoRows, Summaries

\* What is shown of the stored scorecard is a table.
LEMMA StoredType == TypeOK => Stored \in [Models -> Summaries]
BY NoSummaryType DEF TypeOK, Stored

\* Scoring one more case of an unfinished suite leaves a summary.
LEMMA CaseType ==
    ASSUME NEW s \in Summaries, s.cases < Len(Suite), NEW e, NEW o
    PROVE  [s EXCEPT !.cases = @ + 1, !.points = @ + Score(e, o)] \in Summaries
<1>1. Score(e, o) \in Nat
  BY ScoreBounded
<1>2. s.points + Score(e, o) \in Nat /\ s.cases + 1 \in 0..Len(Suite)
  BY <1>1, SuiteType DEF Summaries
<1> QED  BY <1>2 DEF Summaries

-----------------------------------------------------------------------------
(* Types *)

\* A generator that runs cases has a model to run them on.
AtWork == \A p \in Pages : pc[p] = "benchmarking" => on[p] \in Models

WorkInv == TypeOK /\ AtWork

LEMMA WorkInit == Init => WorkInv
<1> SUFFICES ASSUME Init PROVE TypeOK /\ AtWork
  BY DEF WorkInv
<1> USE ConstantsAssumption, NoSummaryType DEF Init
<1>1. latest \in [state : {"absent", "empty", "torn", "whole"}, rows : [Models -> Summaries]]
  OBVIOUS
<1>2. results \in [Pages -> Summaries] /\ card \in [Pages -> [Models -> Summaries]]
  OBVIOUS
<1>3. rows \in [Pages -> [Models -> Summaries]]
  OBVIOUS
<1> QED  BY <1>1, <1>2, <1>3 DEF TypeOK, AtWork, Events

LEMMA WorkStep == WorkInv /\ [Next]_vars => WorkInv'
<1> SUFFICES ASSUME WorkInv, [Next]_vars PROVE WorkInv'
  OBVIOUS
<1> USE ConstantsAssumption, NoSummaryType DEF WorkInv, TypeOK, AtWork
<1> USE DEF Go, Yield, Events, server, page, bounds
<1>1. ASSUME NEW p \in Pages, Open(p) PROVE WorkInv'
  BY <1>1, StoredType DEF Open
<1>2. ASSUME NEW p \in Pages, Submit(p) PROVE WorkInv'
  BY <1>2 DEF Submit
<1>3. ASSUME NEW p \in Pages, NetworkError(p) PROVE WorkInv'
  BY <1>3 DEF NetworkError
<1>4. ASSUME NEW p \in Pages, StreamClosed(p) PROVE WorkInv'
  BY <1>4 DEF StreamClosed
<1>5. ASSUME NEW p \in Pages, Lose(p) PROVE WorkInv'
  BY <1>5 DEF Lose
<1>6. ASSUME NEW p \in Pages, Choose(p) PROVE WorkInv'
  BY <1>6 DEF Choose
<1>7. ASSUME NEW p \in Pages, Refuse(p) PROVE WorkInv'
  BY <1>7 DEF Refuse
<1>8. ASSUME NEW p \in Pages, StartModel(p) PROVE WorkInv'
  <2> DEFINE m == CHOOSE n \in Todo(p) : TRUE
  <2>1. m \in Models
    BY <1>8 DEF StartModel, Todo
  <2> HIDE DEF m
  <2>2. on' = [on EXCEPT ![p] = m]
    BY <1>8 DEF StartModel, m
  <2>3. /\ results' = [results EXCEPT ![p] = NoSummary]
        /\ Yield(p, "model_start") /\ Go(p, "benchmarking")
        /\ UNCHANGED <<latest, selected, card, view, rows, spoiled, bounds>>
    BY <1>8 DEF StartModel
  <2> QED  BY <2>1, <2>2, <2>3
<1>9. ASSUME NEW p \in Pages, RunCase(p) PROVE WorkInv'
  <2>1. PICK o \in Outcomes \cup {Raised} :
          results' = [results EXCEPT ![p].cases = @ + 1,
                                     ![p].points = @ + Score(Suite[results[p].cases + 1], o)]
    BY <1>9 DEF RunCase
  <2> DEFINE s == [results[p] EXCEPT !.cases = @ + 1,
                                     !.points = @ + Score(Suite[results[p].cases + 1], o)]
  <2>2. s \in Summaries
    BY <1>9, CaseType DEF RunCase
  <2>3. results' = [results EXCEPT ![p] = s]
    BY <2>1 DEF Summaries
  <2> HIDE DEF s
  <2> QED  BY <1>9, <2>2, <2>3 DEF RunCase
<1>10. ASSUME NEW p \in Pages, FinishModel(p) PROVE WorkInv'
  BY <1>10 DEF FinishModel
<1>11. ASSUME NEW p \in Pages, SaveBegins(p) PROVE WorkInv'
  BY <1>11 DEF SaveBegins
<1>12. ASSUME NEW p \in Pages, SaveFails(p) PROVE WorkInv'
  BY <1>12 DEF SaveFails
<1>13. ASSUME NEW p \in Pages, SaveEnds(p) PROVE WorkInv'
  BY <1>13 DEF SaveEnds
<1>14. ASSUME NEW p \in Pages, SaveBreaks(p) PROVE WorkInv'
  BY <1>14 DEF SaveBreaks
<1>15. ASSUME NEW p \in Pages, Result(p) PROVE WorkInv'
  BY <1>15 DEF Result
<1>16. ASSUME NEW p \in Pages, Done(p) PROVE WorkInv'
  BY <1>16 DEF Done, Drop
<1>17. ASSUME NEW p \in Pages, Abandon(p) PROVE WorkInv'
  BY <1>17 DEF Abandon, Drop
<1>18. CASE Restart
  BY <1>18 DEF Restart, Drop
<1>19. CASE UNCHANGED vars
  BY <1>19 DEF vars
<1> QED
  BY <1>1, <1>2, <1>3, <1>4, <1>5, <1>6, <1>7, <1>8, <1>9, <1>10, <1>11, <1>12,
     <1>13, <1>14, <1>15, <1>16, <1>17, <1>18, <1>19 DEF Next, RunStep, PageStep, Quiet

\* Every variable of Scorecard keeps its type.
THEOREM TypeCorrect == Spec => []TypeOK
<1>1. WorkInv => TypeOK
  BY DEF WorkInv
<1> QED  BY WorkInit, WorkStep, <1>1, PTL DEF Spec

-----------------------------------------------------------------------------
(* Summaries are of the whole suite *)

\* Of the whole suite, or of nothing yet.
Whole(table) == \A m \in Models : table[m].cases \in {0, Len(Suite)}

\* Not only what is shown is whole, but also what will be: the card of each run
\* and the text of the file.
WholeInv ==
    /\ Whole(latest.rows)
    /\ \A p \in Pages : Whole(card[p]) /\ Whole(rows[p])

LEMMA NoRowsWhole == Whole(NoRows)
BY SuiteType DEF Whole, NoRows, NoSummary

LEMMA WholeInit == Init => WholeInv
BY NoRowsWhole DEF Init, WholeInv

\* Putting a finished summary into a table leaves it whole.
LEMMA PutWhole ==
    ASSUME NEW t \in [Models -> Summaries], Whole(t), NEW n \in Models,
           NEW s \in Summaries, s.cases = Len(Suite)
    PROVE  Whole([t EXCEPT ![n] = s])
BY DEF Whole

LEMMA WholeStep == WorkInv /\ WholeInv /\ [Next]_vars => WholeInv'
<1> SUFFICES ASSUME WorkInv, WholeInv, [Next]_vars PROVE WholeInv'
  OBVIOUS
<1> USE NoRowsWhole DEF WorkInv, TypeOK, WholeInv
<1> USE DEF server, page, bounds
<1>1. ASSUME NEW p \in Pages, Open(p) PROVE WholeInv'
  <2>1. Whole(Stored)
    BY DEF Stored
  <2> QED  BY <1>1, <2>1 DEF Open
<1>2. ASSUME NEW p \in Pages, Submit(p) \/ NetworkError(p) \/ StreamClosed(p)
      PROVE  WholeInv'
  BY <1>2 DEF Submit, NetworkError, StreamClosed
<1>3. ASSUME NEW p \in Pages, Lose(p) PROVE WholeInv'
  BY <1>3 DEF Lose
<1>4. ASSUME NEW p \in Pages, Choose(p) \/ Refuse(p) \/ StartModel(p) \/ RunCase(p)
      PROVE  WholeInv'
  BY <1>4 DEF Choose, Refuse, StartModel, RunCase
<1>5. ASSUME NEW p \in Pages, FinishModel(p) PROVE WholeInv'
  <2>1. on[p] \in Models /\ results[p] \in Summaries /\ results[p].cases = Len(Suite)
    BY <1>5 DEF FinishModel, AtWork
  <2>2. Whole([card[p] EXCEPT ![on[p]] = results[p]])
    BY <2>1, PutWhole
  <2>3. Whole([rows[p] EXCEPT ![on[p]] = results[p]])
    BY <2>1, PutWhole
  <2>4. card' = [card EXCEPT ![p] = [card[p] EXCEPT ![on[p]] = results[p]]]
    BY <1>5 DEF FinishModel
  <2>5. \/ rows' = [rows EXCEPT ![p] = [rows[p] EXCEPT ![on[p]] = results[p]]]
        \/ rows' = rows
    BY <1>5, <2>1 DEF FinishModel
  <2>6. latest' = latest
    BY <1>5 DEF FinishModel
  <2> QED  BY <2>2, <2>3, <2>4, <2>5, <2>6
<1>6. ASSUME NEW p \in Pages, SaveBegins(p) PROVE WholeInv'
  BY <1>6 DEF SaveBegins
<1>7. ASSUME NEW p \in Pages, SaveFails(p) PROVE WholeInv'
  BY <1>7 DEF SaveFails
<1>8. ASSUME NEW p \in Pages, SaveEnds(p) PROVE WholeInv'
  BY <1>8 DEF SaveEnds
<1>9. ASSUME NEW p \in Pages, SaveBreaks(p) PROVE WholeInv'
  BY <1>9 DEF SaveBreaks
<1>10. ASSUME NEW p \in Pages, Result(p) PROVE WholeInv'
  BY <1>10 DEF Result
<1>11. ASSUME NEW p \in Pages, Done(p) PROVE WholeInv'
  BY <1>11 DEF Done, Drop
<1>12. ASSUME NEW p \in Pages, Abandon(p) PROVE WholeInv'
  BY <1>12 DEF Abandon, Drop
<1>13. CASE Restart
  BY <1>13 DEF Restart, Drop
<1>14. CASE UNCHANGED vars
  BY <1>14 DEF vars
<1> QED
  BY <1>1, <1>2, <1>3, <1>4, <1>5, <1>6, <1>7, <1>8, <1>9, <1>10, <1>11, <1>12,
     <1>13, <1>14 DEF Next, RunStep, PageStep, Quiet

\* scorecard.html:14,19-20: all rows sum up the same questions, for any suite and
\* however runs raise, overlap, are abandoned or die.
THEOREM RowsAreComparable == Spec => []SameQuestions
<1>1. WorkInv /\ WholeInv => SameQuestions
  <2> SUFFICES ASSUME WorkInv, WholeInv PROVE SameQuestions
    OBVIOUS
  <2>1. Whole(Stored)
    BY NoRowsWhole DEF Stored, WholeInv
  <2> QED  BY <2>1 DEF SameQuestions, WholeInv, Whole
<1> QED  BY WorkInit, WorkStep, WholeInit, WholeStep, <1>1, PTL DEF Spec

-----------------------------------------------------------------------------
(* What is done is stored *)

Saving == {"writing", "saved", "finishing"}

\* The page has been told that its run is done.
Told(p) == told[p] = "done" /\ view[p] \in {"waiting", "open"}

\* A page with its button has no run, and a run that is over has no card.
AtRest ==
    \A p \in Pages :
        /\ view[p] \in {"closed", "open"} => pc[p] = "idle"
        /\ pc[p] \in {"idle", "posted", "ended"} => card[p] = NoRows
        /\ view[p] = "closed" => told[p] = "nothing"
        /\ Told(p) => pc[p] \in {"ended", "idle"}

\* A run benchmarks the models it was given.
OnSelected ==
    \A p \in Pages :
        /\ pc[p] = "benchmarking" => on[p] \in selected[p]
        /\ \A m \in Models \ selected[p] : card[p][m] = NoSummary

\* The table follows the card, and a run that saves has summed up all its models.
CardShown ==
    \A p \in Pages :
        /\ view[p] = "waiting" =>
              \A m \in Models : card[p][m] # NoSummary => rows[p][m] = card[p][m]
        /\ pc[p] \in Saving => \A m \in selected[p] : card[p][m] # NoSummary

\* Until another run opens it, the file is as the run has left it.
FileIsOurs ==
    \A p \in Pages : ~spoiled[p] =>
        /\ pc[p] \in Saving \/ Told(p) => \A q \in Pages \ {p} : pc[q] # "writing"
        /\ pc[p] = "writing" => latest.state = "empty"
        /\ pc[p] \in {"saved", "finishing"} => latest.state = "whole" /\ latest.rows = card[p]
        /\ Told(p) => \A m \in selected[p] : Stored[m] = rows[p][m] /\ Stored[m] # NoSummary

StoredInv == AtRest /\ OnSelected /\ CardShown /\ FileIsOurs

LEMMA StoredInit == Init => StoredInv
BY DEF Init, StoredInv, AtRest, OnSelected, NoRows, CardShown, FileIsOurs, Told, Saving, Stored

\* Every step of a run, a page or the process keeps the file and the tables in step.
LEMMA StoredStep == WorkInv /\ StoredInv /\ [Next]_vars => StoredInv'
<1> SUFFICES ASSUME WorkInv, StoredInv, [Next]_vars PROVE StoredInv'
  OBVIOUS
<1> USE DEF WorkInv, TypeOK, StoredInv, AtRest, OnSelected, CardShown, FileIsOurs, Told, Saving, Stored
<1> USE DEF Go, Yield, server, page, bounds
<1>1. ASSUME NEW p \in Pages, Open(p) PROVE StoredInv'
  BY <1>1 DEF Open, Stored
<1>2. ASSUME NEW p \in Pages, Submit(p) PROVE StoredInv'
  BY <1>2 DEF Submit, NoRows
<1>3. ASSUME NEW p \in Pages, NetworkError(p) PROVE StoredInv'
  BY <1>3 DEF NetworkError
<1>4. ASSUME NEW p \in Pages, StreamClosed(p) PROVE StoredInv'
  BY <1>4 DEF StreamClosed
<1>5. ASSUME NEW p \in Pages, Lose(p) PROVE StoredInv'
  BY <1>5 DEF Lose
<1>6. ASSUME NEW p \in Pages, Choose(p) PROVE StoredInv'
  BY <1>6 DEF Choose, NoRows
<1>7. ASSUME NEW p \in Pages, Refuse(p) PROVE StoredInv'
  <2>1. card[p] = NoRows
    <3>1. \A m \in Models : card[p][m] = NoSummary
      BY <1>7 DEF Refuse
    <3> QED  BY <3>1 DEF NoRows
  <2> QED  BY <1>7, <2>1 DEF Refuse
<1>8. ASSUME NEW p \in Pages, StartModel(p) PROVE StoredInv'
  <2> DEFINE m == CHOOSE n \in Todo(p) : TRUE
  <2>1. m \in selected[p]
    BY <1>8 DEF StartModel, Todo
  <2> HIDE DEF m
  <2>2. on' = [on EXCEPT ![p] = m]
    BY <1>8 DEF StartModel, m
  <2>3. /\ pc[p] = "choosing"
        /\ Yield(p, "model_start") /\ Go(p, "benchmarking")
        /\ UNCHANGED <<latest, selected, card, view, rows, spoiled, bounds>>
    BY <1>8 DEF StartModel
  <2> QED  BY <2>1, <2>2, <2>3
<1>9. ASSUME NEW p \in Pages, RunCase(p) PROVE StoredInv'
  BY <1>9 DEF RunCase
<1>10. ASSUME NEW p \in Pages, FinishModel(p) PROVE StoredInv'
  BY <1>10 DEF FinishModel, AtWork
<1>11. ASSUME NEW p \in Pages, SaveBegins(p) PROVE StoredInv'
  <2>1. \A m \in selected[p] : card[p][m] # NoSummary
    BY <1>11 DEF SaveBegins, Todo
  <2>2. /\ pc[p] = "choosing" /\ Go(p, "writing") /\ latest'.state = "empty"
        /\ \A q \in Pages : ~spoiled'[q] => q = p /\ \A w \in Pages : pc[w] # "writing"
        /\ UNCHANGED <<selected, on, card, view, rows, told>>
    BY <1>11 DEF SaveBegins
  <2>3. AtRest'
    BY <2>2
  <2>4. OnSelected' /\ CardShown'
    BY <2>1, <2>2
  <2>5. FileIsOurs'
    BY <2>2
  <2> QED  BY <2>3, <2>4, <2>5
<1>12. ASSUME NEW p \in Pages, SaveFails(p) PROVE StoredInv'
  BY <1>12 DEF SaveFails, Todo
<1>13. ASSUME NEW p \in Pages, SaveEnds(p) PROVE StoredInv'
  BY <1>13 DEF SaveEnds
<1>14. ASSUME NEW p \in Pages, SaveBreaks(p) PROVE StoredInv'
  BY <1>14 DEF SaveBreaks
<1>15. ASSUME NEW p \in Pages, Result(p) PROVE StoredInv'
  BY <1>15 DEF Result
<1>16. ASSUME NEW p \in Pages, Done(p) PROVE StoredInv'
  <2>1. /\ pc[p] = "finishing" /\ Go(p, "ended") /\ Yield(p, "done")
        /\ card'[p] = NoRows /\ \A q \in Pages \ {p} : card'[q] = card[q] /\ on'[q] = on[q]
        /\ UNCHANGED <<latest, selected, view, rows, spoiled>>
    BY <1>16 DEF Done, Drop
  <2>2. \A m \in Models : card'[p][m] = NoSummary
    BY <2>1 DEF NoRows
  <2>3. view[p] = "waiting" /\ ~spoiled[p] =>
            \A m \in selected[p] : Stored[m] = rows[p][m] /\ Stored[m] # NoSummary
    BY <2>1
  <2>4. AtRest' /\ OnSelected' /\ CardShown'
    BY <2>1, <2>2
  <2>5. FileIsOurs'
    BY <2>1, <2>3
  <2> QED  BY <2>4, <2>5
<1>17. ASSUME NEW p \in Pages, Abandon(p) PROVE StoredInv'
  BY <1>17 DEF Abandon, Drop, NoRows
<1>18. CASE Restart
  BY <1>18 DEF Restart, Drop, NoRows
<1>19. CASE UNCHANGED vars
  BY <1>19 DEF vars
<1> QED
  BY <1>1, <1>2, <1>3, <1>4, <1>5, <1>6, <1>7, <1>8, <1>9, <1>10, <1>11, <1>12,
     <1>13, <1>14, <1>15, <1>16, <1>17, <1>18, <1>19 DEF Next, RunStep, PageStep, Quiet

\* A page that was told "done" can rely on the stored scorecard, for any number of
\* pages and runs, unless another run or a fault met the file.
THEOREM DoneStaysStored == Spec => []DoneIsStored
<1>1. StoredInv => DoneIsStored
  BY DEF StoredInv, FileIsOurs, Told, DoneIsStored
<1> QED  BY WorkInit, WorkStep, StoredInit, StoredStep, <1>1, PTL DEF Spec
=============================================================================
