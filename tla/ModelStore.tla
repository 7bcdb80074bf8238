----------------------------- MODULE ModelStore -----------------------------
(***************************************************************************)
(* The model store: what models_engine/registry.py and                     *)
(* models_engine/downloader.py do to the directory MODELS_DIR/<slug>/ of a *)
(* model, step by step, when download jobs (one daemon thread each, plus   *)
(* its snapshot_download worker thread), DELETE requests (shutil.rmtree)   *)
(* and restarts of the process interleave.  The directory survives a       *)
(* restart, the threads do not.                                            *)
(*                                                                         *)
(* A file of the repository is a part of unit size; meta.json is a record; *)
(* a temporary file of write_meta belongs to the job that staged it.       *)
(***************************************************************************)
EXTENDS Naturals, FiniteSets

CONSTANTS
    Models,       \* repo ids, each with a directory of its own
    Jobs,         \* POST /models/download requests, one run_job thread each
    Deletes,      \* POST /models/<id>/delete requests
    Parts,        \* Parts[m]: the files of m that pass allow_patterns
    Declared,     \* Declared[m]: total bytes _repo_plan reads off the hub
    Safetensors,  \* the models whose repo lists a *.safetensors file
    AllowPickle,  \* config.ALLOW_PICKLE
    Cap,          \* config.MAX_MODEL_BYTES
    DiskMayFail,  \* whether write_meta may hit an OSError of the mount
    MaxRestarts   \* bound on the restarts of the process

ASSUME ConstantsAssumption ==
    /\ \A m \in Models : IsFiniteSet(Parts[m]) /\ Declared[m] \in Nat
    /\ Safetensors \subseteq Models
    /\ AllowPickle \in BOOLEAN /\ DiskMayFail \in BOOLEAN
    /\ Cap \in Nat /\ MaxRestarts \in Nat

VARIABLES
    files,      \* files[m]: the parts of m on disk
    meta,       \* meta[m]: the content of meta.json
    tmp,        \* tmp[j]: the *.tmp file write_meta of job j has staged
    pc,         \* pc[j]: where run_job of job j stands
    target,     \* target[j]: the model id validate_source returned
    worker,     \* worker[j]: the snapshot_download thread of job j
    fetched,    \* fetched[j]: the parts that thread has put in place
    event,      \* event[j]: the terminal event run_job published
    removal,    \* removal[d]: where rmtree of request d stands
    victim,     \* victim[d]: the model request d deletes
    todo,       \* todo[d]: the directory entries rmtree has yet to unlink
    disturbed,  \* ghost: the models a delete of which may overlap a job
    short,      \* ghost: the models whose last row is the ready row of a job whose
                \* worker ended early without an error text
    restarts    \* how often the process has restarted

disk == <<files, meta, tmp>>
job == <<pc, target, worker, fetched, event>>
delete == <<removal, victim, todo>>
ghost == <<disturbed, short>>
vars == <<disk, job, delete, ghost, restarts>>

-----------------------------------------------------------------------------
Statuses == {"none", "downloading", "ready", "error"}
Metas == [status : Statuses, size : Nat]
NoMeta == [status |-> "none", size |-> 0]    \* the file does not exist

PcStates == {"idle", "marking", "planning", "polling", "joining", "readying",
             "checking", "failing", "ended", "swept", "died", "lost"}
InFlight(j) == pc[j] \notin {"idle", "ended", "swept", "died", "lost"}

\* How the worker may end.  "short": without an error text and without all the
\* files, because snapshot_download could not reach the hub and answered with the
\* directory as it was, or because what it raised has no text (a bare MemoryError,
\* say) or is not caught by "except Exception".
Ends == {"ok", "short", "error"}
EndedShort(j) == worker[j] = "short"

\* Directory entries as rmtree lists them.  A job stages at most one temporary
\* file per step of run_job, so the step stands for the random name.
TmpEntry(j) == <<"tmp", j, pc[j]>>
PartEntries(m) == {"part"} \X Parts[m]
MetaEntry == <<"meta", "json">>
Entries == (UNION {PartEntries(m) : m \in Models}) \cup {MetaEntry}
             \cup ({"tmp"} \X Jobs \X PcStates)
Listing(m) ==
    ({"part"} \X files[m])
      \cup (IF meta[m] = NoMeta THEN {} ELSE {MetaEntry})
      \cup {TmpEntry(j) : j \in {k \in Jobs : target[k] = m /\ tmp[k] # NoMeta}}

\* meta.json and the temporary files weigh nothing next to the weights.
DirSize(m) == Cardinality(files[m])

TypeOK ==
    /\ files \in [Models -> SUBSET UNION {Parts[m] : m \in Models}]
    /\ \A m \in Models : files[m] \subseteq Parts[m]
    /\ meta \in [Models -> Metas]
    /\ tmp \in [Jobs -> Metas]
    /\ pc \in [Jobs -> PcStates]
    /\ target \in [Jobs -> Models]
    /\ worker \in [Jobs -> {"off", "running"} \cup Ends]
    /\ fetched \in [Jobs -> SUBSET UNION {Parts[m] : m \in Models}]
    /\ event \in [Jobs -> {"none", "done", "error"}]
    /\ removal \in [Deletes -> {"idle", "removing", "ended", "lost"}]
    /\ victim \in [Deletes -> Models]
    /\ todo \in [Deletes -> SUBSET Entries]
    /\ disturbed \subseteq Models /\ short \subseteq Models
    /\ restarts \in 0..MaxRestarts

Init ==
    /\ files = [m \in Models |-> {}]
    /\ meta = [m \in Models |-> NoMeta]
    /\ tmp = [j \in Jobs |-> NoMeta]
    /\ pc = [j \in Jobs |-> "idle"]
    /\ target \in [Jobs -> Models]
    /\ worker = [j \in Jobs |-> "off"]
    /\ fetched = [j \in Jobs |-> {}]
    /\ event = [j \in Jobs |-> "none"]
    /\ removal = [d \in Deletes |-> "idle"]
    /\ victim \in [Deletes -> Models]
    /\ todo = [d \in Deletes |-> {}]
    /\ disturbed = {} /\ short = {}
    /\ restarts = 0

-----------------------------------------------------------------------------
(* write_meta: stage the merged record in a temporary file, then replace.  *)

\* mkdir, read the old meta.json, merge, mkstemp, write.
Stage(j, record, next) ==
    /\ tmp' = [tmp EXCEPT ![j] = record]
    /\ pc' = [pc EXCEPT ![j] = next]

ErrorRecordForgetsStatus(j) == meta[target[j]]
ErrorRecordPartial(j) == [status |-> "partial", size |-> meta[target[j]].size]

\* The except branch of run_job: only the status (and the message) are
\* given, the other fields are those of the old file.
ErrorRecord(j) == [status |-> "error", size |-> meta[target[j]].size]

\* download returns or raises: its worker has ended, its locals are gone.
Leave(j) ==
    /\ worker' = [worker EXCEPT ![j] = "off"]
    /\ fetched' = [fetched EXCEPT ![j] = {}]

Raise(j) == Stage(j, ErrorRecord(j), "failing") /\ Leave(j)

ReportedSilently(j) == event[j]

\* The event the job has published once it commits the record it staged.
Reported(j) == IF pc[j] = "failing" THEN "error" ELSE event[j]

\* No other job is in flight on j's model and no delete is removing it.
Undisturbed(j) ==
    /\ \A k \in Jobs \ {j} : target[k] = target[j] => ~InFlight(k)
    /\ \A d \in Deletes : victim[d] = target[j] => removal[d] # "removing"

\* Path(tmp).replace(mp), and what run_job does next.
Committed(j) ==
    /\ pc[j] \in {"marking", "readying", "failing"}
    /\ tmp[j] # NoMeta
    /\ meta' = [meta EXCEPT ![target[j]] = tmp[j]]
    /\ tmp' = [tmp EXCEPT ![j] = NoMeta]
    /\ pc' = [pc EXCEPT ![j] = CASE @ = "marking"  -> "planning"
                                 [] @ = "readying" -> "checking"
                                 [] OTHER          -> "ended"]
    /\ event' = [event EXCEPT ![j] = Reported(j)]
    /\ disturbed' = IF pc[j] = "marking" /\ Undisturbed(j)
                    THEN disturbed \ {target[j]} ELSE disturbed
    /\ short' = IF pc[j] = "readying" /\ EndedShort(j)
                THEN short \cup {target[j]} ELSE short \ {target[j]}
    /\ UNCHANGED <<files, target, worker, fetched, delete, restarts>>

\* mkstemp, the write or replace raises: rmtree took the directory or the
\* temporary file away ("swept"), or the mount failed ("died").  The placeholder
\* write and the error write are outside the try block: the thread ends silently.
CommitRaises(j) ==
    /\ pc[j] \in {"marking", "readying", "failing"}
    /\ tmp[j] = NoMeta \/ DiskMayFail
    /\ IF pc[j] = "readying"
       THEN Raise(j)
       ELSE /\ Stage(j, NoMeta, IF tmp[j] = NoMeta THEN "swept" ELSE "died")
            /\ UNCHANGED <<worker, fetched>>
    /\ UNCHANGED <<files, meta, target, event, delete, ghost, restarts>>

-----------------------------------------------------------------------------
(* run_job and download *)

StartUnmarked(j) ==
    /\ pc[j] = "idle"
    /\ pc' = [pc EXCEPT ![j] = "planning"]
    /\ UNCHANGED <<disk, target, worker, fetched, event, delete, ghost, restarts>>

\* The route starts the thread; run_job stages the placeholder row.
Start(j) ==
    /\ pc[j] = "idle"
    /\ Stage(j, [status |-> "downloading", size |-> 0], "marking")
    /\ UNCHANGED <<files, meta, target, worker, fetched, event, delete,
                   ghost, restarts>>

Admissible(m) == (AllowPickle \/ m \in Safetensors) /\ Declared[m] <= Cap

\* _repo_plan answers and the guards let the repo through: start the worker.
Plan(j) ==
    /\ pc[j] = "planning"
    /\ Admissible(target[j])
    /\ pc' = [pc EXCEPT ![j] = "polling"]
    /\ worker' = [worker EXCEPT ![j] = "running"]
    /\ UNCHANGED <<disk, target, fetched, event, delete, ghost,
                   restarts>>

\* The hub call raises, or a guard raises DownloadError.
PlanRaises(j) ==
    /\ pc[j] = "planning"
    /\ Raise(j)
    /\ UNCHANGED <<files, meta, target, event, delete, ghost, restarts>>

\* snapshot_download puts one more file in place (or finds it there).
Fetch(j) ==
    /\ worker[j] = "running"
    /\ \E p \in Parts[target[j]] \ fetched[j] :
           /\ fetched' = [fetched EXCEPT ![j] = @ \cup {p}]
           /\ files' = [files EXCEPT ![target[j]] = @ \cup {p}]
    /\ UNCHANGED <<meta, tmp, pc, target, worker, event, delete,
                   ghost, restarts>>

\* The worker returns or raises.
WorkerEnds(j) ==
    /\ worker[j] = "running"
    /\ \E end \in Ends :
           /\ end = "ok" => fetched[j] = Parts[target[j]]
           /\ worker' = [worker EXCEPT ![j] = end]
    /\ UNCHANGED <<disk, pc, target, fetched, event, delete, ghost, restarts>>

\* The poll loop sees the directory over the cap and stops polling (the
\* worker may have ended since is_alive was asked).
PollBreaks(j) ==
    /\ pc[j] = "polling"
    /\ DirSize(target[j]) > Cap
    /\ pc' = [pc EXCEPT ![j] = "joining"]
    /\ UNCHANGED <<disk, target, worker, fetched, event, delete, ghost,
                   restarts>>

WorkerReturned(j) == worker[j] # "off"

\* result.get("error") is falsy: the worker returned, or raised without a text.
NoErrorText(j) == worker[j] # "error"

\* t.join(), then either raise the worker's error or measure the directory
\* and stage the ready row.
Join(j) ==
    /\ pc[j] \in {"polling", "joining"}
    /\ worker[j] \in Ends
    /\ IF NoErrorText(j)
       THEN /\ Stage(j, [status |-> "ready", size |-> DirSize(target[j])], "readying")
            /\ UNCHANGED <<worker, fetched>>
       ELSE Raise(j)
    /\ UNCHANGED <<files, meta, target, event, delete, ghost, restarts>>

\* registry.get after the ready row: no file means AttributeError on None.
Check(j) ==
    /\ pc[j] = "checking"
    /\ IF meta[target[j]] = NoMeta
       THEN Raise(j) /\ UNCHANGED event
       ELSE /\ pc' = [pc EXCEPT ![j] = "ended"]
            /\ event' = [event EXCEPT ![j] = "done"]
            /\ Leave(j)
            /\ UNCHANGED tmp
    /\ UNCHANGED <<files, meta, target, delete, ghost, restarts>>

-----------------------------------------------------------------------------
(* registry.delete: shutil.rmtree lists the directory, then unlinks the    *)
(* entries one by one; what appears after the listing stays.               *)

DeleteBegins(d) ==
    /\ removal[d] = "idle"
    /\ removal' = [removal EXCEPT ![d] = "removing"]
    /\ todo' = [todo EXCEPT ![d] = Listing(victim[d])]
    /\ disturbed' = disturbed \cup {victim[d]}
    /\ UNCHANGED <<disk, job, victim, short, restarts>>

Unlink(d) ==
    /\ removal[d] = "removing"
    /\ \E e \in todo[d] :
           /\ todo' = [todo EXCEPT ![d] = @ \ {e}]
           /\ files' = [files EXCEPT ![victim[d]] = {p \in @ : <<"part", p>> # e}]
           /\ meta' = [meta EXCEPT ![victim[d]] = IF e = MetaEntry THEN NoMeta ELSE @]
           /\ tmp' = [j \in Jobs |-> IF e = TmpEntry(j) THEN NoMeta ELSE tmp[j]]
    /\ UNCHANGED <<job, removal, victim, ghost, restarts>>

DeleteEnds(d) ==
    /\ removal[d] = "removing"
    /\ todo[d] = {}
    /\ removal' = [removal EXCEPT ![d] = "ended"]
    /\ UNCHANGED <<disk, job, victim, todo, ghost, restarts>>

-----------------------------------------------------------------------------
\* The container restarts: every thread is gone, the share is as it was.
Restart ==
    /\ restarts < MaxRestarts
    /\ restarts' = restarts + 1
    /\ pc' = [j \in Jobs |-> IF InFlight(j) THEN "lost" ELSE pc[j]]
    /\ worker' = [j \in Jobs |-> "off"] /\ fetched' = [j \in Jobs |-> {}]
    /\ removal' = [d \in Deletes |-> IF removal[d] = "removing" THEN "lost"
                                                                ELSE removal[d]]
    /\ todo' = [d \in Deletes |-> {}]
    /\ UNCHANGED <<disk, target, event, victim, ghost>>

\* Every request has been served; the server waits for the next one.
Served ==
    /\ \A j \in Jobs : pc[j] # "idle" /\ ~InFlight(j)
    /\ \A d \in Deletes : removal[d] \in {"ended", "lost"}
    /\ UNCHANGED vars

JobStep(j) ==
    \/ Start(j) \/ Committed(j) \/ CommitRaises(j) \/ Plan(j) \/ PlanRaises(j)
    \/ PollBreaks(j) \/ Join(j) \/ Check(j)
WorkerStep(j) == Fetch(j) \/ WorkerEnds(j)
DeleteStep(d) == DeleteBegins(d) \/ Unlink(d) \/ DeleteEnds(d)

Next ==
    \/ \E j \in Jobs : JobStep(j) \/ WorkerStep(j)
    \/ \E d \in Deletes : DeleteStep(d)
    \/ Restart
    \/ Served

Spec == Init /\ [][Next]_vars

\* As long as a thread of a started job lives, the threads get on: the hub client
\* times its requests out, so the worker ends.  Users need not send the requests
\* that start anything.  No job takes steps for ever, so nothing is said of turns.
Fairness == WF_vars(\E j \in Jobs : pc[j] # "idle" /\ (JobStep(j) \/ WorkerStep(j)))

FairSpec == Spec /\ Fairness

-----------------------------------------------------------------------------
(* Properties *)

\* Only a model the guards of download let through gets a ready row.  Whatever
\* jobs ran at the same time on the same model and wherever the process crashed,
\* as long as no delete overlapped, the row claims no more than is on disk, and
\* every file of the repository is there, unless the worker of the job that wrote
\* the row ended early without an error text (short): that text is all download
\* looks at after the join.
ReadyIsComplete ==
    \A m \in Models :
        meta[m].status = "ready" =>
            /\ Admissible(m)
            /\ m \notin disturbed => meta[m].size <= DirSize(m)
            /\ m \notin disturbed \cup short =>
                  files[m] = Parts[m] /\ meta[m].size = Cardinality(Parts[m])

\* A delete is about to unlink the row of m.
Doomed(m) == \E d \in Deletes : victim[d] = m /\ MetaEntry \in todo[d]

\* A restart or a failing mount killed a thread at work on m.
Bereaved(m) ==
    \/ \E j \in Jobs : target[j] = m /\ pc[j] \in {"died", "lost"}
    \/ \E d \in Deletes : victim[d] = m /\ removal[d] = "lost"

\* A row that says "downloading" is backed by a running job, or an rmtree is
\* about to unlink it, unless a restart or the mount killed one of them: no
\* interleaving of jobs and deletes alone leaves the row behind.
DownloadingHasJob ==
    \A m \in Models :
        meta[m].status = "downloading" =>
            \/ \E j \in Jobs : target[j] = m /\ InFlight(j)
            \/ Doomed(m)
            \/ Bereaved(m)

\* What the terminal event of a job tells the browser is what the registry
\* says, when that job was the only one to touch its model.
LoneJobToldTheTruth ==
    \A j \in Jobs :
        (/\ event[j] # "none"
         /\ \A k \in Jobs \ {j} : target[k] = target[j] => pc[k] = "idle"
         /\ \A d \in Deletes : victim[d] = target[j] => removal[d] = "idle")
        => meta[target[j]].status = (IF event[j] = "done" THEN "ready" ELSE "error")

\* downloader.py:170-172: a model found to be over the cap while it was
\* downloading is refused the ready row.
OverCapIsRefused ==
    \A m \in Models : meta[m].status = "ready" => meta[m].size <= Cap

\* Every job that started reports done or error to its followers in the end,
\* unless the process restarted, the mount failed or an rmtree swept away the
\* temporary file of a write outside the try block: again and again a time comes
\* when no job owes its report.
Owing(j) == pc[j] \notin {"idle", "swept", "died", "lost"} /\ event[j] = "none"
JobReports == []<>(\A j \in Jobs : ~Owing(j))

-----------------------------------------------------------------------------
(* The registry that the rest of the program sees *)

RowOf(m) ==
    IF meta[m] = NoMeta THEN "none" ELSE IF meta[m].status = "ready" THEN "ready" ELSE "unready"

\* A delete is past the row once it has no meta.json left to unlink.
StageOf(d) ==
    IF removal[d] = "removing" /\ MetaEntry \notin todo[d] THEN "removed" ELSE removal[d]

Registry == INSTANCE Registry WITH
    row <- [m \in Models |-> RowOf(m)],
    removal <- [d \in Deletes |-> StageOf(d)]

\* Whatever jobs, deletes, failures and restarts interleave, the row of a model
\* changes as Registry promises: no job completes without a placeholder that it or
\* another job has written, and a row disappears only by a delete that has listed
\* it, which takes away one row at most.
ImplementsRegistry == Registry!RegistrySpec
=============================================================================
