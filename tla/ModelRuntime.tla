---------------------------- MODULE ModelRuntime ----------------------------
(***************************************************************************)
(* The inference runtime: the ModelRuntime singleton of                    *)
(* models_engine/inference.py (one RLock, one slot for a loaded model),    *)
(* the calls of generate_stream that chats and agent turns make of it, the *)
(* generation thread each of them starts, and the delete route of          *)
(* app/routes/models.py, which looks at the slot before it removes the     *)
(* model from disk.                                                        *)
(*                                                                         *)
(* A loaded model object is named after the request whose call loaded it,  *)
(* so its weights are those of want[object].  The rows of the registry     *)
(* change by the steps of Registry, as those of ModelStore do.             *)
(***************************************************************************)
CONSTANTS
    Models,       \* repo ids
    Requests,     \* calls of generate_stream
    Deletes,      \* calls of delete_model
    None,         \* Python's None: no model, no object, nobody
    GenMayRaise   \* whether model.generate may raise in its thread

ASSUME ConstantsAssumption ==
    /\ None \notin Models \cup Requests
    /\ GenMayRaise \in BOOLEAN

VARIABLES
    lock,       \* the request that holds _lock across a load, or None
    loaded,     \* _loaded_id
    model,      \* _model (and _tokenizer): the object in the slot
    pc,         \* pc[r]: where generate_stream of r stands
    want,       \* want[r]: its argument model_id
    held,       \* held[r]: the object in its local variable model
    gen,        \* gen[r]: the thread running model.generate for it
    removal,    \* removal[d]: where delete_model, then registry.delete of d stands
    victim,     \* victim[d]: its argument model_id
    row,        \* row[m]: the status registry.get reads
    raced       \* ghost: the deletes that overlapped a load of their victim

slot == <<lock, loaded, model>>
request == <<pc, want, held, gen>>
delete == <<removal, victim, raced>>
vars == <<slot, request, delete, row>>

-----------------------------------------------------------------------------
TypeOK ==
    /\ lock \in Requests \cup {None}
    /\ loaded \in Models \cup {None}
    /\ model \in Requests \cup {None}
    /\ pc \in [Requests -> {"idle", "loading", "gap", "streaming", "done",
                            "failed", "abandoned"}]
    /\ want \in [Requests -> Models]
    /\ held \in [Requests -> Requests \cup {None}]
    /\ gen \in [Requests -> {"none", "running", "finished", "crashed"}]
    /\ removal \in [Deletes -> {"idle", "unloading", "removing", "removed", "ended"}]
    /\ victim \in [Deletes -> Models]
    /\ row \in [Models -> {"none", "unready", "ready"}]
    /\ raced \subseteq Deletes

Init ==
    /\ lock = None
    /\ loaded = None
    /\ model = None
    /\ pc = [r \in Requests |-> "idle"]
    /\ want \in [Requests -> Models]
    /\ held = [r \in Requests |-> None]
    /\ gen = [r \in Requests |-> "none"]
    /\ removal = [d \in Deletes |-> "idle"]
    /\ victim \in [Deletes -> Models]
    /\ row \in [Models -> {"none", "unready", "ready"}]
    /\ raced = {}

-----------------------------------------------------------------------------
(* unload *)

UnloadKeepsId == model' = None /\ UNCHANGED loaded
UnloadLater == UNCHANGED <<model, loaded>>
Unload == model' = None /\ loaded' = None

(* ensure_loaded: the lock is held from the first line to the last, so a   *)
(* call that loads nothing is one step.                                    *)

Go(r, next) == pc' = [pc EXCEPT ![r] = next]

\* No-op if already loaded; the registry is not asked.
Hit(r) ==
    /\ pc[r] = "idle"
    /\ lock = None
    /\ loaded = want[r] /\ model # None
    /\ Go(r, "gap")
    /\ UNCHANGED <<slot, want, held, gen, delete, row>>

Miss(r) ==
    /\ pc[r] = "idle"
    /\ lock = None
    /\ loaded # want[r] \/ model = None

\* "Model ... is not downloaded/ready."
Refuse(r) ==
    /\ Miss(r)
    /\ row[want[r]] # "ready"
    /\ Go(r, "failed")
    /\ UNCHANGED <<slot, want, held, gen, delete, row>>

\* The deletes that will remove the model a load is reading.
Overlapping(r) ==
    {d \in Deletes : victim[d] = want[r] /\ removal[d] \in {"unloading", "removing"}}

\* The slot is emptied and from_pretrained starts reading, under the lock.
LoadBegins(r) ==
    /\ Miss(r)
    /\ row[want[r]] = "ready"
    /\ lock' = r
    /\ Unload
    /\ Go(r, "loading")
    /\ raced' = raced \cup Overlapping(r)
    /\ UNCHANGED <<want, held, gen, removal, victim, row>>

LoadEnds(r) ==
    /\ pc[r] = "loading"
    /\ lock' = None
    /\ model' = r
    /\ loaded' = want[r]
    /\ Go(r, "gap")
    /\ UNCHANGED <<want, held, gen, delete, row>>

LoadRaisesKeepingLock(r) ==
    /\ pc[r] = "loading"
    /\ Go(r, "failed")
    /\ UNCHANGED <<slot, want, held, gen, delete, row>>

\* from_pretrained raises (a file went missing, no memory): the slot stays
\* empty and the with statement releases the lock.
LoadRaises(r) ==
    /\ pc[r] = "loading"
    /\ lock' = None
    /\ Go(r, "failed")
    /\ UNCHANGED <<loaded, model, want, held, gen, delete, row>>

-----------------------------------------------------------------------------
(* generate_stream after ensure_loaded has returned and dropped the lock   *)

\* Take the lock again, read the slot, build the inputs, start the thread.
Capture(r) ==
    /\ pc[r] = "gap"
    /\ lock = None
    /\ model # None
    /\ held' = [held EXCEPT ![r] = model]
    /\ gen' = [gen EXCEPT ![r] = "running"]
    /\ Go(r, "streaming")
    /\ UNCHANGED <<slot, want, delete, row>>

\* _build_inputs raises: the slot has been emptied (the tokenizer is None),
\* or the chat template rejects the conversation.
CaptureRaises(r) ==
    /\ pc[r] = "gap"
    /\ lock = None
    /\ Go(r, "failed")
    /\ UNCHANGED <<slot, want, held, gen, delete, row>>

\* The generation thread ends the streamer and returns.
GenEnds(r) ==
    /\ gen[r] = "running"
    /\ gen' = [gen EXCEPT ![r] = "finished"]
    /\ UNCHANGED <<slot, pc, want, held, delete, row>>

\* model.generate raises: the thread is gone and nobody ends the streamer.
GenRaises(r) ==
    /\ GenMayRaise
    /\ gen[r] = "running"
    /\ gen' = [gen EXCEPT ![r] = "crashed"]
    /\ UNCHANGED <<slot, pc, want, held, delete, row>>

\* The streamer has ended, the thread is joined, the generator returns.
StreamEnds(r) ==
    /\ pc[r] = "streaming"
    /\ gen[r] = "finished"
    /\ Go(r, "done")
    /\ UNCHANGED <<slot, want, held, gen, delete, row>>

\* The client disconnects: the generator is closed, the thread runs on.
Abandon(r) ==
    /\ pc[r] = "streaming"
    /\ Go(r, "abandoned")
    /\ UNCHANGED <<slot, want, held, gen, delete, row>>

-----------------------------------------------------------------------------
(* delete_model *)

Loading(m) == \E r \in Requests : pc[r] = "loading" /\ want[r] = m

\* registry.delete is called once the slot has been looked at.
Registry == INSTANCE Registry WITH
    removal <- [d \in Deletes |-> IF removal[d] = "unloading" THEN "idle" ELSE removal[d]]

Stage(d, stage) == removal' = [removal EXCEPT ![d] = stage]

\* rmtree of the victim: its listing has the row, or not.
ListsRow(d) == Stage(d, IF row[victim[d]] = "none" THEN "removed" ELSE "removing")

DeleteLooksAway(d) ==
    /\ removal[d] = "idle"
    /\ ListsRow(d)
    /\ raced' = IF Loading(victim[d]) THEN raced \cup {d} ELSE raced
    /\ UNCHANGED <<slot, request, victim, row>>

\* loaded_id is read without the lock.
DeleteLooks(d) ==
    /\ removal[d] = "idle"
    /\ IF loaded = victim[d] THEN Stage(d, "unloading") ELSE ListsRow(d)
    /\ raced' = IF Loading(victim[d]) THEN raced \cup {d} ELSE raced
    /\ UNCHANGED <<slot, request, victim, row>>

\* Whatever is in the slot by now goes.
DeleteUnloads(d) ==
    /\ removal[d] = "unloading"
    /\ lock = None
    /\ Unload
    /\ ListsRow(d)
    /\ UNCHANGED <<lock, request, victim, raced, row>>

DeleteMarks(d) ==
    /\ removal[d] = "removing"
    /\ Stage(d, "removed")
    /\ row' = [row EXCEPT ![victim[d]] = "deleted"]
    /\ UNCHANGED <<slot, request, victim, raced>>

\* registry.delete gets to the row (ModelStore has its single steps) ...
DeleteRemoves(d) ==
    /\ removal[d] = "removing"
    /\ Stage(d, "removed")
    /\ row' = [row EXCEPT ![victim[d]] = "none"]
    /\ UNCHANGED <<slot, request, victim, raced>>

\* ... and returns.
DeleteEnds(d) ==
    /\ removal[d] = "removed"
    /\ Stage(d, "ended")
    /\ UNCHANGED <<slot, request, victim, raced, row>>

-----------------------------------------------------------------------------
(* Download jobs change the rows as the registry lets them. *)

Unready(m) == UNCHANGED <<slot, request, delete>> /\ Registry!Unready(m)
Ready(m) == UNCHANGED <<slot, request, delete>> /\ Registry!Ready(m)

RequestStep(r) ==
    \/ Hit(r) \/ Refuse(r) \/ LoadBegins(r) \/ LoadEnds(r) \/ LoadRaises(r)
    \/ Capture(r) \/ CaptureRaises(r) \/ StreamEnds(r)
GenStep(r) == GenEnds(r) \/ GenRaises(r)
DeleteStep(d) == DeleteLooks(d) \/ DeleteUnloads(d) \/ DeleteRemoves(d) \/ DeleteEnds(d)

Next ==
    \/ \E r \in Requests : RequestStep(r) \/ GenStep(r) \/ Abandon(r)
    \/ \E d \in Deletes : DeleteStep(d)
    \/ \E m \in Models : Unready(m) \/ Ready(m)

Spec == Init /\ [][Next]_vars

\* Threads run on, loads and generations end.  Nothing is assumed of the
\* order in which waiting threads get the lock, nor of downloads and clients.
Fairness ==
    /\ \A r \in Requests : WF_vars(RequestStep(r)) /\ WF_vars(GenStep(r))
    /\ \A d \in Deletes : WF_vars(DeleteStep(d))

FairSpec == Spec /\ Fairness

-----------------------------------------------------------------------------
(* Properties *)

\* Whenever the lock is free, the id in the slot names the weights in the
\* slot: failed loads and unloads never leave half of the pair behind.
SlotConsistent ==
    lock = None => loaded = (IF model = None THEN None ELSE want[model])

\* The objects the runtime itself keeps: the slot, or the load that will fill it.
Kept == {r \in Requests : model = r \/ pc[r] = "loading"}

\* Beyond the objects that running generations hold, at most one set of
\* weights is in memory, also while the next one is being read.
KeepsAtMostOne == \A q, r \in Kept : q = r

\* A model that has been deleted is not served from memory: if it is in the
\* slot, a load of it overlapped the delete.
DeletedIsUnloaded ==
    \A m \in Models :
        loaded = m /\ row[m] = "none" =>
            \E d \in Deletes : victim[d] = m /\ removal[d] \in {"removed", "ended"} /\ d \in raced

\* generate_stream generates with the model it was asked for.
OnlyRequestedWeights ==
    \A r \in Requests : held[r] # None => want[held[r]] = want[r]

Over(r) == pc[r] \in {"done", "failed", "abandoned"}

\* agents/loop.py:14-15: a turn is bounded by a wall-clock deadline, so a chat
\* ends also when its generation has crashed.
CrashedChatEnds == \A r \in Requests : (gen[r] = "crashed") ~> Over(r)

\* Everyone is served: each chat ends, in an end of stream, a refusal or an error,
\* unless its generation thread has crashed, and deletes return, whatever loads
\* fail in between.  (A request in its first state is a call already made: it
\* waits for the lock.)
EveryoneIsServed ==
    /\ \A r \in Requests : <>(Over(r) \/ gen[r] = "crashed")
    /\ \A d \in Deletes : <>(removal[d] = "ended")

\* Rows change by the steps of Registry only.
UsesRegistry == Registry!RegistrySpec
=============================================================================
