------------------------------- MODULE Registry -------------------------------
(***************************************************************************)
(* What models_engine/registry.py promises of the row of a model, to those *)
(* who read it (the runtime, the routes, the scorecard): a row comes as a  *)
(* placeholder, becomes ready from there, and goes by a delete.  Each      *)
(* delete takes away at most the row it has listed, at one moment of its   *)
(* life; a download job may write the row again at any other.              *)
(***************************************************************************)
CONSTANTS
    Models,     \* repo ids
    Deletes     \* calls of registry.delete

VARIABLES
    row,        \* row[m]: the status registry.get reads
    removal,    \* removal[d]: where registry.delete of d stands
    victim      \* victim[d]: its argument model_id

registry == <<row, removal, victim>>

RegistryInit ==
    /\ row \in [Models -> {"none", "unready", "ready"}]
    /\ removal = [d \in Deletes |-> "idle"]
    /\ victim \in [Deletes -> Models]

Writes(m, status) ==
    /\ row' = [row EXCEPT ![m] = status]
    /\ UNCHANGED <<removal, victim>>

\* A job writes its placeholder or its error row.
Unready(m) == Writes(m, "unready")

\* Deletes that have been past the row of m.
TakenAway(m) == \E d \in Deletes : victim[d] = m /\ removal[d] \in {"removed", "ended"}

\* A job completes: it has written its placeholder, which a delete may have
\* taken away meanwhile.
Ready(m) == (row[m] # "none" \/ TakenAway(m)) /\ Writes(m, "ready")

Moves(d, stage) ==
    /\ removal' = [removal EXCEPT ![d] = stage]
    /\ UNCHANGED victim

\* rmtree lists the directory: without a row there is none to remove.
Begins(d) ==
    /\ removal[d] = "idle"
    /\ Moves(d, IF row[victim[d]] = "none" THEN "removed" ELSE "removing")
    /\ UNCHANGED row

\* It gets to the row.
Removes(d) ==
    /\ removal[d] = "removing"
    /\ Moves(d, "removed")
    /\ row' = [row EXCEPT ![victim[d]] = "none"]

Ends(d) ==
    /\ removal[d] = "removed"
    /\ Moves(d, "ended")
    /\ UNCHANGED row

\* The process restarts: the deletes under way are cut off.
CutOff ==
    /\ removal' = [d \in Deletes |->
           IF removal[d] \in {"removing", "removed"} THEN "lost" ELSE removal[d]]
    /\ UNCHANGED <<row, victim>>

RegistryNext ==
    \/ \E m \in Models : Unready(m) \/ Ready(m)
    \/ \E d \in Deletes : Begins(d) \/ Removes(d) \/ Ends(d)
    \/ CutOff

RegistrySpec == RegistryInit /\ [][RegistryNext]_registry
=============================================================================
