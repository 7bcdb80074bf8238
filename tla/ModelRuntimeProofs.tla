------------------------- MODULE ModelRuntimeProofs -------------------------
(***************************************************************************)
(* Proofs about ModelRuntime, for any sets of models, requests and         *)
(* deletes.  The inductive invariant says who the lock protects: as long   *)
(* as a load holds it the slot is empty, otherwise the slot is consistent; *)
(* and it follows a delete from its look at the slot to its end.           *)
(* The last theorem shows that the rows move as Registry promises.         *)
(***************************************************************************)
EXTENDS ModelRuntime, TLAPS

-----------------------------------------------------------------------------
\* Every variable keeps to its type, whatever threads and routes do.
THEOREM TypeCorrect == Spec => []TypeOK
<1>1. Init => TypeOK
  BY DEF Init, TypeOK
<1>2. TypeOK /\ [Next]_vars => TypeOK'
  <2> SUFFICES ASSUME TypeOK, [Next]_vars PROVE TypeOK'
    OBVIOUS
  <2> USE DEF TypeOK, Go, slot, request, delete
  <2>1. ASSUME NEW r \in Requests, RequestStep(r) PROVE TypeOK'
    <3>1. CASE Hit(r)  BY <3>1 DEF Hit
    <3>2. CASE Refuse(r)  BY <3>2 DEF Refuse, Miss
    <3>3. CASE LoadBegins(r)  BY <3>3 DEF LoadBegins, Miss, Unload, Overlapping
    <3>4. CASE LoadEnds(r)  BY <3>4 DEF LoadEnds
    <3>5. CASE LoadRaises(r)  BY <3>5 DEF LoadRaises
    <3>6. CASE Capture(r)  BY <3>6 DEF Capture
    <3>7. CASE CaptureRaises(r)  BY <3>7 DEF CaptureRaises
    <3>8. CASE StreamEnds(r)  BY <3>8 DEF StreamEnds
    <3> QED  BY <2>1, <3>1, <3>2, <3>3, <3>4, <3>5, <3>6, <3>7, <3>8 DEF RequestStep
  <2>2. ASSUME NEW r \in Requests, GenStep(r) \/ Abandon(r) PROVE TypeOK'
    BY <2>2 DEF GenStep, GenEnds, GenRaises, Abandon
  <2>3. ASSUME NEW d \in Deletes, DeleteStep(d) PROVE TypeOK'
    <3> USE DEF Stage, ListsRow
    <3>1. CASE DeleteLooks(d)  BY <3>1 DEF DeleteLooks, Loading
    <3>2. CASE DeleteUnloads(d)  BY <3>2 DEF DeleteUnloads, Unload
    <3>3. CASE DeleteRemoves(d)  BY <3>3 DEF DeleteRemoves
    <3>4. CASE DeleteEnds(d)  BY <3>4 DEF DeleteEnds
    <3> QED  BY <2>3, <3>1, <3>2, <3>3, <3>4 DEF DeleteStep
  <2>4. ASSUME NEW m \in Models, Unready(m) \/ Ready(m) PROVE TypeOK'
    BY <2>4 DEF Unready, Ready, Registry!Unready, Registry!Ready, Registry!Writes
  <2>5. CASE UNCHANGED vars
    BY <2>5 DEF vars
  <2> QED  BY <2>1, <2>2, <2>3, <2>4, <2>5 DEF Next
<1> QED  BY <1>1, <1>2, PTL DEF Spec

-----------------------------------------------------------------------------
\* The lock is held exactly by the request that loads, and the slot is empty
\* while it does.
LoaderHoldsLock ==
    /\ \A r \in Requests : pc[r] = "loading" <=> lock = r
    /\ lock # None => model = None /\ loaded = None

LockInv == LoaderHoldsLock /\ SlotConsistent

\* No step leaves the lock with somebody who is gone, or half of the slot.
LEMMA LockInvariant == Spec => []LockInv
<1>1. Init => LockInv
  BY ConstantsAssumption DEF Init, LockInv, LoaderHoldsLock, SlotConsistent
<1>2. TypeOK /\ LockInv /\ [Next]_vars => LockInv'
  <2> SUFFICES ASSUME TypeOK, LockInv, [Next]_vars PROVE LockInv'
    OBVIOUS
  <2> USE ConstantsAssumption
      DEF TypeOK, LockInv, LoaderHoldsLock, SlotConsistent, Go, slot, request, delete
  <2>1. ASSUME NEW r \in Requests, RequestStep(r) PROVE LockInv'
    <3>1. CASE Hit(r)  BY <3>1 DEF Hit
    <3>2. CASE Refuse(r)  BY <3>2 DEF Refuse, Miss
    <3>3. CASE LoadBegins(r)  BY <3>3 DEF LoadBegins, Miss, Unload
    <3>4. CASE LoadEnds(r)  BY <3>4 DEF LoadEnds
    <3>5. CASE LoadRaises(r)  BY <3>5 DEF LoadRaises
    <3>6. CASE Capture(r)  BY <3>6 DEF Capture
    <3>7. CASE CaptureRaises(r)  BY <3>7 DEF CaptureRaises
    <3>8. CASE StreamEnds(r)  BY <3>8 DEF StreamEnds
    <3> QED  BY <2>1, <3>1, <3>2, <3>3, <3>4, <3>5, <3>6, <3>7, <3>8 DEF RequestStep
  <2>2. ASSUME NEW r \in Requests, GenStep(r) \/ Abandon(r) PROVE LockInv'
    BY <2>2 DEF GenStep, GenEnds, GenRaises, Abandon
  <2>3. ASSUME NEW d \in Deletes, DeleteStep(d) PROVE LockInv'
    <3>1. CASE DeleteLooks(d)  BY <3>1 DEF DeleteLooks
    <3>2. CASE DeleteUnloads(d)  BY <3>2 DEF DeleteUnloads, Unload
    <3>3. CASE DeleteRemoves(d)  BY <3>3 DEF DeleteRemoves
    <3>4. CASE DeleteEnds(d)  BY <3>4 DEF DeleteEnds
    <3> QED  BY <2>3, <3>1, <3>2, <3>3, <3>4 DEF DeleteStep
  <2>4. ASSUME NEW m \in Models, Unready(m) \/ Ready(m) PROVE LockInv'
    BY <2>4 DEF Unready, Ready, Registry!Unready, Registry!Ready, Registry!Writes
  <2>5. CASE UNCHANGED vars
    BY <2>5 DEF vars
  <2> QED  BY <2>1, <2>2, <2>3, <2>4, <2>5 DEF Next
<1> QED  BY <1>1, <1>2, TypeCorrect, PTL DEF Spec

\* No interleaving of loads, failed loads, unloads and deletes leaves an id in
\* the slot without its weights, or weights under another id.
THEOREM SlotStaysConsistent == Spec => []SlotConsistent
<1>1. LockInv => SlotConsistent
  BY DEF LockInv
<1> QED  BY <1>1, LockInvariant, PTL

\* Memory: beyond what running generations hold, the runtime never keeps two sets of
\* weights, not even while it replaces one by another.
THEOREM AtMostOneIsKept == Spec => []KeepsAtMostOne
<1>1. TypeOK /\ LockInv => KeepsAtMostOne
  BY ConstantsAssumption
     DEF TypeOK, LockInv, LoaderHoldsLock, KeepsAtMostOne, Kept
<1> QED  BY <1>1, TypeCorrect, LockInvariant, PTL

-----------------------------------------------------------------------------
\* A delete between its look at the slot and its end knows of every load of
\* its victim: the slot holds the victim again, or a load of it is under way,
\* only if raced says so.
RaceIsNoted ==
    /\ \A d \in Deletes :
          removal[d] = "removing" /\ loaded = victim[d] => d \in raced
    /\ \A d \in Deletes, r \in Requests :
          /\ removal[d] \in {"unloading", "removing"}
          /\ pc[r] = "loading" /\ want[r] = victim[d]
          => d \in raced

RacedAway(m) ==
    \E d \in Deletes : victim[d] = m /\ removal[d] \in {"removed", "ended"} /\ d \in raced

\* A load of a model whose row has gone since it began is a raced one.
LoadOfDeleted ==
    \A r \in Requests : pc[r] = "loading" /\ row[want[r]] = "none" => RacedAway(want[r])

DeleteInv == RaceIsNoted /\ LoadOfDeleted /\ DeletedIsUnloaded

LEMMA DeleteInvHolds ==
    ASSUME TypeOK, LockInv, DeleteInv, [Next]_vars
    PROVE  DeleteInv'
<1> USE ConstantsAssumption
    DEF TypeOK, LockInv, LoaderHoldsLock, DeleteInv, RaceIsNoted,
        LoadOfDeleted, DeletedIsUnloaded, RacedAway, Go, Stage, ListsRow,
        slot, request, delete
<1>1. ASSUME NEW r \in Requests, RequestStep(r) PROVE DeleteInv'
  <2>1. CASE Hit(r)  BY <2>1 DEF Hit
  <2>2. CASE Refuse(r)  BY <2>2 DEF Refuse, Miss
  <2>3. CASE LoadBegins(r)
    <3> USE <2>3 DEF LoadBegins, Miss, Unload, Overlapping
    <3>1. raced \subseteq raced'
      OBVIOUS
    <3>2. RaceIsNoted'
      OBVIOUS
    <3>3. LoadOfDeleted'
      OBVIOUS
    <3>4. DeletedIsUnloaded'
      OBVIOUS
    <3> QED  BY <3>2, <3>3, <3>4
  <2>4. CASE LoadEnds(r)
    <3> USE <2>4 DEF LoadEnds
    <3>1. RaceIsNoted'
      OBVIOUS
    <3>2. LoadOfDeleted'
      OBVIOUS
    <3>3. DeletedIsUnloaded'
      <4>1. row[want[r]] = "none" => RacedAway(want[r])
        OBVIOUS
      <4>2. want[r] \in Models /\ loaded' = want[r] /\ UNCHANGED <<row, delete>>
        OBVIOUS
      <4> QED  BY <4>1, <4>2
    <3> QED  BY <3>1, <3>2, <3>3
  <2>5. CASE LoadRaises(r)  BY <2>5 DEF LoadRaises
  <2>6. CASE Capture(r)  BY <2>6 DEF Capture
  <2>7. CASE CaptureRaises(r)  BY <2>7 DEF CaptureRaises
  <2>8. CASE StreamEnds(r)  BY <2>8 DEF StreamEnds
  <2> QED  BY <1>1, <2>1, <2>2, <2>3, <2>4, <2>5, <2>6, <2>7, <2>8 DEF RequestStep
<1>2. ASSUME NEW r \in Requests, GenStep(r) \/ Abandon(r) PROVE DeleteInv'
  <2>1. CASE GenStep(r)  BY <2>1 DEF GenStep, GenEnds, GenRaises
  <2>2. CASE Abandon(r)  BY <2>2 DEF Abandon
  <2> QED  BY <1>2, <2>1, <2>2
<1>3. ASSUME NEW d \in Deletes, DeleteStep(d) PROVE DeleteInv'
  <2>1. CASE DeleteLooks(d)
    <3> USE <2>1 DEF DeleteLooks, Loading
    <3>1. RaceIsNoted'
      OBVIOUS
    <3>2. \A m \in Models : RacedAway(m) => RacedAway(m)'
      OBVIOUS
    <3> QED  BY <3>1, <3>2
  <2>2. CASE DeleteUnloads(d)
    <3> USE <2>2 DEF DeleteUnloads, Unload
    <3>1. RaceIsNoted'
      OBVIOUS
    <3>2. \A m \in Models : RacedAway(m) => RacedAway(m)'
      OBVIOUS
    <3> QED  BY <3>1, <3>2
  <2>3. CASE DeleteRemoves(d)
    <3> USE <2>3 DEF DeleteRemoves
    <3>1. RaceIsNoted'
      OBVIOUS
    <3>2. \A m \in Models : RacedAway(m) => RacedAway(m)'
      OBVIOUS
    <3>3. LoadOfDeleted'
      BY <3>2
    <3>4. DeletedIsUnloaded'
      BY <3>2
    <3> QED  BY <3>1, <3>3, <3>4
  <2>4. CASE DeleteEnds(d)
    <3> USE <2>4 DEF DeleteEnds
    <3>1. RaceIsNoted'
      OBVIOUS
    <3>2. \A m \in Models : RacedAway(m) => RacedAway(m)'
      OBVIOUS
    <3> QED  BY <3>1, <3>2
  <2> QED  BY <1>3, <2>1, <2>2, <2>3, <2>4 DEF DeleteStep
<1>4. ASSUME NEW m \in Models, Unready(m) \/ Ready(m) PROVE DeleteInv'
  BY <1>4 DEF Unready, Ready, Registry!Unready, Registry!Ready, Registry!Writes
<1>5. CASE UNCHANGED vars
  BY <1>5 DEF vars
<1> QED  BY <1>1, <1>2, <1>3, <1>4, <1>5 DEF Next

\* After a delete nobody is served the deleted model from memory, unless a
\* load of it overlapped the delete.
THEOREM DeletedStaysUnloaded == Spec => []DeletedIsUnloaded
<1>1. Init => DeleteInv
  BY ConstantsAssumption
     DEF Init, DeleteInv, RaceIsNoted, LoadOfDeleted, DeletedIsUnloaded, RacedAway
<1>2. TypeOK /\ LockInv /\ DeleteInv /\ [Next]_vars => DeleteInv'
  BY DeleteInvHolds
<1>3. DeleteInv => DeletedIsUnloaded
  BY DEF DeleteInv
<1> QED  BY <1>1, <1>2, <1>3, TypeCorrect, LockInvariant, PTL DEF Spec

-----------------------------------------------------------------------------
\* The stage of d in the registry: it is not there while the model is unloaded.
Mapped(d) == IF removal[d] = "unloading" THEN "idle" ELSE removal[d]

\* The rows the runtime reads move as the registry lets them: the route adds
\* its look at the slot and the unload, and takes each row away once, at a
\* moment of its own delete.  Everything ModelRuntime says of rows is said of the
\* promise that ModelStore is shown to keep.
THEOREM RuntimeUsesRegistry == Spec => UsesRegistry
<1> USE DEF Mapped
<1>1. Init => Registry!RegistryInit
  <2> SUFFICES ASSUME Init PROVE Registry!RegistryInit
    OBVIOUS
  <2>1. [d \in Deletes |-> IF removal[d] = "unloading" THEN "idle" ELSE removal[d]]
          = [d \in Deletes |-> "idle"]
    BY DEF Init
  <2> QED  BY <2>1 DEF Init, Registry!RegistryInit
<1>2. TypeOK /\ [Next]_vars => [Registry!RegistryNext]_(Registry!registry)
  <2> SUFFICES ASSUME TypeOK, [Next]_vars
               PROVE  [Registry!RegistryNext]_(Registry!registry)
    OBVIOUS
  <2> DEFINE stages == [d \in Deletes |-> Mapped(d)]
  <2> USE DEF slot, request, delete
  <2>1. ASSUME UNCHANGED <<row, removal, victim>>
        PROVE  UNCHANGED Registry!registry
    BY <2>1 DEF Registry!registry
  <2>2. ASSUME NEW r \in Requests, RequestStep(r) \/ GenStep(r) \/ Abandon(r)
        PROVE  UNCHANGED <<row, removal, victim>>
    BY <2>2 DEF RequestStep, Hit, Refuse, LoadBegins, LoadEnds, LoadRaises, Capture,
                CaptureRaises, StreamEnds, GenStep, GenEnds, GenRaises, Abandon
  <2>3. ASSUME NEW d \in Deletes, NEW stage, Stage(d, stage), stage # "unloading"
        PROVE  stages' = [stages EXCEPT ![d] = stage]
    BY <2>3 DEF Stage, TypeOK
  <2>4. ASSUME NEW d \in Deletes, DeleteStep(d)
        PROVE  Registry!RegistryNext \/ UNCHANGED Registry!registry
    <3>1. ASSUME Mapped(d) = "idle", ListsRow(d), UNCHANGED <<row, victim>>
          PROVE  Registry!Begins(d)
      BY <2>3, <3>1 DEF ListsRow, Registry!Begins, Registry!Moves
    <3>2. CASE DeleteLooks(d) /\ loaded = victim[d]
      <4>1. Stage(d, "unloading") /\ removal[d] = "idle" /\ UNCHANGED <<row, victim>>
        BY <3>2 DEF DeleteLooks
      <4>2. stages' = stages
        BY <4>1 DEF Stage, TypeOK
      <4> QED  BY <4>1, <4>2 DEF Registry!registry
    <3>3. CASE DeleteLooks(d) /\ loaded # victim[d]
      BY <3>1, <3>3 DEF DeleteLooks, Registry!RegistryNext
    <3>4. CASE DeleteUnloads(d)
      BY <3>1, <3>4 DEF DeleteUnloads, Registry!RegistryNext
    <3>5. CASE DeleteRemoves(d)
      <4>1. Registry!Removes(d)
        BY <2>3, <3>5 DEF DeleteRemoves, Registry!Removes, Registry!Moves
      <4> QED  BY <4>1 DEF Registry!RegistryNext
    <3>6. CASE DeleteEnds(d)
      <4>1. Registry!Ends(d)
        BY <2>3, <3>6 DEF DeleteEnds, Registry!Ends, Registry!Moves
      <4> QED  BY <4>1 DEF Registry!RegistryNext
    <3> QED  BY <2>4, <3>2, <3>3, <3>4, <3>5, <3>6 DEF DeleteStep
  <2>5. ASSUME NEW m \in Models, Unready(m) \/ Ready(m)
        PROVE  Registry!RegistryNext
    BY <2>5 DEF Unready, Ready, Registry!RegistryNext
  <2>6. CASE UNCHANGED vars
    BY <2>1, <2>6 DEF vars
  <2> QED  BY <2>1, <2>2, <2>4, <2>5, <2>6 DEF Next
<1> QED  BY <1>1, <1>2, TypeCorrect, PTL DEF Spec, UsesRegistry, Registry!RegistrySpec
=============================================================================
