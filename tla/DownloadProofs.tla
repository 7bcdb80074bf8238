--------------------------- MODULE DownloadProofs ---------------------------
(***************************************************************************)
(* Proofs about the model store and about the feed of one download job,    *)
(* and what the two give together: what a page that follows a job may      *)
(* believe.  They hold for any models, jobs, deletes, restarts, browsers,  *)
(* events and queue sizes, and a disk that may fail or not.                *)
(***************************************************************************)
EXTENDS ModelStore, DownloadFeed, FiniteSetTheorems, SequenceTheorems, TLAPS

-----------------------------------------------------------------------------
\* What a listing of a directory holds are directory entries.
LEMMA ListingType ==
    ASSUME TypeOK, NEW m \in Models
    PROVE  Listing(m) \in SUBSET Entries
<1>1. ({"part"} \X files[m]) \subseteq PartEntries(m)
  BY DEF TypeOK, PartEntries
<1>2. PartEntries(m) \subseteq Entries
  BY DEF Entries
<1>3. {TmpEntry(j) : j \in {k \in Jobs : target[k] = m /\ tmp[k] # NoMeta}} \subseteq Entries
  BY DEF TypeOK, TmpEntry, Entries
<1>4. MetaEntry \in Entries
  BY DEF Entries
<1> QED  BY <1>1, <1>2, <1>3, <1>4 DEF Listing

\* The size of a directory is a number.
LEMMA DirSizeType ==
    ASSUME TypeOK, NEW m \in Models
    PROVE  DirSize(m) \in Nat
BY ConstantsAssumption, FS_Subset, FS_CardinalityType DEF TypeOK, DirSize

\* More parts of a model on disk are no smaller directory.
LEMMA DirSizeGrows ==
    ASSUME NEW m \in Models, NEW F, NEW G, F \subseteq G, G \subseteq Parts[m]
    PROVE  Cardinality(F) <= Cardinality(G)
BY ConstantsAssumption, FS_Subset

\* Staging a record keeps types.
LEMMA StageType ==
    ASSUME TypeOK, NEW j \in Jobs, NEW record \in Metas, NEW next \in PcStates,
           Stage(j, record, next)
    PROVE  tmp' \in [Jobs -> Metas] /\ pc' \in [Jobs -> PcStates]
BY DEF TypeOK, Stage

\* What the worker of a job is and has fetched.
WorkerType ==
    /\ worker \in [Jobs -> {"off", "running"} \cup Ends]
    /\ fetched \in [Jobs -> SUBSET UNION {Parts[m] : m \in Models}]

LEMMA LeaveType ==
    ASSUME TypeOK, NEW j \in Jobs, Leave(j)
    PROVE  WorkerType'
BY DEF TypeOK, Leave, WorkerType

LEMMA RaiseType ==
    ASSUME TypeOK, NEW j \in Jobs, Raise(j)
    PROVE  tmp' \in [Jobs -> Metas] /\ pc' \in [Jobs -> PcStates] /\ WorkerType'
<1>1. ErrorRecord(j) \in Metas /\ "failing" \in PcStates
  BY DEF TypeOK, ErrorRecord, Metas, Statuses, PcStates
<1> QED  BY <1>1, StageType, LeaveType DEF Raise

\* Every variable keeps to its type.
THEOREM TypeCorrect == Spec => []TypeOK
<1>1. Init => TypeOK
  <2> SUFFICES ASSUME Init PROVE TypeOK
    OBVIOUS
  <2>1. meta \in [Models -> Metas] /\ tmp \in [Jobs -> Metas]
    BY DEF Init, NoMeta, Metas, Statuses
  <2>2. files \in [Models -> SUBSET UNION {Parts[m] : m \in Models}]
    BY DEF Init
  <2>3. fetched \in [Jobs -> SUBSET UNION {Parts[m] : m \in Models}]
    BY DEF Init
  <2>4. todo \in [Deletes -> SUBSET Entries]
    BY DEF Init
  <2>5. restarts \in 0..MaxRestarts
    BY ConstantsAssumption DEF Init
  <2> QED  BY <2>1, <2>2, <2>3, <2>4, <2>5 DEF Init, TypeOK, PcStates
<1>2. TypeOK /\ [Next]_vars => TypeOK'
  <2> SUFFICES ASSUME TypeOK, [Next]_vars PROVE TypeOK'
    OBVIOUS
  <2> USE ConstantsAssumption DEF disk, job, delete, ghost
  <2>b. WorkerType
    BY DEF TypeOK, WorkerType
  <2>a. NoMeta \in Metas
    BY DEF NoMeta, Metas, Statuses
  <2>1. ASSUME NEW j \in Jobs, JobStep(j) PROVE TypeOK'
    <3>1. CASE Start(j)
      <4>1. [status |-> "downloading", size |-> 0] \in Metas
        BY DEF Metas, Statuses
      <4>2. tmp' \in [Jobs -> Metas] /\ pc' \in [Jobs -> PcStates]
        BY <3>1, <4>1, StageType DEF Start, PcStates
      <4> QED  BY <3>1, <4>2 DEF Start, TypeOK
    <3>2. CASE Committed(j)
      <4>1. pc' \in [Jobs -> PcStates]
        BY <3>2 DEF Committed, TypeOK, PcStates
      <4>2. event' \in [Jobs -> {"none", "done", "error"}]
        BY <3>2 DEF Committed, TypeOK, Reported
      <4> QED  BY <2>a, <3>2, <4>1, <4>2 DEF Committed, TypeOK
    <3>3. CASE CommitRaises(j)
      <4>1. CASE pc[j] = "readying"
        BY <3>3, <4>1, RaiseType DEF CommitRaises, TypeOK, WorkerType
      <4>2. CASE pc[j] # "readying"
        <5>1. tmp' \in [Jobs -> Metas] /\ pc' \in [Jobs -> PcStates]
          BY <2>a, <3>3, <4>2, StageType DEF CommitRaises, PcStates
        <5> QED  BY <3>3, <4>2, <5>1 DEF CommitRaises, TypeOK
      <4> QED  BY <4>1, <4>2
    <3>4. CASE Plan(j)
      BY <3>4 DEF Plan, TypeOK, PcStates
    <3>5. CASE PlanRaises(j)
      BY <3>5, RaiseType DEF PlanRaises, TypeOK, WorkerType
    <3>6. CASE PollBreaks(j)
      BY <3>6 DEF PollBreaks, TypeOK, PcStates
    <3>7. CASE Join(j)
      <4>1. [status |-> "ready", size |-> DirSize(target[j])] \in Metas
        BY DirSizeType DEF Metas, Statuses, TypeOK
      <4>2. CASE NoErrorText(j)
        <5>1. tmp' \in [Jobs -> Metas] /\ pc' \in [Jobs -> PcStates]
          BY <3>7, <4>1, <4>2, StageType DEF Join, PcStates
        <5> QED  BY <3>7, <4>2, <5>1 DEF Join, TypeOK
      <4>3. CASE ~NoErrorText(j)
        BY <3>7, <4>3, RaiseType DEF Join, TypeOK, WorkerType
      <4> QED  BY <4>2, <4>3
    <3>8. CASE Check(j)
      <4>1. tmp' \in [Jobs -> Metas] /\ pc' \in [Jobs -> PcStates] /\ WorkerType'
        BY <3>8, RaiseType, LeaveType DEF Check, TypeOK, PcStates
      <4>2. event' \in [Jobs -> {"none", "done", "error"}]
        BY <3>8 DEF Check, TypeOK
      <4> QED  BY <3>8, <4>1, <4>2 DEF Check, TypeOK, WorkerType
    <3> QED  BY <2>1, <3>1, <3>2, <3>3, <3>4, <3>5, <3>6, <3>7, <3>8 DEF JobStep
  <2>2. ASSUME NEW j \in Jobs, WorkerStep(j) PROVE TypeOK'
    <3>1. CASE Fetch(j)
      <4>1. PICK p \in Parts[target[j]] \ fetched[j] :
               /\ fetched' = [fetched EXCEPT ![j] = @ \cup {p}]
               /\ files' = [files EXCEPT ![target[j]] = @ \cup {p}]
        BY <3>1 DEF Fetch
      <4>2. target[j] \in Models
        BY DEF TypeOK
      <4> QED  BY <3>1, <4>1, <4>2 DEF Fetch, TypeOK
    <3>2. CASE WorkerEnds(j)
      BY <3>2 DEF WorkerEnds, TypeOK
    <3> QED  BY <2>2, <3>1, <3>2 DEF WorkerStep
  <2>3. ASSUME NEW d \in Deletes, DeleteStep(d) PROVE TypeOK'
    <3>1. CASE DeleteBegins(d)
      <4>1. todo' \in [Deletes -> SUBSET Entries]
        BY <3>1, ListingType DEF DeleteBegins, TypeOK
      <4> QED  BY <3>1, <4>1 DEF DeleteBegins, TypeOK
    <3>2. CASE Unlink(d)
      <4>1. PICK e \in todo[d] :
               /\ todo' = [todo EXCEPT ![d] = @ \ {e}]
               /\ files' = [files EXCEPT ![victim[d]] = {p \in @ : <<"part", p>> # e}]
               /\ meta' = [meta EXCEPT ![victim[d]] = IF e = MetaEntry THEN NoMeta ELSE @]
               /\ tmp' = [j \in Jobs |-> IF e = TmpEntry(j) THEN NoMeta ELSE tmp[j]]
        BY <3>2 DEF Unlink
      <4>2. todo' \in [Deletes -> SUBSET Entries]
        BY <4>1 DEF TypeOK
      <4>3. meta' \in [Models -> Metas] /\ tmp' \in [Jobs -> Metas]
        BY <2>a, <4>1 DEF TypeOK
      <4>4. /\ files' \in [Models -> SUBSET UNION {Parts[m] : m \in Models}]
            /\ \A m \in Models : files'[m] \subseteq Parts[m]
        BY <4>1 DEF TypeOK
      <4> QED  BY <3>2, <4>2, <4>3, <4>4 DEF Unlink, TypeOK
    <3>3. CASE DeleteEnds(d)
      BY <3>3 DEF DeleteEnds, TypeOK
    <3> QED  BY <2>3, <3>1, <3>2, <3>3 DEF DeleteStep
  <2>4. CASE Restart
    BY <2>4 DEF Restart, TypeOK, PcStates
  <2>5. CASE UNCHANGED vars
    BY <2>5 DEF vars, TypeOK, TmpEntry
  <2> QED  BY <2>1, <2>2, <2>3, <2>4, <2>5 DEF Next, Served
<1> QED  BY <1>1, <1>2, PTL DEF Spec

-----------------------------------------------------------------------------
(* The ready row *)

\* A job stages the record its step calls for.
StagedAsPlanned ==
    \A j \in Jobs : InFlight(j) /\ tmp[j].status = "ready" => pc[j] = "readying"

Full(m) == files[m] = Parts[m]
FullRow(record, m) == Full(m) /\ record.size = Cardinality(Parts[m])

\* What a running job relies on, unless a delete may have interfered: the
\* files its worker fetched are there, the ready row it staged claims no more
\* than is on disk, and is true unless the worker ended short.
JobView(j) ==
    InFlight(j) /\ target[j] \notin disturbed =>
        /\ fetched[j] \subseteq files[target[j]]
        /\ tmp[j].status = "ready" =>
              /\ tmp[j].size <= DirSize(target[j])
              /\ EndedShort(j) \/ FullRow(tmp[j], target[j])

\* The worker runs only between Plan and Join, for a model that passed the
\* guards, and "ok" means it got all.
WorkerView(j) ==
    /\ pc[j] \in {"idle", "marking", "planning"} => worker[j] = "off" /\ fetched[j] = {}
    /\ pc[j] \in {"polling", "joining", "readying"} => Admissible(target[j])
    /\ worker[j] = "ok" => fetched[j] = Parts[target[j]]
    /\ fetched[j] \subseteq Parts[target[j]]

\* A delete that is under way has disturbed its model.
DeletesDisturb ==
    \A d \in Deletes : removal[d] = "removing" => victim[d] \in disturbed

ReadyInv ==
    /\ StagedAsPlanned
    /\ \A j \in Jobs : JobView(j) /\ WorkerView(j)
    /\ DeletesDisturb
    /\ ReadyIsComplete

\* A step of job j that touches neither the disk's files and rows nor the
\* deletes keeps the invariant if j itself is left as it should be.
LEMMA QuietStep ==
    ASSUME ReadyInv, NEW j \in Jobs,
           UNCHANGED <<files, meta, target, ghost, removal, victim>>,
           \A k \in Jobs \ {j} :
               /\ pc'[k] = pc[k] /\ tmp'[k] = tmp[k]
               /\ worker'[k] = worker[k] /\ fetched'[k] = fetched[k],
           InFlight(j)' /\ tmp'[j].status = "ready" => pc'[j] = "readying",
           JobView(j)', WorkerView(j)'
    PROVE  ReadyInv'
<1> USE DEF InFlight, ghost, EndedShort
<1>1. StagedAsPlanned'
  BY DEF ReadyInv, StagedAsPlanned
<1>2. \A k \in Jobs : JobView(k)' /\ WorkerView(k)'
  BY DEF ReadyInv, JobView, WorkerView, FullRow, Full, DirSize, Admissible
<1>3. DeletesDisturb'
  BY DEF ReadyInv, DeletesDisturb
<1>4. ReadyIsComplete'
  BY DEF ReadyInv, ReadyIsComplete, DirSize
<1> QED  BY <1>1, <1>2, <1>3, <1>4 DEF ReadyInv

\* The except branch leaves its job as it should be.
LEMMA RaiseStep ==
    ASSUME TypeOK, ReadyInv, NEW j \in Jobs, InFlight(j),
           pc[j] \notin {"marking"}, Raise(j),
           UNCHANGED <<files, meta, target, ghost, removal, victim>>
    PROVE  ReadyInv'
<1>1. /\ pc'[j] = "failing" /\ tmp'[j] = ErrorRecord(j)
      /\ worker'[j] = "off" /\ fetched'[j] = {}
      /\ \A k \in Jobs \ {j} :
            /\ pc'[k] = pc[k] /\ tmp'[k] = tmp[k]
            /\ worker'[k] = worker[k] /\ fetched'[k] = fetched[k]
  BY DEF TypeOK, Raise, Stage, Leave
<1>2. tmp'[j].status = "error"
  BY <1>1 DEF ErrorRecord
<1>3. JobView(j)' /\ WorkerView(j)'
  BY <1>1, <1>2 DEF ReadyInv, JobView, WorkerView, InFlight
<1> QED  BY <1>1, <1>2, <1>3, QuietStep

LEMMA ReadyInvHolds ==
    ASSUME TypeOK, ReadyInv, [Next]_vars
    PROVE  ReadyInv'
<1> USE DEF disk, job, delete, ghost
<1>1. ASSUME NEW j \in Jobs, JobStep(j) PROVE ReadyInv'
  <2> JobView(j) /\ WorkerView(j)
    BY DEF ReadyInv
  <2>1. CASE Start(j)
    <3>1. /\ pc'[j] = "marking" /\ tmp'[j].status = "downloading"
          /\ \A k \in Jobs \ {j} : pc'[k] = pc[k] /\ tmp'[k] = tmp[k]
      BY <2>1 DEF TypeOK, Start, Stage
    <3>2. JobView(j)' /\ WorkerView(j)'
      BY <2>1, <3>1 DEF Start, JobView, WorkerView
    <3> QED  BY <2>1, <3>1, <3>2, QuietStep DEF Start
  <2>2. CASE Committed(j)
    <3>1. /\ tmp'[j].status = "none" /\ meta' = [meta EXCEPT ![target[j]] = tmp[j]]
          /\ pc[j] = "marking" => pc'[j] = "planning"
          /\ pc[j] # "marking" => pc'[j] \in {"checking", "ended"}
          /\ \A k \in Jobs \ {j} : pc'[k] = pc[k] /\ tmp'[k] = tmp[k]
          /\ UNCHANGED <<files, target, worker, fetched, removal, victim>>
      BY <2>2 DEF Committed, TypeOK, NoMeta
    <3>2. /\ disturbed' \subseteq disturbed
          /\ \A m \in disturbed \ disturbed' :
                m = target[j] /\ pc[j] = "marking" /\ Undisturbed(j)
      BY <2>2 DEF Committed
    <3>3. StagedAsPlanned'
      BY <3>1 DEF ReadyInv, StagedAsPlanned, InFlight
    <3>4. WorkerView(j)'
      BY <2>2, <3>1 DEF WorkerView, Committed
    <3>5. JobView(j)'
      BY <2>2, <3>1, <3>2 DEF JobView, WorkerView, InFlight, Committed, Undisturbed
    <3>6. ASSUME NEW k \in Jobs \ {j} PROVE JobView(k)' /\ WorkerView(k)'
      <4>1. JobView(k) /\ WorkerView(k)
        BY DEF ReadyInv
      <4>2. InFlight(k) => (target[k] \in disturbed => target[k] \in disturbed')
        BY <3>2 DEF Undisturbed
      <4> QED  BY <3>1, <4>1, <4>2 DEF JobView, WorkerView, InFlight, FullRow, Full, DirSize, EndedShort
    <3>7. DeletesDisturb'
      BY <3>1, <3>2 DEF ReadyInv, DeletesDisturb, Undisturbed
    <3>8. ReadyIsComplete'
      <4> SUFFICES ASSUME NEW m \in Models, meta'[m].status = "ready"
                   PROVE  /\ Admissible(m)
                          /\ m \notin disturbed' => meta'[m].size <= DirSize(m)
                          /\ m \notin disturbed' \cup short' =>
                                files[m] = Parts[m] /\ meta'[m].size = Cardinality(Parts[m])
        BY <3>1 DEF ReadyIsComplete, DirSize
      <4>1. CASE m = target[j]
        <5>1. meta'[m] = tmp[j] /\ InFlight(j)
          BY <2>2, <3>1, <4>1 DEF TypeOK, Committed, InFlight
        <5>2. pc[j] = "readying"
          BY <5>1 DEF ReadyInv, StagedAsPlanned
        <5>3. disturbed' = disturbed /\ (m \notin short' => ~EndedShort(j))
          BY <2>2, <4>1, <5>2 DEF Committed
        <5>4. Admissible(m)
          BY <4>1, <5>2 DEF WorkerView
        <5> QED  BY <4>1, <5>1, <5>3, <5>4 DEF JobView, FullRow, Full
      <4>2. CASE m # target[j]
        <5>1. (m \in disturbed => m \in disturbed') /\ (m \in short => m \in short')
          BY <2>2, <3>2, <4>2 DEF Committed
        <5> QED  BY <3>1, <4>2, <5>1 DEF ReadyInv, ReadyIsComplete, TypeOK
      <4> QED  BY <4>1, <4>2
    <3> QED  BY <3>3, <3>4, <3>5, <3>6, <3>7, <3>8 DEF ReadyInv
  <2>3. CASE CommitRaises(j)
    <3>1. CASE pc[j] = "readying"
      BY <2>3, <3>1, RaiseStep DEF CommitRaises, InFlight
    <3>2. CASE pc[j] # "readying"
      <4>1. /\ pc'[j] \in {"swept", "died"}
            /\ \A k \in Jobs \ {j} : pc'[k] = pc[k] /\ tmp'[k] = tmp[k]
            /\ UNCHANGED <<files, meta, target, worker, fetched, ghost, removal, victim>>
        BY <2>3, <3>2 DEF TypeOK, CommitRaises, Stage
      <4>2. JobView(j)' /\ WorkerView(j)'
        BY <4>1 DEF JobView, WorkerView, InFlight
      <4> QED  BY <4>1, <4>2, QuietStep DEF InFlight
    <3> QED  BY <3>1, <3>2
  <2>4. CASE Plan(j)
    <3>1. /\ pc'[j] = "polling" /\ worker'[j] = "running" /\ fetched[j] = {}
          /\ InFlight(j) /\ tmp[j].status # "ready"
          /\ \A k \in Jobs \ {j} : pc'[k] = pc[k] /\ worker'[k] = worker[k]
      BY <2>4 DEF TypeOK, Plan, InFlight, WorkerView, ReadyInv, StagedAsPlanned
    <3>2. JobView(j)' /\ WorkerView(j)'
      BY <2>4, <3>1 DEF Plan, JobView, WorkerView, Admissible
    <3> QED  BY <2>4, <3>1, <3>2, QuietStep DEF Plan
  <2>5. CASE PlanRaises(j)
    BY <2>5, RaiseStep DEF PlanRaises, InFlight
  <2>6. CASE PollBreaks(j)
    <3>1. /\ pc'[j] = "joining" /\ InFlight(j) /\ tmp[j].status # "ready"
          /\ \A k \in Jobs \ {j} : pc'[k] = pc[k]
      BY <2>6 DEF TypeOK, PollBreaks, InFlight, ReadyInv, StagedAsPlanned
    <3>2. JobView(j)' /\ WorkerView(j)'
      BY <2>6, <3>1 DEF PollBreaks, JobView, WorkerView, Admissible
    <3> QED  BY <2>6, <3>1, <3>2, QuietStep DEF PollBreaks
  <2>7. CASE Join(j)
    <3>1. CASE NoErrorText(j)
      <4>1. /\ pc'[j] = "readying"
            /\ tmp'[j] = [status |-> "ready", size |-> DirSize(target[j])]
            /\ \A k \in Jobs \ {j} : pc'[k] = pc[k] /\ tmp'[k] = tmp[k]
            /\ InFlight(j) /\ (EndedShort(j) \/ fetched[j] = Parts[target[j]])
            /\ UNCHANGED <<worker, fetched>>
        BY <2>7, <3>1 DEF TypeOK, Join, Stage, InFlight, NoErrorText, WorkerView,
                          Ends, EndedShort
      <4>2. target[j] \notin disturbed /\ ~EndedShort(j) => FullRow(tmp'[j], target[j])
        <5> SUFFICES ASSUME target[j] \notin disturbed, ~EndedShort(j)
                     PROVE  FullRow(tmp'[j], target[j])
          OBVIOUS
        <5>1. target[j] \in Models /\ files[target[j]] \subseteq Parts[target[j]]
          BY DEF TypeOK
        <5>2. files[target[j]] = Parts[target[j]]
          BY <4>1, <5>1 DEF JobView
        <5> QED  BY <4>1, <5>2 DEF FullRow, Full, DirSize
      <4>3. tmp'[j].size = DirSize(target[j]) /\ DirSize(target[j]) \in Nat
        BY <4>1, DirSizeType DEF TypeOK
      <4>4. JobView(j)' /\ WorkerView(j)'
        BY <2>7, <4>1, <4>2, <4>3 DEF Join, JobView, WorkerView, FullRow, Full, DirSize,
                                      EndedShort, Admissible
      <4> QED  BY <2>7, <4>1, <4>4, QuietStep DEF Join
    <3>2. CASE ~NoErrorText(j)
      BY <2>7, <3>2, RaiseStep DEF Join, InFlight
    <3> QED  BY <3>1, <3>2
  <2>8. CASE Check(j)
    <3>1. CASE meta[target[j]] = NoMeta
      BY <2>8, <3>1, RaiseStep DEF Check, InFlight
    <3>2. CASE meta[target[j]] # NoMeta
      <4>1. /\ pc'[j] = "ended" /\ tmp' = tmp /\ worker'[j] = "off" /\ fetched'[j] = {}
            /\ \A k \in Jobs \ {j} :
                  /\ pc'[k] = pc[k]
                  /\ worker'[k] = worker[k] /\ fetched'[k] = fetched[k]
        BY <2>8, <3>2 DEF TypeOK, Check, Leave
      <4>2. JobView(j)' /\ WorkerView(j)'
        BY <2>8, <4>1 DEF Check, JobView, WorkerView, InFlight
      <4> QED  BY <2>8, <4>1, <4>2, QuietStep DEF Check, InFlight
    <3> QED  BY <3>1, <3>2
  <2> QED  BY <1>1, <2>1, <2>2, <2>3, <2>4, <2>5, <2>6, <2>7, <2>8 DEF JobStep
<1>2. ASSUME NEW j \in Jobs, WorkerStep(j) PROVE ReadyInv'
  <2> JobView(j) /\ WorkerView(j)
    BY DEF ReadyInv
  <2>1. CASE Fetch(j)
    <3>1. PICK p \in Parts[target[j]] \ fetched[j] :
             /\ fetched' = [fetched EXCEPT ![j] = @ \cup {p}]
             /\ files' = [files EXCEPT ![target[j]] = @ \cup {p}]
      BY <2>1 DEF Fetch
    <3>2. /\ \A m \in Models : files[m] \subseteq files'[m] /\ files'[m] \subseteq Parts[m]
          /\ \A k \in Jobs \ {j} : fetched'[k] = fetched[k]
          /\ fetched'[j] = fetched[j] \cup {p} /\ p \in files'[target[j]]
          /\ UNCHANGED <<meta, tmp, pc, target, worker, ghost, removal, victim>>
          /\ worker[j] = "running"
      BY <2>1, <3>1 DEF Fetch, TypeOK
    <3>3. \A k \in Jobs : target[k] \in Models
      BY DEF TypeOK
    <3>4. /\ \A m \in Models : Full(m) => Full(m)'
          /\ \A m \in Models : DirSize(m) <= DirSize(m)'
      <4>1. \A m \in Models : Full(m) => Full(m)'
        BY <3>2 DEF Full
      <4>2. ASSUME NEW m \in Models PROVE DirSize(m) <= DirSize(m)'
        BY <3>2, DirSizeGrows DEF DirSize
      <4> QED  BY <4>1, <4>2
    <3>0. \A m \in Models : DirSize(m) \in Nat /\ DirSize(m)' \in Nat
      <4> SUFFICES ASSUME NEW m \in Models PROVE DirSize(m) \in Nat /\ DirSize(m)' \in Nat
        OBVIOUS
      <4> QED  BY <3>2, DirSizeType, ConstantsAssumption, FS_Subset, FS_CardinalityType
               DEF DirSize
    <3>5. \A k \in Jobs : JobView(k)' /\ WorkerView(k)'
      <4> SUFFICES ASSUME NEW k \in Jobs PROVE JobView(k)' /\ WorkerView(k)'
        OBVIOUS
      <4>1. JobView(k) /\ WorkerView(k)
        BY DEF ReadyInv
      <4>2. WorkerView(k)'
        BY <3>1, <3>2, <4>1 DEF WorkerView, Admissible
      <4>3. JobView(k)'
        <5>1. tmp[k].size \in Nat
          BY DEF TypeOK, Metas
        <5>2. tmp[k].size <= DirSize(target[k]) => tmp[k].size <= DirSize(target[k])'
          BY <3>0, <3>2, <3>3, <3>4, <5>1
        <5> QED  BY <3>2, <3>3, <3>4, <4>1, <5>2
                 DEF JobView, InFlight, FullRow, Full, EndedShort
      <4> QED  BY <4>2, <4>3
    <3>6. StagedAsPlanned' /\ DeletesDisturb'
      BY <3>2 DEF ReadyInv, StagedAsPlanned, DeletesDisturb, InFlight
    <3>7. ReadyIsComplete'
      <4> SUFFICES ASSUME NEW m \in Models, meta[m].status = "ready"
                   PROVE  /\ Admissible(m)
                          /\ m \notin disturbed => meta[m].size <= DirSize(m)'
                          /\ m \notin disturbed \cup short =>
                                files'[m] = Parts[m] /\ meta[m].size = Cardinality(Parts[m])
        BY <3>2 DEF ReadyIsComplete
      <4>1. meta[m].size \in Nat
        BY DEF TypeOK, Metas
      <4> QED  BY <3>0, <3>2, <3>4, <4>1 DEF ReadyInv, ReadyIsComplete, Full
    <3> QED  BY <3>5, <3>6, <3>7 DEF ReadyInv
  <2>2. CASE WorkerEnds(j)
    <3>1. /\ worker[j] = "running" /\ worker'[j] \in Ends
          /\ worker'[j] = "ok" => fetched[j] = Parts[target[j]]
          /\ \A k \in Jobs \ {j} : worker'[k] = worker[k]
      BY <2>2 DEF TypeOK, WorkerEnds
    <3>2. JobView(j)' /\ WorkerView(j)'
      BY <2>2, <3>1 DEF WorkerEnds, JobView, WorkerView, InFlight, FullRow, Full,
                         DirSize, EndedShort, Admissible
    <3>3. InFlight(j)' /\ tmp'[j].status = "ready" => pc'[j] = "readying"
      BY <2>2 DEF WorkerEnds, ReadyInv, StagedAsPlanned, InFlight
    <3> QED  BY <2>2, <3>1, <3>2, <3>3, QuietStep DEF WorkerEnds
  <2> QED  BY <1>2, <2>1, <2>2 DEF WorkerStep
<1>3. ASSUME NEW d \in Deletes, DeleteStep(d) PROVE ReadyInv'
  <2>1. CASE DeleteBegins(d)
    <3>1. /\ disturbed' = disturbed \cup {victim[d]}
          /\ \A e \in Deletes \ {d} : removal'[e] = removal[e]
          /\ UNCHANGED <<files, meta, tmp, pc, target, worker, fetched, victim, short>>
      BY <2>1 DEF DeleteBegins, TypeOK
    <3>2. StagedAsPlanned' /\ DeletesDisturb' /\ ReadyIsComplete'
      BY <3>1 DEF ReadyInv, StagedAsPlanned, DeletesDisturb, ReadyIsComplete, InFlight, DirSize
    <3>3. \A k \in Jobs : JobView(k)' /\ WorkerView(k)'
      BY <3>1 DEF ReadyInv, JobView, WorkerView, InFlight, FullRow, Full, DirSize, EndedShort,
                  Admissible
    <3> QED  BY <3>2, <3>3 DEF ReadyInv
  <2>2. CASE Unlink(d)
    <3>1. victim[d] \in disturbed
      BY <2>2 DEF Unlink, ReadyInv, DeletesDisturb
    <3>2. PICK e \in todo[d] :
             /\ files' = [files EXCEPT ![victim[d]] = {p \in @ : <<"part", p>> # e}]
             /\ meta' = [meta EXCEPT ![victim[d]] = IF e = MetaEntry THEN NoMeta ELSE @]
             /\ tmp' = [j \in Jobs |-> IF e = TmpEntry(j) THEN NoMeta ELSE tmp[j]]
      BY <2>2 DEF Unlink
    <3>3. /\ \A m \in Models \ {victim[d]} : files'[m] = files[m] /\ meta'[m] = meta[m]
          /\ \A m \in Models : meta'[m].status = "ready" => meta'[m] = meta[m]
          /\ \A k \in Jobs : tmp'[k].status = "ready" => tmp'[k] = tmp[k]
          /\ UNCHANGED <<pc, target, worker, fetched, ghost, removal, victim>>
      BY <2>2, <3>2 DEF Unlink, TypeOK, NoMeta
    <3>4. \A k \in Jobs : target[k] \in Models
      BY DEF TypeOK
    <3>5. StagedAsPlanned' /\ DeletesDisturb' /\ ReadyIsComplete'
      BY <3>1, <3>3 DEF ReadyInv, StagedAsPlanned, DeletesDisturb, ReadyIsComplete, InFlight,
                        DirSize
    <3>6. \A k \in Jobs : JobView(k)' /\ WorkerView(k)'
      BY <3>1, <3>3, <3>4 DEF ReadyInv, JobView, WorkerView, InFlight, FullRow, Full,
                                DirSize, EndedShort, Admissible
    <3> QED  BY <3>5, <3>6 DEF ReadyInv
  <2>3. CASE DeleteEnds(d)
    <3>1. /\ \A e \in Deletes : removal'[e] = "removing" => removal[e] = "removing"
          /\ UNCHANGED <<files, meta, tmp, pc, target, worker, fetched, victim, ghost>>
      BY <2>3 DEF DeleteEnds, TypeOK
    <3> QED  BY <3>1 DEF ReadyInv, StagedAsPlanned, DeletesDisturb, ReadyIsComplete,
                         JobView, WorkerView, InFlight, FullRow, Full, DirSize, EndedShort,
                         Admissible
  <2> QED  BY <1>3, <2>1, <2>2, <2>3 DEF DeleteStep
<1>4. CASE Restart
  <2>1. /\ \A j \in Jobs : worker'[j] = "off" /\ fetched'[j] = {} /\ ~InFlight(j)'
        /\ \A j \in Jobs : pc'[j] \in {"idle", "marking", "planning"} => pc'[j] = pc[j]
        /\ \A d \in Deletes : removal'[d] # "removing"
        /\ \A j \in Jobs : pc'[j] \notin {"polling", "joining", "readying"}
        /\ UNCHANGED <<files, meta, tmp, target, ghost>>
    BY <1>4 DEF Restart, InFlight
  <2>2. StagedAsPlanned' /\ DeletesDisturb' /\ ReadyIsComplete'
    BY <2>1 DEF ReadyInv, StagedAsPlanned, DeletesDisturb, ReadyIsComplete, DirSize
  <2>3. \A j \in Jobs : JobView(j)' /\ WorkerView(j)'
    BY <2>1 DEF ReadyInv, JobView, WorkerView
  <2> QED  BY <2>2, <2>3 DEF ReadyInv
<1>5. CASE UNCHANGED vars
  BY <1>5 DEF vars, ReadyInv, StagedAsPlanned, DeletesDisturb, ReadyIsComplete,
              JobView, WorkerView, InFlight, FullRow, Full, DirSize, EndedShort, Admissible
<1> QED  BY <1>1, <1>2, <1>3, <1>4, <1>5 DEF Next, Served

LEMMA ReadyInvariant == Spec => []ReadyInv
<1>1. Init => ReadyInv
  BY DEF Init, ReadyInv, StagedAsPlanned, DeletesDisturb, ReadyIsComplete,
         JobView, WorkerView, InFlight, NoMeta
<1>2. TypeOK /\ ReadyInv /\ [Next]_vars => ReadyInv'
  BY ReadyInvHolds
<1> QED  BY <1>1, <1>2, TypeCorrect, PTL DEF Spec

\* A ready row is of a model that passed the guards; unless a delete may have
\* overlapped it claims no more than is on disk, and has all its files and their
\* size if the worker it rests on did not end short, whatever jobs run on the
\* model at once and wherever the process crashes.
THEOREM ReadyRowsAreComplete == Spec => []ReadyIsComplete
<1>1. ReadyInv => ReadyIsComplete
  BY DEF ReadyInv
<1> QED  BY <1>1, ReadyInvariant, PTL

-----------------------------------------------------------------------------
(* The downloading row *)

\* The record a job has staged is the one of its step, and it has staged one
\* only where write_meta is under way.
StageView(j) ==
    /\ tmp[j] # NoMeta => pc[j] \in {"marking", "readying", "failing", "lost"}
    /\ pc[j] = "readying" => tmp[j].status # "downloading"
    /\ pc[j] = "failing" => tmp[j].status # "downloading"

\* A temporary file that a delete has listed belongs to a job of its model,
\* and to a step of run_job that job has reached.
Past == {"ended", "swept", "died", "lost"}
NameView(j) ==
    \A d \in Deletes, step \in PcStates :
        <<"tmp", j, step>> \in todo[d] =>
            /\ target[j] = victim[d]
            /\ step \in {"marking", "readying", "failing", "lost"}
            /\ step = "readying" => pc[j] \in {"readying", "checking", "failing"} \cup Past
            /\ step = "failing" => pc[j] \in {"failing"} \cup Past
            /\ step = "lost" => pc[j] = "lost"

\* A job that will overwrite the downloading row: a delete that takes its
\* error record away will take the row away as well.
Owner(j) ==
    \/ pc[j] \in {"planning", "polling", "joining", "readying"}
    \/ /\ pc[j] = "failing" /\ tmp[j] # NoMeta
       /\ \A d \in Deletes : TmpEntry(j) \in todo[d] => MetaEntry \in todo[d]

RowIsOwned ==
    \A m \in Models :
        meta[m].status = "downloading" =>
            \/ \E j \in Jobs : target[j] = m /\ Owner(j)
            \/ Doomed(m)
            \/ Bereaved(m)

IdleDeletes == \A d \in Deletes : removal[d] # "removing" => todo[d] = {}

OwnerInv ==
    /\ \A j \in Jobs : StageView(j) /\ NameView(j)
    /\ IdleDeletes
    /\ RowIsOwned

\* A listing names the temporary file of a job by the step the job is at.
LEMMA ListedName ==
    ASSUME TypeOK, NEW m \in Models, NEW j \in Jobs, NEW step \in PcStates,
           <<"tmp", j, step>> \in Listing(m)
    PROVE  target[j] = m /\ tmp[j] # NoMeta /\ pc[j] = step
<1> DEFINE e == <<"tmp", j, step>>
<1>1. e[1] = "tmp" /\ e[2] = j /\ e[3] = step
  OBVIOUS
<1>2. e \notin {"part"} \X files[m]
  <2>1. \A x \in {"part"} \X files[m] : x[1] = "part"
    OBVIOUS
  <2> QED  BY <1>1, <2>1
<1>3. e # MetaEntry
  <2>1. MetaEntry[1] = "meta"
    BY DEF MetaEntry
  <2> QED  BY <1>1, <2>1
<1>4. e \in {TmpEntry(k) : k \in {i \in Jobs : target[i] = m /\ tmp[i] # NoMeta}}
  BY <1>2, <1>3 DEF Listing
<1>5. PICK k \in Jobs : target[k] = m /\ tmp[k] # NoMeta /\ e = TmpEntry(k)
  BY <1>4
<1>6. e[2] = k /\ e[3] = pc[k]
  BY <1>5 DEF TmpEntry
<1> QED  BY <1>1, <1>5, <1>6

\* What makes m bereaved stays so.
LEMMA BereavedStays ==
    ASSUME NEW m \in Models, Bereaved(m), UNCHANGED <<target, victim>>,
           \A k \in Jobs : pc[k] \in {"died", "lost"} => pc'[k] = pc[k],
           \A d \in Deletes : removal[d] = "lost" => removal'[d] = "lost"
    PROVE  Bereaved(m)'
BY DEF Bereaved

\* A step of job j that leaves rows and deletes alone keeps the invariant if
\* j stays an owner when it was one, or is killed by the mount.
LEMMA QuietOwner ==
    ASSUME OwnerInv, NEW j \in Jobs,
           UNCHANGED <<meta, target, removal, victim, todo>>,
           \A k \in Jobs \ {j} : pc'[k] = pc[k] /\ tmp'[k] = tmp[k],
           pc[j] \notin {"died", "lost"} \/ pc'[j] = pc[j],
           StageView(j)', NameView(j)', Owner(j) => Owner(j)' \/ pc'[j] = "died"
    PROVE  OwnerInv'
<1>1. \A k \in Jobs : StageView(k)' /\ NameView(k)'
  BY DEF OwnerInv, StageView, NameView
<1>2. IdleDeletes'
  BY DEF OwnerInv, IdleDeletes
<1>3. \A k \in Jobs : Owner(k) => Owner(k)' \/ pc'[k] = "died"
  BY DEF Owner, TmpEntry
<1>4. RowIsOwned'
  <2> SUFFICES ASSUME NEW m \in Models, meta[m].status = "downloading"
               PROVE  \/ \E k \in Jobs : target[k] = m /\ Owner(k)'
                      \/ Doomed(m)'
                      \/ Bereaved(m)'
    BY DEF RowIsOwned
  <2>1. CASE \E k \in Jobs : target[k] = m /\ Owner(k)
    BY <1>3, <2>1 DEF Bereaved
  <2>2. CASE Doomed(m)
    BY <2>2 DEF Doomed
  <2>3. CASE Bereaved(m)
    BY <2>3, BereavedStays
  <2> QED  BY <2>1, <2>2, <2>3 DEF OwnerInv, RowIsOwned
<1> QED  BY <1>1, <1>2, <1>4 DEF OwnerInv

\* The except branch makes its job the owner of the row.
LEMMA RaiseOwner ==
    ASSUME TypeOK, OwnerInv, NEW j \in Jobs, Raise(j),
           pc[j] \in {"planning", "polling", "joining", "readying", "checking"},
           UNCHANGED <<meta, target, removal, victim, todo>>
    PROVE  OwnerInv'
<1>1. /\ pc'[j] = "failing" /\ tmp'[j] = ErrorRecord(j)
      /\ \A k \in Jobs \ {j} : pc'[k] = pc[k] /\ tmp'[k] = tmp[k]
  BY DEF TypeOK, Raise, Stage
<1>2. tmp'[j].status = "error" /\ tmp'[j] # NoMeta
  BY <1>1 DEF ErrorRecord, NoMeta
<1>3. StageView(j)' /\ NameView(j)'
  BY <1>1, <1>2 DEF OwnerInv, StageView, NameView
<1>4. \A d \in Deletes : <<"tmp", j, "failing">> \notin todo[d]
  BY DEF OwnerInv, NameView, PcStates, Past
<1>5. Owner(j)'
  BY <1>1, <1>2, <1>4 DEF Owner, TmpEntry
<1> QED  BY <1>1, <1>3, <1>5, QuietOwner

LEMMA OwnerInvHolds ==
    ASSUME TypeOK, OwnerInv, [Next]_vars
    PROVE  OwnerInv'
<1> USE DEF disk, job, delete, ghost
<1>1. ASSUME NEW j \in Jobs, JobStep(j) PROVE OwnerInv'
  <2> StageView(j) /\ NameView(j)
    BY DEF OwnerInv
  <2>1. CASE Start(j)
    <3>1. /\ pc[j] = "idle" /\ pc'[j] = "marking" /\ tmp'[j].status = "downloading"
          /\ \A k \in Jobs \ {j} : pc'[k] = pc[k] /\ tmp'[k] = tmp[k]
      BY <2>1 DEF TypeOK, Start, Stage
    <3>2. StageView(j)' /\ NameView(j)' /\ ~Owner(j)
      BY <2>1, <3>1 DEF Start, StageView, NameView, Owner, Past
    <3> QED  BY <2>1, <3>1, <3>2, QuietOwner DEF Start
  <2>2. CASE Committed(j)
    <3>1. /\ tmp'[j] = NoMeta /\ meta' = [meta EXCEPT ![target[j]] = tmp[j]]
          /\ tmp[j] # NoMeta /\ pc[j] \in {"marking", "readying", "failing"}
          /\ pc[j] = "marking" => pc'[j] = "planning"
          /\ pc[j] = "readying" => pc'[j] = "checking"
          /\ pc[j] = "failing" => pc'[j] = "ended"
          /\ \A k \in Jobs \ {j} : pc'[k] = pc[k] /\ tmp'[k] = tmp[k]
          /\ UNCHANGED <<target, removal, victim, todo>>
      BY <2>2 DEF Committed, TypeOK
    <3>2. \A k \in Jobs : StageView(k)' /\ NameView(k)'
      <4>1. StageView(j)' /\ NameView(j)'
        BY <3>1 DEF StageView, NameView, Past
      <4>2. \A k \in Jobs \ {j} : StageView(k)' /\ NameView(k)'
        BY <3>1 DEF OwnerInv, StageView, NameView
      <4> QED  BY <4>1, <4>2
    <3>3. IdleDeletes'
      BY <3>1 DEF OwnerInv, IdleDeletes
    <3>4. RowIsOwned'
      <4> SUFFICES ASSUME NEW m \in Models, meta'[m].status = "downloading"
                   PROVE  \/ \E k \in Jobs : target[k] = m /\ Owner(k)'
                          \/ Doomed(m)
                          \/ Bereaved(m)'
        BY <3>1 DEF RowIsOwned, Doomed
      <4>1. CASE m = target[j]
        <5>1. tmp[j].status = "downloading"
          BY <3>1, <4>1 DEF TypeOK
        <5>2. pc'[j] = "planning"
          BY <3>1, <5>1 DEF StageView
        <5> QED  BY <4>1, <5>2 DEF Owner
      <4>2. CASE m # target[j]
        <5>1. meta[m].status = "downloading"
          BY <3>1, <4>2 DEF TypeOK
        <5>2. CASE Doomed(m)
          BY <5>2
        <5>4. CASE Bereaved(m)
          BY <3>1, <5>4, BereavedStays
        <5>3. CASE \E k \in Jobs : target[k] = m /\ Owner(k)
          <6>1. PICK k \in Jobs : target[k] = m /\ Owner(k)
            BY <5>3
          <6>2. k # j
            BY <4>2, <6>1
          <6>3. Owner(k)'
            BY <3>1, <6>1, <6>2 DEF Owner, TmpEntry
          <6> QED  BY <6>1, <6>3
        <5> QED  BY <5>1, <5>2, <5>3, <5>4 DEF OwnerInv, RowIsOwned
      <4> QED  BY <4>1, <4>2
    <3> QED  BY <3>2, <3>3, <3>4 DEF OwnerInv
  <2>3. CASE CommitRaises(j)
    <3>1. CASE pc[j] = "readying"
      BY <2>3, <3>1, RaiseOwner DEF CommitRaises
    <3>2. CASE pc[j] # "readying"
      <4>1. /\ pc[j] \in {"marking", "failing"} /\ tmp'[j] = NoMeta
            /\ pc'[j] = (IF tmp[j] = NoMeta THEN "swept" ELSE "died")
            /\ \A k \in Jobs \ {j} : pc'[k] = pc[k] /\ tmp'[k] = tmp[k]
        BY <2>3, <3>2 DEF TypeOK, CommitRaises, Stage
      <4>2. StageView(j)' /\ NameView(j)' /\ (Owner(j) => pc'[j] = "died")
        BY <2>3, <4>1 DEF CommitRaises, StageView, NameView, Owner, Past
      <4> QED  BY <2>3, <4>1, <4>2, QuietOwner DEF CommitRaises
    <3> QED  BY <3>1, <3>2
  <2>4. CASE Plan(j)
    <3>1. /\ pc[j] = "planning" /\ pc'[j] = "polling"
          /\ tmp' = tmp /\ \A k \in Jobs \ {j} : pc'[k] = pc[k]
      BY <2>4 DEF TypeOK, Plan
    <3>2. StageView(j)' /\ NameView(j)' /\ Owner(j)'
      BY <2>4, <3>1 DEF Plan, StageView, NameView, Owner, Past
    <3> QED  BY <2>4, <3>1, <3>2, QuietOwner DEF Plan
  <2>5. CASE PlanRaises(j)
    BY <2>5, RaiseOwner DEF PlanRaises
  <2>6. CASE PollBreaks(j)
    <3>1. /\ pc[j] = "polling" /\ pc'[j] = "joining"
          /\ tmp' = tmp /\ \A k \in Jobs \ {j} : pc'[k] = pc[k]
      BY <2>6 DEF TypeOK, PollBreaks
    <3>2. StageView(j)' /\ NameView(j)' /\ Owner(j)'
      BY <2>6, <3>1 DEF PollBreaks, StageView, NameView, Owner, Past
    <3> QED  BY <2>6, <3>1, <3>2, QuietOwner DEF PollBreaks
  <2>7. CASE Join(j)
    <3>1. CASE NoErrorText(j)
      <4>1. /\ pc[j] \in {"polling", "joining"} /\ pc'[j] = "readying"
            /\ tmp'[j].status = "ready"
            /\ \A k \in Jobs \ {j} : pc'[k] = pc[k] /\ tmp'[k] = tmp[k]
        BY <2>7, <3>1 DEF TypeOK, Join, Stage
      <4>2. StageView(j)' /\ NameView(j)' /\ Owner(j)'
        BY <2>7, <4>1 DEF Join, StageView, NameView, Owner, Past
      <4> QED  BY <2>7, <4>1, <4>2, QuietOwner DEF Join
    <3>2. CASE ~NoErrorText(j)
      BY <2>7, <3>2, RaiseOwner DEF Join
    <3> QED  BY <3>1, <3>2
  <2>8. CASE Check(j)
    <3>1. CASE meta[target[j]] = NoMeta
      BY <2>8, <3>1, RaiseOwner DEF Check
    <3>2. CASE meta[target[j]] # NoMeta
      <4>1. /\ pc[j] = "checking" /\ pc'[j] = "ended"
            /\ tmp' = tmp /\ \A k \in Jobs \ {j} : pc'[k] = pc[k]
        BY <2>8, <3>2 DEF TypeOK, Check
      <4>2. StageView(j)' /\ NameView(j)' /\ ~Owner(j)
        BY <2>8, <4>1 DEF Check, StageView, NameView, Owner, Past
      <4> QED  BY <2>8, <4>1, <4>2, QuietOwner DEF Check
    <3> QED  BY <3>1, <3>2
  <2> QED  BY <1>1, <2>1, <2>2, <2>3, <2>4, <2>5, <2>6, <2>7, <2>8 DEF JobStep
<1>2. ASSUME NEW j \in Jobs, WorkerStep(j) PROVE OwnerInv'
  <2>1. UNCHANGED <<meta, tmp, pc, target, removal, victim, todo>>
    BY <1>2 DEF WorkerStep, Fetch, WorkerEnds
  <2>2. StageView(j)' /\ NameView(j)' /\ (Owner(j) => Owner(j)')
    BY <2>1 DEF OwnerInv, StageView, NameView, Owner, TmpEntry
  <2> QED  BY <2>1, <2>2, QuietOwner
<1>3. ASSUME NEW d \in Deletes, DeleteStep(d) PROVE OwnerInv'
  <2>1. CASE DeleteBegins(d)
    <3>1. /\ todo'[d] = Listing(victim[d]) /\ todo[d] = {}
          /\ \A e \in Deletes \ {d} : todo'[e] = todo[e] /\ removal'[e] = removal[e]
          /\ removal'[d] = "removing"
          /\ UNCHANGED <<meta, tmp, pc, target, victim>>
      BY <2>1 DEF DeleteBegins, TypeOK, OwnerInv, IdleDeletes
    <3>2. victim[d] \in Models
      BY DEF TypeOK
    <3>3. \A k \in Jobs : StageView(k)' /\ NameView(k)'
      <4> SUFFICES ASSUME NEW k \in Jobs PROVE StageView(k)' /\ NameView(k)'
        OBVIOUS
      <4>1. StageView(k) /\ NameView(k)
        BY DEF OwnerInv
      <4>2. ASSUME NEW step \in PcStates, <<"tmp", k, step>> \in Listing(victim[d])
            PROVE  /\ target[k] = victim[d] /\ pc[k] = step
                   /\ step \in {"marking", "readying", "failing", "lost"}
        BY <3>2, <4>1, <4>2, ListedName DEF StageView
      <4>3. NameView(k)'
        <5> SUFFICES ASSUME NEW e \in Deletes, NEW step \in PcStates,
                            <<"tmp", k, step>> \in todo'[e]
                     PROVE  /\ target'[k] = victim'[e]
                            /\ step \in {"marking", "readying", "failing", "lost"}
                            /\ step = "readying" =>
                                  pc'[k] \in {"readying", "checking", "failing"} \cup Past
                            /\ step = "failing" => pc'[k] \in {"failing"} \cup Past
                            /\ step = "lost" => pc'[k] = "lost"
          BY DEF NameView
        <5>1. CASE e = d
          BY <3>1, <4>2, <5>1
        <5>2. CASE e # d
          BY <3>1, <4>1, <5>2 DEF NameView
        <5> QED  BY <5>1, <5>2
      <4> QED  BY <3>1, <4>1, <4>3 DEF StageView
    <3>4. IdleDeletes'
      BY <3>1 DEF OwnerInv, IdleDeletes
    <3>5. RowIsOwned'
      <4> SUFFICES ASSUME NEW m \in Models, meta[m].status = "downloading"
                   PROVE  \/ \E k \in Jobs : target[k] = m /\ Owner(k)'
                          \/ Doomed(m)'
                          \/ Bereaved(m)'
        BY <3>1 DEF RowIsOwned
      <4>1. CASE m = victim[d]
        <5>1. MetaEntry \in Listing(m)
          BY DEF Listing, NoMeta
        <5> QED  BY <3>1, <4>1, <5>1 DEF Doomed
      <4>2. CASE m # victim[d] /\ Doomed(m)
        BY <3>1, <4>2 DEF Doomed
      <4>3. CASE m # victim[d] /\ \E k \in Jobs : target[k] = m /\ Owner(k)
        <5>1. PICK k \in Jobs : target[k] = m /\ Owner(k)
          BY <4>3
        <5>2. pc[k] \in PcStates
          BY DEF TypeOK
        <5>3. TmpEntry(k) \notin Listing(victim[d])
          BY <3>2, <4>3, <5>1, <5>2, ListedName DEF TmpEntry
        <5>4. Owner(k)'
          BY <3>1, <5>1, <5>3 DEF Owner, TmpEntry
        <5> QED  BY <3>1, <5>1, <5>4
      <4>4. CASE Bereaved(m)
        BY <2>1, <3>1, <4>4, BereavedStays DEF DeleteBegins
      <4> QED  BY <4>1, <4>2, <4>3, <4>4 DEF OwnerInv, RowIsOwned
    <3> QED  BY <3>3, <3>4, <3>5 DEF OwnerInv
  <2>2. CASE Unlink(d)
    <3>1. PICK e \in todo[d] :
             /\ todo' = [todo EXCEPT ![d] = @ \ {e}]
             /\ meta' = [meta EXCEPT ![victim[d]] = IF e = MetaEntry THEN NoMeta ELSE @]
             /\ tmp' = [k \in Jobs |-> IF e = TmpEntry(k) THEN NoMeta ELSE tmp[k]]
      BY <2>2 DEF Unlink
    <3>2. /\ todo'[d] = todo[d] \ {e}
          /\ \A f \in Deletes \ {d} : todo'[f] = todo[f]
          /\ \A f \in Deletes : todo'[f] \subseteq todo[f]
          /\ \A m \in Models \ {victim[d]} : meta'[m] = meta[m]
          /\ e = MetaEntry => meta'[victim[d]] = NoMeta
          /\ e # MetaEntry => meta'[victim[d]] = meta[victim[d]]
          /\ \A k \in Jobs : tmp'[k] = (IF e = TmpEntry(k) THEN NoMeta ELSE tmp[k])
          /\ UNCHANGED <<pc, target, removal, victim>>
      BY <2>2, <3>1 DEF Unlink, TypeOK
    <3>3. \A k \in Jobs : StageView(k)' /\ NameView(k)'
      <4>1. \A k \in Jobs : NameView(k)'
        BY <3>2 DEF OwnerInv, NameView
      <4>2. \A k \in Jobs : StageView(k)'
        BY <3>2 DEF OwnerInv, StageView, NoMeta
      <4> QED  BY <4>1, <4>2
    <3>4. IdleDeletes'
      BY <3>2 DEF OwnerInv, IdleDeletes
    <3>5. RowIsOwned'
      <4> SUFFICES ASSUME NEW m \in Models, meta'[m].status = "downloading"
                   PROVE  \/ \E k \in Jobs : target[k] = m /\ Owner(k)'
                          \/ Doomed(m)'
                          \/ Bereaved(m)'
        BY <3>2 DEF RowIsOwned
      <4>1. meta[m].status = "downloading" /\ (m = victim[d] => e # MetaEntry)
        BY <3>2 DEF NoMeta
      <4>2. Doomed(m) => Doomed(m)'
        <5> SUFFICES ASSUME NEW f \in Deletes, victim[f] = m, MetaEntry \in todo[f]
                     PROVE  MetaEntry \in todo'[f]
          BY <3>2 DEF Doomed
        <5> QED  BY <3>2, <4>1
      <4>3. ASSUME NEW k \in Jobs, target[k] = m, Owner(k)
            PROVE  Owner(k)' \/ Doomed(m)'
        <5>1. CASE pc[k] # "failing"
          BY <3>2, <4>3, <5>1 DEF Owner
        <5>2. CASE pc[k] = "failing" /\ e = TmpEntry(k)
          <6>1. target[k] = victim[d]
            BY <5>2 DEF OwnerInv, NameView, TmpEntry, PcStates
          <6>2. MetaEntry \in todo[d]
            BY <4>3, <5>2 DEF Owner
          <6> QED  BY <4>2, <4>3, <6>1, <6>2 DEF Doomed
        <5>3. CASE pc[k] = "failing" /\ e # TmpEntry(k)
          <6>1. tmp'[k] = tmp[k] /\ TmpEntry(k)' = TmpEntry(k)
            BY <3>2, <5>3 DEF TmpEntry
          <6>2. CASE \E f \in Deletes : TmpEntry(k) \in todo[f] /\ MetaEntry \notin todo'[f]
            <7>1. PICK f \in Deletes : TmpEntry(k) \in todo[f] /\ MetaEntry \notin todo'[f]
              BY <6>2
            <7>2. MetaEntry \in todo[f] /\ victim[f] = m
              BY <4>3, <5>3, <7>1 DEF Owner, OwnerInv, NameView, TmpEntry, PcStates
            <7> QED  BY <4>2, <7>2, <3>2, <4>1, <7>1
          <6>3. CASE \A f \in Deletes : TmpEntry(k) \in todo[f] => MetaEntry \in todo'[f]
            BY <3>2, <4>3, <5>3, <6>1, <6>3 DEF Owner
          <6> QED  BY <6>2, <6>3
        <5> QED  BY <5>1, <5>2, <5>3
      <4>4. CASE Bereaved(m)
        BY <3>2, <4>4, BereavedStays
      <4> QED  BY <3>2, <4>1, <4>2, <4>3, <4>4 DEF OwnerInv, RowIsOwned
    <3> QED  BY <3>3, <3>4, <3>5 DEF OwnerInv
  <2>3. CASE DeleteEnds(d)
    <3>1. /\ \A e \in Deletes : removal'[e] # "removing" => todo[e] = {}
          /\ \A e \in Deletes : removal[e] = "lost" => removal'[e] = "lost"
          /\ UNCHANGED <<meta, tmp, pc, target, victim, todo>>
      BY <2>3 DEF DeleteEnds, TypeOK, OwnerInv, IdleDeletes
    <3>2. \A k \in Jobs : StageView(k)' /\ NameView(k)' /\ (Owner(k) => Owner(k)')
      BY <3>1 DEF OwnerInv, StageView, NameView, Owner, TmpEntry
    <3>3. IdleDeletes' /\ RowIsOwned'
      BY <3>1, <3>2, BereavedStays DEF OwnerInv, IdleDeletes, RowIsOwned, Doomed
    <3> QED  BY <3>2, <3>3 DEF OwnerInv
  <2> QED  BY <1>3, <2>1, <2>2, <2>3 DEF DeleteStep
<1>4. CASE Restart
  <2>1. /\ \A k \in Jobs : pc'[k] = (IF InFlight(k) THEN "lost" ELSE pc[k])
        /\ \A d \in Deletes : removal'[d] = (IF removal[d] = "removing" THEN "lost"
                                                                        ELSE removal[d])
        /\ \A d \in Deletes : todo'[d] = {}
        /\ UNCHANGED <<meta, tmp, target, victim>>
    BY <1>4 DEF Restart
  <2>2. \A k \in Jobs : StageView(k)' /\ NameView(k)'
    BY <2>1 DEF OwnerInv, StageView, NameView, InFlight
  <2>3. IdleDeletes'
    BY <2>1 DEF IdleDeletes
  <2>4. \A k \in Jobs : Owner(k) => pc'[k] = "lost"
    BY <2>1 DEF Owner, InFlight
  <2>5. \A d \in Deletes : todo[d] # {} => removal'[d] = "lost"
    BY <2>1 DEF OwnerInv, IdleDeletes
  <2>6. ASSUME NEW m \in Models, Bereaved(m) PROVE Bereaved(m)'
    BY <2>1, <2>6, BereavedStays DEF InFlight
  <2>7. RowIsOwned'
    BY <2>1, <2>4, <2>5, <2>6 DEF OwnerInv, RowIsOwned, Doomed, Bereaved
  <2> QED  BY <2>2, <2>3, <2>7 DEF OwnerInv
<1>5. CASE UNCHANGED vars
  <2>1. \A k \in Jobs : StageView(k)' /\ NameView(k)' /\ (Owner(k) => Owner(k)')
    BY <1>5 DEF vars, OwnerInv, StageView, NameView, Owner, TmpEntry
  <2>2. IdleDeletes' /\ RowIsOwned'
    BY <1>5, <2>1, BereavedStays DEF vars, OwnerInv, IdleDeletes, RowIsOwned, Doomed
  <2> QED  BY <2>1, <2>2 DEF OwnerInv
<1> QED  BY <1>1, <1>2, <1>3, <1>4, <1>5 DEF Next, Served

\* No interleaving of jobs and deletes alone orphans a row: one that says
\* downloading has a job at work, or a delete is about to unlink it, or a
\* restart or the mount killed a thread at work on that model.
THEOREM DownloadingRowsHaveJobs == Spec => []DownloadingHasJob
<1>1. Init => OwnerInv
  BY DEF Init, OwnerInv, StageView, NameView, IdleDeletes, RowIsOwned, NoMeta
<1>2. TypeOK /\ OwnerInv /\ [Next]_vars => OwnerInv'
  BY OwnerInvHolds
<1>3. OwnerInv => DownloadingHasJob
  <2>1. \A j \in Jobs : Owner(j) => InFlight(j)
    BY DEF Owner, InFlight
  <2> QED  BY <2>1 DEF OwnerInv, RowIsOwned, DownloadingHasJob
<1> QED  BY <1>1, <1>2, <1>3, TypeCorrect, PTL DEF Spec

-----------------------------------------------------------------------------
(* The terminal event *)

\* No other request has touched the model of j, since what has begun stays begun.
Lone(j) ==
    /\ \A k \in Jobs \ {j} : target[k] = target[j] => pc[k] = "idle"
    /\ \A d \in Deletes : victim[d] = target[j] => removal[d] = "idle"

\* An event ends its job, the record a job stages is the one it will report, and
\* for a job alone the row is the one it wrote.
TruthView(j) ==
    /\ event[j] # "none" => pc[j] = "ended"
    /\ tmp[j] # NoMeta /\ pc[j] = "readying" => tmp[j].status = "ready"
    /\ tmp[j] # NoMeta /\ pc[j] = "failing" => tmp[j].status = "error"
    /\ Lone(j) /\ pc[j] = "checking" => meta[target[j]].status = "ready"
    /\ Lone(j) /\ event[j] # "none" =>
          meta[target[j]].status = (IF event[j] = "done" THEN "ready" ELSE "error")

TruthInv == \A j \in Jobs : TruthView(j)

\* A step that leaves job k alone, and other requests no more alone with its model,
\* keeps its view if the row of its model is left alone too.
LEMMA OthersTruth ==
    ASSUME NEW k \in Jobs, TruthView(k), pc'[k] = pc[k], event'[k] = event[k],
           tmp'[k] = tmp[k] \/ tmp'[k] = NoMeta,
           UNCHANGED <<target, victim>>,
           Lone(k)' => Lone(k) /\ meta'[target[k]] = meta[target[k]]
    PROVE  TruthView(k)'
BY DEF TruthView

\* What has begun has begun.
LEMMA LoneBefore ==
    ASSUME NEW k \in Jobs, UNCHANGED <<target, victim>>, Lone(k)',
           \A i \in Jobs : pc'[i] = "idle" => pc[i] = "idle",
           \A d \in Deletes : removal'[d] = "idle" => removal[d] = "idle"
    PROVE  Lone(k)
BY DEF Lone

\* A step of job j that writes no row keeps the others' views.
LEMMA QuietTruth ==
    ASSUME TruthInv, NEW j \in Jobs, pc'[j] # "idle",
           \A k \in Jobs \ {j} : pc'[k] = pc[k] /\ tmp'[k] = tmp[k] /\ event'[k] = event[k],
           UNCHANGED <<meta, target, victim, removal>>,
           TruthView(j)'
    PROVE  TruthInv'
<1> SUFFICES ASSUME NEW k \in Jobs \ {j} PROVE TruthView(k)'
  BY DEF TruthInv
<1>1. Lone(k)' => Lone(k)
  BY LoneBefore
<1> QED  BY <1>1, OthersTruth DEF TruthInv

\* The except branch stages an error and reports nothing yet.
LEMMA RaiseTruth ==
    ASSUME TypeOK, TruthInv, NEW j \in Jobs, InFlight(j), Raise(j),
           UNCHANGED <<meta, target, victim, removal, event>>
    PROVE  TruthInv'
<1>1. /\ pc'[j] = "failing" /\ tmp'[j] = ErrorRecord(j)
      /\ \A k \in Jobs \ {j} : pc'[k] = pc[k] /\ tmp'[k] = tmp[k]
  BY DEF TypeOK, Raise, Stage
<1>2. tmp'[j].status = "error" /\ event[j] = "none"
  BY <1>1 DEF ErrorRecord, TruthInv, TruthView, InFlight
<1>3. TruthView(j)'
  BY <1>1, <1>2 DEF TruthView
<1> QED  BY <1>1, <1>3, QuietTruth

LEMMA TruthInvHolds ==
    ASSUME TypeOK, TruthInv, [Next]_vars
    PROVE  TruthInv'
<1> USE DEF disk, job, delete, ghost
<1>1. ASSUME NEW j \in Jobs, JobStep(j) PROVE TruthInv'
  <2> TruthView(j)
    BY DEF TruthInv
  <2>1. CASE Start(j)
    <3>1. /\ pc'[j] = "marking" /\ event[j] = "none"
          /\ \A k \in Jobs \ {j} : pc'[k] = pc[k] /\ tmp'[k] = tmp[k]
      BY <2>1 DEF TypeOK, Start, Stage, TruthView
    <3>2. TruthView(j)'
      BY <2>1, <3>1 DEF Start, TruthView
    <3> QED  BY <2>1, <3>1, <3>2, QuietTruth DEF Start
  <2>2. CASE Committed(j)
    <3>1. /\ meta' = [meta EXCEPT ![target[j]] = tmp[j]] /\ tmp[j] # NoMeta /\ tmp'[j] = NoMeta
          /\ pc[j] = "marking" => pc'[j] = "planning" /\ event'[j] = "none"
          /\ pc[j] = "readying" => pc'[j] = "checking" /\ event'[j] = "none"
          /\ pc[j] = "failing" => pc'[j] = "ended" /\ event'[j] = "error"
          /\ pc[j] \in {"marking", "readying", "failing"}
          /\ \A k \in Jobs \ {j} : pc'[k] = pc[k] /\ tmp'[k] = tmp[k] /\ event'[k] = event[k]
          /\ UNCHANGED <<target, removal, victim>>
      BY <2>2 DEF Committed, TypeOK, Reported, TruthView
    <3>2. meta'[target[j]] = tmp[j]
      BY <3>1 DEF TypeOK
    <3>3. TruthView(j)'
      BY <3>1, <3>2 DEF TruthView
    <3>4. ASSUME NEW k \in Jobs \ {j} PROVE TruthView(k)'
      <4>1. Lone(k)' => Lone(k) /\ target[k] # target[j]
        <5>1. Lone(k)' => Lone(k)
          BY <3>1, LoneBefore
        <5>2. Lone(k)' => target[k] # target[j]
          BY <3>1 DEF Lone
        <5> QED  BY <5>1, <5>2
      <4>2. target[k] # target[j] => meta'[target[k]] = meta[target[k]]
        BY <3>1 DEF TypeOK
      <4> QED  BY <3>1, <4>1, <4>2, OthersTruth DEF TruthInv
    <3> QED  BY <3>3, <3>4 DEF TruthInv
  <2>3. CASE CommitRaises(j)
    <3>1. CASE pc[j] = "readying"
      BY <2>3, <3>1, RaiseTruth DEF CommitRaises, InFlight
    <3>2. CASE pc[j] # "readying"
      <4>1. /\ pc'[j] \in {"swept", "died"} /\ event[j] = "none" /\ event' = event
            /\ \A k \in Jobs \ {j} : pc'[k] = pc[k] /\ tmp'[k] = tmp[k]
        BY <2>3, <3>2 DEF TypeOK, CommitRaises, Stage, TruthView
      <4>2. TruthView(j)'
        BY <4>1 DEF TruthView
      <4> QED  BY <2>3, <4>1, <4>2, QuietTruth DEF CommitRaises
    <3> QED  BY <3>1, <3>2
  <2>4. CASE Plan(j)
    <3>1. pc'[j] = "polling" /\ event[j] = "none" /\ \A k \in Jobs \ {j} : pc'[k] = pc[k]
      BY <2>4 DEF TypeOK, Plan, TruthView
    <3>2. TruthView(j)'
      BY <2>4, <3>1 DEF Plan, TruthView
    <3> QED  BY <2>4, <3>1, <3>2, QuietTruth DEF Plan
  <2>5. CASE PlanRaises(j)
    BY <2>5, RaiseTruth DEF PlanRaises, InFlight
  <2>6. CASE PollBreaks(j)
    <3>1. pc'[j] = "joining" /\ event[j] = "none" /\ \A k \in Jobs \ {j} : pc'[k] = pc[k]
      BY <2>6 DEF TypeOK, PollBreaks, TruthView
    <3>2. TruthView(j)'
      BY <2>6, <3>1 DEF PollBreaks, TruthView
    <3> QED  BY <2>6, <3>1, <3>2, QuietTruth DEF PollBreaks
  <2>7. CASE Join(j)
    <3>1. CASE NoErrorText(j)
      <4>1. /\ pc'[j] = "readying" /\ event[j] = "none" /\ tmp'[j].status = "ready"
            /\ \A k \in Jobs \ {j} : pc'[k] = pc[k] /\ tmp'[k] = tmp[k]
        BY <2>7, <3>1 DEF TypeOK, Join, Stage, TruthView
      <4>2. TruthView(j)'
        BY <2>7, <4>1 DEF Join, TruthView
      <4> QED  BY <2>7, <4>1, <4>2, QuietTruth DEF Join
    <3>2. CASE ~NoErrorText(j)
      BY <2>7, <3>2, RaiseTruth DEF Join, InFlight
    <3> QED  BY <3>1, <3>2
  <2>8. CASE Check(j)
    <3>1. CASE meta[target[j]] = NoMeta
      BY <2>8, <3>1, RaiseTruth DEF Check, InFlight
    <3>2. CASE meta[target[j]] # NoMeta
      <4>1. /\ pc[j] = "checking" /\ pc'[j] = "ended" /\ event'[j] = "done" /\ tmp' = tmp
            /\ \A k \in Jobs \ {j} : pc'[k] = pc[k] /\ event'[k] = event[k]
            /\ UNCHANGED <<meta, target, victim, removal>>
        BY <2>8, <3>2 DEF TypeOK, Check
      <4>2. Lone(j)' => Lone(j)
        BY <4>1, LoneBefore
      <4>3. TruthView(j)'
        BY <4>1, <4>2 DEF TruthView
      <4> QED  BY <4>1, <4>3, QuietTruth
    <3> QED  BY <3>1, <3>2
  <2> QED  BY <1>1, <2>1, <2>2, <2>3, <2>4, <2>5, <2>6, <2>7, <2>8 DEF JobStep
<1>2. ASSUME NEW j \in Jobs, WorkerStep(j) PROVE TruthInv'
  <2>1. UNCHANGED <<meta, tmp, pc, target, event, removal, victim>>
    BY <1>2 DEF WorkerStep, Fetch, WorkerEnds
  <2> QED  BY <2>1 DEF TruthInv, TruthView, Lone
<1>3. ASSUME NEW d \in Deletes, DeleteStep(d) PROVE TruthInv'
  <2>1. /\ UNCHANGED <<pc, event, target, victim>>
        /\ \A e \in Deletes : removal'[e] = "idle" => removal[e] = "idle"
        /\ \A k \in Jobs : tmp'[k] = tmp[k] \/ tmp'[k] = NoMeta
    BY <1>3 DEF TypeOK, DeleteStep, DeleteBegins, Unlink, DeleteEnds
  <2>2. \A m \in Models : meta'[m] = meta[m] \/ (m = victim[d] /\ removal'[d] # "idle")
    BY <1>3 DEF TypeOK, DeleteStep, DeleteBegins, Unlink, DeleteEnds
  <2>3. ASSUME NEW k \in Jobs PROVE TruthView(k)'
    <3>1. Lone(k)' => Lone(k)
      BY <2>1, LoneBefore
    <3>2. Lone(k)' => meta'[target[k]] = meta[target[k]]
      BY <2>1, <2>2 DEF Lone, TypeOK
    <3> QED  BY <2>1, <3>1, <3>2, OthersTruth DEF TruthInv
  <2> QED  BY <2>3 DEF TruthInv
<1>4. CASE Restart
  <2>1. /\ \A k \in Jobs : pc'[k] = pc[k] \/ (pc'[k] = "lost" /\ InFlight(k))
        /\ \A e \in Deletes : removal'[e] = "idle" => removal[e] = "idle"
        /\ UNCHANGED <<meta, tmp, target, event, victim>>
    <3>1. pc' = [k \in Jobs |-> IF InFlight(k) THEN "lost" ELSE pc[k]]
      BY <1>4 DEF Restart
    <3>2. \A k \in Jobs : pc'[k] = pc[k] \/ (pc'[k] = "lost" /\ InFlight(k))
      BY <3>1
    <3>3. removal' = [e \in Deletes |-> IF removal[e] = "removing" THEN "lost"
                                                                  ELSE removal[e]]
      BY <1>4 DEF Restart
    <3>4. \A e \in Deletes : removal'[e] = "idle" => removal[e] = "idle"
      BY <3>3
    <3>5. UNCHANGED <<meta, tmp, target, event, victim>>
      BY <1>4 DEF Restart
    <3> QED  BY <3>2, <3>4, <3>5
  <2>2. \A k \in Jobs : pc'[k] = "idle" => pc[k] = "idle"
    BY <2>1
  <2>3. ASSUME NEW k \in Jobs PROVE TruthView(k)'
    <3>1. Lone(k)' => Lone(k)
      BY <2>1, <2>2, LoneBefore
    <3> QED  BY <2>1, <3>1 DEF TruthInv, TruthView, InFlight
  <2> QED  BY <2>3 DEF TruthInv
<1>5. CASE UNCHANGED vars
  BY <1>5 DEF vars, TruthInv, TruthView, Lone
<1> QED  BY <1>1, <1>2, <1>3, <1>4, <1>5 DEF Next, Served

\* The event a browser gets of a job that was alone with its model is what the
\* registry says of it, for as long as nobody else touches the model, whatever
\* other models, the hub, the mount and restarts do.
THEOREM LoneJobsTellTheTruth == Spec => []LoneJobToldTheTruth
<1>1. Init => TruthInv
  BY DEF Init, TruthInv, TruthView, NoMeta
<1>2. TypeOK /\ TruthInv /\ [Next]_vars => TruthInv'
  BY TruthInvHolds
<1>3. TruthInv => LoneJobToldTheTruth
  BY DEF TruthInv, TruthView, Lone, LoneJobToldTheTruth
<1> QED  BY <1>1, <1>2, <1>3, TypeCorrect, PTL DEF Spec

-----------------------------------------------------------------------------
(* The store implements the registry *)

\* The registry sees the row of m go.
PastRow(m) == \E d \in Deletes : victim[d] = m /\ StageOf(d) \in {"removed", "ended"}

\* Between its placeholder and its ready row, a job finds a row, or a delete has
\* taken it away.
RowOrPast(j) ==
    pc[j] \in {"planning", "polling", "joining", "readying"} =>
        meta[target[j]] # NoMeta \/ PastRow(target[j])

RowsWereThere == \A j \in Jobs : RowOrPast(j)

\* A delete that is past the row stays past it while the process runs.
LEMMA PastRowStays ==
    ASSUME TypeOK, NEW m \in Models, PastRow(m), victim' = victim,
           \A d \in Deletes : removal[d] \in {"removing", "ended"} =>
               /\ removal'[d] = removal[d] \/ removal'[d] = "ended"
               /\ MetaEntry \notin todo[d] => MetaEntry \notin todo'[d]
    PROVE  PastRow(m)'
<1>1. PICK d \in Deletes : victim[d] = m /\ StageOf(d) \in {"removed", "ended"}
  BY DEF PastRow
<1>2. removal[d] = "ended" \/ (removal[d] = "removing" /\ MetaEntry \notin todo[d])
  BY <1>1 DEF TypeOK, StageOf
<1>3. StageOf(d)' \in {"removed", "ended"}
  BY <1>2 DEF StageOf
<1> QED  BY <1>1, <1>3 DEF PastRow

LEMMA RowsWereThereHolds ==
    ASSUME TypeOK, RowsWereThere, [Next]_vars PROVE RowsWereThere'
<1> USE DEF disk, job, delete, ghost
<1>1. ASSUME NEW j \in Jobs, JobStep(j) PROVE RowsWereThere'
  <2>1. UNCHANGED <<target, removal, victim, todo>>
    BY <1>1 DEF JobStep, Start, Committed, CommitRaises, Plan, PlanRaises, PollBreaks, Join, Check
  <2>2. \A m \in Models : PastRow(m)' <=> PastRow(m)
    BY <2>1 DEF PastRow, StageOf
  <2>3. CASE Committed(j)
    <3>1. /\ meta' = [meta EXCEPT ![target[j]] = tmp[j]] /\ tmp[j] # NoMeta
          /\ pc'[j] \in {"planning", "checking", "ended"}
          /\ \A k \in Jobs \ {j} : pc'[k] = pc[k]
      BY <2>3 DEF TypeOK, Committed
    <3>2. meta'[target[j]] # NoMeta /\ \A m \in Models : meta[m] # NoMeta => meta'[m] # NoMeta
      BY <3>1 DEF TypeOK
    <3> QED  BY <2>1, <2>2, <3>1, <3>2 DEF TypeOK, RowsWereThere, RowOrPast
  <2>4. CASE ~Committed(j)
    <3>1. meta' = meta /\ \A k \in Jobs \ {j} : pc'[k] = pc[k]
      BY <1>1, <2>4 DEF TypeOK, JobStep, Start, CommitRaises, Plan, PlanRaises, PollBreaks, Join,
                        Check, Raise, Stage
    <3>2. pc'[j] \in {"planning", "polling", "joining", "readying"} =>
              pc[j] \in {"planning", "polling", "joining", "readying"}
      BY <1>1, <2>4 DEF TypeOK, JobStep, Start, CommitRaises, Plan, PlanRaises, PollBreaks, Join,
                        Check, Raise, Stage
    <3> QED  BY <2>1, <2>2, <3>1, <3>2 DEF TypeOK, RowsWereThere, RowOrPast
  <2> QED  BY <2>3, <2>4
<1>2. ASSUME NEW j \in Jobs, WorkerStep(j) PROVE RowsWereThere'
  BY <1>2 DEF WorkerStep, Fetch, WorkerEnds, RowsWereThere, RowOrPast, PastRow, StageOf
<1>3. ASSUME NEW d \in Deletes, DeleteStep(d) PROVE RowsWereThere'
  <2>1. /\ UNCHANGED <<pc, target, victim>>
        /\ \A c \in Deletes : removal[c] \in {"removing", "ended"} =>
               /\ removal'[c] = removal[c] \/ removal'[c] = "ended"
               /\ MetaEntry \notin todo[c] => MetaEntry \notin todo'[c]
    BY <1>3 DEF TypeOK, DeleteStep, DeleteBegins, Unlink, DeleteEnds
  <2>2. \A m \in Models : PastRow(m) => PastRow(m)'
    BY <2>1, PastRowStays
  <2>3. \A m \in Models : meta[m] # NoMeta => meta'[m] # NoMeta \/ PastRow(m)'
    <3>1. CASE Unlink(d)
      <4>1. PICK e \in todo[d] :
                /\ todo' = [todo EXCEPT ![d] = @ \ {e}]
                /\ meta' = [meta EXCEPT ![victim[d]] = IF e = MetaEntry THEN NoMeta ELSE @]
        BY <3>1 DEF Unlink
      <4>2. ASSUME NEW m \in Models, e = MetaEntry, m = victim[d] PROVE PastRow(m)'
        BY <2>1, <3>1, <4>1, <4>2 DEF TypeOK, Unlink, PastRow, StageOf
      <4>3. \A m \in Models : meta'[m] = meta[m] \/ (e = MetaEntry /\ m = victim[d])
        BY <4>1 DEF TypeOK
      <4> QED  BY <4>2, <4>3
    <3>2. CASE DeleteBegins(d) \/ DeleteEnds(d)
      BY <3>2 DEF DeleteBegins, DeleteEnds
    <3> QED  BY <1>3, <3>1, <3>2 DEF DeleteStep
  <2> QED  BY <2>1, <2>2, <2>3 DEF TypeOK, RowsWereThere, RowOrPast
<1>4. CASE Restart
  <2>1. pc' = [j \in Jobs |-> IF InFlight(j) THEN "lost" ELSE pc[j]]
    BY <1>4 DEF Restart
  <2>2. \A j \in Jobs : pc'[j] \notin {"planning", "polling", "joining", "readying"}
    BY <2>1 DEF InFlight
  <2> QED  BY <2>2 DEF RowsWereThere, RowOrPast
<1>5. CASE UNCHANGED vars
  BY <1>5 DEF vars, RowsWereThere, RowOrPast, PastRow, StageOf
<1> QED  BY <1>1, <1>2, <1>3, <1>4, <1>5 DEF Next, Served

\* A listing has the row exactly when there is one.
LEMMA ListsTheRow ==
    ASSUME TypeOK, NEW m \in Models PROVE MetaEntry \in Listing(m) <=> meta[m] # NoMeta
<1>1. MetaEntry[1] = "meta"
  BY DEF MetaEntry
<1>2. MetaEntry \notin {"part"} \X files[m]
  <2>1. \A x \in {"part"} \X files[m] : x[1] = "part"
    OBVIOUS
  <2> QED  BY <1>1, <2>1
<1>3. MetaEntry \notin {TmpEntry(j) : j \in {k \in Jobs : target[k] = m /\ tmp[k] # NoMeta}}
  <2>1. \A j \in Jobs : TmpEntry(j)[1] = "tmp"
    BY DEF TmpEntry
  <2> QED  BY <1>1, <2>1
<1> QED  BY <1>2, <1>3 DEF Listing

\* What the registry sees of a step that writes no row and moves no delete.
LEMMA UnseenByRegistry ==
    ASSUME UNCHANGED <<meta, removal, victim, todo>> PROVE UNCHANGED Registry!registry
  BY DEF RowOf, StageOf, Registry!registry

\* The rename of write_meta changes one row, to ready only over a row or one that
\* a delete has taken away; all other steps of a job leave the registry alone.
LEMMA JobsUseRegistry ==
    ASSUME TypeOK, StagedAsPlanned, RowsWereThere, NEW j \in Jobs, JobStep(j)
    PROVE  Registry!RegistryNext \/ UNCHANGED Registry!registry
<1> USE DEF disk, job, delete, ghost
<1>1. CASE ~Committed(j)
  <2>1. UNCHANGED <<meta, removal, victim, todo>>
    BY <1>1 DEF JobStep, Start, CommitRaises, Plan, PlanRaises, PollBreaks, Join, Check
  <2> QED  BY <2>1, UnseenByRegistry
<1>2. CASE Committed(j)
  <2> PICK m \in Models : m = target[j]
    BY DEF TypeOK
  <2>1. /\ tmp[j] # NoMeta
        /\ meta' = [meta EXCEPT ![m] = tmp[j]]
        /\ pc[j] \in {"marking", "readying", "failing"}
        /\ UNCHANGED <<removal, victim, todo>>
    BY <1>2 DEF TypeOK, Committed
  <2>2. \A n \in Models \ {m} : RowOf(n)' = RowOf(n)
    BY <2>1 DEF TypeOK, RowOf
  <2>3. RowOf(m)' = IF tmp[j].status = "ready" THEN "ready" ELSE "unready"
    BY <2>1 DEF TypeOK, RowOf
  <2>4. [d \in Deletes |-> StageOf(d)]' = [d \in Deletes |-> StageOf(d)]
    BY <2>1 DEF StageOf
  <2>5. CASE tmp[j].status # "ready"
    <3>1. [n \in Models |-> RowOf(n)]' = [[n \in Models |-> RowOf(n)] EXCEPT ![m] = "unready"]
      BY <2>1, <2>2, <2>3, <2>5
    <3>2. Registry!Unready(m)
      BY <2>1, <2>4, <3>1 DEF Registry!Unready, Registry!Writes
    <3> QED  BY <2>1, <3>2 DEF Registry!RegistryNext
  <2>6. CASE tmp[j].status = "ready"
    <3>1. [n \in Models |-> RowOf(n)]' = [[n \in Models |-> RowOf(n)] EXCEPT ![m] = "ready"]
      BY <2>1, <2>2, <2>3, <2>6
    <3>2. pc[j] = "readying"
      BY <2>1, <2>6 DEF StagedAsPlanned, InFlight
    <3>3. meta[m] # NoMeta \/ PastRow(m)
      BY <3>2 DEF RowsWereThere, RowOrPast
    <3>4. [n \in Models |-> RowOf(n)][m] # "none" \/ Registry!TakenAway(m)
      BY <2>1, <3>3 DEF RowOf, PastRow, Registry!TakenAway
    <3>5. Registry!Ready(m)
      BY <2>1, <2>4, <3>1, <3>4 DEF Registry!Ready, Registry!Writes
    <3> QED  BY <2>1, <3>5 DEF Registry!RegistryNext
  <2> QED  BY <2>5, <2>6
<1> QED  BY <1>1, <1>2

\* A delete is past the row from the listing without one, or from the unlink of it.
LEMMA DeletesUseRegistry ==
    ASSUME TypeOK, NEW d \in Deletes, DeleteStep(d)
    PROVE  Registry!RegistryNext \/ UNCHANGED Registry!registry
<1> USE DEF disk, job, delete, ghost
<1> DEFINE m == victim[d]
           stages == [c \in Deletes |-> StageOf(c)]
           rows == [n \in Models |-> RowOf(n)]
<1>1. m \in Models /\ victim' = victim
      /\ \A c \in Deletes \ {d} : StageOf(c)' = StageOf(c)
  BY DEF TypeOK, DeleteStep, DeleteBegins, Unlink, DeleteEnds, StageOf
<1>2. CASE DeleteBegins(d)
  <2>1. StageOf(d) = "idle" /\ meta' = meta /\ rows' = rows
    BY <1>2 DEF DeleteBegins, StageOf, RowOf
  <2>2. StageOf(d)' = IF MetaEntry \in Listing(m) THEN "removing" ELSE "removed"
    BY <1>2 DEF TypeOK, DeleteBegins, StageOf
  <2>3. MetaEntry \in Listing(m) <=> rows[m] # "none"
    BY <1>1, ListsTheRow DEF RowOf
  <2>4. stages' = [stages EXCEPT ![d] = IF rows[m] = "none" THEN "removed" ELSE "removing"]
    BY <1>1, <2>2, <2>3
  <2>5. Registry!Begins(d)
    BY <1>1, <2>1, <2>4 DEF Registry!Begins, Registry!Moves
  <2> QED  BY <2>5 DEF Registry!RegistryNext
<1>3. CASE Unlink(d)
  <2>1. PICK e \in todo[d] :
            /\ todo' = [todo EXCEPT ![d] = @ \ {e}]
            /\ meta' = [meta EXCEPT ![m] = IF e = MetaEntry THEN NoMeta ELSE @]
    BY <1>3 DEF Unlink
  <2>2. removal[d] = "removing" /\ removal' = removal
    BY <1>3 DEF Unlink
  <2>3. CASE e = MetaEntry
    <3>1. StageOf(d) = "removing" /\ StageOf(d)' = "removed"
      BY <2>1, <2>2, <2>3 DEF TypeOK, StageOf
    <3>2. \A n \in Models : RowOf(n)' = IF n = m THEN "none" ELSE RowOf(n)
      BY <2>1, <2>3 DEF TypeOK, RowOf
    <3>3. rows' = [rows EXCEPT ![m] = "none"]
      BY <3>2
    <3>4. stages' = [stages EXCEPT ![d] = "removed"]
      BY <1>1, <3>1
    <3>5. Registry!Removes(d)
      BY <1>1, <3>1, <3>3, <3>4 DEF Registry!Removes, Registry!Moves
    <3> QED  BY <3>5 DEF Registry!RegistryNext
  <2>4. CASE e # MetaEntry
    <3>1. meta' = meta /\ StageOf(d)' = StageOf(d)
      BY <2>1, <2>2, <2>4 DEF TypeOK, StageOf
    <3>2. rows' = rows
      BY <3>1 DEF RowOf
    <3>3. stages' = stages
      BY <1>1, <3>1
    <3> QED  BY <1>1, <3>2, <3>3 DEF Registry!registry
  <2> QED  BY <2>3, <2>4
<1>4. CASE DeleteEnds(d)
  <2>1. StageOf(d) = "removed" /\ StageOf(d)' = "ended" /\ meta' = meta
    BY <1>4 DEF TypeOK, DeleteEnds, StageOf
  <2>2. stages' = [stages EXCEPT ![d] = "ended"] /\ rows' = rows
    BY <1>1, <2>1 DEF RowOf
  <2>3. Registry!Ends(d)
    BY <1>1, <2>1, <2>2 DEF Registry!Ends, Registry!Moves
  <2> QED  BY <2>3 DEF Registry!RegistryNext
<1> QED  BY <1>2, <1>3, <1>4 DEF DeleteStep

\* Whatever jobs, deletes, failures and restarts interleave in the directories of
\* the models, everybody else sees the rows of a registry: a row comes as a
\* placeholder, gets ready from there and goes by a delete that has listed it.
THEOREM StoreImplementsRegistry == Spec => ImplementsRegistry
<1>1. Init => Registry!RegistryInit
  <2> SUFFICES ASSUME Init PROVE Registry!RegistryInit
    OBVIOUS
  <2>1. \A m \in Models : RowOf(m) = "none"
    BY DEF Init, RowOf
  <2>2. [d \in Deletes |-> StageOf(d)] = [d \in Deletes |-> "idle"]
    BY DEF Init, StageOf
  <2> QED  BY <2>1, <2>2 DEF Init, Registry!RegistryInit
<1>2. Init => RowsWereThere
  BY DEF Init, RowsWereThere, RowOrPast
<1>3. TypeOK /\ RowsWereThere /\ [Next]_vars => RowsWereThere'
  BY RowsWereThereHolds
<1>4. TypeOK /\ StagedAsPlanned /\ RowsWereThere /\ [Next]_vars
          => [Registry!RegistryNext]_(Registry!registry)
  <2> SUFFICES ASSUME TypeOK, StagedAsPlanned, RowsWereThere, [Next]_vars
               PROVE  Registry!RegistryNext \/ UNCHANGED Registry!registry
    OBVIOUS
  <2>1. ASSUME NEW j \in Jobs, WorkerStep(j) PROVE UNCHANGED Registry!registry
    BY <2>1, UnseenByRegistry DEF WorkerStep, Fetch, WorkerEnds, disk, delete
  <2>2. CASE Restart
    <3>1. UNCHANGED <<meta, victim>>
      BY <2>2 DEF Restart, disk
    <3>2. removal' = [d \in Deletes |-> IF removal[d] = "removing" THEN "lost" ELSE removal[d]]
      BY <2>2 DEF Restart
    <3>3. \A d \in Deletes :
              StageOf(d)' = IF StageOf(d) \in {"removing", "removed"} THEN "lost" ELSE StageOf(d)
      BY <3>2 DEF StageOf, TypeOK
    <3>4. Registry!CutOff
      BY <3>1, <3>3 DEF RowOf, Registry!CutOff
    <3> QED  BY <3>4 DEF Registry!RegistryNext
  <2>3. CASE UNCHANGED vars
    BY <2>3, UnseenByRegistry DEF vars, disk, delete
  <2> QED  BY <2>1, <2>2, <2>3, JobsUseRegistry, DeletesUseRegistry DEF Next, Served
<1>5. Spec => []StagedAsPlanned
  <2>1. ReadyInv => StagedAsPlanned
    BY DEF ReadyInv
  <2> QED  BY <2>1, ReadyInvariant, PTL
<1> QED  BY <1>1, <1>2, <1>3, <1>4, <1>5, TypeCorrect, PTL
         DEF Spec, ImplementsRegistry, Registry!RegistrySpec

-----------------------------------------------------------------------------
\* Moving the head of a queue to the end of what was seen changes nothing of
\* the two together.
LEMMA MoveHead ==
    ASSUME NEW S, NEW s \in Seq(S), NEW q \in Seq(S), q # <<>>
    PROVE  /\ Head(q) \in S /\ Tail(q) \in Seq(S)
           /\ Append(s, Head(q)) \o Tail(q) = s \o q
<1>1. Head(q) \in S /\ Tail(q) \in Seq(S) /\ Len(q) > 0 /\ Len(Tail(q)) = Len(q) - 1
  OBVIOUS
<1>2. \A i \in 1..Len(Tail(q)) : Tail(q)[i] = q[i+1]
  OBVIOUS
<1> DEFINE l == Append(s, Head(q)) \o Tail(q)
           r == s \o q
<1>3. l \in Seq(S) /\ r \in Seq(S) /\ Len(l) = Len(r) /\ Len(r) = Len(s) + Len(q)
  BY <1>1
<1>4. ASSUME NEW i \in 1..Len(r) PROVE l[i] = r[i]
  <2>1. CASE i \in 1..Len(s)
    BY <1>1, <2>1
  <2>2. CASE i = Len(s) + 1
    BY <1>1, <2>2
  <2>3. CASE i \in (Len(s) + 2)..Len(r)
    BY <1>1, <1>2, <1>3, <2>3
  <2> QED  BY <1>3, <2>1, <2>2, <2>3
<1>5. l = r
  BY <1>3, <1>4, SeqEqual
<1> QED  BY <1>1, <1>5

\* Putting an event in the queue puts it at the end of the two together.
LEMMA PutLast ==
    ASSUME NEW S, NEW s \in Seq(S), NEW q \in Seq(S), NEW e \in S
    PROVE  s \o Append(q, e) = Append(s \o q, e)
<1> DEFINE l == s \o Append(q, e)
           r == Append(s \o q, e)
<1>1. /\ s \o q \in Seq(S) /\ l \in Seq(S) /\ r \in Seq(S)
      /\ Len(l) = Len(s) + Len(q) + 1 /\ Len(r) = Len(s) + Len(q) + 1
  OBVIOUS
<1>2. ASSUME NEW i \in 1..Len(l) PROVE l[i] = r[i]
  <2>1. CASE i \in 1..Len(s)
    BY <1>1, <2>1
  <2>2. CASE i \in (Len(s) + 1)..(Len(s) + Len(q))
    BY <1>1, <2>2
  <2>3. CASE i = Len(s) + Len(q) + 1
    BY <1>1, <2>3
  <2> QED  BY <1>1, <2>1, <2>2, <2>3
<1>3. l = r
  BY <1>1, <1>2, SeqEqual
<1> QED  BY <1>1, <1>3

\* publish walks its subscribers for an event that it has taken up.
PublishingType == FeedTypeOK /\ (pending # {} => sent \in Events)

LEMMA PublishingTypeHolds ==
    ASSUME PublishingType, [FeedNext]_feedVars
    PROVE  PublishingType'
<1> USE FeedAssumption DEF PublishingType, FeedTypeOK
<1>1. CASE PublishBegins
  BY <1>1 DEF PublishBegins, Events
<1>2. ASSUME NEW b \in Browsers, PublishPuts(b) PROVE PublishingType'
  <2>1. CASE Len(queue[b]) < QueueMax
    <3>1. Append(queue[b], sent) \in Seq(Events)
      BY <1>2 DEF PublishPuts
    <3>2. queue' \in [Browsers -> Seq(Events)]
      BY <1>2, <2>1, <3>1 DEF PublishPuts
    <3> QED  BY <1>2, <2>1, <3>2 DEF PublishPuts
  <2>2. CASE ~(Len(queue[b]) < QueueMax)
    BY <1>2, <2>2 DEF PublishPuts, DropSubscriber
  <2> QED  BY <2>1, <2>2
<1>3. ASSUME NEW b \in Browsers, Connect(b) PROVE PublishingType'
  BY <1>3 DEF Connect
<1>4. ASSUME NEW b \in Browsers, StreamStep(b) PROVE PublishingType'
  <2>1. CASE Relay(b)
    <3>1. /\ queue[b] \in Seq(Events) /\ queue[b] # <<>>
          /\ seen[b] \in Seq(Events)
      BY <2>1 DEF Relay
    <3>2. Head(queue[b]) \in Events /\ Tail(queue[b]) \in Seq(Events)
      BY <3>1
    <3>3. Append(seen[b], Head(queue[b])) \in Seq(Events)
      BY <3>1, <3>2
    <3>4. PageAfter(Head(queue[b]), page[b]) \in {"progress", "reloaded", "failed"}
      BY DEF PageAfter
    <3>5. /\ queue' \in [Browsers -> Seq(Events)] /\ seen' \in [Browsers -> Seq(Events)]
          /\ page' \in [Browsers -> {"progress", "reloaded", "failed"}]
          /\ source' \in [Browsers -> {"unopened", "open", "closed"}]
      BY <2>1, <3>2, <3>3, <3>4 DEF Relay
    <3> QED  BY <2>1, <3>5 DEF Relay
  <2>2. CASE StreamEnds(b)
    BY <2>2 DEF StreamEnds, Unsubscribe
  <2>3. CASE Sleep(b) \/ Wake(b)
    BY <2>3 DEF Sleep, Wake
  <2> QED  BY <1>4, <2>1, <2>2, <2>3 DEF StreamStep
<1>5. ASSUME NEW b \in Browsers, Disconnect(b) PROVE PublishingType'
  BY <1>5 DEF Disconnect
<1>6. CASE UNCHANGED feedVars
  BY <1>6 DEF feedVars
<1> QED  BY <1>1, <1>2, <1>3, <1>4, <1>5, <1>6 DEF FeedNext, Publish, Over

LEMMA PublishingTypeCorrect == FeedSpec => []PublishingType
<1>1. FeedInit => PublishingType
  BY FeedAssumption DEF FeedInit, PublishingType, FeedTypeOK, Events
<1>2. PublishingType /\ [FeedNext]_feedVars => PublishingType'
  BY PublishingTypeHolds
<1> QED  BY <1>1, <1>2, PTL DEF FeedSpec

\* Every variable keeps to its type.
THEOREM FeedTypeCorrect == FeedSpec => []FeedTypeOK
BY PublishingTypeCorrect, PTL DEF PublishingType

-----------------------------------------------------------------------------
(* What a page is given *)

\* A page that has not been opened is unknown to the broker.
Unopened(b) ==
    source[b] = "unopened" =>
        seen[b] = <<>> /\ queue[b] = <<>> /\ b \notin subs \cup pending

InOrder(b) == \A i \in 1..Len(Given(b)) : Given(b)[i] = joined[b] + i

\* Who is subscribed, or still to be served by this walk of publish, has been
\* given all that is due.
UpToDate(b) == b \in subs \cup pending => joined[b] + Len(Given(b)) = Due(b)

FeedInv == \A b \in Browsers : Unopened(b) /\ InOrder(b) /\ UpToDate(b)

LEMMA FeedInvHolds ==
    ASSUME PublishingType, FeedInv, [FeedNext]_feedVars
    PROVE  FeedInv'
<1> USE FeedAssumption
<1> DEFINE Good(b) == Unopened(b) /\ InOrder(b) /\ UpToDate(b)
<1>1. CASE PublishBegins
  <2> SUFFICES ASSUME NEW b \in Browsers PROVE Good(b)'
    BY DEF FeedInv
  <2>1. Good(b)
    BY DEF FeedInv
  <2>2. /\ pending = {} /\ pending' = subs /\ sent' = sent + 1 /\ sent \in Nat
        /\ UNCHANGED <<subs, queue, source, seen, joined>>
    BY <1>1 DEF PublishBegins, PublishingType, FeedTypeOK
  <2>3. Unopened(b)' /\ InOrder(b)'
    BY <2>1, <2>2 DEF Unopened, InOrder, Given
  <2>4. UpToDate(b)'
    <3>1. Given(b)' = Given(b) /\ (b \in subs => Due(b)' = sent /\ Due(b) = sent)
      BY <2>2 DEF Given, Due
    <3> QED  BY <2>1, <2>2, <3>1 DEF UpToDate
  <2> QED  BY <2>3, <2>4
<1>2. ASSUME NEW c \in Browsers, PublishPuts(c) PROVE FeedInv'
  <2> SUFFICES ASSUME NEW b \in Browsers PROVE Good(b)'
    BY DEF FeedInv
  <2>1. Good(b)
    BY DEF FeedInv
  <2>2. /\ c \in pending /\ pending' = pending \ {c} /\ sent \in Nat \ {0}
        /\ subs' \subseteq subs /\ UNCHANGED <<sent, source, seen, joined>>
    BY <1>2 DEF PublishPuts, DropSubscriber, PublishingType, FeedTypeOK, Events
  <2>3. /\ seen[b] \in Seq(Events) /\ queue[b] \in Seq(Events) /\ joined[b] \in Nat
    BY DEF PublishingType, FeedTypeOK
  <2>4. CASE b # c
    <3>1. queue'[b] = queue[b] /\ (b \in subs' \cup pending' <=> b \in subs \cup pending)
      BY <1>2, <2>2, <2>4 DEF PublishPuts, DropSubscriber, PublishingType, FeedTypeOK
    <3>2. Given(b)' = Given(b) /\ Due(b)' = Due(b)
      BY <2>2, <2>4, <3>1 DEF Given, Due
    <3> QED  BY <2>1, <2>2, <3>1, <3>2 DEF Unopened, InOrder, UpToDate
  <2>5. CASE b = c /\ Len(queue[b]) < QueueMax
    <3>1. queue'[b] = Append(queue[b], sent) /\ subs' = subs
      BY <1>2, <2>5 DEF PublishPuts, PublishingType, FeedTypeOK
    <3>2. joined[b] + Len(Given(b)) = sent - 1
      BY <2>1, <2>2, <2>5 DEF UpToDate, Due
    <3>3. Given(b) \in Seq(Events) /\ Given(b)' = Append(Given(b), sent)
      <4>1. sent \in Events
        BY <2>2 DEF PublishingType
      <4>2. seen[b] \o queue[b] \in Seq(Events)
        BY <2>3
      <4>3. seen[b] \o Append(queue[b], sent) = Append(seen[b] \o queue[b], sent)
        <5>1. \A s, q \in Seq(Events) : s \o Append(q, sent) = Append(s \o q, sent)
          BY <4>1, PutLast
        <5> QED  BY <2>3, <5>1
      <4> QED  BY <2>2, <3>1, <4>2, <4>3 DEF Given
    <3>4. InOrder(b)'
      <4> SUFFICES ASSUME NEW i \in 1..(Len(Given(b)) + 1)
                   PROVE  Append(Given(b), sent)[i] = joined[b] + i
        BY <2>2, <3>3 DEF InOrder
      <4>1. CASE i \in 1..Len(Given(b))
        BY <2>1, <3>3, <4>1 DEF InOrder
      <4>2. CASE i = Len(Given(b)) + 1
        BY <2>2, <2>3, <3>2, <3>3, <4>2
      <4> QED  BY <3>3, <4>1, <4>2
    <3>5. UpToDate(b)'
      <4>1. Len(Given(b)') = Len(Given(b)) + 1 /\ Len(Given(b)) \in Nat
        BY <3>3
      <4>2. Due(b)' = sent
        BY <2>2, <2>5 DEF Due
      <4>3. joined'[b] + Len(Given(b)') = sent
        BY <2>2, <2>3, <3>2, <4>1
      <4> QED  BY <4>2, <4>3 DEF UpToDate
    <3>6. Unopened(b)'
      BY <2>1, <2>2, <2>5 DEF Unopened
    <3> QED  BY <3>4, <3>5, <3>6
  <2>6. CASE b = c /\ ~(Len(queue[b]) < QueueMax)
    <3>1. queue' = queue /\ subs' = subs \ {b}
      BY <1>2, <2>6 DEF PublishPuts, DropSubscriber
    <3> QED  BY <2>1, <2>2, <2>6, <3>1 DEF Unopened, InOrder, UpToDate, Given
  <2> QED  BY <2>4, <2>5, <2>6
<1>3. ASSUME NEW c \in Browsers, Connect(c) PROVE FeedInv'
  <2> SUFFICES ASSUME NEW b \in Browsers PROVE Good(b)'
    BY DEF FeedInv
  <2>1. Good(b)
    BY DEF FeedInv
  <2>2. /\ source[c] = "unopened" /\ source'[c] = "open" /\ joined'[c] = sent
        /\ subs' = subs \cup {c} /\ sent \in Nat
        /\ \A a \in Browsers \ {c} : source'[a] = source[a] /\ joined'[a] = joined[a]
        /\ UNCHANGED <<sent, pending, queue, seen>>
    BY <1>3 DEF Connect, PublishingType, FeedTypeOK
  <2>3. CASE b = c
    <3>1. Given(b) = <<>> /\ b \notin pending
      BY <2>1, <2>2, <2>3 DEF Unopened, Given
    <3> QED  BY <2>2, <2>3, <3>1 DEF Unopened, InOrder, UpToDate, Given, Due
  <2>4. CASE b # c
    BY <2>1, <2>2, <2>4 DEF Unopened, InOrder, UpToDate, Given, Due
  <2> QED  BY <2>3, <2>4
<1>4. ASSUME NEW c \in Browsers, StreamStep(c) PROVE FeedInv'
  <2> SUFFICES ASSUME NEW b \in Browsers PROVE Good(b)'
    BY DEF FeedInv
  <2>1. Good(b)
    BY DEF FeedInv
  <2>2. CASE Relay(c)
    <3>1. /\ source[c] = "open" /\ source'[c] # "unopened"
          /\ queue[c] # <<>> /\ queue'[c] = Tail(queue[c])
          /\ seen'[c] = Append(seen[c], Head(queue[c]))
          /\ \A a \in Browsers \ {c} :
                queue'[a] = queue[a] /\ seen'[a] = seen[a] /\ source'[a] = source[a]
          /\ UNCHANGED <<sent, pending, subs, joined>>
      BY <2>2 DEF Relay, PublishingType, FeedTypeOK
    <3>2. Given(b)' = Given(b)
      <4>1. CASE b = c
        <5>1. seen[b] \in Seq(Events) /\ queue[b] \in Seq(Events) /\ queue[b] # <<>>
          BY <3>1, <4>1 DEF PublishingType, FeedTypeOK
        <5>2. Append(seen[b], Head(queue[b])) \o Tail(queue[b]) = seen[b] \o queue[b]
          BY <5>1, MoveHead
        <5> QED  BY <3>1, <4>1, <5>2 DEF Given
      <4>2. CASE b # c
        BY <3>1, <4>2 DEF Given
      <4> QED  BY <4>1, <4>2
    <3>3. InOrder(b)' /\ UpToDate(b)'
      BY <2>1, <3>1, <3>2 DEF InOrder, UpToDate, Due
    <3>4. Unopened(b)'
      BY <2>1, <3>1 DEF Unopened
    <3> QED  BY <3>3, <3>4
  <2>3. CASE StreamEnds(c)
    BY <2>1, <2>3 DEF StreamEnds, Unsubscribe, Unopened, InOrder, UpToDate, Given, Due
  <2>4. CASE Sleep(c) \/ Wake(c)
    BY <2>1, <2>4 DEF Sleep, Wake, Unopened, InOrder, UpToDate, Given, Due
  <2> QED  BY <1>4, <2>2, <2>3, <2>4 DEF StreamStep
<1>5. ASSUME NEW c \in Browsers, Disconnect(c) PROVE FeedInv'
  BY <1>5 DEF Disconnect, FeedInv, Unopened, InOrder, UpToDate, Given, Due, PublishingType, FeedTypeOK
<1>6. CASE UNCHANGED feedVars
  BY <1>6 DEF feedVars, FeedInv, Unopened, InOrder, UpToDate, Given, Due
<1> QED  BY <1>1, <1>2, <1>3, <1>4, <1>5, <1>6 DEF FeedNext, Publish, Over

\* Whatever subscribes, unsubscribes or is dropped while publish walks its
\* copy of the subscribers, a page is given consecutive events from the one
\* after it subscribed, and while it is subscribed none is missing.
THEOREM NothingIsLost == FeedSpec => []NothingLost
<1>1. FeedInit => FeedInv
  <2> SUFFICES ASSUME FeedInit, NEW b \in Browsers
               PROVE  Unopened(b) /\ InOrder(b) /\ UpToDate(b)
    BY DEF FeedInv
  <2>1. <<>> \o <<>> = <<>> /\ Len(<<>>) = 0
    OBVIOUS
  <2>2. Given(b) = <<>>
    BY <2>1 DEF FeedInit, Given
  <2>3. InOrder(b)
    BY <2>1, <2>2 DEF InOrder
  <2> QED  BY <2>3 DEF FeedInit, Unopened, UpToDate
<1>2. PublishingType /\ FeedInv /\ [FeedNext]_feedVars => FeedInv'
  BY FeedInvHolds
<1>3. FeedInv => NothingLost
  BY DEF FeedInv, InOrder, UpToDate, NothingLost
<1> QED  BY <1>1, <1>2, <1>3, PublishingTypeCorrect, PTL DEF FeedSpec

-----------------------------------------------------------------------------
(* What a page may believe: the store and the feed of one job together *)

\* The feed is the one of job j: the last event is published once j has its outcome.
Carries(j) == sent = Last => event[j] = outcome

\* What a queue holds has been published, so a page that shows the end of the job,
\* or a failure that is not of its connection, has been told by the last event.
Told(b) ==
    /\ \A i \in 1..Len(queue[b]) : queue[b][i] <= sent
    /\ page[b] = "reloaded" => sent = Last /\ outcome = "done"
    /\ page[b] = "failed" => MayDisconnect \/ (sent = Last /\ outcome = "error")

ToldInv == \A b \in Browsers : Told(b)

LEMMA ToldHolds == ASSUME FeedTypeOK, ToldInv, [FeedNext]_feedVars PROVE ToldInv'
<1> USE FeedAssumption DEF FeedTypeOK, Events
<1>1. CASE PublishBegins
  BY <1>1 DEF PublishBegins, ToldInv, Told
<1>2. ASSUME NEW c \in Browsers, PublishPuts(c) PROVE ToldInv'
  <2> SUFFICES ASSUME NEW b \in Browsers PROVE Told(b)'
    BY DEF ToldInv
  <2>1. Told(b) /\ UNCHANGED <<sent, page, outcome>> /\ queue[b] \in Seq(Events)
    BY <1>2 DEF ToldInv, PublishPuts
  <2>2. CASE queue'[b] = queue[b]
    BY <2>1, <2>2 DEF Told
  <2>3. CASE queue'[b] = Append(queue[b], sent)
    <3>1. \A i \in 1..Len(Append(queue[b], sent)) : Append(queue[b], sent)[i] <= sent
      BY <2>1 DEF Told
    <3> QED  BY <2>1, <2>3, <3>1 DEF Told
  <2> QED  BY <1>2, <2>2, <2>3 DEF PublishPuts, DropSubscriber
<1>3. ASSUME NEW c \in Browsers, Connect(c) \/ StreamEnds(c) \/ Sleep(c) \/ Wake(c)
      PROVE  ToldInv'
  BY <1>3 DEF Connect, StreamEnds, Sleep, Wake, ToldInv, Told
<1>4. ASSUME NEW c \in Browsers, Relay(c) PROVE ToldInv'
  <2> SUFFICES ASSUME NEW b \in Browsers PROVE Told(b)'
    BY DEF ToldInv
  <2>1. Told(b) /\ UNCHANGED <<sent, outcome>> /\ queue[b] \in Seq(Events)
    BY <1>4 DEF ToldInv, Relay
  <2>2. CASE b # c
    BY <1>4, <2>1, <2>2 DEF Relay, Told
  <2>3. CASE b = c
    <3>1. /\ queue[b] # <<>> /\ queue'[b] = Tail(queue[b])
          /\ page'[b] = PageAfter(Head(queue[b]), page[b])
      BY <1>4, <2>3 DEF Relay
    <3>2. \A i \in 1..Len(Tail(queue[b])) : Tail(queue[b])[i] <= sent
      BY <2>1, <3>1 DEF Told
    <3>3. Head(queue[b]) <= sent /\ Head(queue[b]) \in Events
      BY <2>1, <3>1 DEF Told
    <3>4. Head(queue[b]) = Last => sent = Last
      BY <3>3
    <3>5. page'[b] = page[b] \/ (Head(queue[b]) = Last
                                /\ page'[b] = IF outcome = "done" THEN "reloaded" ELSE "failed")
      BY <3>1 DEF PageAfter
    <3>6. \A i \in 1..Len(queue'[b]) : queue'[b][i] <= sent'
      BY <2>1, <3>1, <3>2
    <3> QED  BY <2>1, <3>4, <3>5, <3>6 DEF Told
  <2> QED  BY <2>2, <2>3
<1>5. ASSUME NEW c \in Browsers, Disconnect(c) PROVE ToldInv'
  BY <1>5 DEF Disconnect, ToldInv, Told
<1>6. CASE UNCHANGED feedVars
  BY <1>6 DEF feedVars, ToldInv, Told
<1> QED  BY <1>1, <1>2, <1>3, <1>4, <1>5, <1>6 DEF FeedNext, Publish, StreamStep, Over

LEMMA ToldInvariant == FeedSpec => []ToldInv
<1>1. FeedInit => ToldInv
  BY DEF FeedInit, ToldInv, Told
<1>2. FeedTypeOK /\ ToldInv /\ [FeedNext]_feedVars => ToldInv'
  BY ToldHolds
<1> QED  BY <1>1, <1>2, FeedTypeCorrect, PTL DEF FeedSpec

\* Only a delete that has begun disturbs a model.
DisturbersBegan ==
    \A m \in disturbed : \E d \in Deletes : victim[d] = m /\ removal[d] # "idle"

LEMMA DisturbersInvariant == Spec => []DisturbersBegan
<1>1. Init => DisturbersBegan
  BY DEF Init, DisturbersBegan
<1>2. TypeOK /\ DisturbersBegan /\ [Next]_vars => DisturbersBegan'
  <2> SUFFICES ASSUME TypeOK, DisturbersBegan, [Next]_vars PROVE DisturbersBegan'
    OBVIOUS
  <2> USE DEF TypeOK, disk, job, delete, ghost
  <2>1. ASSUME NEW j \in Jobs, JobStep(j) \/ WorkerStep(j) PROVE DisturbersBegan'
    <3>1. disturbed' \subseteq disturbed /\ UNCHANGED <<victim, removal>>
      BY <2>1 DEF JobStep, Start, Committed, CommitRaises, Plan, PlanRaises, PollBreaks, Join,
                  Check, WorkerStep, Fetch, WorkerEnds
    <3> QED  BY <3>1 DEF DisturbersBegan
  <2>2. ASSUME NEW d \in Deletes, DeleteStep(d) PROVE DisturbersBegan'
    BY <2>2 DEF DeleteStep, DeleteBegins, Unlink, DeleteEnds, DisturbersBegan
  <2>3. CASE Restart
    <3>1. /\ UNCHANGED <<victim, disturbed>>
          /\ \A d \in Deletes : removal[d] # "idle" => removal'[d] # "idle"
      BY <2>3 DEF Restart
    <3> QED  BY <3>1 DEF DisturbersBegan
  <2>4. CASE UNCHANGED vars
    BY <2>4 DEF vars, DisturbersBegan
  <2> QED  BY <2>1, <2>2, <2>3, <2>4 DEF Next, Served
<1> QED  BY <1>1, <1>2, TypeCorrect, PTL DEF Spec

\* A page that follows j and reloads finds the model ready, with no more bytes
\* claimed than are on disk and whole unless the worker ended short; one that
\* shows a failure finds the error, unless its connection may have been cut: as
\* long as no other request touches the model.
PageTellsTheTruth(j) ==
    \A b \in Browsers :
        Lone(j) =>
            /\ page[b] = "reloaded" =>
                  /\ meta[target[j]].status = "ready"
                  /\ meta[target[j]].size <= DirSize(target[j])
                  /\ target[j] \in short \/ files[target[j]] = Parts[target[j]]
            /\ page[b] = "failed" /\ ~MayDisconnect => meta[target[j]].status = "error"

\* From the directory on the share to what download.js shows: whatever other jobs,
\* pages, full queues, restarts and the mount do, the page of a job that is alone
\* with its model does not announce what the registry does not say.
THEOREM PagesTellTheTruth ==
    ASSUME NEW j \in Jobs
    PROVE  Spec /\ FeedSpec /\ []Carries(j) => []PageTellsTheTruth(j)
<1>1. /\ TypeOK /\ LoneJobToldTheTruth /\ ReadyIsComplete /\ DisturbersBegan
      /\ ToldInv /\ Carries(j)
      => PageTellsTheTruth(j)
  <2> SUFFICES ASSUME TypeOK, LoneJobToldTheTruth, ReadyIsComplete, DisturbersBegan, ToldInv,
                      Carries(j), NEW b \in Browsers, Lone(j)
               PROVE  /\ page[b] = "reloaded" =>
                            /\ meta[target[j]].status = "ready"
                            /\ meta[target[j]].size <= DirSize(target[j])
                            /\ target[j] \in short \/ files[target[j]] = Parts[target[j]]
                      /\ page[b] = "failed" /\ ~MayDisconnect =>
                            meta[target[j]].status = "error"
    BY DEF PageTellsTheTruth
  <2>1. event[j] # "none" =>
            meta[target[j]].status = (IF event[j] = "done" THEN "ready" ELSE "error")
    BY DEF Lone, LoneJobToldTheTruth
  <2>2. target[j] \in Models \ disturbed
    BY DEF TypeOK, Lone, DisturbersBegan
  <2>3. page[b] = "reloaded" => event[j] = "done"
    BY DEF ToldInv, Told, Carries
  <2>4. page[b] = "failed" /\ ~MayDisconnect => event[j] = "error"
    BY DEF ToldInv, Told, Carries
  <2> QED  BY <2>1, <2>2, <2>3, <2>4 DEF ReadyIsComplete
<1> QED  BY <1>1, TypeCorrect, LoneJobsTellTheTruth, ReadyRowsAreComplete, DisturbersInvariant,
            ToldInvariant, PTL
=============================================================================
