-------------------------- MODULE CascadeMergeProofs ---------------------------
(***************************************************************************)
(* Theorems about CascadeMerge, for any children, dependency table,        *)
(* number of runs, faults and bounds.                                      *)
(***************************************************************************)
EXTENDS CascadeMerge, TLAPS

--------------------------------------------------------------------------------
(* Types.                                                                  *)

LEMMA LockedUpdateType ==
    ASSUME NEW pr \in MetaRow, NEW status \in MetaStatus, NEW v
    PROVE  LockedUpdate(pr, status, v) \in MetaRow
BY DEF LockedUpdate, HoldsLock, MetaRow

LEMMA UpdatedChildType ==
    ASSUME NEW child \in ChildRow, NEW status \in ChildStatus, NEW sha \in Sha
    PROVE  UpdatedChild(child, status, sha) \in ChildRow
BY DEF UpdatedChild, ChildRow

LEMMA IdleType == Idle \in Exec
BY DEF Idle, Exec, PC, MetaStatus, NoRow, ChildRow, ChildStatus, Sha, JobState

LEMMA BecomeType ==
    ASSUME TypeOK, NEW w \in Worker, NEW e \in Exec, Become(w, e)
    PROVE  exec' \in [Worker -> Exec]
BY DEF TypeOK, Become

LEMMA GotoType ==
    ASSUME TypeOK, NEW w \in Worker, NEW pc \in PC, Goto(w, pc)
    PROVE  exec' \in [Worker -> Exec]
<1>1. exec[w] \in Exec
  BY DEF TypeOK
<1>2. [exec[w] EXCEPT !.pc = pc] \in Exec
  BY <1>1 DEF Exec
<1> QED
  BY <1>2, BecomeType DEF Goto

LEMMA SetJobType ==
    ASSUME TypeOK, NEW w \in Worker, NEW c \in Child, NEW state \in JobState,
           SetJob(w, c, state)
    PROVE  exec' \in [Worker -> Exec]
<1>1. exec[w] \in Exec
  BY DEF TypeOK
<1>2. [exec[w] EXCEPT !.job[c] = state] \in Exec
  BY <1>1 DEF Exec
<1> QED
  BY <1>2, BecomeType DEF SetJob

LEMMA ReturnType ==
    ASSUME TypeOK, NEW w \in Worker, Return(w)
    PROVE  exec' \in [Worker -> Exec]
BY IdleType, BecomeType DEF Return

LEMMA GraphNodesType ==
    ASSUME NEW rows \in [Child -> ChildRow]
    PROVE  /\ CascadeEdges \subseteq Child \X Child
           /\ GraphNodes(Known(rows), CascadeEdges) \subseteq Child
BY DepAssumption DEF GraphNodes, Known, CascadeEdges

LEMMA AlignedType ==
    ASSUME TypeOK, NEW w, NEW S, NEW U
    PROVE  Aligned(w, S, U) \in [Child -> PointerValue]
BY DEF TypeOK, Aligned, UpdateCommit, MainHead, PointerValue

\* The locals of a run stay typed.
LEMMA ExecStepType ==
    ASSUME TypeOK, NEW w \in Worker, ExecuteCascadeMerge(w)
    PROVE  exec' \in [Worker -> Exec]
<1>1. exec[w] \in Exec
  BY DEF TypeOK
<1>2. CASE FetchMeta(w)
  <2>1. meta.lock \in Nat /\ meta.status \in MetaStatus
    BY DEF TypeOK, MetaRow
  <2>2. [exec[w] EXCEPT !.pc = "children", !.lock = meta.lock,
                        !.seen = meta.status] \in Exec
    BY <1>1, <2>1 DEF Exec, PC
  <2> QED
    BY <1>2, <2>2, BecomeType DEF FetchMeta
<1>3. CASE FetchChildren(w)
  <2>1. [exec[w] EXCEPT !.pc = "lock", !.snap = row] \in Exec
    BY <1>1 DEF Exec, PC, TypeOK
  <2> QED
    BY <1>3, <2>1, BecomeType DEF FetchChildren
<1>4. CASE AcquireLock(w)
  <2> DEFINE taken == exec[w].lock + 1
  <2>1. taken \in Nat /\ "MERGING" \in MetaStatus
    BY <1>1 DEF Exec, MetaStatus
  <2>2. [exec[w] EXCEPT !.pc = "plan", !.lock = taken,
                        !.seen = "MERGING"] \in Exec
    <3> HIDE DEF taken
    <3> QED
      BY <1>1, <2>1 DEF Exec, PC
  <2> QED
    BY <1>4, <2>2, BecomeType, ReturnType DEF AcquireLock
<1>5. CASE PlanBatches(w)
  <2>1. exec[w].snap \in [Child -> ChildRow]
    BY <1>1 DEF Exec
  <2> DEFINE nodes == GraphNodes(Known(exec[w].snap), CascadeEdges)
  <2>2. CascadeEdges \subseteq Child \X Child /\ nodes \subseteq Child
    BY <2>1, GraphNodesType
  <2>3. [exec[w] EXCEPT !.pc = "batch", !.edges = CascadeEdges,
                        !.todo = nodes] \in Exec
    BY <1>1, <2>2 DEF Exec, PC
  <2> QED
    BY <1>5, <2>3, BecomeType, ReturnType DEF PlanBatches
<1>6. CASE StartBatch(w)
  <2> DEFINE next == ReadyBatch(exec[w].todo, exec[w].edges)
             jobs == [c \in Child |->
                         IF c \in next /\ exec[w].snap[c].status # "MERGED"
                         THEN "mark" ELSE "none"]
  <2>1. next \subseteq Child
    BY <1>1 DEF Exec, ReadyBatch
  <2>2. jobs \in [Child -> JobState]
    BY DEF JobState
  <2>3. [exec[w] EXCEPT !.pc = "merging", !.batch = next, !.job = jobs] \in Exec
    <3> HIDE DEF next, jobs
    <3> QED
      BY <1>1, <2>1, <2>2 DEF Exec, PC
  <2> QED
    BY <1>6, <2>3, BecomeType DEF StartBatch
<1>7. CASE EndBatch(w)
  <2>1. [exec[w] EXCEPT !.pc = "batch", !.todo = @ \ exec[w].batch,
                        !.batch = {}] \in Exec
    BY <1>1 DEF Exec, PC
  <2>2. "halt" \in PC
    BY DEF PC
  <2> QED
    BY <1>7, <2>1, <2>2, BecomeType, GotoType DEF EndBatch
<1>8. ASSUME NEW c \in Child,
             MarkMerging(w, c) \/ MergeOk(w, c) \/ MergeLost(w, c)
                \/ MergeError(w, c) \/ RecordMerged(w, c) \/ RecordFailed(w, c)
      PROVE  exec' \in [Worker -> Exec]
  BY <1>8, SetJobType
     DEF MarkMerging, MergeOk, MergeLost, MergeError, RecordMerged,
         RecordFailed, JobState
<1>9. CASE Resume(w) \/ BatchesDone(w) \/ AlignPointers(w) \/ AlignError(w)
             \/ RootOk(w) \/ RootLost(w) \/ RootError(w)
  BY <1>9, GotoType
     DEF Resume, BatchesDone, AlignPointers, AlignError, RootOk, RootLost,
         RootError, PC
<1>10. CASE Finish(w) \/ Halt(w)
  BY <1>10, ReturnType DEF Finish, Halt
<1> QED
  BY <1>2, <1>3, <1>4, <1>5, <1>6, <1>7, <1>8, <1>9, <1>10
     DEF ExecuteCascadeMerge

\* So do the tables and what the host holds.
LEMMA SharedStepType ==
    ASSUME TypeOK, NEW w \in Worker, ExecuteCascadeMerge(w)
    PROVE  /\ meta' \in MetaRow
           /\ row' \in [Child -> ChildRow]
           /\ host' \in [Child -> PRState]
           /\ root' \in PRState
           /\ pointer' \in [Child -> PointerValue]
           /\ crashes' = crashes
<1>1. exec[w] \in Exec
  BY DEF TypeOK
<1>2. CASE AcquireLock(w) \/ PlanBatches(w) \/ Finish(w) \/ Halt(w)
  BY <1>2, LockedUpdateType
     DEF AcquireLock, PlanBatches, Finish, Halt, TypeOK, MetaStatus
<1>3. ASSUME NEW c \in Child, NEW status \in ChildStatus, NEW sha \in Sha,
             row' \in ChildWrite(c, status, sha)
      PROVE  row' \in [Child -> ChildRow]
  <2>1. UpdatedChild(row[c], status, sha) \in ChildRow
    BY UpdatedChildType DEF TypeOK
  <2> QED
    BY <1>3, <2>1 DEF ChildWrite, TypeOK
<1>4. ASSUME NEW c \in Child,
             MarkMerging(w, c) \/ RecordMerged(w, c) \/ RecordFailed(w, c)
      PROVE  row' \in [Child -> ChildRow]
  <2>1. exec[w].snap[c].sha \in Sha
    BY <1>1 DEF Exec, ChildRow
  <2>2. {"MERGING", "MERGED", "FAILED"} \subseteq ChildStatus
           /\ {"merge", "none"} \subseteq Sha
    BY DEF ChildStatus, Sha
  <2> QED
    BY <1>3, <1>4, <2>1, <2>2
       DEF MarkMerging, RecordMerged, RecordFailed, TypeOK
<1>5. ASSUME NEW c \in Child, MergeOk(w, c) \/ MergeLost(w, c)
      PROVE  host' \in [Child -> PRState]
  BY <1>5 DEF MergeOk, MergeLost, TypeOK, PRState
<1>6. CASE AlignPointers(w) \/ AlignError(w)
  BY <1>6, AlignedType DEF AlignPointers, AlignError, TypeOK
<1>7. CASE RootOk(w) \/ RootLost(w)
  BY <1>7 DEF RootOk, RootLost, TypeOK, PRState
<1> QED
  BY <1>2, <1>4, <1>5, <1>6, <1>7
     DEF TypeOK, ExecuteCascadeMerge, FetchMeta, FetchChildren, Resume,
         StartBatch, MarkMerging, MergeOk, MergeLost, MergeError, RecordMerged,
         RecordFailed, EndBatch, BatchesDone, RootError

LEMMA StepType ==
    ASSUME TypeOK, [Next]_vars
    PROVE  TypeOK'
<1>1. ASSUME NEW w \in Worker, ExecuteCascadeMerge(w)
      PROVE  TypeOK'
  BY <1>1, ExecStepType, SharedStepType DEF TypeOK
<1>2. ASSUME NEW w \in Loop, ReconcileAllPending(w)
      PROVE  TypeOK'
  BY <1>2, GotoType DEF ReconcileAllPending, Worker, PC, TypeOK
<1>3. ASSUME NEW w \in Request, RetryMerge(w)
      PROVE  TypeOK'
  BY <1>3, GotoType, LockedUpdateType
     DEF RetryMerge, Worker, PC, MetaStatus, TypeOK
<1>4. ASSUME NEW w \in Worker, Crash(w)
      PROVE  TypeOK'
  BY <1>4, ReturnType, BoundAssumption DEF Crash, TypeOK
<1>5. ASSUME NEW c \in Child, MergedByHand(c)
      PROVE  TypeOK'
  BY <1>5 DEF MergedByHand, PRState, TypeOK
<1>6. CASE UNCHANGED vars
  BY <1>6 DEF vars, TypeOK
<1> QED
  BY <1>1, <1>2, <1>3, <1>4, <1>5, <1>6 DEF Next

\* Every reachable state is typed.
THEOREM TypeCorrect == Spec => []TypeOK
<1>1. Init => TypeOK
  BY IdleType, BoundAssumption
     DEF Init, TypeOK, MetaRow, MetaStatus, ChildRow, ChildStatus, Sha, NoRow,
         PRState, PointerValue
<1>2. TypeOK /\ [Next]_vars => TypeOK'
  BY StepType
<1> QED
  BY <1>1, <1>2, PTL DEF Spec

--------------------------------------------------------------------------------
(* The inductive invariant.                                                *)

\* What no step takes back, so that a run may rely on it between its steps:
\* merged stays merged, the members stay the members, and a change of the Meta
\* PR's row bumps its lock_version.
Monotone ==
    /\ \A c \in Child : Merged(c) => Merged(c)'
    /\ Members' = Members
    /\ root = "merged" => root' = "merged"
    /\ meta' = meta \/ meta'.lock = meta.lock + 1

LEMMA BecomeOnly ==
    ASSUME TypeOK, NEW w \in Worker, NEW e, Become(w, e)
    PROVE  exec'[w] = e /\ \A v \in Worker \ {w} : exec'[v] = exec[v]
BY DEF TypeOK, Become

\* A step of another run changes no locals of this one.
LEMMA OtherRuns ==
    ASSUME TypeOK, NEW w \in Worker, ExecuteCascadeMerge(w)
    PROVE  \A v \in Worker \ {w} : exec'[v] = exec[v]
BY BecomeOnly
   DEF ExecuteCascadeMerge, FetchMeta, FetchChildren, Resume, AcquireLock,
       PlanBatches, StartBatch, MarkMerging, MergeOk, MergeLost, MergeError,
       RecordMerged, RecordFailed, EndBatch, BatchesDone, AlignPointers,
       AlignError, RootOk, RootLost, RootError, Finish, Halt, Goto, SetJob,
       Return

LEMMA LockedUpdateBumps ==
    ASSUME NEW pr \in MetaRow, NEW status, NEW v
    PROVE  \/ LockedUpdate(pr, status, v) = pr
           \/ LockedUpdate(pr, status, v).lock = pr.lock + 1
BY DEF LockedUpdate

LEMMA RunStepMonotone ==
    ASSUME TypeOK, NEW w \in Worker, ExecuteCascadeMerge(w)
    PROVE  Monotone
<1> USE DEF Monotone, Members, Merged
<1>1. CASE AcquireLock(w) \/ PlanBatches(w) \/ Finish(w) \/ Halt(w)
  BY <1>1, LockedUpdateBumps
     DEF AcquireLock, PlanBatches, Finish, Halt, TypeOK
<1>2. ASSUME NEW c \in Child, NEW status \in ChildStatus \ {"NONE"},
             NEW sha \in Sha, row' \in ChildWrite(c, status, sha)
      PROVE  Known(row') = Known(row)
  <2>1. CASE row' = row
    BY <2>1
  <2>2. CASE row' = [row EXCEPT ![c] = UpdatedChild(row[c], status, sha)]
    BY <2>2 DEF TypeOK, Known, UpdatedChild
  <2> QED
    BY <1>2, <2>1, <2>2 DEF ChildWrite
<1>3. ASSUME NEW c \in Child,
             MarkMerging(w, c) \/ RecordMerged(w, c) \/ RecordFailed(w, c)
      PROVE  Monotone
  <2>1. exec[w].snap[c].sha \in Sha
    BY DEF TypeOK, Exec, ChildRow
  <2>2. {"MERGING", "MERGED", "FAILED"} \subseteq ChildStatus \ {"NONE"}
           /\ {"merge", "none"} \subseteq Sha
    BY DEF ChildStatus, Sha
  <2>3. Known(row') = Known(row)
    BY <1>2, <1>3, <2>1, <2>2 DEF MarkMerging, RecordMerged, RecordFailed
  <2>4. UNCHANGED <<meta, host, root>>
    BY <1>3 DEF MarkMerging, RecordMerged, RecordFailed
  <2> QED
    BY <2>3, <2>4
<1>4. ASSUME NEW c \in Child, MergeOk(w, c) \/ MergeLost(w, c)
      PROVE  Monotone
  BY <1>4 DEF MergeOk, MergeLost, TypeOK
<1>5. CASE RootOk(w) \/ RootLost(w)
  BY <1>5 DEF RootOk, RootLost
<1> QED
  BY <1>1, <1>3, <1>4, <1>5
     DEF ExecuteCascadeMerge, FetchMeta, FetchChildren, Resume, StartBatch,
         MergeError, EndBatch, BatchesDone, AlignPointers, AlignError, RootError

LEMMA StepMonotone ==
    ASSUME TypeOK, [Next]_vars
    PROVE  Monotone
<1>1. ASSUME NEW w \in Request, RetryMerge(w)
      PROVE  Monotone
  BY <1>1, LockedUpdateBumps
     DEF RetryMerge, TypeOK, Monotone, Members, Merged
<1>2. ASSUME NEW c \in Child, MergedByHand(c)
      PROVE  Monotone
  BY <1>2 DEF MergedByHand, TypeOK, Monotone, Members, Merged
<1> QED
  BY <1>1, <1>2, RunStepMonotone
     DEF Next, vars, ReconcileAllPending, Crash, Monotone, Members, Merged

\* A run keeps its part of the invariant while it does not step itself.
LEMMA RunInvStable ==
    ASSUME TypeOK, Monotone, NEW v \in Worker, RunInv(v), exec'[v] = exec[v]
    PROVE  RunInv(v)'
<1>1. CascadeEdges' = CascadeEdges
  BY DEF Monotone, Members, CascadeEdges
<1>2. SnapshotHonest(v)'
  BY DEF RunInv, SnapshotHonest, Monotone, BeforeSnapshot
<1>3. LockMeansMerging(v)'
  <2>1. exec[v].lock \in Nat /\ meta.lock \in Nat
    BY DEF TypeOK, Exec, MetaRow
  <2> QED
    BY <2>1 DEF RunInv, LockMeansMerging, Monotone, BeforeLock
<1>4. JobsHonest(v)'
  BY DEF RunInv, JobsHonest, Monotone
<1>5. BatchesHonest(v)'
  <2>1. exec[v].batch \subseteq Child
    BY DEF TypeOK, Exec
  <2>2. GraphNodes(Members, CascadeEdges) \subseteq Child
    BY DepAssumption DEF TypeOK, GraphNodes, Members, Known, CascadeEdges
  <2> QED
    BY <1>1, <2>1, <2>2 DEF RunInv, BatchesHonest, Monotone
<1>6. RootHonest(v)'
  <2>1. Members \subseteq Child
    BY DEF TypeOK, Members, Known
  <2> QED
    BY <2>1 DEF RunInv, RootHonest, Monotone
<1> QED
  BY <1>2, <1>3, <1>4, <1>5, <1>6 DEF RunInv


\* What a step of a run does to its locals.
LEMMA GotoFields ==
    ASSUME TypeOK, NEW w \in Worker, NEW pc, Goto(w, pc)
    PROVE  /\ exec'[w].pc = pc
           /\ exec'[w].lock = exec[w].lock
           /\ exec'[w].seen = exec[w].seen
           /\ exec'[w].snap = exec[w].snap
           /\ exec'[w].edges = exec[w].edges
           /\ exec'[w].todo = exec[w].todo
           /\ exec'[w].batch = exec[w].batch
           /\ exec'[w].job = exec[w].job
<1>1. exec[w] \in Exec
  BY DEF TypeOK
<1>2. exec'[w] = [exec[w] EXCEPT !.pc = pc]
  BY BecomeOnly DEF Goto
<1> QED
  BY <1>1, <1>2 DEF Exec

LEMMA SetJobFields ==
    ASSUME TypeOK, NEW w \in Worker, NEW c \in Child, NEW state,
           SetJob(w, c, state)
    PROVE  /\ exec'[w].pc = exec[w].pc
           /\ exec'[w].lock = exec[w].lock
           /\ exec'[w].seen = exec[w].seen
           /\ exec'[w].snap = exec[w].snap
           /\ exec'[w].edges = exec[w].edges
           /\ exec'[w].todo = exec[w].todo
           /\ exec'[w].batch = exec[w].batch
           /\ exec'[w].job = [exec[w].job EXCEPT ![c] = state]
<1>1. exec[w] \in Exec
  BY DEF TypeOK
<1>2. exec'[w] = [exec[w] EXCEPT !.job[c] = state]
  BY BecomeOnly DEF SetJob
<1> QED
  BY <1>1, <1>2 DEF Exec

\* A run that has returned owes nothing.
LEMMA ReturnInv ==
    ASSUME TypeOK, NEW w \in Worker, Return(w)
    PROVE  RunInv(w)'
<1>1. exec'[w] = Idle
  BY BecomeOnly DEF Return
<1>2. Idle.pc = "idle" /\ \A c \in Child : Idle.job[c] = "none"
  BY DEF Idle
<1> QED
  BY <1>1, <1>2
     DEF RunInv, SnapshotHonest, LockMeansMerging, JobsHonest, BatchesHonest,
         RootHonest, BeforeSnapshot, BeforeLock

\* A step to another program counter, when no child is being merged.
LEMMA GotoInv ==
    ASSUME TypeOK, Monotone, NEW w \in Worker, RunInv(w), NEW pc, Goto(w, pc),
           \A c \in Child : exec[w].job[c] \notin {"mark", "call", "ok", "err"},
           \/ pc = "fetch"
           \/ pc = "plan" /\ exec[w].pc = "lock" /\ exec[w].seen = "MERGING"
           \/ pc = "halt" /\ ~ BeforeLock(w)
           \/ pc = "align" /\ ~ BeforeLock(w) /\ \A c \in Members : Merged(c)
           \/ pc = "root" /\ exec[w].pc = "align"
           \/ pc = "finish" /\ exec[w].pc = "root" /\ root' = "merged"
    PROVE  RunInv(w)'
<1>1. exec[w] \in Exec /\ meta.lock \in Nat /\ Members \subseteq Child
  BY DEF TypeOK, MetaRow, Members, Known
<1>2. exec[w].lock \in Nat
  BY <1>1 DEF Exec
<1>3. SnapshotHonest(w)'
  BY GotoFields
     DEF RunInv, SnapshotHonest, Monotone, BeforeSnapshot, BeforeLock
<1>4. LockMeansMerging(w)'
  BY <1>1, <1>2, GotoFields DEF RunInv, LockMeansMerging, Monotone, BeforeLock
<1>5. JobsHonest(w)'
  BY GotoFields DEF JobsHonest
<1>6. BatchesHonest(w)'
  BY GotoFields DEF BatchesHonest
<1>7. RootHonest(w)'
  BY <1>1, GotoFields DEF RunInv, RootHonest, Monotone
<1> QED
  BY <1>3, <1>4, <1>5, <1>6, <1>7 DEF RunInv


\* The reads.
LEMMA FetchInv ==
    ASSUME TypeOK, CascadeInv, Monotone, NEW w \in Worker,
           FetchMeta(w) \/ FetchChildren(w)
    PROVE  RunInv(w)'
<1>1. exec[w] \in Exec /\ meta \in MetaRow /\ row' = row /\ host' = host
         /\ meta' = meta
  BY DEF TypeOK, FetchMeta, FetchChildren
<1>2. RunInv(w) /\ RecordsAreTrue
  BY DEF CascadeInv
<1>3. CASE FetchMeta(w)
  <2>1. exec'[w] = [exec[w] EXCEPT !.pc = "children", !.lock = meta.lock,
                                   !.seen = meta.status]
    BY <1>3, BecomeOnly DEF FetchMeta
  <2>2. /\ exec'[w].pc = "children"
        /\ exec'[w].lock = meta.lock
        /\ exec'[w].seen = meta.status
        /\ exec'[w].job = exec[w].job
    BY <1>1, <2>1 DEF Exec
  <2>3. \A c \in Child : exec'[w].job[c] \notin {"mark", "call", "ok", "err"}
    BY <1>2, <1>3, <2>2 DEF FetchMeta, RunInv, JobsHonest
  <2>4. LockMeansMerging(w)'
    BY <1>1, <2>2 DEF LockMeansMerging, BeforeLock, MetaRow
  <2> QED
    BY <2>2, <2>3, <2>4
       DEF RunInv, SnapshotHonest, JobsHonest, BatchesHonest, RootHonest,
           BeforeSnapshot
<1>4. CASE FetchChildren(w)
  <2>1. exec'[w] = [exec[w] EXCEPT !.pc = "lock", !.snap = row]
    BY <1>4, BecomeOnly DEF FetchChildren
  <2>2. /\ exec'[w].pc = "lock"
        /\ exec'[w].lock = exec[w].lock
        /\ exec'[w].seen = exec[w].seen
        /\ exec'[w].snap = row
        /\ exec'[w].job = exec[w].job
    BY <1>1, <2>1 DEF Exec
  <2>3. \A c \in Child : exec'[w].job[c] \notin {"mark", "call", "ok", "err"}
    BY <1>2, <1>4, <2>2 DEF FetchChildren, RunInv, JobsHonest
  <2>4. LockMeansMerging(w)'
    BY <1>1, <1>2, <1>4, <2>2
       DEF FetchChildren, RunInv, LockMeansMerging, BeforeLock
  <2>5. SnapshotHonest(w)'
    BY <1>1, <1>2, <2>2 DEF SnapshotHonest, RecordsAreTrue, Members, Merged
  <2> QED
    BY <2>2, <2>3, <2>4, <2>5
       DEF RunInv, JobsHonest, BatchesHonest, RootHonest
<1> QED
  BY <1>3, <1>4

LEMMA AcquireLockInv ==
    ASSUME TypeOK, Monotone, NEW w \in Worker, RunInv(w), AcquireLock(w)
    PROVE  RunInv(w)'
<1>1. exec[w] \in Exec /\ meta \in MetaRow /\ row' = row /\ host' = host
  BY DEF TypeOK, AcquireLock
<1>2. CASE ~ HoldsLock(meta, exec[w].lock)
  BY <1>2, ReturnInv DEF AcquireLock
<1>3. CASE HoldsLock(meta, exec[w].lock)
  <2> DEFINE taken == exec[w].lock + 1
  <2>1. exec'[w] = [exec[w] EXCEPT !.pc = "plan", !.lock = taken,
                                   !.seen = "MERGING"]
    BY <1>3, BecomeOnly DEF AcquireLock
  <2>2. meta' = [status |-> "MERGING", lock |-> taken] /\ taken \in Nat
    BY <1>1, <1>3 DEF AcquireLock, LockedUpdate, HoldsLock, Exec
  <2> HIDE DEF taken
  <2>3. /\ exec'[w].pc = "plan"
        /\ exec'[w].lock = taken
        /\ exec'[w].snap = exec[w].snap
        /\ exec'[w].job = exec[w].job
    BY <1>1, <2>1 DEF Exec
  <2>4. \A c \in Child : exec'[w].job[c] \notin {"mark", "call", "ok", "err"}
    BY <2>3 DEF AcquireLock, RunInv, JobsHonest
  <2>5. LockMeansMerging(w)'
    BY <2>2, <2>3 DEF LockMeansMerging, BeforeLock
  <2>6. SnapshotHonest(w)'
    BY <1>1, <2>3
       DEF AcquireLock, RunInv, SnapshotHonest, BeforeSnapshot, Members, Merged
  <2> QED
    BY <2>3, <2>4, <2>5, <2>6 DEF RunInv, JobsHonest, BatchesHonest, RootHonest
<1> QED
  BY <1>2, <1>3

LEMMA PlanBatchesInv ==
    ASSUME TypeOK, Monotone, NEW w \in Worker, RunInv(w), PlanBatches(w)
    PROVE  RunInv(w)'
<1> DEFINE nodes == GraphNodes(Known(exec[w].snap), CascadeEdges)
<1>1. exec[w] \in Exec /\ row' = row /\ host' = host
  BY DEF TypeOK, PlanBatches
<1>2. CASE ~ Acyclic(nodes, CascadeEdges)
  BY <1>2, ReturnInv DEF PlanBatches
<1>3. CASE Acyclic(nodes, CascadeEdges)
  <2>1. exec'[w] = [exec[w] EXCEPT !.pc = "batch", !.edges = CascadeEdges,
                                   !.todo = nodes] /\ meta' = meta
    BY <1>3, BecomeOnly DEF PlanBatches
  <2>2. nodes = GraphNodes(Members, CascadeEdges)
    BY DEF PlanBatches, RunInv, SnapshotHonest, BeforeSnapshot
  <2> HIDE DEF nodes
  <2>3. /\ exec'[w].pc = "batch"
        /\ exec'[w].lock = exec[w].lock
        /\ exec'[w].snap = exec[w].snap
        /\ exec'[w].edges = CascadeEdges
        /\ exec'[w].todo = nodes
        /\ exec'[w].job = exec[w].job
    BY <1>1, <2>1 DEF Exec
  <2>4. \A c \in Child : exec'[w].job[c] \notin {"mark", "call", "ok", "err"}
    BY <2>3 DEF PlanBatches, RunInv, JobsHonest
  <2>5. LockMeansMerging(w)'
    BY <2>1, <2>3 DEF PlanBatches, RunInv, LockMeansMerging, BeforeLock
  <2>6. SnapshotHonest(w)'
    BY <1>1, <2>3
       DEF PlanBatches, RunInv, SnapshotHonest, BeforeSnapshot, Members, Merged
  <2>7. BatchesHonest(w)'
    BY <1>1, <2>2, <2>3 DEF BatchesHonest, Members, CascadeEdges
  <2> QED
    BY <2>3, <2>4, <2>5, <2>6, <2>7 DEF RunInv, JobsHonest, RootHonest
<1> QED
  BY <1>2, <1>3


LEMMA StartBatchInv ==
    ASSUME TypeOK, NEW w \in Worker, RunInv(w), StartBatch(w)
    PROVE  RunInv(w)'
<1> DEFINE next == ReadyBatch(exec[w].todo, exec[w].edges)
           jobs == [c \in Child |->
                       IF c \in next /\ exec[w].snap[c].status # "MERGED"
                       THEN "mark" ELSE "none"]
<1>1. exec[w] \in Exec /\ UNCHANGED <<meta, row, host, root>>
  BY DEF TypeOK, StartBatch
<1>2. exec'[w] = [exec[w] EXCEPT !.pc = "merging", !.batch = next, !.job = jobs]
  BY BecomeOnly DEF StartBatch
<1>3. /\ next \subseteq Child
      /\ next \subseteq exec[w].todo
      /\ \A c \in next : DependsOn(c, exec[w].edges) \cap exec[w].todo = {}
  BY <1>1 DEF ReadyBatch, Exec
<1> HIDE DEF next
<1>4. \A c \in Child : /\ jobs[c] \in {"mark", "none"}
                       /\ jobs[c] = "mark" => c \in next
                       /\ jobs[c] = "none" /\ c \in next =>
                             exec[w].snap[c].status = "MERGED"
  OBVIOUS
<1> HIDE DEF jobs
<1>5. /\ exec'[w].pc = "merging"
      /\ exec'[w].lock = exec[w].lock
      /\ exec'[w].snap = exec[w].snap
      /\ exec'[w].edges = exec[w].edges
      /\ exec'[w].todo = exec[w].todo
      /\ exec'[w].batch = next
      /\ exec'[w].job = jobs
  BY <1>1, <1>2 DEF Exec
<1>6. SnapshotHonest(w)'
  BY <1>1, <1>5
     DEF StartBatch, RunInv, SnapshotHonest, BeforeSnapshot, Members, Merged
<1>7. LockMeansMerging(w)'
  BY <1>1, <1>5 DEF StartBatch, RunInv, LockMeansMerging, BeforeLock
<1>8. JobsHonest(w)'
  BY <1>4, <1>5 DEF JobsHonest
<1>9. BatchesHonest(w)'
  <2>1. \A c \in next : jobs[c] = "none" => Merged(c)
    BY <1>3, <1>4 DEF StartBatch, RunInv, SnapshotHonest, BeforeSnapshot
  <2>2. exec[w].edges = CascadeEdges
    BY DEF StartBatch, RunInv, BatchesHonest
  <2>3. CascadeEdges' = CascadeEdges /\ Members' = Members
    BY <1>1 DEF CascadeEdges, Members
  <2> QED
    BY <1>1, <1>3, <1>5, <2>1, <2>2, <2>3
       DEF StartBatch, RunInv, BatchesHonest, Merged
<1>10. RootHonest(w)'
  BY <1>5 DEF RootHonest
<1> QED
  BY <1>6, <1>7, <1>8, <1>9, <1>10 DEF RunInv

LEMMA EndBatchInv ==
    ASSUME TypeOK, Monotone, NEW w \in Worker, RunInv(w), EndBatch(w)
    PROVE  RunInv(w)'
<1>1. exec[w] \in Exec /\ UNCHANGED <<meta, row, host, root>>
  BY DEF TypeOK, EndBatch
<1>2. \A c \in Child : exec[w].job[c] \in {"none", "failed"}
  BY DEF EndBatch
<1>3. CASE \E c \in Child : exec[w].job[c] = "failed"
  <2>1. Goto(w, "halt") /\ ~ BeforeLock(w)
    BY <1>3 DEF EndBatch, BeforeLock
  <2> QED
    BY <1>2, <2>1, GotoInv
<1>4. CASE ~ \E c \in Child : exec[w].job[c] = "failed"
  <2>1. exec'[w] = [exec[w] EXCEPT !.pc = "batch",
                                   !.todo = exec[w].todo \ exec[w].batch,
                                   !.batch = {}]
    BY <1>4, BecomeOnly DEF EndBatch
  <2>2. /\ exec'[w].pc = "batch"
        /\ exec'[w].lock = exec[w].lock
        /\ exec'[w].snap = exec[w].snap
        /\ exec'[w].edges = exec[w].edges
        /\ exec'[w].todo = exec[w].todo \ exec[w].batch
        /\ exec'[w].job = exec[w].job
    BY <1>1, <2>1 DEF Exec
  <2>3. SnapshotHonest(w)'
    BY <1>1, <2>2
       DEF EndBatch, RunInv, SnapshotHonest, BeforeSnapshot, Members, Merged
  <2>4. LockMeansMerging(w)'
    BY <1>1, <2>2 DEF EndBatch, RunInv, LockMeansMerging, BeforeLock
  <2>5. JobsHonest(w)'
    BY <1>2, <2>2 DEF JobsHonest
  <2>6. BatchesHonest(w)'
    <3>1. exec[w].batch \subseteq Child
      BY <1>1 DEF Exec
    <3>2. \A c \in exec[w].batch : Merged(c)
      BY <1>2, <1>4, <3>1 DEF EndBatch, RunInv, BatchesHonest
    <3>3. CascadeEdges' = CascadeEdges /\ Members' = Members
      BY <1>1 DEF CascadeEdges, Members
    <3>4. exec[w].edges = CascadeEdges
            /\ \A c \in GraphNodes(Members, CascadeEdges) \ exec[w].todo :
                  Merged(c)
      BY DEF EndBatch, RunInv, BatchesHonest
    <3> QED
      BY <1>1, <2>2, <3>2, <3>3, <3>4 DEF BatchesHonest, Merged
  <2>7. RootHonest(w)'
    BY <2>2 DEF RootHonest
  <2> QED
    BY <2>3, <2>4, <2>5, <2>6, <2>7 DEF RunInv
<1> QED
  BY <1>3, <1>4

\* A goroutine of the batch, or the recording of its result.
JobStep(w, c) ==
    MarkMerging(w, c) \/ MergeOk(w, c) \/ MergeLost(w, c) \/ MergeError(w, c)
       \/ RecordMerged(w, c) \/ RecordFailed(w, c)

LEMMA JobStepInv ==
    ASSUME TypeOK, Monotone, NEW w \in Worker, RunInv(w), NEW c \in Child,
           JobStep(w, c)
    PROVE  RunInv(w)'
<1> USE DEF JobStep, MarkMerging, MergeOk, MergeLost, MergeError, RecordMerged,
            RecordFailed
<1>1. exec[w] \in Exec /\ meta' = meta /\ root' = root
  BY DEF TypeOK
<1>2. PICK state \in JobState :
         /\ SetJob(w, c, state)
         /\ state = "none" => exec[w].job[c] = "ok"
         /\ state \in {"mark", "call", "ok", "err"} =>
               exec[w].job[c] \in {"mark", "call"}
         /\ state = "ok" => Merged(c)'
  <2>1. {"call", "ok", "err", "none", "failed"} \subseteq JobState
    BY DEF JobState
  <2>2. CASE MarkMerging(w, c)
    BY <2>1, <2>2
  <2>3. CASE MergeOk(w, c)
    <3>1. Merged(c)'
      BY <2>3 DEF Merged, TypeOK
    <3> QED
      BY <2>1, <2>3, <3>1
  <2>4. CASE MergeLost(w, c) \/ MergeError(w, c)
    BY <2>1, <2>4
  <2>5. CASE RecordMerged(w, c)
    BY <2>1, <2>5
  <2>6. CASE RecordFailed(w, c)
    BY <2>1, <2>6
  <2> QED
    BY <2>2, <2>3, <2>4, <2>5, <2>6
<1>3. exec[w].job[c] \in {"mark", "call", "ok", "err"}
  OBVIOUS
<1>4. exec[w].pc = "merging" /\ c \in exec[w].batch
  BY <1>3 DEF RunInv, JobsHonest
<1> DEFINE jobs == [exec[w].job EXCEPT ![c] = state]
<1>5. /\ exec'[w].pc = exec[w].pc
      /\ exec'[w].lock = exec[w].lock
      /\ exec'[w].snap = exec[w].snap
      /\ exec'[w].edges = exec[w].edges
      /\ exec'[w].todo = exec[w].todo
      /\ exec'[w].batch = exec[w].batch
      /\ exec'[w].job = jobs
  BY <1>2, SetJobFields
<1>6. jobs[c] = state /\ \A d \in Child \ {c} : jobs[d] = exec[w].job[d]
  BY <1>1 DEF Exec
<1> HIDE DEF jobs, JobStep, MarkMerging, MergeOk, MergeLost, MergeError,
             RecordMerged, RecordFailed
<1>7. SnapshotHonest(w)'
  BY <1>5 DEF RunInv, SnapshotHonest, BeforeSnapshot, Monotone
<1>8. LockMeansMerging(w)'
  BY <1>1, <1>4, <1>5 DEF RunInv, LockMeansMerging, BeforeLock
<1>9. JobsHonest(w)'
  BY <1>2, <1>4, <1>5, <1>6 DEF RunInv, JobsHonest, Monotone
<1>10. BatchesHonest(w)'
  <2>1. CascadeEdges' = CascadeEdges /\ Members' = Members
    BY DEF CascadeEdges, Monotone, Members
  <2>2. exec[w].batch \subseteq Child
           /\ GraphNodes(Members, CascadeEdges) \subseteq Child
    BY <1>1, DepAssumption
       DEF Exec, TypeOK, GraphNodes, Members, Known, CascadeEdges
  <2>3. state = "none" => Merged(c)
    BY <1>2 DEF RunInv, JobsHonest
  <2>4. \A d \in exec[w].batch : jobs[d] = "none" => Merged(d)
    BY <1>4, <1>6, <2>2, <2>3 DEF RunInv, BatchesHonest
  <2> QED
    BY <1>4, <1>5, <2>1, <2>2, <2>4 DEF RunInv, BatchesHonest, Monotone
<1>11. RootHonest(w)'
  BY <1>4, <1>5 DEF RootHonest
<1> QED
  BY <1>7, <1>8, <1>9, <1>10, <1>11 DEF RunInv


\* A run keeps its own part of the invariant.
LEMMA OwnStepInv ==
    ASSUME TypeOK, CascadeInv, Monotone, NEW w \in Worker,
           ExecuteCascadeMerge(w)
    PROVE  RunInv(w)'
<1>1. RunInv(w)
  BY DEF CascadeInv
<1>2. exec[w].pc # "merging" =>
         \A c \in Child : exec[w].job[c] \notin {"mark", "call", "ok", "err"}
  BY <1>1 DEF RunInv, JobsHonest
<1>3. CASE Resume(w)
  BY <1>1, <1>2, <1>3, GotoInv DEF Resume
<1>4. CASE BatchesDone(w)
  <2>1. Members \subseteq GraphNodes(Members, CascadeEdges) \ exec[w].todo
    BY <1>4 DEF BatchesDone, GraphNodes
  <2>2. \A c \in Members : Merged(c)
    BY <1>1, <1>4, <2>1 DEF BatchesDone, RunInv, BatchesHonest
  <2> QED
    BY <1>1, <1>2, <1>4, <2>2, GotoInv DEF BatchesDone, BeforeLock
<1>5. CASE AlignPointers(w) \/ AlignError(w) \/ RootOk(w) \/ RootLost(w)
             \/ RootError(w)
  BY <1>1, <1>2, <1>5, GotoInv
     DEF AlignPointers, AlignError, RootOk, RootLost, RootError, BeforeLock
<1>6. CASE Finish(w) \/ Halt(w)
  BY <1>6, ReturnInv DEF Finish, Halt
<1> QED
  BY <1>1, <1>3, <1>4, <1>5, <1>6, FetchInv, AcquireLockInv, PlanBatchesInv,
     StartBatchInv, EndBatchInv, JobStepInv
     DEF ExecuteCascadeMerge, JobStep

\* The root pull request and the tables, after a step of a run.
LEMMA RunStepShared ==
    ASSUME TypeOK, CascadeInv, Monotone, NEW w \in Worker,
           ExecuteCascadeMerge(w)
    PROVE  RootAfterChildren' /\ RecordsAreTrue'
<1>1. RunInv(w) /\ RootAfterChildren /\ RecordsAreTrue
  BY DEF CascadeInv
<1>2. Members \subseteq Child
  BY DEF TypeOK, Members, Known
<1>3. root' = root \/ \A c \in Members : Merged(c)
  BY <1>1
     DEF RunInv, RootHonest, ExecuteCascadeMerge, FetchMeta, FetchChildren,
         Resume, AcquireLock, PlanBatches, StartBatch, MarkMerging, MergeOk,
         MergeLost, MergeError, RecordMerged, RecordFailed, EndBatch,
         BatchesDone, AlignPointers, AlignError, RootOk, RootLost, RootError,
         Finish, Halt
<1>4. RootAfterChildren'
  BY <1>1, <1>2, <1>3 DEF RootAfterChildren, Monotone
<1>5. ASSUME NEW c \in Child, row'[c].status = "MERGED"
      PROVE  row[c].status = "MERGED" \/ Merged(c)
  <2>1. ASSUME NEW d \in Child, MarkMerging(w, d)
        PROVE  row[c].status = "MERGED"
    BY <1>5, <2>1 DEF MarkMerging, ChildWrite, UpdatedChild, TypeOK
  <2>2. ASSUME NEW d \in Child, RecordFailed(w, d)
        PROVE  row[c].status = "MERGED"
    BY <1>5, <2>2 DEF RecordFailed, ChildWrite, UpdatedChild, TypeOK
  <2>3. ASSUME NEW d \in Child, RecordMerged(w, d)
        PROVE  row[c].status = "MERGED" \/ Merged(c)
    <3>1. Merged(d)
      BY <1>1, <2>3 DEF RecordMerged, RunInv, JobsHonest
    <3>2. c # d => row'[c] = row[c]
      BY <2>3 DEF RecordMerged, ChildWrite, TypeOK
    <3> QED
      BY <1>5, <3>1, <3>2
  <2>4. CASE row' = row
    BY <1>5, <2>4
  <2> QED
    BY <2>1, <2>2, <2>3, <2>4
       DEF ExecuteCascadeMerge, FetchMeta, FetchChildren, Resume, AcquireLock,
           PlanBatches, StartBatch, MergeOk, MergeLost, MergeError, EndBatch,
           BatchesDone, AlignPointers, AlignError, RootOk, RootLost, RootError,
           Finish, Halt
<1>6. meta'.status = "MERGED" => meta.status = "MERGED" \/ root = "merged"
  BY <1>1
     DEF RunInv, RootHonest, LockedUpdate, ExecuteCascadeMerge, FetchMeta,
         FetchChildren, Resume, AcquireLock, PlanBatches, StartBatch,
         MarkMerging, MergeOk, MergeLost, MergeError, RecordMerged,
         RecordFailed, EndBatch, BatchesDone, AlignPointers, AlignError,
         RootOk, RootLost, RootError, Finish, Halt
<1>7. RecordsAreTrue'
  BY <1>1, <1>5, <1>6 DEF RecordsAreTrue, Monotone
<1> QED
  BY <1>4, <1>7

LEMMA StepInv ==
    ASSUME TypeOK, CascadeInv, [Next]_vars
    PROVE  CascadeInv'
<1>1. Monotone
  BY StepMonotone
<1>2. \A v \in Worker : exec'[v] = exec[v] => RunInv(v)'
  BY <1>1, RunInvStable DEF CascadeInv
<1>3. RootAfterChildren /\ RecordsAreTrue /\ Members \subseteq Child
  BY DEF CascadeInv, TypeOK, Members, Known
<1>4. UNCHANGED <<row, root>>
         /\ (meta' = meta \/ meta'.status = "MERGING") =>
      RootAfterChildren' /\ RecordsAreTrue'
  BY <1>1, <1>3 DEF RootAfterChildren, RecordsAreTrue, Monotone
<1>5. ASSUME NEW w \in Worker, ExecuteCascadeMerge(w)
      PROVE  CascadeInv'
  <2>1. RunInv(w)' /\ RootAfterChildren' /\ RecordsAreTrue'
    BY <1>1, <1>5, OwnStepInv, RunStepShared
  <2> QED
    BY <1>2, <1>5, <2>1, OtherRuns DEF CascadeInv
<1>6. ASSUME NEW w \in Loop, ReconcileAllPending(w)
      PROVE  CascadeInv'
  <2>1. w \in Worker /\ RunInv(w)
    BY DEF Worker, CascadeInv
  <2>2. RunInv(w)'
    BY <1>1, <1>6, <2>1, GotoInv DEF ReconcileAllPending, RunInv, JobsHonest
  <2>3. \A v \in Worker \ {w} : exec'[v] = exec[v]
    BY <1>6, <2>1, BecomeOnly DEF ReconcileAllPending, Goto
  <2> QED
    BY <1>2, <1>4, <1>6, <2>2, <2>3 DEF ReconcileAllPending, CascadeInv
<1>7. ASSUME NEW w \in Request, RetryMerge(w)
      PROVE  CascadeInv'
  <2>1. w \in Worker /\ RunInv(w)
    BY DEF Worker, CascadeInv
  <2>2. RunInv(w)'
    BY <1>1, <1>7, <2>1, GotoInv DEF RetryMerge, RunInv, JobsHonest
  <2>3. \A v \in Worker \ {w} : exec'[v] = exec[v]
    BY <1>7, <2>1, BecomeOnly DEF RetryMerge, Goto
  <2>4. meta'.status = "MERGING" \/ meta' = meta
    BY <1>7 DEF RetryMerge, LockedUpdate
  <2> QED
    BY <1>2, <1>4, <1>7, <2>2, <2>3, <2>4 DEF RetryMerge, CascadeInv
<1>8. ASSUME NEW w \in Worker, Crash(w)
      PROVE  CascadeInv'
  <2>1. RunInv(w)'
    BY <1>8, ReturnInv DEF Crash
  <2>2. \A v \in Worker \ {w} : exec'[v] = exec[v]
    BY <1>8, BecomeOnly DEF Crash, Return
  <2> QED
    BY <1>2, <1>4, <1>8, <2>1, <2>2 DEF Crash, CascadeInv
<1>9. CASE UNCHANGED vars \/ \E c \in Child : MergedByHand(c)
  BY <1>2, <1>4, <1>9 DEF vars, MergedByHand, CascadeInv
<1> QED
  BY <1>5, <1>6, <1>7, <1>8, <1>9 DEF Next

LEMMA InitInv ==
    ASSUME Init
    PROVE  CascadeInv
<1>1. \A w \in Worker : exec[w].pc = "idle"
                          /\ \A c \in Child : exec[w].job[c] = "none"
  BY DEF Init, Idle
<1>2. \A c \in Child : row[c].status # "MERGED"
  BY DEF Init, NoRow
<1> QED
  BY <1>1, <1>2
     DEF Init, CascadeInv, RootAfterChildren, RecordsAreTrue, RunInv,
         SnapshotHonest, LockMeansMerging, JobsHonest, BatchesHonest,
         RootHonest, BeforeSnapshot, BeforeLock

\* What every run may rely on holds in every reachable state, whatever the
\* number of runs, their crashes and the faults of the host.
THEOREM CascadeInvariant == Spec => [](TypeOK /\ CascadeInv)
<1>1. Init => CascadeInv
  BY InitInv
<1>2. TypeOK /\ CascadeInv /\ [Next]_vars => CascadeInv'
  BY StepInv
<1> QED
  BY <1>1, <1>2, TypeCorrect, PTL DEF Spec

\* The root pull request is merged only after every child of the Meta PR.
THEOREM RootMergedLast == Spec => []RootAfterChildren
<1>1. CascadeInv => RootAfterChildren
  BY DEF CascadeInv
<1> QED
  BY <1>1, CascadeInvariant, PTL

\* What the tables call MERGED is merged on the host.
THEOREM RecordsTrue == Spec => []RecordsAreTrue
<1>1. CascadeInv => RecordsAreTrue
  BY DEF CascadeInv
<1> QED
  BY <1>1, CascadeInvariant, PTL


--------------------------------------------------------------------------------
(* What the steps never do.                                                *)

\* A run that still holds the lock_version writes over MERGING only.
LEMMA StepLeavesOutcome ==
    ASSUME TypeOK, CascadeInv, [Next]_vars, meta'.status # meta.status
    PROVE  meta.status = "MERGING" \/ meta'.status = "MERGING"
<1>1. ASSUME NEW w \in Worker, PlanBatches(w) \/ Finish(w) \/ Halt(w)
      PROVE  meta.status = "MERGING"
  <2>1. HoldsLock(meta, exec[w].lock)
    BY <1>1 DEF PlanBatches, Finish, Halt, LockedUpdate
  <2> QED
    BY <1>1, <2>1
       DEF PlanBatches, Finish, Halt, HoldsLock, CascadeInv, RunInv,
           LockMeansMerging, BeforeLock
<1>2. ASSUME NEW w, AcquireLock(w) \/ RetryMerge(w)
      PROVE  meta'.status = "MERGING"
  BY <1>2 DEF AcquireLock, RetryMerge, LockedUpdate
<1>3. CASE \E w \in Worker : ExecuteCascadeMerge(w)
  BY <1>1, <1>2, <1>3
     DEF ExecuteCascadeMerge, FetchMeta, FetchChildren, Resume, StartBatch,
         MarkMerging, MergeOk, MergeLost, MergeError, RecordMerged,
         RecordFailed, EndBatch, BatchesDone, AlignPointers, AlignError,
         RootOk, RootLost, RootError
<1>4. CASE \E w \in Request : RetryMerge(w)
  BY <1>2, <1>4
<1> QED
  BY <1>3, <1>4 DEF Next, vars, ReconcileAllPending, Crash, MergedByHand

\* No late run overwrites one outcome of the cascade with another.
THEOREM OutcomesAreKept == Spec => OutcomeLeftByLockOnly
<1>1. TypeOK /\ CascadeInv /\ [Next]_vars =>
         [meta'.status # meta.status =>
             meta.status = "MERGING" \/ meta'.status = "MERGING"]_vars
  BY StepLeavesOutcome
<1> QED
  BY <1>1, CascadeInvariant, PTL DEF Spec, OutcomeLeftByLockOnly

\* The engine merges a member, when what the member depends on is merged.
LEMMA EngineMergesInOrder ==
    ASSUME TypeOK, CascadeInv, NEW w \in Worker, NEW c \in Child,
           MergeOk(w, c) \/ MergeLost(w, c)
    PROVE  /\ c \in Members
           /\ \A d \in DependsOn(c, Dep) : Merged(d)
<1>1. RunInv(w) /\ exec[w].job[c] = "call" /\ c \in Known(exec[w].snap)
  BY DEF CascadeInv, MergeOk, MergeLost
<1>2. exec[w].pc = "merging" /\ c \in exec[w].batch
  BY <1>1 DEF RunInv, JobsHonest
<1>3. c \in Members
  BY <1>1, <1>2 DEF RunInv, SnapshotHonest, BeforeSnapshot
<1>4. ASSUME NEW d \in DependsOn(c, Dep)
      PROVE  Merged(d)
  <2>1. PICK e \in CascadeEdges : e[1] = c /\ e[2] = d
    BY <1>3 DEF DependsOn, CascadeEdges, Members
  <2>2. d \in GraphNodes(Members, CascadeEdges)
          /\ d \in DependsOn(c, CascadeEdges)
    BY <2>1 DEF GraphNodes, DependsOn
  <2> QED
    BY <1>1, <1>2, <2>2 DEF RunInv, BatchesHonest
<1> QED
  BY <1>3, <1>4

\* Only two steps of a run merge a child.
LEMMA HostSteps ==
    ASSUME [Next]_vars
    PROVE  \/ host' = host
           \/ \E w \in Worker, c \in Child : MergeOk(w, c) \/ MergeLost(w, c)
           \/ \E c \in Child : MergedByHand(c)
<1>1. ASSUME NEW w \in Worker, ExecuteCascadeMerge(w),
             ~ \E c \in Child : MergeOk(w, c) \/ MergeLost(w, c)
      PROVE  host' = host
  BY <1>1
     DEF ExecuteCascadeMerge, FetchMeta, FetchChildren, Resume, AcquireLock,
         PlanBatches, StartBatch, MarkMerging, MergeError, RecordMerged,
         RecordFailed, EndBatch, BatchesDone, AlignPointers, AlignError,
         RootOk, RootLost, RootError, Finish, Halt
<1>2. ASSUME NEW w,
             ReconcileAllPending(w) \/ RetryMerge(w) \/ Crash(w)
      PROVE  host' = host
  BY <1>2 DEF ReconcileAllPending, RetryMerge, Crash
<1> QED
  BY <1>1, <1>2 DEF Next, vars

LEMMA StepInOrder ==
    ASSUME TypeOK, CascadeInv, [Next]_vars, NEW c \in Child,
           host'[c] # host[c], exec' # exec
    PROVE  \A d \in DependsOn(c, Dep) : Merged(d)
<1>1. ~ \E d \in Child : MergedByHand(d)
  BY DEF MergedByHand
<1>2. PICK w \in Worker, d \in Child : MergeOk(w, d) \/ MergeLost(w, d)
  BY <1>1, HostSteps
<1>3. c = d
  BY <1>2 DEF MergeOk, MergeLost, TypeOK
<1> QED
  BY <1>2, <1>3, EngineMergesInOrder

\* A child the engine merges waits for no unmerged child.
THEOREM DependenciesFirst == Spec => DependencyOrder
<1>1. TypeOK /\ CascadeInv /\ [Next]_vars =>
         [\A c \in Child :
             host'[c] # host[c] /\ exec' # exec =>
                 \A d \in DependsOn(c, Dep) : Merged(d)]_vars
  BY StepInOrder
<1> QED
  BY <1>1, CascadeInvariant, PTL DEF Spec, DependencyOrder

\* Only two steps of a run merge the root pull request.
LEMMA RootSteps ==
    ASSUME [Next]_vars, root' # root
    PROVE  \E w \in Worker : RootOk(w) \/ RootLost(w)
<1>1. PICK w \in Worker : ExecuteCascadeMerge(w)
  BY DEF Next, vars, ReconcileAllPending, RetryMerge, Crash, MergedByHand
<1> QED
  BY <1>1
     DEF ExecuteCascadeMerge, FetchMeta, FetchChildren, Resume, AcquireLock,
         PlanBatches, StartBatch, MarkMerging, MergeOk, MergeLost, MergeError,
         RecordMerged, RecordFailed, EndBatch, BatchesDone, AlignPointers,
         AlignError, RootError, Finish, Halt

--------------------------------------------------------------------------------
(* A cycle among the dependencies.                                         *)

Cyclic == ~ Acyclic(GraphNodes(Members, CascadeEdges), CascadeEdges)

\* No run gets past its plan, so none has merged or failed to merge anything.
CycleInv ==
    Cyclic =>
        /\ \A w \in Worker :
              exec[w].pc \in {"idle", "fetch", "children", "lock", "plan"}
        /\ \A c \in Child \ Manual : ~ Merged(c)
        /\ root = "open"
        /\ meta.status \in {"OPEN", "MERGING", "FAILED"}

\* A run that is not past its plan has no goroutine at work.
LEMMA NoJobYet ==
    ASSUME CascadeInv, NEW w \in Worker, exec[w].pc # "merging", NEW c \in Child
    PROVE  exec[w].job[c] \notin {"mark", "call", "ok", "err"}
BY DEF CascadeInv, RunInv, JobsHonest

\* Where a run can be after a step of it that starts before the batches.
LEMMA EarlyStep ==
    ASSUME TypeOK, CascadeInv, Cyclic, NEW w \in Worker,
           exec[w].pc \in {"idle", "fetch", "children", "lock", "plan"},
           ExecuteCascadeMerge(w)
    PROVE  /\ exec'[w].pc \in {"idle", "fetch", "children", "lock", "plan"}
           /\ UNCHANGED <<host, root>>
           /\ meta' = meta \/ meta'.status \in {"MERGING", "FAILED"}
<1>1. exec[w] \in Exec
  BY DEF TypeOK
<1>2. CASE FetchMeta(w)
  <2>1. exec'[w] = [exec[w] EXCEPT !.pc = "children", !.lock = meta.lock,
                                   !.seen = meta.status]
    BY <1>2, BecomeOnly DEF FetchMeta
  <2>2. exec'[w].pc = "children"
    BY <1>1, <2>1 DEF Exec
  <2> QED
    BY <1>2, <2>2 DEF FetchMeta
<1>3. CASE FetchChildren(w)
  <2>1. exec'[w] = [exec[w] EXCEPT !.pc = "lock", !.snap = row]
    BY <1>3, BecomeOnly DEF FetchChildren
  <2>2. exec'[w].pc = "lock"
    BY <1>1, <2>1 DEF Exec
  <2> QED
    BY <1>3, <2>2 DEF FetchChildren
<1>4. CASE Resume(w)
  BY <1>4, GotoFields DEF Resume
<1>5. CASE AcquireLock(w)
  <2> DEFINE taken == exec[w].lock + 1
  <2>1. exec'[w] = Idle \/ exec'[w] = [exec[w] EXCEPT !.pc = "plan", !.lock = taken,
                                                     !.seen = "MERGING"]
    BY <1>5, BecomeOnly DEF AcquireLock, Return
  <2> HIDE DEF taken
  <2>2. exec'[w].pc \in {"idle", "plan"}
    <3>1. CASE exec'[w] = Idle
      BY <3>1 DEF Idle
    <3>2. CASE exec'[w] = [exec[w] EXCEPT !.pc = "plan", !.lock = taken,
                                          !.seen = "MERGING"]
      BY <1>1, <3>2 DEF Exec
    <3> QED
      BY <2>1, <3>1, <3>2
  <2>3. meta' = meta \/ meta'.status = "MERGING"
    BY <1>5 DEF AcquireLock, LockedUpdate
  <2> QED
    BY <1>5, <2>2, <2>3 DEF AcquireLock
<1>6. CASE PlanBatches(w)
  <2>1. Known(exec[w].snap) = Members
    BY <1>6 DEF PlanBatches, CascadeInv, RunInv, SnapshotHonest, BeforeSnapshot
  <2>2. Return(w) /\ meta' = LockedUpdate(meta, "FAILED", exec[w].lock)
    BY <1>6, <2>1 DEF PlanBatches, Cyclic
  <2>3. exec'[w] = Idle
    BY <2>2, BecomeOnly DEF Return
  <2>4. meta' = meta \/ meta'.status = "FAILED"
    BY <2>2 DEF LockedUpdate
  <2> QED
    BY <1>6, <2>3, <2>4 DEF PlanBatches, Idle
<1> QED
  BY <1>2, <1>3, <1>4, <1>5, <1>6, NoJobYet
     DEF ExecuteCascadeMerge, StartBatch, MarkMerging, MergeOk, MergeLost,
         MergeError, RecordMerged, RecordFailed, EndBatch, BatchesDone,
         AlignPointers, AlignError, RootOk, RootLost, RootError, Finish, Halt

LEMMA StepCycle ==
    ASSUME TypeOK, CascadeInv, CycleInv, [Next]_vars
    PROVE  CycleInv'
<1>1. Members' = Members
  BY StepMonotone DEF Monotone
<1>2. Cyclic' = Cyclic
  BY <1>1 DEF Cyclic, CascadeEdges, Members
<1> SUFFICES ASSUME Cyclic PROVE CycleInv'
  BY <1>2 DEF CycleInv
<1> DEFINE Early(p) == p \in {"idle", "fetch", "children", "lock", "plan"}
<1>3. /\ \A w \in Worker : Early(exec[w].pc)
      /\ \A c \in Child \ Manual : ~ Merged(c)
      /\ root = "open"
      /\ meta.status \in {"OPEN", "MERGING", "FAILED"}
  BY DEF CycleInv
<1>4. SUFFICES /\ \A w \in Worker : Early(exec'[w].pc)
               /\ \A c \in Child \ Manual : ~ Merged(c)'
               /\ root' = "open"
               /\ meta' = meta \/ meta'.status \in {"MERGING", "FAILED"}
  BY <1>3 DEF CycleInv
<1>5. ASSUME NEW w \in Worker, ExecuteCascadeMerge(w)
      PROVE  /\ \A v \in Worker : Early(exec'[v].pc)
             /\ \A c \in Child \ Manual : ~ Merged(c)'
             /\ root' = "open"
             /\ meta' = meta \/ meta'.status \in {"MERGING", "FAILED"}
  <2>1. /\ Early(exec'[w].pc)
        /\ UNCHANGED <<host, root>>
        /\ meta' = meta \/ meta'.status \in {"MERGING", "FAILED"}
    BY <1>3, <1>5, EarlyStep
  <2> QED
    BY <1>3, <1>5, <2>1, OtherRuns DEF Merged
<1>6. ASSUME NEW w \in Worker,
             \/ ReconcileAllPending(w)
             \/ RetryMerge(w)
             \/ Crash(w)
      PROVE  /\ \A v \in Worker : Early(exec'[v].pc)
             /\ UNCHANGED <<host, root>>
             /\ meta' = meta \/ meta'.status = "MERGING"
  <2>1. Goto(w, "fetch") \/ Return(w)
    BY <1>6 DEF ReconcileAllPending, RetryMerge, Crash
  <2>2. Early(exec'[w].pc)
    BY <2>1, GotoFields, BecomeOnly DEF Return, Idle
  <2>3. \A v \in Worker \ {w} : exec'[v] = exec[v]
    BY <2>1, BecomeOnly DEF Goto, Return
  <2>4. \A v \in Worker : Early(exec'[v].pc)
    BY <1>3, <2>2, <2>3
  <2> HIDE DEF Early
  <2> QED
    BY <1>6, <2>4 DEF ReconcileAllPending, RetryMerge, Crash, LockedUpdate
<1>7. ASSUME NEW d \in Child, MergedByHand(d)
      PROVE  /\ \A c \in Child \ Manual : ~ Merged(c)'
             /\ UNCHANGED <<exec, root, meta>>
  BY <1>3, <1>7 DEF MergedByHand, Merged, TypeOK
<1> HIDE DEF Early
<1> QED
  BY <1>3, <1>5, <1>6, <1>7 DEF Next, vars, Worker, Merged

\* A graph with a cycle merges nothing but what people merge, whatever runs there
\* are: the plan of every run ends the cascade as FAILED (CYCLE_DETECTED).
THEOREM CyclesMergeNothing == Spec => []CycleMergesNothing
<1>1. Init => CycleInv
  BY DEF Init, CycleInv, Idle, Merged
<1>2. TypeOK /\ CascadeInv /\ CycleInv /\ [Next]_vars => CycleInv'
  BY StepCycle
<1>3. CycleInv => CycleMergesNothing
  BY DEF CycleInv, CycleMergesNothing, Cyclic
<1> QED
  BY <1>1, <1>2, <1>3, CascadeInvariant, PTL DEF Spec

--------------------------------------------------------------------------------
(* The pointers of the root pull request.                                  *)

\* A run that is about to merge the root has the pointers of its updates at main.
PointersAtMain ==
    \A w \in Worker :
        exec[w].pc = "root" => \A c \in PointerUpdates(w) : pointer[c] = "main"

\* When the host finds the heads, an alignment moves pointers to main only.
LEMMA AlignmentWritesMain ==
    ASSUME "lookup" \notin Faults, TypeOK, CascadeInv, NEW w \in Worker,
           exec[w].pc = "align", NEW S \in SUBSET PointerUpdates(w),
           NEW unresolved \in Unresolved(w), pointer' = Aligned(w, S, unresolved)
    PROVE  \A c \in Child : pointer'[c] = IF c \in S THEN "main" ELSE pointer[c]
<1>1. unresolved = {}
  BY DEF Unresolved
<1>2. Known(exec[w].snap) = Members /\ \A c \in Members : Merged(c)
  BY DEF CascadeInv, RunInv, SnapshotHonest, RootHonest, BeforeSnapshot
<1>3. \A c \in S : MainHead(c) = "main"
  BY <1>2 DEF PointerUpdates, MainHead, Merged
<1> QED
  BY <1>1, <1>3 DEF Aligned

\* A run comes to the root pull request by aligning the pointers.
LEMMA OnlyAlignReachesRoot ==
    ASSUME TypeOK, CascadeInv, [Next]_vars, NEW v \in Worker, exec'[v] # exec[v],
           exec'[v].pc = "root"
    PROVE  AlignPointers(v)
<1>1. \A p : Goto(v, p) => p = "root"
  BY GotoFields
<1>2. ~ Return(v)
  BY BecomeOnly DEF Return, Idle
<1>3. ASSUME NEW d \in Child, NEW state, SetJob(v, d, state), exec[v].pc = "merging"
      PROVE  FALSE
  BY <1>3, SetJobFields
<1>4. ASSUME NEW w \in Worker, w # v, NEW e, Become(w, e)
      PROVE  FALSE
  BY <1>4, BecomeOnly
<1>5. exec[v] \in Exec
  BY DEF TypeOK
<1>6. ASSUME NEW d \in Child, JobStep(v, d)
      PROVE  FALSE
  <2>1. exec[v].pc = "merging"
    BY <1>6 DEF JobStep, MarkMerging, MergeOk, MergeLost, MergeError,
                RecordMerged, RecordFailed, CascadeInv, RunInv, JobsHonest
  <2> QED
    BY <1>6, <2>1, <1>3
       DEF JobStep, MarkMerging, MergeOk, MergeLost, MergeError, RecordMerged,
           RecordFailed
<1>7. ~ FetchMeta(v) /\ ~ FetchChildren(v)
  <2>1. ASSUME FetchMeta(v) PROVE FALSE
    <3>1. exec'[v] = [exec[v] EXCEPT !.pc = "children", !.lock = meta.lock,
                                     !.seen = meta.status]
      BY <2>1, BecomeOnly DEF FetchMeta
    <3> QED
      BY <1>5, <3>1 DEF Exec
  <2>2. ASSUME FetchChildren(v) PROVE FALSE
    <3>1. exec'[v] = [exec[v] EXCEPT !.pc = "lock", !.snap = row]
      BY <2>2, BecomeOnly DEF FetchChildren
    <3> QED
      BY <1>5, <3>1 DEF Exec
  <2> QED
    BY <2>1, <2>2
<1>8. ~ AcquireLock(v)
  <2> SUFFICES ASSUME AcquireLock(v) PROVE FALSE
    OBVIOUS
  <2> DEFINE taken == exec[v].lock + 1
  <2>1. exec'[v] = [exec[v] EXCEPT !.pc = "plan", !.lock = taken,
                                   !.seen = "MERGING"]
    BY <1>2, BecomeOnly DEF AcquireLock
  <2> HIDE DEF taken
  <2> QED
    BY <1>5, <2>1 DEF Exec
<1>9. ~ PlanBatches(v)
  <2> SUFFICES ASSUME PlanBatches(v) PROVE FALSE
    OBVIOUS
  <2> DEFINE nodes == GraphNodes(Known(exec[v].snap), CascadeEdges)
             edges == CascadeEdges
  <2>1. exec'[v] = [exec[v] EXCEPT !.pc = "batch", !.edges = edges,
                                   !.todo = nodes]
    BY <1>2, BecomeOnly DEF PlanBatches
  <2> HIDE DEF nodes, edges
  <2> QED
    BY <1>5, <2>1 DEF Exec
<1>10. ~ StartBatch(v)
  <2> SUFFICES ASSUME StartBatch(v) PROVE FALSE
    OBVIOUS
  <2> DEFINE next == ReadyBatch(exec[v].todo, exec[v].edges)
             jobs == [d \in Child |->
                         IF d \in next /\ exec[v].snap[d].status # "MERGED"
                         THEN "mark" ELSE "none"]
  <2>1. exec'[v] = [exec[v] EXCEPT !.pc = "merging", !.batch = next, !.job = jobs]
    BY BecomeOnly DEF StartBatch
  <2> HIDE DEF next, jobs
  <2> QED
    BY <1>5, <2>1 DEF Exec
<1>11. ~ EndBatch(v)
  <2> SUFFICES ASSUME EndBatch(v) PROVE FALSE
    OBVIOUS
  <2> DEFINE left == exec[v].todo \ exec[v].batch
  <2>1. exec'[v] = [exec[v] EXCEPT !.pc = "batch", !.todo = left, !.batch = {}]
    BY <1>1, BecomeOnly DEF EndBatch
  <2> HIDE DEF left
  <2> QED
    BY <1>5, <2>1 DEF Exec
<1>12. PICK w \in Worker : \/ ReconcileAllPending(w) \/ RetryMerge(w) \/ Crash(w)
                          \/ ExecuteCascadeMerge(w)
  BY DEF Next, vars, Worker, MergedByHand
<1>13. w = v
  <2>1. ExecuteCascadeMerge(w) => \A u \in Worker \ {w} : exec'[u] = exec[u]
    BY OtherRuns
  <2> QED
    BY <1>4, <1>12, <2>1
       DEF ReconcileAllPending, RetryMerge, Crash, Goto, Return
<1>14. ExecuteCascadeMerge(v)
  BY <1>2, <1>1, <1>12, <1>13 DEF ReconcileAllPending, RetryMerge, Crash
<1> QED
  BY <1>1, <1>2, <1>6, <1>7, <1>8, <1>9, <1>10, <1>11, <1>14
     DEF JobStep, ExecuteCascadeMerge, Resume, BatchesDone, AlignError, RootOk,
         RootLost, RootError, Finish, Halt

LEMMA StepPointers ==
    ASSUME "lookup" \notin Faults, TypeOK, CascadeInv, PointersAtMain, [Next]_vars
    PROVE  PointersAtMain'
<1> SUFFICES ASSUME NEW v \in Worker, exec'[v].pc = "root",
                    NEW c \in PointerUpdates(v)'
             PROVE  pointer'[c] = "main"
  BY DEF PointersAtMain
<1>1. ASSUME NEW w \in Worker, AlignPointers(w) \/ AlignError(w)
      PROVE  \A d \in Child : pointer'[d] \in {"main", pointer[d]}
  <2>1. exec[w].pc = "align" /\ PointerUpdates(w) \subseteq PointerUpdates(w)
    BY <1>1 DEF AlignPointers, AlignError
  <2>2. PICK S \in SUBSET PointerUpdates(w), unresolved \in Unresolved(w) :
           pointer' = Aligned(w, S, unresolved)
    BY <1>1, <2>1 DEF AlignPointers, AlignError
  <2> QED
    BY <2>1, <2>2, AlignmentWritesMain
<1>2. \A d \in Child : pointer'[d] \in {"main", pointer[d]}
  <2>1. ASSUME NEW w \in Worker, ExecuteCascadeMerge(w)
        PROVE  pointer' = pointer \/ AlignPointers(w) \/ AlignError(w)
    <3>1. ASSUME NEW d \in Child, JobStep(w, d)
          PROVE  pointer' = pointer
      BY <3>1 DEF JobStep, MarkMerging, MergeOk, MergeLost, MergeError, RecordMerged,
                  RecordFailed
    <3>2. CASE FetchMeta(w) \/ FetchChildren(w) \/ Resume(w) \/ AcquireLock(w)
      BY <3>2 DEF FetchMeta, FetchChildren, Resume, AcquireLock
    <3>3. CASE PlanBatches(w) \/ StartBatch(w) \/ EndBatch(w) \/ BatchesDone(w)
      BY <3>3 DEF PlanBatches, StartBatch, EndBatch, BatchesDone
    <3>4. CASE RootOk(w) \/ RootLost(w) \/ RootError(w) \/ Finish(w) \/ Halt(w)
      BY <3>4 DEF RootOk, RootLost, RootError, Finish, Halt
    <3> QED
      BY <2>1, <3>1, <3>2, <3>3, <3>4 DEF ExecuteCascadeMerge, JobStep
  <2>2. CASE UNCHANGED vars
    BY <2>2 DEF vars
  <2>3. ASSUME NEW w \in Worker, ReconcileAllPending(w) \/ RetryMerge(w) \/ Crash(w)
        PROVE  pointer' = pointer
    BY <2>3 DEF ReconcileAllPending, RetryMerge, Crash
  <2>4. ASSUME NEW d \in Child, MergedByHand(d)
        PROVE  pointer' = pointer
    BY <2>4 DEF MergedByHand
  <2>5. \/ UNCHANGED vars
        \/ \E w \in Worker : ReconcileAllPending(w) \/ RetryMerge(w) \/ Crash(w)
        \/ \E w \in Worker : ExecuteCascadeMerge(w)
        \/ \E d \in Child : MergedByHand(d)
    BY DEF Next, Worker
  <2>6. pointer' = pointer \/ \E w \in Worker : AlignPointers(w) \/ AlignError(w)
    BY <2>1, <2>2, <2>3, <2>4, <2>5 DEF vars
  <2> QED
    BY <1>1, <2>6
<1>3. c \in Child
  BY StepType DEF PointerUpdates, Known, TypeOK, Exec
<1>4. CASE exec'[v] = exec[v]
  <2>1. PointerUpdates(v)' = PointerUpdates(v)
    BY <1>4 DEF PointerUpdates
  <2> QED
    BY <1>2, <1>3, <1>4, <2>1 DEF PointersAtMain
<1>5. CASE exec'[v] # exec[v]
  <2>1. AlignPointers(v)
    BY <1>5, OnlyAlignReachesRoot
  <2>2. PointerUpdates(v)' = PointerUpdates(v)
    BY <2>1, GotoFields DEF AlignPointers, PointerUpdates
  <2> QED
    BY <1>3, <2>1, <2>2, AlignmentWritesMain DEF AlignPointers
<1> QED
  BY <1>4, <1>5

\* The run that merges the root has left the pointers it updates at the head of
\* main, with the child's change in it, when the host found those heads.  Another
\* run may be aligning at the same time.
THEOREM AlignedFirst ==
    ASSUME "lookup" \notin Faults
    PROVE  Spec => AlignedBeforeRoot
<1>1. Init => PointersAtMain
  BY DEF Init, PointersAtMain, Idle
<1>2. TypeOK /\ CascadeInv /\ PointersAtMain /\ [Next]_vars => PointersAtMain'
  BY StepPointers
<1>3. ASSUME TypeOK, PointersAtMain, [Next]_vars, root' # root
      PROVE  \E w \in Worker : /\ exec'[w] # exec[w]
                               /\ \A c \in PointerUpdates(w) : pointer[c] = "main"
  <2>1. PICK w \in Worker : RootOk(w) \/ RootLost(w)
    BY <1>3, RootSteps
  <2>2. exec[w].pc = "root" /\ exec'[w].pc # "root"
    BY <1>3, <2>1, GotoFields DEF RootOk, RootLost
  <2> QED
    BY <1>3, <2>2 DEF PointersAtMain
<1>4. TypeOK /\ PointersAtMain /\ [Next]_vars =>
         [root' # root =>
             \E w \in Worker : /\ exec'[w] # exec[w]
                               /\ \A c \in PointerUpdates(w) : pointer[c] = "main"]_vars
  BY <1>3
<1> QED
  BY <1>1, <1>2, <1>4, CascadeInvariant, PTL DEF Spec, AlignedBeforeRoot

--------------------------------------------------------------------------------
(* The cascade implements its contract.                                    *)

LEMMA StepImplements ==
    ASSUME TypeOK, CascadeInv, [Next]_vars
    PROVE  [Contract!ContractNext]_(Contract!cvars)
<1> DEFINE merged == {c \in Child : Merged(c)}
           rootMerged == root = "merged"
<1>1. Monotone /\ Members \subseteq Child
  BY StepMonotone DEF TypeOK, Members, Known
<1>2. Members' = Members
  BY <1>1 DEF Monotone
<1>3. CASE root' # root
  <2>1. PICK w \in Worker : RootOk(w) \/ RootLost(w)
    BY <1>3, RootSteps
  <2>2. \A c \in Members : Merged(c)
    BY <2>1 DEF RootOk, RootLost, CascadeInv, RunInv, RootHonest
  <2>3. Members \subseteq merged /\ merged' = merged /\ rootMerged' = TRUE
    BY <1>1, <2>1, <2>2 DEF RootOk, RootLost, Merged
  <2>4. Contract!MergeRootPR
    BY <1>2, <2>3 DEF Contract!MergeRootPR
  <2> QED
    BY <2>4 DEF Contract!ContractNext
<1>4. CASE root' = root /\ host' = host
  <2>1. merged' = merged /\ rootMerged' = rootMerged
    BY <1>4 DEF Merged
  <2> QED
    BY <1>2, <2>1 DEF Contract!cvars
<1>5. ASSUME NEW c \in Child, c \in Members, host[c] = "open",
             host' = [host EXCEPT ![c] = "merged"]
      PROVE  c \in Members \ merged /\ merged' = merged \cup {c}
  BY <1>5 DEF Merged, TypeOK
<1>6. ASSUME NEW w \in Worker, NEW c \in Child,
             MergeOk(w, c) \/ MergeLost(w, c)
      PROVE  Contract!ContractNext
  <2>1. c \in Members /\ \A d \in DependsOn(c, Dep) : Merged(d)
    BY <1>6, EngineMergesInOrder
  <2>2. \A e \in Dep : e[1] = c => e[2] \in merged
    BY <2>1, DepAssumption DEF DependsOn
  <2>3. c \in Members \ merged /\ merged' = merged \cup {c}
    BY <1>5, <1>6, <2>1 DEF MergeOk, MergeLost
  <2>4. rootMerged' = rootMerged
    BY <1>6 DEF MergeOk, MergeLost
  <2>5. Contract!MergeChild(c)
    BY <1>2, <2>2, <2>3, <2>4 DEF Contract!MergeChild
  <2> QED
    BY <2>5 DEF Contract!ContractNext
<1>7. ASSUME NEW c \in Child, MergedByHand(c)
      PROVE  Contract!ContractNext
  <2>1. c \in Members /\ c \in Manual
    BY <1>7 DEF MergedByHand, Members
  <2>2. c \in Members \ merged /\ merged' = merged \cup {c}
    BY <1>5, <1>7, <2>1 DEF MergedByHand
  <2>3. rootMerged' = rootMerged
    BY <1>7 DEF MergedByHand
  <2>4. Contract!MergeByHand(c)
    BY <1>2, <2>1, <2>2, <2>3 DEF Contract!MergeByHand
  <2> QED
    BY <2>4 DEF Contract!ContractNext
<1> QED
  BY <1>3, <1>4, <1>6, <1>7, HostSteps

\* Every run of the engine is a run of the contract: the pull requests are
\* merged in an order the contract allows, whatever the tables say.
THEOREM Implements == Spec => ImplementsContract
<1>1. Init => Contract!ContractInit
  BY DEF Init, Contract!ContractInit, Members, Known, Merged
<1>2. TypeOK /\ CascadeInv /\ [Next]_vars =>
         [Contract!ContractNext]_(Contract!cvars)
  BY StepImplements
<1> QED
  BY <1>1, <1>2, CascadeInvariant, PTL
     DEF Spec, ImplementsContract, Contract!ContractSpec

================================================================================
