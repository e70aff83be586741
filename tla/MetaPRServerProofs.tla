--------------------------- MODULE MetaPRServerProofs ---------------------------
(***************************************************************************)
(* Theorems about MetaPRServer, for any children, handlers, loops, faults, *)
(* settings and bounds.                                                    *)
(***************************************************************************)
EXTENDS MetaPRServer, CascadeMergeProofs

--------------------------------------------------------------------------------
(* The inductive invariant.                                                *)

\* What the locals of a handler may be relied on for: HandlerHonest, and which
\* handler can be where.
LocalHonest(l) ==
    /\ l.kind = "child" /\ l.stat = "MERGED" => \A c \in l.todo : Merged(c)
    /\ \A c \in Child : l.snap[c].status = "MERGED" => Merged(c)
    /\ l.kind = "merged" \/ l.seen = "MERGED" => root = "merged"
    /\ l.pc \in {"insert", "write"} => l.kind = "child"
    /\ l.pc = "close" => l.kind = "merged"
    /\ l.pc = "create" => l.kind = "updated"
    /\ l.pc = "rules" => \A c \in Known(l.snap) : l.snap[c].status = "MERGED"

\* The children of its snapshot that the batches have left behind are merged,
\* whatever the rows have become meanwhile.
RunDone(w) ==
    /\ exec[w].pc \in {"batch", "merging"} =>
          \A c \in Known(exec[w].snap) \ exec[w].todo : Merged(c)
    /\ exec[w].pc = "merging" =>
          \A c \in Known(exec[w].snap) \cap exec[w].batch :
              exec[w].job[c] = "none" => Merged(c)
    /\ exec[w].pc \in {"align", "root"} =>
          \A c \in Known(exec[w].snap) : Merged(c)

RunsHonest == \A w \in Worker : RunHonest(w) /\ RunDone(w)

ServerIInv ==
    /\ ServerTypeOK
    /\ RecordsAreTrue
    /\ GreenMeansMerged
    /\ EventsHonest
    /\ RunsHonest
    /\ \A h \in Request : LocalHonest(at[h])

LEMMA ServerIInvImplies == ServerIInv => ServerInv
BY DEF ServerIInv, ServerInv, RunsHonest, HandlerHonest, LocalHonest

\* What no step takes back.
Steady ==
    /\ \A c \in Child : Merged(c) => Merged(c)'
    /\ root = "merged" => root' = "merged"

--------------------------------------------------------------------------------
(* The runs.                                                               *)

LEMMA OtherRunHonest ==
    ASSUME TypeOK, Steady, NEW v \in Worker, exec'[v] = exec[v],
           RunHonest(v), RunDone(v)
    PROVE  RunHonest(v)' /\ RunDone(v)'
<1>1. Known(exec[v].snap) \subseteq Child
  BY DEF TypeOK, Exec, Known
<1>2. RunHonest(v)'
  BY DEF RunHonest, BeforeSnapshot, Steady
<1>3. RunDone(v)'
  BY <1>1 DEF RunDone, Steady
<1> QED
  BY <1>2, <1>3

LEMMA IdleHonest ==
    ASSUME TypeOK, NEW w \in Worker, Return(w)
    PROVE  RunHonest(w)' /\ RunDone(w)'
<1>1. exec'[w] = Idle
  BY BecomeOnly DEF Return
<1>2. Idle.pc = "idle" /\ \A c \in Child : Idle.job[c] = "none"
  BY DEF Idle
<1> QED
  BY <1>1, <1>2 DEF RunHonest, RunDone, BeforeSnapshot

\* A step to another program counter.
LEMMA GotoHonest ==
    ASSUME TypeOK, Steady, NEW w \in Worker, RunHonest(w), RunDone(w), NEW pc,
           Goto(w, pc),
           \/ pc = "fetch"
           \/ pc \in {"plan", "halt"} /\ ~ BeforeSnapshot(w)
           \/ pc = "align" /\ exec[w].pc = "batch" /\ exec[w].todo = {}
           \/ pc = "root" /\ exec[w].pc = "align"
           \/ pc = "finish" /\ exec[w].pc = "root" /\ root' = "merged"
    PROVE  RunHonest(w)' /\ RunDone(w)'
<1>1. Known(exec[w].snap) \subseteq Child
  BY DEF TypeOK, Exec, Known
<1>2. /\ exec'[w].pc = pc
      /\ exec'[w].snap = exec[w].snap
      /\ exec'[w].todo = exec[w].todo
      /\ exec'[w].job = exec[w].job
  BY GotoFields
<1>3. RunHonest(w)'
  BY <1>2 DEF RunHonest, BeforeSnapshot, Steady
<1>4. RunDone(w)'
  BY <1>1, <1>2 DEF RunDone, Steady
<1> QED
  BY <1>3, <1>4

LEMMA FetchHonest ==
    ASSUME TypeOK, RecordsAreTrue, NEW w \in Worker, RunHonest(w),
           FetchMeta(w) \/ FetchChildren(w)
    PROVE  RunHonest(w)' /\ RunDone(w)'
<1>1. exec[w] \in Exec /\ row' = row /\ host' = host
  BY DEF TypeOK, FetchMeta, FetchChildren
<1>2. CASE FetchMeta(w)
  <2>1. exec'[w] = [exec[w] EXCEPT !.pc = "children", !.lock = meta.lock,
                                   !.seen = meta.status]
    BY <1>2, BecomeOnly DEF FetchMeta
  <2>2. exec'[w].pc = "children" /\ exec'[w].job = exec[w].job
    BY <1>1, <2>1 DEF Exec
  <2> QED
    BY <1>1, <2>2 DEF RunHonest, RunDone, BeforeSnapshot, Merged
<1>3. CASE FetchChildren(w)
  <2>1. exec'[w] = [exec[w] EXCEPT !.pc = "lock", !.snap = row]
    BY <1>3, BecomeOnly DEF FetchChildren
  <2>2. exec'[w].pc = "lock" /\ exec'[w].snap = row /\ exec'[w].job = exec[w].job
    BY <1>1, <2>1 DEF Exec
  <2> QED
    BY <1>1, <2>2 DEF RunHonest, RunDone, RecordsAreTrue, Merged
<1> QED
  BY <1>2, <1>3

LEMMA LockHonest ==
    ASSUME TypeOK, NEW w \in Worker, RunHonest(w), AcquireLock(w)
    PROVE  RunHonest(w)' /\ RunDone(w)'
<1>1. exec[w] \in Exec /\ host' = host
  BY DEF TypeOK, AcquireLock
<1>2. CASE ~ HoldsLock(meta, exec[w].lock)
  BY <1>2, IdleHonest DEF AcquireLock
<1>3. CASE HoldsLock(meta, exec[w].lock)
  <2> DEFINE taken == exec[w].lock + 1
  <2>1. exec'[w] = [exec[w] EXCEPT !.pc = "plan", !.lock = taken,
                                   !.seen = "MERGING"]
    BY <1>3, BecomeOnly DEF AcquireLock
  <2> HIDE DEF taken
  <2>2. /\ exec'[w].pc = "plan"
        /\ exec'[w].snap = exec[w].snap
        /\ exec'[w].job = exec[w].job
    BY <1>1, <2>1 DEF Exec
  <2> QED
    BY <1>1, <2>2 DEF AcquireLock, RunHonest, RunDone, BeforeSnapshot, Merged
<1> QED
  BY <1>2, <1>3

\* Every child of the snapshot is a node of the graph.
LEMMA PlanHonest ==
    ASSUME TypeOK, NEW w \in Worker, RunHonest(w), PlanBatches(w)
    PROVE  RunHonest(w)' /\ RunDone(w)'
<1> DEFINE nodes == GraphNodes(Known(exec[w].snap), CascadeEdges)
<1>1. exec[w] \in Exec /\ host' = host
  BY DEF TypeOK, PlanBatches
<1>2. CASE ~ Acyclic(nodes, CascadeEdges)
  BY <1>2, IdleHonest DEF PlanBatches
<1>3. CASE Acyclic(nodes, CascadeEdges)
  <2>1. exec'[w] = [exec[w] EXCEPT !.pc = "batch", !.edges = CascadeEdges,
                                   !.todo = nodes]
    BY <1>3, BecomeOnly DEF PlanBatches
  <2>2. Known(exec[w].snap) \subseteq nodes
    BY DEF GraphNodes
  <2> HIDE DEF nodes
  <2>3. /\ exec'[w].pc = "batch"
        /\ exec'[w].snap = exec[w].snap
        /\ exec'[w].todo = nodes
        /\ exec'[w].job = exec[w].job
    BY <1>1, <2>1 DEF Exec
  <2> QED
    BY <1>1, <2>2, <2>3
       DEF PlanBatches, RunHonest, RunDone, BeforeSnapshot, Merged
<1> QED
  BY <1>2, <1>3

LEMMA StartHonest ==
    ASSUME TypeOK, NEW w \in Worker, RunHonest(w), RunDone(w), StartBatch(w)
    PROVE  RunHonest(w)' /\ RunDone(w)'
<1> DEFINE next == ReadyBatch(exec[w].todo, exec[w].edges)
           jobs == [c \in Child |->
                       IF c \in next /\ exec[w].snap[c].status # "MERGED"
                       THEN "mark" ELSE "none"]
<1>1. exec[w] \in Exec /\ host' = host
  BY DEF TypeOK, StartBatch
<1>2. exec'[w] = [exec[w] EXCEPT !.pc = "merging", !.batch = next, !.job = jobs]
  BY BecomeOnly DEF StartBatch
<1> HIDE DEF next
<1>3. \A c \in Child : /\ jobs[c] \in {"mark", "none"}
                       /\ jobs[c] = "none" /\ c \in next =>
                             exec[w].snap[c].status = "MERGED"
  OBVIOUS
<1> HIDE DEF jobs
<1>4. /\ exec'[w].pc = "merging"
      /\ exec'[w].snap = exec[w].snap
      /\ exec'[w].todo = exec[w].todo
      /\ exec'[w].batch = next
      /\ exec'[w].job = jobs
  BY <1>1, <1>2 DEF Exec
<1>5. RunHonest(w)'
  BY <1>1, <1>3, <1>4 DEF StartBatch, RunHonest, BeforeSnapshot, Merged
<1>6. RunDone(w)'
  <2>1. Known(exec[w].snap) \subseteq Child
    BY <1>1 DEF Exec, Known
  <2>2. \A c \in Known(exec[w].snap) \cap next : jobs[c] = "none" => Merged(c)
    BY <1>3, <2>1 DEF StartBatch, RunHonest, BeforeSnapshot
  <2> QED
    BY <1>1, <1>4, <2>2 DEF StartBatch, RunDone, Merged
<1> QED
  BY <1>5, <1>6

LEMMA EndHonest ==
    ASSUME TypeOK, Steady, NEW w \in Worker, RunHonest(w), RunDone(w), EndBatch(w)
    PROVE  RunHonest(w)' /\ RunDone(w)'
<1>1. exec[w] \in Exec /\ host' = host
  BY DEF TypeOK, EndBatch
<1>2. CASE \E c \in Child : exec[w].job[c] = "failed"
  <2>1. Goto(w, "halt") /\ ~ BeforeSnapshot(w)
    BY <1>2 DEF EndBatch, BeforeSnapshot
  <2> QED
    BY <2>1, GotoHonest
<1>3. CASE ~ \E c \in Child : exec[w].job[c] = "failed"
  <2>1. exec'[w] = [exec[w] EXCEPT !.pc = "batch",
                                   !.todo = exec[w].todo \ exec[w].batch,
                                   !.batch = {}]
    BY <1>3, BecomeOnly DEF EndBatch
  <2>2. /\ exec'[w].pc = "batch"
        /\ exec'[w].snap = exec[w].snap
        /\ exec'[w].todo = exec[w].todo \ exec[w].batch
        /\ exec'[w].job = exec[w].job
    BY <1>1, <2>1 DEF Exec
  <2>3. RunHonest(w)'
    BY <1>1, <2>2 DEF EndBatch, RunHonest, BeforeSnapshot, Merged
  <2>4. \A c \in Known(exec[w].snap) \cap exec[w].batch : Merged(c)
    <3>1. Known(exec[w].snap) \subseteq Child
      BY <1>1 DEF Exec, Known
    <3>2. \A c \in Known(exec[w].snap) : exec[w].job[c] = "none"
      BY <1>3, <3>1 DEF EndBatch
    <3> QED
      BY <3>2 DEF EndBatch, RunDone
  <2>5. RunDone(w)'
    BY <1>1, <2>2, <2>4 DEF EndBatch, RunDone, Merged
  <2> QED
    BY <2>3, <2>5
<1> QED
  BY <1>2, <1>3

LEMMA JobHonest ==
    ASSUME TypeOK, Steady, NEW w \in Worker, RunHonest(w), RunDone(w),
           NEW c \in Child, JobStep(w, c)
    PROVE  RunHonest(w)' /\ RunDone(w)'
<1> USE DEF JobStep, MarkMerging, MergeOk, MergeLost, MergeError, RecordMerged,
            RecordFailed
<1>1. exec[w] \in Exec /\ root' = root
  BY DEF TypeOK
<1>2. PICK state \in JobState :
         /\ SetJob(w, c, state)
         /\ state = "none" => exec[w].job[c] = "ok"
         /\ state = "ok" => Merged(c)'
  <2>1. {"call", "ok", "err", "none", "failed"} \subseteq JobState
    BY DEF JobState
  <2>2. CASE MarkMerging(w, c)
    BY <2>1, <2>2
  <2>3. CASE MergeOk(w, c)
    <3>1. Merged(c)'
      BY <2>3 DEF Merged, TypeOK
    <3> QED
      BY <2>1, <2>3, <3>1
  <2>4. CASE MergeLost(w, c) \/ MergeError(w, c)
    BY <2>1, <2>4
  <2>5. CASE RecordMerged(w, c)
    BY <2>1, <2>5
  <2>6. CASE RecordFailed(w, c)
    BY <2>1, <2>6
  <2> QED
    BY <2>2, <2>3, <2>4, <2>5, <2>6
<1> DEFINE jobs == [exec[w].job EXCEPT ![c] = state]
<1>3. /\ exec'[w].pc = exec[w].pc
      /\ exec'[w].snap = exec[w].snap
      /\ exec'[w].todo = exec[w].todo
      /\ exec'[w].batch = exec[w].batch
      /\ exec'[w].job = jobs
  BY <1>2, SetJobFields
<1>4. jobs[c] = state /\ \A d \in Child \ {c} : jobs[d] = exec[w].job[d]
  BY <1>1 DEF Exec
<1> HIDE DEF jobs, JobStep, MarkMerging, MergeOk, MergeLost, MergeError,
             RecordMerged, RecordFailed
<1>5. \A d \in Child : jobs[d] = "ok" => Merged(d)'
  BY <1>2, <1>4 DEF RunHonest, Steady
<1>6. RunHonest(w)'
  BY <1>1, <1>3, <1>5 DEF RunHonest, BeforeSnapshot, Steady
<1>7. RunDone(w)'
  <2>1. Known(exec[w].snap) \subseteq Child
    BY <1>1 DEF Exec, Known
  <2>2. exec[w].pc = "merging" =>
           \A d \in Known(exec[w].snap) \cap exec[w].batch :
               jobs[d] = "none" => Merged(d)
    BY <1>2, <1>4, <2>1 DEF RunHonest, RunDone
  <2> QED
    BY <1>3, <2>1, <2>2 DEF RunDone, Steady
<1> QED
  BY <1>6, <1>7

LEMMA RunStepSteady ==
    ASSUME TypeOK, NEW w \in Worker, ExecuteCascadeMerge(w)
    PROVE  Steady
BY RunStepMonotone DEF Monotone, Steady

LEMMA OwnRunHonest ==
    ASSUME TypeOK, RecordsAreTrue, NEW w \in Worker, RunHonest(w), RunDone(w),
           ExecuteCascadeMerge(w)
    PROVE  RunHonest(w)' /\ RunDone(w)'
<1>1. Steady
  BY RunStepSteady
<1>2. CASE Resume(w)
  BY <1>1, <1>2, GotoHonest DEF Resume, BeforeSnapshot
<1>3. CASE BatchesDone(w)
  BY <1>1, <1>3, GotoHonest DEF BatchesDone
<1>4. CASE AlignPointers(w)
  BY <1>1, <1>4, GotoHonest DEF AlignPointers
<1>5. CASE AlignError(w)
  BY <1>1, <1>5, GotoHonest DEF AlignError, BeforeSnapshot
<1>6. CASE RootOk(w)
  BY <1>1, <1>6, GotoHonest DEF RootOk
<1>7. CASE RootLost(w)
  BY <1>1, <1>7, GotoHonest DEF RootLost, BeforeSnapshot
<1>8. CASE RootError(w)
  BY <1>1, <1>8, GotoHonest DEF RootError, BeforeSnapshot
<1>9. CASE Finish(w) \/ Halt(w)
  BY <1>9, IdleHonest DEF Finish, Halt
<1> QED
  BY <1>1, <1>2, <1>3, <1>4, <1>5, <1>6, <1>7, <1>8, <1>9, FetchHonest,
     LockHonest, PlanHonest, StartHonest, EndHonest, JobHonest
     DEF ExecuteCascadeMerge, JobStep

LEMMA RunRecords ==
    ASSUME TypeOK, RecordsAreTrue, NEW w \in Worker, RunHonest(w),
           ExecuteCascadeMerge(w)
    PROVE  RecordsAreTrue'
<1>1. Steady
  BY RunStepSteady
<1>2. meta'.status = "MERGED" => root' = "merged"
  <2>1. CASE Finish(w)
    BY <2>1 DEF Finish, RunHonest
  <2>2. CASE AcquireLock(w) \/ PlanBatches(w) \/ Halt(w)
    BY <1>1, <2>2
       DEF AcquireLock, PlanBatches, Halt, LockedUpdate, RecordsAreTrue, Steady
  <2>3. CASE meta' = meta
    BY <1>1, <2>3 DEF RecordsAreTrue, Steady
  <2> QED
    BY <2>1, <2>2, <2>3
       DEF ExecuteCascadeMerge, FetchMeta, FetchChildren, Resume, StartBatch,
           MarkMerging, MergeOk, MergeLost, MergeError, RecordMerged,
           RecordFailed, EndBatch, BatchesDone, AlignPointers, AlignError,
           RootOk, RootLost, RootError
<1>3. ASSUME NEW c \in Child, row'[c].status = "MERGED"
      PROVE  Merged(c)'
  <2>1. CASE row'[c] = row[c]
    BY <1>1, <1>3, <2>1 DEF RecordsAreTrue, Steady
  <2>2. CASE \E d \in Child : MarkMerging(w, d) \/ RecordFailed(w, d)
    <3>1. PICK d \in Child : MarkMerging(w, d) \/ RecordFailed(w, d)
      BY <2>2
    <3>2. c # d => row'[c] = row[c]
      BY <3>1 DEF MarkMerging, RecordFailed, ChildWrite, TypeOK
    <3>3. c = d => row'[c] = row[c] \/ row'[c].status # "MERGED"
      BY <3>1
         DEF MarkMerging, RecordFailed, ChildWrite, TypeOK, UpdatedChild
    <3> QED
      BY <1>3, <2>1, <3>2, <3>3
  <2>3. CASE \E d \in Child : RecordMerged(w, d)
    <3>1. PICK d \in Child : RecordMerged(w, d)
      BY <2>3
    <3>2. c # d => row'[c] = row[c]
      BY <3>1 DEF RecordMerged, ChildWrite, TypeOK
    <3>3. c = d => Merged(c)
      BY <3>1 DEF RecordMerged, RunHonest
    <3> QED
      BY <1>1, <2>1, <3>2, <3>3 DEF Steady
  <2>4. CASE row' = row
    BY <2>1, <2>4
  <2> QED
    BY <2>2, <2>3, <2>4
       DEF ExecuteCascadeMerge, FetchMeta, FetchChildren, Resume, AcquireLock,
           PlanBatches, StartBatch, MergeOk, MergeLost, MergeError, EndBatch,
           BatchesDone, AlignPointers, AlignError, RootOk, RootLost, RootError,
           Finish, Halt
<1> QED
  BY <1>2, <1>3 DEF RecordsAreTrue

--------------------------------------------------------------------------------
(* The handlers.                                                           *)

LEMMA RunsKeep ==
    ASSUME TypeOK, Steady, RunsHonest, UNCHANGED exec
    PROVE  RunsHonest'
BY OtherRunHonest DEF RunsHonest

\* One run moves, and the others rely on what they did.
LEMMA RunsMove ==
    ASSUME TypeOK, Steady, RunsHonest, NEW w \in Worker,
           \A v \in Worker \ {w} : exec'[v] = exec[v],
           RunHonest(w)' /\ RunDone(w)'
    PROVE  RunsHonest'
BY OtherRunHonest DEF RunsHonest

LEMMA LocalKeeps ==
    ASSUME Steady, NEW l \in Local, LocalHonest(l)
    PROVE  /\ l.kind = "child" /\ l.stat = "MERGED" => \A c \in l.todo : Merged(c)'
           /\ \A c \in Child : l.snap[c].status = "MERGED" => Merged(c)'
           /\ l.kind = "merged" \/ l.seen = "MERGED" => root' = "merged"
<1>1. l.todo \subseteq Child
  BY DEF Local
<1> QED
  BY <1>1 DEF LocalHonest, Steady

\* Handlers that do not move keep their part of the invariant.
LEMMA HandlersKeep ==
    ASSUME Steady, NEW h \in Request, at[h] \in Local, LocalHonest(at[h]),
           at'[h] = at[h]
    PROVE  LocalHonest(at[h])'
BY LocalKeeps DEF LocalHonest

LEMMA EventsKeep ==
    ASSUME ServerTypeOK, Steady, EventsHonest, Quiet
    PROVE  EventsHonest'
BY DEF EventsHonest, Steady, Quiet, ServerTypeOK

\* What the host announces has happened.
LEMMA NewsHonest ==
    ASSUME ServerTypeOK, Steady, EventsHonest, HostNews,
           host' \in [Child -> PRState], root' \in PRState
    PROVE  /\ EventsHonest'
           /\ rootEvents' \subseteq RootEvent
           /\ childEvents' \in [Child -> SUBSET ChildEvent]
<1>1. rootEvents' \subseteq rootEvents \cup {"merged", "updated"}
         /\ ("merged" \in rootEvents' => "merged" \in rootEvents \/ root' # root)
  BY DEF HostNews
<1>2. root' # root => root' = "merged"
  BY DEF ServerTypeOK, TypeOK, PRState, Steady
<1>3. ASSUME NEW c \in Child
      PROVE  /\ childEvents'[c] \subseteq childEvents[c] \cup {"merged"}
             /\ "merged" \in childEvents'[c] => Merged(c)'
  <2>1. childEvents'[c]
           = childEvents[c] \cup (IF host'[c] # host[c] THEN {"merged"} ELSE {})
    BY DEF HostNews
  <2>2. host'[c] # host[c] => host'[c] = "merged"
    BY DEF ServerTypeOK, TypeOK, PRState, Steady, Merged
  <2> QED
    BY <2>1, <2>2 DEF EventsHonest, Steady, Merged
<1>4. rootEvents' \subseteq RootEvent
  BY <1>1 DEF ServerTypeOK, RootEvent
<1>5. childEvents' \in [Child -> SUBSET ChildEvent]
  <2>1. \A c \in Child : childEvents[c] \subseteq ChildEvent
    BY DEF ServerTypeOK
  <2>2. childEvents' = [c \in Child |-> childEvents'[c]]
    BY DEF HostNews
  <2>3. \A c \in Child : childEvents'[c] \in SUBSET ChildEvent
    BY <1>3, <2>1 DEF ChildEvent
  <2> QED
    BY <2>2, <2>3
<1> QED
  BY <1>1, <1>2, <1>3, <1>4, <1>5 DEF EventsHonest, Steady

\* A handler moves on: what remains to be shown of its step.
LEMMA HandlerMoves ==
    ASSUME ServerIInv, NEW h \in Request, NEW l \in Local, Move(h, l),
           TypeOK', Steady, RecordsAreTrue', RunsHonest',
           EventsHonest',
           rootEvents' \subseteq RootEvent,
           childEvents' \in [Child -> SUBSET ChildEvent],
           policy' \in Policies, facts' \subseteq Rule,
           \/ report' = report
           \/ report' \in {"none", "in_progress", "failure", "success"}
                 /\ GreenMeansMerged',
           LocalHonest(l)'
    PROVE  ServerIInv'
<1>1. at \in [Request -> Local] /\ at' = [at EXCEPT ![h] = l]
  BY DEF ServerIInv, ServerTypeOK, Move
<1>2. at' \in [Request -> Local] /\ at'[h] = l
         /\ \A g \in Request \ {h} : at'[g] = at[g]
  BY <1>1
<1>3. ServerTypeOK' /\ GreenMeansMerged'
  BY <1>2 DEF ServerIInv, ServerTypeOK, GreenMeansMerged, Steady
<1>4. ASSUME NEW g \in Request
      PROVE  LocalHonest(at[g])'
  <2>1. CASE g = h
    BY <1>2, <2>1 DEF LocalHonest
  <2>2. CASE g # h
    BY <1>1, <1>2, <2>2, HandlersKeep DEF ServerIInv
  <2> QED
    BY <2>1, <2>2
<1> QED
  BY <1>3, <1>4 DEF ServerIInv

\* A handler that only reads.
LEMMA HandlerReads ==
    ASSUME ServerIInv, NEW h \in Request, NEW l \in Local, Move(h, l),
           LocalHonest(l), UNCHANGED <<vars, report>>, Quiet, RulesUnchanged
    PROVE  ServerIInv'
<1>1. Steady /\ TypeOK' /\ RecordsAreTrue' /\ LocalHonest(l)'
  BY DEF Steady, vars, ServerIInv, ServerTypeOK, TypeOK, RecordsAreTrue,
         LocalHonest, Merged
<1>2. RunsHonest' /\ EventsHonest'
  BY <1>1, RunsKeep, EventsKeep DEF ServerIInv, ServerTypeOK, vars
<1> QED
  BY <1>1, <1>2, HandlerMoves
     DEF ServerIInv, ServerTypeOK, Quiet, RulesUnchanged

\* A handler that starts with an event.
LEMMA HandlerServes ==
    ASSUME ServerIInv, NEW h \in Request, NEW l \in Local, Move(h, l),
           LocalHonest(l), UNCHANGED <<vars, policy, facts, report>>,
           EventsHonest', rootEvents' \subseteq RootEvent,
           childEvents' \in [Child -> SUBSET ChildEvent]
    PROVE  ServerIInv'
<1>1. Steady /\ TypeOK' /\ RecordsAreTrue' /\ LocalHonest(l)'
  BY DEF Steady, vars, ServerIInv, ServerTypeOK, TypeOK, RecordsAreTrue,
         LocalHonest, Merged
<1>2. RunsHonest'
  BY <1>1, RunsKeep DEF ServerIInv, ServerTypeOK, vars
<1> QED
  BY <1>1, <1>2, HandlerMoves DEF ServerIInv, ServerTypeOK

\* A handler that writes the tables or the branch.
LEMMA HandlerWrites ==
    ASSUME ServerIInv, NEW h \in Request, NEW l \in Local, Move(h, l),
           LocalHonest(l), UNCHANGED <<host, root, exec, crashes, report>>,
           meta' \in MetaRow, row' \in [Child -> ChildRow],
           pointer' \in [Child -> PointerValue], RecordsAreTrue',
           Quiet \/ HostNews, RulesUnchanged
    PROVE  ServerIInv'
<1>1. Steady /\ TypeOK' /\ LocalHonest(l)'
  BY DEF Steady, ServerIInv, ServerTypeOK, TypeOK, LocalHonest, Merged
<1>2. RunsHonest'
  BY <1>1, RunsKeep DEF ServerIInv, ServerTypeOK
<1>3. /\ EventsHonest'
      /\ rootEvents' \subseteq RootEvent
      /\ childEvents' \in [Child -> SUBSET ChildEvent]
  BY <1>1, EventsKeep, NewsHonest DEF ServerIInv, ServerTypeOK, TypeOK, Quiet
<1> QED
  BY <1>1, <1>2, <1>3, HandlerMoves
     DEF ServerIInv, ServerTypeOK, RulesUnchanged

--------------------------------------------------------------------------------
(* The locals of a handler after a step of it.                             *)

LEMMA FreeHonest == Free \in Local /\ LocalHonest(Free)
<1>1. Free \in Local
  BY DEF Free, Local, Place, Kind, ChildStatus, Sha, MetaStatus, NoRow, ChildRow
<1>2. LocalHonest(Free)
  BY DEF Free, LocalHonest, NoRow
<1> QED
  BY <1>1, <1>2

LEMMA AnyPlaceHonest ==
    ASSUME NEW l \in Local, LocalHonest(l),
           NEW place \in Place \ {"create", "insert", "write", "close", "rules"}
    PROVE  /\ [l EXCEPT !.pc = place] \in Local
           /\ LocalHonest([l EXCEPT !.pc = place])
<1> DEFINE new == [l EXCEPT !.pc = place]
<1>1. new \in Local
  BY DEF Local
<1>2. /\ new.pc = place /\ new.kind = l.kind /\ new.stat = l.stat
      /\ new.todo = l.todo /\ new.snap = l.snap /\ new.seen = l.seen
  BY DEF Local
<1> HIDE DEF new
<1>3. LocalHonest(new)
  BY <1>2 DEF LocalHonest
<1> QED
  BY <1>1, <1>3 DEF new

LEMMA HandlerHere ==
    ASSUME ServerIInv, NEW h \in Request
    PROVE  at[h] \in Local /\ LocalHonest(at[h])
BY DEF ServerIInv, ServerTypeOK

LEMMA LeaveHonest ==
    ASSUME ServerIInv, NEW h \in Request, Leave(h),
           UNCHANGED <<vars, report>>, Quiet, RulesUnchanged
    PROVE  ServerIInv'
<1>1. "report" \in Place \ {"create", "insert", "write", "close", "rules"}
  BY DEF Place
<1> QED
  BY <1>1, HandlerHere, FreeHonest, AnyPlaceHonest, HandlerReads
     DEF Leave, To, Respond

LEMMA FewerToDo ==
    ASSUME NEW l \in Local, LocalHonest(l), NEW c
    PROVE  /\ [l EXCEPT !.todo = l.todo \ {c}] \in Local
           /\ LocalHonest([l EXCEPT !.todo = l.todo \ {c}])
<1> DEFINE new == [l EXCEPT !.todo = l.todo \ {c}]
<1>1. new \in Local
  BY DEF Local
<1>2. /\ new.pc = l.pc /\ new.kind = l.kind /\ new.stat = l.stat
      /\ new.todo = l.todo \ {c} /\ new.snap = l.snap /\ new.seen = l.seen
  BY DEF Local
<1> HIDE DEF new
<1>3. LocalHonest(new)
  BY <1>2 DEF LocalHonest
<1> QED
  BY <1>1, <1>3 DEF new

LEMMA UpsertedChildType ==
    ASSUME NEW child \in ChildRow, NEW status \in ChildStatus, NEW sha \in Sha
    PROVE  UpsertedChild(child, status, sha) \in ChildRow
BY DEF UpsertedChild, ChildRow, ChildStatus

--------------------------------------------------------------------------------
(* The events of the root.                                                 *)

LEMMA ServeRootHonest ==
    ASSUME ServerIInv, NEW h \in Request, NEW k \in RootEvent, ServeRoot(h, k)
    PROVE  ServerIInv'
<1> DEFINE pc == IF k = "merged" THEN "children" ELSE "discover"
           todo == IF k = "merged" THEN {} ELSE Tracked
           l == [Free EXCEPT !.pc = pc, !.kind = k, !.todo = todo,
                             !.seen = meta.status, !.lock = meta.lock]
<1>1. meta.status \in MetaStatus /\ meta.lock \in Nat
  BY DEF ServerIInv, ServerTypeOK, TypeOK, MetaRow
<1>2. pc \in {"children", "discover"} /\ todo \subseteq Child
  BY TrackedAssumption
<1>3. Move(h, l)
  BY DEF ServeRoot
<1> HIDE DEF pc, todo
<1>4. l \in Local
  <2>1. pc \in Place /\ k \in Kind
    BY <1>2 DEF Place, Kind, RootEvent
  <2> QED
    BY <1>1, <1>2, <2>1, FreeHonest DEF Local
<1>5. /\ l.pc \in {"children", "discover"} /\ l.kind = k /\ l.seen = meta.status
      /\ l.snap = Free.snap
  BY <1>2 DEF Free
<1> HIDE DEF l
<1>6. LocalHonest(l)
  BY <1>5, FreeHonest
     DEF LocalHonest, ServeRoot, ServerIInv, EventsHonest, RecordsAreTrue, RootEvent
<1>7. /\ rootEvents' = rootEvents \ {k} /\ childEvents' = childEvents
      /\ UNCHANGED <<vars, policy, facts, report>>
  BY DEF ServeRoot
<1>8. EventsHonest' /\ rootEvents' \subseteq RootEvent
  BY <1>7 DEF ServerIInv, ServerTypeOK, EventsHonest, Merged, vars
<1> QED
  BY <1>3, <1>4, <1>6, <1>7, <1>8, HandlerServes DEF ServerIInv, ServerTypeOK

LEMMA CreateMetaPRHonest ==
    ASSUME ServerIInv, NEW h \in Request, CreateMetaPR(h)
    PROVE  ServerIInv'
<1> DEFINE l == [at[h] EXCEPT !.pc = "discover", !.todo = Tracked,
                              !.lock = meta.lock]
<1>1. meta \in MetaRow /\ meta.lock \in Nat
  BY DEF ServerIInv, ServerTypeOK, TypeOK, MetaRow
<1>2. l \in Local
  BY <1>1, HandlerHere, TrackedAssumption DEF Local, Place
<1>3. /\ l.pc = "discover" /\ l.kind = at[h].kind /\ l.stat = at[h].stat
      /\ l.snap = at[h].snap /\ l.seen = at[h].seen
  BY HandlerHere DEF Local
<1>4. Move(h, l)
  BY DEF CreateMetaPR
<1> HIDE DEF l
<1>5. LocalHonest(l)
  <2>1. at[h].pc = "create"
    BY DEF CreateMetaPR
  <2> QED
    BY <1>3, <2>1, HandlerHere DEF LocalHonest
<1>6. meta' \in MetaRow /\ meta'.status = "OPEN"
  BY <1>1 DEF CreateMetaPR, UpsertedMeta, MetaRow, MetaStatus
<1>7. RecordsAreTrue'
  BY <1>6 DEF CreateMetaPR, ServerIInv, RecordsAreTrue, Merged
<1> QED
  BY <1>2, <1>4, <1>5, <1>6, <1>7, HandlerWrites
     DEF CreateMetaPR, ServerIInv, ServerTypeOK, TypeOK

LEMMA CloseMetaPRHonest ==
    ASSUME ServerIInv, NEW h \in Request, CloseMetaPR(h)
    PROVE  ServerIInv'
<1>1. "report" \in Place \ {"create", "insert", "write", "close", "rules"}
  BY DEF Place
<1>2. root = "merged"
  BY HandlerHere DEF CloseMetaPR, LocalHonest
<1>3. meta' \in MetaRow
  BY LockedUpdateType DEF CloseMetaPR, ServerIInv, ServerTypeOK, TypeOK, MetaStatus
<1>4. RecordsAreTrue'
  BY <1>2 DEF CloseMetaPR, ServerIInv, RecordsAreTrue, Merged
<1> QED
  BY <1>1, <1>3, <1>4, HandlerHere, AnyPlaceHonest, HandlerWrites
     DEF CloseMetaPR, To, ServerIInv, ServerTypeOK, TypeOK

\* A row that changes to what is true of the child.
LEMMA RowStaysTrue ==
    ASSUME ServerIInv, NEW c \in Child, NEW new \in ChildRow,
           row' = [row EXCEPT ![c] = new], UNCHANGED <<meta, host, root>>,
           new.status = "MERGED" => row[c].status = "MERGED" \/ Merged(c)
    PROVE  row' \in [Child -> ChildRow] /\ RecordsAreTrue'
BY DEF ServerIInv, ServerTypeOK, TypeOK, RecordsAreTrue, Merged

LEMMA DiscoverHonest ==
    ASSUME ServerIInv, NEW h \in Request, NEW c \in Child, Discover(h, c)
    PROVE  ServerIInv'
<1>1. row[c] \in ChildRow
  BY DEF ServerIInv, ServerTypeOK, TypeOK
<1>2. row' \in [Child -> ChildRow] /\ RecordsAreTrue'
  <2>1. CASE row' = row
    BY <2>1 DEF Discover, ServerIInv, ServerTypeOK, TypeOK, RecordsAreTrue, Merged
  <2>2. ASSUME NEW merged \in MergedAnswers(c),
               row' = [row EXCEPT ![c] =
                          UpsertedChild(row[c], IF merged THEN "MERGED" ELSE "OPEN",
                                        "head")]
        PROVE  row' \in [Child -> ChildRow] /\ RecordsAreTrue'
    <3> DEFINE status == IF merged THEN "MERGED" ELSE "OPEN"
               new == UpsertedChild(row[c], status, "head")
    <3>1. status \in ChildStatus /\ "head" \in Sha
      BY DEF ChildStatus, Sha
    <3>2. new \in ChildRow
      BY <1>1, <3>1, UpsertedChildType
    <3>3. merged => Merged(c)
      BY DEF MergedAnswers, Merged
    <3>4. new.status = "MERGED" => row[c].status = "MERGED" \/ Merged(c)
      BY <3>3 DEF UpsertedChild
    <3> HIDE DEF new
    <3> QED
      BY <2>2, <3>2, <3>4, RowStaysTrue DEF Discover, new
  <2> QED
    BY <2>1, <2>2 DEF Discover
<1> QED
  BY <1>2, HandlerHere, FewerToDo, HandlerWrites
     DEF Discover, ServerIInv, ServerTypeOK, TypeOK

--------------------------------------------------------------------------------
(* The events of a child.                                                  *)

LEMMA ServeChildHonest ==
    ASSUME ServerIInv, NEW h \in Request, NEW c \in Child, NEW k \in ChildEvent,
           ServeChild(h, c, k)
    PROVE  ServerIInv'
<1> DEFINE pc == IF c \in Known(row) THEN "write" ELSE "insert"
           stat == IF k = "merged" THEN "MERGED"
                   ELSE IF c \in Known(row) THEN row[c].status ELSE "OPEN"
           sha == IF k = "reviewed" THEN row[c].sha ELSE "head"
           l == [Free EXCEPT !.pc = pc, !.kind = "child", !.todo = {c},
                             !.stat = stat, !.sha = sha]
<1>1. /\ pc \in {"write", "insert"}
      /\ stat \in ChildStatus /\ sha \in Sha
      /\ stat = "MERGED" => k = "merged" \/ row[c].status = "MERGED"
  <2>1. row[c].status \in ChildStatus /\ row[c].sha \in Sha
    BY DEF ServerIInv, ServerTypeOK, TypeOK, ChildRow
  <2> QED
    BY <2>1 DEF ChildStatus, Sha
<1>2. Move(h, l)
  BY DEF ServeChild
<1> HIDE DEF pc, stat, sha
<1>3. l \in Local
  <2>1. pc \in Place /\ "child" \in Kind
    BY <1>1 DEF Place, Kind
  <2> QED
    BY <1>1, <2>1, FreeHonest DEF Local
<1>4. /\ l.pc = pc /\ l.kind = "child" /\ l.todo = {c} /\ l.stat = stat
      /\ l.seen = "OPEN" /\ l.snap = Free.snap
  BY DEF Free
<1> HIDE DEF l
<1>5. LocalHonest(l)
  BY <1>1, <1>4, FreeHonest
     DEF LocalHonest, ServeChild, ServerIInv, EventsHonest, RecordsAreTrue
<1>6. /\ childEvents' = [childEvents EXCEPT ![c] = childEvents[c] \ {k}]
      /\ rootEvents' = rootEvents
      /\ UNCHANGED <<vars, policy, facts, report>>
  BY DEF ServeChild
<1>7. EventsHonest' /\ childEvents' \in [Child -> SUBSET ChildEvent]
  BY <1>6 DEF ServerIInv, ServerTypeOK, EventsHonest, Merged, vars
<1> QED
  BY <1>2, <1>3, <1>5, <1>6, <1>7, HandlerServes DEF ServerIInv, ServerTypeOK

LEMMA InsertChildHonest ==
    ASSUME ServerIInv, NEW h \in Request, InsertChild(h)
    PROVE  ServerIInv'
<1> DEFINE l == [at[h] EXCEPT !.pc = "write"]
<1>1. at[h] \in Local /\ LocalHonest(at[h]) /\ at[h].kind = "child"
  BY HandlerHere DEF InsertChild, LocalHonest
<1>2. at[h].stat \in ChildStatus /\ at[h].sha \in Sha
  BY <1>1 DEF Local
<1>3. l \in Local
  BY <1>1 DEF Local, Place
<1>4. /\ l.pc = "write" /\ l.kind = at[h].kind /\ l.stat = at[h].stat
      /\ l.todo = at[h].todo /\ l.snap = at[h].snap /\ l.seen = at[h].seen
  BY <1>1 DEF Local
<1>5. Move(h, l)
  BY DEF InsertChild, To
<1> HIDE DEF l
<1>6. LocalHonest(l)
  BY <1>1, <1>4 DEF LocalHonest
<1>7. row' \in [Child -> ChildRow]
  <2>1. \A c \in Child : UpsertedChild(row[c], at[h].stat, at[h].sha) \in ChildRow
    BY <1>2, UpsertedChildType DEF ServerIInv, ServerTypeOK, TypeOK
  <2> QED
    BY <2>1 DEF InsertChild, ServerIInv, ServerTypeOK, TypeOK
<1>8. RecordsAreTrue'
  BY <1>1
     DEF InsertChild, ServerIInv, RecordsAreTrue, LocalHonest, UpsertedChild, Merged
<1> QED
  BY <1>3, <1>5, <1>6, <1>7, <1>8, HandlerWrites
     DEF InsertChild, ServerIInv, ServerTypeOK, TypeOK

LEMMA WriteChildHonest ==
    ASSUME ServerIInv, NEW h \in Request, WriteChild(h)
    PROVE  ServerIInv'
<1> DEFINE l == [at[h] EXCEPT !.pc = "parent", !.todo = {}]
<1>1. at[h] \in Local /\ LocalHonest(at[h]) /\ at[h].kind = "child"
  BY HandlerHere DEF WriteChild, LocalHonest
<1>2. at[h].stat \in ChildStatus /\ at[h].sha \in Sha
  BY <1>1 DEF Local
<1>3. l \in Local
  BY <1>1 DEF Local, Place
<1>4. /\ l.pc = "parent" /\ l.kind = at[h].kind /\ l.stat = at[h].stat
      /\ l.todo = {} /\ l.snap = at[h].snap /\ l.seen = at[h].seen
  BY <1>1 DEF Local
<1>5. Move(h, l)
  BY DEF WriteChild
<1> HIDE DEF l
<1>6. LocalHonest(l)
  BY <1>1, <1>4 DEF LocalHonest
<1>7. row' \in [Child -> ChildRow]
  <2>1. \A c \in Child : UpdatedChild(row[c], at[h].stat, at[h].sha) \in ChildRow
    BY <1>2, UpdatedChildType DEF ServerIInv, ServerTypeOK, TypeOK
  <2> QED
    BY <2>1 DEF WriteChild, ServerIInv, ServerTypeOK, TypeOK
<1>8. RecordsAreTrue'
  BY <1>1
     DEF WriteChild, ServerIInv, RecordsAreTrue, LocalHonest, UpdatedChild, Merged
<1> QED
  BY <1>3, <1>5, <1>6, <1>7, <1>8, HandlerWrites
     DEF WriteChild, ServerIInv, ServerTypeOK, TypeOK

LEMMA ReadParentHonest ==
    ASSUME ServerIInv, NEW h \in Request, ReadParent(h)
    PROVE  ServerIInv'
<1> DEFINE l == [at[h] EXCEPT !.pc = "children", !.seen = meta.status,
                              !.lock = meta.lock]
<1>1. meta.status \in MetaStatus /\ meta.lock \in Nat
  BY DEF ServerIInv, ServerTypeOK, TypeOK, MetaRow
<1>2. l \in Local
  BY <1>1, HandlerHere DEF Local, Place
<1>3. /\ l.pc = "children" /\ l.kind = at[h].kind /\ l.stat = at[h].stat
      /\ l.todo = at[h].todo /\ l.snap = at[h].snap /\ l.seen = meta.status
  BY HandlerHere DEF Local
<1>4. Move(h, l) \/ Respond(h)
  BY DEF ReadParent
<1> HIDE DEF l
<1>5. LocalHonest(l)
  BY <1>3, HandlerHere DEF LocalHonest, ServerIInv, RecordsAreTrue
<1> QED
  BY <1>2, <1>4, <1>5, FreeHonest, HandlerReads DEF ReadParent, Respond

LEMMA ReadChildrenHonest ==
    ASSUME ServerIInv, NEW h \in Request, ReadChildren(h)
    PROVE  ServerIInv'
<1> DEFINE next == AfterChildren(at[h])
           todo == CASE next = "discover" -> Tracked
                     [] next = "ask" -> {c \in Child : row[c].status = "OPEN"}
                     [] OTHER -> {}
           l == [at[h] EXCEPT !.pc = next, !.snap = row, !.todo = todo]
<1>1. /\ next \in {"report", "close", "align", "policy", "discover", "ask"}
      /\ next = "close" => at[h].kind = "merged"
      /\ next \in {"discover", "ask"} => at[h].kind # "child"
  BY DEF AfterChildren
<1>2. todo \subseteq Child /\ (next \notin {"discover", "ask"} => todo = {})
  BY <1>1, TrackedAssumption
<1> HIDE DEF next, todo
<1>3. l \in Local
  <2>1. next \in Place
    BY <1>1 DEF Place
  <2>2. row \in [Child -> ChildRow]
    BY DEF ServerIInv, ServerTypeOK, TypeOK
  <2>3. at[h] \in Local
    BY HandlerHere
  <2> QED
    BY <1>2, <2>1, <2>2, <2>3 DEF Local
<1>4. /\ l.pc = next /\ l.kind = at[h].kind /\ l.stat = at[h].stat
      /\ l.todo = todo /\ l.snap = row /\ l.seen = at[h].seen
  BY HandlerHere DEF Local
<1>5. Move(h, l)
  BY DEF ReadChildren, next, todo
<1> HIDE DEF l
<1>6. LocalHonest(l)
  BY <1>1, <1>2, <1>4, HandlerHere DEF LocalHonest, ServerIInv, RecordsAreTrue
<1> QED
  BY <1>3, <1>5, <1>6, HandlerReads DEF ReadChildren

LEMMA AlignMergedHonest ==
    ASSUME ServerIInv, NEW h \in Request, AlignMerged(h)
    PROVE  ServerIInv'
<1>1. "report" \in Place \ {"create", "insert", "write", "close", "rules"}
  BY DEF Place
<1>2. pointer' \in [Child -> PointerValue]
  BY DEF AlignMerged, MainHead, PointerValue, ServerIInv, ServerTypeOK, TypeOK
<1>3. RecordsAreTrue'
  BY DEF AlignMerged, ServerIInv, RecordsAreTrue, Merged
<1> QED
  BY <1>1, <1>2, <1>3, HandlerHere, AnyPlaceHonest, HandlerWrites
     DEF AlignMerged, To, ServerIInv, ServerTypeOK, TypeOK

--------------------------------------------------------------------------------
(* Queries, settings and the readiness.                                    *)

LEMMA ServeQueryHonest ==
    ASSUME ServerIInv, NEW h \in Request, NEW kind \in {"query", "branch"},
           ServeQuery(h, kind)
    PROVE  ServerIInv'
<1> DEFINE l == [Free EXCEPT !.pc = "children", !.kind = kind,
                             !.seen = meta.status, !.lock = meta.lock]
<1>1. meta.status \in MetaStatus /\ meta.lock \in Nat
  BY DEF ServerIInv, ServerTypeOK, TypeOK, MetaRow
<1>2. l \in Local
  BY <1>1, FreeHonest DEF Local, Place, Kind
<1>3. /\ l.pc = "children" /\ l.kind = kind /\ l.seen = meta.status
      /\ l.snap = Free.snap
  BY DEF Free
<1>4. Move(h, l)
  BY DEF ServeQuery
<1> HIDE DEF l
<1>5. LocalHonest(l)
  BY <1>3, FreeHonest DEF LocalHonest, ServerIInv, RecordsAreTrue
<1> QED
  BY <1>2, <1>4, <1>5, HandlerReads DEF ServeQuery

LEMMA AskChildHonest ==
    ASSUME ServerIInv, NEW h \in Request, NEW c \in Child, AskChild(h, c)
    PROVE  ServerIInv'
<1>1. at[h] \in Local /\ LocalHonest(at[h])
  BY HandlerHere
<1>2. PICK merged \in MergedAnswers(c) :
         /\ row' = IF merged
                   THEN [row EXCEPT ![c] =
                            UpdatedChild(row[c], "MERGED", at[h].snap[c].sha)]
                   ELSE row
         /\ Move(h, [at[h] EXCEPT
                !.todo = at[h].todo \ {c},
                !.snap[c].status = IF merged THEN "MERGED"
                                   ELSE at[h].snap[c].status,
                !.changed = at[h].changed \/ merged])
  BY DEF AskChild
<1>3. merged \in BOOLEAN /\ (merged => Merged(c))
  BY <1>2 DEF MergedAnswers, Merged
<1> DEFINE status == IF merged THEN "MERGED" ELSE at[h].snap[c].status
           l == [at[h] EXCEPT !.todo = at[h].todo \ {c},
                              !.snap[c].status = status,
                              !.changed = at[h].changed \/ merged]
<1>4. /\ at[h].snap \in [Child -> ChildRow] /\ at[h].snap[c].sha \in Sha
      /\ at[h].snap[c].status \in ChildStatus
  BY <1>1 DEF Local, ChildRow
<1>5. status \in ChildStatus /\ (status = "MERGED" => Merged(c))
  BY <1>1, <1>3, <1>4 DEF ChildStatus, LocalHonest
<1> DEFINE snap == [at[h].snap EXCEPT ![c].status = status]
<1>6. snap \in [Child -> ChildRow]
  <2>1. [at[h].snap[c] EXCEPT !.status = status] \in ChildRow
    BY <1>4, <1>5 DEF ChildRow
  <2> QED
    BY <1>4, <2>1
<1>7. \A d \in Child : snap[d].status = "MERGED" => Merged(d)
  <2>1. snap[c].status = status
    BY <1>4 DEF ChildRow
  <2>2. \A d \in Child \ {c} : snap[d] = at[h].snap[d]
    BY <1>4
  <2> QED
    BY <1>1, <1>5, <2>1, <2>2 DEF LocalHonest
<1>8. at[h].changed \in BOOLEAN
  BY <1>1 DEF Local
<1>9. /\ l = [at[h] EXCEPT !.todo = at[h].todo \ {c}, !.snap = snap,
                           !.changed = at[h].changed \/ merged]
      /\ Move(h, l)
  BY <1>1, <1>2 DEF Local
<1> HIDE DEF status, snap, l
<1>10. l \in Local
  BY <1>1, <1>3, <1>6, <1>8, <1>9 DEF Local
<1>11. /\ l.pc = "ask" /\ l.kind = at[h].kind /\ l.stat = at[h].stat
       /\ l.todo = at[h].todo \ {c} /\ l.snap = snap /\ l.seen = at[h].seen
  BY <1>1, <1>9 DEF Local, AskChild
<1>12. LocalHonest(l)
  BY <1>1, <1>7, <1>11 DEF LocalHonest
<1>13. row' \in [Child -> ChildRow] /\ RecordsAreTrue'
  <2>1. CASE ~ merged
    BY <1>2, <2>1 DEF AskChild, ServerIInv, ServerTypeOK, TypeOK, RecordsAreTrue, Merged
  <2>2. CASE merged
    <3>1. UpdatedChild(row[c], "MERGED", at[h].snap[c].sha) \in ChildRow
      BY <1>4, UpdatedChildType DEF ServerIInv, ServerTypeOK, TypeOK, ChildStatus
    <3> QED
      BY <1>2, <1>3, <2>2, <3>1, RowStaysTrue DEF AskChild
  <2> QED
    BY <2>1, <2>2
<1> QED
  BY <1>9, <1>10, <1>12, <1>13, HandlerWrites
     DEF AskChild, ServerIInv, ServerTypeOK, TypeOK

LEMMA ServeSettingsHonest ==
    ASSUME ServerIInv, NEW h \in Request, NEW p \in Policies, ServeSettings(h, p)
    PROVE  ServerIInv'
<1> DEFINE l == [Free EXCEPT !.pc = "list", !.kind = "settings"]
<1>1. l \in Local
  BY FreeHonest DEF Local, Place, Kind
<1>2. /\ l.pc = "list" /\ l.kind = "settings" /\ l.seen = Free.seen
      /\ l.snap = Free.snap
  BY DEF Free
<1>3. Move(h, l) \/ Move(h, Free)
  BY DEF ServeSettings
<1> HIDE DEF l
<1>4. LocalHonest(l)
  BY <1>2, FreeHonest DEF LocalHonest, Free
<1>5. UNCHANGED <<vars, facts, report>> /\ Quiet /\ policy' = p
  BY DEF ServeSettings
<1>6. Steady /\ TypeOK' /\ RecordsAreTrue' /\ LocalHonest(l)' /\ LocalHonest(Free)'
  BY <1>4, <1>5, FreeHonest
     DEF Steady, vars, ServerIInv, ServerTypeOK, TypeOK, RecordsAreTrue,
         LocalHonest, Merged
<1>7. RunsHonest' /\ EventsHonest'
  BY <1>5, <1>6, RunsKeep, EventsKeep DEF ServerIInv, ServerTypeOK, vars
<1>8. ASSUME NEW m \in {l, Free}, Move(h, m)
      PROVE  ServerIInv'
  BY <1>1, <1>5, <1>6, <1>7, <1>8, FreeHonest, HandlerMoves
     DEF ServerIInv, ServerTypeOK, Quiet
<1> QED
  BY <1>3, <1>8

\* A green check run is a merged root, whatever copy it is made from.
LEMMA ReportHonest ==
    ASSUME ServerIInv, NEW h \in Request, Report(h)
    PROVE  ServerIInv'
<1>1. UNCHANGED vars /\ Quiet /\ RulesUnchanged
  BY DEF Report
<1>2. report' = IF at[h].kind = "branch" THEN report ELSE Conclusion(at[h])
  BY DEF Report
<1>3. /\ Conclusion(at[h]) \in {"failure", "success", "in_progress"}
      /\ Conclusion(at[h]) = "success" /\ ~ RootOnGitLab => root = "merged"
  BY HandlerHere DEF Conclusion, LocalHonest
<1>4. GreenMeansMerged'
  BY <1>1, <1>2, <1>3 DEF GreenMeansMerged, ServerIInv, vars
<1>5. report' \in {"none", "in_progress", "failure", "success"}
  BY <1>2, <1>3 DEF ServerIInv, ServerTypeOK
<1> DEFINE l == [at[h] EXCEPT !.pc = "policy"]
<1>6. l \in Local /\ LocalHonest(l)
  <2>1. "policy" \in Place \ {"create", "insert", "write", "close", "rules"}
    BY DEF Place
  <2> QED
    BY <2>1, HandlerHere, AnyPlaceHonest
<1>7. Move(h, l) \/ Move(h, Free)
  BY DEF Report, To, Respond
<1> HIDE DEF l
<1>8. Steady /\ TypeOK' /\ RecordsAreTrue'
  BY <1>1
     DEF Steady, vars, ServerIInv, ServerTypeOK, TypeOK, RecordsAreTrue, Merged
<1>9. RunsHonest' /\ EventsHonest'
  BY <1>1, <1>8, RunsKeep, EventsKeep DEF ServerIInv, ServerTypeOK, vars
<1>10. /\ rootEvents' \subseteq RootEvent
       /\ childEvents' \in [Child -> SUBSET ChildEvent]
       /\ policy' \in Policies /\ facts' \subseteq Rule
  BY <1>1 DEF ServerIInv, ServerTypeOK, Quiet, RulesUnchanged
<1>11. ASSUME NEW m \in Local, LocalHonest(m), Move(h, m)
       PROVE  ServerIInv'
  <2>1. LocalHonest(m)'
    BY <1>1, <1>11 DEF LocalHonest, Merged, vars
  <2> QED
    BY <1>4, <1>5, <1>8, <1>9, <1>10, <1>11, <2>1, HandlerMoves
<1> QED
  BY <1>6, <1>7, <1>11, FreeHonest

LEMMA ReadPolicyHonest ==
    ASSUME ServerIInv, NEW h \in Request, ReadPolicy(h)
    PROVE  ServerIInv'
<1>1. CASE ~ Willing(at[h])
  BY <1>1, LeaveHonest DEF ReadPolicy
<1>2. CASE Willing(at[h])
  <2> DEFINE rules == RulesToAsk(at[h])
             l == [at[h] EXCEPT !.pc = "rules", !.rules = rules]
  <2>1. rules \subseteq Rule
    BY DEF RulesToAsk
  <2>2. Move(h, l)
    BY <1>2 DEF ReadPolicy
  <2> HIDE DEF rules
  <2>3. l \in Local
    BY <2>1, HandlerHere DEF Local, Place
  <2>4. /\ l.pc = "rules" /\ l.kind = at[h].kind /\ l.stat = at[h].stat
        /\ l.todo = at[h].todo /\ l.snap = at[h].snap /\ l.seen = at[h].seen
    BY HandlerHere DEF Local
  <2> HIDE DEF l
  <2>5. LocalHonest(l)
    BY <1>2, <2>4, HandlerHere DEF LocalHonest, Willing
  <2> QED
    BY <2>2, <2>3, <2>5, HandlerReads DEF ReadPolicy
<1> QED
  BY <1>1, <1>2

LEMMA AskRuleHonest ==
    ASSUME ServerIInv, NEW h \in Request, NEW r \in Rule, AskRule(h, r)
    PROVE  ServerIInv'
<1>1. UNCHANGED <<vars, report>> /\ Quiet /\ RulesUnchanged
  BY DEF AskRule
<1> DEFINE l == [at[h] EXCEPT !.rules = at[h].rules \ {r}]
<1>2. Move(h, l) \/ Leave(h)
  BY DEF AskRule
<1>3. l \in Local
  BY HandlerHere DEF Local
<1>4. /\ l.pc = at[h].pc /\ l.kind = at[h].kind /\ l.stat = at[h].stat
      /\ l.todo = at[h].todo /\ l.snap = at[h].snap /\ l.seen = at[h].seen
  BY HandlerHere DEF Local
<1> HIDE DEF l
<1>5. LocalHonest(l)
  BY <1>4, HandlerHere DEF LocalHonest
<1> QED
  BY <1>1, <1>2, <1>3, <1>5, LeaveHonest, HandlerReads

\* The handlers' steps that only change the place.
LEMMA PlaceStepHonest ==
    ASSUME ServerIInv, NEW h \in Request,
           Discovered(h) \/ WriteChildFails(h) \/ Asked(h) \/ NotOpen(h)
              \/ CascadeReturned(h)
    PROVE  ServerIInv'
<1>1. {"reread", "policy", "report"}
         \subseteq Place \ {"create", "insert", "write", "close", "rules"}
  BY DEF Place
<1>2. UNCHANGED <<vars, report>> /\ Quiet /\ RulesUnchanged
  BY DEF Discovered, WriteChildFails, Asked, NotOpen, CascadeReturned
<1>3. ASSUME NEW place \in {"reread", "policy", "report"}, To(h, place)
      PROVE  ServerIInv'
  BY <1>1, <1>2, <1>3, HandlerHere, AnyPlaceHonest, HandlerReads DEF To
<1>4. CASE Discovered(h)
  BY <1>3, <1>4 DEF Discovered
<1>5. CASE WriteChildFails(h)
  BY <1>2, <1>5, FreeHonest, HandlerReads DEF WriteChildFails, Respond
<1>6. CASE Asked(h)
  BY <1>3, <1>6 DEF Asked
<1>7. CASE NotOpen(h) \/ CascadeReturned(h)
  BY <1>2, <1>7, LeaveHonest DEF NotOpen, CascadeReturned
<1> QED
  BY <1>4, <1>5, <1>6, <1>7

\* The rows are judged with a copy; the run that is started reads them again.
LEMMA TriggerHonest ==
    ASSUME ServerIInv, NEW h \in Request, TriggerCascade(h)
    PROVE  ServerIInv'
<1>1. TypeOK /\ h \in Worker
  BY DEF ServerIInv, ServerTypeOK, Worker
<1>2. /\ UNCHANGED <<row, host, root, pointer, crashes, report>>
      /\ Quiet /\ RulesUnchanged
      /\ meta' = LockedUpdate(meta, "MERGING", at[h].lock)
      /\ Goto(h, "fetch")
  BY DEF TriggerCascade
<1>3. meta' \in MetaRow
  BY <1>1, <1>2, LockedUpdateType DEF TypeOK, MetaStatus
<1>4. exec' \in [Worker -> Exec]
  BY <1>1, <1>2, GotoType DEF PC
<1>5. Steady /\ TypeOK'
  BY <1>1, <1>2, <1>3, <1>4 DEF Steady, TypeOK, Merged
<1>6. RecordsAreTrue'
  BY <1>2 DEF ServerIInv, RecordsAreTrue, LockedUpdate, Merged
<1>7. RunsHonest'
  <2>1. RunHonest(h)' /\ RunDone(h)'
    BY <1>1, <1>2, <1>5, GotoHonest DEF ServerIInv, RunsHonest
  <2>2. \A v \in Worker \ {h} : exec'[v] = exec[v]
    BY <1>1, <1>2, BecomeOnly DEF Goto
  <2> QED
    BY <1>1, <1>5, <2>1, <2>2, RunsMove DEF ServerIInv
<1>8. EventsHonest'
  BY <1>2, <1>5, EventsKeep DEF ServerIInv
<1> DEFINE l == [at[h] EXCEPT !.pc = "cascade"]
<1>9. l \in Local /\ LocalHonest(l)
  <2>1. "cascade" \in Place \ {"create", "insert", "write", "close", "rules"}
    BY DEF Place
  <2> QED
    BY <2>1, HandlerHere, AnyPlaceHonest
<1>10. Move(h, l)
  BY DEF TriggerCascade, To
<1> HIDE DEF l
<1>11. UNCHANGED <<host, root, report>>
  BY <1>2
<1>12. Quiet /\ RulesUnchanged
  BY <1>2
<1>13. /\ rootEvents' \subseteq RootEvent
       /\ childEvents' \in [Child -> SUBSET ChildEvent]
       /\ policy' \in Policies /\ facts' \subseteq Rule
  BY <1>12 DEF ServerIInv, ServerTypeOK, Quiet, RulesUnchanged
<1>14. ASSUME NEW m \in Local, LocalHonest(m), Move(h, m)
       PROVE  ServerIInv'
  <2>1. LocalHonest(m)'
    BY <1>11, <1>14 DEF LocalHonest, Merged
  <2> QED
    BY <1>5, <1>6, <1>7, <1>8, <1>11, <1>13, <1>14, <2>1, HandlerMoves
<1> QED
  BY <1>9, <1>10, <1>14

LEMMA HandleHonest ==
    ASSUME ServerIInv, NEW h \in Request, Handle(h)
    PROVE  ServerIInv'
BY CreateMetaPRHonest, CloseMetaPRHonest, DiscoverHonest, InsertChildHonest,
   WriteChildHonest, ReadParentHonest, ReadChildrenHonest, AlignMergedHonest,
   AskChildHonest, ReportHonest, ReadPolicyHonest, AskRuleHonest,
   PlaceStepHonest, TriggerHonest
   DEF Handle

--------------------------------------------------------------------------------
(* The engine and the rest of the world.                                   *)

\* No handler moves: what remains to be shown of the step.
LEMMA WorldMoves ==
    ASSUME ServerIInv, UNCHANGED <<at, report>>, TypeOK', Steady,
           RecordsAreTrue', RunsHonest', EventsHonest',
           rootEvents' \subseteq RootEvent,
           childEvents' \in [Child -> SUBSET ChildEvent],
           policy' \in Policies, facts' \subseteq Rule
    PROVE  ServerIInv'
<1>1. ServerTypeOK' /\ GreenMeansMerged'
  BY DEF ServerIInv, ServerTypeOK, GreenMeansMerged, Steady
<1>2. \A h \in Request : LocalHonest(at[h])'
  BY HandlersKeep DEF ServerIInv, ServerTypeOK
<1> QED
  BY <1>1, <1>2 DEF ServerIInv

LEMMA CascadeHonest ==
    ASSUME ServerIInv, NEW w \in Worker, Cascade(w)
    PROVE  ServerIInv'
<1>1. TypeOK /\ RecordsAreTrue /\ RunHonest(w) /\ RunDone(w)
  BY DEF ServerIInv, ServerTypeOK, RunsHonest
<1>2. ExecuteCascadeMerge(w) /\ HostNews /\ UNCHANGED <<at, policy, facts, report>>
  BY DEF Cascade
<1>3. Steady
  BY <1>1, <1>2, RunStepSteady
<1>4. TypeOK'
  BY <1>1, <1>2, ExecStepType, SharedStepType DEF TypeOK
<1>5. RecordsAreTrue'
  BY <1>1, <1>2, RunRecords
<1>6. RunsHonest'
  BY <1>1, <1>2, <1>3, OwnRunHonest, OtherRuns, RunsMove DEF ServerIInv
<1>7. /\ EventsHonest'
      /\ rootEvents' \subseteq RootEvent
      /\ childEvents' \in [Child -> SUBSET ChildEvent]
  BY <1>2, <1>3, <1>4, NewsHonest DEF ServerIInv, TypeOK
<1> QED
  BY <1>2, <1>3, <1>4, <1>5, <1>6, <1>7, WorldMoves DEF ServerIInv, ServerTypeOK

\* What starts a run: the loop, or a retry that has set MERGING.
LEMMA StartHonestly ==
    ASSUME ServerIInv, NEW w \in Worker, Goto(w, "fetch"),
           UNCHANGED <<row, host, root, pointer, crashes, serverVars>>,
           meta' \in MetaRow, meta' = meta \/ meta'.status = "MERGING"
    PROVE  ServerIInv'
<1>1. TypeOK
  BY DEF ServerIInv, ServerTypeOK
<1>2. exec' \in [Worker -> Exec]
  BY <1>1, GotoType DEF PC
<1>3. Steady /\ TypeOK'
  BY <1>1, <1>2 DEF Steady, TypeOK, Merged
<1>4. RecordsAreTrue'
  BY DEF ServerIInv, RecordsAreTrue, Merged
<1>5. RunsHonest'
  <2>1. RunHonest(w)' /\ RunDone(w)'
    BY <1>1, <1>3, GotoHonest DEF ServerIInv, RunsHonest
  <2>2. \A v \in Worker \ {w} : exec'[v] = exec[v]
    BY <1>1, BecomeOnly DEF Goto
  <2> QED
    BY <1>1, <1>3, <2>1, <2>2, RunsMove DEF ServerIInv
<1>6. EventsHonest'
  BY <1>3, EventsKeep DEF ServerIInv, serverVars, Quiet
<1> QED
  BY <1>3, <1>4, <1>5, <1>6, WorldMoves
     DEF ServerIInv, ServerTypeOK, serverVars

LEMMA LoopsHonest ==
    ASSUME ServerIInv, Loops
    PROVE  ServerIInv'
<1>1. PICK w \in Loop : ReconcileAllPending(w)
  BY DEF Loops
<1>2. w \in Worker /\ meta \in MetaRow
  BY DEF Worker, ServerIInv, ServerTypeOK, TypeOK
<1> QED
  BY <1>1, <1>2, StartHonestly DEF Loops, ReconcileAllPending

LEMMA RetryHonest ==
    ASSUME ServerIInv, NEW h \in Request, Retry(h)
    PROVE  ServerIInv'
<1>1. h \in Worker /\ meta \in MetaRow
  BY DEF Worker, ServerIInv, ServerTypeOK, TypeOK
<1>2. meta' \in MetaRow
  BY <1>1, LockedUpdateType DEF Retry, RetryMerge, MetaStatus
<1>3. meta'.status = "MERGING"
  BY DEF Retry, RetryMerge, LockedUpdate, HoldsLock
<1> QED
  BY <1>1, <1>2, <1>3, StartHonestly DEF Retry, RetryMerge

LEMMA HandlerDiesHonest ==
    ASSUME ServerIInv, NEW h \in Request, HandlerDies(h)
    PROVE  ServerIInv'
<1>1. TypeOK /\ h \in Worker
  BY DEF ServerIInv, ServerTypeOK, Worker
<1>2. /\ UNCHANGED <<meta, row, host, root, pointer, report>>
      /\ Quiet /\ RulesUnchanged /\ Return(h) /\ Move(h, Free)
      /\ crashes < MaxCrashes /\ crashes' = crashes + 1
  BY DEF HandlerDies, Respond
<1>3. exec' \in [Worker -> Exec]
  BY <1>1, <1>2, ReturnType
<1>4. Steady /\ TypeOK'
  BY <1>1, <1>2, <1>3, BoundAssumption DEF Steady, TypeOK, Merged
<1>5. RecordsAreTrue' /\ LocalHonest(Free)'
  BY <1>2, FreeHonest DEF ServerIInv, RecordsAreTrue, LocalHonest, Merged
<1>6. RunsHonest'
  <2>1. RunHonest(h)' /\ RunDone(h)'
    BY <1>1, <1>2, IdleHonest
  <2>2. \A v \in Worker \ {h} : exec'[v] = exec[v]
    BY <1>1, <1>2, BecomeOnly DEF Return
  <2> QED
    BY <1>1, <1>4, <2>1, <2>2, RunsMove DEF ServerIInv
<1>7. EventsHonest'
  BY <1>2, <1>4, EventsKeep DEF ServerIInv
<1> QED
  BY <1>2, <1>4, <1>5, <1>6, <1>7, FreeHonest, HandlerMoves
     DEF ServerIInv, ServerTypeOK, Quiet, RulesUnchanged

\* People merge, push and review; rules come to hold and stop holding.
LEMMA PeopleHonest ==
    ASSUME ServerIInv,
           \/ \E c \in Child : MergedOnHost(c)
           \/ RootMergedOnHost
           \/ \E c \in Child, k \in ChildEvent : Touched(c, k)
           \/ \E r \in Rule : RuleHolds(r) \/ RuleBroken(r)
    PROVE  ServerIInv'
<1>1. TypeOK
  BY DEF ServerIInv, ServerTypeOK
<1>2. CASE (\E c \in Child : MergedOnHost(c)) \/ RootMergedOnHost
  <2>1. /\ UNCHANGED <<meta, row, pointer, exec, crashes, at, report>>
        /\ HostNews /\ RulesUnchanged
    BY <1>2 DEF MergedOnHost, RootMergedOnHost
  <2>2. Steady /\ host' \in [Child -> PRState] /\ root' \in PRState
    BY <1>1, <1>2 DEF MergedOnHost, RootMergedOnHost, Steady, TypeOK, PRState, Merged
  <2>3. TypeOK'
    BY <1>1, <2>1, <2>2 DEF TypeOK
  <2>4. RecordsAreTrue'
    BY <2>1, <2>2 DEF ServerIInv, RecordsAreTrue, Steady
  <2>5. RunsHonest'
    BY <1>1, <2>1, <2>2, RunsKeep DEF ServerIInv
  <2>6. /\ EventsHonest'
        /\ rootEvents' \subseteq RootEvent
        /\ childEvents' \in [Child -> SUBSET ChildEvent]
    BY <2>1, <2>2, NewsHonest DEF ServerIInv
  <2> QED
    BY <2>1, <2>2, <2>3, <2>4, <2>5, <2>6, WorldMoves
       DEF ServerIInv, ServerTypeOK, RulesUnchanged
<1>3. ASSUME UNCHANGED <<vars, at, report>>, EventsHonest',
             rootEvents' \subseteq RootEvent,
             childEvents' \in [Child -> SUBSET ChildEvent],
             policy' \in Policies, facts' \subseteq Rule
      PROVE  ServerIInv'
  <2>1. Steady /\ TypeOK' /\ RecordsAreTrue'
    BY <1>1, <1>3 DEF Steady, TypeOK, ServerIInv, RecordsAreTrue, Merged, vars
  <2> QED
    BY <1>1, <1>3, <2>1, RunsKeep, WorldMoves DEF ServerIInv, vars
<1>4. CASE \E c \in Child, k \in ChildEvent : Touched(c, k)
  <2>1. PICK c \in Child, k \in ChildEvent : Touched(c, k)
    BY <1>4
  <2>2. /\ k \in {"pushed", "reviewed"}
        /\ childEvents' = [childEvents EXCEPT ![c] = childEvents[c] \cup {k}]
        /\ UNCHANGED <<vars, at, rootEvents, policy, facts, report>>
    BY <2>1 DEF Touched, ChildEvent, ServeKinds
  <2>3. childEvents' \in [Child -> SUBSET ChildEvent]
    BY <2>2 DEF ServerIInv, ServerTypeOK
  <2>4. EventsHonest'
    BY <2>2 DEF ServerIInv, ServerTypeOK, EventsHonest, Merged, vars
  <2> QED
    BY <1>3, <2>2, <2>3, <2>4 DEF ServerIInv, ServerTypeOK
<1>5. CASE \E r \in Rule : RuleHolds(r) \/ RuleBroken(r)
  <2>1. /\ UNCHANGED <<vars, at, childEvents, policy, report>>
        /\ rootEvents' \subseteq rootEvents \cup {"updated"}
        /\ facts' \subseteq Rule
    BY <1>5 DEF RuleHolds, RuleBroken, RuleInUse, ServerIInv, ServerTypeOK
  <2>2. EventsHonest'
    BY <2>1 DEF ServerIInv, EventsHonest, Merged, vars
  <2> QED
    BY <1>3, <2>1, <2>2 DEF ServerIInv, ServerTypeOK, RootEvent
<1> QED
  BY <1>2, <1>4, <1>5

LEMMA ServerStepHonest ==
    ASSUME ServerIInv, [ServerNext]_allVars
    PROVE  ServerIInv'
<1>1. CASE UNCHANGED allVars
  <2>1. Steady /\ TypeOK' /\ RecordsAreTrue' /\ EventsHonest'
    BY <1>1
       DEF Steady, TypeOK, ServerIInv, ServerTypeOK, RecordsAreTrue,
           EventsHonest, Merged, allVars, vars, serverVars
  <2> QED
    BY <1>1, <2>1, RunsKeep, WorldMoves
       DEF ServerIInv, ServerTypeOK, allVars, vars, serverVars
<1> QED
  BY <1>1, HandleHonest, ServeRootHonest, ServeChildHonest, ServeQueryHonest,
     ServeSettingsHonest, RetryHonest, HandlerDiesHonest, CascadeHonest,
     LoopsHonest, PeopleHonest
     DEF ServerNext, Deliver

LEMMA ServerInitHonest ==
    ASSUME ServerInit
    PROVE  ServerIInv
<1>1. TypeOK
  BY IdleType, BoundAssumption
     DEF ServerInit, Init, TypeOK, MetaRow, MetaStatus, ChildRow, ChildStatus,
         Sha, NoRow, PRState, PointerValue
<1> DEFINE late == [Free EXCEPT !.pc = "create", !.kind = "updated"]
<1>2. late \in Local
  BY FreeHonest DEF Local, Place, Kind
<1>3. LocalHonest(late)
  <2>1. /\ late.pc = "create" /\ late.kind = "updated" /\ late.seen = Free.seen
        /\ late.snap = Free.snap /\ late.seen = "OPEN"
    BY DEF Free
  <2> HIDE DEF late
  <2> QED
    BY <2>1, FreeHonest DEF LocalHonest
<1>4. \A h \in Request : at[h] = late \/ at[h] = Free
  BY DEF ServerInit
<1> HIDE DEF late
<1>5. at \in [Request -> Local] /\ \A h \in Request : LocalHonest(at[h])
  BY <1>2, <1>3, <1>4, FreeHonest DEF ServerInit, late
<1>6. childEvents \in [Child -> SUBSET ChildEvent]
         /\ \A c \in Child : "merged" \notin childEvents[c]
  BY DEF ServerInit, ChildEvent
<1>7. ServerTypeOK
  BY <1>1, <1>5, <1>6 DEF ServerInit, ServerTypeOK, RuleInUse
<1>8. RecordsAreTrue
  BY DEF ServerInit, Init, RecordsAreTrue, NoRow
<1>9. GreenMeansMerged /\ EventsHonest
  BY <1>6 DEF ServerInit, GreenMeansMerged, EventsHonest
<1>10. RunsHonest
  <2>1. \A w \in Worker : exec[w] = Idle
    BY DEF ServerInit, Init
  <2>2. Idle.pc = "idle" /\ \A c \in Child : Idle.job[c] = "none"
    BY DEF Idle
  <2> QED
    BY <2>1, <2>2 DEF RunsHonest, RunHonest, RunDone, BeforeSnapshot
<1> QED
  BY <1>5, <1>7, <1>8, <1>9, <1>10 DEF ServerIInv

--------------------------------------------------------------------------------
(* The theorems.                                                           *)

THEOREM ServerIInvariant == ServerSpec => []ServerIInv
<1>1. ServerInit => ServerIInv
  BY ServerInitHonest
<1>2. ServerIInv /\ [ServerNext]_allVars => ServerIInv'
  BY ServerStepHonest
<1> QED
  BY <1>1, <1>2, PTL DEF ServerSpec

\* Rows, copies of rows, events and check runs call merged only what is, with any
\* number of handlers and runs that write from stale copies
\* (processNormalizedEvent, handlePRStatusQuery, ExecuteCascadeMerge).
THEOREM ServerInvariant == ServerSpec => []ServerInv
BY ServerIInvariant, ServerIInvImplies, PTL

\* Handlers do not merge the root, and only one that inserts the Meta PR changes
\* the row of it outside a compare-and-set.
Counted == meta' = meta \/ meta'.lock = meta.lock + 1

LEMMA HandleShared ==
    ASSUME meta \in MetaRow, NEW h \in Request, Handle(h)
    PROVE  /\ root' = root
           /\ at[h].pc # "create" => Counted
<1>1. CASE CreateMetaPR(h)
  BY <1>1 DEF CreateMetaPR
<1>2. CASE CloseMetaPR(h) \/ TriggerCascade(h)
  <2>1. root' = root /\ \E s \in MetaStatus : meta' = LockedUpdate(meta, s, at[h].lock)
    BY <1>2 DEF CloseMetaPR, TriggerCascade, MetaStatus
  <2> QED
    BY <2>1, LockedUpdateBumps DEF Counted
<1>3. ASSUME UNCHANGED <<meta, root>>
      PROVE  root' = root /\ (at[h].pc # "create" => Counted)
  BY <1>3 DEF Counted
<1>4. CASE \E c \in Child : Discover(h, c) \/ AskChild(h, c)
  BY <1>3, <1>4 DEF Discover, AskChild
<1>5. CASE InsertChild(h) \/ WriteChild(h) \/ AlignMerged(h)
  BY <1>3, <1>5 DEF InsertChild, WriteChild, AlignMerged
<1>6. CASE Discovered(h) \/ WriteChildFails(h) \/ ReadParent(h) \/ ReadChildren(h)
  BY <1>3, <1>6 DEF Discovered, WriteChildFails, ReadParent, ReadChildren, vars
<1>7. CASE \/ Asked(h) \/ Report(h) \/ ReadPolicy(h) \/ NotOpen(h)
           \/ CascadeReturned(h) \/ \E r \in Rule : AskRule(h, r)
  BY <1>3, <1>7 DEF Asked, Report, ReadPolicy, NotOpen, CascadeReturned, AskRule, vars
<1> QED
  BY <1>1, <1>2, <1>4, <1>5, <1>6, <1>7 DEF Handle

\* The other steps that are no step of a run merge the root with no run moving,
\* or leave it alone.
LEMMA OthersShared ==
    ASSUME meta \in MetaRow, ServerNext,
           \A w \in Worker : ~ Cascade(w), \A h \in Request : ~ Handle(h)
    PROVE  Counted /\ (root' = root \/ exec' = exec)
<1>1. ASSUME UNCHANGED <<meta, root>>
      PROVE  Counted /\ (root' = root \/ exec' = exec)
  BY <1>1 DEF Counted
<1>2. ASSUME UNCHANGED <<meta, exec>>
      PROVE  Counted /\ (root' = root \/ exec' = exec)
  BY <1>2 DEF Counted
<1>3. ASSUME NEW h \in Request,
             \/ Deliver(h)
             \/ \E kind \in {"query", "branch"} : ServeQuery(h, kind)
             \/ \E p \in Policies : ServeSettings(h, p)
      PROVE  UNCHANGED <<meta, root>>
  BY <1>3 DEF Deliver, ServeRoot, ServeChild, ServeQuery, ServeSettings, vars
<1>4. ASSUME NEW h \in Request, Retry(h)
      PROVE  Counted /\ root' = root
  <2>1. root' = root /\ meta' = LockedUpdate(meta, "MERGING", meta.lock)
    BY <1>4 DEF Retry, RetryMerge
  <2> QED
    BY <2>1, LockedUpdateBumps DEF Counted
<1>5. ASSUME NEW h \in Request, HandlerDies(h)
      PROVE  UNCHANGED <<meta, root>>
  BY <1>5 DEF HandlerDies
<1>6. ASSUME Loops
      PROVE  UNCHANGED <<meta, root>>
  BY <1>6 DEF Loops, ReconcileAllPending
<1>7. ASSUME (\E c \in Child : MergedOnHost(c)) \/ RootMergedOnHost
      PROVE  UNCHANGED <<meta, exec>>
  BY <1>7 DEF MergedOnHost, RootMergedOnHost
<1>8. ASSUME \/ \E c \in Child, k \in ChildEvent : Touched(c, k)
             \/ \E r \in Rule : RuleHolds(r) \/ RuleBroken(r)
      PROVE  UNCHANGED <<meta, exec>>
  BY <1>8 DEF Touched, RuleHolds, RuleBroken, vars
<1> QED
  BY <1>1, <1>2, <1>3, <1>4, <1>5, <1>6, <1>7, <1>8 DEF ServerNext

\* A step of a run that merges the root comes after its batches.
LEMMA RootStepAfterSnapshot ==
    ASSUME ServerIInv, [ServerNext]_allVars, root' # root, exec' # exec
    PROVE  \E w \in Worker : /\ exec'[w] # exec[w]
                             /\ \A c \in Known(exec[w].snap) : Merged(c)
<1>1. PICK w \in Worker : Cascade(w)
  <2>1. ServerNext
    BY DEF allVars, vars
  <2>2. meta \in MetaRow
    BY DEF ServerIInv, ServerTypeOK, TypeOK
  <2> QED
    BY <2>1, <2>2, HandleShared, OthersShared
<1>2. RootOk(w) \/ RootLost(w)
  BY <1>1
     DEF Cascade, ExecuteCascadeMerge, FetchMeta, FetchChildren, Resume,
         AcquireLock, PlanBatches, StartBatch, MarkMerging, MergeOk, MergeLost,
         MergeError, RecordMerged, RecordFailed, EndBatch, BatchesDone,
         AlignPointers, AlignError, RootError, Finish, Halt
<1>3. exec[w].pc = "root" /\ (Goto(w, "finish") \/ Goto(w, "halt"))
  BY <1>2 DEF RootOk, RootLost
<1>4. TypeOK /\ RunDone(w)
  BY DEF ServerIInv, ServerTypeOK, RunsHonest
<1>5. exec'[w] # exec[w]
  BY <1>3, <1>4, GotoFields
<1> QED
  BY <1>3, <1>4, <1>5 DEF RunDone

\* The run that merges the root has seen every child of its snapshot merged,
\* whatever webhooks and queries write under it (ExecuteCascadeMerge).
THEOREM RootMergedAfterSnapshot == ServerSpec => RootAfterSnapshot
<1>1. ASSUME ServerIInv, [ServerNext]_allVars
      PROVE  [root' # root /\ exec' # exec =>
                 \E w \in Worker :
                     /\ exec'[w] # exec[w]
                     /\ \A c \in Known(exec[w].snap) : Merged(c)]_allVars
  BY <1>1, RootStepAfterSnapshot
<1> QED
  BY <1>1, ServerIInvariant, PTL DEF ServerSpec, RootAfterSnapshot

\* A cascade that starts by itself finds every child its handler knew merged on
\* the host (evaluateMetaPRReadiness).
THEOREM CascadeTriggeredAfterMerges == ServerSpec => TriggerAfterMerges
<1>1. ASSUME ServerIInv, [ServerNext]_allVars
      PROVE  [\A h \in Request : Triggered(h) =>
                 \A c \in Known(at[h].snap) : Merged(c)]_allVars
  <2> SUFFICES ASSUME NEW h \in Request, Triggered(h),
                      NEW c \in Known(at[h].snap)
               PROVE  Merged(c)
    OBVIOUS
  <2>1. at[h] \in Local /\ LocalHonest(at[h])
    BY <1>1, HandlerHere
  <2>2. Known(at[h].snap) \subseteq Child
    BY <2>1 DEF Local, Known
  <2> QED
    BY <2>1, <2>2 DEF Triggered, LocalHonest
<1> QED
  BY <1>1, ServerIInvariant, PTL DEF ServerSpec, TriggerAfterMerges

\* With no handler about to insert the Meta PR again, lock_version counts every
\* change of its status: a compare-and-set that succeeds has missed none
\* (UpdateMetaPRStatus).
NobodyInserts == \A h \in Request : at[h].pc # "create"

LEMMA PlacesOnly ==
    ASSUME ServerIInv, NobodyInserts, NEW h \in Request, NEW l \in Local,
           l.pc # "create", Move(h, l)
    PROVE  NobodyInserts'
<1>1. at \in [Request -> Local]
  BY DEF ServerIInv, ServerTypeOK
<1> QED
  BY <1>1 DEF NobodyInserts, Move

LEMMA ToPlace ==
    ASSUME ServerIInv, NobodyInserts, NEW h \in Request,
           NEW place \in Place \ {"create"}, To(h, place)
    PROVE  NobodyInserts'
<1>1. at \in [Request -> Local] /\ at[h] \in Local
  BY DEF ServerIInv, ServerTypeOK
<1>2. at' = [at EXCEPT ![h] = [at[h] EXCEPT !.pc = place]]
  BY DEF To, Move
<1>3. at'[h].pc = place /\ \A g \in Request \ {h} : at'[g] = at[g]
  BY <1>1, <1>2 DEF Local
<1> QED
  BY <1>3 DEF NobodyInserts

LEMMA HandleInsertsNot ==
    ASSUME ServerIInv, NobodyInserts, NEW h \in Request, Handle(h)
    PROVE  NobodyInserts'
<1> DEFINE Elsewhere == Place \ {"create"}
<1>1. at[h] \in Local /\ at \in [Request -> Local]
  BY DEF ServerIInv, ServerTypeOK
<1>2. {"reread", "policy", "report", "cascade", "write"} \subseteq Elsewhere
  BY DEF Place
<1>3. ASSUME Leave(h) \/ Respond(h)
      PROVE  NobodyInserts'
  <2>1. Free \in Local /\ Free.pc # "create"
    BY FreeHonest DEF Free
  <2> QED
    BY <1>2, <1>3, <2>1, ToPlace, PlacesOnly DEF Leave, Respond
<1>4. ASSUME NEW place \in {"reread", "policy", "report", "cascade", "write"},
             To(h, place)
      PROVE  NobodyInserts'
  BY <1>2, <1>4, ToPlace
\* A record that differs from at[h] elsewhere than in pc, or with a new pc.
<1>5. ASSUME NEW l, at' = [at EXCEPT ![h] = l], l.pc # "create"
      PROVE  NobodyInserts'
  BY <1>1, <1>5 DEF NobodyInserts
<1>6. at[h].pc # "create"
  BY DEF NobodyInserts
<1>7. CASE CreateMetaPR(h)
  BY <1>6, <1>7 DEF CreateMetaPR
<1>8. CASE \/ CloseMetaPR(h) \/ Discovered(h) \/ InsertChild(h) \/ AlignMerged(h)
           \/ Asked(h) \/ TriggerCascade(h)
  <2>1. \E place \in {"reread", "policy", "report", "cascade", "write"} : To(h, place)
    BY <1>8 DEF CloseMetaPR, Discovered, InsertChild, AlignMerged, Asked, TriggerCascade
  <2> QED
    BY <1>4, <2>1
<1>9. CASE \/ WriteChildFails(h) \/ NotOpen(h) \/ CascadeReturned(h) \/ Report(h)
  <2>1. Leave(h) \/ Respond(h) \/ To(h, "policy")
    BY <1>9 DEF WriteChildFails, NotOpen, CascadeReturned, Report
  <2> QED
    BY <1>3, <1>4, <2>1
<1>10. CASE \E c \in Child : Discover(h, c)
  <2>1. PICK c \in Child : Move(h, [at[h] EXCEPT !.todo = at[h].todo \ {c}])
    BY <1>10 DEF Discover
  <2>2. [at[h] EXCEPT !.todo = at[h].todo \ {c}].pc = at[h].pc
    BY <1>1 DEF Local
  <2> QED
    BY <1>5, <1>6, <2>1, <2>2 DEF Move
<1>11. CASE WriteChild(h)
  <2>1. Move(h, [at[h] EXCEPT !.pc = "parent", !.todo = {}])
    BY <1>11 DEF WriteChild
  <2>2. [at[h] EXCEPT !.pc = "parent", !.todo = {}].pc = "parent"
    BY <1>1 DEF Local
  <2> QED
    BY <1>5, <2>1, <2>2 DEF Move
<1>12. CASE ReadParent(h)
  <2> DEFINE l == [at[h] EXCEPT !.pc = "children", !.seen = meta.status,
                                !.lock = meta.lock]
  <2>1. Respond(h) \/ at' = [at EXCEPT ![h] = l]
    BY <1>12 DEF ReadParent, Move
  <2>2. l.pc = "children"
    BY <1>1 DEF Local
  <2> HIDE DEF l
  <2> QED
    BY <1>3, <1>5, <2>1, <2>2
<1>13. CASE ReadChildren(h)
  <2> DEFINE next == AfterChildren(at[h])
             todo == CASE next = "discover" -> Tracked
                       [] next = "ask" -> {c \in Child : row[c].status = "OPEN"}
                       [] OTHER -> {}
             l == [at[h] EXCEPT !.pc = next, !.snap = row, !.todo = todo]
  <2>1. at' = [at EXCEPT ![h] = l]
    BY <1>13 DEF ReadChildren, Move
  <2>2. next # "create"
    BY DEF AfterChildren
  <2> HIDE DEF next, todo
  <2>3. l.pc = next
    BY <1>1 DEF Local
  <2> HIDE DEF l
  <2> QED
    BY <1>5, <2>1, <2>2, <2>3
<1>14. CASE \E c \in Child : AskChild(h, c)
  <2>1. PICK c \in Child, merged \in BOOLEAN :
            Move(h, [at[h] EXCEPT
                 !.todo = @ \ {c},
                 !.snap[c].status = IF merged THEN "MERGED" ELSE @,
                 !.changed = @ \/ merged])
    BY <1>14 DEF AskChild, MergedAnswers
  <2> DEFINE l == [at[h] EXCEPT
                 !.todo = @ \ {c},
                 !.snap[c].status = IF merged THEN "MERGED" ELSE @,
                 !.changed = @ \/ merged]
  <2>2. at' = [at EXCEPT ![h] = l]
    BY <2>1 DEF Move
  <2>3. l.pc = at[h].pc
    BY <1>1 DEF Local
  <2> HIDE DEF l
  <2> QED
    BY <1>5, <1>6, <2>2, <2>3
<1>15. CASE ReadPolicy(h)
  <2> DEFINE rules == RulesToAsk(at[h])
             l == [at[h] EXCEPT !.pc = "rules", !.rules = rules]
  <2>1. Leave(h) \/ at' = [at EXCEPT ![h] = l]
    BY <1>15 DEF ReadPolicy, Move
  <2> HIDE DEF rules
  <2>2. l.pc = "rules"
    BY <1>1 DEF Local
  <2> HIDE DEF l
  <2> QED
    BY <1>3, <1>5, <2>1, <2>2
<1>16. CASE \E r \in Rule : AskRule(h, r)
  <2>1. PICK r \in Rule :
            Leave(h) \/ at' = [at EXCEPT ![h] = [at[h] EXCEPT !.rules = @ \ {r}]]
    BY <1>16 DEF AskRule, Move
  <2>2. [at[h] EXCEPT !.rules = @ \ {r}].pc = at[h].pc
    BY <1>1 DEF Local
  <2> QED
    BY <1>3, <1>5, <1>6, <2>1, <2>2
<1> QED
  BY <1>7, <1>8, <1>9, <1>10, <1>11, <1>12, <1>13, <1>14, <1>15, <1>16 DEF Handle

LEMMA OthersInsertNot ==
    ASSUME ServerIInv, NobodyInserts, ServerNext, \A h \in Request : ~ Handle(h)
    PROVE  NobodyInserts'
<1>1. at \in [Request -> Local]
  BY DEF ServerIInv, ServerTypeOK
<1>2. ASSUME UNCHANGED at
      PROVE  NobodyInserts'
  BY <1>2 DEF NobodyInserts
<1>3. ASSUME NEW h \in Request, NEW l, at' = [at EXCEPT ![h] = l], l.pc # "create"
      PROVE  NobodyInserts'
  BY <1>1, <1>3 DEF NobodyInserts
<1>4. ASSUME NEW h \in Request, Deliver(h)
      PROVE  NobodyInserts'
  <2>1. CASE \E k \in RootEvent : ServeRoot(h, k)
    <3>1. PICK k \in RootEvent : ServeRoot(h, k)
      BY <2>1
    <3> DEFINE pc == IF k = "merged" THEN "children" ELSE "discover"
               todo == IF k = "merged" THEN {} ELSE Tracked
               l == [Free EXCEPT !.pc = pc, !.kind = k, !.todo = todo,
                                 !.seen = meta.status, !.lock = meta.lock]
    <3>2. at' = [at EXCEPT ![h] = l]
      BY <3>1 DEF ServeRoot, Move
    <3>3. pc # "create"
      OBVIOUS
    <3> HIDE DEF pc, todo
    <3>4. l.pc = pc
      BY DEF Free
    <3> HIDE DEF l
    <3> QED
      BY <1>3, <3>2, <3>3, <3>4
  <2>2. CASE \E c \in Child, k \in ChildEvent : ServeChild(h, c, k)
    <3>1. PICK c \in Child, k \in ChildEvent : ServeChild(h, c, k)
      BY <2>2
    <3> DEFINE pc == IF c \in Known(row) THEN "write" ELSE "insert"
               stat == IF k = "merged" THEN "MERGED"
                       ELSE IF c \in Known(row) THEN row[c].status ELSE "OPEN"
               sha == IF k = "reviewed" THEN row[c].sha ELSE "head"
               l == [Free EXCEPT !.pc = pc, !.kind = "child", !.todo = {c},
                                 !.stat = stat, !.sha = sha]
    <3>2. at' = [at EXCEPT ![h] = l]
      BY <3>1 DEF ServeChild, Move
    <3>3. pc # "create"
      OBVIOUS
    <3> HIDE DEF pc, stat, sha
    <3>4. l.pc = pc
      BY DEF Free
    <3> HIDE DEF l
    <3> QED
      BY <1>3, <3>2, <3>3, <3>4
  <2> QED
    BY <1>4, <2>1, <2>2 DEF Deliver
<1>5. ASSUME NEW h \in Request, NEW kind \in {"query", "branch"}, ServeQuery(h, kind)
      PROVE  NobodyInserts'
  <2> DEFINE l == [Free EXCEPT !.pc = "children", !.kind = kind,
                               !.seen = meta.status, !.lock = meta.lock]
  <2>1. at' = [at EXCEPT ![h] = l]
    BY <1>5 DEF ServeQuery, Move
  <2>2. l.pc = "children"
    BY DEF Free
  <2> HIDE DEF l
  <2> QED
    BY <1>3, <2>1, <2>2
<1>6. Free.pc = "idle"
  BY DEF Free
<1>7. ASSUME NEW h \in Request, NEW p \in Policies, ServeSettings(h, p)
      PROVE  NobodyInserts'
  <2> DEFINE l == [Free EXCEPT !.pc = "list", !.kind = "settings"]
  <2>1. at' = [at EXCEPT ![h] = l] \/ at' = [at EXCEPT ![h] = Free]
    BY <1>7 DEF ServeSettings, Move
  <2>2. l.pc = "list"
    BY DEF Free
  <2> HIDE DEF l
  <2> QED
    BY <1>3, <1>6, <2>1, <2>2
<1>8. ASSUME NEW h \in Request, HandlerDies(h)
      PROVE  NobodyInserts'
  BY <1>3, <1>6, <1>8 DEF HandlerDies, Respond, Move
<1>9. ASSUME \/ \E h \in Request : Retry(h)
             \/ \E w \in Worker : Cascade(w)
             \/ Loops
      PROVE  NobodyInserts'
  BY <1>2, <1>9 DEF Retry, Cascade, Loops, serverVars
<1>10. ASSUME \/ \E c \in Child : MergedOnHost(c)
              \/ RootMergedOnHost
              \/ \E c \in Child, k \in ChildEvent : Touched(c, k)
              \/ \E r \in Rule : RuleHolds(r) \/ RuleBroken(r)
       PROVE  NobodyInserts'
  BY <1>2, <1>10
     DEF MergedOnHost, RootMergedOnHost, Touched, RuleHolds, RuleBroken
<1> QED
  BY <1>4, <1>5, <1>7, <1>8, <1>9, <1>10 DEF ServerNext

LEMMA StepCounted ==
    ASSUME ServerIInv, NobodyInserts, ServerNext
    PROVE  Counted
<1>1. TypeOK /\ meta \in MetaRow
  BY DEF ServerIInv, ServerTypeOK, TypeOK
<1>2. ASSUME NEW w \in Worker, Cascade(w)
      PROVE  Counted
  BY <1>1, <1>2, RunStepMonotone DEF Cascade, Monotone, Counted
<1> QED
  BY <1>1, <1>2, HandleShared, OthersShared DEF NobodyInserts

\* When no handler looked before the Meta PR was in the table, every change of its
\* status takes a new lock_version (UpdateMetaPRStatus); the upsert of one that
\* did (UpsertMetaPR) writes OPEN without a new one.
THEOREM StatusIsCounted ==
    ASSUME Missed = {}
    PROVE  ServerSpec => StatusUnderLock
<1>1. ServerInit => NobodyInserts
  BY DEF ServerInit, NobodyInserts, Free
<1>2. ServerIInv /\ NobodyInserts /\ [ServerNext]_allVars => NobodyInserts'
  <2>1. ASSUME UNCHANGED allVars, NobodyInserts
        PROVE  NobodyInserts'
    BY <2>1 DEF allVars, serverVars, NobodyInserts
  <2> QED
    BY <2>1, HandleInsertsNot, OthersInsertNot
<1>3. ServerIInv /\ NobodyInserts /\ [ServerNext]_allVars
          => [meta'.status # meta.status => meta'.lock = meta.lock + 1]_allVars
  BY StepCounted DEF Counted
<1> QED
  BY <1>1, <1>2, <1>3, ServerIInvariant, PTL DEF ServerSpec, StatusUnderLock

================================================================================
