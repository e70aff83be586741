----------------------------- MODULE CascadeMerge ------------------------------
(***************************************************************************)
(* The saga engine of internal/worker/worker.go: concurrent runs of        *)
(* Engine.ExecuteCascadeMerge on one Meta PR, started by the               *)
(* reconciliation loop (one goroutine per server process) and by the       *)
(* retry endpoint, against the two tables they share and the pull          *)
(* requests of the VCS host.                                               *)
(*                                                                         *)
(* Every database statement and every request to the host is a step of its *)
(* own, so runs interleave between any two of them.  Cascades of different *)
(* Meta PRs share nothing here, and one is enough.                         *)
(***************************************************************************)
EXTENDS Dag, MetaPRStore, FiniteSets

CONSTANTS Child,       \* submodule pull requests
          Loop,        \* reconciliation loops, one per server process
          Request,     \* goroutines that serve retry requests
          Dep,         \* the table child_pr_dependencies
          GitLab,      \* children whose repository is on GitLab
          Manual,      \* children a developer may merge by hand
          Faults,      \* what may go wrong, a subset of FaultKinds
          MaxLock,     \* bound: the lock_version up to which it is taken
          MaxCrashes   \* bound: runs cut short

Worker == Loop \cup Request

FaultKinds == {"refuse",   \* the host refuses a merge: conflict, failing check
               "lost",     \* the host merges, its answer never arrives
               "db",       \* the update of a child's row fails
               "lookup",   \* the head of a submodule's main is not found
               "align"}    \* the pointer commit fails or is only partly made

ASSUME DepAssumption == Dep \subseteq Child \X Child
ASSUME GitLabAssumption == GitLab \subseteq Child
ASSUME ManualAssumption == Manual \subseteq Child
ASSUME FaultAssumption == Faults \subseteq FaultKinds
ASSUME WorkerAssumption == Loop \cap Request = {}
ASSUME BoundAssumption == MaxLock \in Nat /\ MaxCrashes \in Nat

VARIABLES meta,      \* the row of meta_prs
          row,       \* the rows of child_prs
          host,      \* each child's pull request on the host
          root,      \* the root pull request on the host
          pointer,   \* what the meta branch records for each submodule
          exec,      \* the locals of each run
          crashes    \* runs cut short so far

vars == <<meta, row, host, root, pointer, exec, crashes>>

PRState == {"open", "merged"}

\* "head": the commit of the pull request, on no base branch.
\* "main": the head of the submodule's main, the child's change in it.
\* "old":  the head of the submodule's main before the child is merged.
PointerValue == {"head", "main", "old"}

PC == {"idle", "fetch", "children", "lock", "plan", "batch", "merging",
       "align", "root", "finish", "halt"}

\* What the goroutine of a child has done: nothing to do, about to record
\* MERGING, about to call the host, an answer to be recorded, or recorded
\* FAILED (batchErr is set).
JobState == {"none", "mark", "call", "ok", "err", "failed"}

NoRow == [status |-> "NONE", sha |-> "none"]

Exec == [pc    : PC,
         lock  : Nat,                       \* metaPR.LockVersion
         seen  : MetaStatus,                \* metaPR.Status
         snap  : [Child -> ChildRow],       \* metaPR.ChildPRs
         edges : SUBSET (Child \X Child),   \* deps
         todo  : SUBSET Child,              \* nodes of the batches not done
         batch : SUBSET Child,              \* the batch being merged
         job   : [Child -> JobState]]

Idle == [pc    |-> "idle",
         lock  |-> 0,
         seen  |-> "OPEN",
         snap  |-> [c \in Child |-> NoRow],
         edges |-> {},
         todo  |-> {},
         batch |-> {},
         job   |-> [c \in Child |-> "none"]]

TypeOK ==
    /\ meta \in MetaRow
    /\ row \in [Child -> ChildRow]
    /\ host \in [Child -> PRState]
    /\ root \in PRState
    /\ pointer \in [Child -> PointerValue]
    /\ exec \in [Worker -> Exec]
    /\ crashes \in 0..MaxCrashes

\* A Meta PR as the webhooks leave it before its first cascade: some of the
\* children belong to it, each with an open pull request.
Init ==
    /\ meta = [status |-> "OPEN", lock |-> 1]
    /\ \E members \in SUBSET Child :
          /\ members # {}
          /\ row = [c \in Child |->
                       IF c \in members
                       THEN [status |-> "OPEN", sha |-> "head"]
                       ELSE NoRow]
    /\ host = [c \in Child |-> "open"]
    /\ root = "open"
    /\ pointer = [c \in Child |-> "head"]
    /\ exec = [w \in Worker |-> Idle]
    /\ crashes = 0

--------------------------------------------------------------------------------
(* The locals of a run after a step of it.                                 *)

Become(w, e) == exec' = [exec EXCEPT ![w] = e]

Goto(w, pc) == Become(w, [exec[w] EXCEPT !.pc = pc])

SetJob(w, c, state) == Become(w, [exec[w] EXCEPT !.job[c] = state])

Return(w) == Become(w, Idle)

--------------------------------------------------------------------------------
(* What starts a run.                                                      *)

\* Mutant: the loop asks for the cascades that failed, not for those under way.
ReconcileFailedOnly(w) ==
    /\ exec[w].pc = "idle"
    /\ meta.status = "FAILED_PARTIAL"
    /\ Goto(w, "fetch")
    /\ UNCHANGED <<meta, row, host, root, pointer, crashes>>

\* A tick of the loop lists the Meta PR as pending.  The run reads the row
\* again, after the runs of the Meta PRs listed before it.
ReconcileAllPending(w) ==
    /\ exec[w].pc = "idle"
    /\ meta.status = "MERGING"
    /\ Goto(w, "fetch")
    /\ UNCHANGED <<meta, row, host, root, pointer, crashes>>

\* handleRetryMerge, as the request that wins its compare-and-set; a request
\* that loses it, or finds another status, answers an error and changes nothing.
RetryMerge(w) ==
    /\ exec[w].pc = "idle"
    /\ meta.status \in {"FAILED_PARTIAL", "FAILED", "OPEN"}
    /\ meta.lock < MaxLock
    /\ meta' = LockedUpdate(meta, "MERGING", meta.lock)
    /\ Goto(w, "fetch")
    /\ UNCHANGED <<row, host, root, pointer, crashes>>

--------------------------------------------------------------------------------
(* ExecuteCascadeMerge, up to the batches.                                 *)

\* GetMetaPRByID reads the row of the Meta PR, then its children.
FetchMeta(w) ==
    /\ exec[w].pc = "fetch"
    /\ Become(w, [exec[w] EXCEPT !.pc = "children",
                                !.lock = meta.lock,
                                !.seen = meta.status])
    /\ UNCHANGED <<meta, row, host, root, pointer, crashes>>

\* Mutant: only the children still OPEN are read.
FetchOpenChildren(w) ==
    /\ exec[w].pc = "children"
    /\ Become(w, [exec[w] EXCEPT
           !.pc = "lock",
           !.snap = [c \in Child |->
               IF row[c].status = "OPEN" THEN row[c] ELSE NoRow]])
    /\ UNCHANGED <<meta, row, host, root, pointer, crashes>>

FetchChildren(w) ==
    /\ exec[w].pc = "children"
    /\ Become(w, [exec[w] EXCEPT !.pc = "lock", !.snap = row])
    /\ UNCHANGED <<meta, row, host, root, pointer, crashes>>

\* A Meta PR that is MERGING already is not locked again: a run may resume it.
Resume(w) ==
    /\ exec[w].pc = "lock"
    /\ exec[w].seen = "MERGING"
    /\ Goto(w, "plan")
    /\ UNCHANGED <<meta, row, host, root, pointer, crashes>>

AcquireLock(w) ==
    /\ exec[w].pc = "lock"
    /\ exec[w].seen # "MERGING"
    /\ HoldsLock(meta, exec[w].lock) => meta.lock < MaxLock
    /\ meta' = LockedUpdate(meta, "MERGING", exec[w].lock)
    /\ IF HoldsLock(meta, exec[w].lock)
       THEN Become(w, [exec[w] EXCEPT !.pc = "plan",
                                     !.lock = exec[w].lock + 1,
                                     !.seen = "MERGING"])
       ELSE Return(w)
    /\ UNCHANGED <<row, host, root, pointer, crashes>>

\* GetChildPRDependencies: the edges that start at a child of the Meta PR.  The
\* other end may be a child of another Meta PR.
CascadeEdges == {e \in Dep : e[1] \in Known(row)}

\* Mutant: the error of TopologicalSort is not looked at; it returns no batch.
PlanIgnoringCycle(w) ==
    LET nodes == GraphNodes(Known(exec[w].snap), CascadeEdges)
    IN  /\ exec[w].pc = "plan"
        /\ Become(w, [exec[w] EXCEPT
               !.pc = "batch",
               !.edges = CascadeEdges,
               !.todo = IF Acyclic(nodes, CascadeEdges) THEN nodes ELSE {}])
        /\ UNCHANGED <<meta, row, host, root, pointer, crashes>>

PlanBatches(w) ==
    LET nodes == GraphNodes(Known(exec[w].snap), CascadeEdges)
    IN  /\ exec[w].pc = "plan"
        /\ IF Acyclic(nodes, CascadeEdges)
           THEN /\ Become(w, [exec[w] EXCEPT !.pc = "batch",
                                            !.edges = CascadeEdges,
                                            !.todo = nodes])
                /\ meta' = meta
           ELSE /\ meta' = LockedUpdate(meta, "FAILED", exec[w].lock)
                /\ Return(w)
        /\ UNCHANGED <<row, host, root, pointer, crashes>>

--------------------------------------------------------------------------------
(* The batches.                                                            *)

\* A goroutine for every child of the batch the snapshot does not call MERGED.
StartBatch(w) ==
    LET next == ReadyBatch(exec[w].todo, exec[w].edges)
    IN  /\ exec[w].pc = "batch"
        /\ exec[w].todo # {}
        /\ Become(w, [exec[w] EXCEPT
               !.pc = "merging",
               !.batch = next,
               !.job = [c \in Child |->
                   IF c \in next /\ exec[w].snap[c].status # "MERGED"
                   THEN "mark" ELSE "none"]])
        /\ UNCHANGED <<meta, row, host, root, pointer, crashes>>

\* What UpdateChildPRStatus leaves: its error is ignored.
ChildWrite(c, status, sha) ==
    {[row EXCEPT ![c] = UpdatedChild(@, status, sha)]}
        \cup (IF "db" \in Faults THEN {row} ELSE {})

\* The goroutine's first statement.  For a node that is no child of the
\* snapshot the child is the zero value, its id matches no row.
MarkMerging(w, c) ==
    /\ exec[w].job[c] = "mark"
    /\ IF c \in Known(exec[w].snap)
       THEN row' \in ChildWrite(c, "MERGING", exec[w].snap[c].sha)
       ELSE row' = row
    /\ SetJob(w, c, "call")
    /\ UNCHANGED <<meta, host, root, pointer, crashes>>

\* MergePR answers the merge commit.  The host merges an open pull request once;
\* the attempts MergePullRequest makes on 405, 409 and 422 are one step here.
\* The children's merger is the GitHub client the engine was built with, for
\* every repository: a child on GitLab is not found there.
MergeOk(w, c) ==
    /\ exec[w].job[c] = "call"
    /\ c \in Known(exec[w].snap) \ GitLab
    /\ host[c] = "open"
    /\ host' = [host EXCEPT ![c] = "merged"]
    /\ SetJob(w, c, "ok")
    /\ UNCHANGED <<meta, row, root, pointer, crashes>>

MergeLost(w, c) ==
    /\ "lost" \in Faults
    /\ exec[w].job[c] = "call"
    /\ c \in Known(exec[w].snap) \ GitLab
    /\ host[c] = "open"
    /\ host' = [host EXCEPT ![c] = "merged"]
    /\ SetJob(w, c, "err")
    /\ UNCHANGED <<meta, row, root, pointer, crashes>>

\* Refused; or merged already, which the host answers with 405; or called for
\* a repository that is not there, or for none.
MergeError(w, c) ==
    /\ exec[w].job[c] = "call"
    /\ \/ "refuse" \in Faults
       \/ host[c] = "merged"
       \/ c \notin Known(exec[w].snap) \ GitLab
    /\ SetJob(w, c, "err")
    /\ UNCHANGED <<meta, row, host, root, pointer, crashes>>

\* wg.Wait: every goroutine of the batch has sent its result.
AllAnswered(w) == \A c \in Child : exec[w].job[c] \notin {"mark", "call"}

RecordMerged(w, c) ==
    /\ exec[w].pc = "merging"
    /\ AllAnswered(w)
    /\ exec[w].job[c] = "ok"
    /\ row' \in ChildWrite(c, "MERGED", "merge")
    /\ SetJob(w, c, "none")
    /\ UNCHANGED <<meta, host, root, pointer, crashes>>

\* Mutant: the error of a result is not looked at.
RecordErrorAsMerged(w, c) ==
    /\ exec[w].pc = "merging"
    /\ AllAnswered(w)
    /\ exec[w].job[c] = "err"
    /\ row' \in ChildWrite(c, "MERGED", "merge")
    /\ SetJob(w, c, "none")
    /\ UNCHANGED <<meta, host, root, pointer, crashes>>

RecordFailed(w, c) ==
    /\ exec[w].pc = "merging"
    /\ AllAnswered(w)
    /\ exec[w].job[c] = "err"
    /\ IF c \in Known(exec[w].snap)
       THEN row' \in ChildWrite(c, "FAILED", "none")
       ELSE row' = row
    /\ SetJob(w, c, "failed")
    /\ UNCHANGED <<meta, host, root, pointer, crashes>>

\* Mutant: a batch that failed does not halt the cascade.
EndBatchIgnoringErrors(w) ==
    /\ exec[w].pc = "merging"
    /\ \A c \in Child : exec[w].job[c] \in {"none", "failed"}
    /\ Become(w, [exec[w] EXCEPT !.pc = "batch",
                                !.todo = @ \ exec[w].batch,
                                !.batch = {}])
    /\ UNCHANGED <<meta, row, host, root, pointer, crashes>>

\* Every result of the batch is recorded: halt on an error, or go on.
EndBatch(w) ==
    /\ exec[w].pc = "merging"
    /\ \A c \in Child : exec[w].job[c] \in {"none", "failed"}
    /\ IF \E c \in Child : exec[w].job[c] = "failed"
       THEN Goto(w, "halt")
       ELSE Become(w, [exec[w] EXCEPT !.pc = "batch",
                                     !.todo = @ \ exec[w].batch,
                                     !.batch = {}])
    /\ UNCHANGED <<meta, row, host, root, pointer, crashes>>

\* Mutant: the root is merged before the pointers are aligned.
BatchesDoneRootFirst(w) ==
    /\ exec[w].pc = "batch"
    /\ exec[w].todo = {}
    /\ Goto(w, "root")
    /\ UNCHANGED <<meta, row, host, root, pointer, crashes>>

BatchesDone(w) ==
    /\ exec[w].pc = "batch"
    /\ exec[w].todo = {}
    /\ Goto(w, "align")
    /\ UNCHANGED <<meta, row, host, root, pointer, crashes>>

--------------------------------------------------------------------------------
(* The root pull request.                                                  *)

\* The updates name the children whose SHA the snapshot knows.
PointerUpdates(w) == {c \in Known(exec[w].snap) : exec[w].snap[c].sha # "none"}

\* The head of the submodule's main, whatever commit the update names.
MainHead(c) == IF host[c] = "merged" THEN "main" ELSE "old"

\* The commit of the update is written when main's head is not found.
UpdateCommit(w, c) == IF exec[w].snap[c].sha = "merge" THEN "main" ELSE "head"

Aligned(w, S, unresolved) ==
    [c \in Child |-> IF c \notin S THEN pointer[c]
                     ELSE IF c \in unresolved THEN UpdateCommit(w, c)
                     ELSE MainHead(c)]

Unresolved(w) == IF "lookup" \in Faults THEN SUBSET PointerUpdates(w) ELSE {{}}

AlignPointers(w) ==
    /\ exec[w].pc = "align"
    /\ \E unresolved \in Unresolved(w) :
          pointer' = Aligned(w, PointerUpdates(w), unresolved)
    /\ Goto(w, "root")
    /\ UNCHANGED <<meta, row, host, root, crashes>>

\* An error leaves none of the updates on the branch, or all of them (the
\* answer was lost), or those before the one that failed (GitLab, which makes
\* a commit per submodule).
AlignError(w) ==
    /\ "align" \in Faults
    /\ exec[w].pc = "align"
    /\ PointerUpdates(w) # {}
    /\ \E S \in SUBSET PointerUpdates(w), unresolved \in Unresolved(w) :
          pointer' = Aligned(w, S, unresolved)
    /\ Goto(w, "halt")
    /\ UNCHANGED <<meta, row, host, root, crashes>>

RootOk(w) ==
    /\ exec[w].pc = "root"
    /\ root = "open"
    /\ root' = "merged"
    /\ Goto(w, "finish")
    /\ UNCHANGED <<meta, row, host, pointer, crashes>>

RootLost(w) ==
    /\ "lost" \in Faults
    /\ exec[w].pc = "root"
    /\ root = "open"
    /\ root' = "merged"
    /\ Goto(w, "halt")
    /\ UNCHANGED <<meta, row, host, pointer, crashes>>

RootError(w) ==
    /\ exec[w].pc = "root"
    /\ "refuse" \in Faults \/ root = "merged"
    /\ Goto(w, "halt")
    /\ UNCHANGED <<meta, row, host, root, pointer, crashes>>

\* The last write of a run; a lock conflict is ignored.
Finish(w) ==
    /\ exec[w].pc = "finish"
    /\ meta' = LockedUpdate(meta, "MERGED", exec[w].lock)
    /\ Return(w)
    /\ UNCHANGED <<row, host, root, pointer, crashes>>

\* Mutant: a status no reader of the table knows.
HaltUnknownStatus(w) ==
    /\ exec[w].pc = "halt"
    /\ meta' = LockedUpdate(meta, "PARTIALLY_FAILED", exec[w].lock)
    /\ Return(w)
    /\ UNCHANGED <<row, host, root, pointer, crashes>>

Halt(w) ==
    /\ exec[w].pc = "halt"
    /\ meta' = LockedUpdate(meta, "FAILED_PARTIAL", exec[w].lock)
    /\ Return(w)
    /\ UNCHANGED <<row, host, root, pointer, crashes>>

--------------------------------------------------------------------------------
(* The rest of the world.                                                  *)

\* A run ends anywhere: the process dies, a read of the run fails and it returns
\* the error, or the context of the request that started it is cancelled and
\* every later statement and call fails.  A call in flight that the host still
\* serves is MergeOk or RootOk before this step.
Crash(w) ==
    /\ exec[w].pc # "idle"
    /\ crashes < MaxCrashes
    /\ crashes' = crashes + 1
    /\ Return(w)
    /\ UNCHANGED <<meta, row, host, root, pointer>>

MergedByHand(c) ==
    /\ c \in Manual \cap Known(row)
    /\ host[c] = "open"
    /\ host' = [host EXCEPT ![c] = "merged"]
    /\ UNCHANGED <<meta, row, root, pointer, exec, crashes>>

--------------------------------------------------------------------------------

ExecuteCascadeMerge(w) ==
    \/ FetchMeta(w)
    \/ FetchChildren(w)
    \/ Resume(w)
    \/ AcquireLock(w)
    \/ PlanBatches(w)
    \/ StartBatch(w)
    \/ \E c \in Child : \/ MarkMerging(w, c)
                        \/ MergeOk(w, c)
                        \/ MergeLost(w, c)
                        \/ MergeError(w, c)
                        \/ RecordMerged(w, c)
                        \/ RecordFailed(w, c)
    \/ EndBatch(w)
    \/ BatchesDone(w)
    \/ AlignPointers(w)
    \/ AlignError(w)
    \/ RootOk(w)
    \/ RootLost(w)
    \/ RootError(w)
    \/ Finish(w)
    \/ Halt(w)

Next ==
    \/ \E w \in Loop : ReconcileAllPending(w)
    \/ \E w \in Request : RetryMerge(w)
    \/ \E w \in Worker : ExecuteCascadeMerge(w) \/ Crash(w)
    \/ \E c \in Child : MergedByHand(c)

Spec == Init /\ [][Next]_vars

\* The loop's timer fires again and again, and a run that has started is
\* scheduled and gets its answers.  Nobody has to retry, merge by hand or crash.
Fairness ==
    /\ \A w \in Loop : WF_vars(ReconcileAllPending(w))
    /\ \A w \in Worker : WF_vars(ExecuteCascadeMerge(w))

FairSpec == Spec /\ Fairness

--------------------------------------------------------------------------------
(* Properties.                                                             *)

Members == Known(row)

Merged(c) == host[c] = "merged"

BeforeSnapshot(w) == exec[w].pc \in {"idle", "fetch", "children"}

BeforeLock(w) == exec[w].pc \in {"idle", "fetch", "children", "lock"}

\* The root pull request is merged only after every child of the Meta PR, with
\* any number of runs, crashes and lost answers (ExecuteCascadeMerge reaches
\* the root merge only past the batches its snapshot leaves).
RootAfterChildren == root = "merged" => \A c \in Members : Merged(c)

\* What the tables call MERGED is merged on the host: a stale run may call a
\* merged pull request failed, never an open one merged.
RecordsAreTrue ==
    /\ \A c \in Child : row[c].status = "MERGED" => Merged(c)
    /\ meta.status = "MERGED" => root = "merged"

\* An outcome is final for the runs that worked on it: OPEN, MERGED, FAILED and
\* FAILED_PARTIAL are left only for MERGING, by a retry or a run that takes the
\* lock.  No late run overwrites one outcome with another (lock_version).
OutcomeLeftByLockOnly ==
    [][meta'.status # meta.status =>
          meta.status = "MERGING" \/ meta'.status = "MERGING"]_vars

\* A child the engine merges was waiting for no unmerged child: the batches of
\* TopologicalSort hold across retries and runs that resume each other.
DependencyOrder ==
    [][\A c \in Child :
          host'[c] # host[c] /\ exec' # exec =>
              \A d \in DependsOn(c, Dep) : Merged(d)]_vars

\* The run that merges the root has left no pointer at an unmerged commit or at
\* a main without the change, for the children whose SHA its snapshot has.
AlignedBeforeRoot ==
    [][root' # root =>
          \E w \in Worker :
              /\ exec'[w] # exec[w]
              /\ \A c \in PointerUpdates(w) : pointer[c] = "main"]_vars

\* A graph with a cycle merges nothing: every edge of a member is in the cycle
\* check before the first batch starts (CYCLE_DETECTED).
CycleMergesNothing ==
    ~ Acyclic(GraphNodes(Members, CascadeEdges), CascadeEdges) =>
        /\ \A c \in Child \ Manual : ~ Merged(c)
        /\ root = "open"
        /\ meta.status \in {"OPEN", "MERGING", "FAILED"}

\* MERGING is never the end: a cascade whose run died is picked up by the loop
\* and brought to an outcome.
CascadeSettles == meta.status = "MERGING" ~> meta.status # "MERGING"

--------------------------------------------------------------------------------
(* Why the safety properties hold: what every run may rely on.             *)

\* A snapshot names the members, and calls MERGED what is merged.
SnapshotHonest(w) ==
    ~ BeforeSnapshot(w) =>
        /\ Known(exec[w].snap) = Members
        /\ \A c \in Child : exec[w].snap[c].status = "MERGED" => Merged(c)

\* A run that still holds the current lock_version knows the status: the one it
\* read before it takes the lock, MERGING afterwards.
LockMeansMerging(w) ==
    /\ exec[w].pc \in {"children", "lock"} =>
          /\ exec[w].lock <= meta.lock
          /\ exec[w].lock = meta.lock => meta.status = exec[w].seen
    /\ ~ BeforeLock(w) =>
          /\ exec[w].lock <= meta.lock
          /\ exec[w].lock = meta.lock => meta.status = "MERGING"

\* A goroutine works for the batch of its run, and says ok of a merged child.
JobsHonest(w) ==
    \A c \in Child :
        exec[w].job[c] \in {"mark", "call", "ok", "err"} =>
            /\ exec[w].pc = "merging"
            /\ c \in exec[w].batch
            /\ exec[w].job[c] = "ok" => Merged(c)

\* The nodes the batches have left behind are merged, and a batch waits for
\* none of the others.
BatchesHonest(w) ==
    /\ exec[w].pc \in {"batch", "merging"} =>
          /\ exec[w].edges = CascadeEdges
          /\ \A c \in GraphNodes(Members, CascadeEdges) \ exec[w].todo :
                Merged(c)
    /\ exec[w].pc = "merging" =>
          \A c \in exec[w].batch :
              /\ DependsOn(c, CascadeEdges) \cap exec[w].todo = {}
              /\ exec[w].job[c] = "none" => Merged(c)

RootHonest(w) ==
    /\ exec[w].pc \in {"align", "root", "finish"} =>
          \A c \in Members : Merged(c)
    /\ exec[w].pc = "finish" => root = "merged"

RunInv(w) ==
    /\ SnapshotHonest(w)
    /\ LockMeansMerging(w)
    /\ JobsHonest(w)
    /\ BatchesHonest(w)
    /\ RootHonest(w)

CascadeInv ==
    /\ RootAfterChildren
    /\ RecordsAreTrue
    /\ \A w \in Worker : RunInv(w)

--------------------------------------------------------------------------------
(* What the documentation says, and the code does not do.                  *)

\* server.go:741: a merge is tried again for OPEN, FAILED and FAILED_PARTIAL
\* only.  MERGED is final.
MergedIsFinal ==
    [][meta.status = "MERGED" => meta'.status = "MERGED"]_vars

--------------------------------------------------------------------------------

Contract ==
    INSTANCE CascadeContract WITH
        members <- Members,
        mergedPRs <- {c \in Child : Merged(c)},
        rootMerged <- (root = "merged")

\* The cascade implements what it promises of the pull requests.
ImplementsContract == Contract!ContractSpec

================================================================================
