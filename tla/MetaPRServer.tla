------------------------------ MODULE MetaPRServer -----------------------------
(***************************************************************************)
(* The handlers of internal/server/server.go around one Meta PR: webhooks  *)
(* of the root and of the children, the status query, the settings         *)
(* request and the retry request, composed with the saga engine they       *)
(* start.  Handlers are goroutines; each keeps copies of the rows it has   *)
(* read and writes from them, so handlers and cascades interleave between  *)
(* any two statements.                                                     *)
(*                                                                         *)
(* Which Meta PR an event belongs to is EventRouting's subject: here every *)
(* event finds this one.  Comments are StickyComment's.                    *)
(***************************************************************************)
EXTENDS CascadeMerge

CONSTANTS Tracked,       \* children whose repository is tracked
          Serve,         \* what is asked of the server, a subset of ServeKinds
          Missed,        \* handlers that looked before the Meta PR was inserted
          Policies,      \* settings the repository may have
          Fickle,        \* rules that may stop holding
          RootOnGitLab   \* the host of the root repository

Rule == {"approval", "checks", "files"}

\* The rules some setting asks for; nobody looks at the others.
RuleInUse == Rule \cap UNION Policies

ServeKinds == {"query", "branch", "settings", "retry", "pushed", "reviewed",
              "rootByHand"}

ASSUME TrackedAssumption == Tracked \subseteq Child
ASSUME ServeAssumption == Serve \subseteq ServeKinds
ASSUME MissedAssumption == Missed \subseteq Request
ASSUME PolicyAssumption == Policies \subseteq SUBSET (Rule \cup {"auto"})
ASSUME FickleAssumption == Fickle \subseteq Rule
ASSUME HostAssumption == RootOnGitLab \in BOOLEAN

VARIABLES at,            \* the locals of each handler
          rootEvents,    \* webhooks of the root not delivered yet
          childEvents,   \* webhooks of each child not delivered yet
          policy,        \* the row of tracked_repos: auto-merge and its rules
          facts,         \* the rules that hold on the host
          report         \* the last check run meta-repo/sync

serverVars == <<at, rootEvents, childEvents, policy, facts, report>>

allVars == <<vars, serverVars>>

RootEvent == {"updated", "merged"}

\* "pushed" carries the head commit, "reviewed" does not.
ChildEvent == {"pushed", "reviewed", "merged"}

Kind == {"none", "updated", "merged", "child", "query", "branch", "settings"}

\* Where a handler is: "cascade" waits for the run it has started.
Place == {"idle", "create", "discover", "reread", "insert", "write", "parent",
          "children", "close", "align", "ask", "list", "policy", "rules",
          "report", "cascade"}

Local == [pc      : Place,
          kind    : Kind,
          todo    : SUBSET Child,        \* the children still to be handled
          stat    : ChildStatus,         \* child.Status
          sha     : Sha,                 \* child.HeadSHA
          seen    : MetaStatus,          \* metaPR.Status
          lock    : Nat,                 \* metaPR.LockVersion
          snap    : [Child -> ChildRow], \* metaPR.ChildPRs
          rules   : SUBSET Rule,         \* the rules still to be asked for
          changed : BOOLEAN]             \* hasChanged

Free == [pc      |-> "idle",
         kind    |-> "none",
         todo    |-> {},
         stat    |-> "OPEN",
         sha     |-> "none",
         seen    |-> "OPEN",
         lock    |-> 0,
         snap    |-> [c \in Child |-> NoRow],
         rules   |-> {},
         changed |-> FALSE]

ServerTypeOK ==
    /\ TypeOK
    /\ at \in [Request -> Local]
    /\ rootEvents \subseteq RootEvent
    /\ childEvents \in [Child -> SUBSET ChildEvent]
    /\ policy \in Policies
    /\ facts \subseteq Rule
    /\ report \in {"none", "in_progress", "failure", "success"}

\* The Meta PR is in the table; the webhooks that opened the children it does
\* not know are still to come.  A handler may have looked for the Meta PR
\* before another one inserted it.
ServerInit ==
    /\ Init
    /\ at = [h \in Request |->
                IF h \in Missed
                THEN [Free EXCEPT !.pc = "create", !.kind = "updated"]
                ELSE Free]
    /\ rootEvents = {}
    /\ childEvents = [c \in Child |->
                         IF c \in Known(row) THEN {} ELSE {"pushed"}]
    /\ policy \in Policies
    /\ facts \in SUBSET RuleInUse
    /\ report = "none"

--------------------------------------------------------------------------------

Move(h, local) == at' = [at EXCEPT ![h] = local]

To(h, place) == Move(h, [at[h] EXCEPT !.pc = place])

Respond(h) == Move(h, Free)

IsFree(h) == at[h].pc = "idle" /\ exec[h].pc = "idle"

\* The host announces what has changed on it.  A commit on the meta branch is
\* an update of the root pull request.
HostNews ==
    /\ rootEvents' = rootEvents
           \cup (IF root' # root THEN {"merged"} ELSE {})
           \cup (IF pointer' # pointer THEN {"updated"} ELSE {})
    /\ childEvents' = [c \in Child |->
           childEvents[c] \cup (IF host'[c] # host[c] THEN {"merged"} ELSE {})]

Quiet == UNCHANGED <<rootEvents, childEvents>>

RulesUnchanged == UNCHANGED <<policy, facts>>

--------------------------------------------------------------------------------
(* processNormalizedEvent on the root pull request.                        *)

\* The event finds the Meta PR and reads its row; a merge is recorded, anything
\* else (opened, updated, closed, reviewed) looks for children.
ServeRoot(h, k) ==
    /\ IsFree(h)
    /\ k \in rootEvents
    /\ rootEvents' = rootEvents \ {k}
    /\ Move(h, [Free EXCEPT !.pc   = IF k = "merged" THEN "children" ELSE "discover",
                            !.kind = k,
                            !.todo = IF k = "merged" THEN {} ELSE Tracked,
                            !.seen = meta.status,
                            !.lock = meta.lock])
    /\ UNCHANGED <<vars, childEvents, policy, facts, report>>

\* A handler that found no row inserts one; another has inserted it meanwhile.
CreateMetaPR(h) ==
    /\ at[h].pc = "create"
    /\ meta' = UpsertedMeta(meta, "OPEN")
    /\ Move(h, [at[h] EXCEPT !.pc = "discover", !.todo = Tracked, !.lock = meta.lock])
    /\ UNCHANGED <<row, host, root, pointer, exec, crashes, report>>
    /\ Quiet /\ RulesUnchanged

\* Mutant: the event is recorded without the lock_version it read.
CloseAnyVersion(h) ==
    /\ at[h].pc = "close"
    /\ meta' = [meta EXCEPT !.status = "MERGED"]
    /\ To(h, "report")
    /\ UNCHANGED <<row, host, root, pointer, exec, crashes, report>>
    /\ Quiet /\ RulesUnchanged

\* The root is merged: a lock conflict is ignored, and so is the new status in
\* the handler's copy.
CloseMetaPR(h) ==
    /\ at[h].pc = "close"
    /\ HoldsLock(meta, at[h].lock) => meta.lock < MaxLock
    /\ meta' = LockedUpdate(meta, "MERGED", at[h].lock)
    /\ To(h, "report")
    /\ UNCHANGED <<row, host, root, pointer, exec, crashes, report>>
    /\ Quiet /\ RulesUnchanged

\* GetOpenPRForBranch: the pull request of the branch and whether it is merged,
\* which GitHub's list may leave out.
MergedAnswers(c) ==
    IF host[c] # "merged" THEN {FALSE}
    ELSE IF c \in GitLab THEN {TRUE} ELSE BOOLEAN

\* autoSynthesizeChildPRs, one tracked repository: its pull request becomes a
\* child.  An answer that is an error adds nothing.
Discover(h, c) ==
    /\ at[h].pc = "discover"
    /\ c \in at[h].todo
    /\ \/ \E merged \in MergedAnswers(c) :
             row' = [row EXCEPT ![c] =
                        UpsertedChild(@, IF merged THEN "MERGED" ELSE "OPEN", "head")]
       \/ "lookup" \in Faults /\ row' = row
    /\ Move(h, [at[h] EXCEPT !.todo = @ \ {c}])
    /\ UNCHANGED <<meta, host, root, pointer, exec, crashes, report>>
    /\ Quiet /\ RulesUnchanged

Discovered(h) ==
    /\ at[h].pc = "discover"
    /\ at[h].todo = {}
    /\ To(h, "reread")
    /\ UNCHANGED <<vars, report>>
    /\ Quiet /\ RulesUnchanged

--------------------------------------------------------------------------------
(* processNormalizedEvent on a child's pull request.                       *)

\* The child's row is read; a child without one is inserted under the Meta PR of
\* its branch.  A merge event sets the status of the copy, and the commit the
\* event carries replaces the copy's.
ServeChild(h, c, k) ==
    /\ IsFree(h)
    /\ k \in childEvents[c]
    /\ childEvents' = [childEvents EXCEPT ![c] = @ \ {k}]
    /\ Move(h, [Free EXCEPT
           !.pc   = IF c \in Known(row) THEN "write" ELSE "insert",
           !.kind = "child",
           !.todo = {c},
           !.stat = IF k = "merged" THEN "MERGED"
                    ELSE IF c \in Known(row) THEN row[c].status ELSE "OPEN",
           !.sha  = IF k = "reviewed" THEN row[c].sha ELSE "head"])
    /\ UNCHANGED <<vars, rootEvents, policy, facts, report>>

InsertChild(h) ==
    /\ at[h].pc = "insert"
    /\ row' = [c \in Child |->
                  IF c \in at[h].todo
                  THEN UpsertedChild(row[c], at[h].stat, at[h].sha) ELSE row[c]]
    /\ To(h, "write")
    /\ UNCHANGED <<meta, host, root, pointer, exec, crashes, report>>
    /\ Quiet /\ RulesUnchanged

\* Mutant: the status of a merge event is that of any event.
WriteChildAsMerged(h) ==
    /\ at[h].pc = "write"
    /\ row' = [c \in Child |->
                  IF c \in at[h].todo
                  THEN UpdatedChild(row[c], "MERGED", at[h].sha) ELSE row[c]]
    /\ Move(h, [at[h] EXCEPT !.pc = "parent", !.todo = {}])
    /\ UNCHANGED <<meta, host, root, pointer, exec, crashes, report>>
    /\ Quiet /\ RulesUnchanged

\* The copy is written back, whatever the row has become.
WriteChild(h) ==
    /\ at[h].pc = "write"
    /\ row' = [c \in Child |->
                  IF c \in at[h].todo
                  THEN UpdatedChild(row[c], at[h].stat, at[h].sha) ELSE row[c]]
    /\ Move(h, [at[h] EXCEPT !.pc = "parent", !.todo = {}])
    /\ UNCHANGED <<meta, host, root, pointer, exec, crashes, report>>
    /\ Quiet /\ RulesUnchanged

\* The update of the row failed: the webhook is answered 500 and forgotten.
WriteChildFails(h) ==
    /\ "db" \in Faults
    /\ at[h].pc = "write"
    /\ Respond(h)
    /\ UNCHANGED <<vars, report>>
    /\ Quiet /\ RulesUnchanged

\* The row of the Meta PR: the parent of a child, or each Meta PR the settings
\* request lists, the OPEN ones.
ReadParent(h) ==
    /\ at[h].pc \in {"parent", "list"}
    /\ IF at[h].pc = "list" /\ meta.status # "OPEN"
       THEN Respond(h)
       ELSE Move(h, [at[h] EXCEPT !.pc = "children",
                                 !.seen = meta.status,
                                 !.lock = meta.lock])
    /\ UNCHANGED <<vars, report>>
    /\ Quiet /\ RulesUnchanged

\* What a handler does with the children it has read.  A query synthesizes
\* children when there is none, or asks for those still OPEN.
AfterChildren(l) ==
    IF l.pc = "reread" THEN "report"
    ELSE CASE l.kind = "merged"    -> "close"
           [] l.kind = "child"     -> "align"
           [] l.kind = "settings"  -> "policy"
           [] OTHER -> IF Known(row) = {} THEN "discover" ELSE "ask"

ReadChildren(h) ==
    LET next == AfterChildren(at[h])
    IN  /\ at[h].pc \in {"children", "reread"}
        /\ Move(h, [at[h] EXCEPT
               !.pc   = next,
               !.snap = row,
               !.todo = CASE next = "discover" -> Tracked
                          [] next = "ask" -> {c \in Child : row[c].status = "OPEN"}
                          [] OTHER -> {}])
        /\ UNCHANGED <<vars, report>>
        /\ Quiet /\ RulesUnchanged

\* The pointers of the children the copy calls MERGED go to the heads of their
\* mains; an error, which is logged, leaves some of them.
AlignMerged(h) ==
    LET S == {c \in Child : at[h].snap[c].status = "MERGED"
                            /\ at[h].snap[c].sha # "none"}
    IN  /\ at[h].pc = "align"
        /\ \E part \in (IF "align" \in Faults THEN SUBSET S ELSE {S}) :
              pointer' = [c \in Child |-> IF c \in part THEN MainHead(c)
                                          ELSE pointer[c]]
        /\ To(h, "report")
        /\ UNCHANGED <<meta, row, host, root, exec, crashes, report>>
        /\ HostNews /\ RulesUnchanged

--------------------------------------------------------------------------------
(* The status query, the settings request, and what they share with the    *)
(* webhooks: the check run and the readiness of the Meta PR.               *)

\* A query by number or by branch; the row read by branch comes without the
\* head SHA.
ServeQuery(h, kind) ==
    /\ kind \in Serve \cap {"query", "branch"}
    /\ IsFree(h)
    /\ Move(h, [Free EXCEPT !.pc   = "children",
                            !.kind = kind,
                            !.seen = meta.status,
                            !.lock = meta.lock])
    /\ UNCHANGED <<vars, report>>
    /\ Quiet /\ RulesUnchanged

\* One OPEN child of the copy: merged on the host, it is so in the copy and, with
\* the SHA of the copy, in the table.
AskChild(h, c) ==
    /\ at[h].pc = "ask"
    /\ c \in at[h].todo
    /\ \E merged \in MergedAnswers(c) :
          /\ row' = IF merged
                    THEN [row EXCEPT ![c] =
                             UpdatedChild(@, "MERGED", at[h].snap[c].sha)]
                    ELSE row
          /\ Move(h, [at[h] EXCEPT
                 !.todo = @ \ {c},
                 !.snap[c].status = IF merged THEN "MERGED" ELSE @,
                 !.changed = @ \/ merged])
    /\ UNCHANGED <<meta, host, root, pointer, exec, crashes, report>>
    /\ Quiet /\ RulesUnchanged

Asked(h) ==
    /\ at[h].pc = "ask"
    /\ at[h].todo = {}
    /\ To(h, IF at[h].changed THEN "policy" ELSE "report")
    /\ UNCHANGED <<vars, report>>
    /\ Quiet /\ RulesUnchanged

\* The settings are replaced; the OPEN Meta PRs are evaluated when auto-merge
\* is on.
ServeSettings(h, p) ==
    /\ "settings" \in Serve
    /\ IsFree(h)
    /\ p \in Policies
    /\ policy' = p
    /\ Move(h, IF "auto" \in p
               THEN [Free EXCEPT !.pc = "list", !.kind = "settings"]
               ELSE Free)
    /\ UNCHANGED <<vars, facts, report>>
    /\ Quiet

\* The check run for the handler's copy.  GitLab counts the children and does
\* not know FAILED.
Conclusion(l) ==
    CASE l.seen = "MERGED" -> "success"
      [] l.seen = "FAILED_PARTIAL" -> "failure"
      [] l.seen = "FAILED" /\ ~ RootOnGitLab -> "failure"
      [] OTHER -> IF /\ RootOnGitLab
                     /\ Known(l.snap) # {}
                     /\ \A c \in Known(l.snap) : l.snap[c].status = "MERGED"
                  THEN "success" ELSE "in_progress"

\* Mutant: no webhook looks at the readiness.
ReportAndRespond(h) ==
    /\ at[h].pc = "report"
    /\ report' = IF at[h].kind = "branch" THEN report ELSE Conclusion(at[h])
    /\ Respond(h)
    /\ UNCHANGED vars
    /\ Quiet /\ RulesUnchanged

\* UpdateMetaCheckRun, which needs the head SHA; the webhook of a child goes on
\* to the readiness, the others are done.
Report(h) ==
    /\ at[h].pc = "report"
    /\ report' = IF at[h].kind = "branch" THEN report ELSE Conclusion(at[h])
    /\ IF at[h].kind = "child" THEN To(h, "policy") ELSE Respond(h)
    /\ UNCHANGED vars
    /\ Quiet /\ RulesUnchanged

\* The end of evaluateMetaPRReadiness: a query has its check run to post.
Leave(h) ==
    IF at[h].kind \in {"query", "branch"} THEN To(h, "report") ELSE Respond(h)

\* Mutant: a child that is not merged does not hold the Meta PR back.
WillingWithoutChildren(l) == "auto" \in policy /\ Known(l.snap) # {}

\* Auto-merge is on and every child of the copy is merged.
Willing(l) ==
    /\ "auto" \in policy
    /\ Known(l.snap) # {}
    /\ \A c \in Known(l.snap) : l.snap[c].status = "MERGED"

\* The required checks are not asked for without a head SHA.
RulesToAsk(l) ==
    (policy \cap Rule) \ (IF l.kind = "branch" THEN {"checks"} ELSE {})

ReadPolicy(h) ==
    /\ at[h].pc = "policy"
    /\ IF Willing(at[h])
       THEN Move(h, [at[h] EXCEPT !.pc = "rules", !.rules = RulesToAsk(at[h])])
       ELSE Leave(h)
    /\ UNCHANGED <<vars, report>>
    /\ Quiet /\ RulesUnchanged

\* The rules are asked for one after the other.
AskedBefore(r) ==
    CASE r = "approval" -> {}
      [] r = "checks"   -> {"approval"}
      [] r = "files"    -> {"approval", "checks"}

\* An error counts as a no.
AskRule(h, r) ==
    /\ at[h].pc = "rules"
    /\ r \in at[h].rules
    /\ AskedBefore(r) \cap at[h].rules = {}
    /\ \/ /\ r \in facts
          /\ Move(h, [at[h] EXCEPT !.rules = @ \ {r}])
       \/ /\ r \notin facts \/ "lookup" \in Faults
          /\ Leave(h)
    /\ UNCHANGED <<vars, report>>
    /\ Quiet /\ RulesUnchanged

\* The rules hold and the copy says OPEN: MERGING is written, a conflict is
\* ignored, and the cascade runs in this goroutine.
TriggerCascade(h) ==
    /\ at[h].pc = "rules"
    /\ at[h].rules = {}
    /\ at[h].seen = "OPEN"
    /\ HoldsLock(meta, at[h].lock) => meta.lock < MaxLock
    /\ meta' = LockedUpdate(meta, "MERGING", at[h].lock)
    /\ Goto(h, "fetch")
    /\ To(h, "cascade")
    /\ UNCHANGED <<row, host, root, pointer, crashes, report>>
    /\ Quiet /\ RulesUnchanged

NotOpen(h) ==
    /\ at[h].pc = "rules"
    /\ at[h].rules = {}
    /\ at[h].seen # "OPEN"
    /\ Leave(h)
    /\ UNCHANGED <<vars, report>>
    /\ Quiet /\ RulesUnchanged

\* The error of the cascade is not looked at.
CascadeReturned(h) ==
    /\ at[h].pc = "cascade"
    /\ exec[h].pc = "idle"
    /\ Leave(h)
    /\ UNCHANGED <<vars, report>>
    /\ Quiet /\ RulesUnchanged

--------------------------------------------------------------------------------
(* The engine and the rest of the world.                                   *)

Cascade(w) ==
    /\ ExecuteCascadeMerge(w)
    /\ HostNews
    /\ UNCHANGED <<at, policy, facts, report>>

Loops ==
    /\ \E w \in Loop : ReconcileAllPending(w)
    /\ UNCHANGED serverVars

Retry(h) ==
    /\ "retry" \in Serve
    /\ IsFree(h)
    /\ RetryMerge(h)
    /\ UNCHANGED serverVars

\* A handler and the run it has started end together: the process dies, or the
\* context of the request is cancelled.
HandlerDies(h) ==
    /\ ~ IsFree(h)
    /\ crashes < MaxCrashes
    /\ crashes' = crashes + 1
    /\ Return(h)
    /\ Respond(h)
    /\ UNCHANGED <<meta, row, host, root, pointer, report>>
    /\ Quiet /\ RulesUnchanged

\* A developer merges a child, known or not, or the root.
MergedOnHost(c) ==
    /\ c \in Manual
    /\ host[c] = "open"
    /\ host' = [host EXCEPT ![c] = "merged"]
    /\ UNCHANGED <<meta, row, root, pointer, exec, crashes, at, report>>
    /\ HostNews /\ RulesUnchanged

RootMergedOnHost ==
    /\ "rootByHand" \in Serve
    /\ root = "open"
    /\ root' = "merged"
    /\ UNCHANGED <<meta, row, host, pointer, exec, crashes, at, report>>
    /\ HostNews /\ RulesUnchanged

\* A push to a child, or a review of it.
Touched(c, k) ==
    /\ k \in Serve \cap {"pushed", "reviewed"}
    /\ childEvents' = [childEvents EXCEPT ![c] = @ \cup {k}]
    /\ UNCHANGED <<vars, at, rootEvents, policy, facts, report>>

\* A rule comes to hold, or stops.  A review is announced as an update of the
\* root; the events of checks are not processed at all.
RuleHolds(r) ==
    /\ r \in RuleInUse \ facts
    /\ facts' = facts \cup {r}
    /\ rootEvents' = rootEvents \cup (IF r = "checks" THEN {} ELSE {"updated"})
    /\ UNCHANGED <<vars, at, childEvents, policy, report>>

RuleBroken(r) ==
    /\ r \in facts \cap Fickle
    /\ facts' = facts \ {r}
    /\ UNCHANGED <<vars, at, rootEvents, childEvents, policy, report>>

--------------------------------------------------------------------------------

Handle(h) ==
    \/ CreateMetaPR(h)
    \/ CloseMetaPR(h)
    \/ \E c \in Child : Discover(h, c) \/ AskChild(h, c)
    \/ Discovered(h)
    \/ InsertChild(h)
    \/ WriteChild(h)
    \/ WriteChildFails(h)
    \/ ReadParent(h)
    \/ ReadChildren(h)
    \/ AlignMerged(h)
    \/ Asked(h)
    \/ Report(h)
    \/ ReadPolicy(h)
    \/ \E r \in Rule : AskRule(h, r)
    \/ TriggerCascade(h)
    \/ NotOpen(h)
    \/ CascadeReturned(h)

Deliver(h) ==
    \/ \E k \in RootEvent : ServeRoot(h, k)
    \/ \E c \in Child, k \in ChildEvent : ServeChild(h, c, k)

ServerNext ==
    \/ \E h \in Request :
          \/ Deliver(h)
          \/ Handle(h)
          \/ \E kind \in {"query", "branch"} : ServeQuery(h, kind)
          \/ \E p \in Policies : ServeSettings(h, p)
          \/ Retry(h)
          \/ HandlerDies(h)
    \/ \E w \in Worker : Cascade(w)
    \/ Loops
    \/ \E c \in Child : MergedOnHost(c)
    \/ \E c \in Child, k \in ChildEvent : Touched(c, k)
    \/ RootMergedOnHost
    \/ \E r \in Rule : RuleHolds(r) \/ RuleBroken(r)

ServerSpec == ServerInit /\ [][ServerNext]_allVars

\* Handlers and runs go on, and every webhook is delivered.
ServerFairness ==
    /\ \A h \in Request : WF_allVars(Handle(h)) /\ WF_allVars(Deliver(h))
    /\ \A w \in Worker : WF_allVars(Cascade(w))

FairServerSpec == ServerSpec /\ ServerFairness

--------------------------------------------------------------------------------
(* Properties.  RecordsAreTrue of CascadeMerge is a part of ServerInv;     *)
(* RootAfterChildren gives way to RootAfterSnapshot.                       *)

\* lock_version counts every change of the status, whichever handler or run
\* makes it: a compare-and-set that succeeds has missed none.
StatusUnderLock ==
    [][meta'.status # meta.status => meta'.lock = meta.lock + 1]_allVars

Triggered(h) == at[h].pc = "rules" /\ at'[h].pc = "cascade"

\* A cascade started by itself finds every child its handler knew merged on the
\* host, whatever writes raced with the copy it has judged.
TriggerAfterMerges ==
    [][\A h \in Request : Triggered(h) =>
          \A c \in Known(at[h].snap) : Merged(c)]_allVars

\* The run that merges the root has seen every child of its snapshot merged,
\* with webhooks and queries writing the rows under it.
RootAfterSnapshot ==
    [][root' # root /\ exec' # exec =>
          \E w \in Worker :
              /\ exec'[w] # exec[w]
              /\ \A c \in Known(exec[w].snap) : Merged(c)]_allVars

\* A green check run on a GitHub root means that the root is merged, however old
\* the copy it was made from.
GreenMeansMerged == report = "success" /\ ~ RootOnGitLab => root = "merged"

\* flow.md:20: the Meta PR is merged by itself once its children are merged.
\* With auto-merge on and its rules satisfied it does not stay OPEN, unless the
\* handler of an older event has written the row it read over a child's merge
\* (server.go:411), which no later event corrects.
ReadyToMerge ==
    /\ meta.status = "OPEN"
    /\ Members # {}
    /\ \A c \in Members : Merged(c)
    /\ "auto" \in policy
    /\ policy \cap Rule \subseteq facts

ZeroTouch ==
    \/ ReadyToMerge ~> ~ ReadyToMerge
    \/ <>[](\E c \in Members : Merged(c) /\ row[c].status = "OPEN")

--------------------------------------------------------------------------------
(* Why the records are true: what every copy of a row may be relied on for.*)

\* A run calls merged only what is: in its snapshot, and in its answers.
RunHonest(w) ==
    /\ ~ BeforeSnapshot(w) =>
          \A c \in Child : exec[w].snap[c].status = "MERGED" => Merged(c)
    /\ \A c \in Child : exec[w].job[c] = "ok" => Merged(c)
    /\ exec[w].pc = "finish" => root = "merged"

\* A handler calls merged only what is: the row it will write, the rows it has
\* read, the status it has read, and the event it handles.
HandlerHonest(h) ==
    /\ at[h].kind = "child" /\ at[h].stat = "MERGED" =>
          \A c \in at[h].todo : Merged(c)
    /\ \A c \in Child : at[h].snap[c].status = "MERGED" => Merged(c)
    /\ at[h].kind = "merged" \/ at[h].seen = "MERGED" => root = "merged"

EventsHonest ==
    /\ "merged" \in rootEvents => root = "merged"
    /\ \A c \in Child : "merged" \in childEvents[c] => Merged(c)

ServerInv ==
    /\ ServerTypeOK
    /\ RecordsAreTrue
    /\ GreenMeansMerged
    /\ EventsHonest
    /\ \A w \in Worker : RunHonest(w)
    /\ \A h \in Request : HandlerHonest(h)

================================================================================
