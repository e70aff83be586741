-------------------------------- MODULE LocalGit -------------------------------
(***************************************************************************)
(* The local workflow of internal/gitutils/git.go: checkout, commit, push, *)
(* sync, rebase and create-pr over a meta-repository and its submodules.   *)
(* Each command is a sequence of git commands, of which any may fail; what *)
(* the earlier ones have done stays done.                                  *)
(*                                                                         *)
(* A branch of a submodule is the set of its commits, numbered as they are *)
(* made, so that the greatest is its tip.  Of the meta-repository only the *)
(* commits its tips pin are modelled: nobody else commits there.           *)
(***************************************************************************)
EXTENDS Naturals, FiniteSets, FiniteSetsExt

CONSTANTS Sub,        \* the submodules
          Root,       \* the meta-repository
          Terminal,   \* where commands run
          Commands,   \* the commands that are used
          Killable,   \* those that may be interrupted
          Staged,     \* how commit is used: with --staged, without, or both
          Faults,     \* what may go wrong, a subset of FaultKinds
          Detached,   \* submodules cloned with a detached HEAD
          Hooks,      \* install-hooks has installed the pre-commit hook
          MaxCommit   \* bound on the commits of a submodule

Command == {"checkout", "commit", "push", "sync", "rebase", "create-pr"}

\* A push refused; a rebase or checkout that conflicts; a hook of the
\* submodules or of the root that says no; no tool or token to open a pull
\* request.
FaultKinds == {"refused", "conflict", "hook", "tool"}

ASSUME RootAssumption == Root \notin Sub
ASSUME CommandsAssumption == Commands \subseteq Command /\ Killable \subseteq Commands
ASSUME OptionsAssumption == Staged \subseteq BOOLEAN /\ Hooks \in BOOLEAN
ASSUME FaultsAssumption == Faults \subseteq FaultKinds
ASSUME DetachedAssumption == Detached \subseteq Sub
ASSUME BoundAssumption == MaxCommit \in Nat

VARIABLES line,        \* the commits of each local branch, and of a detached HEAD
          head,        \* what HEAD of a submodule is
          change,      \* uncommitted work in a submodule
          origin,      \* the branches of the submodules' remotes
          rootHead,    \* the branch of the meta-repository
          pins,        \* the commits pinned by the tips of its branches
          index,       \* the commits in its index
          rootOrigin,  \* the commits pinned by the branches of its remote
          prs,         \* repositories with a pull request of "feature"
          term         \* the command each terminal runs

subVars == <<line, head, change, origin>>
rootVars == <<rootHead, pins, index, rootOrigin>>
vars == <<subVars, rootVars, prs, term>>

Branch == {"main", "feature"}

Head == Branch \cup {"HEAD"}

Commit == 0..MaxCommit

Pins == [Sub -> Commit]

NoPins == [s \in {} |-> 0]

\* A command, how far it is, what is left for it to do, its arguments, what it
\* saw of the repositories at its start, and what it has done; when it ends,
\* what it says.
Local == [cmd  : Command \cup {"none"},
          pc   : {"idle", "subs", "add", "root"},
          todo : SUBSET (Sub \cup {Root}),
          arg  : Branch,
          flag : BOOLEAN,                   \* -b of checkout, --staged of commit
          seen : [Sub -> Head],             \* status.Submodules[].Branch
          due  : SUBSET Sub,                \* unpushed or uncommitted then
          meta : Branch,                    \* status.MetaBranch
          made : SUBSET (Sub \cup {Root}),  \* modifiedSubmodules, or results
          says : {"ok", "error"}]

Prompt == [cmd |-> "none", pc |-> "idle", todo |-> {}, arg |-> "main",
           flag |-> FALSE, seen |-> [s \in Sub |-> "HEAD"], due |-> {},
           meta |-> "main", made |-> {}, says |-> "ok"]

TypeOK ==
    /\ line \in [Sub -> [Head -> SUBSET Commit]]
    /\ head \in [Sub -> Head]
    /\ change \in [Sub -> {"none", "unstaged", "staged"}]
    /\ origin \in [Sub -> [Branch -> SUBSET Commit]]
    /\ rootHead \in Branch
    /\ pins \in [Branch -> Pins \cup {NoPins}]
    /\ index \in Pins
    /\ rootOrigin \in [Branch -> Pins \cup {NoPins}]
    /\ prs \subseteq Sub \cup {Root}
    /\ term \in [Terminal -> Local]

\* A fresh clone, everything on main.
Init ==
    /\ line = [s \in Sub |-> [b \in Head |->
                  IF b = "main" \/ (b = "HEAD" /\ s \in Detached) THEN {0} ELSE {}]]
    /\ head = [s \in Sub |-> IF s \in Detached THEN "HEAD" ELSE "main"]
    /\ change = [s \in Sub |-> "none"]
    /\ origin = [s \in Sub |-> [b \in Branch |-> IF b = "main" THEN {0} ELSE {}]]
    /\ rootHead = "main"
    /\ pins = [b \in Branch |->
                  IF b = "main" THEN [s \in Sub |-> 0] ELSE NoPins]
    /\ index = [s \in Sub |-> 0]
    /\ rootOrigin = pins
    /\ prs = {}
    /\ term = [t \in Terminal |-> Prompt]

--------------------------------------------------------------------------------
(* What git says of a submodule.                                           *)

Commits(s) == line[s][head[s]]

Tip(s) == Max(Commits(s))

Published(s) == UNION {origin[s][b] : b \in Branch}

\* Every commit of the submodule anything refers to.
Known(s) ==
    (UNION {line[s][b] : b \in Head})
        \cup Published(s)
        \cup {index[s]}
        \cup {pins[b][s] : b \in {c \in Branch : pins[c] # NoPins}}

Fresh(s) == Max(Known(s)) + 1

Room(s) == Fresh(s) <= MaxCommit

\* getUnpushedCommits and hasNoUpstream: a branch has its upstream once it is on
\* the remote, a detached HEAD has none and nothing to push.
hasNoUpstream(s) == head[s] = "HEAD" \/ origin[s][head[s]] = {}

Unpushed(s) == head[s] # "HEAD" /\ ~ (Commits(s) \subseteq origin[s][head[s]])

--------------------------------------------------------------------------------
(* Commands.                                                               *)

Idle(t) == term[t].pc = "idle"

Start(t, cmd, local) ==
    /\ cmd \in Commands
    /\ Idle(t)
    /\ term' = [term EXCEPT ![t] = [local EXCEPT !.cmd = cmd]]

Step(t, local) == term' = [term EXCEPT ![t] = local]

Return(t, says) == term' = [term EXCEPT ![t] = [Prompt EXCEPT !.says = says]]

Running(t, cmd, pc) == term[t].cmd = cmd /\ term[t].pc = pc

Done(t, s) == Step(t, [term[t] EXCEPT !.todo = @ \ {s}])

\* GetLocalStatus: the branches, and which submodules have work that is not
\* committed or not pushed.
Seen(local) ==
    [local EXCEPT !.pc   = "subs",
                  !.todo = Sub,
                  !.seen = head,
                  !.due  = {s \in Sub : Unpushed(s) \/ change[s] # "none"},
                  !.meta = rootHead]

--------------------------------------------------------------------------------
(* git meta checkout [-b] <branch>                                         *)

\* The index follows the branch; an entry that differs from both branches stops
\* git.  A checkout of the root that fails changes nothing.
CheckoutRoot(t, b, new) ==
    /\ IF new THEN pins[b] = NoPins ELSE pins[b] # NoPins
    /\ LET target == IF new THEN pins[rootHead] ELSE pins[b]
           kept   == {s \in Sub : index[s] # pins[rootHead][s]}
       IN  /\ \A s \in kept : target[s] \in {pins[rootHead][s], index[s]}
           /\ pins' = [pins EXCEPT ![b] = target]
           /\ index' = [s \in Sub |-> IF s \in kept THEN index[s] ELSE target[s]]
    /\ rootHead' = b
    /\ Start(t, "checkout", [Prompt EXCEPT !.pc = "subs", !.todo = Sub,
                                           !.arg = b, !.flag = new])
    /\ UNCHANGED <<subVars, rootOrigin, prs>>

\* A new branch starts at HEAD; one that exists is checked out, whether it was
\* to be new or not.
BranchStart(t, s) ==
    IF line[s][term[t].arg] # {} THEN line[s][term[t].arg]
    ELSE IF term[t].flag THEN Commits(s)
    ELSE origin[s][term[t].arg]

CheckoutSub(t, s) ==
    LET b == term[t].arg
    IN  /\ Running(t, "checkout", "subs")
        /\ s \in term[t].todo
        /\ BranchStart(t, s) # {}
        /\ line' = [line EXCEPT ![s][b] = BranchStart(t, s)]
        /\ head' = [head EXCEPT ![s] = b]
        /\ Done(t, s)
        /\ UNCHANGED <<change, origin, rootVars, prs>>

\* Mutant: the error of a submodule is dropped and the others go on.
CheckoutGoesOn(t, s) ==
    /\ Running(t, "checkout", "subs")
    /\ s \in term[t].todo
    /\ \/ BranchStart(t, s) = {}
       \/ "conflict" \in Faults /\ change[s] # "none"
    /\ Done(t, s)
    /\ UNCHANGED <<subVars, rootVars, prs>>

\* No such branch, or work in the way: the command stops where it is.
CheckoutFails(t, s) ==
    /\ Running(t, "checkout", "subs")
    /\ s \in term[t].todo
    /\ \/ BranchStart(t, s) = {}
       \/ "conflict" \in Faults /\ change[s] # "none"
    /\ Return(t, "error")
    /\ UNCHANGED <<subVars, rootVars, prs>>

CheckoutDone(t) ==
    /\ Running(t, "checkout", "subs")
    /\ term[t].todo = {}
    /\ Return(t, "ok")
    /\ UNCHANGED <<subVars, rootVars, prs>>

--------------------------------------------------------------------------------
(* git meta commit [--staged]                                              *)

CommitStart(t, staged) ==
    /\ Start(t, "commit", [Prompt EXCEPT
           !.pc   = "subs",
           !.todo = IF staged THEN Sub ELSE {s \in Sub : change[s] # "none"},
           !.flag = staged])
    /\ UNCHANGED <<subVars, rootVars, prs>>

ToCommit(t, s) ==
    IF term[t].flag THEN change[s] = "staged" ELSE change[s] # "none"

CommitSub(t, s) ==
    /\ Running(t, "commit", "subs")
    /\ s \in term[t].todo
    /\ ToCommit(t, s)
    /\ Room(s)
    /\ line' = [line EXCEPT ![s][head[s]] = @ \cup {Fresh(s)}]
    /\ change' = [change EXCEPT ![s] = "none"]
    /\ Step(t, [term[t] EXCEPT !.todo = @ \ {s}, !.made = @ \cup {s}])
    /\ UNCHANGED <<head, origin, rootVars, prs>>

\* With --staged a submodule without staged changes is passed over.
CommitSkips(t, s) ==
    /\ Running(t, "commit", "subs")
    /\ term[t].flag
    /\ s \in term[t].todo
    /\ ~ ToCommit(t, s)
    /\ Done(t, s)
    /\ UNCHANGED <<subVars, rootVars, prs>>

\* A hook refuses the commit, or it was made meanwhile.
CommitSubFails(t, s) ==
    /\ Running(t, "commit", "subs")
    /\ s \in term[t].todo
    /\ \/ "hook" \in Faults
       \/ ~ term[t].flag /\ ~ ToCommit(t, s)
    /\ Return(t, "error")
    /\ UNCHANGED <<subVars, rootVars, prs>>

CommitAdd(t) ==
    /\ Running(t, "commit", "subs")
    /\ term[t].todo = {}
    /\ index' = [s \in Sub |-> IF s \in term[t].made THEN Tip(s) ELSE index[s]]
    /\ Step(t, [term[t] EXCEPT !.pc = "root"])
    /\ UNCHANGED <<subVars, rootHead, pins, rootOrigin, prs>>

\* What the commit of the root takes: its index, or every submodule's HEAD.
ToPin(t) == IF term[t].flag THEN index ELSE [s \in Sub |-> Tip(s)]

\* The installed pre-commit hook refuses while any submodule is detached.
HookRefuses == Hooks /\ \E s \in Sub : head[s] = "HEAD"

CommitRoot(t) ==
    /\ Running(t, "commit", "root")
    /\ ~ HookRefuses
    /\ ToPin(t) # pins[rootHead]
    /\ pins' = [pins EXCEPT ![rootHead] = ToPin(t)]
    /\ index' = ToPin(t)
    /\ Return(t, "ok")
    /\ UNCHANGED <<subVars, rootHead, rootOrigin, prs>>

\* Nothing to commit, or a hook's refusal.  Without --staged everything has been
\* staged by then, and the error is dropped when a submodule was committed.
CommitRootFails(t) ==
    LET empty == ToPin(t) = pins[rootHead]
    IN  /\ Running(t, "commit", "root")
        /\ empty \/ HookRefuses \/ "hook" \in Faults
        /\ index' = ToPin(t)
        /\ Return(t, IF term[t].made # {} /\ (empty \/ ~ term[t].flag)
                     THEN "ok" ELSE "error")
        /\ UNCHANGED <<subVars, rootHead, pins, rootOrigin, prs>>

--------------------------------------------------------------------------------
(* git meta push                                                           *)

PushStart(t) ==
    /\ Start(t, "push", Seen(Prompt))
    /\ UNCHANGED <<subVars, rootVars, prs>>

ToPush(t, s) ==
    /\ term[t].seen[s] # "HEAD"
    /\ s \in term[t].due \/ hasNoUpstream(s)

\* Mutant: a push with --force.
PushSubForced(t, s) ==
    LET b == term[t].seen[s]
    IN  /\ Running(t, "push", "subs")
        /\ s \in term[t].todo
        /\ ToPush(t, s)
        /\ origin' = [origin EXCEPT ![s][b] = line[s][b]]
        /\ Done(t, s)
        /\ UNCHANGED <<line, head, change, rootVars, prs>>

\* git push without force: nothing of the remote's branch may be lost.
PushSub(t, s) ==
    LET b == term[t].seen[s]
    IN  /\ Running(t, "push", "subs")
        /\ s \in term[t].todo
        /\ ToPush(t, s)
        /\ origin[s][b] \subseteq line[s][b]
        /\ origin' = [origin EXCEPT ![s][b] = line[s][b]]
        /\ Done(t, s)
        /\ UNCHANGED <<line, head, change, rootVars, prs>>

PushSkips(t, s) ==
    /\ Running(t, "push", "subs")
    /\ s \in term[t].todo
    /\ ~ ToPush(t, s)
    /\ Done(t, s)
    /\ UNCHANGED <<subVars, rootVars, prs>>

\* Mutant: the other submodules, and the root, are pushed all the same.
PushGoesOn(t, s) ==
    /\ Running(t, "push", "subs")
    /\ s \in term[t].todo
    /\ ToPush(t, s)
    /\ \/ ~ (origin[s][term[t].seen[s]] \subseteq line[s][term[t].seen[s]])
       \/ "refused" \in Faults
    /\ Done(t, s)
    /\ UNCHANGED <<subVars, rootVars, prs>>

PushFails(t, s) ==
    /\ Running(t, "push", "subs")
    /\ s \in term[t].todo
    /\ ToPush(t, s)
    /\ \/ ~ (origin[s][term[t].seen[s]] \subseteq line[s][term[t].seen[s]])
       \/ "refused" \in Faults
    /\ Return(t, "error")
    /\ UNCHANGED <<subVars, rootVars, prs>>

PushRoot(t) ==
    /\ Running(t, "push", "subs")
    /\ term[t].todo = {}
    /\ \/ /\ rootOrigin' = [rootOrigin EXCEPT ![term[t].meta] = pins[term[t].meta]]
          /\ Return(t, "ok")
       \/ /\ "refused" \in Faults
          /\ rootOrigin' = rootOrigin
          /\ Return(t, "error")
    /\ UNCHANGED <<subVars, rootHead, pins, index, prs>>

--------------------------------------------------------------------------------
(* git meta sync and git meta rebase                                       *)

\* HEAD's own commits go on top of onto, as one new commit.
Rebased(s, onto) ==
    IF Commits(s) \subseteq onto THEN onto
    ELSE IF onto \subseteq Commits(s) THEN Commits(s)
    ELSE onto \cup {Fresh(s)}

RebaseHead(s, onto) ==
    /\ change[s] = "none"
    /\ onto # {}
    /\ Room(s)
    /\ line' = [line EXCEPT ![s][head[s]] = Rebased(s, onto)]
    /\ UNCHANGED head

\* The rebase stops in a conflict: HEAD is left on the commit it rebases onto.
\* The developer is taken to abort it with git rebase --quit.
RebaseStuck(s, onto) ==
    /\ "conflict" \in Faults
    /\ change[s] = "none"
    /\ ~ (Commits(s) \subseteq onto) /\ ~ (onto \subseteq Commits(s))
    /\ line' = [line EXCEPT ![s]["HEAD"] = onto]
    /\ head' = [head EXCEPT ![s] = "HEAD"]

CannotRebase(s, onto) == change[s] # "none" \/ onto = {}

\* Nobody else pushes the root, so its own pull brings nothing.
SyncStart(t) ==
    /\ Start(t, "sync", Seen(Prompt))
    /\ UNCHANGED <<subVars, rootVars, prs>>

\* pull --rebase of the branch that was seen, of main for a detached HEAD; an
\* error is ignored.
SyncSub(t, s) ==
    LET onto == origin[s][IF term[t].seen[s] = "HEAD" THEN "main" ELSE term[t].seen[s]]
    IN  /\ Running(t, "sync", "subs")
        /\ s \in term[t].todo
        /\ \/ RebaseHead(s, onto)
           \/ RebaseStuck(s, onto)
           \/ CannotRebase(s, onto) /\ UNCHANGED <<line, head>>
        /\ Done(t, s)
        /\ UNCHANGED <<change, origin, rootVars, prs>>

SyncAlign(t) ==
    /\ Running(t, "sync", "subs")
    /\ term[t].todo = {}
    /\ index' = [s \in Sub |-> Tip(s)]
    /\ Return(t, "ok")
    /\ UNCHANGED <<subVars, rootHead, pins, rootOrigin, prs>>

RebaseStart(t) ==
    /\ Start(t, "rebase", Seen(Prompt))
    /\ UNCHANGED <<subVars, rootVars, prs>>

RebaseSub(t, s) ==
    /\ Running(t, "rebase", "subs")
    /\ s \in term[t].todo
    /\ RebaseHead(s, origin[s]["main"])
    /\ Done(t, s)
    /\ UNCHANGED <<change, origin, rootVars, prs>>

RebaseFails(t, s) ==
    /\ Running(t, "rebase", "subs")
    /\ s \in term[t].todo
    /\ \/ RebaseStuck(s, origin[s]["main"])
       \/ CannotRebase(s, origin[s]["main"]) /\ UNCHANGED <<line, head>>
    /\ Return(t, "error")
    /\ UNCHANGED <<change, origin, rootVars, prs>>

\* The root is rebased onto its own main, which pins nothing else.
RebaseRoot(t) ==
    /\ Running(t, "rebase", "subs")
    /\ term[t].todo = {}
    /\ Return(t, "ok")
    /\ UNCHANGED <<subVars, rootVars, prs>>

--------------------------------------------------------------------------------
(* git meta create-pr                                                      *)

\* The repositories on a branch of their own, the submodules first.
CreatePRsStart(t) ==
    LET targets == {s \in Sub : head[s] = "feature"}
                       \cup (IF rootHead = "feature" THEN {Root} ELSE {})
    IN  /\ targets # {}
        /\ Start(t, "create-pr", [Prompt EXCEPT !.pc = "subs", !.todo = targets])
        /\ UNCHANGED <<subVars, rootVars, prs>>

OnRemote(r) ==
    IF r = Root THEN rootOrigin["feature"] # NoPins ELSE origin[r]["feature"] # {}

Turn(t, r) == r \in term[t].todo /\ (r = Root => term[t].todo = {Root})

\* The host opens the pull request of a pushed branch.
CreatePR(t, r) ==
    /\ Running(t, "create-pr", "subs")
    /\ Turn(t, r)
    /\ OnRemote(r) /\ r \notin prs
    /\ prs' = prs \cup {r}
    /\ Step(t, [term[t] EXCEPT !.todo = @ \ {r}, !.made = @ \cup {r}])
    /\ UNCHANGED <<subVars, rootVars>>

\* The host's 422 (the pull request exists, or its branch does not) is reported
\* as a pull request that exists.
CreatePRRefused(t, r) ==
    /\ Running(t, "create-pr", "subs")
    /\ Turn(t, r)
    /\ ~ OnRemote(r) \/ r \in prs
    /\ Step(t, [term[t] EXCEPT !.todo = @ \ {r}, !.made = @ \cup {r}])
    /\ UNCHANGED <<subVars, rootVars, prs>>

\* Nothing to ask the host with: its page is opened in the browser.
CreatePRInBrowser(t, r) ==
    /\ "tool" \in Faults
    /\ Running(t, "create-pr", "subs")
    /\ Turn(t, r)
    /\ Done(t, r)
    /\ UNCHANGED <<subVars, rootVars, prs>>

CreatePRsDone(t) ==
    /\ Running(t, "create-pr", "subs")
    /\ term[t].todo = {}
    /\ Return(t, "ok")
    /\ UNCHANGED <<subVars, rootVars, prs>>

--------------------------------------------------------------------------------
(* The developer and the colleagues.                                       *)

Killed(t) ==
    /\ ~ Idle(t)
    /\ term[t].cmd \in Killable
    /\ Return(t, "error")
    /\ UNCHANGED <<subVars, rootVars, prs>>

Edit(s, c) ==
    /\ change[s] = "none"
    /\ c = "staged" => TRUE \in Staged
    /\ change' = [change EXCEPT ![s] = c]
    /\ UNCHANGED <<line, head, origin, rootVars, prs, term>>

ColleaguePushes(s, b) ==
    /\ origin[s][b] # {}
    /\ Room(s)
    /\ origin' = [origin EXCEPT ![s][b] = @ \cup {Fresh(s)}]
    /\ UNCHANGED <<line, head, change, rootVars, prs, term>>

--------------------------------------------------------------------------------

CheckoutBranch(t) ==
    \/ \E b \in Branch, new \in BOOLEAN : CheckoutRoot(t, b, new)
    \/ \E s \in Sub : CheckoutSub(t, s) \/ CheckoutFails(t, s)
    \/ CheckoutDone(t)

CommitAtomic(t) ==
    \/ \E staged \in Staged : CommitStart(t, staged)
    \/ \E s \in Sub : CommitSub(t, s) \/ CommitSkips(t, s) \/ CommitSubFails(t, s)
    \/ CommitAdd(t)
    \/ CommitRoot(t)
    \/ CommitRootFails(t)

PushBottomUp(t) ==
    \/ PushStart(t)
    \/ \E s \in Sub : PushSub(t, s) \/ PushSkips(t, s) \/ PushFails(t, s)
    \/ PushRoot(t)

SyncUpstream(t) ==
    \/ SyncStart(t)
    \/ \E s \in Sub : SyncSub(t, s)
    \/ SyncAlign(t)

RebaseUpstream(t) ==
    \/ RebaseStart(t)
    \/ \E s \in Sub : RebaseSub(t, s) \/ RebaseFails(t, s)
    \/ RebaseRoot(t)

CreatePRs(t) ==
    \/ CreatePRsStart(t)
    \/ \E r \in Sub \cup {Root} : 
             CreatePR(t, r) \/ CreatePRRefused(t, r) \/ CreatePRInBrowser(t, r)
    \/ CreatePRsDone(t)

Next ==
    \/ \E t \in Terminal :
          \/ CheckoutBranch(t)
          \/ CommitAtomic(t)
          \/ PushBottomUp(t)
          \/ SyncUpstream(t)
          \/ RebaseUpstream(t)
          \/ CreatePRs(t)
          \/ Killed(t)
    \/ \E s \in Sub, c \in {"unstaged", "staged"} : Edit(s, c)
    \/ \E s \in Sub, b \in Branch : ColleaguePushes(s, b)

Spec == Init /\ [][Next]_vars

--------------------------------------------------------------------------------
(* Properties.                                                             *)

\* No clone of the meta-repository finds a dangling pointer: what a branch of
\* its remote pins is on the remote of the submodule (USER_GUIDE.md:112).
PinsPublished ==
    \A b \in Branch, s \in Sub :
        rootOrigin[b] # NoPins => rootOrigin[b][s] \in Published(s)

\* A push takes nothing from a remote: what a colleague has pushed stays.
NothingUnpublished ==
    [][\A s \in Sub : Published(s) \subseteq Published(s)']_vars

Succeeds(t, cmd) ==
    /\ term[t].cmd = cmd
    /\ term'[t].cmd = "none"
    /\ term'[t].says = "ok"

\* A checkout that says it is done has left everything on the branch.
CheckoutTogether ==
    [][\A t \in Terminal :
          Succeeds(t, "checkout") =>
              rootHead = term[t].arg /\ \A s \in Sub : head[s] = term[t].arg]_vars

================================================================================
