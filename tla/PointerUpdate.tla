------------------------------ MODULE PointerUpdate ------------------------------
(***************************************************************************)
(* UpdateSubmodulePointersOnBranch, request by request: the pull request   *)
(* branch of a meta-repository while webhooks and cascades align its       *)
(* submodules, developers push to it, and the submodules' main branches    *)
(* move.  CascadeMerge and MetaPRServer take the call as one step.         *)
(***************************************************************************)
EXTENDS Naturals, FiniteSets, VCSHost

CONSTANTS Sub,        \* submodules, each with a child pull request's row
          Updater,    \* calls: of webhooks, of cascades
          ByName,     \* whose row says the repository's name, which is not the path
          ByFullName, \* whose row says its full name
          PointerFaults,     \* requests that may fail: "gitmodules", "main", "commit", "write"
          MaxPush,    \* pushes to the branch
          MaxMain     \* commits on each main branch

ASSUME PointerAssumption ==
    /\ ByName \subseteq Sub /\ ByFullName \subseteq Sub \ ByName
    /\ MaxPush \in Nat /\ MaxMain \in Nat \ {0}

VARIABLES main,      \* how many commits each main branch has
          branch,    \* the commit the branch is at
          pushes,    \* how many times a developer pushed to it
          up         \* the calls

pointerVars == <<main, branch, pushes, up, onGitLab>>

\* A commit: its place in the branch's history, the pushes its files hold, the pin
\* of every submodule (0: the commit a row recorded, older than any on main), and
\* the pins at paths where no submodule is.
Commit == [at : Nat, files : Nat, pin : [Sub -> 0..MaxMain], stray : SUBSET Sub]

NotRead == MaxMain + 1      \* the pin of a submodule still to be asked for

Update == [pc : {"idle", "gitmodules", "ref", "commit", "mains", "write", "patch", "ok", "error"},
         mapped : BOOLEAN,          \* .gitmodules was read
         base : Commit,             \* the commit the branch was at
         tree : BOOLEAN,            \* every answer up to now had a SHA
         pin : [Sub -> 0..NotRead], \* the SHAs to write
         from : [Sub -> 0..MaxMain], \* main when the call began
         wrote : SUBSET Sub]        \* written one by one, on GitLab

PointerTypeOK ==
    /\ AHost
    /\ main \in [Sub -> 0..MaxMain]
    /\ branch \in Commit
    /\ pushes \in Nat
    /\ up \in [Updater -> Update]

FirstCommit == [at |-> 0, files |-> 0, pin |-> [s \in Sub |-> 0], stray |-> {}]

NoUpdate == [pc |-> "idle", mapped |-> FALSE, base |-> FirstCommit, tree |-> TRUE,
           pin |-> [s \in Sub |-> NotRead], from |-> [s \in Sub |-> 0], wrote |-> {}]

PointerInit ==
    /\ AHost
    /\ main = [s \in Sub |-> 1]
    /\ branch = FirstCommit
    /\ pushes = 0
    /\ up = [u \in Updater |-> NoUpdate]

--------------------------------------------------------------------------------
(* The world outside.                                                      *)

\* A child pull request merges.
MainMoves(s) ==
    /\ main[s] < MaxMain
    /\ main' = [main EXCEPT ![s] = @ + 1]
    /\ UNCHANGED <<branch, pushes, up>>

DeveloperPushes ==
    /\ pushes < MaxPush
    /\ pushes' = pushes + 1
    /\ branch' = [branch EXCEPT !.at = @ + 1, !.files = pushes + 1]
    /\ UNCHANGED <<main, up>>

--------------------------------------------------------------------------------
(* The call.                                                               *)

Advance(u, pc) == up' = [up EXCEPT ![u].pc = pc]

UpdateFails(u) == Advance(u, "error") /\ UNCHANGED <<main, branch, pushes>>

BeginUpdate(u) ==
    /\ up[u].pc = "idle"
    /\ up' = [up EXCEPT ![u].pc = "gitmodules", ![u].from = main]
    /\ UNCHANGED <<main, branch, pushes>>

\* Without .gitmodules the rows' paths are used as they are.
ReadGitmodules(u) ==
    /\ up[u].pc = "gitmodules"
    /\ \E read \in {TRUE} \cup (IF "gitmodules" \in PointerFaults THEN {FALSE} ELSE {}) :
          up' = [up EXCEPT ![u].pc = IF onGitLab THEN "mains" ELSE "ref",
                           ![u].mapped = read]
    /\ UNCHANGED <<main, branch, pushes>>

ReadRef(u) ==
    /\ up[u].pc = "ref"
    /\ up' = [up EXCEPT ![u].pc = "commit", ![u].base = branch]
    /\ UNCHANGED <<main, branch, pushes>>

\* The status of the answer is not looked at.
ReadCommit(u) ==
    /\ up[u].pc = "commit"
    /\ \E tree \in {TRUE} \cup (IF "commit" \in PointerFaults THEN {FALSE} ELSE {}) :
          up' = [up EXCEPT ![u].pc = "mains", ![u].tree = tree]
    /\ UNCHANGED <<main, branch, pushes>>

Unread(u) == {s \in Sub : up[u].pin[s] = NotRead}

\* Mutant: the row's SHA is written.
ReadMainOfRow(u, s) ==
    /\ up[u].pc = "mains"
    /\ s \in Unread(u)
    /\ up' = [up EXCEPT ![u].pin[s] = 0, ![u].pc = IF Unread(u) = {s} THEN "write" ELSE "mains"]
    /\ UNCHANGED <<main, branch, pushes>>

\* GetBranchHeadSHA of main, or the row's SHA when that fails; on GitLab every
\* answer is written before the next is asked for.
ReadMain(u, s) ==
    /\ up[u].pc = "mains"
    /\ s \in Unread(u)
    /\ \E pin \in {main[s]} \cup (IF "main" \in PointerFaults THEN {0} ELSE {}) :
          up' = [up EXCEPT ![u].pin[s] = pin,
                           ![u].pc = IF onGitLab THEN "write"
                                     ELSE IF Unread(u) = {s} THEN "write" ELSE "mains"]
    /\ UNCHANGED <<main, branch, pushes>>

\* .gitmodules tells the path for a path and for a full name; GitHub looks for what
\* the row says, GitLab for the full name first.
Found(u, s) ==
    \/ s \notin ByName \cup ByFullName
    \/ up[u].mapped /\ (onGitLab \/ s \in ByFullName)

--------------------------------------------------------------------------------
(* GitHub: a tree on the base commit, a commit, the branch's ref.          *)

PostCommit(u) ==
    /\ ~ onGitLab
    /\ up[u].pc = "write"
    /\ \E sha \in {up[u].tree} \cup (IF "write" \in PointerFaults THEN {FALSE} ELSE {}) :
          up' = [up EXCEPT ![u].pc = "patch", ![u].tree = sha]
    /\ UNCHANGED <<main, branch, pushes>>

\* The commit on the one that was read.
NewCommit(u) ==
    [up[u].base EXCEPT
        !.at = branch.at + 1,
        !.pin = [s \in Sub |-> IF Found(u, s) THEN up[u].pin[s] ELSE @[s]],
        !.stray = @ \cup {s \in Sub : ~ Found(u, s)}]

\* Mutant: "force": true.
PatchRefForced(u) ==
    /\ up[u].pc = "patch"
    /\ IF up[u].tree
       THEN /\ branch' = NewCommit(u)
            /\ Advance(u, "ok")
            /\ UNCHANGED <<main, pushes>>
       ELSE UpdateFails(u)

\* Mutant: when the branch has moved, the pins are committed on its new head.
PatchRefAgain(u) ==
    /\ up[u].pc = "patch"
    /\ IF up[u].tree
       THEN /\ branch' = [NewCommit(u) EXCEPT !.files = branch.files]
            /\ Advance(u, "ok")
            /\ UNCHANGED <<main, pushes>>
       ELSE UpdateFails(u)

\* "force": false: refused when the branch has moved, and when an earlier answer
\* had no SHA.
PatchRef(u) ==
    /\ up[u].pc = "patch"
    /\ IF up[u].tree /\ branch.at = up[u].base.at
       THEN /\ branch' = NewCommit(u)
            /\ Advance(u, "ok")
            /\ UNCHANGED <<main, pushes>>
       ELSE UpdateFails(u)

--------------------------------------------------------------------------------
(* GitLab: one request, and one commit, for every submodule.               *)

\* A path that is no submodule's is refused.
PutSubmodule(u) ==
    /\ onGitLab
    /\ up[u].pc = "write"
    /\ \E s \in Sub \ (Unread(u) \cup up[u].wrote) :
          \/ /\ Found(u, s)
             /\ branch' = [branch EXCEPT !.at = @ + 1, !.pin[s] = up[u].pin[s]]
             /\ up' = [up EXCEPT ![u].wrote = @ \cup {s},
                                 ![u].pc = IF Unread(u) = {} THEN "ok" ELSE "mains"]
             /\ UNCHANGED <<main, pushes>>
          \/ /\ ~ Found(u, s) \/ "write" \in PointerFaults
             /\ UpdateFails(u)

--------------------------------------------------------------------------------

UpdateSubmodulePointersOnBranch(u) ==
    \/ BeginUpdate(u)
    \/ ReadGitmodules(u)
    \/ ReadRef(u)
    \/ ReadCommit(u)
    \/ \E s \in Sub : ReadMain(u, s)
    \/ PostCommit(u)
    \/ PatchRef(u)
    \/ PutSubmodule(u)

PointerNext ==
    /\ \/ \E s \in Sub : MainMoves(s)
       \/ DeveloperPushes
       \/ \E u \in Updater : UpdateSubmodulePointersOnBranch(u)
    /\ SameHost

PointerSpec == PointerInit /\ [][PointerNext]_pointerVars

--------------------------------------------------------------------------------
(* Properties.                                                             *)

\* Whatever the calls do, the branch holds everything that was pushed to it.
NothingLost == branch.files = pushes

Alone(u) == \A v \in Updater \ {u} : up[v].pc = "idle"

\* A call that reports success has left every submodule whose path it found at main
\* as it was when the call began, or later: what it aligned is the merge it was
\* called for.  On GitLab, where each submodule is a commit of its own, a call that
\* no other meets.
OkMeansAligned ==
    [][\A u \in Updater, s \in Sub :
          /\ up[u].pc # "ok" /\ up'[u].pc = "ok"
          /\ Found(u, s)
          /\ onGitLab => Alone(u)
          => branch'.pin[s] >= up[u].from[s]]_pointerVars

\* With two calls under way at once, one of them late, no submodule's pin goes back
\* to an older commit: on GitHub, where the ref is moved only when nobody moved it.
PinsNeverGoBack ==
    [][~ onGitLab => \A s \in Sub : branch'.pin[s] >= branch.pin[s]]_pointerVars

================================================================================
