------------------------------ MODULE EventRouting -----------------------------
(***************************************************************************)
(* What a webhook means and which row it reaches: the two normalizers and  *)
(* the lookups of Server.processNormalizedEvent, for pull requests of one  *)
(* branch name in several repositories.  A handler is one step here, and   *)
(* a webhook tells the state of the host at its delivery; MetaPRServer has *)
(* the interleavings and the late deliveries.                              *)
(***************************************************************************)
EXTENDS Naturals, Sequences, FiniteSets

CONSTANTS RoutedRepo,   \* repositories with a pull request of the branch
          TrackedSets,  \* which of them tracked_meta_repos may have
          SubNamed,     \* those with "sub-" or "submodule" in their name
          GitLab,       \* those on GitLab, the others are on GitHub
          SubmoduleOf   \* pairs of a meta-repository and a submodule of it

ASSUME RoutedAssumption ==
    /\ TrackedSets \subseteq SUBSET RoutedRepo
    /\ SubNamed \subseteq RoutedRepo
    /\ GitLab \subseteq RoutedRepo
    /\ SubmoduleOf \subseteq RoutedRepo \X RoutedRepo

VARIABLES metaRepos,   \* the repositories in tracked_meta_repos
          open,        \* repositories whose pull request exists
          merged,      \* those whose pull request is merged
          metas,       \* the rows of meta_prs, as their repositories, oldest first
          closed,      \* the Meta PRs recorded MERGED
          rows,        \* the rows of child_prs
          done,        \* the rows recorded MERGED
          told         \* repositories whose merge has reached a row

routingVars == <<metaRepos, open, merged, metas, closed, rows, done, told>>

\* Two ways to name the path of a submodule: the repository's name, when its
\* pull request is discovered, and its full name, when its webhook comes first.
\* The table allows one row per Meta PR and path.
ChildRow == [meta : RoutedRepo, repo : RoutedRepo, path : {"name", "fullName"}]

RoutingTypeOK ==
    /\ metaRepos \in TrackedSets
    /\ merged \subseteq open /\ open \subseteq RoutedRepo
    /\ metas \in Seq(RoutedRepo)
    /\ Cardinality({metas[i] : i \in DOMAIN metas}) = Len(metas)
    /\ closed \subseteq {metas[i] : i \in DOMAIN metas}
    /\ rows \subseteq ChildRow
    /\ done \subseteq rows
    /\ told \subseteq merged

RoutingInit ==
    /\ metaRepos \in TrackedSets
    /\ open = {}
    /\ merged = {}
    /\ metas = <<>>
    /\ closed = {}
    /\ rows = {}
    /\ done = {}
    /\ told = {}

--------------------------------------------------------------------------------
(* The normalizers.                                                        *)

GitHubDelivery == {"opened", "closed", "synchronize", "review", "check_run"}

GitLabDelivery == {"open", "update", "close", "merge", "approved"}

\* A review or a check carries no merge, a check is ignored later.
ParseGitHubWebhook(r, d) ==
    [type   |-> CASE d = "opened" -> "PR_OPENED"
                  [] d = "closed" -> IF r \in merged THEN "PR_MERGED"
                                                    ELSE "PR_CLOSED"
                  [] d = "synchronize" -> "PR_UPDATED"
                  [] d = "review" -> "REVIEW_SUBMITTED"
                  [] d = "check_run" -> "CHECK_STATUS_CHANGED",
     merged |-> r \in merged /\ d \notin {"review", "check_run"}]

ParseGitLabWebhook(r, d) ==
    [type   |-> CASE d = "open" -> "PR_OPENED"
                  [] d = "close" -> "PR_CLOSED"
                  [] d = "merge" -> "PR_MERGED"
                  [] OTHER -> "PR_UPDATED",
     merged |-> r \in merged]

\* The webhooks a host may send of a pull request, normalized.
Events(r) ==
    IF r \in GitLab
    THEN {ParseGitLabWebhook(r, d) :
             d \in {e \in GitLabDelivery : e = "merge" => r \in merged}}
    ELSE {ParseGitHubWebhook(r, d) : d \in GitHubDelivery}

SaysMerged(evt) == evt.merged \/ evt.type = "PR_MERGED"

--------------------------------------------------------------------------------
(* The lookups.                                                            *)

HasMetaPR(r) == \E i \in DOMAIN metas : metas[i] = r

\* Mutant: the name of the repository is not looked at.
AnyTrackedIsRoot(r) == r \in metaRepos

\* The event is one of a Meta PR: the repository is tracked and has a Meta PR of
\* the number, or gets one unless it is named like a submodule.  What the lookups
\* by branch and by head SHA find is not kept, as the error of the first stays.
IsRootEvent(r) == r \in metaRepos /\ (HasMetaPR(r) \/ r \notin SubNamed)

WithMetaPR(r) == IF HasMetaPR(r) THEN metas ELSE Append(metas, r)

\* GetMetaPRByAnyBranch: the newest.
Newest == metas[Len(metas)]

\* GetChildPRByRepoAndNumber: any of them, the query has no order.
RowsOf(r) == {x \in rows : x.repo = r}

--------------------------------------------------------------------------------
(* The handler.                                                            *)

RecordMetaMerged(r, evt) ==
    /\ IsRootEvent(r)
    /\ evt.type = "PR_MERGED"
    /\ metas' = WithMetaPR(r)
    /\ closed' = closed \cup {r}
    /\ UNCHANGED <<rows, done>>

\* The discovered pull requests: of every tracked repository but this one.
Discovered(r) ==
    {[meta |-> r, repo |-> q, path |-> "name"] : q \in (metaRepos \cap open) \ {r}}

\* Any other event of a Meta PR looks for its children; the host's list of pull
\* requests may tell which are merged.
Synthesize(r, evt) ==
    /\ IsRootEvent(r)
    /\ evt.type \notin {"PR_MERGED", "CHECK_STATUS_CHANGED"}
    /\ metas' = WithMetaPR(r)
    /\ rows' = rows \cup Discovered(r)
    /\ done' \in {done, done \cup {x \in Discovered(r) : x.repo \in merged}}
    /\ UNCHANGED closed

\* One of the child's rows is found and updated.
UpdateChild(r, evt) ==
    /\ ~ IsRootEvent(r)
    /\ evt.type # "CHECK_STATUS_CHANGED"
    /\ \E x \in RowsOf(r) :
          done' = IF SaysMerged(evt) THEN done \cup {x} ELSE done
    /\ UNCHANGED <<metas, closed, rows>>

\* Mutant: the child is adopted OPEN, whatever the event says.
AdoptOpenChild(r, evt) ==
    /\ ~ IsRootEvent(r)
    /\ evt.type # "CHECK_STATUS_CHANGED"
    /\ RowsOf(r) = {}
    /\ metas # <<>>
    /\ rows' = rows \cup {[meta |-> Newest, repo |-> r, path |-> "fullName"]}
    /\ UNCHANGED <<metas, closed, done>>

\* No row is found: the child is adopted by the newest Meta PR of the branch.
AdoptChild(r, evt) ==
    LET x == [meta |-> Newest, repo |-> r, path |-> "fullName"]
    IN  /\ ~ IsRootEvent(r)
        /\ evt.type # "CHECK_STATUS_CHANGED"
        /\ RowsOf(r) = {}
        /\ metas # <<>>
        /\ rows' = rows \cup {x}
        /\ done' = IF SaysMerged(evt) THEN done \cup {x} ELSE done
        /\ UNCHANGED <<metas, closed>>

\* A check is ignored, and so is a pull request that belongs to nothing.
Ignored(r, evt) ==
    \/ evt.type = "CHECK_STATUS_CHANGED"
    \/ ~ IsRootEvent(r) /\ RowsOf(r) = {} /\ metas = <<>>

Ignore(r, evt) ==
    /\ Ignored(r, evt)
    /\ UNCHANGED <<metas, closed, rows, done>>

processNormalizedEvent(r) ==
    /\ r \in open
    /\ \E evt \in Events(r) :
          /\ \/ RecordMetaMerged(r, evt)
             \/ Synthesize(r, evt)
             \/ UpdateChild(r, evt)
             \/ AdoptChild(r, evt)
             \/ Ignore(r, evt)
          /\ told' = IF SaysMerged(evt) /\ ~ Ignored(r, evt)
                     THEN told \cup {r} ELSE told
    /\ UNCHANGED <<metaRepos, open, merged>>

--------------------------------------------------------------------------------
(* The developers.                                                         *)

OpenPR(r) ==
    /\ r \notin open
    /\ open' = open \cup {r}
    /\ UNCHANGED <<metaRepos, merged, metas, closed, rows, done, told>>

MergePR(r) ==
    /\ r \in open \ merged
    /\ merged' = merged \cup {r}
    /\ UNCHANGED <<metaRepos, open, metas, closed, rows, done, told>>

RoutingNext ==
    \E r \in RoutedRepo : OpenPR(r) \/ MergePR(r) \/ processNormalizedEvent(r)

RoutingSpec == RoutingInit /\ [][RoutingNext]_routingVars

--------------------------------------------------------------------------------
(* Properties.                                                             *)

Roots == {p[1] : p \in SubmoduleOf}

\* Only the root's pull request becomes a Meta PR, whichever event comes first,
\* when the submodules are untracked or named like submodules.
MetaPRsAreRoots == \A i \in DOMAIN metas : metas[i] \in Roots

\* A merge that has reached one row of the pull request has reached all: no Meta
\* PR waits for a child that is merged (flow.md:20).  With submodules that are
\* tracked a pull request can have two rows.
MergeReachesRows ==
    metaRepos \subseteq Roots =>
        \A x \in rows : x.repo \in told => x \in done

================================================================================
