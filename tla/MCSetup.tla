--------------------------------- MODULE MCSetup ---------------------------------
(***************************************************************************)
(* Instances of the four modules of a repository's setup, and of what its  *)
(* events reach then, for TLC.  They share no state, so each behaviour is  *)
(* one of a part.                                                          *)
(***************************************************************************)
EXTENDS TrackedRepos, Onboarding, GitLabTokens, EventRouting

CONSTANTS m1, m2, s1, ann, bob, ra, root, api, web

VARIABLE part

allVars == <<repoVars, setupVars, grantVars, routingVars, part>>

\* auto-merge is unset to true, and inserted as false.
NewRow == [k \in Setting |-> "false"]

UnsetValues == [k \in Setting |-> IF k = "auto-merge" THEN "true" ELSE "false"]

\* Two meta-repositories share a submodule.
Shared == [m \in Meta |-> {s1}]

OwnRepos == [r \in GitLabRepo |-> ann]

Family == {root, api, web}

Subs == {api, web}

Pairs == {<<root, api>>, <<root, web>>}

\* The meta-repository only, or git meta init has tracked its submodules too.
RootOrAll == {{root}, Family}

AllInit ==
    /\ RepoInit /\ SetupInit /\ GrantInit /\ RoutingInit
    /\ part \in {"settings", "commands", "grants", "events"}
    /\ part # "settings" => appAnswers
    /\ part # "grants" => ~ grantFaults
    /\ part # "events" => metaRepos = Family

AllNext ==
    \/ /\ part = "settings"
       /\ RepoNext
       /\ UNCHANGED <<setupVars, grantVars, routingVars, part>>
    \/ /\ part = "commands"
       /\ SetupNext
       /\ UNCHANGED <<repoVars, grantVars, routingVars, part>>
    \/ /\ part = "grants"
       /\ GrantNext
       /\ UNCHANGED <<repoVars, setupVars, routingVars, part>>
    \/ /\ part = "events"
       /\ RoutingNext
       /\ UNCHANGED <<repoVars, setupVars, grantVars, part>>

AllSpec == AllInit /\ [][AllNext]_allVars

================================================================================
