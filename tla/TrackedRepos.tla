------------------------------ MODULE TrackedRepos ------------------------------
(***************************************************************************)
(* One row of tracked_meta_repos and those who write it: git meta config   *)
(* reads the whole of it, changes one key and posts the whole back; git    *)
(* meta init has it inserted or overwritten, twice; a webhook fills in the *)
(* installation of the GitHub App.  Nothing orders them.                   *)
(***************************************************************************)
EXTENDS Naturals

CONSTANTS Setting,       \* require-root-approval, auto-merge, required-checks, ...
          Value,
          Inserted,      \* the settings of a new row,
          Unset,         \* and those that config --unset writes
          Provider,
          GitHub,        \* the provider that --unset vcs-provider writes
          StaticToken,        \* a token set by config vcs-token
          UserToken,     \* the access token in user_vcs_tokens
          NoToken,       \* ""
          Configs,       \* git meta config, running
          Inits,         \* handleTrackRepo, running
          Webhooks,      \* processNormalizedEvent, running
          Command        \* what config is used for

ASSUME SettingAssumption ==
    /\ Inserted \in [Setting -> Value]
    /\ Unset \in [Setting -> Value]
ASSUME ProviderAssumption == GitHub \in Provider
ASSUME TokenAssumption ==
    StaticToken # UserToken /\ StaticToken # NoToken /\ UserToken # NoToken
ASSUME ClientAssumption ==
    /\ Configs \cap Inits = {}
    /\ Configs \cap Webhooks = {}
    /\ Inits \cap Webhooks = {}
ASSUME CommandAssumption ==
    Command \subseteq {"set", "unset", "token", "unset-token", "provider"}

VARIABLES repoRow,     \* of tracked_meta_repos
          asked,       \* the settings the posted commands asked for, key by key
          req,         \* the locals of each client
          appAnswers   \* the App is installed, and the host always answers so

repoVars == <<repoRow, asked, req, appAnswers>>

RepoClient == Configs \cup Inits \cup Webhooks
RepoToken == {StaticToken, UserToken, NoToken}

\* inst: installation_id is not ''.
RepoRow == [tracked  : BOOLEAN,
        policy   : [Setting -> Value],
        token    : RepoToken,
        provider : Provider,
        inst     : BOOLEAN]

\* wants: the settings the command was given.
Req == [pc       : {"idle", "post", "access", "update"},
          policy   : [Setting -> Value],
          token    : RepoToken,
          provider : Provider,
          wants    : UNION {[S -> Value] : S \in SUBSET Setting}]

NoReq == [pc |-> "idle", policy |-> Inserted, token |-> NoToken,
           provider |-> GitHub, wants |-> [k \in {} |-> Inserted[k]]]

RepoTypeOK ==
    /\ appAnswers \in BOOLEAN
    /\ repoRow \in RepoRow
    /\ asked \in [Setting -> Value]
    /\ req \in [RepoClient -> Req]
    /\ repoRow.inst => repoRow.tracked
    /\ ~ repoRow.tracked => \A c \in Configs \cup Webhooks : req[c].pc = "idle"

RepoInit ==
    /\ appAnswers \in BOOLEAN
    /\ repoRow = [tracked |-> FALSE, policy |-> Inserted, token |-> NoToken,
              provider |-> GitHub, inst |-> FALSE]
    /\ asked = Inserted
    /\ req = [c \in RepoClient |-> NoReq]

ReqBecomes(c, local) == req' = [req EXCEPT ![c] = local]

--------------------------------------------------------------------------------
(* git meta config: a GET and a POST.                                      *)

\* Of the settings that were read, one is changed.  A token is never sent back:
\* "" leaves the row's, also for --unset vcs-token.
Request(k, v) ==
    [NoReq EXCEPT !.pc       = "post",
                   !.policy   = [repoRow.policy EXCEPT ![k] = v],
                   !.provider = repoRow.provider,
                   !.wants    = [x \in {k} |-> v]]

Unchanged == [NoReq EXCEPT !.pc = "post", !.policy = repoRow.policy, !.provider = repoRow.provider]

SetKey(c) ==
    /\ "set" \in Command
    /\ \E k \in Setting, v \in Value : ReqBecomes(c, Request(k, v))

UnsetKey(c) ==
    /\ "unset" \in Command
    /\ \E k \in Setting : ReqBecomes(c, Request(k, Unset[k]))

SetToken(c) ==
    /\ "token" \in Command
    /\ ReqBecomes(c, [Unchanged EXCEPT !.token = StaticToken])

UnsetToken(c) ==
    /\ "unset-token" \in Command
    /\ ReqBecomes(c, Unchanged)

SetProvider(c) ==
    /\ "provider" \in Command
    /\ \E p \in Provider : ReqBecomes(c, [Unchanged EXCEPT !.provider = p])

\* Without a row the command ends here.
GetSettings(c) ==
    /\ req[c].pc = "idle"
    /\ repoRow.tracked
    /\ SetKey(c) \/ UnsetKey(c) \/ SetToken(c) \/ UnsetToken(c) \/ SetProvider(c)
    /\ UNCHANGED <<repoRow, asked>>

AfterRequest(wants) ==
    [k \in Setting |-> IF k \in DOMAIN wants THEN wants[k] ELSE asked[k]]

\* UpdateTrackedRepoSettings: an empty token keeps the row's.
PostSettings(c) ==
    LET new == req[c] IN
    /\ new.pc = "post"
    /\ repoRow' = [repoRow EXCEPT !.policy   = new.policy,
                          !.token    = IF new.token = NoToken THEN @ ELSE new.token,
                          !.provider = new.provider]
    /\ asked' = AfterRequest(new.wants)
    /\ ReqBecomes(c, NoReq)

PostFails(c) ==
    /\ req[c].pc = "post"
    /\ ReqBecomes(c, NoReq)
    /\ UNCHANGED <<repoRow, asked>>

--------------------------------------------------------------------------------
(* handleTrackRepo, for git meta init.                                     *)

\* Mutant: on conflict every column is written.
CreateTrackedRepoAnew(token, provider, inst) ==
    repoRow' = [tracked |-> TRUE, policy |-> Inserted, token |-> token,
            provider |-> provider, inst |-> inst]

\* On conflict the settings stay, and so the row of a repository that is not
\* tracked holds those of a new one.
CreateTrackedRepo(token, provider, inst) ==
    repoRow' = [repoRow EXCEPT !.tracked  = TRUE,
                       !.token    = token,
                       !.provider = provider,
                       !.inst     = inst]

\* The request carries no token: the user's is looked up.
TrackRepo(c) ==
    /\ req[c].pc = "idle"
    /\ \E token \in {NoToken, UserToken}, p \in Provider :
          /\ CreateTrackedRepo(token, p, FALSE)
          /\ ReqBecomes(c, [NoReq EXCEPT !.pc = "access", !.token = token, !.provider = p])
    /\ UNCHANGED asked

\* Mutant: the App is found, and its installation not written.
AppHasAccessUnsaved(c) ==
    /\ req[c].pc = "access"
    /\ CreateTrackedRepo(req[c].token, req[c].provider, FALSE)
    /\ ReqBecomes(c, NoReq)
    /\ UNCHANGED asked

\* HasAppAccessToRepo finds the installation, and the row is written again.
AppHasAccess(c) ==
    /\ req[c].pc = "access"
    /\ CreateTrackedRepo(req[c].token, req[c].provider, TRUE)
    /\ ReqBecomes(c, NoReq)
    /\ UNCHANGED asked

\* The host does not answer, or the process dies.
AppUnknown(c) ==
    /\ ~ appAnswers
    /\ req[c].pc = "access"
    /\ ReqBecomes(c, NoReq)
    /\ UNCHANGED <<repoRow, asked>>

--------------------------------------------------------------------------------
(* A webhook of the App, which carries its installation.                   *)

ReadTracked(c) ==
    /\ req[c].pc = "idle"
    /\ repoRow.tracked
    /\ ~ repoRow.inst
    /\ ReqBecomes(c, [NoReq EXCEPT !.pc = "update"])
    /\ UNCHANGED <<repoRow, asked>>

\* UpdateTrackedRepoInstallationID; its error is ignored.
SetInstallation(c) ==
    /\ req[c].pc = "update"
    /\ repoRow' \in {repoRow, [repoRow EXCEPT !.inst = TRUE]}
    /\ ReqBecomes(c, NoReq)
    /\ UNCHANGED asked

RepoNext ==
    /\ \/ \E c \in Configs : GetSettings(c) \/ PostSettings(c) \/ PostFails(c)
       \/ \E c \in Inits : TrackRepo(c) \/ AppHasAccess(c) \/ AppUnknown(c)
       \/ \E c \in Webhooks : ReadTracked(c) \/ SetInstallation(c)
    /\ UNCHANGED appAnswers

RepoSpec == RepoInit /\ [][RepoNext]_repoVars

--------------------------------------------------------------------------------
(* Properties.                                                             *)

\* Each setting has the value of the last command posted for it, however many
\* times the repository is initialized again, and whatever webhooks come.
SettingsKept == repoRow.policy = asked

\* With an App that is installed and answers, a row without its installation is
\* one that some request is about to complete.
InstallationKnown ==
    appAnswers /\ repoRow.tracked /\ ~ repoRow.inst => \E c \in Inits : req[c].pc = "access"

================================================================================
