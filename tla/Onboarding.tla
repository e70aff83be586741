------------------------------- MODULE Onboarding -------------------------------
(***************************************************************************)
(* git meta init and git meta setup-webhook: what they leave on the server *)
(* (tracked repositories), on the hosts (webhooks) and in the clone (hook  *)
(* scripts, AGENTS.md), and which deliveries the server then accepts.      *)
(* A repository stands for its full name and for its id on the server,     *)
(* which is the secret init gives to the webhooks.                         *)
(***************************************************************************)
EXTENDS Naturals, Sequences

CONSTANTS Meta,           \* meta-repositories, one clone each
          Submodules,     \* of each; others may share them
          OnGitLab,       \* repositories on GitLab
          App,            \* those the GitHub App has access to
          ServerSecret,   \* WEBHOOK_SECRET of the server
          RandomSecret,   \* "ms-secret-...", made up where WEBHOOK_SECRET is not set
          SetupWebhook,   \* setup-webhook is used
          Json,           \* --json
          SetupFaults,         \* requests and file writes fail
          MaxHooks        \* bound on the webhooks of a repository

HookRepo == Meta \cup UNION {Submodules[m] : m \in Meta}

ASSUME SubmodulesAssumption ==
    /\ DOMAIN Submodules = Meta
    /\ \A m \in Meta : Submodules[m] \cap Meta = {}
    /\ OnGitLab \subseteq HookRepo /\ App \subseteq HookRepo \ OnGitLab
ASSUME SecretAssumption ==
    ServerSecret \notin HookRepo /\ RandomSecret \notin HookRepo /\ RandomSecret # ServerSecret
ASSUME ModeAssumption ==
    SetupWebhook \in BOOLEAN /\ Json \subseteq BOOLEAN /\ SetupFaults \in BOOLEAN /\ MaxHooks \in Nat

VARIABLES tracked,   \* the server: tracked_meta_repos
          hooks,     \* the hosts: the secrets of a repository's webhooks
          clone,     \* what each clone holds
          command       \* the command that runs in each clone

setupVars == <<tracked, hooks, clone, command>>

Secret == HookRepo \cup {ServerSecret, RandomSecret}

Clone == [scripts : BOOLEAN, agents : BOOLEAN]

CommandState == [cmd    : {"init", "setup-webhook"},
          pc     : {"idle", "subs", "scripts", "webhooks", "root", "children", "agents"},
          json   : BOOLEAN,
          todo   : SUBSET HookRepo,
          secret : Secret,
          said   : {"nothing", "failed", "done"}]

SetupTypeOK ==
    /\ tracked \subseteq HookRepo
    /\ hooks \in [HookRepo -> Seq(Secret)]
    /\ clone \in [Meta -> Clone]
    /\ command \in [Meta -> CommandState]
    /\ \A m \in Meta : /\ command[m].todo # {} => command[m].pc \in {"subs", "children"}
                       /\ command[m].pc # "idle" => command[m].said = "nothing"

NoCommand == [cmd |-> "init", pc |-> "idle", json |-> FALSE, todo |-> {},
           secret |-> ServerSecret, said |-> "nothing"]

SetupInit ==
    /\ tracked = {}
    /\ hooks = [r \in HookRepo |-> <<>>]
    /\ clone = [m \in Meta |-> [scripts |-> FALSE, agents |-> FALSE]]
    /\ command = [m \in Meta |-> NoCommand]

CommandTo(m, pc, todo) == command' = [command EXCEPT ![m].pc = pc, ![m].todo = todo]

Say(m, said) == command' = [command EXCEPT ![m].pc = "idle", ![m].todo = {}, ![m].said = said]

--------------------------------------------------------------------------------
(* git meta init: the server and the clone.                                *)

\* Mutant: an answer of 400 or more is not an error.
RegisterUnchecked(m) ==
    /\ command[m].pc = "idle"
    /\ \E json \in Json :
       \E answered \in {TRUE} \cup (IF SetupFaults THEN {FALSE} ELSE {}) :
          /\ tracked' = IF answered THEN tracked \cup {m} ELSE tracked
          /\ command' = [command EXCEPT ![m] = [NoCommand EXCEPT !.pc     = "subs",
                                                        !.json   = json,
                                                        !.todo   = Submodules[m],
                                                        !.secret = m]]
    /\ UNCHANGED <<hooks, clone>>

\* Init ends here when the server does not register the repository; else the
\* webhooks' secret is the id it answers.
Register(m) ==
    /\ command[m].pc = "idle"
    /\ \E json \in Json :
          \/ /\ tracked' = tracked \cup {m}
             /\ command' = [command EXCEPT ![m] = [NoCommand EXCEPT !.pc     = "subs",
                                                           !.json   = json,
                                                           !.todo   = Submodules[m],
                                                           !.secret = m]]
          \/ /\ SetupFaults
             /\ command' = [command EXCEPT ![m] = [NoCommand EXCEPT !.json = json, !.said = "failed"]]
             /\ UNCHANGED tracked
    /\ UNCHANGED <<hooks, clone>>

\* One request for each submodule; its error is ignored.
RegisterSubmodule(m) ==
    /\ command[m].pc = "subs"
    /\ \E s \in command[m].todo :
          /\ \/ tracked' = tracked \cup {s}
             \/ SetupFaults /\ UNCHANGED tracked
          /\ CommandTo(m, "subs", command[m].todo \ {s})
    /\ UNCHANGED <<hooks, clone>>

SubmodulesRegistered(m) ==
    /\ command[m].pc = "subs"
    /\ command[m].todo = {}
    /\ CommandTo(m, "scripts", {})
    /\ UNCHANGED <<tracked, hooks, clone>>

InstallHooks(m) ==
    /\ command[m].pc = "scripts"
    /\ \/ /\ clone' = [clone EXCEPT ![m].scripts = TRUE]
          /\ CommandTo(m, "webhooks", {})
       \/ SetupFaults /\ Say(m, "failed") /\ UNCHANGED clone
    /\ UNCHANGED <<tracked, hooks>>

\* On GitHub: none when the App has access, with --skip-webhooks, or with --json;
\* else the user is asked.
SetupWebhooks(m) ==
    /\ command[m].pc = "webhooks"
    /\ IF m \in OnGitLab
       THEN CommandTo(m, "root", {})
       ELSE \/ CommandTo(m, "agents", {})
            \/ m \notin App /\ ~ command[m].json /\ CommandTo(m, "root", {})
    /\ UNCHANGED <<tracked, hooks, clone>>

WriteAgentsMD(m) ==
    /\ command[m].pc = "agents"
    /\ \/ clone' = [clone EXCEPT ![m].agents = TRUE] /\ Say(m, "done")
       \/ SetupFaults /\ Say(m, "failed") /\ UNCHANGED clone
    /\ UNCHANGED <<tracked, hooks>>

--------------------------------------------------------------------------------
(* RegisterGitHubWebhook and RegisterGitLabWebhook, for init and for       *)
(* setup-webhook.                                                          *)

\* GitHub has one webhook of a URL: the one that exists is given the secret.
SetGitHubWebhook(r, secret) == hooks' = [hooks EXCEPT ![r] = <<secret>>]

\* GitLab adds another.
AddGitLabWebhook(r, secret) ==
    /\ Len(hooks[r]) < MaxHooks
    /\ hooks' = [hooks EXCEPT ![r] = Append(@, secret)]

RegisterOne(m, r) ==
    IF r \in OnGitLab THEN AddGitLabWebhook(r, command[m].secret)
    ELSE SetGitHubWebhook(r, command[m].secret)

SetupWebhookCommand(m) ==
    /\ SetupWebhook
    /\ command[m].pc = "idle"
    /\ command' = [command EXCEPT ![m] = [NoCommand EXCEPT !.cmd    = "setup-webhook",
                                                  !.pc     = "root",
                                                  !.secret = RandomSecret]]
    /\ UNCHANGED <<tracked, hooks, clone>>

AfterWebhooks(m) ==
    IF command[m].cmd = "init" THEN CommandTo(m, "agents", {}) ELSE Say(m, "done")

RegisterRootWebhook(m) ==
    /\ command[m].pc = "root"
    /\ RegisterOne(m, m)
    /\ CommandTo(m, "children", Submodules[m])
    /\ UNCHANGED <<tracked, clone>>

\* On GitHub the error ends the registration, and setup-webhook; init goes on.  On
\* GitLab the submodules come all the same.
RootWebhookFails(m) ==
    /\ SetupFaults
    /\ command[m].pc = "root"
    /\ IF m \in OnGitLab THEN CommandTo(m, "children", Submodules[m])
       ELSE IF command[m].cmd = "init" THEN CommandTo(m, "agents", {})
       ELSE Say(m, "failed")
    /\ UNCHANGED <<tracked, hooks, clone>>

\* A submodule's error is printed.
RegisterSubmoduleWebhook(m) ==
    /\ command[m].pc = "children"
    /\ \E s \in command[m].todo :
          /\ \/ RegisterOne(m, s)
             \/ SetupFaults /\ UNCHANGED hooks
          /\ CommandTo(m, "children", command[m].todo \ {s})
    /\ UNCHANGED <<tracked, clone>>

WebhooksRegistered(m) ==
    /\ command[m].pc = "children"
    /\ command[m].todo = {}
    /\ AfterWebhooks(m)
    /\ UNCHANGED <<tracked, hooks, clone>>

\* The user interrupts the command, and may run it again.
Interrupted(m) ==
    /\ command[m].pc # "idle"
    /\ Say(m, "failed")
    /\ UNCHANGED <<tracked, hooks, clone>>

SetupNext ==
    \E m \in Meta :
        \/ Interrupted(m)
        \/ Register(m)
        \/ RegisterSubmodule(m)
        \/ SubmodulesRegistered(m)
        \/ InstallHooks(m)
        \/ SetupWebhooks(m)
        \/ WriteAgentsMD(m)
        \/ SetupWebhookCommand(m)
        \/ RegisterRootWebhook(m)
        \/ RootWebhookFails(m)
        \/ RegisterSubmoduleWebhook(m)
        \/ WebhooksRegistered(m)

SetupSpec == SetupInit /\ [][SetupNext]_setupVars

--------------------------------------------------------------------------------
(* The webhook handlers.                                                   *)

\* Mutant: a delivery must be signed with the id of its own repository.
AcceptedForOwn(r, secret) ==
    \/ secret = ServerSecret
    \/ secret = r /\ r \in tracked

\* A delivery is signed with the server's secret or the id of any repository.
Accepted(r, secret) ==
    \/ secret = ServerSecret
    \/ secret \in tracked

Said(m, cmd) == command[m].said = "done" /\ command[m].cmd = cmd

--------------------------------------------------------------------------------
(* Properties.                                                             *)

\* Every webhook init leaves, with whatever failures and however many meta-
\* repositories that share a submodule, sends deliveries the server accepts; so do
\* those of setup-webhook, unless their secret is made up.
HooksAccepted ==
    \A r \in HookRepo : \A i \in 1..Len(hooks[r]) :
        hooks[r][i] # RandomSecret => Accepted(r, hooks[r][i])

\* When init ends without an error the server tracks the repository and the clone
\* has its hook scripts and AGENTS.md, also after an init that failed.
InitDone ==
    \A m \in Meta :
        Said(m, "init") => m \in tracked /\ clone[m].scripts /\ clone[m].agents

================================================================================
