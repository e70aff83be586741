--------------------------------- MODULE VCSHost ---------------------------------
(***************************************************************************)
(* The host that has a repository, and so the client that serves it.       *)
(***************************************************************************)
VARIABLE onGitLab      \* GitLabClient, or GitHubClient

AHost == onGitLab \in BOOLEAN

SameHost == UNCHANGED onGitLab

================================================================================
