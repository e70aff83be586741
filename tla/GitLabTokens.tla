------------------------------ MODULE GitLabTokens ------------------------------
(***************************************************************************)
(* The tokens the server uses on GitLab: Server.VCSForRepo finds one for a *)
(* repository, getOrRefreshUserGitLabToken renews its owner's, the OAuth   *)
(* callback stores a new one, and SaveUserVCSToken writes it to two tables.*)
(* A grant of GitLab's, numbered, is an access token and the refresh token *)
(* that replaces it, once, by another grant.  Every repository here is     *)
(* GitLab's, and "owner/name" with its owner's user name.                  *)
(***************************************************************************)
EXTENDS Naturals

CONSTANTS User,
          GitLabRepo,
          Owner,          \* of each repository
          DefaultUser,    \* of a grant whose profile cannot be read
          Goroutine,         \* goroutines of the server
          Personal,         \* a personal or group access token, "glpat-"
          NoGrant,        \* ""
          MaxGrant        \* bound on the grants

ASSUME OwnerAssumption == Owner \in [GitLabRepo -> User] /\ DefaultUser \in User
ASSUME GrantAssumption ==
    /\ MaxGrant \in Nat
    /\ Personal # NoGrant
    /\ Personal \notin 1..MaxGrant /\ NoGrant \notin 1..MaxGrant

VARIABLES grantRow,       \* user_vcs_tokens; fresh: updated within 90 minutes
          column,         \* tracked_meta_repos.vcs_token
          issued,         \* GitLab: the grants so far,
          account,        \* whose they are,
          live,           \* those whose refresh token is not used,
          works,          \* those whose access token is accepted
          job,            \* the locals of each goroutine
          grantFaults     \* requests and statements may fail, goroutines die

grantVars == <<grantRow, column, issued, account, live, works, job, grantFaults>>
gitlab == <<issued, account, live, works>>

Grant == 1..MaxGrant
GitLabToken == Grant \cup {Personal, NoGrant}

GrantRow == [access : Grant \cup {NoGrant}, refresh : Grant \cup {NoGrant}, fresh : BOOLEAN]

\* ofRow: the token to answer comes from the row of user.
Job == [pc    : {"idle", "row", "refresh", "save", "spread", "answer"},
          repo  : GitLabRepo \cup {NoGrant},
          user  : User,
          token : GitLabToken,
          old   : Grant \cup {NoGrant},
          ofRow : BOOLEAN]

NoJob == [pc |-> "idle", repo |-> NoGrant, user |-> DefaultUser,
           token |-> NoGrant, old |-> NoGrant, ofRow |-> FALSE]

GrantTypeOK ==
    /\ grantFaults \in BOOLEAN
    /\ grantRow \in [User -> GrantRow]
    /\ column \in [GitLabRepo -> GitLabToken]
    /\ issued \in 0..MaxGrant
    /\ account \in [Grant -> User]
    /\ live \subseteq 1..issued
    /\ works \subseteq 1..issued
    /\ job \in [Goroutine -> Job]
    /\ \A u \in User : grantRow[u].access = grantRow[u].refresh
    /\ \A c \in Goroutine : job[c].pc \in {"save", "spread"} => job[c].token \in 1..issued

NoRow == [access |-> NoGrant, refresh |-> NoGrant, fresh |-> FALSE]

GrantInit ==
    /\ grantFaults \in BOOLEAN
    /\ grantRow = [u \in User |-> NoRow]
    /\ column = [r \in GitLabRepo |-> NoGrant]
    /\ issued = 0
    /\ account = [g \in Grant |-> DefaultUser]
    /\ live = {}
    /\ works = {}
    /\ job = [c \in Goroutine |-> NoJob]

JobBecomes(c, local) == job' = [job EXCEPT ![c] = local]

\* GitLab issues a grant to user u, in exchange for the grants in used.
Issue(u, used) ==
    /\ issued < MaxGrant
    /\ issued' = issued + 1
    /\ account' = [account EXCEPT ![issued + 1] = u]
    /\ live' = (live \ used) \cup {issued + 1}
    /\ works' = (works \ used) \cup {issued + 1}

--------------------------------------------------------------------------------
(* VCSForRepo and getOrRefreshUserGitLabToken.                             *)

VCSForRepo(c) ==
    /\ job[c].pc = "idle"
    /\ \E r \in GitLabRepo :
          JobBecomes(c, [NoJob EXCEPT !.pc    = IF column[r] = Personal THEN "answer" ELSE "row",
                                   !.repo  = r,
                                   !.user  = Owner[r],
                                   !.token = column[r]])
    /\ UNCHANGED <<grantRow, column, gitlab>>

\* Without a row the token of the repository is used, whatever it is.
ReadRow(c) ==
    LET own == grantRow[job[c].user] IN
    /\ job[c].pc = "row"
    /\ IF own.access = NoGrant
       THEN JobBecomes(c, [job[c] EXCEPT !.pc = "answer"])
       ELSE JobBecomes(c, [job[c] EXCEPT !.pc    = IF own.fresh THEN "answer" ELSE "refresh",
                                      !.token = own.access,
                                      !.old   = own.refresh,
                                      !.ofRow = TRUE])
    /\ UNCHANGED <<grantRow, column, gitlab>>

RefreshGitLabToken(c) ==
    LET used == job[c].old IN
    /\ job[c].pc = "refresh"
    /\ used \in live
    /\ Issue(account[used], {used})
    /\ \/ JobBecomes(c, [job[c] EXCEPT !.pc = "save", !.token = issued + 1])
       \/ grantFaults /\ JobBecomes(c, [job[c] EXCEPT !.pc = "answer"])
    /\ UNCHANGED <<grantRow, column>>

\* A refresh token that is used up is refused; the old access token is used.
RefreshFails(c) ==
    /\ job[c].pc = "refresh"
    /\ job[c].old \notin live \/ grantFaults
    /\ JobBecomes(c, [job[c] EXCEPT !.pc = "answer"])
    /\ UNCHANGED <<grantRow, column, gitlab>>

\* The client is returned to its caller.
ReturnClient(c) ==
    /\ job[c].pc = "answer"
    /\ JobBecomes(c, NoJob)
    /\ UNCHANGED <<grantRow, column, gitlab>>

--------------------------------------------------------------------------------
(* SaveUserVCSToken: two statements.                                       *)

\* Mutant: the refresh token stays the one that is used up.
SaveAccessOnly(c) ==
    /\ job[c].pc = "save"
    /\ grantRow' = [grantRow EXCEPT ![job[c].user] =
                  [access  |-> job[c].token,
                   refresh |-> IF @.refresh = NoGrant THEN job[c].token ELSE @.refresh,
                   fresh   |-> TRUE]]
    /\ JobBecomes(c, [job[c] EXCEPT !.pc = "spread"])
    /\ UNCHANGED <<column, gitlab>>

SaveUserVCSToken(c) ==
    /\ job[c].pc = "save"
    /\ grantRow' = [grantRow EXCEPT ![job[c].user] = [access  |-> job[c].token,
                                             refresh |-> job[c].token,
                                             fresh   |-> TRUE]]
    /\ JobBecomes(c, [job[c] EXCEPT !.pc = "spread"])
    /\ UNCHANGED <<column, gitlab>>

\* The callers ignore the error.
SaveFails(c) ==
    /\ grantFaults
    /\ job[c].pc = "save"
    /\ JobBecomes(c, [job[c] EXCEPT !.pc = "answer"])
    /\ UNCHANGED <<grantRow, column, gitlab>>

\* ... OR vcs_provider = 'gitlab': every repository.
UpdateGitLabVCSTokenForOwner(c) ==
    /\ job[c].pc = "spread"
    /\ \/ column' = [r \in GitLabRepo |-> job[c].token]
       \/ grantFaults /\ UNCHANGED column
    /\ JobBecomes(c, [job[c] EXCEPT !.pc = "answer"])
    /\ UNCHANGED <<grantRow, gitlab>>

--------------------------------------------------------------------------------
(* The other writers, and GitLab.                                          *)

\* A user grants access, and the code is exchanged; then the profile is read.
HandleGitLabOAuthCallback(c) ==
    /\ job[c].pc = "idle"
    /\ \E u \in User :
          /\ Issue(u, {})
          /\ \E name \in {u} \cup (IF grantFaults THEN {DefaultUser} ELSE {}) :
                JobBecomes(c, [NoJob EXCEPT !.pc    = "save",
                                         !.user  = name,
                                         !.token = issued + 1])
    /\ UNCHANGED <<grantRow, column>>

\* git meta config vcs-token glpat-...
SetStaticToken(r) ==
    /\ column' = [column EXCEPT ![r] = Personal]
    /\ UNCHANGED <<grantRow, gitlab, job>>

\* Ninety minutes pass; a token that is returned now is younger.
Age(u) ==
    /\ grantRow[u].fresh
    /\ \A c \in Goroutine : job[c].pc = "answer" => job[c].user # u
    /\ grantRow' = [grantRow EXCEPT ![u].fresh = FALSE]
    /\ UNCHANGED <<column, gitlab, job>>

\* Two hours pass; a token in use is younger.
Expire(g) ==
    /\ g \in works
    /\ \A u \in User : grantRow[u].fresh => grantRow[u].access # g
    /\ \A c \in Goroutine : job[c].pc \in {"save", "spread", "answer"} => job[c].token # g
    /\ works' = works \ {g}
    /\ UNCHANGED <<grantRow, column, issued, account, live, job>>

Crash(c) ==
    /\ grantFaults
    /\ job[c].pc # "idle"
    /\ JobBecomes(c, NoJob)
    /\ UNCHANGED <<grantRow, column, gitlab>>

Serve(c) ==
    \/ VCSForRepo(c)
    \/ ReadRow(c)
    \/ RefreshGitLabToken(c)
    \/ RefreshFails(c)
    \/ ReturnClient(c)
    \/ SaveUserVCSToken(c)
    \/ SaveFails(c)
    \/ UpdateGitLabVCSTokenForOwner(c)
    \/ HandleGitLabOAuthCallback(c)
    \/ Crash(c)

GrantNext ==
    /\ \/ \E c \in Goroutine : Serve(c)
       \/ \E r \in GitLabRepo : SetStaticToken(r)
       \/ \E u \in User : Age(u)
       \/ \E g \in Grant : Expire(g)
    /\ UNCHANGED grantFaults

GrantSpec == GrantInit /\ [][GrantNext]_grantVars

--------------------------------------------------------------------------------
(* Properties.                                                             *)

\* As long as nothing fails, a user who granted access need not grant it again:
\* the stored refresh token can be used, or has been, by a goroutine that is about
\* to store the next one.  Goroutines renew at once, and a user logs in meanwhile.
GrantKept ==
    \A u \in User :
        ~ grantFaults /\ grantRow[u].access # NoGrant =>
            \/ grantRow[u].refresh \in live
            \/ \E c \in Goroutine : /\ job[c].pc = "save"
                                 /\ job[c].user = u
                                 /\ job[c].old = grantRow[u].refresh

================================================================================
