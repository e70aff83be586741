------------------------------- MODULE MergeRules -------------------------------
(***************************************************************************)
(* The three questions of evaluateMetaPRReadiness, as the clients answer   *)
(* them: HasApprovedReview, AreRequiredChecksPassing and                   *)
(* HasNonSubmoduleFilesChanged, from what the host lists and what it fails *)
(* to list.  MetaPRServer has when they are asked.                         *)
(***************************************************************************)
EXTENDS Naturals, FiniteSets, Sequences, VCSHost

CONSTANTS Required,     \* required_checks
          Check,        \* checks that report on the head commit
          ReviewPage,   \* reviews in an answer of the host
          FilePage,     \* changed files in one
          RulesFaults,       \* lists that may fail: "reviews", "runs", "statuses", "files", "gitmodules"
          MaxReview,
          MaxFile

ASSUME RulesAssumption ==
    /\ Required \subseteq Check /\ Required # {}
    /\ ReviewPage \in Nat \ {0} /\ FilePage \in Nat \ {0}
    /\ MaxReview \in Nat /\ MaxFile \in Nat

VARIABLES reviews,    \* of the root pull request, the oldest first
          result,     \* of each check, as a check run and as a commit status
          files,      \* the changed files
          answer      \* the last answer of a client

rulesVars == <<reviews, result, files, answer, onGitLab>>

Source == {"run", "status"}
ReviewState == {"approved", "changes", "commented", "dismissed"}
Result == {"none", "success", "failure"}

\* .gitmodules or a submodule, a directory called services/ that is none, another.
File == {"submodule", "services", "other"}

NoAnswer == [rule |-> "none", yes |-> FALSE]

RulesTypeOK ==
    /\ AHost
    /\ reviews \in Seq(ReviewState) /\ Len(reviews) <= MaxReview
    /\ result \in [Check -> [Source -> Result]]
    /\ files \in Seq(File) /\ Len(files) <= MaxFile
    /\ answer \in [rule : {"none", "approval", "checks", "files"}, yes : BOOLEAN]

RulesInit ==
    /\ AHost
    /\ reviews = <<>>
    /\ result = [k \in Check |-> [x \in Source |-> "none"]]
    /\ files = <<>>
    /\ answer = NoAnswer

--------------------------------------------------------------------------------
(* The pull request.                                                       *)

Submit(state) ==
    /\ state # "dismissed"
    /\ Len(reviews) < MaxReview
    /\ reviews' = Append(reviews, state)
    /\ answer' = NoAnswer
    /\ UNCHANGED <<result, files>>

Dismiss(i) ==
    /\ reviews[i] = "approved"
    /\ reviews' = [reviews EXCEPT ![i] = "dismissed"]
    /\ answer' = NoAnswer
    /\ UNCHANGED <<result, files>>

\* A check reports, again when it is run again; GitLab has statuses only.
ReportCheck(k, x, r) ==
    /\ onGitLab => x = "status"
    /\ r # "none"
    /\ result' = [result EXCEPT ![k][x] = r]
    /\ answer' = NoAnswer
    /\ UNCHANGED <<reviews, files>>

\* A push resets the checks.
PushFile(f) ==
    /\ Len(files) < MaxFile
    /\ files' = Append(files, f)
    /\ result' = [k \in Check |-> [x \in Source |-> "none"]]
    /\ answer' = NoAnswer
    /\ UNCHANGED reviews

--------------------------------------------------------------------------------
(* The clients.                                                            *)

MayFail(list) == {FALSE} \cup (IF list \in RulesFaults THEN {TRUE} ELSE {})

FirstOf(size, list) == {list[i] : i \in {j \in DOMAIN list : j <= size}}

Answers(rule, yes) ==
    /\ answer' = [rule |-> rule, yes |-> yes]
    /\ UNCHANGED <<reviews, result, files>>

\* GitLab counts the approvals itself.
ApprovedOnGitLab == \E i \in DOMAIN reviews : reviews[i] = "approved"

HasApprovedReview ==
    \E fails \in MayFail("reviews") :
        Answers("approval",
                /\ ~ fails
                /\ IF onGitLab THEN ApprovedOnGitLab ELSE "approved" \in FirstOf(ReviewPage, reviews))

\* Mutant: a check that has not reported is not missing.
AreReportedChecksPassing ==
    Answers("checks", \A k \in Required : result[k]["status"] # "failure")

\* A list that fails has no success in it; GitLab asks for the statuses only.
Succeeded(k, x, fails) == ~ fails[x] /\ result[k][x] = "success"

StatusSucceeded(k, fails) == Succeeded(k, "status", fails)

AreRequiredChecksPassing ==
    \E fails \in [Source -> BOOLEAN] :
        /\ \A x \in Source : fails[x] \in MayFail(IF x = "run" THEN "runs" ELSE "statuses")
        /\ Answers("checks",
                   \A k \in Required :
                       IF onGitLab THEN StatusSucceeded(k, fails)
                       ELSE \E x \in Source : Succeeded(k, x, fails))

\* IsSubmodulePath; without .gitmodules, by the usual names.
IsSubmodulePath(f, unread) ==
    f = "submodule" \/ (unread /\ f = "services")

\* The files a client looks at: GitLab's list has no pages, and is empty when it
\* fails.
ChangesOnGitLab(fails) == IF fails THEN {} ELSE {files[i] : i \in DOMAIN files}

\* The rule holds when no file is found; on GitHub a list that fails is an error,
\* and pauses the merge.
HasNonSubmoduleFilesChanged ==
    \E fails \in MayFail("files"), unread \in MayFail("gitmodules") :
        LET listed == IF onGitLab THEN ChangesOnGitLab(fails) ELSE FirstOf(FilePage, files)
        IN Answers("files",
                   /\ ~ fails \/ onGitLab
                   /\ \A f \in listed : IsSubmodulePath(f, unread))

RulesNext ==
    /\ \/ \E state \in ReviewState : Submit(state)
       \/ \E i \in DOMAIN reviews : Dismiss(i)
       \/ \E k \in Check, x \in Source, r \in Result : ReportCheck(k, x, r)
       \/ \E f \in File : PushFile(f)
       \/ HasApprovedReview
       \/ AreRequiredChecksPassing
       \/ HasNonSubmoduleFilesChanged
    /\ SameHost

RulesSpec == RulesInit /\ [][RulesNext]_rulesVars

--------------------------------------------------------------------------------
(* Properties.                                                             *)

Yes(rule) == answer.rule = rule /\ answer.yes

\* Whatever list fails, reviews are dismissed or checks run again: a yes is true of
\* the pull request as it is, also when pages hide a part of it.  No file outside the
\* submodules has changed: on GitLab a list that fails is an empty one.
YesIsTrue ==
    /\ Yes("approval") => \E i \in DOMAIN reviews : reviews[i] = "approved"
    /\ Yes("checks") => \A k \in Required : \E x \in Source : result[k][x] = "success"
    /\ Yes("files") /\ ~ onGitLab => \A i \in DOMAIN files : files[i] = "submodule"

================================================================================
