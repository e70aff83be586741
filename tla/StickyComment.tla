------------------------------ MODULE StickyComment -----------------------------
(***************************************************************************)
(* The comment of MetaStackr on a pull request: EnsureRootPRComment, and   *)
(* EnsureChildPRComment, of both hosts, request by request, called by      *)
(* webhooks and status queries at once, while people comment too.          *)
(***************************************************************************)
EXTENDS Naturals, FiniteSets, VCSHost

CONSTANTS Writer,        \* calls under way at once
          CommentPage,   \* comments in an answer of the host
          CommentFaults, \* requests that may fail: "list", "write", "delete"
          MaxChange,     \* changes of the Meta PR's table
          MaxCalls,      \* calls
          MaxComment     \* comments that are ever made

ASSUME CommentAssumption ==
    /\ CommentPage \in Nat \ {0}
    /\ MaxChange \in Nat /\ MaxCalls \in Nat /\ MaxComment \in Nat

VARIABLES table,      \* the version of the Meta PR's table
          comments,   \* on the pull request, by their numbers
          made,       \* how many were ever posted
          writing,    \* the calls under way
          begun,      \* how many have begun
          onRoot      \* the comment is the root's, or a child's

commentVars == <<table, comments, made, writing, begun, onRoot, onGitLab>>

\* A comment of a person may mention MetaStackr.
Comment == [by : {"bot", "person", "mention"}, table : Nat]

Writing == [pc : {"idle", "list", "write", "delete"},
            table : Nat,               \* the version it was called with
            first : Nat,               \* the comment to write over, 0 if there is none
            same : BOOLEAN,            \* it says what it should already
            extra : SUBSET (Nat \ {0}),
            alone : BOOLEAN]           \* no other call was under way, nothing failed

CommentTypeOK ==
    /\ AHost /\ onRoot \in BOOLEAN
    /\ table \in 0..MaxChange
    /\ made \in 0..MaxComment
    /\ DOMAIN comments \subseteq 1..made
    /\ comments \in [DOMAIN comments -> Comment]
    /\ begun \in 0..MaxCalls
    /\ writing \in [Writer -> Writing]
    /\ \A w \in Writer : writing[w].first \in 0..made /\ writing[w].extra \subseteq 1..made

NotWriting == [pc |-> "idle", table |-> 0, first |-> 0, same |-> FALSE,
           extra |-> {}, alone |-> TRUE]

CommentInit ==
    /\ AHost /\ onRoot \in BOOLEAN
    /\ table = 0
    /\ comments = [i \in {} |-> 0]
    /\ made = 0
    /\ writing = [w \in Writer |-> NotWriting]
    /\ begun = 0

--------------------------------------------------------------------------------
(* The world outside.                                                      *)

\* A row of the Meta PR changes; the comment of a child has no table.
TableChanges ==
    /\ onRoot
    /\ table < MaxChange
    /\ table' = table + 1
    /\ UNCHANGED <<comments, made, writing, begun>>

\* The number of a comment is greater than those before.
Post(comment) ==
    /\ made < MaxComment
    /\ made' = made + 1
    /\ comments' = [i \in DOMAIN comments \cup {made + 1} |->
                       IF i = made + 1 THEN comment ELSE comments[i]]

Talk(by) ==
    /\ Post([by |-> by, table |-> 0])
    /\ UNCHANGED <<table, writing, begun>>

--------------------------------------------------------------------------------
(* The call.                                                               *)

WriterTo(w, pc) == writing' = [writing EXCEPT ![w].pc = pc]

Busy == {w \in Writer : writing[w].pc # "idle"}

\* The rows were read; other calls that are under way are no longer alone.
BeginWrite(w) ==
    /\ writing[w].pc = "idle"
    /\ begun < MaxCalls
    /\ begun' = begun + 1
    /\ writing' = [v \in Writer |->
                  IF v = w THEN [NotWriting EXCEPT !.pc = "list", !.table = table, !.alone = Busy = {}]
                  ELSE [writing[v] EXCEPT !.alone = FALSE]]
    /\ UNCHANGED <<table, comments, made>>

\* Mutant: every comment of the page is one's own.
OwnsAll(c) == TRUE

\* The marker; on GitLab also "MetaStackr" in a comment of the root.
Owns(c) == c.by = "bot" \/ (c.by = "mention" /\ onGitLab /\ onRoot)

\* The oldest.
Page == {i \in DOMAIN comments : Cardinality({j \in DOMAIN comments : j <= i}) <= CommentPage}

Own(w) == [by |-> "bot", table |-> writing[w].table]

\* What to write over, and what to delete.  A list that fails is an empty one.
List(w) ==
    /\ writing[w].pc = "list"
    /\ \E fails \in {FALSE} \cup (IF "list" \in CommentFaults THEN {TRUE} ELSE {}) :
          LET own == IF fails THEN {} ELSE {i \in Page : Owns(comments[i])} IN
          \E first \in own \cup {0} :
             /\ first = 0 => own = {}
             /\ \A i \in own : first <= i
             /\ writing' = [writing EXCEPT
                   ![w].pc = IF own # {} /\ ~ onRoot /\ ~ onGitLab THEN "idle"
                             ELSE IF onGitLab THEN "delete" ELSE "write",
                   ![w].first = first,
                   ![w].same = own # {} /\ comments[first] = Own(w),
                   ![w].extra = own \ {first},
                   ![w].alone = @ /\ ~ fails]
    /\ UNCHANGED <<table, comments, made, begun>>

\* No answer at all: the call ends, but for a child on GitLab.
ListFails(w) ==
    /\ "list" \in CommentFaults
    /\ writing[w].pc = "list"
    /\ onRoot \/ ~ onGitLab
    /\ writing' = [writing EXCEPT ![w].pc = "idle", ![w].alone = FALSE]
    /\ UNCHANGED <<table, comments, made, begun>>

AfterWrite(w) == WriterTo(w, IF onGitLab \/ writing[w].extra = {} THEN "idle" ELSE "delete")

\* Mutant: what is there stays.
WriteOnce(w) ==
    /\ writing[w].pc = "write"
    /\ IF writing[w].first # 0 THEN UNCHANGED <<comments, made>> ELSE Post(Own(w))
    /\ AfterWrite(w)
    /\ UNCHANGED <<table, begun>>

\* Nothing, a PATCH or PUT of the first, or a POST.
Write(w) ==
    /\ writing[w].pc = "write"
    /\ IF writing[w].same THEN UNCHANGED <<comments, made>>
       ELSE IF writing[w].first = 0 THEN Post(Own(w))
       ELSE /\ comments' = [i \in DOMAIN comments |->
                              IF i = writing[w].first THEN Own(w) ELSE comments[i]]
            /\ UNCHANGED made
    /\ AfterWrite(w)
    /\ UNCHANGED <<table, begun>>

\* The host refuses, with both tokens: the call ends, on GitHub after the
\* duplicates.
WriteFails(w) ==
    /\ "write" \in CommentFaults
    /\ writing[w].pc = "write"
    /\ writing' = [writing EXCEPT ![w].pc = IF onGitLab \/ writing[w].extra = {} THEN "idle" ELSE "delete",
                            ![w].alone = FALSE]
    /\ UNCHANGED <<table, comments, made, begun>>

\* All but the first: on GitHub after the write, on GitLab before.
DeleteDuplicates(w) ==
    /\ writing[w].pc = "delete"
    /\ \E gone \in SUBSET writing[w].extra :
          /\ "delete" \in CommentFaults \/ gone = writing[w].extra
          /\ comments' = [i \in DOMAIN comments \ gone |-> comments[i]]
          /\ writing' = [writing EXCEPT ![w].pc = IF onGitLab THEN "write" ELSE "idle",
                                        ![w].alone = @ /\ gone = writing[w].extra]
    /\ UNCHANGED <<table, made, begun>>

EnsurePRComment(w) ==
    \/ BeginWrite(w)
    \/ List(w)
    \/ ListFails(w)
    \/ Write(w)
    \/ WriteFails(w)
    \/ DeleteDuplicates(w)

CommentNext ==
    /\ \/ TableChanges
       \/ \E by \in {"person", "mention"} : Talk(by)
       \/ \E w \in Writer : EnsurePRComment(w)
    /\ SameHost /\ UNCHANGED onRoot

CommentSpec == CommentInit /\ [][CommentNext]_commentVars

--------------------------------------------------------------------------------
(* Properties.                                                             *)

\* A call that nothing disturbs leaves one comment with the table it was called
\* with, whatever earlier calls that ran at once, or failed, have left.  Not that of
\* a child on GitHub, whose duplicates stay.
OneAfterCall ==
    [][\A w \in Writer :
          /\ onRoot \/ onGitLab
          /\ writing[w].pc # "idle" /\ writing'[w].pc = "idle" /\ writing'[w].alone
          => \E i \in DOMAIN comments' :
                    /\ {j \in DOMAIN comments' : comments'[j].by = "bot"} = {i}
                    /\ comments'[i].table = writing[w].table]_commentVars

\* No call changes or removes what a person wrote; on the root's page on GitLab,
\* what does not mention MetaStackr.
PeopleKeepTheirs ==
    [][\A i \in DOMAIN comments :
          comments[i].by = "person" \/ (comments[i].by = "mention" /\ ~ (onRoot /\ onGitLab))
          => i \in DOMAIN comments' /\ comments'[i] = comments[i]]_commentVars

================================================================================
