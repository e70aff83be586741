------------------------------ MODULE MetaPRStore ------------------------------
(***************************************************************************)
(* Rows of the tables meta_prs and child_prs and the statements of         *)
(* internal/db/repository.go that write them.  One SQL statement is one    *)
(* atomic update of a row.                                                 *)
(*                                                                         *)
(* A commit SHA is abstracted to what the cascade tells apart: "none" (the *)
(* empty string), "head" (the head commit of the pull request) or "merge"  *)
(* (the commit its merge produced on the base branch).                     *)
(***************************************************************************)
EXTENDS Naturals

MetaStatus == {"OPEN", "MERGING", "MERGED", "FAILED", "FAILED_PARTIAL"}

\* "NONE" stands for a row that is not in the table.
ChildStatus == {"NONE", "OPEN", "MERGING", "MERGED", "FAILED"}

Sha == {"none", "head", "merge"}

MetaRow == [status : MetaStatus, lock : Nat]

ChildRow == [status : ChildStatus, sha : Sha]

\* Mutant: the statement has no condition on lock_version.
HoldsAnyLock(pr, expected) == TRUE

\* WHERE lock_version = $3: the statement updates a row or none.
HoldsLock(pr, expected) == pr.lock = expected

\* The row after UpdateMetaPRStatusWithLock, conflict included.
LockedUpdate(pr, status, expected) ==
    IF HoldsLock(pr, expected)
    THEN [status |-> status, lock |-> pr.lock + 1]
    ELSE pr

\* UpdateChildPRStatus: an UPDATE by id, without a guard.
UpdatedChild(child, status, sha) ==
    IF child.status = "NONE" THEN child ELSE [status |-> status, sha |-> sha]

\* UpsertChildPR: MERGED is kept, the SHA is the caller's.
UpsertedChild(child, status, sha) ==
    [status |-> IF child.status = "MERGED" THEN "MERGED" ELSE status,
     sha    |-> sha]

\* CreateMetaPR on a pull request that has a row: the status is the caller's,
\* lock_version stays.
UpsertedMeta(pr, status) == [pr EXCEPT !.status = status]

\* The children a snapshot of child_prs holds.
Known(rows) == {c \in DOMAIN rows : rows[c].status # "NONE"}

================================================================================
