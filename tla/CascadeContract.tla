---------------------------- MODULE CascadeContract ----------------------------
(***************************************************************************)
(* What a cascade merge promises of the pull requests themselves, whatever *)
(* the number of executors, their crashes and the state of the database:   *)
(* a child is merged after the children it depends on, and the root pull   *)
(* request after every child of the Meta PR.  People may merge the         *)
(* children of Manual by hand, in any order.                               *)
(***************************************************************************)
CONSTANTS Child, Dep, Manual

VARIABLES members,      \* the children of the Meta PR
          mergedPRs,    \* those whose pull request is merged
          rootMerged    \* whether the root pull request is merged

cvars == <<members, mergedPRs, rootMerged>>

ContractInit ==
    /\ members \in SUBSET Child
    /\ mergedPRs = {}
    /\ rootMerged = FALSE

MergeChild(c) ==
    /\ c \in members \ mergedPRs
    /\ \A e \in Dep : e[1] = c => e[2] \in mergedPRs
    /\ mergedPRs' = mergedPRs \cup {c}
    /\ UNCHANGED <<members, rootMerged>>

MergeByHand(c) ==
    /\ c \in (members \cap Manual) \ mergedPRs
    /\ mergedPRs' = mergedPRs \cup {c}
    /\ UNCHANGED <<members, rootMerged>>

MergeRootPR ==
    /\ members \subseteq mergedPRs
    /\ rootMerged' = TRUE
    /\ UNCHANGED <<members, mergedPRs>>

ContractNext ==
    \/ \E c \in Child : MergeChild(c) \/ MergeByHand(c)
    \/ MergeRootPR

ContractSpec == ContractInit /\ [][ContractNext]_cvars

================================================================================
