-------------------------------- MODULE MCClients --------------------------------
(***************************************************************************)
(* Instances of the four modules of the VCS clients for TLC.  The calls    *)
(* share no state but the host, so each behaviour is one of a part.        *)
(***************************************************************************)
EXTENDS PointerUpdate, StickyComment, MergeRules, InstallationToken

CONSTANTS s1, s2, u1, u2, w1, w2

VARIABLE part

allVars == <<pointerVars, commentVars, rulesVars, tokenVars, part>>

ServerEach == [c \in Caller |-> IF c = "c2" THEN "p2" ELSE "p1"]

ClientsInit ==
    /\ PointerInit /\ CommentInit /\ RulesInit /\ TokenInit
    /\ part \in {"pointers", "comment", "rules", "token"}
    /\ part # "comment" => onRoot
    /\ part # "token" => hasTable
    /\ part = "token" => ~ onGitLab

ClientsNext ==
    \/ /\ part = "pointers"
       /\ PointerNext
       /\ UNCHANGED <<commentVars, rulesVars, tokenVars, part>>
    \/ /\ part = "comment"
       /\ CommentNext
       /\ UNCHANGED <<pointerVars, rulesVars, tokenVars, part>>
    \/ /\ part = "rules"
       /\ RulesNext
       /\ UNCHANGED <<pointerVars, commentVars, tokenVars, part>>
    \/ /\ part = "token"
       /\ TokenNext
       /\ UNCHANGED <<pointerVars, commentVars, rulesVars, part>>

ClientsSpec == ClientsInit /\ [][ClientsNext]_allVars

================================================================================
