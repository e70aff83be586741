------------------------------ MODULE MCLocalGit -------------------------------
(***************************************************************************)
(* Instances of LocalGit for TLC.                                          *)
(***************************************************************************)
EXTENDS LocalGit, TLC

CONSTANTS lib, app

OneSub == {lib}

TwoSubs == {lib, app}

Alike == Permutations(TwoSubs)

================================================================================
