---------------------------- MODULE MCCascadeMerge -----------------------------
(***************************************************************************)
(* Instances of CascadeMerge for TLC.                                      *)
(***************************************************************************)
EXTENDS CascadeMerge

CONSTANTS c1, c2, c3

Pair == {c1, c2}
Triple == {c1, c2, c3}
One == {c3}

\* c2 depends on c1.
Chain == {<<c2, c1>>}

\* c1 and c2 depend on each other, c3 on c1.
Cycle == {<<c1, c2>>, <<c2, c1>>, <<c3, c1>>}

================================================================================
