---------------------------- MODULE MCReconcileQueue ----------------------------
(***************************************************************************)
(* Instances of ReconcileQueue for TLC.                                    *)
(***************************************************************************)
EXTENDS ReconcileQueue

CONSTANTS a, b

NoDeps == {}

================================================================================
