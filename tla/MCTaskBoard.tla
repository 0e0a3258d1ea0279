---------------------------- MODULE MCTaskBoard ----------------------------
(***************************************************************************)
(* An instance of TaskBoard for TLC.                                       *)
(***************************************************************************)
EXTENDS TaskBoard, TLC

Symmetry == Permutations(Agent)
=============================================================================
