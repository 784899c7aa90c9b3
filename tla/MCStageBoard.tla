---------------------------- MODULE MCStageBoard -----------------------------
(* StageBoard on small instances. *)
EXTENDS StageBoard, TLC

RequestSymmetry == Permutations(Requests)
=============================================================================
