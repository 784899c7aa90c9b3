---------------------------- MODULE MCSearchIndex ----------------------------
(* SearchIndex on small instances: one candidate is edited and deleted, the *)
(* others are only there to share the index with it.                        *)
EXTENDS SearchIndex, TLC

CONSTANTS Edited, Commits

VersionBound == [c \in Candidates |-> IF c = Edited THEN Commits ELSE 1]

WorkerSymmetry == Permutations(Workers)
=============================================================================
