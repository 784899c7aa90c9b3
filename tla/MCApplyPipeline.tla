-------------------------- MODULE MCApplyPipeline --------------------------
(* Model values and bounds for TLC's runs of ApplyPipeline. *)
EXTENDS ApplyPipeline, TLC

CONSTANTS f1, f2, f3, e1, e2, p1, p2

\* f1 and f2 are two versions of one person's resume, with the same address;
\* f3 is somebody identified by a phone number only.
MCEmailOf == [f \in Files |-> IF f = f3 THEN NoEmail ELSE e1]
MCPersonOf == [f \in Files |-> IF f = f3 THEN p2 ELSE p1]

Symmetry == Permutations(Workers) \cup Permutations(Candidates) \cup Permutations(Apps)
=============================================================================
