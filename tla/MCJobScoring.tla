----------------------------- MODULE MCJobScoring -----------------------------
(* Three candidates, two of one name; scores on both sides of every boundary:  *)
(* of the threshold, of a decision, and two that round to the same rating.     *)
EXTENDS JobScoring

CONSTANTS c1, c2, c3, ann, bob

Names == c1 :> ann @@ c2 :> ann @@ c3 :> bob
Unscored == [c \in {c1, c2, c3} |-> None]
Scored == {q \in [{c1, c2, c3} -> Values] : q[c1] <= q[c2]}
Scene(ops, who, scores, values, lists, n) ==
  [ops |-> ops, live |-> who, scores |-> scores, values |-> values, lists |-> lists,
   starts |-> n]
Together ==
  {Scene({"score", "edit", "delete"}, {c1}, Unscored, {60, 80}, {{}}, 3),
   Scene({"score", "compare"}, {c1, c2}, Unscored, {60, 80}, {{}}, 3),
   Scene({"compare", "analyze"}, {c1, c2}, Unscored, Values, {{}}, 2),
   Scene({"compare", "analyze", "edit"}, {c2, c3}, Unscored, {60, 80}, {{}}, 2),
   Scene({"update"}, {}, Unscored, {}, SUBSET Skills, 2)}
  \cup {Scene({"score", "edit", "shortlist"}, {c1}, q, {60, 80}, {{}}, 2) :
           q \in {q \in Scored : q[c2] = 62}}
  \cup {Scene({"tiebreak", "analyze"}, {c1, c2, c3}, q, {}, {{}}, 2) : q \in Scored}
  \cup {Scene({"tiebreak"}, {c2, c3}, q, {}, {{}}, 1) : q \in Scored}
Symmetry == Permutations(Sessions)
=============================================================================
