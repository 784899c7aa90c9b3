--------------------------- MODULE JobScoringProofs ---------------------------
(***************************************************************************)
(* What holds of scores, comparisons, shortlists and tiebreakers for any   *)
(* candidates, names, sessions, scenarios and targets.                     *)
(***************************************************************************)
EXTENDS JobScoring, TLAPS, FiniteSetTheorems, WellFoundedInduction

-----------------------------------------------------------------------------
(* Sets of scores *)

LEMMA InitialSegmentFinite ==
  ASSUME NEW n \in Nat
  PROVE  IsFiniteSet(0..n)
<1>1. 0 \in Int /\ n \in Int
  OBVIOUS
<1> QED
  BY <1>1, FS_Interval

(* A set of numbers up to a bound has a highest: the sets of the numbers   *)
(* above each of them have a smallest.                                     *)
LEMMA HighestExists ==
  ASSUME NEW n \in Nat, NEW S \in SUBSET (0..n), S # {}
  PROVE  \E x \in S : \A y \in S : y <= x
<1> DEFINE Above(x) == {z \in 0..n : x < z}
           T == {Above(x) : x \in S}
           R == StrictSubsetOrdering(0..n)
           P == SUBSET (0..n)
<1>1. IsWellFoundedOn(R, P)
  <2>1. FiniteSubsetsOf(0..n) = P
    BY InitialSegmentFinite, FS_FiniteSubsetsOfFinite
  <2> QED
    BY <2>1, FS_StrictSubsetOrderingWellFounded
<1>2. T \subseteq P /\ T # {}
  <2>1. PICK x : x \in S
    OBVIOUS
  <2>2. Above(x) \in T
    BY <2>1
  <2>3. \A y \in S : Above(y) \in P
    OBVIOUS
  <2> QED
    BY <2>2, <2>3
<1>3. \A x, y \in S : x < y => <<Above(y), Above(x)>> \in R
  <2>1. ASSUME NEW x \in S, NEW y \in S, x < y
        PROVE  Above(y) \subseteq Above(x) /\ y \in Above(x) /\ y \notin Above(y)
    BY <2>1
  <2>2. \A x \in S : Above(x) \in SUBSET (0..n)
    OBVIOUS
  <2> HIDE DEF Above
  <2>3. ASSUME NEW x \in S, NEW y \in S, x < y
        PROVE  <<Above(y), Above(x)>> \in R
    BY <2>1, <2>2, <2>3 DEF StrictSubsetOrdering
  <2> QED
    BY <2>3
<1>4. \A x \in S : Above(x) \in T
  OBVIOUS
<1>5. \A t \in T : \E x \in S : t = Above(x)
  OBVIOUS
<1> HIDE DEF T, R, P, Above
<1>6. \E t \in T : \A u \in T : ~(<<u, t>> \in R)
  BY <1>1, <1>2, WFMin
<1>7. PICK x \in S : \A u \in T : ~(<<u, Above(x)>> \in R)
  BY <1>5, <1>6
<1>8. \A y \in S : ~(x < y)
  BY <1>3, <1>4, <1>7
<1> QED
  BY <1>8

LEMMA MaxIsHighest ==
  ASSUME NEW n \in Nat, NEW S \in SUBSET (0..n), S # {}
  PROVE  Max(S) \in S /\ \A y \in S : y <= Max(S)
<1>1. \E x \in S : \A y \in S : x >= y
  BY HighestExists
<1>2. Max(S) \in S /\ \A y \in S : Max(S) >= y
  BY <1>1 DEF Max
<1> QED
  BY <1>2

LEMMA MinOfTwo ==
  ASSUME NEW a \in Nat, NEW b \in Nat
  PROVE  Min({a, b}) \in Nat /\ Min({a, b}) <= a /\ Min({a, b}) <= b
<1>1. \E x \in {a, b} : \A y \in {a, b} : x <= y
  OBVIOUS
<1>2. Min({a, b}) \in {a, b} /\ \A y \in {a, b} : Min({a, b}) <= y
  BY <1>1 DEF Min
<1> QED
  BY <1>2

LEMMA CandidatesCounted ==
  ASSUME NEW S \in SUBSET Candidates
  PROVE  IsFiniteSet(S) /\ Cardinality(S) \in Nat
<1>1. IsFiniteSet(Candidates)
  BY ScoringConstants
<1>2. IsFiniteSet(S)
  BY <1>1, FS_Subset
<1> QED
  BY <1>2, FS_CardinalityType

LEMMA FewerCandidates ==
  ASSUME NEW T \in SUBSET Candidates, NEW S \in SUBSET T
  PROVE  Cardinality(S) <= Cardinality(T)
  BY CandidatesCounted, FS_Subset
-----------------------------------------------------------------------------
(* The cut and the tiers *)

LEMMA RowScored ==
  ASSUME NEW rows \in Rows, NEW c \in Candidates, rows[c] # None
  PROVE  /\ rows[c] \in Score /\ rows[c].input \in Inputs
         /\ rows[c].value \in Values /\ rows[c].value \in 0..100
  BY ScoringConstants DEF Rows, Score

LEMMA QualifiedScored ==
  ASSUME NEW rows \in Rows
  PROVE  /\ Qualified(rows) \in SUBSET Candidates
         /\ \A c \in Qualified(rows) : rows[c].value \in Values /\ rows[c].value \in 0..100
  BY RowScored DEF Qualified

(* When there are more qualified candidates than seats, some score is that *)
(* of the last who has a seat.                                             *)
IsCut(rows, target, v) ==
  /\ \E c \in Qualified(rows) : rows[c].value = v
  /\ Cardinality({c \in Qualified(rows) : rows[c].value > v}) < target
  /\ Cardinality({c \in Qualified(rows) : rows[c].value >= v}) >= target

LEMMA CutExists ==
  ASSUME NEW rows \in Rows, NEW target \in Nat \ {0},
         target < Cardinality(Qualified(rows))
  PROVE  \E v \in Values : IsCut(rows, target, v)
<1> DEFINE Q == Qualified(rows)
           From(v) == {c \in Q : rows[c].value >= v}
           V == {v \in 0..100 : Cardinality(From(v)) >= target}
<1>1. Q \in SUBSET Candidates /\ \A c \in Q : rows[c].value \in Values /\ rows[c].value \in 0..100
  BY QualifiedScored
<1>2. \A v : From(v) \in SUBSET Candidates /\ Cardinality(From(v)) \in Nat
  BY <1>1, CandidatesCounted
<1>3. V \in SUBSET (0..100) /\ V # {}
  <2>1. From(0) = Q
    BY <1>1
  <2>2. Cardinality(Q) \in Nat
    BY <1>1, CandidatesCounted
  <2>3. 0 \in V
    BY <2>1, <2>2
  <2> QED
    BY <2>3
<1>4. PICK v \in V : \A w \in V : w <= v
  <2>1. 100 \in Nat
    OBVIOUS
  <2> HIDE DEF V
  <2> QED
    BY <1>3, <2>1, HighestExists
<1>5. v \in 0..100 /\ Cardinality(From(v)) >= target
  OBVIOUS
<1>6. Cardinality(From(v + 1)) < target
  <2>1. CASE v = 100
    <3>1. From(v + 1) = {}
      BY <1>1, <2>1
    <3>2. Cardinality({}) = 0
      BY FS_EmptySet
    <3> QED
      BY <3>1, <3>2
  <2>2. CASE v # 100
    <3>1. v + 1 \in 0..100 /\ ~(v + 1 <= v)
      BY <1>5, <2>2
    <3>2. v + 1 \notin V
      BY <1>4, <3>1
    <3>3. ~(Cardinality(From(v + 1)) >= target)
      BY <3>1, <3>2
    <3>4. Cardinality(From(v + 1)) \in Nat
      BY <1>2
    <3> QED
      BY <3>3, <3>4
  <2> QED
    BY <2>1, <2>2
<1>7. {c \in Q : rows[c].value > v} = From(v + 1)
  BY <1>1, <1>5
<1>8. \E c \in Q : rows[c].value = v
  <2>1. SUFFICES ASSUME \A c \in Q : rows[c].value # v
                 PROVE  FALSE
    OBVIOUS
  <2>2. From(v) = From(v + 1)
    BY <1>1, <1>5, <2>1
  <2>3. Cardinality(From(v)) \in Nat /\ Cardinality(From(v)) < target
        /\ Cardinality(From(v)) >= target
    BY <1>2, <1>5, <1>6, <2>2
  <2> QED
    BY <2>3
<1>9. v \in Values
  BY <1>1, <1>8
<1> QED
  BY <1>5, <1>6, <1>7, <1>8, <1>9 DEF IsCut

CutScore(rows, target) == CHOOSE v \in Values : IsCut(rows, target, v)

LEMMA CutIsCut ==
  ASSUME NEW rows \in Rows, NEW target \in Nat \ {0},
         target < Cardinality(Qualified(rows))
  PROVE  /\ Cut(rows, target) = Rating(CutScore(rows, target))
         /\ CutScore(rows, target) \in 0..100
         /\ IsCut(rows, target, CutScore(rows, target))
<1>1. Cut(rows, target) = Rating(CutScore(rows, target))
  BY DEF Cut, CutScore, IsCut
<1>2. CutScore(rows, target) \in Values /\ IsCut(rows, target, CutScore(rows, target))
  BY CutExists DEF CutScore
<1> QED
  BY <1>1, <1>2, ScoringConstants

(* Ratings round, and keep the order.                                      *)
LEMMA RatingKeepsOrder ==
  ASSUME NEW v \in 0..100, NEW w \in 0..100
  PROVE  /\ Rating(v) \in Nat
         /\ v <= w => Rating(v) <= Rating(w)
         /\ Rating(v) > Rating(w) => v > w
  BY DEF Rating

LEMMA TargetTyped ==
  ASSUME NEW target \in Targets
  PROVE  target \in Nat \ {0} /\ target # None
  BY ScoringConstants

LEMMA NoneIsNoTier == None \notin Tiers
  BY NoneApart

(* The tier of a candidate, in each of the cases.                          *)
LEMMA TierOf ==
  ASSUME NEW rows \in Rows, NEW target \in Targets \cup {None}, NEW c \in Candidates
  PROVE  /\ rows[c] = None => AssignTiers(rows, target)[c] = None
         /\ rows[c] # None /\ c \notin Qualified(rows) => AssignTiers(rows, target)[c] = "F"
         /\ c \in Qualified(rows) =>
              /\ target = None => AssignTiers(rows, target)[c] = "qualified"
              /\ target # None /\ target >= Cardinality(Qualified(rows)) =>
                   AssignTiers(rows, target)[c] = "S"
              /\ target # None /\ ~(target >= Cardinality(Qualified(rows))) =>
                   AssignTiers(rows, target)[c] =
                     IF Rating(rows[c].value) > Cut(rows, target) THEN "S"
                     ELSE IF Rating(rows[c].value) = Cut(rows, target) THEN "A" ELSE "B"
<1>1. AssignTiers(rows, target)[c] =
        IF rows[c] = None THEN None
        ELSE IF c \notin Qualified(rows) THEN "F"
        ELSE IF target = None THEN "qualified"
        ELSE IF target >= Cardinality(Qualified(rows)) THEN "S"
        ELSE IF Rating(rows[c].value) > Cut(rows, target) THEN "S"
        ELSE IF Rating(rows[c].value) = Cut(rows, target) THEN "A" ELSE "B"
  BY DEF AssignTiers
<1>2. c \in Qualified(rows) => rows[c] # None
  BY DEF Qualified
<1> QED
  BY <1>1, <1>2

LEMMA TiersTyped ==
  ASSUME NEW rows \in Rows, NEW target \in Targets \cup {None}
  PROVE  AssignTiers(rows, target) \in [Candidates -> Tiers \cup {None}]
<1>1. \A c \in Candidates : AssignTiers(rows, target)[c] \in Tiers \cup {None}
  BY TierOf DEF Tiers
<1>2. AssignTiers(rows, target) = [c \in Candidates |-> AssignTiers(rows, target)[c]]
  BY DEF AssignTiers
<1> QED
  BY <1>1, <1>2

(* The seats, for any scores and any target (comparisons/tiering.py,       *)
(* assign_tiers): without more qualified candidates than seats all of them *)
(* are in S; otherwise those above the cut fit, and with those on it they  *)
(* do not leave a seat empty.                                              *)
THEOREM TiersSeated ==
  ASSUME NEW rows \in Rows, NEW target \in Targets
  PROVE  Seated(AssignTiers(rows, target), target)
<1> DEFINE tier == AssignTiers(rows, target)
           Q == Qualified(rows)
           S == {c \in Candidates : tier[c] = "S"}
           A == {c \in Candidates : tier[c] = "A"}
<1>1. target \in Nat \ {0} /\ target # None
  BY TargetTyped
<1>2. /\ Q \in SUBSET Candidates
      /\ \A c \in Q : rows[c].value \in 0..100
  BY QualifiedScored
<1>3. Cardinality(Q) \in Nat /\ Cardinality(S) \in Nat /\ Cardinality(S \cup A) \in Nat
  BY <1>2, CandidatesCounted
<1>4. \A c \in Candidates : c \notin Q => tier[c] \in {"F", None}
  BY TierOf
<1>5. None \notin Tiers
  BY NoneIsNoTier
<1>6. SUFFICES /\ Cardinality(S) <= target
               /\ A # {} => Cardinality(S) < target /\ target <= Cardinality(S \cup A)
               /\ A = {} => \A c \in Candidates : tier[c] # "B"
  BY DEF Seated
<1>7. CASE target >= Cardinality(Q)
  <2>1. \A c \in Q : tier[c] = "S"
    BY <1>1, <1>2, <1>7, TierOf
  <2> HIDE DEF tier
  <2>2. S \in SUBSET Q
    BY <1>4, <1>5, <2>1 DEF Tiers
  <2>3. Cardinality(S) <= Cardinality(Q)
    BY <1>2, <2>2, FewerCandidates
  <2>4. A = {} /\ \A c \in Candidates : tier[c] # "B"
    BY <1>4, <1>5, <2>1 DEF Tiers
  <2>5. Cardinality(S) <= target
    BY <1>1, <1>3, <1>7, <2>3
  <2> QED
    BY <2>4, <2>5
<1>8. CASE ~(target >= Cardinality(Q))
  <2> DEFINE v == CutScore(rows, target)
             above == {c \in Q : rows[c].value > v}
             from == {c \in Q : rows[c].value >= v}
  <2>1. target < Cardinality(Q)
    BY <1>1, <1>3, <1>8
  <2>2. Cut(rows, target) = Rating(v) /\ v \in 0..100 /\ IsCut(rows, target, v)
    BY <1>1, <2>1, CutIsCut
  <2> HIDE DEF v
  <2>3. \A c \in Q : tier[c] = IF Rating(rows[c].value) > Rating(v) THEN "S"
                               ELSE IF Rating(rows[c].value) = Rating(v) THEN "A" ELSE "B"
    BY <1>1, <1>2, <1>8, <2>2, TierOf
  <2>4. \A c \in Q : /\ Rating(rows[c].value) \in Nat /\ Rating(v) \in Nat
                     /\ rows[c].value >= v => Rating(rows[c].value) >= Rating(v)
                     /\ Rating(rows[c].value) > Rating(v) => rows[c].value > v
    BY <1>2, <2>2, RatingKeepsOrder
  <2>5. /\ \E c \in Q : rows[c].value = v
        /\ Cardinality(above) < target /\ Cardinality(from) >= target
    BY <2>2 DEF IsCut
  <2> HIDE DEF tier, Q
  <2>6. S \in SUBSET above
    BY <1>4, <1>5, <2>3, <2>4 DEF Tiers
  <2>7. from \in SUBSET (S \cup A)
    BY <1>2, <2>3, <2>4
  <2>8. above \in SUBSET Candidates /\ from \in SUBSET Candidates
        /\ S \cup A \in SUBSET Candidates
    BY <1>2
  <2>9. Cardinality(above) \in Nat /\ Cardinality(from) \in Nat
    BY <2>8, CandidatesCounted
  <2>10. Cardinality(S) <= Cardinality(above)
    BY <2>6, <2>8, FewerCandidates
  <2>11. Cardinality(from) <= Cardinality(S \cup A)
    BY <2>7, <2>8, FewerCandidates
  <2>12. A # {}
    <3>1. PICK c \in Q : rows[c].value = v
      BY <2>5
    <3>2. tier[c] = "A"
      BY <2>3, <2>4, <3>1
    <3> QED
      BY <1>2, <3>2
  <2> HIDE DEF S, A, above, from
  <2> QED
    BY <1>1, <1>3, <2>5, <2>9, <2>10, <2>11, <2>12
<1> QED
  BY <1>7, <1>8

(* assign_tiers puts nobody into a higher tier than one with a better      *)
(* score, although it compares ratings rounded to half points.             *)
THEOREM TiersOrdered ==
  ASSUME NEW rows \in Rows, NEW target \in Targets \cup {None}
  PROVE  Ordered(AssignTiers(rows, target), rows)
<1> DEFINE tier == AssignTiers(rows, target)
           Q == Qualified(rows)
           level == [S |-> 3, A |-> 2, B |-> 1, F |-> 0, qualified |-> 1]
<1>1. SUFFICES ASSUME NEW c \in Candidates, NEW d \in Candidates,
                      rows[c] # None, rows[d] # None, tier[c] # None, tier[d] # None,
                      level[tier[c]] > level[tier[d]]
               PROVE  rows[c].value > rows[d].value
  BY DEF Ordered
<1>2. rows[c].value \in 0..100 /\ rows[d].value \in 0..100 /\ Threshold \in 0..100
  BY <1>1, RowScored, ScoringConstants
<1>3. (c \in Q <=> rows[c].value >= Threshold) /\ (d \in Q <=> rows[d].value >= Threshold)
  BY <1>1 DEF Qualified
<1>4. /\ level["S"] = 3 /\ level["A"] = 2 /\ level["B"] = 1 /\ level["F"] = 0
      /\ level["qualified"] = 1
  OBVIOUS
<1>5. c \in Q
  <2>1. c \notin Q => tier[c] = "F"
    BY <1>1, TierOf
  <2>2. d \notin Q => tier[d] = "F"
    BY <1>1, TierOf
  <2>3. tier[d] \in Tiers
    BY <1>1, TiersTyped
  <2> HIDE DEF tier, Q, level
  <2>4. level[tier[d]] \in {0, 1, 2, 3}
    BY <1>4, <2>3 DEF Tiers
  <2> QED
    BY <1>1, <1>4, <2>1, <2>4
<1>6. CASE d \notin Q
  <2>1. rows[c].value >= Threshold
    BY <1>3, <1>5
  <2>2. ~(rows[d].value >= Threshold)
    BY <1>3, <1>6
  <2>3. \A x, y, t \in 0..100 : x >= t /\ ~(y >= t) => x > y
    OBVIOUS
  <2> HIDE DEF Q, tier, level
  <2> QED
    BY <1>2, <2>1, <2>2, <2>3
<1>7. CASE d \in Q
  <2>1. CASE target = None
    <3>1. tier[c] = "qualified" /\ tier[d] = "qualified"
      BY <1>5, <1>7, <2>1, TierOf
    <3> HIDE DEF tier, level
    <3> QED
      BY <1>1, <1>4, <3>1
  <2>2. CASE target # None /\ target >= Cardinality(Q)
    <3>1. tier[c] = "S" /\ tier[d] = "S"
      BY <1>5, <1>7, <2>2, TierOf
    <3> HIDE DEF tier, level
    <3> QED
      BY <1>1, <1>4, <3>1
  <2>3. CASE target # None /\ ~(target >= Cardinality(Q))
    <3>1. target \in Nat \ {0} /\ target < Cardinality(Q)
      <4>1. target \in Nat \ {0}
        BY <2>3, TargetTyped
      <4>2. Cardinality(Q) \in Nat
        BY QualifiedScored, CandidatesCounted
      <4> QED
        BY <2>3, <4>1, <4>2
    <3>2. PICK cut \in Nat : cut = Cut(rows, target)
      <4>1. Cut(rows, target) = Rating(CutScore(rows, target))
            /\ CutScore(rows, target) \in 0..100
        BY <3>1, CutIsCut
      <4> QED
        BY <4>1, RatingKeepsOrder
    <3>3. /\ tier[c] = IF Rating(rows[c].value) > cut THEN "S"
                       ELSE IF Rating(rows[c].value) = cut THEN "A" ELSE "B"
          /\ tier[d] = IF Rating(rows[d].value) > cut THEN "S"
                       ELSE IF Rating(rows[d].value) = cut THEN "A" ELSE "B"
      BY <1>5, <1>7, <2>3, <3>2, TierOf
    <3>4. /\ Rating(rows[c].value) \in Nat /\ Rating(rows[d].value) \in Nat
          /\ Rating(rows[c].value) > Rating(rows[d].value) => rows[c].value > rows[d].value
      BY <1>2, RatingKeepsOrder
    <3> HIDE DEF tier, level
    <3>5. Rating(rows[c].value) > Rating(rows[d].value)
      BY <1>1, <1>4, <3>2, <3>3, <3>4
    <3> QED
      BY <3>4, <3>5
  <2> QED
    BY <2>1, <2>2, <2>3
<1> QED
  BY <1>6, <1>7
-----------------------------------------------------------------------------
(* The inductive invariants *)

KindOf(r) == IF r = None THEN "none" ELSE r.kind

Record == Scoring \cup Retry \cup Analysis \cup Shortlist \cup Tiebreak \cup Update

(* A scoring is of somebody; what is to be written has a value, and what   *)
(* was written is there.                                                   *)
ScoringOK(r, t) ==
  /\ r \in Scoring
  /\ \E c \in Candidates : r.phase[c] # "absent"
  /\ \A c \in Candidates : r.phase[c] \in {"write", "have"} => r.value[c] \in Values
  /\ \A c \in r.wrote : r.phase[c] = "have"
  /\ \A c \in Candidates : r.looked[c] <= t

(* An analysis is of a completed comparison; a shortlist's rows are those  *)
(* there are while no score is committed; a tiebreaker has seats to give,  *)
(* to candidates on the cut.                                               *)
SessionOK(r, t, cs, sc) ==
  /\ KindOf(r) \in {"score", "compare"} => ScoringOK(r, t)
  /\ KindOf(r) = "analyze" => r.comp \in DOMAIN cs /\ cs[r.comp].status = "completed"
  /\ KindOf(r) = "shortlist" => r.began <= t /\ (r.began = t => r.rows = sc)
  /\ KindOf(r) = "tiebreak" => r.among \subseteq InTier(r.rows, r.target, "A")

SessionsOK == \A s \in Sessions : SessionOK(session[s], time, comps, score)

(* Whoever may still commit scores.                                        *)
Busy(ss) == {s \in Sessions : KindOf(ss[s]) \in {"score", "compare", "retry"}}

(* A task or a request commits scores once.                                *)
TimeBounded == time + Cardinality(Busy(session)) <= starts /\ starts <= scenario.starts

StateOK ==
  /\ TypeOK /\ session \in [Sessions -> Record \cup {None}]
  /\ SessionsOK /\ TimeBounded

(* Of a candidate, one score is committed at a time, and the row is the    *)
(* last of them.                                                           *)
CommittedInTurn ==
  /\ \A w \in written : w.committed <= time
  /\ \A v, w \in written : v.candidate = w.candidate /\ v.committed = w.committed => v = w

Latest(c, ws, w) ==
  /\ w \in ws /\ w.candidate = c
  /\ \A v \in ws : v.candidate = c => v.committed <= w.committed

RowsAreLast ==
  /\ \A w \in written : score[w.candidate] # None
  /\ \A c \in Candidates : score[c] # None =>
       \E w \in written : /\ Latest(c, written, w)
                          /\ w.value = score[c].value /\ w.input = score[c].input

(* Each score of the input that a lookup could see was replaced by then.   *)
Replaced(c, i, looked, ws) ==
  \A v \in ws : v.candidate = c /\ v.input = i /\ v.committed <= looked =>
    \E u \in ws : /\ u.candidate = c /\ u.input # i
                  /\ v.committed < u.committed /\ u.committed <= looked

OnRecord(c, v, i, ws) ==
  \E w \in ws : w.candidate = c /\ w.value = v /\ w.input = i

(* What is asked of the LLM was not to be found; what is there without     *)
(* having been written was.                                                *)
LookedUp(r, ws) ==
  KindOf(r) \in {"score", "compare"} =>
    \A c \in Candidates :
      /\ r.phase[c] \in {"ask", "write"} \/ c \in r.wrote
           => Replaced(c, r.of[c], r.looked[c], ws)
      /\ r.phase[c] = "have" /\ c \notin r.wrote => OnRecord(c, r.value[c], r.of[c], ws)

HistoryOK ==
  /\ CommittedInTurn /\ RowsAreLast
  /\ \A s \in Sessions : LookedUp(session[s], written)

(* A completed comparison is of somebody.                                  *)
SomebodyRanked ==
  \A i \in DOMAIN comps :
    comps[i].kind = "compare" /\ comps[i].status = "completed" => comps[i].results # <<>>
-----------------------------------------------------------------------------
(* Types *)

LEMMA BoundsTyped ==
  /\ MaxStarts \in Nat /\ MaxEdits \in Nat /\ MaxRetries \in Nat
  /\ Times \subseteq Nat /\ Edits \subseteq Nat /\ 0 \in Times /\ 0 \in Edits
  BY ScoringConstants DEF Times, Edits, MaxRetries

LEMMA KindsApart ==
  ASSUME NEW r \in Record \cup {None}
  PROVE  /\ KindOf(r) \in {"score", "compare"} => r \in Scoring /\ r.kind = KindOf(r)
         /\ KindOf(r) = "retry" => r \in Retry
         /\ KindOf(r) = "analyze" => r \in Analysis
         /\ KindOf(r) = "shortlist" => r \in Shortlist
         /\ KindOf(r) = "tiebreak" => r \in Tiebreak
         /\ KindOf(r) = "update" => r \in Update
<1>1. CASE r = None
  BY <1>1 DEF KindOf
<1>2. CASE r # None /\ r \in Scoring
  <2>1. r.kind \in {"score", "compare"}
    BY <1>2 DEF Scoring
  <2> QED
    BY <1>2, <2>1 DEF KindOf
<1>3. CASE r # None /\ r \in Retry
  <2>1. r.kind = "retry"
    BY <1>3 DEF Retry
  <2> QED
    BY <1>3, <2>1 DEF KindOf
<1>4. CASE r # None /\ r \in Analysis
  <2>1. r.kind = "analyze"
    BY <1>4 DEF Analysis
  <2> QED
    BY <1>4, <2>1 DEF KindOf
<1>5. CASE r # None /\ r \in Shortlist
  <2>1. r.kind = "shortlist"
    BY <1>5 DEF Shortlist
  <2> QED
    BY <1>5, <2>1 DEF KindOf
<1>6. CASE r # None /\ r \in Tiebreak
  <2>1. r.kind = "tiebreak"
    BY <1>6 DEF Tiebreak
  <2> QED
    BY <1>6, <2>1 DEF KindOf
<1>7. CASE r # None /\ r \in Update
  <2>1. r.kind = "update"
    BY <1>7 DEF Update
  <2> QED
    BY <1>7, <2>1 DEF KindOf
<1> QED
  BY <1>1, <1>2, <1>3, <1>4, <1>5, <1>6, <1>7 DEF Record

LEMMA KindIsKindOf == \A s : Kind(s) = KindOf(session[s])
  BY DEF Kind, KindOf

(* A session that has nothing is of no kind.                               *)
LEMMA NoneOK ==
  ASSUME NEW t, NEW cs, NEW sc
  PROVE  KindOf(None) = "none" /\ SessionOK(None, t, cs, sc)
  BY DEF KindOf, SessionOK

LEMMA SessionLater ==
  ASSUME NEW x \in Record \cup {None},
         NEW t \in Nat, NEW u \in Nat, NEW cs, NEW ds, NEW sc, NEW sd,
         SessionOK(x, t, cs, sc),
         t <= u, u = t => sd = sc,
         \A i \in DOMAIN cs : i \in DOMAIN ds /\ ds[i].status = cs[i].status
  PROVE  SessionOK(x, u, ds, sd)
<1>1. KindOf(x) \in {"score", "compare"} => ScoringOK(x, u)
  <2>1. SUFFICES ASSUME KindOf(x) \in {"score", "compare"}
                 PROVE  ScoringOK(x, u)
    OBVIOUS
  <2>2. ScoringOK(x, t) /\ x \in Scoring
    BY <2>1, KindsApart DEF SessionOK
  <2>3. \A c \in Candidates : x.looked[c] \in Nat
    BY <2>2, BoundsTyped DEF Scoring
  <2>4. \A c \in Candidates : x.looked[c] <= u
    BY <2>2, <2>3 DEF ScoringOK
  <2> QED
    BY <2>2, <2>4 DEF ScoringOK
<1>2. KindOf(x) = "analyze" => x.comp \in DOMAIN ds /\ ds[x.comp].status = "completed"
  BY DEF SessionOK
<1>3. KindOf(x) = "shortlist" => x.began <= u /\ (x.began = u => x.rows = sd)
  <2>1. SUFFICES ASSUME KindOf(x) = "shortlist"
                 PROVE  x.began <= u /\ (x.began = u => x.rows = sd)
    OBVIOUS
  <2>2. x.began \in Nat
    BY <2>1, KindsApart, BoundsTyped DEF Shortlist
  <2>3. x.began <= t /\ (x.began = t => x.rows = sc)
    BY <2>1 DEF SessionOK
  <2> QED
    BY <2>2, <2>3
<1>4. KindOf(x) = "tiebreak" => x.among \subseteq InTier(x.rows, x.target, "A")
  BY DEF SessionOK
<1> QED
  BY <1>1, <1>2, <1>3, <1>4 DEF SessionOK

LEMMA SessionsMove ==
  ASSUME NEW ss \in [Sessions -> Record \cup {None}], NEW s \in Sessions,
         NEW r \in Record \cup {None},
         NEW t \in Nat, NEW u \in Nat, NEW cs, NEW ds, NEW sc, NEW sd,
         \A x \in Sessions : SessionOK(ss[x], t, cs, sc),
         SessionOK(r, u, ds, sd),
         t <= u, u = t => sd = sc,
         \A i \in DOMAIN cs : i \in DOMAIN ds /\ ds[i].status = cs[i].status
  PROVE  /\ [ss EXCEPT ![s] = r] \in [Sessions -> Record \cup {None}]
         /\ \A x \in Sessions : SessionOK([ss EXCEPT ![s] = r][x], u, ds, sd)
<1>1. [ss EXCEPT ![s] = r] \in [Sessions -> Record \cup {None}]
  OBVIOUS
<1>2. \A x \in Sessions : ss[x] \in Record \cup {None} /\ SessionOK(ss[x], u, ds, sd)
  BY SessionLater
<1>3. \A x \in Sessions : [ss EXCEPT ![s] = r][x] = IF x = s THEN r ELSE ss[x]
  OBVIOUS
<1> QED
  BY <1>1, <1>2, <1>3

Scorers == {"score", "compare", "retry"}

LEMMA BusyCounted ==
  ASSUME NEW ss
  PROVE  IsFiniteSet(Busy(ss)) /\ Cardinality(Busy(ss)) \in Nat
<1>1. Busy(ss) \in SUBSET Sessions
  BY DEF Busy
<1>2. IsFiniteSet(Sessions)
  BY ScoringConstants
<1>3. IsFiniteSet(Busy(ss))
  BY <1>1, <1>2, FS_Subset
<1> QED
  BY <1>3, FS_CardinalityType

LEMMA BusyMoves ==
  ASSUME NEW ss \in [Sessions -> Record \cup {None}], NEW s \in Sessions,
         NEW r \in Record \cup {None}
  PROVE  LET n == Cardinality(Busy(ss))  m == Cardinality(Busy([ss EXCEPT ![s] = r])) IN
         /\ m <= n + 1
         /\ (KindOf(r) \in Scorers => KindOf(ss[s]) \in Scorers) => m <= n
         /\ KindOf(ss[s]) \in Scorers /\ KindOf(r) \notin Scorers => m + 1 <= n
<1> DEFINE tt == [ss EXCEPT ![s] = r]
           B == Busy(ss)
           C == Busy(tt)
<1>1. \A x \in Sessions : tt[x] = IF x = s THEN r ELSE ss[x]
  OBVIOUS
<1>2. /\ C \in SUBSET (B \cup {s})
      /\ (KindOf(r) \in Scorers => KindOf(ss[s]) \in Scorers) => C \in SUBSET B
      /\ KindOf(ss[s]) \in Scorers /\ KindOf(r) \notin Scorers => s \in B /\ C \in SUBSET (B \ {s})
  <2> HIDE DEF tt
  <2> QED
    BY <1>1 DEF Busy, Scorers
<1>3. IsFiniteSet(B) /\ Cardinality(B) \in Nat /\ IsFiniteSet(C) /\ Cardinality(C) \in Nat
  BY BusyCounted
<1> HIDE DEF B, C, tt
<1>4. /\ IsFiniteSet(B \cup {s})
      /\ Cardinality(B \cup {s}) = IF s \in B THEN Cardinality(B) ELSE Cardinality(B) + 1
  BY <1>3, FS_AddElement
<1>5. /\ IsFiniteSet(B \ {s})
      /\ Cardinality(B \ {s}) = IF s \in B THEN Cardinality(B) - 1 ELSE Cardinality(B)
  BY <1>3, FS_RemoveElement
<1>6. Cardinality(C) <= Cardinality(B \cup {s})
  BY <1>2, <1>4, FS_Subset
<1>7. C \in SUBSET B => Cardinality(C) <= Cardinality(B)
  BY <1>3, FS_Subset
<1>8. C \in SUBSET (B \ {s}) => Cardinality(C) <= Cardinality(B \ {s})
  BY <1>5, FS_Subset
<1>9. Cardinality(C) <= Cardinality(B) + 1
  BY <1>3, <1>4, <1>6
<1>10. s \in B /\ C \in SUBSET (B \ {s}) => Cardinality(C) + 1 <= Cardinality(B)
  BY <1>3, <1>5, <1>8
<1>11. SUFFICES /\ Cardinality(C) <= Cardinality(B) + 1
                /\ (KindOf(r) \in Scorers => KindOf(ss[s]) \in Scorers)
                     => Cardinality(C) <= Cardinality(B)
                /\ KindOf(ss[s]) \in Scorers /\ KindOf(r) \notin Scorers
                     => Cardinality(C) + 1 <= Cardinality(B)
  BY DEF B, C, tt
<1> QED
  BY <1>2, <1>7, <1>9, <1>10

(* A step that only moves a session keeps what holds of the state, unless  *)
(* a scorer would come from nowhere.                                       *)
LEMMA StepKeeps ==
  ASSUME StateOK, NEW s \in Sessions, NEW r \in Record \cup {None},
         SessionOK(r, time, comps, score),
         KindOf(r) \in Scorers => KindOf(session[s]) \in Scorers,
         Step(s, r)
  PROVE  StateOK'
<1>1. session' = [session EXCEPT ![s] = r] /\ UNCHANGED <<scenario, held, kept, starts>>
  BY DEF Step, Goto
<1>2. UNCHANGED <<scenario, edit, live, job, open, raced, edits, score, written, comps, page,
                  time, starts>>
  BY <1>1 DEF held, kept
<1>3. time \in Nat /\ starts \in Nat /\ scenario.starts \in Nat
  BY BoundsTyped, ScoringConstants DEF StateOK, TypeOK, Scenario
<1>4. /\ session' \in [Sessions -> Record \cup {None}]
      /\ \A x \in Sessions : SessionOK(session'[x], time, comps, score)
  <2>1. \A x \in Sessions : SessionOK(session[x], time, comps, score)
    BY DEF StateOK, SessionsOK
  <2>2. session \in [Sessions -> Record \cup {None}]
    BY DEF StateOK
  <2>3. time <= time
    BY <1>3
  <2> QED
    BY <1>1, <1>3, <2>1, <2>2, <2>3, SessionsMove
<1>5. SessionsOK'
  BY <1>2, <1>4 DEF SessionsOK
<1>6. TimeBounded'
  <2>1. Cardinality(Busy(session')) <= Cardinality(Busy(session))
    BY <1>1, BusyMoves DEF StateOK
  <2>2. Cardinality(Busy(session')) \in Nat /\ Cardinality(Busy(session)) \in Nat
    BY BusyCounted
  <2>3. time + Cardinality(Busy(session')) <= starts /\ starts <= scenario.starts
    BY <1>3, <2>1, <2>2 DEF StateOK, TimeBounded
  <2> QED
    BY <1>2, <2>3 DEF TimeBounded
<1>7. TypeOK'
  BY <1>2, <1>4 DEF StateOK, TypeOK, Record
<1> QED
  BY <1>4, <1>5, <1>6, <1>7 DEF StateOK

LEMMA StartKeeps ==
  ASSUME StateOK, NEW s \in Sessions, NEW r \in Record, NEW op,
         SessionOK(r, time, comps, score),
         Start(s, op, r)
  PROVE  StateOK'
<1>1. /\ session' = [session EXCEPT ![s] = r] /\ UNCHANGED <<scenario, held, kept>>
      /\ starts < scenario.starts /\ starts' = starts + 1
  BY DEF Start, Goto
<1>2. UNCHANGED <<scenario, edit, live, job, open, raced, edits, score, written, comps, page,
                  time>>
  BY <1>1 DEF held, kept
<1>3. time \in Nat /\ starts \in Nat /\ scenario.starts \in 0..MaxStarts
  BY BoundsTyped, ScoringConstants DEF StateOK, TypeOK, Scenario
<1>4. /\ session' \in [Sessions -> Record \cup {None}]
      /\ \A x \in Sessions : SessionOK(session'[x], time, comps, score)
  <2>1. \A x \in Sessions : SessionOK(session[x], time, comps, score)
    BY DEF StateOK, SessionsOK
  <2>2. session \in [Sessions -> Record \cup {None}]
    BY DEF StateOK
  <2>3. time <= time
    BY <1>3
  <2> QED
    BY <1>1, <1>3, <2>1, <2>2, <2>3, SessionsMove
<1>5. SessionsOK'
  BY <1>2, <1>4 DEF SessionsOK
<1>6. TimeBounded'
  <2>1. Cardinality(Busy(session')) <= Cardinality(Busy(session)) + 1
    BY <1>1, BusyMoves DEF StateOK
  <2>2. Cardinality(Busy(session')) \in Nat /\ Cardinality(Busy(session)) \in Nat
    BY BusyCounted
  <2>3. starts + 1 <= scenario.starts
    BY <1>1, <1>3, BoundsTyped
  <2>4. time + Cardinality(Busy(session)) <= starts
    BY DEF StateOK, TimeBounded
  <2>5. time + Cardinality(Busy(session')) <= starts + 1
    BY <1>3, <2>1, <2>2, <2>4
  <2> QED
    BY <1>1, <1>2, <2>3, <2>5 DEF TimeBounded
<1>7. starts' \in 0..MaxStarts
  BY <1>1, <1>3, BoundsTyped
<1>8. TypeOK'
  BY <1>2, <1>4, <1>7 DEF StateOK, TypeOK, Record
<1> QED
  BY <1>4, <1>5, <1>6, <1>8 DEF StateOK

(* So does a transaction's end; scores are committed by who is scoring.    *)
LEMMA EndKeeps ==
  ASSUME StateOK, NEW s \in Sessions, End(s),
         score' \in Rows, written' \subseteq Written, comps' \in Seq(Comparison),
         page' \in Page \cup {None},
         \/ time' = time /\ score' = score
         \/ time' = time + 1 /\ KindOf(session[s]) \in Scorers,
         \A i \in DOMAIN comps : i \in DOMAIN comps' /\ comps'[i].status = comps[i].status
  PROVE  StateOK'
<1>1. session' = [session EXCEPT ![s] = None] /\ UNCHANGED <<scenario, held, starts>>
  BY DEF End, Goto
<1>2. UNCHANGED <<scenario, edit, live, job, open, raced, edits, starts>>
  BY <1>1 DEF held
<1>3. time \in Nat /\ starts \in 0..MaxStarts /\ starts \in Nat /\ scenario.starts \in Nat
      /\ MaxStarts \in Nat
  BY BoundsTyped, ScoringConstants DEF StateOK, TypeOK, Scenario
<1>4. time' \in Nat /\ time <= time' /\ (time' = time => score' = score)
  BY <1>3
<1>5. /\ session' \in [Sessions -> Record \cup {None}]
      /\ \A x \in Sessions : SessionOK(session'[x], time', comps', score')
  <2>1. \A x \in Sessions : SessionOK(session[x], time, comps, score)
    BY DEF StateOK, SessionsOK
  <2>2. session \in [Sessions -> Record \cup {None}]
    BY DEF StateOK
  <2>3. SessionOK(None, time', comps', score')
    BY NoneOK
  <2>4. None \in Record \cup {None}
    OBVIOUS
  <2>5. \A x \in Sessions : session'[x] = IF x = s THEN None ELSE session[x]
    BY <1>1, <2>2
  <2>6. ASSUME NEW x \in Sessions
        PROVE  SessionOK(session[x], time', comps', score')
    <3>1. session[x] \in Record \cup {None} /\ SessionOK(session[x], time, comps, score)
      BY <2>1, <2>2
    <3> QED
      BY <1>3, <1>4, <3>1, SessionLater
  <2>7. session' \in [Sessions -> Record \cup {None}]
    BY <1>1, <2>2, <2>4
  <2> QED
    BY <2>3, <2>5, <2>6, <2>7
<1>6. SessionsOK'
  BY <1>5 DEF SessionsOK
<1>7. time' + Cardinality(Busy(session')) <= starts /\ starts <= scenario.starts
  <2>1. session \in [Sessions -> Record \cup {None}] /\ None \in Record \cup {None}
        /\ KindOf(None) \notin Scorers
    BY NoneOK DEF StateOK, Scorers
  <2>2. /\ Cardinality(Busy(session')) <= Cardinality(Busy(session))
        /\ KindOf(session[s]) \in Scorers
             => Cardinality(Busy(session')) + 1 <= Cardinality(Busy(session))
    BY <1>1, <2>1, BusyMoves
  <2>3. Cardinality(Busy(session')) \in Nat /\ Cardinality(Busy(session)) \in Nat
    BY BusyCounted
  <2>4. time + Cardinality(Busy(session)) <= starts /\ starts <= scenario.starts
    BY DEF StateOK, TimeBounded
  <2> QED
    BY <1>3, <2>2, <2>3, <2>4
<1>8. TimeBounded'
  BY <1>2, <1>7 DEF TimeBounded
<1>9. time' \in Times
  <2>1. Cardinality(Busy(session')) \in Nat
    BY BusyCounted
  <2> QED
    BY <1>3, <1>4, <1>7, <2>1 DEF Times
<1>10. TypeOK'
  BY <1>2, <1>5, <1>9 DEF StateOK, TypeOK, Record
<1> QED
  BY <1>5, <1>6, <1>8, <1>10 DEF StateOK

(* Nor do edits disturb anybody.                                           *)
LEMMA EditKeeps ==
  ASSUME StateOK, UNCHANGED <<scenario, kept, session, starts>>,
         edit' \in [Candidates -> Edits], live' \subseteq Candidates, job' \in Job,
         open' \in BOOLEAN, raced' \in BOOLEAN, edits' \in Edits
  PROVE  StateOK'
<1>1. UNCHANGED <<scenario, score, written, comps, page, time, session, starts>>
  BY DEF kept
<1>2. TypeOK'
  BY <1>1 DEF StateOK, TypeOK
<1>3. SessionsOK'
  BY <1>1 DEF StateOK, SessionsOK
<1>4. TimeBounded'
  BY <1>1 DEF StateOK, TimeBounded
<1> QED
  BY <1>1, <1>2, <1>3, <1>4 DEF StateOK

LEMMA NextEdit ==
  ASSUME StateOK, edits < MaxEdits
  PROVE  edits + 1 \in Edits
  BY BoundsTyped DEF StateOK, TypeOK, Edits

LEMMA CommitUpdateKeeps ==
  ASSUME StateOK, NEW s \in Sessions, NEW reordered, CommitUpdate(s, reordered)
  PROVE  StateOK'
<1> DEFINE r == session[s]
<1>1. r \in Update
  <2>1. KindOf(r) = "update" /\ r \in Record \cup {None}
    BY KindIsKindOf DEF CommitUpdate, StateOK
  <2> QED
    BY <2>1, KindsApart
<1>2. edits + 1 \in Edits /\ edits' = edits + 1
  BY NextEdit DEF CommitUpdate
<1>3. job' \in Job
  <2> DEFINE tech == IF r.tech = None THEN r.job.tech ELSE r.tech
             soft == IF r.soft = None THEN r.job.soft ELSE r.soft
             legacy == IF r.legacy = None THEN r.job.required ELSE r.legacy
             touched == \E given \in {r.tech, r.soft, r.legacy} : given # None
             required == IF touched THEN Merged(tech, soft, legacy) ELSE r.job.required
  <2>1. /\ job.text \in Edits /\ job.tech \in SUBSET Skills /\ job.soft \in SUBSET Skills
        /\ job.required \in SUBSET Skills
    BY DEF StateOK, TypeOK, Job
  <2>2. /\ r.job.tech \in SUBSET Skills /\ r.job.soft \in SUBSET Skills
        /\ r.job.required \in SUBSET Skills
        /\ r.tech # None => r.tech \in SUBSET Skills
        /\ r.soft # None => r.soft \in SUBSET Skills
        /\ r.legacy # None => r.legacy \in SUBSET Skills
    <3>1. r.job \in Job /\ r.tech \in Given /\ r.soft \in Given /\ r.legacy \in Given
      BY <1>1 DEF Update
    <3> HIDE DEF r
    <3>2. \A given \in Given : given # None => given \in SUBSET Skills
      BY DEF Given
    <3>3. \A j \in Job : /\ j.tech \in SUBSET Skills /\ j.soft \in SUBSET Skills
                        /\ j.required \in SUBSET Skills
      BY DEF Job
    <3> QED
      BY <3>1, <3>2, <3>3
  <2>3. tech \in SUBSET Skills /\ soft \in SUBSET Skills /\ legacy \in SUBSET Skills
    BY <2>2
  <2>4. required \in SUBSET Skills
    BY <2>2, <2>3 DEF Merged
  <2>5. job' = [text |-> IF r.text THEN edits + 1 ELSE job.text,
                tech |-> IF tech # r.job.tech \/ "tech" \in reordered
                           THEN tech ELSE job.tech,
                soft |-> IF soft # r.job.soft \/ "soft" \in reordered
                           THEN soft ELSE job.soft,
                required |-> IF required # r.job.required \/ "required" \in reordered
                               THEN required ELSE job.required]
    BY DEF CommitUpdate
  <2> HIDE DEF tech, soft, legacy, required, r
  <2> QED
    BY <1>2, <2>1, <2>3, <2>4, <2>5 DEF Job
<1>4. session' = [session EXCEPT ![s] = None] /\ UNCHANGED <<scenario, edit, live, open, kept, starts>>
      /\ raced' = (raced \/ r.job # job)
  BY DEF CommitUpdate, Goto
<1>5. UNCHANGED <<score, written, comps, page, time>>
  BY <1>4 DEF kept
<1>6. /\ session' \in [Sessions -> Record \cup {None}]
      /\ \A x \in Sessions : SessionOK(session'[x], time, comps, score)
      /\ Cardinality(Busy(session')) <= Cardinality(Busy(session))
  <2>1. \A x \in Sessions : SessionOK(session[x], time, comps, score)
    BY DEF StateOK, SessionsOK
  <2>2. session \in [Sessions -> Record \cup {None}] /\ None \in Record \cup {None}
    BY DEF StateOK
  <2>3. time \in Nat /\ time <= time
    BY BoundsTyped DEF StateOK, TypeOK
  <2>4. SessionOK(None, time, comps, score) /\ KindOf(None) \notin Scorers
    BY NoneOK DEF Scorers
  <2>5. /\ session' \in [Sessions -> Record \cup {None}]
        /\ \A x \in Sessions : SessionOK(session'[x], time, comps, score)
    BY <1>4, <2>1, <2>2, <2>3, <2>4, SessionsMove
  <2>6. Cardinality(Busy(session')) <= Cardinality(Busy(session))
    BY <1>4, <2>2, <2>4, BusyMoves
  <2> QED
    BY <2>5, <2>6
<1>7. SessionsOK'
  BY <1>5, <1>6 DEF SessionsOK
<1>8. TimeBounded'
  <2>1. Cardinality(Busy(session')) \in Nat /\ Cardinality(Busy(session)) \in Nat
    BY BusyCounted
  <2>2. time \in Nat /\ starts \in Nat
    BY BoundsTyped DEF StateOK, TypeOK
  <2>3. time + Cardinality(Busy(session)) <= starts /\ starts <= scenario.starts
    BY DEF StateOK, TimeBounded
  <2>4. time + Cardinality(Busy(session')) <= starts
    BY <1>6, <2>1, <2>2, <2>3
  <2> QED
    BY <1>4, <1>5, <2>3, <2>4 DEF TimeBounded
<1>9. raced' \in BOOLEAN
  BY <1>4
<1>10. TypeOK'
  BY <1>2, <1>3, <1>4, <1>5, <1>6, <1>9 DEF StateOK, TypeOK, Record
<1> QED
  BY <1>6, <1>7, <1>8, <1>10 DEF StateOK

LEMMA EditCandidateKeeps ==
  ASSUME StateOK, NEW c \in Candidates, EditCandidate(c)
  PROVE  StateOK'
<1>1. UNCHANGED <<scenario, kept, session, starts>> /\ UNCHANGED <<live, job, open, raced>>
  BY DEF EditCandidate
<1>2. edits' = edits + 1 /\ edits' \in Edits /\ edit' = [edit EXCEPT ![c] = edits + 1]
  BY NextEdit DEF EditCandidate
<1>3. /\ edit' \in [Candidates -> Edits] /\ live' \subseteq Candidates /\ job' \in Job
      /\ open' \in BOOLEAN /\ raced' \in BOOLEAN
  BY <1>1, <1>2 DEF StateOK, TypeOK
<1> QED
  BY <1>1, <1>2, <1>3, EditKeeps

LEMMA DeleteCandidateKeeps ==
  ASSUME StateOK, NEW c \in Candidates, DeleteCandidate(c)
  PROVE  StateOK'
<1>1. UNCHANGED <<scenario, kept, session, starts>> /\ UNCHANGED <<edit, job, open, raced, edits>>
      /\ live' = live \ {c}
  BY DEF DeleteCandidate
<1>2. /\ edit' \in [Candidates -> Edits] /\ live' \subseteq Candidates /\ job' \in Job
      /\ open' \in BOOLEAN /\ raced' \in BOOLEAN /\ edits' \in Edits
  BY <1>1 DEF StateOK, TypeOK
<1> QED
  BY <1>1, <1>2, EditKeeps

LEMMA DeleteJobKeeps ==
  ASSUME StateOK, DeleteJob
  PROVE  StateOK'
<1>1. UNCHANGED <<scenario, kept, session, starts>> /\ UNCHANGED <<edit, live, job, raced, edits>>
      /\ open' = FALSE
  BY DEF DeleteJob
<1>2. /\ edit' \in [Candidates -> Edits] /\ live' \subseteq Candidates /\ job' \in Job
      /\ open' \in BOOLEAN /\ raced' \in BOOLEAN /\ edits' \in Edits
  BY <1>1 DEF StateOK, TypeOK
<1> QED
  BY <1>1, <1>2, EditKeeps

LEMMA InputTyped ==
  ASSUME StateOK, NEW c \in Candidates
  PROVE  Input(c) \in Inputs
<1>1. edit[c] \in Edits /\ job \in Job
  BY DEF StateOK, TypeOK
<1> QED
  BY <1>1 DEF Input, Inputs

(* A scoring as it is loaded: everyone's cache is to be looked at.         *)
LEMMA LoadedOK ==
  ASSUME StateOK, NEW kind \in {"score", "compare"}, NEW cs \in SUBSET Candidates, cs # {},
         NEW left \in 0..MaxRetries
  PROVE  /\ Loaded(kind, cs, left) \in Scoring
         /\ SessionOK(Loaded(kind, cs, left), time, comps, score)
<1> DEFINE r == Loaded(kind, cs, left)
<1>1. /\ r.kind = kind /\ r.wrote = {}
      /\ \A c \in Candidates : r.phase[c] = IF c \in cs THEN "look" ELSE "absent"
      /\ \A c \in Candidates : r.looked[c] = 0
  BY DEF Loaded
<1>2. r \in Scoring
  <2>1. /\ [c \in Candidates |-> IF c \in cs THEN "look" ELSE "absent"] \in [Candidates -> Phases]
        /\ [c \in Candidates |-> Input(c)] \in [Candidates -> Inputs]
        /\ [c \in Candidates |-> None] \in [Candidates -> Values \cup {None}]
        /\ [c \in Candidates |-> 0] \in [Candidates -> Times]
    BY InputTyped, BoundsTyped DEF Phases
  <2> QED
    BY <2>1 DEF Loaded, Scoring
<1>3. time \in Nat
  BY BoundsTyped DEF StateOK, TypeOK
<1> HIDE DEF r
<1>4. ScoringOK(r, time)
  BY <1>1, <1>2, <1>3 DEF ScoringOK
<1>5. SessionOK(r, time, comps, score)
  BY <1>1, <1>4 DEF SessionOK, KindOf
<1> QED
  BY <1>2, <1>5 DEF r

LEMMA StartScoreKeeps ==
  ASSUME StateOK, NEW s \in Sessions, NEW c \in Candidates, StartScore(s, c)
  PROVE  StateOK'
<1>1. MaxRetries \in 0..MaxRetries
  BY BoundsTyped
<1>2. Loaded("score", {c}, MaxRetries) \in Record
      /\ SessionOK(Loaded("score", {c}, MaxRetries), time, comps, score)
  BY <1>1, LoadedOK DEF Record
<1>3. Start(s, "score", Loaded("score", {c}, MaxRetries))
  BY DEF StartScore
<1> QED
  BY <1>2, <1>3, StartKeeps

LEMMA StartCompareKeeps ==
  ASSUME StateOK, NEW s \in Sessions, NEW cs \in SUBSET Candidates, StartCompare(s, cs)
  PROVE  StateOK'
<1>1. 0 \in 0..MaxRetries
  BY DEF MaxRetries
<1>2. cs # {}
  BY FS_EmptySet DEF StartCompare
<1>3. Loaded("compare", cs, 0) \in Record
      /\ SessionOK(Loaded("compare", cs, 0), time, comps, score)
  BY <1>1, <1>2, LoadedOK DEF Record
<1>4. Start(s, "compare", Loaded("compare", cs, 0))
  BY DEF StartCompare
<1> QED
  BY <1>3, <1>4, StartKeeps

LEMMA SessionTyped ==
  ASSUME StateOK, NEW s \in Sessions
  PROVE  /\ session[s] \in Record \cup {None}
         /\ SessionOK(session[s], time, comps, score)
         /\ Kind(s) = KindOf(session[s])
         /\ Kind(s) \in {"score", "compare"} =>
              /\ session[s] \in Scoring /\ ScoringOK(session[s], time)
              /\ session[s].kind = Kind(s) /\ KindOf(session[s]) \in Scorers
<1>1. /\ session[s] \in Record \cup {None}
      /\ SessionOK(session[s], time, comps, score)
  BY DEF StateOK, SessionsOK
<1>2. Kind(s) = KindOf(session[s])
  BY KindIsKindOf
<1> QED
  BY <1>1, <1>2, KindsApart DEF SessionOK, Scorers

(* A scorer that moves on with its candidate c.                            *)
LEMMA ScorerMoves ==
  ASSUME StateOK, NEW s \in Sessions, Kind(s) \in {"score", "compare"}, NEW q \in Scoring,
         q.kind = session[s].kind, NEW c \in Candidates,
         q.phase[c] # "absent",
         q.phase[c] \in {"write", "have"} => q.value[c] \in Values,
         c \in q.wrote => q.phase[c] = "have",
         q.wrote \subseteq session[s].wrote \cup {c},
         q.looked[c] <= time,
         \A d \in Candidates \ {c} : /\ q.phase[d] = session[s].phase[d]
                                     /\ q.value[d] = session[s].value[d]
                                     /\ q.looked[d] = session[s].looked[d]
  PROVE  /\ q \in Record \cup {None}
         /\ SessionOK(q, time, comps, score)
         /\ KindOf(q) \in Scorers => KindOf(session[s]) \in Scorers
<1>1. ScoringOK(session[s], time) /\ session[s] \in Scoring
  BY SessionTyped
<1>2. \A d \in Candidates : q.phase[d] \in {"write", "have"} => q.value[d] \in Values
  BY <1>1 DEF ScoringOK
<1>3. \A d \in q.wrote : q.phase[d] = "have"
  <2>1. ASSUME NEW d \in q.wrote
        PROVE  q.phase[d] = "have"
    <3>1. d \in Candidates
      BY DEF Scoring
    <3>2. CASE d = c
      BY <3>2
    <3>3. CASE d # c
      BY <1>1, <3>1, <3>3 DEF ScoringOK
    <3> QED
      BY <3>2, <3>3
  <2> QED
    BY <2>1
<1>4. \A d \in Candidates : q.looked[d] <= time
  BY <1>1 DEF ScoringOK
<1>5. ScoringOK(q, time)
  BY <1>2, <1>3, <1>4 DEF ScoringOK
<1>6. KindOf(q) \in {"none", "score", "compare"}
  BY DEF KindOf, Scoring
<1> QED
  BY <1>5, <1>6, SessionTyped DEF SessionOK, Record

LEMMA InPhaseMeans ==
  ASSUME StateOK, NEW s \in Sessions, NEW c \in Candidates, NEW phase, InPhase(s, c, phase)
  PROVE  /\ Kind(s) \in {"score", "compare"} /\ session[s].phase[c] = phase
         /\ session[s] \in Scoring /\ ScoringOK(session[s], time)
  BY SessionTyped DEF InPhase

(* A scoring of which the candidate c has moved on.                        *)
Moved(r, c, phase, v, t, wrote) ==
  [r EXCEPT !.phase[c] = phase, !.value[c] = v, !.looked[c] = t, !.wrote = wrote]

LEMMA MovedTyped ==
  ASSUME NEW r \in Scoring, NEW c \in Candidates, NEW phase \in Phases,
         NEW v \in Values \cup {None}, NEW t \in Times, NEW wrote \in SUBSET Candidates
  PROVE  LET q == Moved(r, c, phase, v, t, wrote) IN
         /\ q \in Scoring
         /\ q.kind = r.kind /\ q.left = r.left /\ q.of = r.of /\ q.wrote = wrote
         /\ q.phase[c] = phase /\ q.value[c] = v /\ q.looked[c] = t
         /\ \A d \in Candidates \ {c} : /\ q.phase[d] = r.phase[d]
                                        /\ q.value[d] = r.value[d]
                                        /\ q.looked[d] = r.looked[d]
<1>1. /\ r.phase \in [Candidates -> Phases] /\ r.value \in [Candidates -> Values \cup {None}]
      /\ r.looked \in [Candidates -> Times]
  BY DEF Scoring
<1>2. /\ [r.phase EXCEPT ![c] = phase] \in [Candidates -> Phases]
      /\ [r.value EXCEPT ![c] = v] \in [Candidates -> Values \cup {None}]
      /\ [r.looked EXCEPT ![c] = t] \in [Candidates -> Times]
  BY <1>1
<1>3. PICK q : q = Moved(r, c, phase, v, t, wrote)
  OBVIOUS
<1>4. /\ q \in Scoring
      /\ q.kind = r.kind /\ q.left = r.left /\ q.of = r.of /\ q.wrote = wrote
      /\ q.phase = [r.phase EXCEPT ![c] = phase]
      /\ q.value = [r.value EXCEPT ![c] = v]
      /\ q.looked = [r.looked EXCEPT ![c] = t]
  BY <1>3 DEF Moved, Scoring
<1> QED
  BY <1>1, <1>3, <1>4

LEMMA StepsAreMoves ==
  ASSUME NEW r \in Scoring, NEW c \in Candidates, NEW v, NEW t
  PROVE  /\ [[r EXCEPT !.looked[c] = t] EXCEPT !.phase[c] = "have", !.value[c] = v]
              = Moved(r, c, "have", v, t, r.wrote)
         /\ [[r EXCEPT !.looked[c] = t] EXCEPT !.phase[c] = "ask"]
              = Moved(r, c, "ask", r.value[c], t, r.wrote)
         /\ [r EXCEPT !.phase[c] = "write", !.value[c] = v]
              = Moved(r, c, "write", v, r.looked[c], r.wrote)
         /\ [r EXCEPT !.phase[c] = "have", !.wrote = @ \cup {c}]
              = Moved(r, c, "have", r.value[c], r.looked[c], r.wrote \cup {c})
<1>1. [r.value EXCEPT ![c] = r.value[c]] = r.value
      /\ [r.looked EXCEPT ![c] = r.looked[c]] = r.looked
  BY DEF Scoring
<1>2. [[r EXCEPT !.looked[c] = t] EXCEPT !.phase[c] = "have", !.value[c] = v]
        = Moved(r, c, "have", v, t, r.wrote)
  BY DEF Moved, Scoring
<1>3. [[r EXCEPT !.looked[c] = t] EXCEPT !.phase[c] = "ask"]
        = Moved(r, c, "ask", r.value[c], t, r.wrote)
  BY <1>1 DEF Moved, Scoring
<1>4. [r EXCEPT !.phase[c] = "write", !.value[c] = v]
        = Moved(r, c, "write", v, r.looked[c], r.wrote)
  BY <1>1 DEF Moved, Scoring
<1>5. [r EXCEPT !.phase[c] = "have", !.wrote = @ \cup {c}]
        = Moved(r, c, "have", r.value[c], r.looked[c], r.wrote \cup {c})
  BY <1>1 DEF Moved, Scoring
<1> QED
  BY <1>2, <1>3, <1>4, <1>5

(* Each step of score_with_cache, as a move of its session.                *)
LEMMA LookMoves ==
  ASSUME StateOK, NEW s \in Sessions, NEW c \in Candidates, Look(s, c)
  PROVE  LET r == session[s]
             q == IF Cached(c, r.of[c]) THEN Moved(r, c, "have", score[c].value, time, r.wrote)
                  ELSE Moved(r, c, "ask", r.value[c], time, r.wrote)
         IN Step(s, q)
<1>1. session[s] \in Scoring
  BY InPhaseMeans DEF Look
<1>2. Step(s, IF Cached(c, session[s].of[c])
                THEN [[session[s] EXCEPT !.looked[c] = time]
                        EXCEPT !.phase[c] = "have", !.value[c] = score[c].value]
                ELSE [[session[s] EXCEPT !.looked[c] = time] EXCEPT !.phase[c] = "ask"])
  <2>1. [session[s] EXCEPT !.looked[c] = time].of = session[s].of
    BY <1>1 DEF Scoring
  <2> QED
    BY <2>1 DEF Look
<1>3. CASE Cached(c, session[s].of[c])
  <2>1. [[session[s] EXCEPT !.looked[c] = time]
           EXCEPT !.phase[c] = "have", !.value[c] = score[c].value]
          = Moved(session[s], c, "have", score[c].value, time, session[s].wrote)
    BY ONLY <1>1 DEF Moved, Scoring
  <2>2. Step(s, [[session[s] EXCEPT !.looked[c] = time]
                   EXCEPT !.phase[c] = "have", !.value[c] = score[c].value])
    BY <1>2, <1>3
  <2>3. Step(s, Moved(session[s], c, "have", score[c].value, time, session[s].wrote))
    BY ONLY <2>1, <2>2
  <2> QED
    BY <1>3, <2>3
<1>4. CASE ~Cached(c, session[s].of[c])
  <2>1. [[session[s] EXCEPT !.looked[c] = time] EXCEPT !.phase[c] = "ask"]
          = Moved(session[s], c, "ask", session[s].value[c], time, session[s].wrote)
    BY ONLY <1>1, StepsAreMoves
  <2>2. Step(s, [[session[s] EXCEPT !.looked[c] = time] EXCEPT !.phase[c] = "ask"])
    BY <1>2, <1>4
  <2>3. Step(s, Moved(session[s], c, "ask", session[s].value[c], time, session[s].wrote))
    BY ONLY <2>1, <2>2
  <2> QED
    BY <1>4, <2>3
<1> QED
  BY <1>3, <1>4

LEMMA AnswerMoves ==
  ASSUME StateOK, NEW s \in Sessions, NEW c \in Candidates, NEW v, Answer(s, c, v)
  PROVE  LET r == session[s] IN Step(s, Moved(r, c, "write", v, r.looked[c], r.wrote))
<1>1. session[s] \in Scoring
  BY InPhaseMeans DEF Answer
<1> QED
  BY <1>1, StepsAreMoves DEF Answer

LEMMA UpsertMoves ==
  ASSUME StateOK, NEW s \in Sessions, NEW c \in Candidates, Upsert(s, c)
  PROVE  LET r == session[s] IN
         Step(s, Moved(r, c, "have", r.value[c], r.looked[c], r.wrote \cup {c}))
<1>1. session[s] \in Scoring
  BY InPhaseMeans DEF Upsert
<1> QED
  BY <1>1, StepsAreMoves DEF Upsert

LEMMA LookKeeps ==
  ASSUME StateOK, NEW s \in Sessions, NEW c \in Candidates, Look(s, c)
  PROVE  StateOK'
<1> DEFINE r == session[s]
           q == IF Cached(c, r.of[c]) THEN Moved(r, c, "have", score[c].value, time, r.wrote)
                ELSE Moved(r, c, "ask", r.value[c], time, r.wrote)
<1>1. /\ Kind(s) \in {"score", "compare"} /\ r \in Scoring /\ r.phase[c] = "look"
      /\ ScoringOK(r, time)
  BY InPhaseMeans DEF Look
<1>2. Step(s, q)
  BY LookMoves
<1>3. time \in Times /\ time \in Nat /\ score \in Rows
  BY BoundsTyped DEF StateOK, TypeOK
<1>4. r.value[c] \in Values \cup {None} /\ r.wrote \in SUBSET Candidates /\ c \notin r.wrote
      /\ "ask" \in Phases /\ "have" \in Phases
  BY <1>1 DEF Scoring, ScoringOK, Phases
<1>5. Cached(c, r.of[c]) => score[c].value \in Values
  BY <1>3, RowScored DEF Cached
<1>6. CASE Cached(c, r.of[c])
  <2>1. q = Moved(r, c, "have", score[c].value, time, r.wrote)
    BY <1>6
  <2> HIDE DEF q
  <2>2. /\ q \in Scoring /\ q.kind = r.kind /\ q.wrote = r.wrote
        /\ q.phase[c] = "have" /\ q.value[c] = score[c].value /\ q.looked[c] = time
        /\ \A d \in Candidates \ {c} : /\ q.phase[d] = r.phase[d] /\ q.value[d] = r.value[d]
                                       /\ q.looked[d] = r.looked[d]
    BY <1>1, <1>3, <1>4, <1>5, <1>6, <2>1, MovedTyped
  <2>3. /\ q \in Record \cup {None} /\ SessionOK(q, time, comps, score)
        /\ KindOf(q) \in Scorers => KindOf(session[s]) \in Scorers
    BY <1>1, <1>3, <1>4, <1>5, <1>6, <2>2, ScorerMoves
  <2> QED
    BY <1>2, <2>3, StepKeeps
<1>7. CASE ~Cached(c, r.of[c])
  <2>1. q = Moved(r, c, "ask", r.value[c], time, r.wrote)
    BY <1>7
  <2> HIDE DEF q
  <2>2. /\ q \in Scoring /\ q.kind = r.kind /\ q.wrote = r.wrote
        /\ q.phase[c] = "ask" /\ q.looked[c] = time
        /\ \A d \in Candidates \ {c} : /\ q.phase[d] = r.phase[d] /\ q.value[d] = r.value[d]
                                       /\ q.looked[d] = r.looked[d]
    BY <1>1, <1>3, <1>4, <2>1, MovedTyped
  <2>3. /\ q \in Record \cup {None} /\ SessionOK(q, time, comps, score)
        /\ KindOf(q) \in Scorers => KindOf(session[s]) \in Scorers
    BY <1>1, <1>3, <1>4, <2>2, ScorerMoves
  <2> QED
    BY <1>2, <2>3, StepKeeps
<1> QED
  BY <1>6, <1>7

LEMMA AnswerKeeps ==
  ASSUME StateOK, NEW s \in Sessions, NEW c \in Candidates, NEW v \in Values, Answer(s, c, v)
  PROVE  StateOK'
<1> DEFINE r == session[s]
           q == Moved(r, c, "write", v, r.looked[c], r.wrote)
<1>1. /\ Kind(s) \in {"score", "compare"} /\ r \in Scoring /\ r.phase[c] = "ask"
      /\ ScoringOK(r, time)
  BY InPhaseMeans DEF Answer
<1>2. Step(s, q)
  BY AnswerMoves
<1>3. /\ r.wrote \in SUBSET Candidates /\ c \notin r.wrote /\ "write" \in Phases
      /\ r.looked[c] \in Times /\ r.looked[c] <= time
  BY <1>1 DEF Scoring, ScoringOK, Phases
<1> HIDE DEF q
<1>4. /\ q \in Scoring /\ q.kind = r.kind /\ q.wrote = r.wrote
      /\ q.phase[c] = "write" /\ q.value[c] = v /\ q.looked[c] = r.looked[c]
      /\ \A d \in Candidates \ {c} : /\ q.phase[d] = r.phase[d] /\ q.value[d] = r.value[d]
                                     /\ q.looked[d] = r.looked[d]
  BY <1>1, <1>3, MovedTyped DEF q
<1>5. /\ q \in Record \cup {None} /\ SessionOK(q, time, comps, score)
      /\ KindOf(q) \in Scorers => KindOf(session[s]) \in Scorers
  BY <1>1, <1>3, <1>4, ScorerMoves
<1> QED
  BY <1>2, <1>5, StepKeeps

LEMMA UpsertKeeps ==
  ASSUME StateOK, NEW s \in Sessions, NEW c \in Candidates, Upsert(s, c)
  PROVE  StateOK'
<1> DEFINE r == session[s]
           q == Moved(r, c, "have", r.value[c], r.looked[c], r.wrote \cup {c})
<1>1. /\ Kind(s) \in {"score", "compare"} /\ r \in Scoring /\ r.phase[c] = "write"
      /\ ScoringOK(r, time)
  BY InPhaseMeans DEF Upsert
<1>2. Step(s, q)
  BY UpsertMoves
<1>3. /\ r.wrote \cup {c} \in SUBSET Candidates /\ "have" \in Phases /\ r.value[c] \in Values
      /\ r.looked[c] \in Times /\ r.looked[c] <= time
  BY <1>1 DEF Scoring, ScoringOK, Phases
<1> HIDE DEF q
<1>4. /\ q \in Scoring /\ q.kind = r.kind /\ q.wrote = r.wrote \cup {c}
      /\ q.phase[c] = "have" /\ q.value[c] = r.value[c] /\ q.looked[c] = r.looked[c]
      /\ \A d \in Candidates \ {c} : /\ q.phase[d] = r.phase[d] /\ q.value[d] = r.value[d]
                                     /\ q.looked[d] = r.looked[d]
  BY <1>1, <1>3, MovedTyped DEF q
<1>5. /\ q \in Record \cup {None} /\ SessionOK(q, time, comps, score)
      /\ KindOf(q) \in Scorers => KindOf(session[s]) \in Scorers
  BY <1>1, <1>3, <1>4, ScorerMoves
<1> QED
  BY <1>2, <1>5, StepKeeps

LEMMA DropKeeps ==
  ASSUME StateOK, NEW s \in Sessions, Step(s, None)
  PROVE  StateOK'
<1>1. SessionOK(None, time, comps, score) /\ KindOf(None) \notin Scorers
      /\ None \in Record \cup {None}
  BY NoneOK DEF Scorers
<1> QED
  BY <1>1, StepKeeps

LEMMA ScoreFailsKeeps ==
  ASSUME StateOK, NEW s \in Sessions, ScoreFails(s)
  PROVE  StateOK'
<1> DEFINE who == CHOOSE c \in Asked(s) : TRUE
           q == [kind |-> "retry", candidate |-> who, left |-> session[s].left - 1]
<1>1. session[s] \in Scoring /\ ScoringOK(session[s], time) /\ KindOf(session[s]) \in Scorers
  BY SessionTyped DEF ScoreFails
<1>2. who \in Candidates
  <2>1. Asked(s) \in SUBSET Candidates /\ Asked(s) # {}
    BY <1>1 DEF Asked, ScoringOK
  <2> QED
    BY <2>1
<1>3. CASE session[s].left = 0
  <2>1. Step(s, None)
    BY <1>3 DEF ScoreFails
  <2> QED
    BY <2>1, DropKeeps
<1>4. CASE session[s].left # 0
  <2>1. Step(s, q)
    BY <1>4 DEF ScoreFails
  <2>2. session[s].left - 1 \in 0..MaxRetries
    BY <1>1, <1>4, BoundsTyped DEF Scoring
  <2>3. q \in Retry /\ KindOf(q) \in {"none", "retry"}
    BY <1>2, <2>2 DEF Retry, KindOf
  <2>4. SessionOK(q, time, comps, score)
    BY <2>3 DEF SessionOK
  <2> HIDE DEF q
  <2> QED
    BY <1>1, <2>1, <2>3, <2>4, StepKeeps DEF Record
<1> QED
  BY <1>3, <1>4

LEMMA RetryScoreKeeps ==
  ASSUME StateOK, NEW s \in Sessions, RetryScore(s)
  PROVE  StateOK'
<1> DEFINE c == session[s].candidate
           q == Loaded("score", {c}, session[s].left)
<1>1. session[s] \in Retry /\ KindOf(session[s]) \in Scorers
  <2>1. KindOf(session[s]) = "retry" /\ session[s] \in Record \cup {None}
    BY SessionTyped DEF RetryScore
  <2> QED
    BY <2>1, KindsApart DEF Scorers
<1>2. c \in Candidates /\ session[s].left \in 0..MaxRetries
  BY <1>1 DEF Retry
<1>3. q \in Record /\ SessionOK(q, time, comps, score)
  BY <1>2, LoadedOK DEF Record
<1>4. Step(s, q) \/ Step(s, None)
  BY DEF RetryScore
<1> HIDE DEF q
<1> QED
  BY <1>1, <1>3, <1>4, DropKeeps, StepKeeps

LEMMA BeginUpdateKeeps ==
  ASSUME StateOK, NEW s \in Sessions, NEW text \in BOOLEAN,
         NEW tech \in Given, NEW soft \in Given, NEW legacy \in Given,
         BeginUpdate(s, text, tech, soft, legacy)
  PROVE  StateOK'
<1> DEFINE q == [kind |-> "update", job |-> job, text |-> text, tech |-> tech,
                 soft |-> soft, legacy |-> legacy]
<1>1. Start(s, "update", q)
  BY DEF BeginUpdate
<1>2. job \in Job
  BY DEF StateOK, TypeOK
<1>3. q \in Update /\ KindOf(q) \in {"none", "update"}
  BY <1>2 DEF Update, KindOf
<1>4. SessionOK(q, time, comps, score)
  BY <1>3 DEF SessionOK
<1> HIDE DEF q
<1> QED
  BY <1>1, <1>3, <1>4, StartKeeps DEF Record

LEMMA BeginAnalyzeKeeps ==
  ASSUME StateOK, NEW s \in Sessions, NEW i \in 1..MaxStarts, BeginAnalyze(s, i)
  PROVE  StateOK'
<1> DEFINE q == [kind |-> "analyze", comp |-> i]
<1>1. Start(s, "analyze", q)
  BY DEF BeginAnalyze
<1>2. q \in Analysis /\ KindOf(q) \in {"none", "analyze"} /\ q.comp = i
  BY DEF Analysis, KindOf
<1>3. q.comp \in DOMAIN comps /\ comps[q.comp].status = "completed"
  BY <1>2 DEF BeginAnalyze
<1> HIDE DEF q
<1>4. SessionOK(q, time, comps, score)
  BY <1>2, <1>3 DEF SessionOK
<1> QED
  BY <1>1, <1>2, <1>4, StartKeeps DEF Record

LEMMA BeginShortlistKeeps ==
  ASSUME StateOK, NEW s \in Sessions, NEW target \in Targets \cup {None},
         BeginShortlist(s, target)
  PROVE  StateOK'
<1> DEFINE q == [kind |-> "shortlist", rows |-> score, target |-> target, began |-> time]
<1>1. Start(s, "shortlist", q)
  BY DEF BeginShortlist
<1>2. score \in Rows /\ time \in Times /\ time \in Nat
  BY BoundsTyped DEF StateOK, TypeOK
<1>3. q \in Shortlist /\ KindOf(q) \in {"none", "shortlist"} /\ q.began = time /\ q.rows = score
  BY <1>2 DEF Shortlist, KindOf
<1> HIDE DEF q
<1>4. SessionOK(q, time, comps, score)
  BY <1>2, <1>3 DEF SessionOK
<1> QED
  BY <1>1, <1>3, <1>4, StartKeeps DEF Record

LEMMA BeginTiebreakKeeps ==
  ASSUME StateOK, NEW s \in Sessions, NEW target \in Targets, BeginTiebreak(s, target)
  PROVE  StateOK'
<1> DEFINE q == [kind |-> "tiebreak", rows |-> score, target |-> target,
                 among |-> InTier(score, target, "A") \cap live]
<1>1. Start(s, "tiebreak", q)
  BY DEF BeginTiebreak
<1>2. score \in Rows
  BY DEF StateOK, TypeOK
<1>3. q.among \subseteq Candidates /\ q.among \subseteq InTier(q.rows, q.target, "A")
  BY DEF InTier
<1>4. q \in Tiebreak /\ KindOf(q) \in {"none", "tiebreak"}
  BY <1>2, <1>3 DEF Tiebreak, KindOf
<1> HIDE DEF q
<1>5. SessionOK(q, time, comps, score)
  BY <1>3, <1>4 DEF SessionOK
<1> QED
  BY <1>1, <1>4, <1>5, StartKeeps DEF Record

(* The scores that are saved.                                              *)
LEMMA SavesTyped ==
  ASSUME StateOK, NEW s \in Sessions, Kind(s) \in {"score", "compare"}, Saves(s)
  PROVE  score' \in Rows /\ written' \subseteq Written /\ time' = time + 1
<1> DEFINE r == session[s]
<1>1. r \in Scoring /\ ScoringOK(r, time)
  BY SessionTyped
<1>2. /\ score' = [c \in Candidates |-> IF c \in r.wrote
                     THEN [value |-> r.value[c], input |-> r.of[c]] ELSE score[c]]
      /\ written' = written \cup
           {[candidate |-> c, value |-> r.value[c], input |-> r.of[c],
             looked |-> r.looked[c], committed |-> time + 1] : c \in r.wrote}
      /\ time' = time + 1
  BY DEF Saves
<1>3. /\ r.wrote \in SUBSET Candidates
      /\ \A c \in r.wrote : r.value[c] \in Values
      /\ \A c \in Candidates : r.of[c] \in Inputs /\ r.looked[c] \in Times
  BY <1>1 DEF Scoring, ScoringOK
<1>4. score \in Rows /\ written \subseteq Written
  BY DEF StateOK, TypeOK
<1>5. time + 1 \in Times
  <2>1. s \in Busy(session)
    BY SessionTyped DEF Busy, Scorers
  <2>2. IsFiniteSet(Busy(session)) /\ Cardinality(Busy(session)) \in Nat
    BY BusyCounted
  <2>3. Cardinality(Busy(session)) # 0
    BY <2>1, <2>2, FS_EmptySet
  <2>4. time \in Nat /\ starts \in 0..MaxStarts /\ MaxStarts \in Nat
    BY BoundsTyped DEF StateOK, TypeOK
  <2>5. time + Cardinality(Busy(session)) <= starts
    BY DEF StateOK, TimeBounded
  <2> QED
    BY <2>2, <2>3, <2>4, <2>5 DEF Times
<1> HIDE DEF r
<1>6. score' \in Rows
  <2>1. \A c \in r.wrote : [value |-> r.value[c], input |-> r.of[c]] \in Score
    BY <1>3 DEF Score
  <2>2. \A c \in Candidates : score[c] \in Score \cup {None}
    BY <1>4 DEF Rows
  <2> QED
    BY <1>2, <2>1, <2>2 DEF Rows
<1>7. \A c \in r.wrote :
        [candidate |-> c, value |-> r.value[c], input |-> r.of[c],
         looked |-> r.looked[c], committed |-> time + 1] \in Written
  BY <1>3, <1>5 DEF Written
<1> QED
  BY <1>2, <1>4, <1>6, <1>7

LEMMA Appended ==
  ASSUME NEW T, NEW cs \in Seq(T), NEW x \in T
  PROVE  /\ Append(cs, x) \in Seq(T)
         /\ DOMAIN Append(cs, x) = DOMAIN cs \cup {Len(cs) + 1}
         /\ Append(cs, x)[Len(cs) + 1] = x
         /\ \A i \in DOMAIN cs : i \in DOMAIN Append(cs, x) /\ Append(cs, x)[i] = cs[i]
<1>1. Len(cs) \in Nat /\ DOMAIN cs = 1..Len(cs)
  OBVIOUS
<1>2. Append(cs, x) \in Seq(T) /\ Len(Append(cs, x)) = Len(cs) + 1
      /\ \A i \in 1..Len(cs) : Append(cs, x)[i] = cs[i]
      /\ Append(cs, x)[Len(cs) + 1] = x
  OBVIOUS
<1>3. DOMAIN Append(cs, x) = 1..(Len(cs) + 1)
  BY <1>2
<1> QED
  BY <1>1, <1>2, <1>3

(* A set in some order.                                                    *)
LEMMA InOrder ==
  ASSUME NEW S, IsFiniteSet(S), NEW q \in SetToSeqs(S)
  PROVE  /\ q \in [1..Cardinality(S) -> S] /\ Cardinality(S) \in Nat
         /\ q \in Seq(S) /\ DOMAIN q = 1..Cardinality(S)
         /\ \A i, j \in DOMAIN q : q[i] = q[j] => i = j
<1>1. Cardinality(S) \in Nat
  BY FS_CardinalityType
<1>2. q \in [1..Cardinality(S) -> S]
      /\ \A i, j \in 1..Cardinality(S) : i # j => q[i] # q[j]
  BY DEF SetToSeqs
<1> QED
  BY <1>1, <1>2

LEMMA AskedCounted ==
  ASSUME NEW s
  PROVE  Asked(s) \in SUBSET Candidates /\ IsFiniteSet(Asked(s)) /\ Cardinality(Asked(s)) \in Nat
<1>1. Asked(s) \in SUBSET Candidates
  BY DEF Asked
<1> QED
  BY <1>1, CandidatesCounted

(* What a comparison's scores make of it.                                  *)
RankedResults(r, ranked) ==
  [i \in DOMAIN ranked |-> [candidate |-> ranked[i], value |-> r.value[ranked[i]],
                            input |-> r.of[ranked[i]]]]

Compared(who, r, ranked) ==
  [kind |-> "compare", status |-> "completed", asked |-> who,
   results |-> RankedResults(r, ranked),
   rows |-> None, target |-> None, slots |-> 0, verdict |-> None]

NotCompared(who) ==
  [kind |-> "compare", status |-> "failed", asked |-> who, results |-> <<>>,
   rows |-> None, target |-> None, slots |-> 0, verdict |-> None]

LEMMA CommitScoresDoes ==
  ASSUME NEW s \in Sessions, CommitScores(s)
  PROVE  /\ Kind(s) \in {"score", "compare"} /\ Saves(s) /\ End(s) /\ page' = page
         /\ \A c \in Asked(s) : session[s].phase[c] = "have"
         /\ \/ comps' = comps
            \/ \E ranked \in SetToSeqs(Asked(s)) :
                 /\ \A i, j \in DOMAIN ranked :
                      i < j => session[s].value[ranked[i]] >= session[s].value[ranked[j]]
                 /\ comps' = Append(comps, Compared(Asked(s), session[s], ranked))
  BY DEF CommitScores, Compared, RankedResults

LEMMA CompareFailsDoes ==
  ASSUME NEW s \in Sessions, CompareFails(s)
  PROVE  /\ Kind(s) \in {"score", "compare"} /\ Saves(s) /\ End(s) /\ page' = page
         /\ comps' = Append(comps, NotCompared(Asked(s)))
  BY DEF CompareFails, NotCompared

LEMMA ComparedTyped ==
  ASSUME NEW r \in Scoring, NEW S \in SUBSET Candidates, NEW ranked \in SetToSeqs(S)
  PROVE  /\ Compared(S, r, ranked) \in Comparison
         /\ NotCompared(S) \in Comparison
<1>1. ranked \in Seq(S) /\ DOMAIN ranked = 1..Cardinality(S) /\ Cardinality(S) \in Nat
      /\ ranked \in [1..Cardinality(S) -> S]
  BY CandidatesCounted, InOrder
<1>2. \A c \in S : r.value[c] \in Values \cup {None} /\ r.of[c] \in Inputs
  BY DEF Scoring
<1>3. \A i \in DOMAIN ranked :
        [candidate |-> ranked[i], value |-> r.value[ranked[i]], input |-> r.of[ranked[i]]]
          \in Result
  BY <1>1, <1>2 DEF Result
<1>4. RankedResults(r, ranked) \in Seq(Result)
  BY <1>1, <1>3 DEF RankedResults
<1>5. Compared(S, r, ranked) \in Comparison
  BY <1>4 DEF Compared, Comparison
<1>6. NotCompared(S) \in Comparison
  BY DEF NotCompared, Comparison
<1> QED
  BY <1>5, <1>6

LEMMA NotComparedTyped ==
  ASSUME NEW S \in SUBSET Candidates
  PROVE  NotCompared(S) \in Comparison
  BY DEF NotCompared, Comparison

LEMMA CommitScoresKeeps ==
  ASSUME StateOK, NEW s \in Sessions, CommitScores(s)
  PROVE  StateOK'
<1>1. /\ Kind(s) \in {"score", "compare"} /\ Saves(s) /\ End(s) /\ page' = page
  BY CommitScoresDoes
<1>2. score' \in Rows /\ written' \subseteq Written /\ time' = time + 1
  BY <1>1, SavesTyped
<1>3. session[s] \in Scoring /\ KindOf(session[s]) \in Scorers
  BY <1>1, SessionTyped
<1>4. page' \in Page \cup {None} /\ comps \in Seq(Comparison)
  BY <1>1 DEF StateOK, TypeOK
<1>5. /\ comps' \in Seq(Comparison)
      /\ \A i \in DOMAIN comps : i \in DOMAIN comps' /\ comps'[i].status = comps[i].status
  <2>1. CASE comps' = comps
    BY <1>4, <2>1
  <2>2. CASE comps' # comps
    <3>1. PICK ranked \in SetToSeqs(Asked(s)) :
            comps' = Append(comps, Compared(Asked(s), session[s], ranked))
      BY <2>2, CommitScoresDoes
    <3>2. Compared(Asked(s), session[s], ranked) \in Comparison
      BY <1>3, AskedCounted, ComparedTyped
    <3> QED
      BY <1>4, <3>1, <3>2, Appended
  <2> QED
    BY <2>1, <2>2
<1> QED
  BY <1>1, <1>2, <1>3, <1>4, <1>5, EndKeeps

LEMMA CompareFailsKeeps ==
  ASSUME StateOK, NEW s \in Sessions, CompareFails(s)
  PROVE  StateOK'
<1>1. /\ Kind(s) \in {"score", "compare"} /\ Saves(s) /\ End(s) /\ page' = page
      /\ comps' = Append(comps, NotCompared(Asked(s)))
  BY CompareFailsDoes
<1>2. score' \in Rows /\ written' \subseteq Written /\ time' = time + 1
  BY <1>1, SavesTyped
<1>3. KindOf(session[s]) \in Scorers
  BY <1>1, SessionTyped
<1>4. page' \in Page \cup {None} /\ comps \in Seq(Comparison)
  BY <1>1 DEF StateOK, TypeOK
<1>5. NotCompared(Asked(s)) \in Comparison
  BY AskedCounted, NotComparedTyped
<1>6. /\ comps' \in Seq(Comparison)
      /\ \A i \in DOMAIN comps : i \in DOMAIN comps' /\ comps'[i].status = comps[i].status
  BY <1>1, <1>4, <1>5, Appended
<1> QED
  BY <1>1, <1>2, <1>3, <1>4, <1>6, EndKeeps

(* A verdict is given: the rest of the comparison stays.                   *)
Judged(k, v) == [k EXCEPT !.verdict = v]

LEMMA JudgedTyped ==
  ASSUME NEW k \in Comparison, NEW v \in Decisions
  PROVE  LET q == Judged(k, v) IN
         /\ q \in Comparison /\ q.verdict = v
         /\ q.kind = k.kind /\ q.status = k.status /\ q.asked = k.asked
         /\ q.results = k.results /\ q.rows = k.rows /\ q.target = k.target
         /\ q.slots = k.slots
<1>1. PICK q : q = Judged(k, v)
  OBVIOUS
<1>2. /\ q \in Comparison /\ q.verdict = v
      /\ q.kind = k.kind /\ q.status = k.status /\ q.asked = k.asked
      /\ q.results = k.results /\ q.rows = k.rows /\ q.target = k.target
      /\ q.slots = k.slots
  BY <1>1 DEF Judged, Comparison
<1> QED
  BY <1>1, <1>2

LEMMA EndAnalyzeDoes ==
  ASSUME StateOK, NEW s \in Sessions, EndAnalyze(s)
  PROVE  LET m == session[s].comp
             v == Decision(TopScore(NamedScores(comps[m].results)))
         IN /\ m \in DOMAIN comps /\ comps[m].status = "completed" /\ v \in Decisions
            /\ comps' \in Seq(Comparison) /\ DOMAIN comps' = DOMAIN comps
            /\ \A i \in DOMAIN comps : comps[i] \in Comparison
            /\ comps'[m] = Judged(comps[m], v)
            /\ \A i \in DOMAIN comps : i # m => comps'[i] = comps[i]
            /\ End(s) /\ UNCHANGED <<score, written, page, time>>
<1> DEFINE m == session[s].comp
           v == Decision(TopScore(NamedScores(comps[m].results)))
<1>1. m \in DOMAIN comps /\ comps[m].status = "completed"
  BY SessionTyped DEF EndAnalyze, SessionOK
<1>2. v \in Decisions
  BY DEF Decision, Decisions
<1>3. comps \in Seq(Comparison)
  BY DEF StateOK, TypeOK
<1>4. comps' = [comps EXCEPT ![m] = Judged(comps[m], v)]
  BY DEF EndAnalyze, Judged
<1>5. End(s) /\ UNCHANGED <<score, written, page, time>>
  BY DEF EndAnalyze
<1> HIDE DEF m, v
<1>6. \A i \in DOMAIN comps : comps[i] \in Comparison
  BY <1>3
<1>7. Judged(comps[m], v) \in Comparison
  BY <1>1, <1>2, <1>6, JudgedTyped
<1>8. /\ comps' \in Seq(Comparison) /\ DOMAIN comps' = DOMAIN comps
      /\ comps'[m] = Judged(comps[m], v)
      /\ \A i \in DOMAIN comps : i # m => comps'[i] = comps[i]
  BY <1>1, <1>3, <1>4, <1>7
<1> QED
  BY <1>1, <1>2, <1>5, <1>6, <1>8 DEF m, v

LEMMA EndAnalyzeKeeps ==
  ASSUME StateOK, NEW s \in Sessions, EndAnalyze(s)
  PROVE  StateOK'
<1> DEFINE m == session[s].comp
           v == Decision(TopScore(NamedScores(comps[m].results)))
<1>1. /\ m \in DOMAIN comps /\ v \in Decisions
      /\ comps' \in Seq(Comparison) /\ DOMAIN comps' = DOMAIN comps
      /\ \A i \in DOMAIN comps : comps[i] \in Comparison
      /\ comps'[m] = Judged(comps[m], v)
      /\ \A i \in DOMAIN comps : i # m => comps'[i] = comps[i]
      /\ End(s) /\ UNCHANGED <<score, written, page, time>>
  BY EndAnalyzeDoes
<1> HIDE DEF m, v
<1>2. \A i \in DOMAIN comps : i \in DOMAIN comps' /\ comps'[i].status = comps[i].status
  <2>1. Judged(comps[m], v).status = comps[m].status
    BY <1>1, JudgedTyped
  <2> QED
    BY <1>1, <2>1
<1>3. score' \in Rows /\ written' \subseteq Written /\ page' \in Page \cup {None}
  BY <1>1 DEF StateOK, TypeOK
<1> QED
  BY <1>1, <1>2, <1>3, EndKeeps

LEMMA EndShortlistKeeps ==
  ASSUME StateOK, NEW s \in Sessions, EndShortlist(s)
  PROVE  StateOK'
<1> DEFINE r == session[s]
           shown == [c \in Candidates |-> IF r.rows[c] = None THEN None ELSE score[c]]
<1>1. r \in Shortlist
  <2>1. KindOf(r) = "shortlist" /\ r \in Record \cup {None}
    BY SessionTyped DEF EndShortlist
  <2> QED
    BY <2>1, KindsApart
<1>2. /\ page' = [tier |-> AssignTiers(r.rows, r.target), shown |-> shown,
                  target |-> r.target, began |-> r.began, ended |-> time]
      /\ End(s) /\ UNCHANGED <<score, written, comps, time>>
  BY DEF EndShortlist
<1>3. score \in Rows /\ written \subseteq Written /\ time \in Times /\ comps \in Seq(Comparison)
  BY DEF StateOK, TypeOK
<1>4. r.rows \in Rows /\ r.target \in Targets \cup {None} /\ r.began \in Times
  BY <1>1 DEF Shortlist
<1>5. shown \in Rows
  BY <1>3 DEF Rows
<1>6. AssignTiers(r.rows, r.target) \in [Candidates -> Tiers \cup {None}]
  BY <1>4, TiersTyped
<1> HIDE DEF shown, r
<1>7. page' \in Page
  BY <1>2, <1>3, <1>4, <1>5, <1>6 DEF Page
<1> QED
  BY <1>2, <1>3, <1>7, EndKeeps

LEMMA SlotsTyped ==
  ASSUME NEW rows \in Rows, NEW target \in Targets
  PROVE  LET S == InTier(rows, target, "S") IN
         /\ Slots(rows, target) \in Nat /\ Cardinality(S) \in Nat
         /\ Slots(rows, target) + Cardinality(S) = target /\ target \in Nat
         /\ IsFiniteSet(S)
<1> DEFINE S == InTier(rows, target, "S")
<1>1. S = {c \in Candidates : AssignTiers(rows, target)[c] = "S"}
  BY DEF InTier
<1>2. Cardinality({c \in Candidates : AssignTiers(rows, target)[c] = "S"}) <= target
  BY TiersSeated DEF Seated
<1>3. IsFiniteSet(S) /\ Cardinality(S) \in Nat
  <2>1. S \in SUBSET Candidates
    BY <1>1
  <2> QED
    BY <2>1, CandidatesCounted
<1>4. target \in Nat
  BY TargetTyped
<1>5. Slots(rows, target) = target - Cardinality(S)
  BY DEF Slots
<1> HIDE DEF S
<1>6. Cardinality(S) <= target
  BY <1>1, <1>2
<1> QED
  BY <1>3, <1>4, <1>5, <1>6 DEF S

LEMMA TiebreakTyped ==
  ASSUME StateOK, NEW s \in Sessions, Kind(s) = "tiebreak"
  PROVE  LET r == session[s] IN
         /\ r \in Tiebreak /\ r.rows \in Rows /\ r.target \in Targets
         /\ r.among \in SUBSET Candidates
         /\ r.among \subseteq InTier(r.rows, r.target, "A")
<1>1. KindOf(session[s]) = "tiebreak" /\ session[s] \in Record \cup {None}
      /\ SessionOK(session[s], time, comps, score)
  BY SessionTyped
<1>2. session[s] \in Tiebreak
  BY <1>1, KindsApart
<1>3. session[s].among \subseteq InTier(session[s].rows, session[s].target, "A")
  BY <1>1 DEF SessionOK
<1> QED
  BY <1>2, <1>3 DEF Tiebreak

(* What a tiebreaker saves.                                                *)
Broken(r, status, results) ==
  [kind |-> "tiebreak", status |-> status, asked |-> r.among,
   results |-> results, rows |-> r.rows, target |-> r.target,
   slots |-> Slots(r.rows, r.target),
   verdict |-> IF status = "completed" THEN "slots" ELSE None]

LEMMA BrokenTyped ==
  ASSUME NEW r \in Tiebreak, NEW status \in {"completed", "failed"}, NEW results \in Seq(Result)
  PROVE  Broken(r, status, results) \in Comparison
<1>1. r.rows \in Rows /\ r.target \in Targets /\ r.among \in SUBSET Candidates
  BY DEF Tiebreak
<1>2. Slots(r.rows, r.target) \in Nat
  BY <1>1, SlotsTyped
<1> QED
  BY <1>1, <1>2 DEF Broken, Comparison

(* The results of a tiebreaker are borderline candidates.                  *)
LEMMA EndTiebreakDoes ==
  ASSUME StateOK, NEW s \in Sessions,
         NEW listed \in SeqOf({NameOf[c] : c \in Candidates} \cup {Stranger}, MaxListed),
         EndTiebreak(s, listed)
  PROVE  /\ Kind(s) = "tiebreak" /\ End(s) /\ UNCHANGED <<score, written, page, time>>
         /\ \E results \in Seq(Result) :
              /\ \A i \in DOMAIN results : results[i].candidate \in session[s].among
              /\ comps' = Append(comps, Broken(session[s], "completed", results))
<1> DEFINE r == session[s]
           heard == {i \in DOMAIN listed : Meant(r, listed[i]) # {}}
           names == {NameOf[c] : c \in r.among}
<1>1. Kind(s) = "tiebreak" /\ End(s) /\ UNCHANGED <<score, written, page, time>>
  BY DEF EndTiebreak
<1>2. r.among \in SUBSET Candidates
  BY <1>1, TiebreakTyped
<1>3. PICK known \in SetToSeqs(heard), who \in [names -> r.among] :
        comps' = Tiebroken(r, "completed", [i \in DOMAIN known |->
          [candidate |-> who[listed[known[i]]], value |-> None, input |-> None]])
  BY DEF EndTiebreak
<1>4. PICK m \in 0..MaxListed : listed \in [1..m -> {NameOf[c] : c \in Candidates} \cup {Stranger}]
  BY DEF SeqOf
<1>5. IsFiniteSet(heard)
  <2>1. heard \in SUBSET (1..m)
    BY <1>4
  <2>2. IsFiniteSet(1..m)
    BY BoundsTyped, ScoringConstants, FS_Interval
  <2> QED
    BY <2>1, <2>2, FS_Subset
<1>6. \A i \in heard : listed[i] \in names
  BY DEF Meant
<1> DEFINE results == [i \in DOMAIN known |->
             [candidate |-> who[listed[known[i]]], value |-> None, input |-> None]]
<1> HIDE DEF heard, r
<1>7. known \in [1..Cardinality(heard) -> heard] /\ Cardinality(heard) \in Nat
      /\ DOMAIN known = 1..Cardinality(heard)
  BY <1>3, <1>5, InOrder
<1>8. \A i \in DOMAIN known : who[listed[known[i]]] \in r.among
  <2> HIDE DEF names
  <2> QED
    BY <1>3, <1>6, <1>7
<1>9. /\ results \in Seq(Result)
      /\ \A i \in DOMAIN results : results[i].candidate \in r.among
  <2>1. \A i \in DOMAIN known :
          [candidate |-> who[listed[known[i]]], value |-> None, input |-> None] \in Result
    BY <1>2, <1>8 DEF Result
  <2>2. PICK n \in Nat : n = Cardinality(heard)
    BY <1>7
  <2>3. \A i \in DOMAIN known : results[i] \in Result /\ results[i].candidate \in r.among
    BY <1>8, <2>1
  <2>4. DOMAIN results = 1..n
    BY <1>7, <2>2
  <2>5. results \in [1..n -> Result]
    BY <1>7, <2>1, <2>2
  <2> HIDE DEF results
  <2> QED
    BY <1>7, <2>2, <2>3, <2>4, <2>5
<1>10. comps' = Append(comps, Broken(r, "completed", results))
  BY <1>3 DEF Tiebroken, Broken
<1> HIDE DEF results
<1> QED
  BY <1>1, <1>9, <1>10 DEF r

LEMMA EndTiebreakKeeps ==
  ASSUME StateOK, NEW s \in Sessions,
         NEW listed \in SeqOf({NameOf[c] : c \in Candidates} \cup {Stranger}, MaxListed),
         EndTiebreak(s, listed)
  PROVE  StateOK'
<1>1. Kind(s) = "tiebreak" /\ End(s) /\ UNCHANGED <<score, written, page, time>>
  BY EndTiebreakDoes
<1>2. PICK results \in Seq(Result) :
        comps' = Append(comps, Broken(session[s], "completed", results))
  BY EndTiebreakDoes
<1>3. Broken(session[s], "completed", results) \in Comparison
  BY <1>1, TiebreakTyped, BrokenTyped
<1>4. comps \in Seq(Comparison) /\ score' \in Rows /\ written' \subseteq Written
      /\ page' \in Page \cup {None}
  BY <1>1 DEF StateOK, TypeOK
<1>5. /\ comps' \in Seq(Comparison)
      /\ \A i \in DOMAIN comps : i \in DOMAIN comps' /\ comps'[i].status = comps[i].status
  BY <1>2, <1>3, <1>4, Appended
<1> QED
  BY <1>1, <1>4, <1>5, EndKeeps

LEMMA TiebreakFailsDoes ==
  ASSUME NEW s \in Sessions, TiebreakFails(s)
  PROVE  /\ Kind(s) = "tiebreak" /\ End(s) /\ UNCHANGED <<score, written, page, time>>
         /\ comps' = Append(comps, Broken(session[s], "failed", <<>>))
  BY DEF TiebreakFails, Tiebroken, Broken

LEMMA TiebreakFailsKeeps ==
  ASSUME StateOK, NEW s \in Sessions, TiebreakFails(s)
  PROVE  StateOK'
<1>1. /\ Kind(s) = "tiebreak" /\ End(s) /\ UNCHANGED <<score, written, page, time>>
      /\ comps' = Append(comps, Broken(session[s], "failed", <<>>))
  BY TiebreakFailsDoes
<1>2. <<>> \in Seq(Result)
  OBVIOUS
<1>3. Broken(session[s], "failed", <<>>) \in Comparison
  BY <1>1, <1>2, TiebreakTyped, BrokenTyped
<1>4. comps \in Seq(Comparison) /\ score' \in Rows /\ written' \subseteq Written
      /\ page' \in Page \cup {None}
  BY <1>1 DEF StateOK, TypeOK
<1>5. /\ comps' \in Seq(Comparison)
      /\ \A i \in DOMAIN comps : i \in DOMAIN comps' /\ comps'[i].status = comps[i].status
  BY <1>1, <1>3, <1>4, Appended
<1> QED
  BY <1>1, <1>4, <1>5, EndKeeps

LEMMA InitialJob ==
  ASSUME Init
  PROVE  job \in Job
<1>1. scenario \in Scenario
  BY ScoringConstants DEF Init
<1>2. scenario.lists \in SUBSET SUBSET Skills
  BY <1>1 DEF Scenario
<1>3. PICK tech \in scenario.lists, soft \in scenario.lists, legacy \in scenario.lists,
           t \in scenario.lists, f \in scenario.lists :
        job = Created(tech, soft, legacy, [tech |-> t, soft |-> f])
  BY DEF Init
<1>4. /\ tech \in SUBSET Skills /\ soft \in SUBSET Skills /\ legacy \in SUBSET Skills
      /\ t \in SUBSET Skills /\ f \in SUBSET Skills
  BY <1>2
<1>5. PICK x, y : /\ x \in SUBSET Skills /\ y \in SUBSET Skills
                  /\ job = [text |-> 0, tech |-> x, soft |-> y, required |-> Merged(x, y, legacy)]
  BY <1>3, <1>4 DEF Created
<1>6. Merged(x, y, legacy) \in SUBSET Skills
  BY <1>4, <1>5 DEF Merged
<1> QED
  BY <1>5, <1>6, BoundsTyped DEF Job

LEMMA InitialInput ==
  ASSUME Init, NEW c \in Candidates
  PROVE  Input(c) \in Inputs
<1>1. edit[c] \in Edits /\ job \in Job
  BY InitialJob, BoundsTyped DEF Init
<1> QED
  BY <1>1 DEF Input, Inputs

LEMMA InitialState ==
  ASSUME Init
  PROVE  StateOK
<1>1. scenario \in Scenarios /\ scenario \in Scenario
  BY ScoringConstants DEF Init
<1>2. /\ scenario.live \in SUBSET Candidates /\ scenario.starts \in 0..MaxStarts
      /\ scenario.scores \in [Candidates -> Values \cup {None}]
  BY <1>1 DEF Scenario
<1>3. /\ edit = [c \in Candidates |-> 0] /\ live = scenario.live /\ open = TRUE /\ raced = FALSE
      /\ comps = <<>> /\ page = None /\ session = [s \in Sessions |-> None]
      /\ time = 0 /\ starts = 0 /\ edits = 0
  BY DEF Init
<1>4. score \in Rows
  <2>1. score = [c \in Candidates |-> IF scenario.scores[c] = None THEN None
                   ELSE [value |-> scenario.scores[c], input |-> Input(c)]]
    BY DEF Init
  <2>2. \A c \in Candidates : scenario.scores[c] # None =>
          [value |-> scenario.scores[c], input |-> Input(c)] \in Score
    BY <1>2, InitialInput DEF Score
  <2> QED
    BY <2>1, <2>2 DEF Rows
<1>5. written \subseteq Written
  <2>1. written = {[candidate |-> c, value |-> scenario.scores[c], input |-> Input(c),
                    looked |-> 0, committed |-> 0] :
                     c \in {c \in Candidates : scenario.scores[c] # None}}
    BY DEF Init
  <2>2. \A c \in Candidates : scenario.scores[c] # None =>
          [candidate |-> c, value |-> scenario.scores[c], input |-> Input(c),
           looked |-> 0, committed |-> 0] \in Written
    BY <1>2, InitialInput, BoundsTyped DEF Written
  <2> QED
    BY <2>1, <2>2
<1>6. comps \in Seq(Comparison)
  BY <1>3
<1>7. starts \in 0..MaxStarts
  BY <1>3, BoundsTyped
<1>8. \A s \in Sessions : session[s] = None
  BY <1>3
<1>9. TypeOK
  BY <1>1, <1>2, <1>3, <1>4, <1>5, <1>6, <1>7, <1>8, InitialJob, BoundsTyped DEF TypeOK
<1>10. session \in [Sessions -> Record \cup {None}]
  BY <1>3
<1>11. SessionsOK
  BY <1>8, NoneOK DEF SessionsOK
<1>12. TimeBounded
  <2>1. Busy(session) = {}
    BY <1>8, NoneOK DEF Busy
  <2>2. Cardinality(Busy(session)) = 0
    BY <2>1, FS_EmptySet
  <2>3. 0 <= scenario.starts
    BY <1>2, BoundsTyped
  <2> QED
    BY <1>3, <2>2, <2>3 DEF TimeBounded
<1> QED
  BY <1>9, <1>10, <1>11, <1>12 DEF StateOK

LEMMA StateKept ==
  ASSUME StateOK, [Next]_vars
  PROVE  StateOK'
<1>1. ASSUME NEW s \in Sessions, Jobs(s)
      PROVE  StateOK'
  <2>1. ASSUME NEW text \in BOOLEAN, NEW tech \in Given, NEW soft \in Given,
               NEW legacy \in Given, BeginUpdate(s, text, tech, soft, legacy)
        PROVE  StateOK'
    BY <2>1, BeginUpdateKeeps
  <2>2. ASSUME NEW reordered, CommitUpdate(s, reordered)
        PROVE  StateOK'
    BY <2>2, CommitUpdateKeeps
  <2> QED
    BY <1>1, <2>1, <2>2 DEF Jobs
<1>2. ASSUME NEW s \in Sessions, Scores(s)
      PROVE  StateOK'
  <2>1. ASSUME NEW c \in Candidates, StartScore(s, c) \/ Look(s, c) \/ Upsert(s, c)
        PROVE  StateOK'
    BY <2>1, StartScoreKeeps, LookKeeps, UpsertKeeps
  <2>2. ASSUME NEW c \in Candidates, NEW v \in scenario.values, Answer(s, c, v)
        PROVE  StateOK'
    <3>1. scenario \in Scenario
      BY ScoringConstants DEF StateOK, TypeOK
    <3>2. v \in Values
      BY <3>1 DEF Scenario
    <3> QED
      BY <2>2, <3>2, AnswerKeeps
  <2>3. ASSUME NEW cs \in SUBSET Candidates, StartCompare(s, cs)
        PROVE  StateOK'
    BY <2>3, StartCompareKeeps
  <2>4. CASE CommitScores(s)
    BY <2>4, CommitScoresKeeps
  <2>5. CASE CompareFails(s)
    BY <2>5, CompareFailsKeeps
  <2>6. CASE ScoreFails(s)
    BY <2>6, ScoreFailsKeeps
  <2>7. CASE RetryScore(s)
    BY <2>7, RetryScoreKeeps
  <2>8. CASE Abort(s)
    BY <2>8, DropKeeps DEF Abort
  <2>9. ASSUME NEW t \in Sessions, Deadlock(s, t)
        PROVE  StateOK'
    BY <2>9, DropKeeps DEF Deadlock
  <2> QED
    BY <1>2, <2>1, <2>2, <2>3, <2>4, <2>5, <2>6, <2>7, <2>8, <2>9 DEF Scores
<1>3. ASSUME NEW s \in Sessions, Reads(s)
      PROVE  StateOK'
  <2>1. ASSUME NEW i \in 1..MaxStarts, BeginAnalyze(s, i)
        PROVE  StateOK'
    BY <2>1, BeginAnalyzeKeeps
  <2>2. CASE EndAnalyze(s)
    BY <2>2, EndAnalyzeKeeps
  <2>3. ASSUME NEW target \in Targets \cup {None}, BeginShortlist(s, target)
        PROVE  StateOK'
    BY <2>3, BeginShortlistKeeps
  <2>4. CASE EndShortlist(s)
    BY <2>4, EndShortlistKeeps
  <2>5. ASSUME NEW target \in Targets, BeginTiebreak(s, target)
        PROVE  StateOK'
    BY <2>5, BeginTiebreakKeeps
  <2>6. ASSUME NEW listed \in SeqOf({NameOf[c] : c \in Candidates} \cup {Stranger}, MaxListed),
               EndTiebreak(s, listed)
        PROVE  StateOK'
    BY <2>6, EndTiebreakKeeps
  <2>7. CASE TiebreakFails(s)
    BY <2>7, TiebreakFailsKeeps
  <2> QED
    BY <1>3, <2>1, <2>2, <2>3, <2>4, <2>5, <2>6, <2>7 DEF Reads
<1>4. ASSUME NEW c \in Candidates, EditCandidate(c) \/ DeleteCandidate(c)
      PROVE  StateOK'
  BY <1>4, EditCandidateKeeps, DeleteCandidateKeeps
<1>5. CASE DeleteJob
  BY <1>5, DeleteJobKeeps
<1>6. CASE UNCHANGED vars
  <2>1. UNCHANGED <<scenario, edit, live, job, open, raced, edits, score, written, comps, page,
                    time, session, starts>>
    BY <1>6 DEF vars, held, kept
  <2>2. TypeOK' /\ SessionsOK' /\ TimeBounded'
    BY <2>1 DEF StateOK, TypeOK, SessionsOK, TimeBounded
  <2> QED
    BY <2>1, <2>2 DEF StateOK
<1> QED
  BY <1>1, <1>2, <1>3, <1>4, <1>5, <1>6 DEF Next

LEMMA StateInvariant == Spec => []StateOK
<1>1. Init => StateOK
  BY InitialState
<1>2. StateOK /\ [Next]_vars => StateOK'
  BY StateKept
<1> QED
  BY <1>1, <1>2, PTL DEF Spec

(* Scores, comparisons, shortlists and sessions have their types: what a   *)
(* scoring is about to write has a value, a verdict is of a comparison     *)
(* there is, the A tier leaves a tiebreaker seats that are not negative,   *)
(* and scores are committed no more often than scorings were started.      *)
THEOREM ScoringTypes == Spec => []TypeOK
<1>1. StateOK => TypeOK
  BY DEF StateOK
<1> QED
  BY <1>1, StateInvariant, PTL
-----------------------------------------------------------------------------
(* The skills stay in sync *)

(* Only an update's commit changes the job.                                *)
LEMMA WhoChangesTheJob ==
  ASSUME Next, ~UNCHANGED <<job, raced>>
  PROVE  \E s \in Sessions, reordered \in SUBSET {"tech", "soft", "required"} :
           CommitUpdate(s, reordered)
<1>1. ASSUME NEW s, NEW r, NEW op, Step(s, r) \/ Start(s, op, r) \/ End(s)
      PROVE  FALSE
  BY <1>1 DEF Step, Start, End, held
<1>2. ASSUME NEW s \in Sessions, Jobs(s)
      PROVE  \E reordered \in SUBSET {"tech", "soft", "required"} : CommitUpdate(s, reordered)
  <2>1. \A text \in BOOLEAN, tech, soft, legacy \in Given :
          ~BeginUpdate(s, text, tech, soft, legacy)
    BY <1>1 DEF BeginUpdate
  <2> QED
    BY <1>2, <2>1 DEF Jobs
<1>3. ASSUME NEW s \in Sessions, Scores(s)
      PROVE  FALSE
  <2>1. \A c : ~StartScore(s, c) /\ ~Look(s, c) /\ ~Upsert(s, c)
    BY <1>1 DEF StartScore, Look, Upsert
  <2>2. \A c, v : ~Answer(s, c, v)
    BY <1>1 DEF Answer
  <2>3. \A cs : ~StartCompare(s, cs)
    BY <1>1 DEF StartCompare
  <2>4. ~CommitScores(s) /\ ~CompareFails(s)
    BY <1>1 DEF CommitScores, CompareFails
  <2>5. ~ScoreFails(s) /\ ~RetryScore(s) /\ ~Abort(s)
    BY <1>1 DEF ScoreFails, RetryScore, Abort
  <2>6. \A t : ~Deadlock(s, t)
    BY <1>1 DEF Deadlock
  <2> QED
    BY <1>3, <2>1, <2>2, <2>3, <2>4, <2>5, <2>6 DEF Scores
<1>4. ASSUME NEW s \in Sessions, Reads(s)
      PROVE  FALSE
  <2>1. \A i : ~BeginAnalyze(s, i)
    BY <1>1 DEF BeginAnalyze
  <2>2. \A target : ~BeginShortlist(s, target)
    BY <1>1 DEF BeginShortlist
  <2>3. \A target : ~BeginTiebreak(s, target)
    BY <1>1 DEF BeginTiebreak
  <2>4. \A listed : ~EndTiebreak(s, listed)
    BY <1>1 DEF EndTiebreak
  <2>5. ~EndAnalyze(s) /\ ~EndShortlist(s) /\ ~TiebreakFails(s)
    BY <1>1 DEF EndAnalyze, EndShortlist, TiebreakFails
  <2> QED
    BY <1>4, <2>1, <2>2, <2>3, <2>4, <2>5 DEF Reads
<1>5. \A c : ~EditCandidate(c) /\ ~DeleteCandidate(c)
  BY DEF EditCandidate, DeleteCandidate
<1>6. ~DeleteJob
  BY DEF DeleteJob
<1> QED
  BY <1>2, <1>3, <1>4, <1>5, <1>6 DEF Next

LEMMA UpdateInSync ==
  ASSUME StateOK, SkillsInSync, NEW s \in Sessions, NEW reordered, CommitUpdate(s, reordered)
  PROVE  SkillsInSync'
<1> DEFINE r == session[s]
           tech == IF r.tech = None THEN r.job.tech ELSE r.tech
           soft == IF r.soft = None THEN r.job.soft ELSE r.soft
           legacy == IF r.legacy = None THEN r.job.required ELSE r.legacy
           touched == \E given \in {r.tech, r.soft, r.legacy} : given # None
           required == IF touched THEN Merged(tech, soft, legacy) ELSE r.job.required
<1>1. SUFFICES ASSUME ~raced'
               PROVE  job'.tech \cup job'.soft \subseteq job'.required
  BY DEF SkillsInSync
<1>2. raced' = (raced \/ r.job # job)
  BY DEF CommitUpdate
<1>3. ~raced /\ r.job = job /\ job.tech \cup job.soft \subseteq job.required
  BY <1>1, <1>2 DEF SkillsInSync
<1>4. job' = [text |-> IF r.text THEN edits + 1 ELSE job.text,
              tech |-> IF tech # r.job.tech \/ "tech" \in reordered
                         THEN tech ELSE job.tech,
              soft |-> IF soft # r.job.soft \/ "soft" \in reordered
                         THEN soft ELSE job.soft,
              required |-> IF required # r.job.required \/ "required" \in reordered
                             THEN required ELSE job.required]
  BY DEF CommitUpdate
<1>5. tech \cup soft \subseteq required
  <2>1. CASE touched
    <3>1. required = tech \cup soft \cup legacy
      BY <2>1 DEF Merged
    <3> HIDE DEF required, tech, soft, legacy
    <3> QED
      BY <3>1
  <2>2. CASE ~touched
    BY <1>3, <2>2
  <2> QED
    BY <2>1, <2>2
<1> HIDE DEF tech, soft, legacy, required, r, touched
<1>6. job'.tech = tech /\ job'.soft = soft /\ job'.required = required
  BY <1>3, <1>4
<1> QED
  BY <1>5, <1>6

LEMMA InitiallyInSync ==
  ASSUME Init
  PROVE  SkillsInSync
<1>1. \E x, y, z : /\ job.tech = x /\ job.soft = y /\ job.required = Merged(x, y, z)
  BY DEF Init, Created
<1> QED
  BY <1>1 DEF SkillsInSync, Merged

(* The technical and soft skills of a job are among its required ones,     *)
(* whatever lists it is created and updated with, unless an update was     *)
(* overtaken by another one between its load and its commit                *)
(* (jobs/router.py, create_job and update_job).                            *)
THEOREM SkillsStayInSync == Spec => []SkillsInSync
<1>1. Init => SkillsInSync
  BY InitiallyInSync
<1>2. StateOK /\ SkillsInSync /\ [Next]_vars => SkillsInSync'
  <2>1. SUFFICES ASSUME StateOK, SkillsInSync, [Next]_vars
                 PROVE  SkillsInSync'
    OBVIOUS
  <2>2. CASE UNCHANGED <<job, raced>>
    BY <2>1, <2>2 DEF SkillsInSync
  <2>3. CASE ~UNCHANGED <<job, raced>>
    <3>1. Next
      BY <2>1, <2>3 DEF vars, held
    <3>2. PICK s \in Sessions, reordered \in SUBSET {"tech", "soft", "required"} :
            CommitUpdate(s, reordered)
      BY <2>3, <3>1, WhoChangesTheJob
    <3> QED
      BY <2>1, <3>2, UpdateInSync
  <2> QED
    BY <2>2, <2>3
<1> QED
  BY <1>1, <1>2, StateInvariant, PTL DEF Spec
-----------------------------------------------------------------------------
(* What was committed, and what was looked up *)

LEMMA WrittenTyped ==
  ASSUME StateOK, NEW w \in written
  PROVE  /\ w \in Written /\ w.candidate \in Candidates /\ w.value \in Values
         /\ w.input \in Inputs /\ w.looked \in Nat /\ w.committed \in Nat
<1>1. w \in Written
  BY DEF StateOK, TypeOK
<1> QED
  BY <1>1, BoundsTyped DEF Written

LEMMA TimeTyped ==
  ASSUME StateOK
  PROVE  time \in Times /\ time \in Nat
  BY BoundsTyped DEF StateOK, TypeOK

(* A session that moves without committing has only to have looked up what *)
(* it asks about.                                                          *)
LEMMA MoveKeepsHistory ==
  ASSUME StateOK, HistoryOK, NEW s \in Sessions, NEW q, Goto(s, q),
         UNCHANGED <<score, written, time>>, LookedUp(q, written)
  PROVE  HistoryOK'
<1>1. session' = [session EXCEPT ![s] = q] /\ session \in [Sessions -> Record \cup {None}]
  BY DEF Goto, StateOK
<1>2. \A t \in Sessions : session'[t] = IF t = s THEN q ELSE session[t]
  BY <1>1
<1>3. \A t \in Sessions : LookedUp(session'[t], written)
  BY <1>2 DEF HistoryOK
<1>4. CommittedInTurn'
  BY DEF HistoryOK, CommittedInTurn
<1>5. RowsAreLast'
  BY DEF HistoryOK, RowsAreLast
<1>6. \A t \in Sessions : LookedUp(session'[t], written')
  BY <1>3
<1> QED
  BY <1>4, <1>5, <1>6 DEF HistoryOK

LEMMA IdleLookedUp ==
  ASSUME NEW q, KindOf(q) \notin {"score", "compare"}
  PROVE  LookedUp(q, written)
  BY DEF LookedUp

LEMMA LoadedLookedUp ==
  ASSUME NEW kind, NEW cs, NEW left
  PROVE  LookedUp(Loaded(kind, cs, left), written)
<1> DEFINE q == Loaded(kind, cs, left)
<1>1. /\ q.wrote = {}
      /\ \A c \in Candidates : q.phase[c] \in {"look", "absent"}
  BY DEF Loaded
<1> HIDE DEF q
<1>2. LookedUp(q, written)
  BY <1>1 DEF LookedUp
<1> QED
  BY <1>2 DEF q

(* A scoring that has moved on with its candidate c has looked up what it  *)
(* did, if it has for c.                                                   *)
LEMMA MovedLookedUp ==
  ASSUME StateOK, HistoryOK, NEW s \in Sessions, Kind(s) \in {"score", "compare"},
         NEW c \in Candidates, NEW phase \in Phases, NEW v \in Values \cup {None},
         NEW t \in Times, NEW wrote \in SUBSET Candidates,
         session[s].wrote \subseteq wrote, wrote \subseteq session[s].wrote \cup {c},
         phase \in {"ask", "write"} \/ c \in wrote => Replaced(c, session[s].of[c], t, written),
         phase = "have" /\ c \notin wrote => OnRecord(c, v, session[s].of[c], written)
  PROVE  LookedUp(Moved(session[s], c, phase, v, t, wrote), written)
<1> DEFINE r == session[s]
           q == Moved(r, c, phase, v, t, wrote)
<1>1. r \in Scoring /\ KindOf(r) \in {"score", "compare"}
  BY SessionTyped
<1>2. /\ q.of = r.of /\ q.wrote = wrote
      /\ q.phase[c] = phase /\ q.value[c] = v /\ q.looked[c] = t
      /\ \A d \in Candidates \ {c} : /\ q.phase[d] = r.phase[d]
                                     /\ q.value[d] = r.value[d]
                                     /\ q.looked[d] = r.looked[d]
  BY <1>1, MovedTyped
<1>3. LookedUp(r, written)
  BY DEF HistoryOK
<1> HIDE DEF q
<1>4. ASSUME NEW d \in Candidates
      PROVE  /\ q.phase[d] \in {"ask", "write"} \/ d \in q.wrote
                  => Replaced(d, q.of[d], q.looked[d], written)
             /\ q.phase[d] = "have" /\ d \notin q.wrote
                  => OnRecord(d, q.value[d], q.of[d], written)
  <2>1. CASE d = c
    BY <1>2, <2>1
  <2>2. CASE d # c
    <3>1. d \in q.wrote <=> d \in r.wrote
      BY <1>2, <2>2
    <3> QED
      BY <1>1, <1>2, <1>3, <2>2, <3>1 DEF LookedUp
  <2> QED
    BY <2>1, <2>2
<1>5. LookedUp(q, written)
  BY <1>4 DEF LookedUp
<1> QED
  BY <1>5 DEF q

(* A lookup that does not find the input's score comes after another's.    *)
LEMMA NotCachedReplaced ==
  ASSUME StateOK, HistoryOK, NEW c \in Candidates, NEW i, ~Cached(c, i)
  PROVE  Replaced(c, i, time, written)
<1>1. SUFFICES ASSUME NEW v \in written, v.candidate = c, v.input = i
               PROVE  \E u \in written : /\ u.candidate = c /\ u.input # i
                                         /\ v.committed < u.committed /\ u.committed <= time
  BY DEF Replaced
<1>2. score[c] # None
  BY <1>1 DEF HistoryOK, RowsAreLast
<1>3. score[c].input # i
  BY <1>2 DEF Cached
<1>4. PICK u \in written : Latest(c, written, u) /\ u.input = score[c].input
  BY <1>2 DEF HistoryOK, RowsAreLast
<1>5. u.candidate = c /\ v.committed <= u.committed
  BY <1>1, <1>4 DEF Latest
<1>6. v.committed # u.committed
  BY <1>1, <1>3, <1>4, <1>5 DEF HistoryOK, CommittedInTurn
<1>7. v.committed \in Nat /\ u.committed \in Nat /\ u.committed <= time
  BY WrittenTyped DEF HistoryOK, CommittedInTurn
<1>8. v.committed < u.committed
  BY <1>5, <1>6, <1>7
<1> QED
  BY <1>3, <1>4, <1>5, <1>7, <1>8

LEMMA CachedOnRecord ==
  ASSUME StateOK, HistoryOK, NEW c \in Candidates, NEW i, Cached(c, i)
  PROVE  OnRecord(c, score[c].value, i, written) /\ score[c].value \in Values
<1>1. score[c] # None /\ score[c].input = i
  BY DEF Cached
<1>2. PICK w \in written : /\ Latest(c, written, w)
                           /\ w.value = score[c].value /\ w.input = score[c].input
  BY <1>1 DEF HistoryOK, RowsAreLast
<1> QED
  BY <1>1, <1>2, WrittenTyped DEF OnRecord, Latest

LEMMA StepIsGoto ==
  ASSUME NEW s, NEW q, NEW op
  PROVE  /\ Step(s, q) => Goto(s, q) /\ UNCHANGED <<score, written, comps, page, time>>
         /\ Start(s, op, q) => Goto(s, q) /\ UNCHANGED <<score, written, comps, page, time>>
         /\ End(s) => Goto(s, None)
  BY DEF Step, Start, End, kept

LEMMA LookKeepsHistory ==
  ASSUME StateOK, HistoryOK, NEW s \in Sessions, NEW c \in Candidates, Look(s, c)
  PROVE  HistoryOK'
<1> DEFINE r == session[s]
           q == IF Cached(c, r.of[c]) THEN Moved(r, c, "have", score[c].value, time, r.wrote)
                ELSE Moved(r, c, "ask", r.value[c], time, r.wrote)
<1>1. /\ Kind(s) \in {"score", "compare"} /\ r \in Scoring /\ r.phase[c] = "look"
      /\ ScoringOK(r, time)
  BY InPhaseMeans DEF Look
<1>2. Step(s, q)
  BY LookMoves
<1>3. time \in Times
  BY TimeTyped
<1>4. r.value[c] \in Values \cup {None} /\ r.wrote \in SUBSET Candidates /\ c \notin r.wrote
      /\ "ask" \in Phases /\ "have" \in Phases
  BY <1>1 DEF Scoring, ScoringOK, Phases
<1>5. CASE Cached(c, r.of[c])
  <2>1. OnRecord(c, score[c].value, r.of[c], written) /\ score[c].value \in Values
    BY <1>5, CachedOnRecord
  <2>2. LookedUp(Moved(r, c, "have", score[c].value, time, r.wrote), written)
    BY <1>1, <1>3, <1>4, <2>1, MovedLookedUp
  <2>3. Step(s, Moved(r, c, "have", score[c].value, time, r.wrote))
    BY <1>2, <1>5
  <2> QED
    BY <2>2, <2>3, StepIsGoto, MoveKeepsHistory
<1>6. CASE ~Cached(c, r.of[c])
  <2>1. Replaced(c, r.of[c], time, written)
    BY <1>6, NotCachedReplaced
  <2>2. LookedUp(Moved(r, c, "ask", r.value[c], time, r.wrote), written)
    BY <1>1, <1>3, <1>4, <2>1, MovedLookedUp
  <2>3. Step(s, Moved(r, c, "ask", r.value[c], time, r.wrote))
    BY <1>2, <1>6
  <2> QED
    BY <2>2, <2>3, StepIsGoto, MoveKeepsHistory
<1> QED
  BY <1>5, <1>6

LEMMA AnswerKeepsHistory ==
  ASSUME StateOK, HistoryOK, NEW s \in Sessions, NEW c \in Candidates, NEW v \in Values,
         Answer(s, c, v)
  PROVE  HistoryOK'
<1> DEFINE r == session[s]
           q == Moved(r, c, "write", v, r.looked[c], r.wrote)
<1>1. /\ Kind(s) \in {"score", "compare"} /\ r \in Scoring /\ r.phase[c] = "ask"
      /\ ScoringOK(r, time) /\ KindOf(r) \in {"score", "compare"}
  BY InPhaseMeans, SessionTyped DEF Answer
<1>2. Step(s, q)
  BY AnswerMoves
<1>3. r.looked[c] \in Times /\ r.wrote \in SUBSET Candidates /\ c \notin r.wrote
      /\ "write" \in Phases
  BY <1>1 DEF Scoring, ScoringOK, Phases
<1>4. Replaced(c, r.of[c], r.looked[c], written)
  BY <1>1 DEF HistoryOK, LookedUp
<1>5. LookedUp(q, written)
  BY <1>1, <1>3, <1>4, MovedLookedUp
<1> HIDE DEF q
<1> QED
  BY <1>2, <1>5, StepIsGoto, MoveKeepsHistory

LEMMA UpsertKeepsHistory ==
  ASSUME StateOK, HistoryOK, NEW s \in Sessions, NEW c \in Candidates, Upsert(s, c)
  PROVE  HistoryOK'
<1> DEFINE r == session[s]
           q == Moved(r, c, "have", r.value[c], r.looked[c], r.wrote \cup {c})
<1>1. /\ Kind(s) \in {"score", "compare"} /\ r \in Scoring /\ r.phase[c] = "write"
      /\ ScoringOK(r, time) /\ KindOf(r) \in {"score", "compare"}
  BY InPhaseMeans, SessionTyped DEF Upsert
<1>2. Step(s, q)
  BY UpsertMoves
<1>3. /\ r.looked[c] \in Times /\ r.wrote \cup {c} \in SUBSET Candidates /\ "have" \in Phases
      /\ r.value[c] \in Values \cup {None} /\ r.wrote \subseteq r.wrote \cup {c}
      /\ c \in r.wrote \cup {c}
  BY <1>1 DEF Scoring, Phases
<1>4. Replaced(c, r.of[c], r.looked[c], written)
  BY <1>1 DEF HistoryOK, LookedUp
<1>5. LookedUp(q, written)
  BY <1>1, <1>3, <1>4, MovedLookedUp
<1> HIDE DEF q
<1> QED
  BY <1>2, <1>5, StepIsGoto, MoveKeepsHistory

(* What a session saves.                                                   *)
Saved(r, t) ==
  {[candidate |-> c, value |-> r.value[c], input |-> r.of[c],
    looked |-> r.looked[c], committed |-> t + 1] : c \in r.wrote}

LEMMA SavedIs ==
  ASSUME StateOK, NEW s \in Sessions, Kind(s) \in {"score", "compare"}, Saves(s)
  PROVE  LET r == session[s]  new == Saved(r, time) IN
         /\ written' = written \cup new /\ time' = time + 1
         /\ r \in Scoring /\ r.wrote \in SUBSET Candidates /\ KindOf(r) \in {"score", "compare"}
         /\ \A w \in new : /\ w.candidate \in r.wrote /\ w.value = r.value[w.candidate]
                           /\ w.input = r.of[w.candidate] /\ w.looked = r.looked[w.candidate]
                           /\ w.committed = time + 1 /\ w.looked \in Nat /\ w.looked <= time
         /\ \A v, w \in new : v.candidate = w.candidate => v = w
         /\ \A c \in r.wrote : \E w \in new : w.candidate = c
         /\ \A c \in Candidates : score'[c] = IF c \in r.wrote
              THEN [value |-> r.value[c], input |-> r.of[c]] ELSE score[c]
         /\ \A c \in r.wrote : score'[c] # None
<1> DEFINE r == session[s]
           new == Saved(r, time)
<1>1. r \in Scoring /\ ScoringOK(r, time) /\ KindOf(r) \in {"score", "compare"}
  BY SessionTyped
<1>2. r.wrote \in SUBSET Candidates
  BY <1>1 DEF Scoring
<1>3. /\ written' = written \cup new /\ time' = time + 1
      /\ score' = [c \in Candidates |-> IF c \in r.wrote
                     THEN [value |-> r.value[c], input |-> r.of[c]] ELSE score[c]]
  BY DEF Saves, Saved
<1>4. \A c \in Candidates : r.looked[c] \in Nat /\ r.looked[c] <= time
  BY <1>1, BoundsTyped DEF Scoring, ScoringOK
<1>5. /\ \A w \in new : /\ w.candidate \in r.wrote /\ w.value = r.value[w.candidate]
                        /\ w.input = r.of[w.candidate] /\ w.looked = r.looked[w.candidate]
                        /\ w.committed = time + 1 /\ w.looked \in Nat /\ w.looked <= time
  BY <1>2, <1>4 DEF Saved
<1>6. \A v, w \in new : v.candidate = w.candidate => v = w
  BY DEF Saved
<1>7. \A c \in r.wrote : \E w \in new : w.candidate = c
  <2>1. ASSUME NEW c \in r.wrote
        PROVE  \E w \in new : w.candidate = c
    <3>1. [candidate |-> c, value |-> r.value[c], input |-> r.of[c],
           looked |-> r.looked[c], committed |-> time + 1] \in new
      BY DEF Saved
    <3> QED
      BY <3>1
  <2> QED
    BY <2>1
<1>8. \A c \in r.wrote : score'[c] # None
  <2>1. \A c \in r.wrote : [value |-> r.value[c], input |-> r.of[c]] \in Score
    BY <1>1, <1>2 DEF ScoringOK, Scoring, Score
  <2>2. None \notin Score
    BY NoneApart
  <2> QED
    BY <1>2, <1>3, <2>1, <2>2
<1> HIDE DEF new, r
<1>9. \A c \in Candidates : score'[c] = IF c \in r.wrote
        THEN [value |-> r.value[c], input |-> r.of[c]] ELSE score[c]
  BY <1>3
<1> QED
  BY <1>1, <1>2, <1>3, <1>5, <1>6, <1>7, <1>8, <1>9 DEF new, r

LEMMA SavesCommitInTurn ==
  ASSUME StateOK, HistoryOK, NEW s \in Sessions, Kind(s) \in {"score", "compare"}, Saves(s)
  PROVE  CommittedInTurn'
<1> DEFINE new == Saved(session[s], time)
<1>1. /\ written' = written \cup new /\ time' = time + 1
      /\ \A w \in new : w.committed = time + 1
      /\ \A v, w \in new : v.candidate = w.candidate => v = w
  BY SavedIs
<1>2. time \in Nat
  BY TimeTyped
<1>3. /\ \A w \in written : w.committed \in Nat /\ w.committed <= time
      /\ \A v, w \in written : v.candidate = w.candidate /\ v.committed = w.committed => v = w
  BY WrittenTyped DEF HistoryOK, CommittedInTurn
<1> HIDE DEF new
<1>4. \A w \in written' : w.committed <= time'
  BY <1>1, <1>2, <1>3
<1>5. \A v, w \in written' : v.candidate = w.candidate /\ v.committed = w.committed => v = w
  <2>1. SUFFICES ASSUME NEW v \in written \cup new, NEW w \in written \cup new,
                        v.candidate = w.candidate, v.committed = w.committed
                 PROVE  v = w
    BY <1>1
  <2>2. \A x \in written : \A y \in new : x.committed # y.committed
    BY <1>1, <1>2, <1>3
  <2> QED
    BY <1>1, <1>3, <2>1, <2>2
<1> QED
  BY <1>4, <1>5 DEF CommittedInTurn

LEMMA SavesKeepRows ==
  ASSUME StateOK, HistoryOK, NEW s \in Sessions, Kind(s) \in {"score", "compare"}, Saves(s)
  PROVE  RowsAreLast'
<1> DEFINE r == session[s]
           new == Saved(r, time)
<1>1. /\ written' = written \cup new /\ r.wrote \in SUBSET Candidates
      /\ \A w \in new : /\ w.candidate \in r.wrote /\ w.value = r.value[w.candidate]
                        /\ w.input = r.of[w.candidate] /\ w.committed = time + 1
      /\ \A c \in r.wrote : \E w \in new : w.candidate = c
      /\ \A c \in Candidates : score'[c] = IF c \in r.wrote
           THEN [value |-> r.value[c], input |-> r.of[c]] ELSE score[c]
      /\ \A c \in r.wrote : score'[c] # None
  BY SavedIs
<1>2. time \in Nat /\ \A w \in written : w.committed \in Nat /\ w.committed <= time
                                         /\ w.candidate \in Candidates
  BY TimeTyped, WrittenTyped DEF HistoryOK, CommittedInTurn
<1>3. RowsAreLast
  BY DEF HistoryOK
<1> HIDE DEF r, new
<1>4. \A w \in written' : score'[w.candidate] # None
  BY <1>1, <1>2, <1>3 DEF RowsAreLast
<1>5. ASSUME NEW c \in Candidates, score'[c] # None
      PROVE  \E w \in written' : /\ Latest(c, written', w)
                                 /\ w.value = score'[c].value /\ w.input = score'[c].input
  <2>1. CASE c \in r.wrote
    <3>1. PICK w \in new : w.candidate = c
      BY <1>1, <2>1
    <3>2. w.value = score'[c].value /\ w.input = score'[c].input
      <4>1. w.value = r.value[c] /\ w.input = r.of[c]
        BY <1>1, <3>1
      <4>2. score'[c] = [value |-> r.value[c], input |-> r.of[c]]
        BY <1>1, <2>1
      <4>3. PICK x : x = score'[c]
        OBVIOUS
      <4>4. x.value = r.value[c] /\ x.input = r.of[c]
        BY <4>2, <4>3
      <4> QED
        BY <4>1, <4>3, <4>4
    <3>3. \A v \in written' : v.committed <= w.committed
      BY <1>1, <1>2
    <3> QED
      BY <1>1, <3>1, <3>2, <3>3 DEF Latest
  <2>2. CASE c \notin r.wrote
    <3>1. score'[c] = score[c]
      BY <1>1, <2>2
    <3>2. PICK w \in written : /\ Latest(c, written, w)
                               /\ w.value = score[c].value /\ w.input = score[c].input
      BY <1>3, <1>5, <3>1 DEF RowsAreLast
    <3>3. \A v \in written' : v.candidate = c => v \in written
      BY <1>1, <2>2
    <3>4. Latest(c, written', w)
      BY <1>1, <3>2, <3>3 DEF Latest
    <3> QED
      BY <1>1, <3>1, <3>2, <3>4
  <2> QED
    BY <2>1, <2>2
<1> QED
  BY <1>4, <1>5 DEF RowsAreLast

LEMMA SavesKeepLookups ==
  ASSUME StateOK, HistoryOK, NEW s \in Sessions, Kind(s) \in {"score", "compare"}, Saves(s),
         NEW t \in Sessions
  PROVE  LookedUp(session[t], written')
<1> DEFINE r == session[t]
           new == Saved(session[s], time)
<1>1. written' = written \cup new /\ \A w \in new : w.committed = time + 1
  BY SavedIs
<1> HIDE DEF new
<1>2. time \in Nat
  BY TimeTyped
<1>3. SUFFICES ASSUME KindOf(r) \in {"score", "compare"}, NEW c \in Candidates
               PROVE  /\ r.phase[c] \in {"ask", "write"} \/ c \in r.wrote
                           => Replaced(c, r.of[c], r.looked[c], written')
                      /\ r.phase[c] = "have" /\ c \notin r.wrote
                           => OnRecord(c, r.value[c], r.of[c], written')
  BY DEF LookedUp
<1>4. r \in Scoring /\ ScoringOK(r, time)
  BY <1>3, SessionTyped
<1>5. r.looked[c] \in Nat /\ r.looked[c] <= time
  BY <1>4, BoundsTyped DEF Scoring, ScoringOK
<1>6. LookedUp(r, written)
  BY DEF HistoryOK
<1>7. ASSUME Replaced(c, r.of[c], r.looked[c], written)
      PROVE  Replaced(c, r.of[c], r.looked[c], written')
  <2>1. SUFFICES ASSUME NEW v \in written', v.candidate = c, v.input = r.of[c],
                        v.committed <= r.looked[c]
                 PROVE  \E u \in written' : /\ u.candidate = c /\ u.input # r.of[c]
                                            /\ v.committed < u.committed
                                            /\ u.committed <= r.looked[c]
    BY DEF Replaced
  <2>2. v \in written
    BY <1>1, <1>2, <1>5, <2>1
  <2> QED
    BY <1>1, <1>7, <2>1, <2>2 DEF Replaced
<1>8. OnRecord(c, r.value[c], r.of[c], written) => OnRecord(c, r.value[c], r.of[c], written')
  BY <1>1 DEF OnRecord
<1> QED
  BY <1>3, <1>6, <1>7, <1>8 DEF LookedUp

LEMMA SavesKeepHistory ==
  ASSUME StateOK, HistoryOK, NEW s \in Sessions, Kind(s) \in {"score", "compare"}, Saves(s),
         End(s)
  PROVE  HistoryOK'
<1>1. session' = [session EXCEPT ![s] = None] /\ session \in [Sessions -> Record \cup {None}]
  BY DEF End, Goto, StateOK
<1>2. \A t \in Sessions : session'[t] = IF t = s THEN None ELSE session[t]
  BY <1>1
<1>3. LookedUp(None, written')
  BY NoneOK DEF LookedUp
<1>4. \A t \in Sessions : LookedUp(session[t], written')
  BY SavesKeepLookups
<1>5. \A t \in Sessions : LookedUp(session'[t], written')
  BY <1>2, <1>3, <1>4
<1> QED
  BY <1>5, SavesCommitInTurn, SavesKeepRows DEF HistoryOK

LEMMA SavesKeepOverlap ==
  ASSUME StateOK, HistoryOK, AskedAgainOnlyInOverlap,
         NEW s \in Sessions, Kind(s) \in {"score", "compare"}, Saves(s)
  PROVE  AskedAgainOnlyInOverlap'
<1> DEFINE r == session[s]
           new == Saved(r, time)
<1>1. /\ written' = written \cup new /\ r.wrote \in SUBSET Candidates
      /\ KindOf(r) \in {"score", "compare"}
      /\ \A w \in new : /\ w.candidate \in r.wrote /\ w.input = r.of[w.candidate]
                        /\ w.looked = r.looked[w.candidate] /\ w.committed = time + 1
                        /\ w.looked \in Nat /\ w.looked <= time
  BY SavedIs
<1>2. time \in Nat /\ \A w \in written : w.committed \in Nat /\ w.committed <= time
  BY TimeTyped, WrittenTyped DEF HistoryOK, CommittedInTurn
<1>3. LookedUp(r, written)
  BY DEF HistoryOK
<1> HIDE DEF r, new
<1>4. SUFFICES ASSUME NEW v \in written', NEW w \in written',
                      v.candidate = w.candidate, v.input = w.input,
                      v.committed < w.committed, v.committed <= w.looked
               PROVE  \E u \in written' : /\ u.candidate = v.candidate /\ u.input # v.input
                                          /\ v.committed < u.committed
                                          /\ u.committed <= w.looked
  BY DEF AskedAgainOnlyInOverlap
<1>5. CASE w \in written
  <2>1. v \in written
    BY <1>1, <1>2, <1>4, <1>5
  <2>2. PICK u \in written : /\ u.candidate = v.candidate /\ u.input # v.input
                             /\ v.committed < u.committed /\ u.committed <= w.looked
    BY <1>4, <1>5, <2>1 DEF AskedAgainOnlyInOverlap
  <2> QED
    BY <1>1, <2>2
<1>6. CASE w \in new
  <2>1. v \in written
    BY <1>1, <1>2, <1>4, <1>6
  <2>2. Replaced(w.candidate, r.of[w.candidate], r.looked[w.candidate], written)
    BY <1>1, <1>3, <1>6 DEF LookedUp
  <2>3. v.candidate = w.candidate /\ v.input = r.of[w.candidate]
        /\ v.committed <= r.looked[w.candidate]
    BY <1>1, <1>4, <1>6
  <2>4. PICK u \in written : /\ u.candidate = w.candidate /\ u.input # r.of[w.candidate]
                             /\ v.committed < u.committed
                             /\ u.committed <= r.looked[w.candidate]
    BY <2>1, <2>2, <2>3 DEF Replaced
  <2> QED
    BY <1>1, <1>4, <1>6, <2>3, <2>4
<1> QED
  BY <1>1, <1>4, <1>5, <1>6

LEMMA InitialHistory ==
  ASSUME Init
  PROVE  HistoryOK /\ AskedAgainOnlyInOverlap
<1>1. /\ score = [c \in Candidates |-> IF scenario.scores[c] = None THEN None
                    ELSE [value |-> scenario.scores[c], input |-> Input(c)]]
      /\ written = {[candidate |-> c, value |-> scenario.scores[c], input |-> Input(c),
                     looked |-> 0, committed |-> 0] :
                      c \in {c \in Candidates : scenario.scores[c] # None}}
      /\ session = [s \in Sessions |-> None] /\ time = 0
  BY DEF Init
<1>2. StateOK
  BY InitialState
<1>3. \A w \in written : /\ w.candidate \in Candidates /\ scenario.scores[w.candidate] # None
                         /\ w.committed = 0
  BY <1>1
<1>4. \A v, w \in written : v.candidate = w.candidate => v = w
  BY <1>1
<1>5. CommittedInTurn
  BY <1>1, <1>3, <1>4 DEF CommittedInTurn
<1>6. RowsAreLast
  <2>1. \A c \in Candidates : scenario.scores[c] # None =>
          /\ [value |-> scenario.scores[c], input |-> Input(c)] \in Score
          /\ [candidate |-> c, value |-> scenario.scores[c], input |-> Input(c),
              looked |-> 0, committed |-> 0] \in written
    <3>1. scenario.scores \in [Candidates -> Values \cup {None}]
      BY <1>2, ScoringConstants DEF StateOK, TypeOK, Scenario
    <3> QED
      BY <1>1, <3>1, InitialInput DEF Score
  <2>2. None \notin Score
    BY NoneApart
  <2>3. \A w \in written : score[w.candidate] # None
    BY <1>1, <1>3, <2>1, <2>2
  <2>4. ASSUME NEW c \in Candidates, score[c] # None
        PROVE  \E w \in written : /\ Latest(c, written, w)
                                  /\ w.value = score[c].value /\ w.input = score[c].input
    <3>1. scenario.scores[c] # None
      BY <1>1, <2>4
    <3> DEFINE w == [candidate |-> c, value |-> scenario.scores[c], input |-> Input(c),
                     looked |-> 0, committed |-> 0]
    <3>2. w \in written /\ w.candidate = c /\ w.value = score[c].value
          /\ w.input = score[c].input /\ w.committed = 0
      <4>1. w \in written
        BY <2>1, <3>1
      <4>2. score[c] = [value |-> scenario.scores[c], input |-> Input(c)]
        BY <1>1, <3>1
      <4> QED
        BY <4>1, <4>2
    <3> HIDE DEF w
    <3>3. Latest(c, written, w)
      BY <1>3, <3>2 DEF Latest
    <3> QED
      BY <3>2, <3>3
  <2> QED
    BY <2>3, <2>4 DEF RowsAreLast
<1>7. \A s \in Sessions : LookedUp(session[s], written)
  <2>1. LookedUp(None, written)
    BY NoneOK DEF LookedUp
  <2> QED
    BY <1>1, <2>1
<1>8. AskedAgainOnlyInOverlap
  BY <1>3 DEF AskedAgainOnlyInOverlap
<1> QED
  BY <1>5, <1>6, <1>7, <1>8 DEF HistoryOK

(* The steps, as far as scores, comparisons and shortlists see them.       *)
Quiet == UNCHANGED <<score, written, comps, page, time, session>>

Idle(s) ==
  /\ UNCHANGED <<score, written, comps, page, time>>
  /\ \E q : Goto(s, q) /\ LookedUp(q, written)

Advance(s) ==
  \E c \in Candidates : Look(s, c) \/ Upsert(s, c) \/ \E v \in Values : Answer(s, c, v)

Listed == SeqOf({NameOf[c] : c \in Candidates} \cup {Stranger}, MaxListed)

LEMMA DropIsIdle ==
  ASSUME NEW s, Step(s, None)
  PROVE  Idle(s)
<1>1. LookedUp(None, written)
  BY NoneOK, IdleLookedUp
<1> QED
  BY <1>1, StepIsGoto DEF Idle

LEMMA StartIsIdle ==
  ASSUME NEW s, NEW q, NEW op, Step(s, q) \/ Start(s, op, q), LookedUp(q, written)
  PROVE  Idle(s)
  BY StepIsGoto DEF Idle

LEMMA StepsAre ==
  ASSUME StateOK, [Next]_vars
  PROVE  \/ Quiet
         \/ \E s \in Sessions :
              \/ Idle(s) \/ Advance(s) \/ CommitScores(s) \/ CompareFails(s)
              \/ EndAnalyze(s) \/ EndShortlist(s) \/ TiebreakFails(s)
              \/ \E listed \in Listed : EndTiebreak(s, listed)
<1>1. ASSUME NEW s \in Sessions, Jobs(s)
      PROVE  Idle(s)
  <2>1. ASSUME NEW text, NEW tech, NEW soft, NEW legacy, BeginUpdate(s, text, tech, soft, legacy)
        PROVE  Idle(s)
    <3> DEFINE q == [kind |-> "update", job |-> job, text |-> text, tech |-> tech,
                     soft |-> soft, legacy |-> legacy]
    <3>1. Start(s, "update", q)
      BY <2>1 DEF BeginUpdate
    <3>2. KindOf(q) \notin {"score", "compare"}
      BY DEF KindOf
    <3> HIDE DEF q
    <3> QED
      BY <3>1, <3>2, IdleLookedUp, StartIsIdle
  <2>2. ASSUME NEW reordered, CommitUpdate(s, reordered)
        PROVE  Idle(s)
    <3>1. Goto(s, None) /\ UNCHANGED <<score, written, comps, page, time>>
      BY <2>2 DEF CommitUpdate, kept
    <3>2. LookedUp(None, written)
      BY NoneOK, IdleLookedUp
    <3> QED
      BY <3>1, <3>2 DEF Idle
  <2> QED
    BY <1>1, <2>1, <2>2 DEF Jobs
<1>2. ASSUME NEW s \in Sessions, Scores(s)
      PROVE  Idle(s) \/ Advance(s) \/ CommitScores(s) \/ CompareFails(s)
  <2>1. ASSUME NEW c \in Candidates, StartScore(s, c)
        PROVE  Idle(s)
    BY <2>1, LoadedLookedUp, StartIsIdle DEF StartScore
  <2>2. ASSUME NEW c \in Candidates, NEW v \in scenario.values, Answer(s, c, v)
        PROVE  Advance(s)
    <3>1. scenario \in Scenario
      BY ScoringConstants DEF StateOK, TypeOK
    <3>2. v \in Values
      BY <3>1 DEF Scenario
    <3> QED
      BY <2>2, <3>2 DEF Advance
  <2>3. ASSUME NEW cs, StartCompare(s, cs)
        PROVE  Idle(s)
    BY <2>3, LoadedLookedUp, StartIsIdle DEF StartCompare
  <2>4. CASE ScoreFails(s)
    <3> DEFINE q == [kind |-> "retry", candidate |-> CHOOSE c \in Asked(s) : TRUE,
                     left |-> session[s].left - 1]
    <3>1. Step(s, None) \/ Step(s, q)
      BY <2>4 DEF ScoreFails
    <3>2. KindOf(q) \notin {"score", "compare"}
      BY DEF KindOf
    <3> HIDE DEF q
    <3> QED
      BY <3>1, <3>2, DropIsIdle, IdleLookedUp, StartIsIdle
  <2>5. CASE RetryScore(s)
    <3>1. Step(s, None)
          \/ Step(s, Loaded("score", {session[s].candidate}, session[s].left))
      BY <2>5 DEF RetryScore
    <3> QED
      BY <3>1, DropIsIdle, LoadedLookedUp, StartIsIdle
  <2>6. CASE Abort(s)
    BY <2>6, DropIsIdle DEF Abort
  <2>7. ASSUME NEW t, Deadlock(s, t)
        PROVE  Idle(s)
    BY <2>7, DropIsIdle DEF Deadlock
  <2>8. \A c \in Candidates : Look(s, c) \/ Upsert(s, c) => Advance(s)
    BY DEF Advance
  <2> QED
    BY <1>2, <2>1, <2>2, <2>3, <2>4, <2>5, <2>6, <2>7, <2>8 DEF Scores
<1>3. ASSUME NEW s \in Sessions, Reads(s)
      PROVE  \/ Idle(s) \/ EndAnalyze(s) \/ EndShortlist(s) \/ TiebreakFails(s)
             \/ \E listed \in Listed : EndTiebreak(s, listed)
  <2>1. ASSUME NEW i, BeginAnalyze(s, i)
        PROVE  Idle(s)
    <3> DEFINE q == [kind |-> "analyze", comp |-> i]
    <3>1. Start(s, "analyze", q)
      BY <2>1 DEF BeginAnalyze
    <3>2. KindOf(q) \notin {"score", "compare"}
      BY DEF KindOf
    <3> HIDE DEF q
    <3> QED
      BY <3>1, <3>2, IdleLookedUp, StartIsIdle
  <2>2. ASSUME NEW target, BeginShortlist(s, target)
        PROVE  Idle(s)
    <3> DEFINE q == [kind |-> "shortlist", rows |-> score, target |-> target, began |-> time]
    <3>1. Start(s, "shortlist", q)
      BY <2>2 DEF BeginShortlist
    <3>2. KindOf(q) \notin {"score", "compare"}
      BY DEF KindOf
    <3> HIDE DEF q
    <3> QED
      BY <3>1, <3>2, IdleLookedUp, StartIsIdle
  <2>3. ASSUME NEW target, BeginTiebreak(s, target)
        PROVE  Idle(s)
    <3> DEFINE q == [kind |-> "tiebreak", rows |-> score, target |-> target,
                     among |-> InTier(score, target, "A") \cap live]
    <3>1. Start(s, "tiebreak", q)
      BY <2>3 DEF BeginTiebreak
    <3>2. KindOf(q) \notin {"score", "compare"}
      BY DEF KindOf
    <3> HIDE DEF q
    <3> QED
      BY <3>1, <3>2, IdleLookedUp, StartIsIdle
  <2> QED
    BY <1>3, <2>1, <2>2, <2>3 DEF Reads, Listed
<1>4. ASSUME NEW c, EditCandidate(c) \/ DeleteCandidate(c) \/ DeleteJob
      PROVE  Quiet
  BY <1>4 DEF EditCandidate, DeleteCandidate, DeleteJob, kept, Quiet
<1>5. CASE DeleteJob
  BY <1>5 DEF DeleteJob, kept, Quiet
<1>6. CASE UNCHANGED vars
  BY <1>6 DEF vars, kept, Quiet
<1> QED
  BY <1>1, <1>2, <1>3, <1>4, <1>5, <1>6 DEF Next

(* Those that read scores end with nothing, and save none.                 *)
LEMMA EndKeepsHistory ==
  ASSUME StateOK, HistoryOK, NEW s \in Sessions, End(s), UNCHANGED <<score, written, time>>
  PROVE  HistoryOK'
<1>1. LookedUp(None, written)
  BY NoneOK, IdleLookedUp
<1> QED
  BY <1>1, StepIsGoto, MoveKeepsHistory

LEMMA HistoryKept ==
  ASSUME StateOK, HistoryOK, AskedAgainOnlyInOverlap, [Next]_vars
  PROVE  HistoryOK' /\ AskedAgainOnlyInOverlap'
<1>1. CASE Quiet
  <2>1. UNCHANGED <<score, written, time, session>>
    BY <1>1 DEF Quiet
  <2> QED
    BY <2>1 DEF HistoryOK, CommittedInTurn, RowsAreLast, AskedAgainOnlyInOverlap
<1>2. ASSUME UNCHANGED written
      PROVE  AskedAgainOnlyInOverlap'
  BY <1>2 DEF AskedAgainOnlyInOverlap
<1>3. ASSUME NEW s \in Sessions, Idle(s)
      PROVE  HistoryOK' /\ AskedAgainOnlyInOverlap'
  <2>1. PICK q : Goto(s, q) /\ LookedUp(q, written)
    BY <1>3 DEF Idle
  <2>2. UNCHANGED <<score, written, time>>
    BY <1>3 DEF Idle
  <2> QED
    BY <1>2, <2>1, <2>2, MoveKeepsHistory
<1>4. ASSUME NEW s \in Sessions, Advance(s)
      PROVE  HistoryOK' /\ AskedAgainOnlyInOverlap'
  <2>1. HistoryOK'
    BY <1>4, LookKeepsHistory, UpsertKeepsHistory, AnswerKeepsHistory DEF Advance
  <2>2. UNCHANGED written
    BY <1>4, StepIsGoto DEF Advance, Look, Upsert, Answer
  <2> QED
    BY <1>2, <2>1, <2>2
<1>5. ASSUME NEW s \in Sessions, CommitScores(s) \/ CompareFails(s)
      PROVE  HistoryOK' /\ AskedAgainOnlyInOverlap'
  <2>1. Kind(s) \in {"score", "compare"} /\ Saves(s) /\ End(s)
    BY <1>5, CommitScoresDoes, CompareFailsDoes
  <2> QED
    BY <2>1, SavesKeepHistory, SavesKeepOverlap
<1>6. ASSUME NEW s \in Sessions,
             EndAnalyze(s) \/ EndShortlist(s) \/ TiebreakFails(s)
               \/ \E listed \in Listed : EndTiebreak(s, listed)
      PROVE  HistoryOK' /\ AskedAgainOnlyInOverlap'
  <2>1. End(s) /\ UNCHANGED <<score, written, time>>
    BY <1>6 DEF EndAnalyze, EndShortlist, TiebreakFails, EndTiebreak
  <2> QED
    BY <1>2, <2>1, EndKeepsHistory
<1> QED
  BY <1>1, <1>3, <1>4, <1>5, <1>6, StepsAre

LEMMA HistoryInvariant == Spec => [](HistoryOK /\ AskedAgainOnlyInOverlap)
<1>1. Init => HistoryOK /\ AskedAgainOnlyInOverlap
  BY InitialHistory
<1>2. StateOK /\ HistoryOK /\ AskedAgainOnlyInOverlap /\ [Next]_vars
        => HistoryOK' /\ AskedAgainOnlyInOverlap'
  BY HistoryKept
<1> QED
  BY <1>1, <1>2, StateInvariant, PTL DEF Spec

(* The LLM scores a candidate for a job again, both as they were, only     *)
(* when the lookup came before the commit of the first score, or when the  *)
(* row had been overwritten in between with a score of another input       *)
(* (worker/scoring.py, score_with_cache).                                  *)
THEOREM AskedAgainOnlyThen == Spec => []AskedAgainOnlyInOverlap
  BY HistoryInvariant, PTL
-----------------------------------------------------------------------------
(* Comparisons *)

Ranks(k, ws) ==
  LET of == [i \in DOMAIN k.results |-> k.results[i].candidate] IN
  /\ IsInjective(of) /\ Range(of) = k.asked
  /\ \A i, j \in DOMAIN of : i < j => k.results[i].value >= k.results[j].value
  /\ \A i \in DOMAIN of :
       OnRecord(k.results[i].candidate, k.results[i].value, k.results[i].input, ws)

(* The verdict is of the top score, if no one else has the name.           *)
VerdictFits(k) ==
  /\ k.verdict = "strong" => k.results[1].value >= 80
  /\ k.verdict \in {"moderate", "weak"}
     /\ (\A i \in DOMAIN k.results :
           i # 1 => NameOf[k.results[i].candidate] # NameOf[k.results[1].candidate])
     => k.results[1].value < 80 /\ (k.verdict = "weak" <=> k.results[1].value < 60)

(* A completed comparison is of somebody.                                  *)
CompareOK(k, ws) ==
  \/ k.status = "failed" /\ k.results = <<>> /\ k.verdict = None
  \/ k.status = "completed" /\ Ranks(k, ws) /\ VerdictFits(k) /\ k.results # <<>>

ComparesOK ==
  \A i \in DOMAIN comps : comps[i].kind = "compare" => CompareOK(comps[i], written)

LEMMA CompsTyped ==
  ASSUME StateOK, NEW i \in DOMAIN comps
  PROVE  comps[i] \in Comparison /\ comps[i].results \in Seq(Result)
<1>1. comps \in Seq(Comparison)
  BY DEF StateOK, TypeOK
<1>2. comps[i] \in Comparison
  BY <1>1
<1> QED
  BY <1>2 DEF Comparison

LEMMA ComparesAddUp ==
  ASSUME StateOK, ComparesOK
  PROVE  ComparisonsAddUp
<1>1. SUFFICES ASSUME NEW k \in Range(comps), k.kind = "compare"
               PROVE
    LET of == [i \in DOMAIN k.results |-> k.results[i].candidate] IN
    \/ k.status = "failed" /\ k.results = <<>> /\ k.verdict = None
    \/ /\ k.status = "completed"
       /\ IsInjective(of) /\ Range(of) = k.asked
       /\ \A i, j \in DOMAIN of : i < j => k.results[i].value >= k.results[j].value
       /\ \A i \in DOMAIN of : Backed(k.results[i])
       /\ k.verdict = "strong" => k.results[1].value >= 80
       /\ /\ k.verdict \in {"moderate", "weak"}
          /\ \A i \in DOMAIN of : i # 1 => NameOf[of[i]] # NameOf[of[1]]
          => /\ k.results[1].value < 80
             /\ k.verdict = "weak" <=> k.results[1].value < 60
  BY DEF ComparisonsAddUp
<1>2. PICK n \in DOMAIN comps : k = comps[n]
  BY DEF Range
<1>3. CompareOK(k, written)
  BY <1>1, <1>2 DEF ComparesOK
<1> DEFINE of == [i \in DOMAIN k.results |-> k.results[i].candidate]
<1>4. CASE k.status = "failed" /\ k.results = <<>> /\ k.verdict = None
  BY <1>4
<1>5. CASE k.status = "completed" /\ Ranks(k, written) /\ VerdictFits(k) /\ k.results # <<>>
  <2>1. DOMAIN of = DOMAIN k.results /\ \A i \in DOMAIN of : of[i] = k.results[i].candidate
    OBVIOUS
  <2>2. /\ IsInjective(of) /\ Range(of) = k.asked
        /\ \A i, j \in DOMAIN of : i < j => k.results[i].value >= k.results[j].value
        /\ \A i \in DOMAIN of :
             OnRecord(k.results[i].candidate, k.results[i].value, k.results[i].input, written)
    BY <1>5 DEF Ranks
  <2>3. \A i \in DOMAIN of : Backed(k.results[i])
    BY <2>2 DEF OnRecord, Backed
  <2>4. k.verdict = "strong" => k.results[1].value >= 80
    BY <1>5 DEF VerdictFits
  <2>5. ASSUME k.verdict \in {"moderate", "weak"},
               \A i \in DOMAIN of : i # 1 => NameOf[of[i]] # NameOf[of[1]]
        PROVE  /\ k.results[1].value < 80
               /\ k.verdict = "weak" <=> k.results[1].value < 60
    <3>1. k.results \in Seq(Result)
      BY <1>2, CompsTyped
    <3>2. 1 \in DOMAIN of
      BY <1>5, <2>1, <3>1
    <3> QED
      BY <1>5, <2>1, <2>5, <3>2 DEF VerdictFits
  <2> HIDE DEF of
  <2> QED
    BY <1>5, <2>2, <2>3, <2>4, <2>5 DEF of
<1> QED
  BY <1>3, <1>4, <1>5 DEF CompareOK

(* A set in some order has all of it.                                      *)
LEMMA InOrderCovers ==
  ASSUME NEW S, IsFiniteSet(S), NEW q \in SetToSeqs(S), NEW x \in S
  PROVE  \E i \in DOMAIN q : q[i] = x
<1>1. PICK n \in Nat : n = Cardinality(S)
  BY FS_CardinalityType
<1>2. q \in [1..n -> S] /\ DOMAIN q = 1..n /\ \A i, j \in DOMAIN q : q[i] = q[j] => i = j
  BY <1>1, InOrder
<1>3. q \in Injection(1..n, S)
  BY <1>2 DEF Injection, IsInjective
<1>4. Cardinality(1..n) = n
  BY <1>1, FS_Interval
<1>5. q \in Surjection(1..n, S)
  BY <1>1, <1>3, <1>4, FS_Injection
<1> QED
  BY <1>2, <1>5 DEF Surjection

LEMMA StaysOnRecord ==
  ASSUME NEW k, NEW ws, NEW xs, ws \subseteq xs, CompareOK(k, ws)
  PROVE  CompareOK(k, xs)
<1>1. \A c, v, i : OnRecord(c, v, i, ws) => OnRecord(c, v, i, xs)
  BY DEF OnRecord
<1>2. Ranks(k, ws) => Ranks(k, xs)
  BY <1>1 DEF Ranks
<1> QED
  BY <1>2 DEF CompareOK

(* What a comparison was asked about, in the order of what it has.         *)
LEMMA ComparedRanks ==
  ASSUME NEW r, NEW S \in SUBSET Candidates, S # {}, NEW ranked \in SetToSeqs(S), NEW ws,
         \A i, j \in DOMAIN ranked : i < j => r.value[ranked[i]] >= r.value[ranked[j]],
         \A c \in S : OnRecord(c, r.value[c], r.of[c], ws)
  PROVE  CompareOK(Compared(S, r, ranked), ws)
<1> DEFINE k == Compared(S, r, ranked)
           of == [i \in DOMAIN k.results |-> k.results[i].candidate]
<1>1. IsFiniteSet(S)
  BY CandidatesCounted
<1>2. /\ DOMAIN ranked = 1..Cardinality(S) /\ Cardinality(S) \in Nat
      /\ \A i \in DOMAIN ranked : ranked[i] \in S
      /\ \A i, j \in DOMAIN ranked : ranked[i] = ranked[j] => i = j
  BY <1>1, InOrder
<1>3. /\ k.kind = "compare" /\ k.status = "completed" /\ k.asked = S /\ k.verdict = None
      /\ k.results = RankedResults(r, ranked)
  BY DEF Compared
<1>4. /\ DOMAIN k.results = DOMAIN ranked
      /\ \A i \in DOMAIN ranked : /\ k.results[i].candidate = ranked[i]
                                  /\ k.results[i].value = r.value[ranked[i]]
                                  /\ k.results[i].input = r.of[ranked[i]]
  BY <1>3 DEF RankedResults
<1> HIDE DEF k
<1>5. DOMAIN of = DOMAIN ranked /\ \A i \in DOMAIN ranked : of[i] = ranked[i]
  BY <1>4
<1> HIDE DEF of
<1>6. IsInjective(of)
  BY <1>2, <1>5 DEF IsInjective
<1>7. Range(of) = S
  <2>1. \A x \in S : \E i \in DOMAIN of : of[i] = x
    BY <1>1, <1>5, InOrderCovers
  <2>2. \A i \in DOMAIN of : of[i] \in S
    BY <1>2, <1>5
  <2> QED
    BY <2>1, <2>2 DEF Range
<1>8. \A i, j \in DOMAIN of : i < j => k.results[i].value >= k.results[j].value
  BY <1>4, <1>5
<1>9. \A i \in DOMAIN of :
        OnRecord(k.results[i].candidate, k.results[i].value, k.results[i].input, ws)
  BY <1>2, <1>4, <1>5
<1>10. Ranks(k, ws)
  BY <1>3, <1>6, <1>7, <1>8, <1>9 DEF Ranks, of
<1>11. VerdictFits(k)
  BY <1>3, NoneApart DEF VerdictFits, Decisions
<1>12. k.results # <<>>
  <2>1. PICK x : x \in S
    OBVIOUS
  <2>2. PICK i \in DOMAIN ranked : ranked[i] = x
    BY <1>1, <2>1, InOrderCovers
  <2>3. i \in DOMAIN k.results
    BY <1>4
  <2>4. DOMAIN <<>> = {}
    OBVIOUS
  <2> QED
    BY <2>3, <2>4
<1>13. CompareOK(k, ws)
  BY <1>3, <1>10, <1>11, <1>12 DEF CompareOK
<1> QED
  BY <1>13 DEF k

LEMMA HaveOnRecord ==
  ASSUME StateOK, HistoryOK, NEW s \in Sessions, Kind(s) \in {"score", "compare"}, Saves(s),
         NEW c \in Candidates, session[s].phase[c] = "have"
  PROVE  OnRecord(c, session[s].value[c], session[s].of[c], written')
<1> DEFINE r == session[s]
           new == Saved(r, time)
<1>1. /\ written' = written \cup new /\ KindOf(r) \in {"score", "compare"}
      /\ \A w \in new : /\ w.candidate \in r.wrote /\ w.value = r.value[w.candidate]
                        /\ w.input = r.of[w.candidate]
      /\ \A d \in r.wrote : \E w \in new : w.candidate = d
  BY SavedIs
<1>2. LookedUp(r, written)
  BY DEF HistoryOK
<1> HIDE DEF new, r
<1>3. CASE c \in r.wrote
  <2>1. PICK w \in new : w.candidate = c
    BY <1>1, <1>3
  <2>2. w \in written' /\ w.candidate = c /\ w.value = r.value[c] /\ w.input = r.of[c]
    BY <1>1, <2>1
  <2> QED
    BY <2>2 DEF OnRecord, r
<1>4. CASE c \notin r.wrote
  <2>1. r.phase[c] = "have"
    BY DEF r
  <2>2. OnRecord(c, r.value[c], r.of[c], written)
    BY <1>1, <1>2, <1>4, <2>1 DEF LookedUp
  <2>3. OnRecord(c, r.value[c], r.of[c], written')
    BY <1>1, <2>2 DEF OnRecord
  <2> QED
    BY <2>3 DEF r
<1> QED
  BY <1>3, <1>4

(* Comparisons are appended.                                               *)
LEMMA AppendKeepsCompares ==
  ASSUME StateOK, ComparesOK, written \subseteq written',
         NEW k \in Comparison, k.kind = "compare" => CompareOK(k, written'),
         comps' = Append(comps, k)
  PROVE  ComparesOK'
<1>1. comps \in Seq(Comparison)
  BY DEF StateOK, TypeOK
<1>2. /\ DOMAIN comps' = DOMAIN comps \cup {Len(comps) + 1}
      /\ comps'[Len(comps) + 1] = k
      /\ \A i \in DOMAIN comps : comps'[i] = comps[i]
  BY <1>1, Appended
<1>3. ASSUME NEW i \in DOMAIN comps', comps'[i].kind = "compare"
      PROVE  CompareOK(comps'[i], written')
  <2>1. CASE i = Len(comps) + 1
    BY <1>2, <1>3, <2>1
  <2>2. CASE i \in DOMAIN comps
    <3>1. comps'[i] = comps[i] /\ CompareOK(comps[i], written)
      BY <1>2, <1>3, <2>2 DEF ComparesOK
    <3> QED
      BY <3>1, StaysOnRecord
  <2> QED
    BY <1>2, <2>1, <2>2
<1> QED
  BY <1>3 DEF ComparesOK

LEMMA CommitScoresKeepsCompares ==
  ASSUME StateOK, HistoryOK, ComparesOK, NEW s \in Sessions, CommitScores(s)
  PROVE  ComparesOK'
<1>1. /\ Kind(s) \in {"score", "compare"} /\ Saves(s)
      /\ \A c \in Asked(s) : session[s].phase[c] = "have"
  BY CommitScoresDoes
<1>2. written \subseteq written'
  BY <1>1, SavedIs
<1>3. CASE comps' = comps
  <2>1. ASSUME NEW i \in DOMAIN comps, comps[i].kind = "compare"
        PROVE  CompareOK(comps[i], written')
    BY <1>2, <2>1, StaysOnRecord DEF ComparesOK
  <2> QED
    BY <1>3, <2>1 DEF ComparesOK
<1>4. CASE comps' # comps
  <2>1. PICK ranked \in SetToSeqs(Asked(s)) :
          /\ \A i, j \in DOMAIN ranked :
               i < j => session[s].value[ranked[i]] >= session[s].value[ranked[j]]
          /\ comps' = Append(comps, Compared(Asked(s), session[s], ranked))
    BY <1>4, CommitScoresDoes
  <2>2. session[s] \in Scoring /\ ScoringOK(session[s], time)
    BY <1>1, SessionTyped
  <2>3. Asked(s) # {} /\ Asked(s) \in SUBSET Candidates
    BY <2>2 DEF Asked, ScoringOK
  <2>4. \A c \in Asked(s) : OnRecord(c, session[s].value[c], session[s].of[c], written')
    BY <1>1, <2>3, HaveOnRecord
  <2>5. CompareOK(Compared(Asked(s), session[s], ranked), written')
    BY <2>1, <2>3, <2>4, ComparedRanks
  <2>6. Compared(Asked(s), session[s], ranked) \in Comparison
    BY <2>2, <2>3, ComparedTyped
  <2> QED
    BY <1>2, <2>1, <2>5, <2>6, AppendKeepsCompares
<1> QED
  BY <1>3, <1>4

LEMMA CompareFailsKeepsCompares ==
  ASSUME StateOK, ComparesOK, NEW s \in Sessions, CompareFails(s)
  PROVE  ComparesOK'
<1>1. /\ Kind(s) \in {"score", "compare"} /\ Saves(s)
      /\ comps' = Append(comps, NotCompared(Asked(s)))
  BY CompareFailsDoes
<1>2. written \subseteq written'
  BY <1>1, SavedIs
<1>3. NotCompared(Asked(s)) \in Comparison
  BY AskedCounted, NotComparedTyped
<1>4. CompareOK(NotCompared(Asked(s)), written')
  BY DEF NotCompared, CompareOK
<1> QED
  BY <1>1, <1>2, <1>3, <1>4, AppendKeepsCompares

(* The scores of a comparison's results are scores, highest first.         *)
LEMMA RankedHighestFirst ==
  ASSUME StateOK, NEW k \in Comparison, CompareOK(k, written), k.status = "completed"
  PROVE  /\ 1 \in DOMAIN k.results
         /\ \A i \in DOMAIN k.results : /\ k.results[i].value \in 0..100
                                        /\ k.results[i].value \in Values
                                        /\ k.results[i].value <= k.results[1].value
<1>1. Ranks(k, written) /\ k.results # <<>> /\ k.results \in Seq(Result)
  <2>1. k.results \in Seq(Result)
    BY DEF Comparison
  <2> QED
    BY <2>1 DEF CompareOK
<1>2. DOMAIN k.results = 1..Len(k.results) /\ Len(k.results) \in Nat /\ 1 \in DOMAIN k.results
  BY <1>1
<1> DEFINE of == [i \in DOMAIN k.results |-> k.results[i].candidate]
<1>3. /\ \A i, j \in DOMAIN of : i < j => k.results[i].value >= k.results[j].value
      /\ \A i \in DOMAIN of :
           OnRecord(k.results[i].candidate, k.results[i].value, k.results[i].input, written)
  BY <1>1 DEF Ranks
<1>4. DOMAIN of = DOMAIN k.results
  OBVIOUS
<1> HIDE DEF of
<1>5. \A i \in DOMAIN k.results : k.results[i].value \in Values /\ k.results[i].value \in 0..100
  BY <1>3, <1>4, WrittenTyped, ScoringConstants DEF OnRecord
<1>6. ASSUME NEW i \in DOMAIN k.results
      PROVE  k.results[i].value <= k.results[1].value
  <2>1. k.results[i].value \in 0..100 /\ k.results[1].value \in 0..100
    BY <1>2, <1>5
  <2>2. CASE i = 1
    BY <2>1, <2>2
  <2>3. CASE i # 1
    <3>1. 1 < i
      BY <1>2, <2>3
    <3>2. k.results[1].value >= k.results[i].value
      BY <1>2, <1>3, <1>4, <3>1
    <3> QED
      BY <2>1, <3>2
  <2> QED
    BY <2>2, <2>3
<1> QED
  BY <1>2, <1>5, <1>6

(* The top score is the first's, or less if it is of another of its name.  *)
LEMMA TopScoreOf ==
  ASSUME StateOK, NEW k \in Comparison, CompareOK(k, written), k.status = "completed"
  PROVE  LET top == TopScore(NamedScores(k.results)) IN
         /\ top \in 0..100 /\ top <= k.results[1].value
         /\ (\A i \in DOMAIN k.results :
               i # 1 => NameOf[k.results[i].candidate] # NameOf[k.results[1].candidate])
              => top = k.results[1].value
<1> DEFINE named == NamedScores(k.results)
           all == {0} \cup (named \ {None})
           top == TopScore(named)
<1>1. /\ 1 \in DOMAIN k.results
      /\ \A i \in DOMAIN k.results : /\ k.results[i].value \in 0..100
                                     /\ k.results[i].value \in Values
                                     /\ k.results[i].value <= k.results[1].value
  BY RankedHighestFirst
<1>2. \A v \in named : \E i \in DOMAIN k.results : v = k.results[i].value
  BY DEF NamedScores
<1>3. top = Max(all)
  BY DEF TopScore
<1>4. (\A i \in DOMAIN k.results :
         i # 1 => NameOf[k.results[i].candidate] # NameOf[k.results[1].candidate])
        => k.results[1].value \in named
  <2>1. SUFFICES ASSUME \A i \in DOMAIN k.results :
                   i # 1 => NameOf[k.results[i].candidate] # NameOf[k.results[1].candidate]
                 PROVE  k.results[1].value \in named
    OBVIOUS
  <2>2. \A j \in DOMAIN k.results :
          j > 1 => NameOf[k.results[j].candidate] # NameOf[k.results[1].candidate]
    BY <2>1
  <2> QED
    BY <1>1, <2>2 DEF NamedScores
<1> HIDE DEF named, top
<1>5. all \in SUBSET (0..100) /\ all # {}
  BY <1>1, <1>2
<1>6. 100 \in Nat
  OBVIOUS
<1>7. Max(all) \in all /\ \A y \in all : y <= Max(all)
  <2> HIDE DEF all
  <2> QED
    BY <1>5, <1>6, MaxIsHighest
<1>8. top \in 0..100
  BY <1>3, <1>5, <1>7
<1>9. top <= k.results[1].value
  <2>1. CASE top = 0
    BY <1>1, <2>1
  <2>2. CASE top # 0
    <3>1. top \in named
      BY <1>3, <1>7, <2>2
    <3> QED
      BY <1>1, <1>2, <3>1
  <2> QED
    BY <2>1, <2>2
<1>10. k.results[1].value \in named => k.results[1].value <= top
  <2>1. SUFFICES ASSUME k.results[1].value \in named
                 PROVE  k.results[1].value <= top
    OBVIOUS
  <2>2. k.results[1].value # None
    BY <1>1, ScoringConstants
  <2>3. k.results[1].value \in all
    BY <2>1, <2>2
  <2> QED
    BY <1>3, <1>7, <2>3
<1>11. \A x, y \in 0..100 : x <= y /\ y <= x => x = y
  OBVIOUS
<1>12. k.results[1].value \in named => top = k.results[1].value
  BY <1>1, <1>8, <1>9, <1>10, <1>11
<1> QED
  BY <1>4, <1>8, <1>9, <1>12 DEF top, named

LEMMA VerdictOfTop ==
  ASSUME NEW first \in 0..100, NEW top \in 0..100, top <= first
  PROVE  /\ Decision(top) = "strong" => first >= 80
         /\ Decision(top) \in {"moderate", "weak"} /\ top = first
              => first < 80 /\ (Decision(top) = "weak" <=> first < 60)
  BY DEF Decision

LEMMA JudgedOK ==
  ASSUME StateOK, NEW k \in Comparison, CompareOK(k, written), k.status = "completed"
  PROVE  CompareOK(Judged(k, Decision(TopScore(NamedScores(k.results)))), written)
<1> DEFINE top == TopScore(NamedScores(k.results))
           v == Decision(top)
           q == Judged(k, v)
<1>1. v \in Decisions
  BY DEF Decision, Decisions
<1>2. /\ q.verdict = v /\ q.status = "completed" /\ q.asked = k.asked /\ q.results = k.results
  BY <1>1, JudgedTyped
<1>3. Ranks(k, written) /\ k.results # <<>>
  BY DEF CompareOK
<1>4. Ranks(q, written)
  <2> HIDE DEF q
  <2> QED
    BY <1>2, <1>3 DEF Ranks
<1>5. /\ top \in 0..100 /\ top <= k.results[1].value
      /\ (\A i \in DOMAIN k.results :
            i # 1 => NameOf[k.results[i].candidate] # NameOf[k.results[1].candidate])
           => top = k.results[1].value
  BY TopScoreOf
<1>6. k.results[1].value \in 0..100
  BY RankedHighestFirst
<1> HIDE DEF top
<1>7. /\ v = "strong" => k.results[1].value >= 80
      /\ v \in {"moderate", "weak"} /\ top = k.results[1].value
           => k.results[1].value < 80 /\ (v = "weak" <=> k.results[1].value < 60)
  BY <1>5, <1>6, VerdictOfTop
<1> HIDE DEF v, q
<1>8. VerdictFits(q)
  BY <1>2, <1>5, <1>7 DEF VerdictFits
<1>9. CompareOK(q, written)
  BY <1>2, <1>3, <1>4, <1>8 DEF CompareOK
<1> QED
  BY <1>9 DEF q, v, top

LEMMA EndAnalyzeKeepsCompares ==
  ASSUME StateOK, ComparesOK, NEW s \in Sessions, EndAnalyze(s)
  PROVE  ComparesOK'
<1> DEFINE m == session[s].comp
           v == Decision(TopScore(NamedScores(comps[m].results)))
<1>1. /\ m \in DOMAIN comps /\ comps[m].status = "completed" /\ v \in Decisions
      /\ DOMAIN comps' = DOMAIN comps
      /\ \A i \in DOMAIN comps : comps[i] \in Comparison
      /\ comps'[m] = Judged(comps[m], v)
      /\ \A i \in DOMAIN comps : i # m => comps'[i] = comps[i]
      /\ written' = written
  BY EndAnalyzeDoes
<1>2. comps[m].kind = "compare" => CompareOK(Judged(comps[m], v), written)
  BY <1>1, JudgedOK DEF ComparesOK
<1> HIDE DEF m, v
<1>3. comps'[m].kind = comps[m].kind
  BY <1>1, JudgedTyped
<1>4. ASSUME NEW i \in DOMAIN comps', comps'[i].kind = "compare"
      PROVE  CompareOK(comps'[i], written')
  <2>1. CASE i = m
    BY <1>1, <1>2, <1>3, <1>4, <2>1
  <2>2. CASE i # m
    BY <1>1, <1>4, <2>2 DEF ComparesOK
  <2> QED
    BY <2>1, <2>2
<1> QED
  BY <1>4 DEF ComparesOK

(* What is appended by a tiebreaker is of a tiebreaker.                    *)
LEMMA EndOfTiebreak ==
  ASSUME StateOK, NEW s \in Sessions,
         TiebreakFails(s) \/ \E listed \in Listed : EndTiebreak(s, listed)
  PROVE  /\ Kind(s) = "tiebreak" /\ UNCHANGED <<score, written, page, time>>
         /\ \E status \in {"completed", "failed"}, results \in Seq(Result) :
              /\ \A i \in DOMAIN results : results[i].candidate \in session[s].among
              /\ Broken(session[s], status, results) \in Comparison
              /\ comps' = Append(comps, Broken(session[s], status, results))
<1>1. CASE TiebreakFails(s)
  <2>1. /\ Kind(s) = "tiebreak" /\ UNCHANGED <<score, written, page, time>>
        /\ comps' = Append(comps, Broken(session[s], "failed", <<>>))
    BY <1>1, TiebreakFailsDoes
  <2>2. <<>> \in Seq(Result) /\ \A i \in DOMAIN <<>> : <<>>[i].candidate \in session[s].among
    OBVIOUS
  <2>3. Broken(session[s], "failed", <<>>) \in Comparison
    BY <2>1, <2>2, TiebreakTyped, BrokenTyped
  <2> QED
    BY <2>1, <2>2, <2>3
<1>2. CASE \E listed \in Listed : EndTiebreak(s, listed)
  <2>1. PICK listed \in Listed : EndTiebreak(s, listed)
    BY <1>2
  <2>2. Kind(s) = "tiebreak" /\ UNCHANGED <<score, written, page, time>>
    BY <2>1, EndTiebreakDoes DEF Listed
  <2>3. PICK results \in Seq(Result) :
          /\ \A i \in DOMAIN results : results[i].candidate \in session[s].among
          /\ comps' = Append(comps, Broken(session[s], "completed", results))
    BY <2>1, EndTiebreakDoes DEF Listed
  <2>4. Broken(session[s], "completed", results) \in Comparison
    BY <2>2, TiebreakTyped, BrokenTyped
  <2> QED
    BY <2>2, <2>3, <2>4
<1> QED
  BY <1>1, <1>2

LEMMA TiebreakKeepsCompares ==
  ASSUME StateOK, ComparesOK, NEW s \in Sessions,
         TiebreakFails(s) \/ \E listed \in Listed : EndTiebreak(s, listed)
  PROVE  ComparesOK'
<1>1. PICK status \in {"completed", "failed"}, results \in Seq(Result) :
        /\ Broken(session[s], status, results) \in Comparison
        /\ comps' = Append(comps, Broken(session[s], status, results))
  BY EndOfTiebreak
<1>2. Broken(session[s], status, results).kind # "compare"
  BY DEF Broken
<1>3. written \subseteq written'
  BY EndOfTiebreak
<1> QED
  BY <1>1, <1>2, <1>3, AppendKeepsCompares

LEMMA ComparesKept ==
  ASSUME StateOK, HistoryOK, ComparesOK, [Next]_vars
  PROVE  ComparesOK'
<1>1. ASSUME UNCHANGED <<written, comps>>
      PROVE  ComparesOK'
  BY <1>1 DEF ComparesOK
<1>2. CASE Quiet
  BY <1>1, <1>2 DEF Quiet
<1>3. ASSUME NEW s \in Sessions, Idle(s) \/ Advance(s) \/ EndShortlist(s)
      PROVE  ComparesOK'
  <2>1. UNCHANGED <<written, comps>>
    BY <1>3, StepIsGoto DEF Idle, Advance, Look, Upsert, Answer, EndShortlist
  <2> QED
    BY <1>1, <2>1
<1>4. ASSUME NEW s \in Sessions, CommitScores(s) \/ CompareFails(s) \/ EndAnalyze(s)
      PROVE  ComparesOK'
  BY <1>4, CommitScoresKeepsCompares, CompareFailsKeepsCompares, EndAnalyzeKeepsCompares
<1>5. ASSUME NEW s \in Sessions, TiebreakFails(s) \/ \E listed \in Listed : EndTiebreak(s, listed)
      PROVE  ComparesOK'
  BY <1>5, TiebreakKeepsCompares
<1> QED
  BY <1>2, <1>3, <1>4, <1>5, StepsAre

(* A completed comparison ranks each candidate it was asked about once, by *)
(* scores that were committed for the inputs it loaded, also when some of  *)
(* them came from the cache; its verdict fits the top score, unless a      *)
(* namesake stands in for it; a failed comparison says nothing             *)
(* (comparisons/router.py, create_comparison and analyze_head_to_head).    *)
THEOREM ComparisonsStandUp == Spec => []ComparisonsAddUp
<1>1. Init => ComparesOK
  <2>1. Init => DOMAIN comps = {}
    BY DEF Init
  <2> QED
    BY <2>1 DEF ComparesOK
<1>2. StateOK /\ HistoryOK /\ ComparesOK /\ [Next]_vars => ComparesOK'
  BY ComparesKept
<1>3. StateOK /\ ComparesOK => ComparisonsAddUp
  BY ComparesAddUp
<1> QED
  BY <1>1, <1>2, <1>3, StateInvariant, HistoryInvariant, PTL DEF Spec
-----------------------------------------------------------------------------
(* Shortlists and tiebreakers *)

TiebreakOK(k) ==
  /\ k.rows \in Rows /\ k.target \in Targets /\ k.results \in Seq(Result)
  /\ k.slots = Slots(k.rows, k.target)
  /\ \A i \in DOMAIN k.results : k.results[i].candidate \in InTier(k.rows, k.target, "A")

TiebreaksOK == \A i \in DOMAIN comps : comps[i].kind = "tiebreak" => TiebreakOK(comps[i])

PageOK ==
  page # None => /\ page.target # None => Seated(page.tier, page.target)
                 /\ page.began = page.ended => Ordered(page.tier, page.shown)

(* The first of a list are no more than its length says.                   *)
LEMMA FirstOf ==
  ASSUME NEW results, NEW n \in Nat
  PROVE  LET picked == {results[i].candidate : i \in 1..n} IN
         IsFiniteSet(picked) /\ Cardinality(picked) \in Nat /\ Cardinality(picked) <= n
<1> DEFINE picked == {results[i].candidate : i \in 1..n}
           f == [i \in 1..n |-> results[i].candidate]
<1>1. f \in Surjection(1..n, picked)
  BY DEF Surjection
<1>2. IsFiniteSet(1..n) /\ Cardinality(1..n) = n
  BY FS_Interval
<1> HIDE DEF f, picked
<1>3. IsFiniteSet(picked) /\ Cardinality(picked) <= n
  BY <1>1, <1>2, FS_Surjection
<1>4. Cardinality(picked) \in Nat
  BY <1>3, FS_CardinalityType
<1> QED
  BY <1>3, <1>4 DEF picked

LEMMA TiebreakAddsUp ==
  ASSUME NEW k, TiebreakOK(k)
  PROVE  LET recommended == {k.results[i].candidate : i \in 1..Min({k.slots, Len(k.results)})}
             tier == AssignTiers(k.rows, k.target)
             S == {c \in Candidates : tier[c] = "S"}
         IN /\ Seated(tier, k.target)
            /\ \A c \in recommended : tier[c] = "A"
            /\ Cardinality(S \cup recommended) <= k.target
<1> DEFINE n == Min({k.slots, Len(k.results)})
           recommended == {k.results[i].candidate : i \in 1..n}
           tier == AssignTiers(k.rows, k.target)
           S == {c \in Candidates : tier[c] = "S"}
<1>1. k.rows \in Rows /\ k.target \in Targets /\ k.results \in Seq(Result)
      /\ k.slots = Slots(k.rows, k.target)
  BY DEF TiebreakOK
<1>2. Seated(tier, k.target)
  BY <1>1, TiersSeated
<1>3. S = InTier(k.rows, k.target, "S")
  BY DEF InTier
<1>4. k.slots \in Nat /\ Cardinality(S) \in Nat /\ k.slots + Cardinality(S) = k.target
      /\ k.target \in Nat /\ IsFiniteSet(S)
  BY <1>1, <1>3, SlotsTyped
<1>5. Len(k.results) \in Nat /\ DOMAIN k.results = 1..Len(k.results)
  BY <1>1
<1>6. n \in Nat /\ n <= k.slots /\ n <= Len(k.results)
  BY <1>4, <1>5, MinOfTwo
<1> HIDE DEF n
<1>7. \A i \in 1..n : i \in DOMAIN k.results
  BY <1>5, <1>6
<1>8. \A i \in 1..n : tier[k.results[i].candidate] = "A"
  BY <1>7 DEF TiebreakOK, InTier
<1>9. \A c \in recommended : tier[c] = "A"
  <2> HIDE DEF tier
  <2> QED
    BY <1>8
<1>10. IsFiniteSet(recommended) /\ Cardinality(recommended) \in Nat
       /\ Cardinality(recommended) <= n
  BY <1>6, FirstOf
<1> HIDE DEF recommended, S, tier
<1>11. /\ IsFiniteSet(S \cap recommended)
       /\ Cardinality(S \cup recommended)
            = Cardinality(S) + Cardinality(recommended) - Cardinality(S \cap recommended)
  BY <1>4, <1>10, FS_Union, FS_Intersection
<1>12. Cardinality(S \cap recommended) \in Nat
  BY <1>11, FS_CardinalityType
<1>13. Cardinality(S \cup recommended) <= k.target
  BY <1>4, <1>6, <1>10, <1>11, <1>12
<1> QED
  BY <1>2, <1>9, <1>13 DEF recommended, S, tier, n

LEMMA ShortlistsAre ==
  ASSUME PageOK, TiebreaksOK
  PROVE  ShortlistsAddUp
<1>1. page # None =>
       /\ page.target # None => Seated(page.tier, page.target)
       /\ page.began = page.ended => Ordered(page.tier, page.shown)
  BY DEF PageOK
<1>2. ASSUME NEW k \in Range(comps), k.kind = "tiebreak"
      PROVE  LET recommended == {k.results[i].candidate : i \in 1..Min({k.slots, Len(k.results)})}
                 tier == AssignTiers(k.rows, k.target)
                 S == {c \in Candidates : tier[c] = "S"}
             IN /\ Seated(tier, k.target)
                /\ \A c \in recommended : tier[c] = "A"
                /\ Cardinality(S \cup recommended) <= k.target
  <2>1. PICK i \in DOMAIN comps : k = comps[i]
    BY DEF Range
  <2>2. TiebreakOK(k)
    BY <1>2, <2>1 DEF TiebreaksOK
  <2> QED
    BY <2>2, TiebreakAddsUp
<1> QED
  BY <1>1, <1>2 DEF ShortlistsAddUp

(* A page's tiers are of the rows it began with; they are what it shows    *)
(* when nothing was committed meanwhile.                                   *)
LEMMA EndShortlistKeepsPage ==
  ASSUME StateOK, NEW s \in Sessions, EndShortlist(s)
  PROVE  PageOK'
<1> DEFINE r == session[s]
           shown == [c \in Candidates |-> IF r.rows[c] = None THEN None ELSE score[c]]
           tier == AssignTiers(r.rows, r.target)
<1>1. KindOf(r) = "shortlist" /\ r \in Record \cup {None} /\ SessionOK(r, time, comps, score)
  BY SessionTyped DEF EndShortlist
<1>2. r \in Shortlist /\ (r.began = time => r.rows = score)
  BY <1>1, KindsApart DEF SessionOK
<1>3. r.rows \in Rows /\ r.target \in Targets \cup {None}
  BY <1>2 DEF Shortlist
<1>4. page' = [tier |-> tier, shown |-> shown, target |-> r.target, began |-> r.began,
               ended |-> time]
  BY DEF EndShortlist
<1>5. r.target # None => Seated(tier, r.target)
  BY <1>3, TiersSeated
<1>6. r.began = time => Ordered(tier, shown)
  <2>1. SUFFICES ASSUME r.began = time
                 PROVE  Ordered(tier, shown)
    OBVIOUS
  <2>2. r.rows = score
    BY <1>2, <2>1
  <2>3. shown = r.rows
    <3>1. \A c \in Candidates : shown[c] = r.rows[c]
      BY <2>2
    <3>2. r.rows = [c \in Candidates |-> r.rows[c]]
      BY <1>3 DEF Rows
    <3> QED
      BY <2>2, <3>1, <3>2
  <2>4. Ordered(tier, r.rows)
    BY <1>3, TiersOrdered
  <2> HIDE DEF shown, tier
  <2> QED
    BY <2>3, <2>4
<1> HIDE DEF shown, tier, r
<1>7. /\ page'.tier = tier /\ page'.shown = shown /\ page'.target = r.target
      /\ page'.began = r.began /\ page'.ended = time
  BY <1>4
<1> QED
  BY <1>5, <1>6, <1>7 DEF PageOK

LEMMA AppendKeepsTiebreaks ==
  ASSUME StateOK, TiebreaksOK, NEW k \in Comparison, k.kind = "tiebreak" => TiebreakOK(k),
         comps' = Append(comps, k)
  PROVE  TiebreaksOK'
<1>1. comps \in Seq(Comparison)
  BY DEF StateOK, TypeOK
<1>2. /\ DOMAIN comps' = DOMAIN comps \cup {Len(comps) + 1}
      /\ comps'[Len(comps) + 1] = k
      /\ \A i \in DOMAIN comps : comps'[i] = comps[i]
  BY <1>1, Appended
<1>3. ASSUME NEW i \in DOMAIN comps', comps'[i].kind = "tiebreak"
      PROVE  TiebreakOK(comps'[i])
  <2>1. CASE i = Len(comps) + 1
    BY <1>2, <1>3, <2>1
  <2>2. CASE i \in DOMAIN comps
    BY <1>2, <1>3, <2>2 DEF TiebreaksOK
  <2> QED
    BY <1>2, <2>1, <2>2
<1> QED
  BY <1>3 DEF TiebreaksOK

LEMMA CommitsKeepTiebreaks ==
  ASSUME StateOK, TiebreaksOK, NEW s \in Sessions, CommitScores(s) \/ CompareFails(s)
  PROVE  TiebreaksOK'
<1>1. CASE comps' = comps
  BY <1>1 DEF TiebreaksOK
<1>2. CASE CommitScores(s) /\ comps' # comps
  <2>1. PICK ranked \in SetToSeqs(Asked(s)) :
          comps' = Append(comps, Compared(Asked(s), session[s], ranked))
    BY <1>2, CommitScoresDoes
  <2>2. session[s] \in Scoring
    BY <1>2, CommitScoresDoes, SessionTyped
  <2>3. Compared(Asked(s), session[s], ranked) \in Comparison
    BY <2>2, AskedCounted, ComparedTyped
  <2>4. Compared(Asked(s), session[s], ranked).kind # "tiebreak"
    BY DEF Compared
  <2> QED
    BY <2>1, <2>3, <2>4, AppendKeepsTiebreaks
<1>3. CASE CompareFails(s)
  <2>1. comps' = Append(comps, NotCompared(Asked(s)))
    BY <1>3, CompareFailsDoes
  <2>2. NotCompared(Asked(s)) \in Comparison
    BY AskedCounted, NotComparedTyped
  <2>3. NotCompared(Asked(s)).kind # "tiebreak"
    BY DEF NotCompared
  <2> QED
    BY <2>1, <2>2, <2>3, AppendKeepsTiebreaks
<1> QED
  BY <1>1, <1>2, <1>3

LEMMA EndKeepsTiebreaks ==
  ASSUME StateOK, TiebreaksOK, NEW s \in Sessions,
         TiebreakFails(s) \/ \E listed \in Listed : EndTiebreak(s, listed)
  PROVE  TiebreaksOK'
<1> DEFINE r == session[s]
<1>1. Kind(s) = "tiebreak"
  BY EndOfTiebreak
<1>2. PICK status \in {"completed", "failed"}, results \in Seq(Result) :
        /\ \A i \in DOMAIN results : results[i].candidate \in r.among
        /\ Broken(r, status, results) \in Comparison
        /\ comps' = Append(comps, Broken(r, status, results))
  BY EndOfTiebreak
<1>3. /\ r.rows \in Rows /\ r.target \in Targets
      /\ r.among \subseteq InTier(r.rows, r.target, "A")
  BY <1>1, TiebreakTyped
<1> DEFINE k == Broken(r, status, results)
<1>4. /\ k.rows = r.rows /\ k.target = r.target /\ k.results = results
      /\ k.slots = Slots(r.rows, r.target)
  BY DEF Broken
<1> HIDE DEF k, r
<1>5. TiebreakOK(k)
  BY <1>2, <1>3, <1>4 DEF TiebreakOK
<1> QED
  BY <1>2, <1>5, AppendKeepsTiebreaks DEF k

LEMMA AnalyzeKeepsTiebreaks ==
  ASSUME StateOK, TiebreaksOK, NEW s \in Sessions, EndAnalyze(s)
  PROVE  TiebreaksOK'
<1> DEFINE m == session[s].comp
           v == Decision(TopScore(NamedScores(comps[m].results)))
<1>1. /\ m \in DOMAIN comps /\ v \in Decisions /\ DOMAIN comps' = DOMAIN comps
      /\ \A i \in DOMAIN comps : comps[i] \in Comparison
      /\ comps'[m] = Judged(comps[m], v)
      /\ \A i \in DOMAIN comps : i # m => comps'[i] = comps[i]
  BY EndAnalyzeDoes
<1> HIDE DEF m, v
<1>2. /\ comps'[m].kind = comps[m].kind /\ comps'[m].results = comps[m].results
      /\ comps'[m].rows = comps[m].rows /\ comps'[m].target = comps[m].target
      /\ comps'[m].slots = comps[m].slots
  BY <1>1, JudgedTyped
<1>3. ASSUME NEW i \in DOMAIN comps', comps'[i].kind = "tiebreak"
      PROVE  TiebreakOK(comps'[i])
  <2>1. CASE i = m
    <3>1. TiebreakOK(comps[m])
      BY <1>1, <1>2, <1>3, <2>1 DEF TiebreaksOK
    <3> QED
      BY <1>2, <2>1, <3>1 DEF TiebreakOK
  <2>2. CASE i # m
    BY <1>1, <1>3, <2>2 DEF TiebreaksOK
  <2> QED
    BY <2>1, <2>2
<1> QED
  BY <1>3 DEF TiebreaksOK

LEMMA ShortlistsKept ==
  ASSUME StateOK, PageOK, TiebreaksOK, [Next]_vars
  PROVE  PageOK' /\ TiebreaksOK'
<1>1. page' = page => PageOK'
  BY DEF PageOK
<1>2. comps' = comps => TiebreaksOK'
  BY DEF TiebreaksOK
<1>3. CASE Quiet
  BY <1>1, <1>2, <1>3 DEF Quiet
<1>4. ASSUME NEW s \in Sessions, Idle(s) \/ Advance(s)
      PROVE  PageOK' /\ TiebreaksOK'
  <2>1. page' = page /\ comps' = comps
    BY <1>4, StepIsGoto DEF Idle, Advance, Look, Upsert, Answer
  <2> QED
    BY <1>1, <1>2, <2>1
<1>5. ASSUME NEW s \in Sessions, CommitScores(s) \/ CompareFails(s)
      PROVE  PageOK' /\ TiebreaksOK'
  BY <1>1, <1>5, CommitScoresDoes, CompareFailsDoes, CommitsKeepTiebreaks
<1>6. ASSUME NEW s \in Sessions, EndAnalyze(s)
      PROVE  PageOK' /\ TiebreaksOK'
  <2>1. page' = page
    BY <1>6 DEF EndAnalyze
  <2> QED
    BY <1>1, <1>6, <2>1, AnalyzeKeepsTiebreaks
<1>7. ASSUME NEW s \in Sessions, EndShortlist(s)
      PROVE  PageOK' /\ TiebreaksOK'
  <2>1. comps' = comps
    BY <1>7 DEF EndShortlist
  <2> QED
    BY <1>2, <1>7, <2>1, EndShortlistKeepsPage
<1>8. ASSUME NEW s \in Sessions, TiebreakFails(s) \/ \E listed \in Listed : EndTiebreak(s, listed)
      PROVE  PageOK' /\ TiebreaksOK'
  BY <1>1, <1>8, EndOfTiebreak, EndKeepsTiebreaks
<1> QED
  BY <1>3, <1>4, <1>5, <1>6, <1>7, <1>8, StepsAre

(* A shortlist's tiers fit the seats for any rows and target, and the      *)
(* scores beside them unless one was committed while it was read; what a   *)
(* tiebreaker recommends is on the cut, and with the S tier no more than   *)
(* the seats, whatever names the LLM lists (comparisons/tiering.py,        *)
(* assign_tiers; jobs/router.py, get_job_shortlist and run_tiebreaker).    *)
THEOREM ShortlistsFit == Spec => []ShortlistsAddUp
<1>1. Init => PageOK /\ TiebreaksOK
  <2>1. Init => page = None /\ DOMAIN comps = {}
    BY DEF Init
  <2> QED
    BY <2>1 DEF PageOK, TiebreaksOK
<1>2. StateOK /\ PageOK /\ TiebreaksOK /\ [Next]_vars => PageOK' /\ TiebreaksOK'
  BY ShortlistsKept
<1>3. PageOK /\ TiebreaksOK => ShortlistsAddUp
  BY ShortlistsAre
<1> QED
  BY <1>1, <1>2, <1>3, StateInvariant, PTL DEF Spec
=============================================================================
