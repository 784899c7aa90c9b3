------------------------------ MODULE JobScoring ------------------------------
(***************************************************************************)
(* Scores of a job's applicants, and what is made of them: comparisons,    *)
(* shortlists and tiebreakers.  Scores are computed by a slow LLM from the *)
(* candidate and the job as loaded, and cached by a hash of both; scoring  *)
(* tasks, requests and edits overlap, and a row that was written is locked *)
(* until its transaction ends.                                             *)
(***************************************************************************)
EXTENDS Integers, FiniteSets, Sequences, SequencesExt

CONSTANTS
  Candidates,
  NameOf,     \* what the LLM calls each candidate
  Stranger,   \* a name of nobody
  Skills,
  Values,     \* bound: the scores there may be, of 0..100
  Threshold,  \* threshold_score, times ten
  Targets,    \* bound: candidates_for_next_stage
  Sessions,
  Scenarios,  \* bound: the operations looked at together, and from where
  MaxStarts,  \* bound on tasks and requests, of any scenario
  MaxEdits,   \* bound on edits of candidates and of the job
  MaxListed,  \* bound on the names a tiebreaker lists
  None

Operations ==
  {"score", "compare", "analyze", "shortlist", "tiebreak", "edit", "delete", "update"}
\* Candidates that are live and the score of each, if any; scores the LLM gives;
\* lists of skills a job may be created with; how many tasks and requests start.
Scenario == [ops: SUBSET Operations, live: SUBSET Candidates,
             scores: [Candidates -> Values \cup {None}], values: SUBSET Values,
             lists: SUBSET SUBSET Skills, starts: 0..MaxStarts]

ASSUME ScoringConstants ==
  /\ IsFiniteSet(Candidates) /\ IsFiniteSet(Sessions)
  /\ Values \subseteq 0..100 /\ Threshold \in 0..100
  /\ Targets \subseteq Nat \ {0}
  /\ \A x \in Scenarios : x \in Scenario /\ x.lists # {}
  /\ MaxStarts \in Nat /\ MaxEdits \in Nat /\ MaxListed \in Nat
  /\ None \notin Values \cup Targets

MaxRetries == 2
Times == 0..MaxStarts
Edits == 0..MaxEdits
Decisions == {"strong", "moderate", "weak"}
Tiers == {"S", "A", "B", "F", "qualified"}

Job == [text: Edits, tech: SUBSET Skills, soft: SUBSET Skills, required: SUBSET Skills]
\* What score_input_hash is of: a candidate as edited, and the job.
Inputs == [edit: Edits, job: Job]
Score == [value: Values, input: Inputs]
Rows == [Candidates -> Score \cup {None}]

ASSUME NoneApart == None \notin Score \cup Tiers \cup Decisions

\* A score that was committed, with when its cache lookup was.
Written == [candidate: Candidates, value: Values, input: Inputs,
            looked: Times, committed: Times]

\* For each candidate: the cache is to be looked at, the LLM is asked, its
\* answer is to be written, the score is there.
Phases == {"absent", "look", "ask", "write", "have"}
Scoring == [kind: {"score", "compare"}, phase: [Candidates -> Phases],
            of: [Candidates -> Inputs], value: [Candidates -> Values \cup {None}],
            looked: [Candidates -> Times], wrote: SUBSET Candidates, left: 0..MaxRetries]
Retry == [kind: {"retry"}, candidate: Candidates, left: 0..MaxRetries]
Analysis == [kind: {"analyze"}, comp: 1..MaxStarts]
Shortlist == [kind: {"shortlist"}, rows: Rows, target: Targets \cup {None}, began: Times]
Tiebreak == [kind: {"tiebreak"}, rows: Rows, target: Targets, among: SUBSET Candidates]
Given == (SUBSET Skills) \cup {None}
Update == [kind: {"update"}, job: Job, text: BOOLEAN, tech: Given, soft: Given, legacy: Given]

Result == [candidate: Candidates, value: Values \cup {None}, input: Inputs \cup {None}]
Comparison == [kind: {"compare", "tiebreak"}, status: {"completed", "failed"},
               asked: SUBSET Candidates, results: Seq(Result),
               rows: Rows \cup {None}, target: Targets \cup {None}, slots: Nat,
               verdict: Decisions \cup {"slots", None}]
Page == [tier: [Candidates -> Tiers \cup {None}], shown: Rows,
         target: Targets \cup {None}, began: Times, ended: Times]

VARIABLES
  scenario,
  edit,     \* candidates: the last edit of each
  live,     \* candidates that are not deleted
  job,
  open,     \* the job is not deleted
  raced,    \* the job was updated between an update's load and its commit
  score,    \* candidate_job_scores
  written,  \* every score that was committed
  comps,    \* comparisons and their results; pending ones are not committed
  page,     \* the last shortlist that was served
  session,
  time,     \* commits of scores so far
  starts,
  edits

held == <<edit, live, job, open, raced, edits>>
kept == <<score, written, comps, page, time>>
vars == <<scenario, held, kept, session, starts>>

TypeOK ==
  /\ scenario \in Scenarios
  /\ edit \in [Candidates -> Edits] /\ live \subseteq Candidates
  /\ job \in Job /\ open \in BOOLEAN /\ raced \in BOOLEAN
  /\ score \in Rows
  /\ written \subseteq Written
  /\ comps \in Seq(Comparison)
  /\ page \in Page \cup {None}
  /\ \A s \in Sessions : session[s] \in
       Scoring \cup Retry \cup Analysis \cup Shortlist \cup Tiebreak \cup Update \cup {None}
  /\ time \in Times /\ starts \in 0..MaxStarts /\ edits \in Edits
-----------------------------------------------------------------------------
Kind(s) == IF session[s] = None THEN "none" ELSE session[s].kind
Input(c) == [edit |-> edit[c], job |-> job]
Goto(s, r) == session' = [session EXCEPT ![s] = r]

Start(s, op, r) ==
  /\ op \in scenario.ops
  /\ session[s] = None /\ starts < scenario.starts
  /\ Goto(s, r) /\ starts' = starts + 1
  /\ UNCHANGED <<scenario, held, kept>>

\* A step of a session that commits nothing.
Step(s, r) == Goto(s, r) /\ UNCHANGED <<scenario, held, kept, starts>>

\* The session's transaction ends.
End(s) == Goto(s, None) /\ UNCHANGED <<scenario, held, starts>>

\* update_candidate and the like: what is hashed changes.
EditCandidate(c) ==
  /\ "edit" \in scenario.ops
  /\ c \in live /\ edits < MaxEdits /\ edits' = edits + 1
  /\ edit' = [edit EXCEPT ![c] = edits + 1]
  /\ UNCHANGED <<scenario, live, job, open, raced, kept, session, starts>>

DeleteCandidate(c) ==
  /\ "delete" \in scenario.ops
  /\ c \in live
  /\ live' = live \ {c}
  /\ UNCHANGED <<scenario, edit, job, open, raced, edits, kept, session, starts>>

DeleteJob ==
  /\ "delete" \in scenario.ops
  /\ open
  /\ open' = FALSE
  /\ UNCHANGED <<scenario, edit, live, job, raced, edits, kept, session, starts>>
-----------------------------------------------------------------------------
(* The job's skills *)

\* Mutant: a list that was sent is taken as it is.
LegacyOnly(tech, soft, legacy) == legacy

Merged(tech, soft, legacy) == tech \cup soft \cup legacy

\* create_job: a flat list is technical, and when there is no list at all the
\* LLM may suggest the split.
Created(tech, soft, legacy, suggested) ==
  LET all == tech \cup soft \cup legacy
      t == IF all = {} THEN suggested.tech ELSE IF tech \cup soft = {} THEN legacy ELSE tech
      f == IF all = {} THEN suggested.soft ELSE soft
  IN [text |-> 0, tech |-> t, soft |-> f, required |-> Merged(t, f, legacy)]

\* update_job loads the job ...
BeginUpdate(s, text, tech, soft, legacy) ==
  /\ open
  /\ Start(s, "update", [kind |-> "update", job |-> job, text |-> text, tech |-> tech,
                         soft |-> soft, legacy |-> legacy])

\* ... and writes the columns that it has changed, a list also when it is only
\* in another order.
CommitUpdate(s, reordered) ==
  /\ Kind(s) = "update" /\ edits < MaxEdits
  /\ LET r == session[s]
         touched == \E given \in {r.tech, r.soft, r.legacy} : given # None
         tech == IF r.tech = None THEN r.job.tech ELSE r.tech
         soft == IF r.soft = None THEN r.job.soft ELSE r.soft
         legacy == IF r.legacy = None THEN r.job.required ELSE r.legacy
         required == IF touched THEN Merged(tech, soft, legacy) ELSE r.job.required
     IN /\ ("tech" \in reordered => r.tech # None) /\ ("soft" \in reordered => r.soft # None)
        /\ "required" \in reordered => touched
        /\ job' = [text |-> IF r.text THEN edits + 1 ELSE job.text,
                   tech |-> IF tech # r.job.tech \/ "tech" \in reordered
                              THEN tech ELSE job.tech,
                   soft |-> IF soft # r.job.soft \/ "soft" \in reordered
                              THEN soft ELSE job.soft,
                   required |-> IF required # r.job.required \/ "required" \in reordered
                                  THEN required ELSE job.required]
        /\ raced' = (raced \/ r.job # job)
  /\ edits' = edits + 1
  /\ Goto(s, None)
  /\ UNCHANGED <<scenario, edit, live, open, kept, starts>>
-----------------------------------------------------------------------------
(* score_with_cache, by a task for one candidate and by a comparison *)

Loaded(kind, cs, left) ==
  [kind |-> kind, phase |-> [c \in Candidates |-> IF c \in cs THEN "look" ELSE "absent"],
   of |-> [c \in Candidates |-> Input(c)], value |-> [c \in Candidates |-> None],
   looked |-> [c \in Candidates |-> 0], wrote |-> {}, left |-> left]

StartScore(s, c) ==
  /\ open /\ c \in live
  /\ Start(s, "score", Loaded("score", {c}, MaxRetries))

\* create_comparison, of candidates that are all there.
StartCompare(s, cs) ==
  /\ open /\ cs \subseteq live /\ Cardinality(cs) > 1
  /\ Start(s, "compare", Loaded("compare", cs, 0))

InPhase(s, c, phase) ==
  Kind(s) \in {"score", "compare"} /\ session[s].phase[c] = phase
Asked(s) == {c \in Candidates : session[s].phase[c] # "absent"}

\* Mutant: the hash is not compared.
AnyRow(c, i) == score[c] # None

\* Mutant: the hash never matches.
NoRow(c, i) == FALSE

Cached(c, i) == score[c] # None /\ score[c].input = i

Look(s, c) ==
  /\ InPhase(s, c, "look")
  /\ LET r == [session[s] EXCEPT !.looked[c] = time] IN
       Step(s, IF Cached(c, r.of[c])
                 THEN [r EXCEPT !.phase[c] = "have", !.value[c] = score[c].value]
                 ELSE [r EXCEPT !.phase[c] = "ask"])

Answer(s, c, v) ==
  /\ InPhase(s, c, "ask")
  /\ Step(s, [session[s] EXCEPT !.phase[c] = "write", !.value[c] = v])

\* A row that was upserted is locked until its transaction ends.
Locks(s) == IF Kind(s) \in {"score", "compare"} THEN session[s].wrote ELSE {}

Upsert(s, c) ==
  /\ InPhase(s, c, "write")
  /\ \A t \in Sessions \ {s} : c \notin Locks(t)
  /\ Step(s, [session[s] EXCEPT !.phase[c] = "have", !.wrote = @ \cup {c}])

\* The scores that s has upserted are committed.
Saves(s) ==
  LET r == session[s] IN
  /\ score' = [c \in Candidates |-> IF c \in r.wrote
                 THEN [value |-> r.value[c], input |-> r.of[c]] ELSE score[c]]
  /\ written' = written \cup
       {[candidate |-> c, value |-> r.value[c], input |-> r.of[c],
         looked |-> r.looked[c], committed |-> time + 1] : c \in r.wrote}
  /\ time' = time + 1

\* The gather is over: a comparison ranks what it has, by score.
CommitScores(s) ==
  /\ Kind(s) \in {"score", "compare"}
  /\ \A c \in Asked(s) : session[s].phase[c] = "have"
  /\ Saves(s)
  /\ LET r == session[s] IN
     \/ r.kind = "score" /\ UNCHANGED comps
     \/ /\ r.kind = "compare"
        /\ \E ranked \in SetToSeqs(Asked(s)) :
             /\ \A i, j \in DOMAIN ranked : i < j => r.value[ranked[i]] >= r.value[ranked[j]]
             /\ comps' = Append(comps,
                  [kind |-> "compare", status |-> "completed", asked |-> Asked(s),
                   results |-> [i \in DOMAIN ranked |->
                      [candidate |-> ranked[i], value |-> r.value[ranked[i]],
                       input |-> r.of[ranked[i]]]],
                   rows |-> None, target |-> None, slots |-> 0, verdict |-> None])
  /\ End(s) /\ UNCHANGED page

\* An LLM call of the gather fails: the comparison is saved as failed with the
\* scores that were upserted by then, and what the other calls answer is lost.
CompareFails(s) ==
  /\ Kind(s) = "compare" /\ \E c \in Candidates : session[s].phase[c] = "ask"
  /\ Saves(s)
  /\ comps' = Append(comps,
       [kind |-> "compare", status |-> "failed", asked |-> Asked(s), results |-> <<>>,
        rows |-> None, target |-> None, slots |-> 0, verdict |-> None])
  /\ End(s) /\ UNCHANGED page

\* Mutant: the retries are not counted.
ScoreFailsForEver(s) ==
  /\ Kind(s) = "score"
  /\ Step(s, [kind |-> "retry", candidate |-> CHOOSE c \in Asked(s) : TRUE,
              left |-> session[s].left - 1])

\* Whatever fails in a task, it is tried again, twice.
ScoreFails(s) ==
  /\ Kind(s) = "score"
  /\ LET r == session[s] IN
       Step(s, IF r.left = 0 THEN None
               ELSE [kind |-> "retry", candidate |-> CHOOSE c \in Asked(s) : TRUE,
                     left |-> r.left - 1])

RetryScore(s) ==
  /\ Kind(s) = "retry"
  /\ LET c == session[s].candidate IN
       Step(s, IF open /\ c \in live THEN Loaded("score", {c}, session[s].left) ELSE None)

\* A process dies, or the database fails: nothing is saved.
Abort(s) == session[s] # None /\ Kind(s) # "retry" /\ Step(s, None)

\* Two transactions that wait for each other's rows: PostgreSQL fails one.
WaitsFor(s, t) == \E c \in Locks(t) : InPhase(s, c, "write")
Deadlock(s, t) ==
  /\ s # t /\ WaitsFor(s, t) /\ WaitsFor(t, s)
  /\ Step(s, None)
-----------------------------------------------------------------------------
(* analyze_head_to_head *)

\* A verdict of a tiebreaker does not parse as one of an analysis.
BeginAnalyze(s, i) ==
  /\ i \in DOMAIN comps
  /\ comps[i].status = "completed" /\ comps[i].verdict \notin Decisions
  /\ Start(s, "analyze", [kind |-> "analyze", comp |-> i])

\* The scores by name: of two candidates of a name, the one ranked lower.
NamedScores(results) ==
  {results[i].value : i \in {i \in DOMAIN results :
     \A j \in DOMAIN results :
       j > i => NameOf[results[j].candidate] # NameOf[results[i].candidate]}}

Decision(v) == IF v >= 80 THEN "strong" ELSE IF v >= 60 THEN "moderate" ELSE "weak"

TopScore(values) == Max({0} \cup (values \ {None}))

EndAnalyze(s) ==
  /\ Kind(s) = "analyze"
  /\ comps' = [comps EXCEPT ![session[s].comp].verdict =
                 Decision(TopScore(NamedScores(comps[session[s].comp].results)))]
  /\ End(s) /\ UNCHANGED <<score, written, page, time>>
-----------------------------------------------------------------------------
(* Shortlists *)

\* to_ten_scale, in half points.
Rating(v) == (v + 2) \div 5

Qualified(rows) == {c \in Candidates : rows[c] # None /\ rows[c].value >= Threshold}

\* The rating of the last that would have a seat, by score.
Cut(rows, target) ==
  Rating(CHOOSE v \in Values :
    /\ \E c \in Qualified(rows) : rows[c].value = v
    /\ Cardinality({c \in Qualified(rows) : rows[c].value > v}) < target
    /\ Cardinality({c \in Qualified(rows) : rows[c].value >= v}) >= target)

AssignTiers(rows, target) ==
  [c \in Candidates |->
     IF rows[c] = None THEN None
     ELSE IF c \notin Qualified(rows) THEN "F"
     ELSE IF target = None THEN "qualified"
     ELSE IF target >= Cardinality(Qualified(rows)) THEN "S"
     ELSE LET rating == Rating(rows[c].value)
              cut == Cut(rows, target)
          IN IF rating > cut THEN "S" ELSE IF rating = cut THEN "A" ELSE "B"]

InTier(rows, target, tier) ==
  LET tiers == AssignTiers(rows, target) IN {c \in Candidates : tiers[c] = tier}

\* get_job_shortlist computes the tiers from some columns of the rows ...
BeginShortlist(s, target) ==
  /\ open
  /\ Start(s, "shortlist", [kind |-> "shortlist", rows |-> score, target |-> target,
                            began |-> time])

\* ... and shows the rest of the rows as they are by then.
EndShortlist(s) ==
  /\ Kind(s) = "shortlist"
  /\ LET r == session[s] IN
       page' = [tier |-> AssignTiers(r.rows, r.target),
                shown |-> [c \in Candidates |-> IF r.rows[c] = None THEN None ELSE score[c]],
                target |-> r.target, began |-> r.began, ended |-> time]
  /\ End(s) /\ UNCHANGED <<score, written, comps, time>>
-----------------------------------------------------------------------------
(* run_tiebreaker, among those on the cut *)

\* Mutant: the seats of the S tier are given away again.
AllSlots(rows, target) == target

Slots(rows, target) == target - Cardinality(InTier(rows, target, "S"))

\* Without anyone to choose from, or a seat to give, there is no comparison.
BeginTiebreak(s, target) ==
  /\ open
  /\ LET among == InTier(score, target, "A") \cap live IN
     /\ among # {} /\ Slots(score, target) > 0
     /\ Start(s, "tiebreak", [kind |-> "tiebreak", rows |-> score, target |-> target,
                              among |-> among])

Tiebroken(r, status, results) ==
  Append(comps, [kind |-> "tiebreak", status |-> status, asked |-> r.among,
                 results |-> results, rows |-> r.rows, target |-> r.target,
                 slots |-> Slots(r.rows, r.target),
                 verdict |-> IF status = "completed" THEN "slots" ELSE None])

\* Who is meant by a name: the last of the borderline candidates that has it,
\* by score.
Meant(r, name) ==
  {c \in r.among : NameOf[c] = name /\
     \A d \in r.among : NameOf[d] = name => r.rows[c].value <= r.rows[d].value}

\* The LLM lists names, best first; a name of nobody is left out.
EndTiebreak(s, listed) ==
  /\ Kind(s) = "tiebreak"
  /\ LET r == session[s]
         heard == {i \in DOMAIN listed : Meant(r, listed[i]) # {}}
     IN \E known \in SetToSeqs(heard), who \in [{NameOf[c] : c \in r.among} -> r.among] :
          /\ \A i, j \in DOMAIN known : i < j => known[i] < known[j]
          /\ \A name \in DOMAIN who : who[name] \in Meant(r, name)
          /\ comps' = Tiebroken(r, "completed", [i \in DOMAIN known |->
               [candidate |-> who[listed[known[i]]], value |-> None, input |-> None]])
  /\ End(s) /\ UNCHANGED <<score, written, page, time>>

TiebreakFails(s) ==
  /\ Kind(s) = "tiebreak"
  /\ comps' = Tiebroken(session[s], "failed", <<>>)
  /\ End(s) /\ UNCHANGED <<score, written, page, time>>
-----------------------------------------------------------------------------
Init ==
  /\ scenario \in Scenarios
  /\ edit = [c \in Candidates |-> 0] /\ live = scenario.live
  /\ open = TRUE /\ raced = FALSE
  /\ \E tech, soft, legacy, t, f \in scenario.lists :
       job = Created(tech, soft, legacy, [tech |-> t, soft |-> f])
  /\ score = [c \in Candidates |-> IF scenario.scores[c] = None THEN None
                ELSE [value |-> scenario.scores[c], input |-> Input(c)]]
  /\ written = {[candidate |-> c, value |-> scenario.scores[c], input |-> Input(c),
                 looked |-> 0, committed |-> 0] :
                  c \in {c \in Candidates : scenario.scores[c] # None}}
  /\ comps = <<>> /\ page = None
  /\ session = [s \in Sessions |-> None]
  /\ time = 0 /\ starts = 0 /\ edits = 0

Jobs(s) ==
  \/ \E text \in BOOLEAN, tech, soft, legacy \in Given : BeginUpdate(s, text, tech, soft, legacy)
  \/ \E reordered \in SUBSET {"tech", "soft", "required"} : CommitUpdate(s, reordered)

Scores(s) ==
  \/ \E c \in Candidates :
       \/ StartScore(s, c) \/ Look(s, c) \/ Upsert(s, c)
       \/ \E v \in scenario.values : Answer(s, c, v)
  \/ \E cs \in SUBSET Candidates : StartCompare(s, cs)
  \/ CommitScores(s) \/ CompareFails(s)
  \/ ScoreFails(s) \/ RetryScore(s) \/ Abort(s)
  \/ \E t \in Sessions : Deadlock(s, t)

Reads(s) ==
  \/ \E i \in 1..MaxStarts : BeginAnalyze(s, i)
  \/ EndAnalyze(s)
  \/ \E target \in Targets \cup {None} : BeginShortlist(s, target)
  \/ EndShortlist(s)
  \/ \E target \in Targets : BeginTiebreak(s, target)
  \/ \E listed \in SeqOf({NameOf[c] : c \in Candidates} \cup {Stranger}, MaxListed) :
       EndTiebreak(s, listed)
  \/ TiebreakFails(s)

Next ==
  \/ \E s \in Sessions : Jobs(s) \/ Scores(s) \/ Reads(s)
  \/ \E c \in Candidates : EditCandidate(c) \/ DeleteCandidate(c)
  \/ DeleteJob

Spec == Init /\ [][Next]_vars
-----------------------------------------------------------------------------
(* Properties *)

\* The tech and soft lists are in required_skills, which is what is matched and
\* hashed, unless an update was overtaken by another one between its load and
\* its commit (jobs/router.py:56, "keep ... in sync with the union").
SkillsInSync == raced \/ job.tech \cup job.soft \subseteq job.required

\* The same candidate as edited is scored for the same job twice only when the
\* second lookup could not see the first score, or another input's score had
\* replaced it (score_with_cache is "idempotent via score_input_hash",
\* worker/scoring.py:3).
AskedAgainOnlyInOverlap ==
  \A v, w \in written :
    /\ v.candidate = w.candidate /\ v.input = w.input
    /\ v.committed < w.committed /\ v.committed <= w.looked
    => \E u \in written : /\ u.candidate = v.candidate /\ u.input # v.input
                          /\ v.committed < u.committed /\ u.committed <= w.looked

Backed(r) == \E w \in written :
  w.candidate = r.candidate /\ w.value = r.value /\ w.input = r.input

\* A completed comparison ranks each candidate it was asked about once, by
\* scores that are on record for the inputs it loaded, and a verdict says what
\* the top score is worth when its name is nobody else's; a failed one says
\* nothing (comparisons/router.py:145-182, 286-293).
ComparisonsAddUp ==
  \A k \in {k \in Range(comps) : k.kind = "compare"} :
    LET of == [i \in DOMAIN k.results |-> k.results[i].candidate] IN
    \/ k.status = "failed" /\ k.results = <<>> /\ k.verdict = None
    \/ /\ k.status = "completed"
       /\ IsInjective(of) /\ Range(of) = k.asked
       /\ \A i, j \in DOMAIN of : i < j => k.results[i].value >= k.results[j].value
       /\ \A i \in DOMAIN of : Backed(k.results[i])
       /\ k.verdict = "strong" => k.results[1].value >= 80
       /\ /\ k.verdict \in {"moderate", "weak"}
          /\ \A i \in DOMAIN of : i # 1 => NameOf[of[i]] # NameOf[of[1]]
          => /\ k.results[1].value < 80
             /\ k.verdict = "weak" <=> k.results[1].value < 60

\* Nobody in a higher tier scored less than one in a lower tier.
Ordered(tier, rows) ==
  LET level == [S |-> 3, A |-> 2, B |-> 1, F |-> 0, qualified |-> 1] IN
  \A c, d \in {c \in Candidates : rows[c] # None /\ tier[c] # None} :
    level[tier[c]] > level[tier[d]] => rows[c].value > rows[d].value

\* The S tier leaves a seat for the A tier, and the two fill the seats that
\* there are qualified candidates for.
Seated(tier, target) ==
  LET S == {c \in Candidates : tier[c] = "S"}  A == {c \in Candidates : tier[c] = "A"} IN
  /\ Cardinality(S) <= target
  /\ A # {} => Cardinality(S) < target /\ target <= Cardinality(S \cup A)
  /\ A = {} => \A c \in Candidates : tier[c] # "B"

\* A shortlist's tiers fit the seats, and the scores it shows beside them,
\* unless a score was committed while it was being read; a tiebreaker
\* recommends only candidates on the cut, and with the S tier no more than the
\* seats (comparisons/tiering.py:47-71, jobs/router.py:571-632, 696-699, 795).
ShortlistsAddUp ==
  /\ page # None =>
       /\ page.target # None => Seated(page.tier, page.target)
       /\ page.began = page.ended => Ordered(page.tier, page.shown)
  /\ \A k \in {k \in Range(comps) : k.kind = "tiebreak"} :
       LET recommended == {k.results[i].candidate : i \in 1..Min({k.slots, Len(k.results)})}
           tier == AssignTiers(k.rows, k.target)
           S == {c \in Candidates : tier[c] = "S"}
       IN /\ Seated(tier, k.target)
          /\ \A c \in recommended : tier[c] = "A"
          /\ Cardinality(S \cup recommended) <= k.target
=============================================================================
