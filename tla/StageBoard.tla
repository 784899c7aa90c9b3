----------------------------- MODULE StageBoard ------------------------------
(***************************************************************************)
(* What recruiters do to the applications of one job: moving them from     *)
(* stage to stage, setting statuses and interviews, rating the candidates; *)
(* what the pipeline does to them meanwhile; and what the audit trail, the *)
(* candidate's mail and the hiring analytics make of it.                   *)
(*                                                                         *)
(* A handler reads the row, and writes at its commit the columns it has    *)
(* given another value: two handlers can overlap on one row, with each     *)
(* other and with runs of the pipeline.                                    *)
(***************************************************************************)
EXTENDS Naturals, FiniteSets

CONSTANTS
  Apps,        \* applications, each of a candidate of its own
  Evaluators,  \* an evaluator and the stage evaluated
  Requests,    \* requests and rating tasks in flight
  Slots,       \* interview times
  Places,      \* interview locations
  Ratings,
  Asked,       \* bound: the statuses requests ask for
  MaxTime,     \* bound on the beginnings of requests and on the commits
  None,        \* SQL's NULL
  NoRequest

Statuses == {"parsing", "parse_failed", "applied", "reviewing", "shortlisted",
             "screening", "interview", "offer", "hired", "rejected", "withdrawn"}
Settable == Statuses \ {"parsing", "parse_failed"}

ASSUME Bounds ==
  /\ Asked \subseteq Settable
  /\ MaxTime \in Nat
  /\ None \notin Slots \cup Places \cup Ratings

Columns == {"status", "slot", "place", "live"}
Row == [status: Statuses, slot: Slots \cup {None}, place: Places \cup {None}, live: BOOLEAN]

Keys == Apps \X Evaluators
EvalColumns == {"rating", "ai", "live"}
EvalRow == [rating: Ratings \cup {None}, ai: Ratings \cup {None}, live: BOOLEAN]
EvalKinds == {"rate", "unrate", "suggest"}

\* What a session holds: the row as it was read and as the handler has made it.
AppRequest == [kind: {"stage", "status", "interview", "delete"}, app: Apps,
               seen: Row, to: Row, began: Nat]
EvalRequest == [kind: EvalKinds, key: Keys, seen: EvalRow, to: EvalRow, began: Nat]
\* A run of the pipeline, and the status it has read.
PipelineRun == [kind: {"pipeline"}, app: Apps, seen: Statuses]
\* A stage transition that has committed a rejection and not yet told of it.
Telling == [kind: {"tell"}, app: Apps, rejection: Nat]

Held == AppRequest \cup EvalRequest \cup PipelineRun \cup Telling

ASSUME NoneApart ==
  /\ NoRequest \notin Held
  /\ None \notin EvalRow

\* created_at is the time its transaction began; committed orders the commits.
Event == [app: Apps, action: {"stage", "status", "interview", "delete"},
          before: Row, after: Row, created: Nat, committed: Nat]
EvalEvent == [key: Keys, before: EvalRow \cup {None}, after: EvalRow, committed: Nat]
\* A status that a run of the pipeline has written.
Outcomes == {"applied", "parse_failed"}
RunResult == [app: Apps, to: Outcomes, committed: Nat]

VARIABLES
  app,       \* job_applications
  jobLive,   \* the job is not deleted
  cand,      \* the candidate of each application
  eval,      \* candidate_evaluations, deleted rows included
  attempts,  \* what is left of each evaluation's rating task
  request,
  log,       \* every event ever recorded about an application
  runs,      \* what runs of the pipeline have written, of which no event tells
  evalLog,   \* every event ever recorded about an evaluation
  cutoff,    \* events created before it have been purged
  told,      \* the commits of the rejections a candidate was written about
  time

boardVars == <<app, jobLive, cand, log, runs>>
evalVars == <<eval, attempts, evalLog>>
vars == <<boardVars, evalVars, request, cutoff, told, time>>

TypeOK ==
  /\ app \in [Apps -> Row]
  /\ jobLive \in BOOLEAN
  /\ cand \in [Apps -> {"none", "live", "deleted"}]
  /\ eval \in [Keys -> EvalRow \cup {None}]
  /\ attempts \in [Keys -> 0..2]
  /\ request \in [Requests -> Held \cup {NoRequest}]
  /\ log \subseteq Event
  /\ runs \subseteq RunResult
  /\ evalLog \subseteq EvalEvent
  /\ cutoff \in Nat /\ time \in Nat
  /\ told \subseteq Nat
-----------------------------------------------------------------------------
(* The transition table *)

ValidNext ==
  [s \in Statuses |->
    CASE s = "applied" -> {"reviewing", "rejected"}
      [] s = "reviewing" -> {"shortlisted", "rejected"}
      [] s = "shortlisted" -> {"interview", "rejected"}
      [] s = "interview" -> {"offer", "rejected"}
      [] s = "offer" -> {"hired", "rejected"}
      [] s = "screening" -> {"interview", "shortlisted", "rejected"}
      [] OTHER -> {}]

\* Mutants: the flush writes the whole row the session holds.
WholeRow(row, r) == r.to
WholeEvalRow(row, r) == r.to

\* A flush writes the columns that were given another value.
Flushed(row, r) == [c \in Columns |-> IF r.to[c] # r.seen[c] THEN r.to[c] ELSE row[c]]
EvalFlushed(row, r) ==
  [c \in EvalColumns |-> IF r.to[c] # r.seen[c] THEN r.to[c] ELSE row[c]]
-----------------------------------------------------------------------------
(* The beginnings of requests: the row is read, checked and changed in memory *)

\* Request r reads application a and will make it row `to'.
Begin(r, kind, a, to) ==
  /\ request[r] = NoRequest /\ time < MaxTime
  /\ app[a].live
  /\ request' = [request EXCEPT ![r] =
                   [kind |-> kind, app |-> a, seen |-> app[a], to |-> to, began |-> time]]
  /\ time' = time + 1
  /\ UNCHANGED <<boardVars, evalVars, told, cutoff>>

\* Mutant: a rejection is allowed from anywhere.
BeginAnyRejection(r, a, s) ==
  /\ jobLive
  /\ s = "rejected" \/ s \in ValidNext[app[a].status]
  /\ Begin(r, "stage", a, [app[a] EXCEPT !.status = s])

\* transition_application_stage follows the table, for a job that is live.
BeginStage(r, a, s) ==
  /\ jobLive
  /\ s \in ValidNext[app[a].status]
  /\ Begin(r, "stage", a, [app[a] EXCEPT !.status = s])

\* update_application_status goes from any resolved status to any other.
BeginStatus(r, a, s) ==
  /\ app[a].status \in Settable
  /\ Begin(r, "status", a, [app[a] EXCEPT !.status = s])

\* set_interview asks nothing of the status, and ignores a request that
\* changes nothing.
BeginInterview(r, a, slot, place) ==
  /\ <<slot, place>> # <<app[a].slot, app[a].place>>
  /\ Begin(r, "interview", a, [app[a] EXCEPT !.slot = slot, !.place = place])

BeginDelete(r, a) == Begin(r, "delete", a, [app[a] EXCEPT !.live = FALSE])

\* create_evaluation, for a live candidate and job.  The unique constraint
\* counts deleted rows; the rating task's publication may fail unnoticed.
CreateEvaluation(k, rating, published) ==
  /\ time < MaxTime
  /\ jobLive /\ cand[k[1]] = "live"
  /\ eval[k] = None
  /\ LET row == [rating |-> rating, ai |-> None, live |-> TRUE] IN
       /\ eval' = [eval EXCEPT ![k] = row]
       /\ evalLog' = evalLog \cup {[key |-> k, before |-> None, after |-> row,
                                    committed |-> time]}
  /\ attempts' = [attempts EXCEPT ![k] = IF published THEN 2 ELSE 0]
  /\ time' = time + 1
  /\ UNCHANGED <<boardVars, told, request, cutoff>>

BeginEval(r, kind, k, to) ==
  /\ request[r] = NoRequest /\ time < MaxTime
  /\ request' = [request EXCEPT ![r] =
                   [kind |-> kind, key |-> k, seen |-> eval[k], to |-> to, began |-> time]]
  /\ time' = time + 1
  /\ UNCHANGED <<boardVars, eval, evalLog, told, cutoff>>

EvalLive(k) == eval[k] # None /\ eval[k].live

\* update_evaluation sets the fields the body gives, never to NULL.
BeginRate(r, k, rating) ==
  /\ EvalLive(k)
  /\ BeginEval(r, "rate", k, [eval[k] EXCEPT !.rating = rating])
  /\ UNCHANGED attempts

BeginUnrate(r, k) ==
  /\ EvalLive(k)
  /\ BeginEval(r, "unrate", k, [eval[k] EXCEPT !.live = FALSE])
  /\ UNCHANGED attempts

\* Mutant: one delivery too many.
OneMoreAttempt(k) == attempts[k] >= 0

AttemptLeft(k) == attempts[k] > 0

\* The rating task asks the LLM with the row it has read, deleted or not.
BeginSuggest(r, k, ai) ==
  /\ AttemptLeft(k) /\ eval[k] # None
  /\ \A q \in Requests : ~(request[q] # NoRequest /\ request[q].kind = "suggest"
                            /\ request[q].key = k)
  /\ attempts' = [attempts EXCEPT ![k] = @ - 1]
  /\ BeginEval(r, "suggest", k, [eval[k] EXCEPT !.ai = ai])
-----------------------------------------------------------------------------
(* Commits *)

IsApp(r) == request[r] # NoRequest
            /\ request[r].kind \in {"stage", "status", "interview", "delete"}
IsEval(r) == request[r] # NoRequest /\ request[r].kind \in EvalKinds
IsPipeline(r) == request[r] # NoRequest /\ request[r].kind = "pipeline"
IsTelling(r) == request[r] # NoRequest /\ request[r].kind = "tell"

\* The event of a request carries the row as its session has it.
Recorded(q) ==
  [app |-> q.app, action |-> q.kind, before |-> q.seen, after |-> q.to,
   created |-> q.began, committed |-> time]

\* Only the stage endpoint tells the candidate.
Rejects(q) == q.kind = "stage" /\ q.to.status = "rejected"

\* The changed columns and the event, in one transaction.
CommitApp(r) ==
  /\ IsApp(r) /\ time < MaxTime
  /\ LET q == request[r] IN
       /\ app' = [app EXCEPT ![q.app] = Flushed(@, q)]
       /\ log' = log \cup {Recorded(q)}
       /\ request' = [request EXCEPT ![r] =
            IF Rejects(q) THEN [kind |-> "tell", app |-> q.app, rejection |-> time]
                          ELSE NoRequest]
  /\ time' = time + 1
  /\ UNCHANGED <<jobLive, cand, runs, evalVars, told, cutoff>>

\* Recruiters' changes are recorded, the rating task's are not.
CommitEval(r) ==
  /\ IsEval(r) /\ time < MaxTime
  /\ LET q == request[r] IN
       /\ eval' = [eval EXCEPT ![q.key] = EvalFlushed(@, q)]
       /\ evalLog' =
            IF q.kind = "suggest" THEN evalLog
            ELSE evalLog \cup {[key |-> q.key, before |-> q.seen, after |-> q.to,
                                committed |-> time]}
       /\ attempts' = [attempts EXCEPT ![q.key] = IF q.kind = "suggest" THEN 0 ELSE @]
  /\ request' = [request EXCEPT ![r] = NoRequest]
  /\ time' = time + 1
  /\ UNCHANGED <<boardVars, told, cutoff>>

\* run_apply_pipeline reads whatever application it is asked for: a message
\* delivered again, or requeued by hand, finds it staged or deleted.
BeginPipeline(r, a) ==
  /\ request[r] = NoRequest
  /\ request' = [request EXCEPT ![r] =
                   [kind |-> "pipeline", app |-> a, seen |-> app[a].status]]
  /\ UNCHANGED <<boardVars, evalVars, cutoff, told, time>>

\* It ends in outcome s, which it writes when it has read another status; after
\* a conflict the session knows nothing of the row and writes it in any case.
\* The candidate was live when it was read, and may have been deleted since.
CommitPipeline(r, s, conflict) ==
  /\ IsPipeline(r) /\ time < MaxTime
  /\ conflict => s = "parse_failed"
  /\ LET q == request[r] IN
       /\ IF s = q.seen /\ ~conflict
          THEN UNCHANGED <<app, runs>>
          ELSE /\ app' = [app EXCEPT ![q.app].status = s]
               /\ runs' = runs \cup {[app |-> q.app, to |-> s, committed |-> time]}
       /\ \E c \in {cand[q.app], "live"} \ {"none"} :
            cand' = IF s = "applied" THEN [cand EXCEPT ![q.app] = c] ELSE cand
  /\ request' = [request EXCEPT ![r] = NoRequest]
  /\ time' = time + 1
  /\ UNCHANGED <<jobLive, log, evalVars, cutoff, told>>

\* After the commit the candidate is looked up and the watchers are notified; a
\* rollback in there expires the candidate, and the mail's own address is gone.
Tell(r, notified, hasEmail) ==
  /\ IsTelling(r)
  /\ LET q == request[r] IN
       told' = IF cand[q.app] = "live" /\ notified /\ hasEmail
               THEN told \cup {q.rejection} ELSE told
  /\ request' = [request EXCEPT ![r] = NoRequest]
  /\ UNCHANGED <<boardVars, evalVars, cutoff, time>>

\* The transaction fails, the LLM does not answer, or the process dies.
Abandon(r) ==
  /\ request[r] # NoRequest
  /\ request' = [request EXCEPT ![r] = NoRequest]
  /\ UNCHANGED <<boardVars, evalVars, told, cutoff, time>>
-----------------------------------------------------------------------------
(* What happens around the board *)

DeleteCandidate(a) ==
  /\ cand[a] = "live" /\ time < MaxTime
  /\ cand' = [cand EXCEPT ![a] = "deleted"]
  /\ time' = time + 1
  /\ UNCHANGED <<app, jobLive, log, runs, evalVars, told, request, cutoff>>

DeleteJob ==
  /\ jobLive /\ time < MaxTime
  /\ jobLive' = FALSE
  /\ time' = time + 1
  /\ UNCHANGED <<app, cand, log, runs, evalVars, told, request, cutoff>>

\* _purge_old_audit_logs: whatever was created before the cutoff is deleted.
Purge(t) ==
  /\ t \in (cutoff + 1)..time
  /\ cutoff' = t
  /\ UNCHANGED <<boardVars, evalVars, told, request, time>>
-----------------------------------------------------------------------------
(* Hiring analytics *)

BusinessEvents == {e \in log : e.created >= cutoff}

\* Mutant: the status they left.
LeftHired(a) ==
  {e \in BusinessEvents : e.app = a /\ e.action = "status" /\ e.before.status = "hired"}

\* get_time_to_hire: the hire events joined to the live applications.
HireEvents(a) ==
  {e \in BusinessEvents : e.app = a /\ e.action = "status" /\ e.after.status = "hired"}
TimeToHire == {a \in Apps : app[a].live /\ HireEvents(a) # {}}
\* Mutant: the latest such event.
LastHiredAt(a) ==
  CHOOSE t \in {e.created : e \in HireEvents(a)} : \A e \in HireEvents(a) : t >= e.created

HiredAt(a) ==
  CHOOSE t \in {e.created : e \in HireEvents(a)} : \A e \in HireEvents(a) : t <= e.created
-----------------------------------------------------------------------------
\* Applications newly submitted, or attached by a first run of the pipeline.
Init ==
  /\ app \in [Apps -> {[status |-> s, slot |-> None, place |-> None, live |-> TRUE] :
                        s \in {"parsing", "applied"}}]
  /\ jobLive = TRUE
  /\ cand = [a \in Apps |-> IF app[a].status = "applied" THEN "live" ELSE "none"]
  /\ eval = [k \in Keys |-> None]
  /\ attempts = [k \in Keys |-> 0]
  /\ request = [r \in Requests |-> NoRequest]
  /\ log = {} /\ runs = {} /\ evalLog = {}
  /\ cutoff = 0
  /\ told = {}
  /\ time = 0

Begins ==
  \E r \in Requests :
    \/ \E a \in Apps :
         \/ \E s \in Asked : BeginStage(r, a, s) \/ BeginStatus(r, a, s)
         \/ \E slot \in Slots \cup {None}, place \in Places \cup {None} :
              BeginInterview(r, a, slot, place)
         \/ BeginDelete(r, a)
         \/ BeginPipeline(r, a)
    \/ \E k \in Keys :
         \/ \E rating \in Ratings : BeginRate(r, k, rating) \/ BeginSuggest(r, k, rating)
         \/ BeginUnrate(r, k)

Commits ==
  \E r \in Requests :
    \/ CommitApp(r) \/ CommitEval(r) \/ Abandon(r)
    \/ \E s \in Outcomes, conflict \in BOOLEAN : CommitPipeline(r, s, conflict)
    \/ \E notified, hasEmail \in BOOLEAN : Tell(r, notified, hasEmail)

Around ==
  \/ \E k \in Keys, rating \in Ratings \cup {None}, published \in BOOLEAN :
       CreateEvaluation(k, rating, published)
  \/ \E a \in Apps : DeleteCandidate(a)
  \/ DeleteJob
  \/ \E t \in 0..MaxTime : Purge(t)

Next == Begins \/ Commits \/ Around

Spec == Init /\ [][Next]_vars
-----------------------------------------------------------------------------
(* Properties *)

Changes(a, c) == {e \in log : e.app = a /\ e.before[c] # e.after[c]}
Latest(e, es) == e \in es /\ \A f \in es : f.committed <= e.committed

\* The values a column was given, and when: recruiters' are in the trail, the
\* pipeline's are not.
Writes(a, c) ==
  {[to |-> e.after[c], committed |-> e.committed] : e \in Changes(a, c)}
  \cup {[to |-> p.to, committed |-> p.committed] : p \in {x \in runs : x.app = a /\ c = "status"}}

Unwritten == [status |-> {"parsing", "applied"}, slot |-> {None},
              place |-> {None}, live |-> {TRUE}]

\* However requests and runs of the pipeline overlap, no column of an application
\* is overwritten with a value that was only read: each has the value of its last
\* recorded change, and the status alone may come from a later run of the pipeline.
ColumnsExplained ==
  \A a \in Apps, c \in Columns :
    \/ Writes(a, c) = {} /\ app[a][c] \in Unwritten[c]
    \/ \E w \in Writes(a, c) : Latest(w, Writes(a, c)) /\ app[a][c] = w.to

\* An application that is hired and missing from time-to-hire was hired through
\* the stage endpoint, or its hire has been purged.
HireCounted ==
  \A a \in Apps :
    app[a].live /\ app[a].status = "hired" /\ a \notin TimeToHire =>
      \E e \in Changes(a, "status") :
        Latest(e, Changes(a, "status")) /\ (e.action = "stage" \/ e.created < cutoff)

\* Recording more of an application never makes its hire later: only a purge does.
HireNeverLater ==
  [][\A a \in TimeToHire \cap TimeToHire' :
       cutoff' = cutoff => HiredAt(a)' <= HiredAt(a)]_vars

Rejections == {e \in log : e.action = "stage" /\ e.after.status = "rejected"}
\* A candidate is written to about committed rejections only, and about a second
\* rejection of an application only if the two requests overlapped or the first
\* one's rejection was undone in between.
RejectedAgainOnlyInOverlap ==
  /\ told \subseteq {e.committed : e \in Rejections}
  /\ \A e, f \in {x \in Rejections : x.committed \in told} :
       e.app = f.app /\ e.committed < f.created =>
         \E w \in Writes(e.app, "status") :
           w.to # "rejected" /\ e.committed < w.committed /\ w.committed < f.created

EvalChanges(k, c) ==
  {e \in evalLog : e.key = k /\ (e.before = None \/ e.before[c] # e.after[c])}

\* The rating task, however late it answers, never undoes what an evaluator
\* did to the evaluation, nor brings a deleted one back.
EvaluatorsWordStands ==
  \A k \in Keys, c \in {"rating", "live"} :
    \/ eval[k] = None /\ EvalChanges(k, c) = {}
    \/ /\ eval[k] # None
       /\ \E e \in EvalChanges(k, c) :
            Latest(e, EvalChanges(k, c)) /\ eval[k][c] = e.after[c]
=============================================================================
