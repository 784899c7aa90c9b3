--------------------------- MODULE StageBoardProofs ---------------------------
(***************************************************************************)
(* What holds of the stage board for any number of applications,           *)
(* evaluations and requests in flight.                                     *)
(***************************************************************************)
EXTENDS StageBoard, TLAPS

AppKinds == {"stage", "status", "interview", "delete"}

(* What a request carries: interviews and deletions do not touch the       *)
(* status, which is changed only to a settable one; the evaluation a       *)
(* request has read exists; and the rating task touches nothing but the    *)
(* suggestion.                                                             *)
AppOK(r) ==
  IsApp(r) =>
    /\ request[r] \in AppRequest
    /\ request[r].to.status # request[r].seen.status =>
         request[r].kind \in {"stage", "status"} /\ request[r].to.status \in Settable
EvalOK(r) ==
  IsEval(r) =>
    /\ request[r] \in EvalRequest
    /\ eval[request[r].key] # None
    /\ request[r].kind = "suggest" =>
         /\ request[r].to.rating = request[r].seen.rating
         /\ request[r].to.live = request[r].seen.live
TellOK(r) == IsTelling(r) => request[r] \in Telling

StateOK == TypeOK /\ \A r \in Requests : AppOK(r) /\ EvalOK(r) /\ TellOK(r)
-----------------------------------------------------------------------------
LEMMA FlushedTyped ==
  ASSUME NEW row \in Row, NEW q \in AppRequest
  PROVE  Flushed(row, q) \in Row
  BY DEF Flushed, Row, AppRequest, Columns

LEMMA EvalFlushedTyped ==
  ASSUME NEW row \in EvalRow, NEW q \in EvalRequest
  PROVE  /\ EvalFlushed(row, q) \in EvalRow /\ EvalFlushed(row, q) # None
         /\ q.kind = "suggest" /\ q.to.rating = q.seen.rating /\ q.to.live = q.seen.live
            => /\ EvalFlushed(row, q)["rating"] = row["rating"]
               /\ EvalFlushed(row, q)["live"] = row["live"]
<1>1. EvalFlushed(row, q) \in EvalRow
  BY DEF EvalFlushed, EvalRow, EvalRequest, EvalColumns
<1>2. EvalFlushed(row, q) # None
  BY <1>1, NoneApart
<1>3. q.to.rating = q.seen.rating /\ q.to.live = q.seen.live
      => /\ EvalFlushed(row, q)["rating"] = row["rating"]
         /\ EvalFlushed(row, q)["live"] = row["live"]
  BY DEF EvalFlushed, EvalRow, EvalRequest, EvalColumns
<1> QED
  BY <1>1, <1>2, <1>3

(* A request is of one kind.                                               *)
LEMMA Kinds ==
  ASSUME TypeOK, NEW r \in Requests
  PROVE  /\ IsApp(r) => request[r] \in AppRequest /\ ~IsEval(r) /\ ~IsTelling(r)
         /\ IsEval(r) => request[r] \in EvalRequest /\ ~IsApp(r) /\ ~IsTelling(r)
         /\ IsPipeline(r) => /\ request[r] \in PipelineRun
                             /\ ~IsApp(r) /\ ~IsEval(r) /\ ~IsTelling(r)
         /\ IsTelling(r) => request[r] \in Telling /\ ~IsApp(r) /\ ~IsEval(r)
<1> USE DEF IsApp, IsEval, IsPipeline, IsTelling
<1>1. request[r] \in Held \cup {NoRequest}
  BY DEF TypeOK
<1>2. CASE request[r] \in AppRequest
  BY <1>2 DEF AppRequest, EvalKinds
<1>3. CASE request[r] \in EvalRequest
  BY <1>3 DEF EvalRequest, EvalKinds
<1>4. CASE request[r] \in PipelineRun
  BY <1>4 DEF PipelineRun, EvalKinds
<1>5. CASE request[r] \in Telling
  BY <1>5 DEF Telling, EvalKinds
<1>6. CASE request[r] = NoRequest
  BY <1>6
<1> QED
  BY <1>1, <1>2, <1>3, <1>4, <1>5, <1>6 DEF Held

(* One request r has begun or ended, the others go on.                     *)
Only(r) == \A q \in Requests : q # r => request'[q] = request[q]

LEMMA OthersOK ==
  ASSUME StateOK, NEW r \in Requests, Only(r), AppOK(r)', EvalOK(r)', TellOK(r)',
         \A k \in Keys : eval[k] # None => eval'[k] # None
  PROVE  \A q \in Requests : AppOK(q)' /\ EvalOK(q)' /\ TellOK(q)'
<1> SUFFICES ASSUME NEW q \in Requests
             PROVE  AppOK(q)' /\ EvalOK(q)' /\ TellOK(q)'
  OBVIOUS
<1>1. CASE q = r
  BY <1>1
<1>2. CASE q # r
  <2>1. request'[q] = request[q]
    BY <1>2 DEF Only
  <2>2. AppOK(q) /\ EvalOK(q) /\ TellOK(q)
    BY DEF StateOK
  <2>3. EvalOK(q)'
    BY <2>1, <2>2 DEF EvalOK, IsEval, EvalRequest
  <2> QED
    BY <2>1, <2>2, <2>3 DEF AppOK, TellOK, IsApp, IsTelling
<1> QED
  BY <1>1, <1>2

LEMMA RequestTyped ==
  ASSUME TypeOK, NEW r \in Requests,
         NEW x \in Held \cup {NoRequest},
         request' = [request EXCEPT ![r] = x]
  PROVE  /\ request' \in [Requests -> Held \cup {NoRequest}]
         /\ request'[r] = x /\ Only(r)
  BY DEF TypeOK, Only

(* A request that ends holds nothing more.                                 *)
LEMMA EndOK ==
  ASSUME StateOK, TypeOK', NEW r \in Requests,
         request' = [request EXCEPT ![r] = NoRequest],
         \A k \in Keys : eval[k] # None => eval'[k] # None
  PROVE  StateOK'
<1>1. request'[r] = NoRequest /\ Only(r)
  BY RequestTyped DEF StateOK
<1>2. AppOK(r)' /\ EvalOK(r)' /\ TellOK(r)'
  BY <1>1 DEF AppOK, EvalOK, TellOK, IsApp, IsEval, IsTelling
<1> QED
  BY <1>1, <1>2, OthersOK DEF StateOK
-----------------------------------------------------------------------------
(* One lemma per step *)

LEMMA BeginStep ==
  ASSUME StateOK, NEW r \in Requests, NEW kind \in AppKinds, NEW a \in Apps, NEW to \in Row,
         Begin(r, kind, a, to),
         to.status # app[a].status => kind \in {"stage", "status"} /\ to.status \in Settable
  PROVE  StateOK'
<1> DEFINE x == [kind |-> kind, app |-> a, seen |-> app[a], to |-> to, began |-> time]
<1>1. TypeOK /\ time \in Nat /\ app[a] \in Row
  BY DEF StateOK, TypeOK
<1>2. /\ x \in AppRequest /\ x.kind = kind /\ x.to = to /\ x.seen = app[a]
      /\ x \in Held /\ request' = [request EXCEPT ![r] = x]
  BY <1>1 DEF AppRequest, AppKinds, Begin, Held
<1> HIDE DEF x
<1>3. /\ request' \in [Requests -> Held \cup {NoRequest}]
      /\ request'[r] = x /\ Only(r)
  BY <1>1, <1>2, RequestTyped
<1>4. TypeOK'
  BY <1>1, <1>3 DEF Begin, TypeOK, boardVars, evalVars
<1>5. AppOK(r)'
  BY <1>2, <1>3 DEF AppOK
<1>6. EvalOK(r)' /\ TellOK(r)'
  BY <1>2, <1>3 DEF EvalOK, TellOK, IsEval, IsTelling, AppKinds, EvalKinds
<1>7. eval' = eval
  BY DEF Begin, evalVars
<1> QED
  BY <1>3, <1>4, <1>5, <1>6, <1>7, OthersOK DEF StateOK

LEMMA StatusTyped ==
  ASSUME NEW row \in Row, NEW s \in Statuses
  PROVE  LET t == [row EXCEPT !.status = s] IN t \in Row /\ t.status = s
  BY DEF Row

LEMMA BeginStageStep ==
  ASSUME StateOK, NEW r \in Requests, NEW a \in Apps, NEW s \in Asked,
         BeginStage(r, a, s) \/ BeginStatus(r, a, s)
  PROVE  StateOK'
<1> DEFINE to == [app[a] EXCEPT !.status = s]
<1>1. s \in Settable /\ app[a] \in Row
  BY Bounds DEF StateOK, TypeOK
<1>2. to \in Row /\ to.status = s
  BY <1>1, StatusTyped DEF Settable
<1>3. Begin(r, "stage", a, to) \/ Begin(r, "status", a, to)
  BY DEF BeginStage, BeginStatus
<1> HIDE DEF to
<1> QED
  BY <1>1, <1>2, <1>3, BeginStep DEF AppKinds

LEMMA BeginInterviewStep ==
  ASSUME StateOK, NEW r \in Requests, NEW a \in Apps, NEW slot \in Slots \cup {None},
         NEW place \in Places \cup {None}, BeginInterview(r, a, slot, place)
  PROVE  StateOK'
<1> DEFINE to == [app[a] EXCEPT !.slot = slot, !.place = place]
<1>1. app[a] \in Row
  BY DEF StateOK, TypeOK
<1>2. to \in Row /\ to.status = app[a].status
  BY <1>1 DEF Row
<1>3. Begin(r, "interview", a, to)
  BY DEF BeginInterview
<1> HIDE DEF to
<1> QED
  BY <1>2, <1>3, BeginStep DEF AppKinds

LEMMA BeginDeleteStep ==
  ASSUME StateOK, NEW r \in Requests, NEW a \in Apps, BeginDelete(r, a)
  PROVE  StateOK'
<1> DEFINE to == [app[a] EXCEPT !.live = FALSE]
<1>1. app[a] \in Row
  BY DEF StateOK, TypeOK
<1>2. to \in Row /\ to.status = app[a].status
  BY <1>1 DEF Row
<1>3. Begin(r, "delete", a, to)
  BY DEF BeginDelete
<1> HIDE DEF to
<1> QED
  BY <1>2, <1>3, BeginStep DEF AppKinds

LEMMA BeginEvalStep ==
  ASSUME StateOK, NEW r \in Requests, NEW kind \in EvalKinds, NEW k \in Keys,
         NEW to \in EvalRow, eval[k] # None, BeginEval(r, kind, k, to),
         attempts' \in [Keys -> 0..2],
         kind = "suggest" => to.rating = eval[k].rating /\ to.live = eval[k].live
  PROVE  StateOK'
<1> DEFINE x == [kind |-> kind, key |-> k, seen |-> eval[k], to |-> to, began |-> time]
<1>1. TypeOK /\ time \in Nat /\ eval[k] \in EvalRow
  BY DEF StateOK, TypeOK
<1>2. /\ x \in EvalRequest /\ x.kind = kind /\ x.to = to /\ x.seen = eval[k] /\ x.key = k
      /\ x \in Held /\ request' = [request EXCEPT ![r] = x]
  BY <1>1 DEF EvalRequest, BeginEval, Held
<1> HIDE DEF x
<1>3. /\ request' \in [Requests -> Held \cup {NoRequest}]
      /\ request'[r] = x /\ Only(r)
  BY <1>1, <1>2, RequestTyped
<1>4. TypeOK'
  BY <1>1, <1>3 DEF BeginEval, TypeOK, boardVars
<1>5. eval' = eval
  BY DEF BeginEval
<1>6. EvalOK(r)'
  BY <1>2, <1>3, <1>5 DEF EvalOK
<1>7. AppOK(r)' /\ TellOK(r)'
  BY <1>2, <1>3 DEF AppOK, TellOK, IsApp, IsTelling, EvalKinds
<1> QED
  BY <1>3, <1>4, <1>5, <1>6, <1>7, OthersOK DEF StateOK

LEMMA BeginRateStep ==
  ASSUME StateOK, NEW r \in Requests, NEW k \in Keys, NEW rating \in Ratings,
         BeginRate(r, k, rating)
  PROVE  StateOK'
<1> DEFINE to == [eval[k] EXCEPT !.rating = rating]
<1>1. eval[k] # None /\ eval[k] \in EvalRow /\ attempts' \in [Keys -> 0..2]
  BY DEF StateOK, TypeOK, BeginRate, EvalLive
<1>2. to \in EvalRow
  BY <1>1 DEF EvalRow
<1>3. BeginEval(r, "rate", k, to)
  BY DEF BeginRate
<1> HIDE DEF to
<1> QED
  BY <1>1, <1>2, <1>3, BeginEvalStep DEF EvalKinds

LEMMA BeginUnrateStep ==
  ASSUME StateOK, NEW r \in Requests, NEW k \in Keys, BeginUnrate(r, k)
  PROVE  StateOK'
<1> DEFINE to == [eval[k] EXCEPT !.live = FALSE]
<1>1. eval[k] # None /\ eval[k] \in EvalRow /\ attempts' \in [Keys -> 0..2]
  BY DEF StateOK, TypeOK, BeginUnrate, EvalLive
<1>2. to \in EvalRow
  BY <1>1 DEF EvalRow
<1>3. BeginEval(r, "unrate", k, to)
  BY DEF BeginUnrate
<1> HIDE DEF to
<1> QED
  BY <1>1, <1>2, <1>3, BeginEvalStep DEF EvalKinds

LEMMA BeginSuggestStep ==
  ASSUME StateOK, NEW r \in Requests, NEW k \in Keys, NEW ai \in Ratings,
         BeginSuggest(r, k, ai)
  PROVE  StateOK'
<1> DEFINE to == [eval[k] EXCEPT !.ai = ai]
<1>1. eval[k] # None /\ eval[k] \in EvalRow
  BY DEF StateOK, TypeOK, BeginSuggest
<1>2. attempts' \in [Keys -> 0..2]
  BY DEF StateOK, TypeOK, BeginSuggest, AttemptLeft
<1>3. to \in EvalRow /\ to.rating = eval[k].rating /\ to.live = eval[k].live
  BY <1>1 DEF EvalRow
<1>4. BeginEval(r, "suggest", k, to)
  BY DEF BeginSuggest
<1> HIDE DEF to
<1> QED
  BY <1>1, <1>2, <1>3, <1>4, BeginEvalStep DEF EvalKinds

LEMMA CommitAppStep ==
  ASSUME StateOK, NEW r \in Requests, CommitApp(r)
  PROVE  StateOK'
<1> DEFINE q == request[r]
           e == Recorded(q)
           t == [kind |-> "tell", app |-> q.app, rejection |-> time]
           x == IF Rejects(q) THEN t ELSE NoRequest
<1>1. /\ TypeOK /\ time \in Nat /\ q \in AppRequest /\ app[q.app] \in Row
  BY Kinds DEF StateOK, TypeOK, CommitApp, AppRequest
<1>2. Flushed(app[q.app], q) \in Row
  BY <1>1, FlushedTyped
<1>3. app' \in [Apps -> Row]
  BY <1>1, <1>2 DEF CommitApp, TypeOK, AppRequest
<1>4. e \in Event
  BY <1>1 DEF Recorded, AppRequest, Event
<1>5. log' \subseteq Event
  BY <1>1, <1>4 DEF CommitApp, TypeOK
<1>6. t \in Telling /\ t \in Held /\ t.kind = "tell"
  BY <1>1 DEF Telling, AppRequest, Held
<1>7. /\ request' = [request EXCEPT ![r] = x]
      /\ x = t \/ x = NoRequest
  BY DEF CommitApp
<1> HIDE DEF x, t
<1>8. /\ request' \in [Requests -> Held \cup {NoRequest}]
      /\ request'[r] = x /\ Only(r)
  BY <1>1, <1>6, <1>7, RequestTyped
<1>9. TypeOK'
  BY <1>1, <1>3, <1>5, <1>8 DEF CommitApp, TypeOK, evalVars
<1>10. AppOK(r)' /\ EvalOK(r)' /\ TellOK(r)'
  BY <1>6, <1>7, <1>8 DEF AppOK, EvalOK, TellOK, IsApp, IsEval, IsTelling, EvalKinds
<1>11. eval' = eval
  BY DEF CommitApp, evalVars
<1> QED
  BY <1>8, <1>9, <1>10, <1>11, OthersOK DEF StateOK

LEMMA CommitEvalStep ==
  ASSUME StateOK, NEW r \in Requests, CommitEval(r)
  PROVE  StateOK'
<1> DEFINE q == request[r]
           e == [key |-> q.key, before |-> q.seen, after |-> q.to, committed |-> time]
<1>1. /\ TypeOK /\ time \in Nat /\ q \in EvalRequest
      /\ eval[q.key] \in EvalRow /\ q.key \in Keys
  BY Kinds DEF StateOK, TypeOK, CommitEval, EvalRequest, EvalOK
<1>2. EvalFlushed(eval[q.key], q) \in EvalRow /\ EvalFlushed(eval[q.key], q) # None
  BY <1>1, EvalFlushedTyped
<1>3. eval' = [eval EXCEPT ![q.key] = EvalFlushed(eval[q.key], q)]
  BY DEF CommitEval
<1>4. /\ eval' \in [Keys -> EvalRow \cup {None}]
      /\ \A k \in Keys : eval[k] # None => eval'[k] # None
  BY <1>1, <1>2, <1>3 DEF TypeOK
<1>5. e \in EvalEvent
  BY <1>1 DEF EvalRequest, EvalEvent
<1>6. evalLog' \subseteq EvalEvent
  BY <1>1, <1>5 DEF CommitEval, TypeOK
<1>7. attempts' \in [Keys -> 0..2]
  BY <1>1 DEF CommitEval, TypeOK
<1>8. request' = [request EXCEPT ![r] = NoRequest]
  BY DEF CommitEval
<1>9. TypeOK'
  BY <1>1, <1>4, <1>6, <1>7, <1>8, RequestTyped DEF CommitEval, TypeOK, boardVars
<1> QED
  BY <1>4, <1>8, <1>9, EndOK

LEMMA TellStep ==
  ASSUME StateOK, NEW r \in Requests, NEW notified \in BOOLEAN, NEW hasEmail \in BOOLEAN,
         Tell(r, notified, hasEmail)
  PROVE  StateOK'
<1>1. TypeOK /\ request[r] \in Telling
  BY Kinds DEF StateOK, Tell
<1>2. request' = [request EXCEPT ![r] = NoRequest] /\ eval' = eval
  BY DEF Tell, evalVars
<1>3. told' \subseteq Nat
  BY <1>1 DEF Tell, TypeOK, Telling
<1>4. TypeOK'
  BY <1>1, <1>2, <1>3, RequestTyped DEF Tell, TypeOK, boardVars, evalVars
<1> QED
  BY <1>2, <1>4, EndOK

LEMMA AbandonStep ==
  ASSUME StateOK, NEW r \in Requests, Abandon(r)
  PROVE  StateOK'
<1>1. TypeOK /\ request' = [request EXCEPT ![r] = NoRequest] /\ eval' = eval
  BY DEF StateOK, Abandon, evalVars
<1>2. TypeOK'
  BY <1>1, RequestTyped DEF Abandon, TypeOK, boardVars, evalVars
<1> QED
  BY <1>1, <1>2, EndOK

LEMMA BeginPipelineStep ==
  ASSUME StateOK, NEW r \in Requests, NEW a \in Apps, BeginPipeline(r, a)
  PROVE  StateOK'
<1> DEFINE x == [kind |-> "pipeline", app |-> a, seen |-> app[a].status]
<1>1. TypeOK /\ app[a] \in Row
  BY DEF StateOK, TypeOK
<1>2. x \in Held /\ x.kind = "pipeline" /\ request' = [request EXCEPT ![r] = x]
  BY <1>1 DEF PipelineRun, Row, BeginPipeline, Held
<1> HIDE DEF x
<1>3. request' \in [Requests -> Held \cup {NoRequest}] /\ request'[r] = x /\ Only(r)
  BY <1>1, <1>2, RequestTyped
<1>4. TypeOK' /\ eval' = eval
  BY <1>1, <1>3 DEF BeginPipeline, TypeOK, boardVars, evalVars
<1>5. AppOK(r)' /\ EvalOK(r)' /\ TellOK(r)'
  BY <1>2, <1>3 DEF AppOK, EvalOK, TellOK, IsApp, IsEval, IsTelling, EvalKinds
<1> QED
  BY <1>3, <1>4, <1>5, OthersOK DEF StateOK

LEMMA CommitPipelineStep ==
  ASSUME StateOK, NEW r \in Requests, NEW s \in Outcomes, NEW conflict \in BOOLEAN,
         CommitPipeline(r, s, conflict)
  PROVE  StateOK'
<1> DEFINE q == request[r]
           row == [app[q.app] EXCEPT !.status = s]
           p == [app |-> q.app, to |-> s, committed |-> time]
<1>1. /\ TypeOK /\ q \in PipelineRun /\ q.app \in Apps /\ app[q.app] \in Row
      /\ time \in Nat
  BY Kinds DEF StateOK, TypeOK, CommitPipeline, PipelineRun
<1>2. row \in Row
  BY <1>1, StatusTyped DEF Outcomes, Statuses
<1>3. app' = app \/ app' = [app EXCEPT ![q.app] = row]
  BY DEF CommitPipeline
<1>4. p \in RunResult /\ (runs' = runs \/ runs' = runs \cup {p})
  BY <1>1 DEF CommitPipeline, RunResult
<1> HIDE DEF row, p
<1>5. app' \in [Apps -> Row] /\ runs' \subseteq RunResult
  BY <1>1, <1>2, <1>3, <1>4 DEF TypeOK
<1>6. cand' \in [Apps -> {"none", "live", "deleted"}]
  BY <1>1 DEF CommitPipeline, TypeOK
<1>7. /\ request' = [request EXCEPT ![r] = NoRequest] /\ time' = time + 1
      /\ UNCHANGED <<jobLive, log, evalVars, cutoff, told>>
  BY DEF CommitPipeline
<1>8. TypeOK' /\ eval' = eval
  BY <1>1, <1>5, <1>6, <1>7, RequestTyped DEF TypeOK, evalVars
<1> QED
  BY <1>7, <1>8, EndOK

LEMMA SameRequests ==
  ASSUME StateOK, TypeOK', request' = request,
         \A k \in Keys : eval[k] # None => eval'[k] # None
  PROVE  StateOK'
<1> SUFFICES ASSUME NEW q \in Requests
             PROVE  AppOK(q)' /\ EvalOK(q)' /\ TellOK(q)'
  BY DEF StateOK
<1>1. AppOK(q) /\ EvalOK(q) /\ TellOK(q)
  BY DEF StateOK
<1>2. EvalOK(q)'
  BY <1>1 DEF EvalOK, IsEval, EvalRequest
<1> QED
  BY <1>1, <1>2 DEF AppOK, TellOK, IsApp, IsTelling

LEMMA CreateStep ==
  ASSUME StateOK, NEW k \in Keys, NEW rating \in Ratings \cup {None},
         NEW published \in BOOLEAN, CreateEvaluation(k, rating, published)
  PROVE  StateOK'
<1> DEFINE row == [rating |-> rating, ai |-> None, live |-> TRUE]
           e == [key |-> k, before |-> None, after |-> row, committed |-> time]
<1>1. TypeOK /\ time \in Nat
  BY DEF StateOK, TypeOK
<1>2. row \in EvalRow
  BY DEF EvalRow
<1>3. eval' = [eval EXCEPT ![k] = row] /\ evalLog' = evalLog \cup {e}
  BY DEF CreateEvaluation
<1>4. e \in EvalEvent
  <2> HIDE DEF row
  <2> QED
    BY <1>1, <1>2 DEF EvalEvent
<1> HIDE DEF e, row
<1>5. row # None
  BY <1>2, NoneApart
<1>6. /\ eval' \in [Keys -> EvalRow \cup {None}]
      /\ \A j \in Keys : eval[j] # None => eval'[j] # None
  BY <1>1, <1>2, <1>3, <1>5 DEF TypeOK
<1>7. attempts' \in [Keys -> 0..2]
  BY <1>1 DEF CreateEvaluation, TypeOK
<1>8. TypeOK' /\ request' = request
  BY <1>1, <1>3, <1>4, <1>6, <1>7 DEF CreateEvaluation, TypeOK, boardVars
<1> QED
  BY <1>6, <1>8, SameRequests

LEMMA AroundStep ==
  ASSUME StateOK,
         \/ \E a \in Apps : DeleteCandidate(a)
         \/ DeleteJob
         \/ \E t \in 0..MaxTime : Purge(t)
         \/ UNCHANGED vars
  PROVE  StateOK'
<1>1. TypeOK
  BY DEF StateOK
<1>2. CASE \E a \in Apps : DeleteCandidate(a)
  <2>1. TypeOK'
    BY <1>1, <1>2 DEF DeleteCandidate, TypeOK, evalVars
  <2> QED
    BY <1>2, <2>1, SameRequests DEF DeleteCandidate, evalVars
<1>3. CASE DeleteJob
  <2>1. jobLive' \in BOOLEAN
    BY <1>3 DEF DeleteJob
  <2>2. time' \in Nat
    BY <1>1, <1>3 DEF DeleteJob, TypeOK
  <2>3. TypeOK'
    BY <1>1, <1>3, <2>1, <2>2, Zenon DEF DeleteJob, TypeOK, evalVars
  <2> QED
    BY <1>3, <2>3, SameRequests DEF DeleteJob, evalVars
<1>4. CASE \E t \in 0..MaxTime : Purge(t)
  <2>1. TypeOK'
    BY <1>1, <1>4, Bounds DEF Purge, TypeOK, boardVars, evalVars
  <2> QED
    BY <1>4, <2>1, SameRequests DEF Purge, evalVars
<1>5. CASE UNCHANGED vars
  <2>1. TypeOK'
    BY <1>1, <1>5 DEF vars, TypeOK, boardVars, evalVars
  <2> QED
    BY <1>5, <2>1, SameRequests DEF vars, evalVars
<1> QED
  BY <1>2, <1>3, <1>4, <1>5

LEMMA InitState ==
  ASSUME Init
  PROVE  StateOK
<1>1. app \in [Apps -> Row]
  <2>1. \A s \in {"parsing", "applied"} :
          [status |-> s, slot |-> None, place |-> None, live |-> TRUE] \in Row
    BY DEF Row, Statuses
  <2> QED
    BY <2>1 DEF Init
<1>2. TypeOK
  BY <1>1 DEF Init, TypeOK
<1> QED
  BY <1>2 DEF Init, StateOK, AppOK, EvalOK, TellOK, IsApp, IsEval, IsTelling

LEMMA StateNext ==
  ASSUME StateOK, [Next]_vars
  PROVE  StateOK'
<1>1. CASE Begins
  <2>1. PICK r \in Requests :
          \/ \E a \in Apps :
               \/ \E s \in Asked : BeginStage(r, a, s) \/ BeginStatus(r, a, s)
               \/ \E slot \in Slots \cup {None}, place \in Places \cup {None} :
                    BeginInterview(r, a, slot, place)
               \/ BeginDelete(r, a)
               \/ BeginPipeline(r, a)
          \/ \E k \in Keys :
               \/ \E rating \in Ratings : BeginRate(r, k, rating) \/ BeginSuggest(r, k, rating)
               \/ BeginUnrate(r, k)
    BY <1>1 DEF Begins
  <2> QED
    BY <2>1, BeginStageStep, BeginInterviewStep, BeginDeleteStep, BeginPipelineStep,
       BeginRateStep, BeginSuggestStep, BeginUnrateStep
<1>2. CASE Commits
  BY <1>2, CommitAppStep, CommitEvalStep, CommitPipelineStep, TellStep, AbandonStep
  DEF Commits
<1>3. CASE Around
  BY <1>3, CreateStep, AroundStep DEF Around
<1>4. CASE UNCHANGED vars
  BY <1>4, AroundStep
<1> QED
  BY <1>1, <1>2, <1>3, <1>4 DEF Next

LEMMA StateHolds == Spec => []StateOK
<1>1. Init => StateOK
  BY InitState
<1>2. StateOK /\ [Next]_vars => StateOK'
  BY StateNext
<1> QED
  BY <1>1, <1>2, PTL DEF Spec

(* Rows, requests, events and mails are all of the forms described.        *)
THEOREM BoardTypes == Spec => []TypeOK
<1>1. StateOK => TypeOK
  BY DEF StateOK
<1> QED
  BY <1>1, StateHolds, PTL
-----------------------------------------------------------------------------
(* What a step does to the rows and the trail, to the evaluations and      *)
(* theirs, and to the requests that reject and tell.                       *)

BoardMoves ==
  \/ app' = app /\ log' = log /\ runs' = runs
  \/ \E r \in Requests : CommitApp(r)
  \/ \E r \in Requests, s \in Outcomes, conflict \in BOOLEAN : CommitPipeline(r, s, conflict)

EvalMoves ==
  \/ eval' = eval /\ evalLog' = evalLog
  \/ \E r \in Requests : CommitEval(r)
  \/ \E k \in Keys, rating \in Ratings \cup {None}, published \in BOOLEAN :
       CreateEvaluation(k, rating, published)

(* A stage request reads the row when it begins, and finds in it a status  *)
(* from which the table goes on.                                           *)
FreshStage(x) ==
  x.kind = "stage" => /\ x.began = time /\ x.seen = app[x.app]
                      /\ x.to.status = "rejected" => x.seen.status # "rejected"

RequestMoves ==
  /\ \A r \in Requests :
       IsApp(r)' => \/ request'[r] = request[r]
                    \/ FreshStage(request'[r]) /\ time' = time + 1
  /\ \A r \in Requests :
       IsTelling(r)' => \/ request'[r] = request[r]
                        \/ CommitApp(r) /\ Rejects(request[r]) /\ request'[r].rejection = time
  /\ \/ told' = told
     \/ \E r \in Requests : IsTelling(r) /\ told' = told \cup {request[r].rejection}

(* A request has begun.                                                    *)
LEMMA BeginsMove ==
  ASSUME TypeOK, NEW r \in Requests, told' = told,
         NEW x \in AppRequest \cup EvalRequest \cup PipelineRun, FreshStage(x),
         x \in AppRequest => time' = time + 1,
         request' = [request EXCEPT ![r] = x]
  PROVE  RequestMoves
<1>1. request'[r] = x /\ \A q \in Requests : q # r => request'[q] = request[q]
  BY DEF TypeOK
<1>2. x.kind # "tell"
  BY DEF AppRequest, EvalRequest, PipelineRun, EvalKinds
<1>3. IsApp(r)' => time' = time + 1
  BY <1>1 DEF AppRequest, EvalRequest, PipelineRun, EvalKinds, IsApp
<1> QED
  BY <1>1, <1>2, <1>3 DEF RequestMoves, IsTelling, IsApp

(* A request has ended.                                                    *)
LEMMA EndsMove ==
  ASSUME TypeOK, NEW r \in Requests, request' = [request EXCEPT ![r] = NoRequest],
         \/ told' = told
         \/ IsTelling(r) /\ told' = told \cup {request[r].rejection}
  PROVE  RequestMoves
<1>1. request'[r] = NoRequest /\ \A q \in Requests : q # r => request'[q] = request[q]
  BY DEF TypeOK
<1> QED
  BY <1>1 DEF RequestMoves, IsTelling, IsApp

LEMMA SameMove ==
  ASSUME request' = request, told' = told
  PROVE  RequestMoves
  BY DEF RequestMoves

LEMMA BeginMoves ==
  ASSUME StateOK, NEW r \in Requests, NEW kind \in AppKinds, NEW a \in Apps, NEW to \in Row,
         Begin(r, kind, a, to),
         kind = "stage" /\ to.status = "rejected" => app[a].status # "rejected"
  PROVE  RequestMoves
<1> DEFINE x == [kind |-> kind, app |-> a, seen |-> app[a], to |-> to, began |-> time]
<1>1. /\ x \in AppRequest /\ request' = [request EXCEPT ![r] = x] /\ told' = told
      /\ time' = time + 1
  BY DEF AppRequest, AppKinds, Begin, StateOK, TypeOK
<1>2. FreshStage(x)
  BY DEF FreshStage
<1> HIDE DEF x
<1> QED
  BY <1>1, <1>2, BeginsMove DEF StateOK

LEMMA BeginEvalMoves ==
  ASSUME StateOK, NEW r \in Requests, NEW kind \in EvalKinds, NEW k \in Keys,
         NEW to \in EvalRow, eval[k] # None, BeginEval(r, kind, k, to)
  PROVE  RequestMoves
<1> DEFINE x == [kind |-> kind, key |-> k, seen |-> eval[k], to |-> to, began |-> time]
<1>1. /\ x \in EvalRequest /\ request' = [request EXCEPT ![r] = x] /\ told' = told
      /\ time' = time + 1
  BY DEF EvalRequest, BeginEval, StateOK, TypeOK
<1>2. FreshStage(x)
  BY DEF FreshStage, EvalKinds
<1> HIDE DEF x
<1> QED
  BY <1>1, <1>2, BeginsMove DEF StateOK

LEMMA BeginPipelineMoves ==
  ASSUME StateOK, NEW r \in Requests, NEW a \in Apps, BeginPipeline(r, a)
  PROVE  RequestMoves
<1> DEFINE x == [kind |-> "pipeline", app |-> a, seen |-> app[a].status]
<1>1. x \in PipelineRun /\ request' = [request EXCEPT ![r] = x] /\ told' = told
  BY DEF PipelineRun, BeginPipeline, StateOK, TypeOK, Row
<1>2. FreshStage(x) /\ x \notin AppRequest
  BY DEF FreshStage, AppRequest
<1> HIDE DEF x
<1> QED
  BY <1>1, <1>2, BeginsMove DEF StateOK

LEMMA CommitAppMoves ==
  ASSUME StateOK, NEW r \in Requests, CommitApp(r)
  PROVE  RequestMoves
<1> DEFINE q == request[r]
           t == [kind |-> "tell", app |-> q.app, rejection |-> time]
           x == IF Rejects(q) THEN t ELSE NoRequest
<1>1. /\ request' = [request EXCEPT ![r] = x] /\ told' = told /\ TypeOK
      /\ t.kind = "tell" /\ t.rejection = time
  BY DEF CommitApp, StateOK
<1>2. /\ Rejects(q) => x = t
      /\ ~Rejects(q) => x = NoRequest
  OBVIOUS
<1> HIDE DEF x, t
<1>3. request'[r] = x /\ \A p \in Requests : p # r => request'[p] = request[p]
  BY <1>1 DEF TypeOK
<1>4. ~IsApp(r)' /\ (IsTelling(r)' => Rejects(q) /\ request'[r].rejection = time)
  BY <1>1, <1>2, <1>3 DEF IsApp, IsTelling
<1> QED
  BY <1>1, <1>3, <1>4 DEF RequestMoves, IsApp, IsTelling

LEMMA BeginsQuiet ==
  ASSUME StateOK, Begins
  PROVE  /\ app' = app /\ log' = log /\ runs' = runs /\ eval' = eval /\ evalLog' = evalLog
         /\ RequestMoves /\ time' \in {time, time + 1}
<1>1. PICK r \in Requests :
        \/ \E a \in Apps :
             \/ \E s \in Asked : BeginStage(r, a, s) \/ BeginStatus(r, a, s)
             \/ \E slot \in Slots \cup {None}, place \in Places \cup {None} :
                  BeginInterview(r, a, slot, place)
             \/ BeginDelete(r, a)
             \/ BeginPipeline(r, a)
        \/ \E k \in Keys :
             \/ \E rating \in Ratings : BeginRate(r, k, rating) \/ BeginSuggest(r, k, rating)
             \/ BeginUnrate(r, k)
  BY DEF Begins
<1> DEFINE AppBegins ==
             \E a \in Apps, kind \in AppKinds, to \in Row :
               /\ Begin(r, kind, a, to)
               /\ kind = "stage" /\ to.status = "rejected" => app[a].status # "rejected"
           EvalBegins ==
             \E k \in Keys, kind \in EvalKinds, to \in EvalRow :
               BeginEval(r, kind, k, to) /\ eval[k] # None
<1>2. CASE AppBegins
  <2>1. PICK a \in Apps, kind \in AppKinds, to \in Row :
               /\ Begin(r, kind, a, to)
               /\ kind = "stage" /\ to.status = "rejected" => app[a].status # "rejected"
    BY <1>2
  <2>2. RequestMoves
    BY <2>1, BeginMoves
  <2> QED
    BY <2>1, <2>2 DEF Begin, boardVars, evalVars
<1>3. CASE EvalBegins
  BY <1>3, BeginEvalMoves DEF BeginEval, boardVars, evalVars
<1>4. \A a \in Apps : app[a] \in Row
  BY DEF StateOK, TypeOK
<1>5. ASSUME NEW a \in Apps, NEW s \in Asked, BeginStage(r, a, s)
      PROVE  AppBegins
  <2>1. PICK to : to = [app[a] EXCEPT !.status = s]
    OBVIOUS
  <2>2. to \in Row /\ to.status = s
    BY <1>4, <2>1, Bounds, StatusTyped DEF Settable
  <2>3. s = "rejected" => app[a].status # "rejected"
    <3>1. "rejected" \notin ValidNext["rejected"]
      BY DEF ValidNext, Statuses
    <3> QED
      BY <1>5, <3>1 DEF BeginStage
  <2> QED
    BY <1>5, <2>1, <2>2, <2>3 DEF BeginStage, AppKinds
<1>6. ASSUME NEW a \in Apps, NEW s \in Asked, BeginStatus(r, a, s)
      PROVE  AppBegins
  <2>1. [app[a] EXCEPT !.status = s] \in Row
    BY <1>4, Bounds, StatusTyped DEF Settable
  <2> QED
    BY <1>6, <2>1 DEF BeginStatus, AppKinds
<1>7. ASSUME NEW a \in Apps, NEW slot \in Slots \cup {None}, NEW place \in Places \cup {None},
             BeginInterview(r, a, slot, place)
      PROVE  AppBegins
  <2>1. [app[a] EXCEPT !.slot = slot, !.place = place] \in Row
    BY <1>4 DEF Row
  <2> QED
    BY <1>7, <2>1 DEF BeginInterview, AppKinds
<1>8. ASSUME NEW a \in Apps, BeginDelete(r, a)
      PROVE  AppBegins
  <2>1. [app[a] EXCEPT !.live = FALSE] \in Row
    BY <1>4 DEF Row
  <2> QED
    BY <1>8, <2>1 DEF BeginDelete, AppKinds
<1>9. ASSUME NEW k \in Keys, NEW rating \in Ratings,
             BeginRate(r, k, rating) \/ BeginSuggest(r, k, rating)
      PROVE  EvalBegins
  <2>1. eval[k] # None /\ eval[k] \in EvalRow
    BY <1>9 DEF BeginRate, BeginSuggest, EvalLive, StateOK, TypeOK
  <2>2. /\ [eval[k] EXCEPT !.rating = rating] \in EvalRow
        /\ [eval[k] EXCEPT !.ai = rating] \in EvalRow
    BY <2>1 DEF EvalRow
  <2> QED
    BY <1>9, <2>1, <2>2 DEF BeginRate, BeginSuggest, EvalKinds
<1>10. ASSUME NEW k \in Keys, BeginUnrate(r, k)
       PROVE  EvalBegins
  <2>1. eval[k] # None /\ eval[k] \in EvalRow
    BY <1>10 DEF BeginUnrate, EvalLive, StateOK, TypeOK
  <2>2. [eval[k] EXCEPT !.live = FALSE] \in EvalRow
    BY <2>1 DEF EvalRow
  <2> QED
    BY <1>10, <2>1, <2>2 DEF BeginUnrate, EvalKinds
<1>11. CASE \E a \in Apps : BeginPipeline(r, a)
  BY <1>11, BeginPipelineMoves DEF BeginPipeline, boardVars, evalVars
<1> HIDE DEF AppBegins, EvalBegins
<1> QED
  BY <1>1, <1>2, <1>3, <1>5, <1>6, <1>7, <1>8, <1>9, <1>10, <1>11

LEMMA Moves ==
  ASSUME StateOK, [Next]_vars
  PROVE  BoardMoves /\ EvalMoves /\ RequestMoves /\ time' \in {time, time + 1}
<1>1. CASE Begins
  BY <1>1, BeginsQuiet DEF BoardMoves, EvalMoves
<1>2. CASE Commits
  <2>1. PICK r \in Requests :
          \/ CommitApp(r) \/ CommitEval(r) \/ Abandon(r)
          \/ \E s \in Outcomes, conflict \in BOOLEAN : CommitPipeline(r, s, conflict)
          \/ \E notified, hasEmail \in BOOLEAN : Tell(r, notified, hasEmail)
    BY <1>2 DEF Commits
  <2>2. CASE CommitApp(r)
    BY <2>2, CommitAppMoves DEF BoardMoves, EvalMoves, CommitApp, evalVars
  <2>3. CASE CommitEval(r)
    BY <2>3, EndsMove DEF BoardMoves, EvalMoves, CommitEval, boardVars, StateOK
  <2>4. CASE Abandon(r)
    BY <2>4, EndsMove DEF Abandon, BoardMoves, EvalMoves, boardVars, evalVars, StateOK
  <2>5. CASE \E s \in Outcomes, conflict \in BOOLEAN : CommitPipeline(r, s, conflict)
    <3>1. /\ request' = [request EXCEPT ![r] = NoRequest] /\ told' = told
          /\ eval' = eval /\ evalLog' = evalLog /\ time' = time + 1
      BY <2>5 DEF CommitPipeline, evalVars
    <3> QED
      BY <2>5, <3>1, EndsMove DEF BoardMoves, EvalMoves, StateOK
  <2>6. CASE \E notified, hasEmail \in BOOLEAN : Tell(r, notified, hasEmail)
    <3>1. /\ app' = app /\ log' = log /\ runs' = runs /\ eval' = eval /\ evalLog' = evalLog
          /\ IsTelling(r) /\ time' = time
          /\ request' = [request EXCEPT ![r] = NoRequest]
          /\ told' = told \/ told' = told \cup {request[r].rejection}
      BY <2>6 DEF Tell, boardVars, evalVars
    <3> QED
      BY <3>1, EndsMove DEF BoardMoves, EvalMoves, StateOK
  <2> QED
    BY <2>1, <2>2, <2>3, <2>4, <2>5, <2>6
<1>3. CASE Around
  <2>1. CASE \E k \in Keys, rating \in Ratings \cup {None}, published \in BOOLEAN :
               CreateEvaluation(k, rating, published)
    BY <2>1, SameMove DEF CreateEvaluation, BoardMoves, EvalMoves, boardVars
  <2>2. CASE (\E a \in Apps : DeleteCandidate(a)) \/ DeleteJob \/ \E t \in 0..MaxTime : Purge(t)
    BY <2>2, SameMove DEF DeleteCandidate, DeleteJob, Purge, BoardMoves, EvalMoves,
                          boardVars, evalVars
  <2> QED
    BY <1>3, <2>1, <2>2 DEF Around
<1>4. CASE UNCHANGED vars
  BY <1>4, SameMove DEF vars, BoardMoves, EvalMoves, boardVars, evalVars
<1> QED
  BY <1>1, <1>2, <1>3, <1>4 DEF Next
-----------------------------------------------------------------------------
(* The columns of the applications *)

(* Writes are older than the clock; only the two status endpoints change   *)
(* the status, and to a settable one.                                      *)
LogOK ==
  /\ \A e \in log :
       /\ e.committed < time
       /\ e.before.status # e.after.status =>
            e.action \in {"stage", "status"} /\ e.after.status \in Settable
  /\ \A p \in runs : p.committed < time

BoardInv == LogOK /\ ColumnsExplained

(* The event that a commit adds.                                           *)
LEMMA CommitFacts ==
  ASSUME StateOK, NEW r \in Requests, CommitApp(r)
  PROVE  LET q == request[r]
             e == Recorded(q)
         IN /\ q \in AppRequest /\ q.app \in Apps
            /\ e.app = q.app /\ e.action = q.kind /\ e.before = q.seen /\ e.after = q.to
            /\ e.committed = time /\ e.created = q.began
            /\ log' = log \cup {e} /\ runs' = runs /\ time' = time + 1
            /\ \A a \in Apps : a # q.app => app'[a] = app[a]
            /\ \A c \in Columns :
                 app'[q.app][c] = IF q.to[c] # q.seen[c] THEN q.to[c] ELSE app[q.app][c]
            /\ q.to.status # q.seen.status =>
                 q.kind \in {"stage", "status"} /\ q.to.status \in Settable
<1> DEFINE q == request[r]
           f == Flushed(app[q.app], q)
<1>1. q \in AppRequest /\ q.app \in Apps /\ AppOK(r) /\ TypeOK
  BY Kinds DEF StateOK, CommitApp, AppRequest
<1>2. \A c \in Columns : f[c] = IF q.to[c] # q.seen[c] THEN q.to[c] ELSE app[q.app][c]
  BY DEF Flushed
<1>3. app' = [app EXCEPT ![q.app] = f] /\ log' = log \cup {Recorded(q)}
      /\ runs' = runs /\ time' = time + 1
  BY DEF CommitApp
<1> HIDE DEF f
<1>4. app'[q.app] = f /\ \A a \in Apps : a # q.app => app'[a] = app[a]
  BY <1>1, <1>3 DEF TypeOK
<1> QED
  BY <1>1, <1>2, <1>3, <1>4 DEF Recorded, AppOK, CommitApp

(* What the commit of a run of the pipeline adds.                          *)
LEMMA RunFacts ==
  ASSUME StateOK, NEW r \in Requests, NEW s \in Outcomes, NEW conflict \in BOOLEAN,
         CommitPipeline(r, s, conflict)
  PROVE  LET b == request[r].app
             p == [app |-> b, to |-> s, committed |-> time]
         IN /\ b \in Apps /\ log' = log /\ time' = time + 1
            /\ \/ app' = app /\ runs' = runs
               \/ /\ runs' = runs \cup {p} /\ app'[b]["status"] = s
                  /\ \A c \in Columns : c # "status" => app'[b][c] = app[b][c]
                  /\ \A a \in Apps : a # b => app'[a] = app[a]
<1> DEFINE b == request[r].app
           p == [app |-> b, to |-> s, committed |-> time]
           row == [app[b] EXCEPT !.status = s]
<1>1. b \in Apps /\ app[b] \in Row /\ app \in [Apps -> Row]
  BY Kinds DEF StateOK, TypeOK, CommitPipeline, PipelineRun
<1>2. row["status"] = s /\ \A c \in Columns : c # "status" => row[c] = app[b][c]
  BY <1>1 DEF Row, Columns
<1>3. /\ log' = log /\ time' = time + 1
      /\ \/ app' = app /\ runs' = runs
         \/ runs' = runs \cup {p} /\ app' = [app EXCEPT ![b] = row]
  BY DEF CommitPipeline
<1> HIDE DEF row, p
<1> QED
  BY <1>1, <1>2, <1>3 DEF p

(* A value is written at one time, and no later write is known of.         *)
LEMMA WritesPast ==
  ASSUME StateOK, LogOK, NEW a \in Apps, NEW c \in Columns
  PROVE  \A w \in Writes(a, c) : w.committed \in Nat /\ w.committed < time
<1>1. \A e \in log : e.committed \in Nat /\ e.committed < time
  BY DEF StateOK, TypeOK, Event, LogOK
<1>2. \A p \in runs : p.committed \in Nat /\ p.committed < time
  BY DEF StateOK, TypeOK, RunResult, LogOK
<1> QED
  BY <1>1, <1>2 DEF Writes, Changes

(* A column keeps its writes and its value, or gets one of both.           *)
LEMMA Explained ==
  ASSUME StateOK, BoardInv, NEW a \in Apps, NEW c \in Columns,
         \/ Writes(a, c)' = Writes(a, c) /\ app'[a][c] = app[a][c]
         \/ \E w : /\ Writes(a, c)' = Writes(a, c) \cup {w} /\ w.committed = time
                   /\ app'[a][c] = w.to
  PROVE  \/ Writes(a, c)' = {} /\ app'[a][c] \in Unwritten[c]
         \/ \E w \in Writes(a, c)' : Latest(w, Writes(a, c)') /\ app'[a][c] = w.to
<1>1. CASE Writes(a, c)' = Writes(a, c) /\ app'[a][c] = app[a][c]
  BY <1>1 DEF BoardInv, ColumnsExplained
<1>2. ASSUME NEW w, Writes(a, c)' = Writes(a, c) \cup {w}, w.committed = time,
             app'[a][c] = w.to
      PROVE  \E x \in Writes(a, c)' : Latest(x, Writes(a, c)') /\ app'[a][c] = x.to
  <2>1. \A v \in Writes(a, c) : v.committed \in Nat /\ v.committed < time
    BY WritesPast DEF BoardInv
  <2>2. time \in Nat
    BY DEF StateOK, TypeOK
  <2>3. Latest(w, Writes(a, c)')
    BY <1>2, <2>1, <2>2 DEF Latest
  <2> QED
    BY <1>2, <2>3
<1> QED
  BY <1>1, <1>2

LEMMA BoardInit ==
  ASSUME Init
  PROVE  BoardInv
<1>1. ASSUME NEW a \in Apps, NEW c \in Columns
      PROVE  app[a][c] \in Unwritten[c]
  <2>1. PICK s \in {"parsing", "applied"} :
          app[a] = [status |-> s, slot |-> None, place |-> None, live |-> TRUE]
    BY DEF Init
  <2>2. /\ app[a]["status"] = s /\ app[a]["slot"] = None
        /\ app[a]["place"] = None /\ app[a]["live"] = TRUE
    BY <2>1
  <2>3. /\ Unwritten["status"] = {"parsing", "applied"}
        /\ Unwritten["slot"] = {None} /\ Unwritten["place"] = {None}
        /\ Unwritten["live"] = {TRUE}
    BY DEF Unwritten
  <2> QED
    BY <2>2, <2>3 DEF Columns
<1>2. \A a \in Apps, c \in Columns : Writes(a, c) = {}
  BY DEF Init, Writes, Changes
<1> QED
  BY <1>1, <1>2 DEF Init, BoardInv, LogOK, ColumnsExplained

LEMMA CommitExplained ==
  ASSUME StateOK, BoardInv, NEW r \in Requests, CommitApp(r)
  PROVE  BoardInv'
<1> DEFINE q == request[r]
           e == Recorded(q)
<1>1. /\ q \in AppRequest /\ q.app \in Apps
      /\ e.app = q.app /\ e.action = q.kind /\ e.before = q.seen /\ e.after = q.to
      /\ e.committed = time
      /\ log' = log \cup {e} /\ runs' = runs /\ time' = time + 1
      /\ \A a \in Apps : a # q.app => app'[a] = app[a]
      /\ \A c \in Columns :
           app'[q.app][c] = IF q.to[c] # q.seen[c] THEN q.to[c] ELSE app[q.app][c]
      /\ q.to.status # q.seen.status =>
           q.kind \in {"stage", "status"} /\ q.to.status \in Settable
  BY CommitFacts
<1> HIDE DEF e
<1>2. /\ time \in Nat
      /\ \A x \in log : x.committed \in Nat /\ x.committed < time
      /\ \A p \in runs : p.committed \in Nat /\ p.committed < time
  BY DEF StateOK, TypeOK, BoardInv, LogOK, Event, RunResult
<1>3. LogOK'
  BY <1>1, <1>2 DEF BoardInv, LogOK
<1>4. ColumnsExplained'
  <2> SUFFICES ASSUME NEW a \in Apps, NEW c \in Columns
               PROVE  \/ Writes(a, c)' = Writes(a, c) /\ app'[a][c] = app[a][c]
                      \/ \E w : /\ Writes(a, c)' = Writes(a, c) \cup {w}
                                /\ w.committed = time /\ app'[a][c] = w.to
    BY Explained DEF ColumnsExplained
  <2>1. CASE a = q.app /\ q.to[c] # q.seen[c]
    <3> DEFINE w == [to |-> e.after[c], committed |-> e.committed]
    <3>1. Changes(a, c)' = Changes(a, c) \cup {e}
      BY <1>1, <2>1 DEF Changes
    <3>2. Writes(a, c)' = Writes(a, c) \cup {w}
      BY <1>1, <3>1 DEF Writes
    <3>3. w.committed = time /\ app'[a][c] = w.to
      BY <1>1, <2>1
    <3> QED
      BY <3>2, <3>3
  <2>2. CASE a # q.app \/ q.to[c] = q.seen[c]
    <3>1. Changes(a, c)' = Changes(a, c)
      BY <1>1, <2>2 DEF Changes
    <3>2. Writes(a, c)' = Writes(a, c)
      BY <1>1, <3>1 DEF Writes
    <3>3. app'[a][c] = app[a][c]
      BY <1>1, <2>2
    <3> QED
      BY <3>2, <3>3
  <2> QED
    BY <2>1, <2>2
<1> QED
  BY <1>3, <1>4 DEF BoardInv

(* What the pipeline writes, it writes over whatever is there.             *)
LEMMA RunExplained ==
  ASSUME StateOK, BoardInv, NEW r \in Requests, NEW s \in Outcomes, NEW conflict \in BOOLEAN,
         CommitPipeline(r, s, conflict)
  PROVE  BoardInv'
<1> DEFINE b == request[r].app
           p == [app |-> b, to |-> s, committed |-> time]
<1>1. /\ b \in Apps /\ log' = log /\ time' = time + 1
      /\ \/ app' = app /\ runs' = runs
         \/ /\ runs' = runs \cup {p} /\ app'[b]["status"] = s
            /\ \A c \in Columns : c # "status" => app'[b][c] = app[b][c]
            /\ \A a \in Apps : a # b => app'[a] = app[a]
  BY RunFacts
<1>2. p.app = b /\ p.to = s /\ p.committed = time
  OBVIOUS
<1> HIDE DEF p
<1>3. /\ time \in Nat
      /\ \A x \in log : x.committed \in Nat /\ x.committed < time
      /\ \A x \in runs : x.committed \in Nat /\ x.committed < time
  BY DEF StateOK, TypeOK, BoardInv, LogOK, Event, RunResult
<1>4. LogOK'
  BY <1>1, <1>2, <1>3 DEF BoardInv, LogOK
<1>5. ColumnsExplained'
  <2> SUFFICES ASSUME NEW a \in Apps, NEW c \in Columns
               PROVE  \/ Writes(a, c)' = Writes(a, c) /\ app'[a][c] = app[a][c]
                      \/ \E w : /\ Writes(a, c)' = Writes(a, c) \cup {w}
                                /\ w.committed = time /\ app'[a][c] = w.to
    BY Explained DEF ColumnsExplained
  <2>1. Changes(a, c)' = Changes(a, c)
    BY <1>1 DEF Changes
  <2>2. CASE app' = app /\ runs' = runs
    BY <2>1, <2>2 DEF Writes
  <2>3. CASE (a # b \/ c # "status") /\ ~(app' = app /\ runs' = runs)
    <3>1. {x \in runs' : x.app = a /\ c = "status"} = {x \in runs : x.app = a /\ c = "status"}
      BY <1>1, <1>2, <2>3
    <3>2. Writes(a, c)' = Writes(a, c)
      BY <2>1, <3>1 DEF Writes
    <3> QED
      BY <1>1, <2>3, <3>2
  <2>4. CASE a = b /\ c = "status" /\ ~(app' = app /\ runs' = runs)
    <3> DEFINE w == [to |-> p.to, committed |-> p.committed]
    <3>1. {x \in runs' : x.app = a /\ c = "status"}
          = {x \in runs : x.app = a /\ c = "status"} \cup {p}
      BY <1>1, <1>2, <2>4
    <3>2. Writes(a, c)' = Writes(a, c) \cup {w}
      BY <2>1, <3>1 DEF Writes
    <3>3. w.committed = time /\ app'[a][c] = w.to
      BY <1>1, <1>2, <2>4
    <3> QED
      BY <3>2, <3>3
  <2> QED
    BY <2>2, <2>3, <2>4
<1> QED
  BY <1>4, <1>5 DEF BoardInv

LEMMA BoardNext ==
  ASSUME StateOK, BoardInv, [Next]_vars
  PROVE  BoardInv'
<1>1. BoardMoves /\ time' \in {time, time + 1} /\ time \in Nat
  BY Moves DEF StateOK, TypeOK
<1>2. CASE app' = app /\ log' = log /\ runs' = runs
  <2>1. LogOK'
    BY <1>1, <1>2 DEF BoardInv, LogOK, StateOK, TypeOK, Event, RunResult
  <2>2. \A a \in Apps, c \in Columns : Writes(a, c)' = Writes(a, c)
    BY <1>2 DEF Writes, Changes
  <2>3. ColumnsExplained'
    BY <1>2, <2>2 DEF BoardInv, ColumnsExplained
  <2> QED
    BY <2>1, <2>3 DEF BoardInv
<1> QED
  BY <1>1, <1>2, CommitExplained, RunExplained DEF BoardMoves

LEMMA BoardHolds == Spec => [](StateOK /\ BoardInv)
<1>1. Init => StateOK /\ BoardInv
  BY InitState, BoardInit
<1>2. (StateOK /\ BoardInv) /\ [Next]_vars => (StateOK /\ BoardInv)'
  BY StateNext, BoardNext
<1> QED
  BY <1>1, <1>2, PTL DEF Spec

(* However the requests of recruiters overlap, with each other and with    *)
(* runs of the pipeline, every column has the value it was last given: by  *)
(* a recorded change or, the status alone, by a later run of the pipeline. *)
THEOREM ColumnsAreExplained == Spec => []ColumnsExplained
<1>1. BoardInv => ColumnsExplained
  BY DEF BoardInv
<1> QED
  BY <1>1, BoardHolds, PTL

(* A hire that time-to-hire misses came through the stage endpoint, or has *)
(* been purged: of the status endpoint's hires it misses none.             *)
THEOREM HiresCounted == Spec => []HireCounted
<1>1. StateOK /\ BoardInv => HireCounted
  <2> SUFFICES ASSUME StateOK, BoardInv, NEW a \in Apps,
                      app[a].live, app[a].status = "hired", a \notin TimeToHire
               PROVE  \E e \in Changes(a, "status") :
                        /\ Latest(e, Changes(a, "status"))
                        /\ e.action = "stage" \/ e.created < cutoff
    BY DEF HireCounted
  <2>1. app[a]["status"] \notin Unwritten["status"]
    BY DEF Unwritten
  <2>2. PICK e \in Changes(a, "status") :
               Latest(e, Changes(a, "status")) /\ app[a]["status"] = e.after["status"]
    <3>1. PICK w \in Writes(a, "status") :
                 Latest(w, Writes(a, "status")) /\ app[a]["status"] = w.to
      BY <2>1 DEF BoardInv, ColumnsExplained, Columns
    <3>2. w.to = "hired"
      BY <3>1
    <3>3. \A p \in runs : p.to # "hired"
      BY DEF StateOK, TypeOK, RunResult, Outcomes
    <3>4. PICK e \in Changes(a, "status") :
                 w = [to |-> e.after["status"], committed |-> e.committed]
      BY <3>2, <3>3 DEF Writes
    <3>5. ASSUME NEW f \in Changes(a, "status") PROVE f.committed <= e.committed
      <4>1. [to |-> f.after["status"], committed |-> f.committed] \in Writes(a, "status")
        BY DEF Writes
      <4> QED
        BY <3>1, <3>4, <4>1 DEF Latest
    <3> QED
      BY <3>2, <3>4, <3>5 DEF Latest
  <2>3. e \in log /\ e.app = a /\ e.action \in {"stage", "status"} /\ e.after.status = "hired"
    BY <2>2 DEF Changes, BoardInv, LogOK
  <2>4. e.action = "stage" \/ ~(e.created >= cutoff)
    BY <2>3 DEF TimeToHire, HireEvents, BusinessEvents
  <2>5. e.created \in Nat /\ cutoff \in Nat
    BY <2>3 DEF StateOK, TypeOK, Event
  <2> QED
    BY <2>2, <2>4, <2>5
<1> QED
  BY <1>1, BoardHolds, PTL
-----------------------------------------------------------------------------
(* Time to hire *)

HiresSince(a, t) ==
  {e \in log : /\ e.created >= t /\ e.app = a
               /\ e.action = "status" /\ e.after.status = "hired"}

Earliest(e, es) == e \in es /\ \A f \in es : e.created <= f.created

(* There is an earliest hire after any time, since events come one by one. *)
EarliestOK ==
  \A a \in Apps, t \in Nat :
    HiresSince(a, t) # {} => \E e \in HiresSince(a, t) : Earliest(e, HiresSince(a, t))

LEMMA EarliestAdded ==
  ASSUME NEW es, \A e \in es : e.created \in Nat, NEW x, x.created \in Nat,
         es # {} => \E e \in es : Earliest(e, es)
  PROVE  \E e \in es \cup {x} : Earliest(e, es \cup {x})
<1>1. CASE es = {}
  BY <1>1 DEF Earliest
<1>2. CASE es # {}
  <2>1. PICK e \in es : Earliest(e, es)
    BY <1>2
  <2>2. CASE e.created <= x.created
    BY <2>1, <2>2 DEF Earliest
  <2>3. CASE ~(e.created <= x.created)
    <3>1. \A f \in es : x.created <= f.created
      BY <2>1, <2>3 DEF Earliest
    <3> QED
      BY <3>1 DEF Earliest
  <2> QED
    BY <2>2, <2>3
<1> QED
  BY <1>1, <1>2

LEMMA EarliestNext ==
  ASSUME StateOK, EarliestOK, [Next]_vars
  PROVE  EarliestOK' /\ log \subseteq log'
<1>1. BoardMoves
  BY Moves
<1>2. CASE log' = log
  BY <1>2 DEF EarliestOK, HiresSince
<1>3. ASSUME NEW r \in Requests, CommitApp(r)
      PROVE  EarliestOK' /\ log \subseteq log'
  <2> DEFINE x == Recorded(request[r])
  <2>1. log' = log \cup {x} /\ x.created \in Nat
    BY <1>3, CommitFacts DEF AppRequest
  <2> HIDE DEF x
  <2>2. ASSUME NEW a \in Apps, NEW t \in Nat
        PROVE  HiresSince(a, t)' # {} =>
                 \E e \in HiresSince(a, t)' : Earliest(e, HiresSince(a, t)')
    <3>1. \A e \in HiresSince(a, t) : e.created \in Nat
      BY DEF HiresSince, StateOK, TypeOK, Event
    <3>2. HiresSince(a, t) # {} => \E e \in HiresSince(a, t) : Earliest(e, HiresSince(a, t))
      BY DEF EarliestOK
    <3> DEFINE es == HiresSince(a, t)
    <3>9. \E e \in es \cup {x} : Earliest(e, es \cup {x})
      <4>1. /\ \A e \in es : e.created \in Nat
            /\ es # {} => \E e \in es : Earliest(e, es)
        BY <3>1, <3>2
      <4> HIDE DEF es
      <4> QED
        BY <2>1, <4>1, EarliestAdded
    <3>3. CASE HiresSince(a, t)' = HiresSince(a, t)
      BY <3>2, <3>3
    <3>4. CASE HiresSince(a, t)' = HiresSince(a, t) \cup {x}
      BY <3>4, <3>9
    <3>5. \/ HiresSince(a, t)' = HiresSince(a, t)
          \/ HiresSince(a, t)' = HiresSince(a, t) \cup {x}
      BY <2>1 DEF HiresSince
    <3> QED
      BY <3>3, <3>4, <3>5
  <2>3. EarliestOK'
    BY <2>2 DEF EarliestOK
  <2> QED
    BY <2>1, <2>3
<1>4. CASE \E r \in Requests, s \in Outcomes, conflict \in BOOLEAN :
               CommitPipeline(r, s, conflict)
  BY <1>2, <1>4 DEF CommitPipeline
<1> QED
  BY <1>1, <1>2, <1>3, <1>4 DEF BoardMoves

LEMMA EarliestHolds == Spec => [](StateOK /\ EarliestOK)
<1>1. Init => StateOK /\ EarliestOK
  BY InitState DEF Init, EarliestOK, HiresSince
<1>2. (StateOK /\ EarliestOK) /\ [Next]_vars => (StateOK /\ EarliestOK)'
  BY StateNext, EarliestNext
<1> QED
  BY <1>1, <1>2, PTL DEF Spec

(* The hire reported is the earliest.                                      *)
HiredAtOK ==
  \A a \in TimeToHire :
    /\ HiredAt(a) \in {e.created : e \in HireEvents(a)}
    /\ \A e \in HireEvents(a) : HiredAt(a) <= e.created

LEMMA HiredAtEarliest ==
  ASSUME StateOK, EarliestOK
  PROVE  HiredAtOK
<1> SUFFICES ASSUME NEW a \in TimeToHire
             PROVE  /\ HiredAt(a) \in {e.created : e \in HireEvents(a)}
                    /\ \A e \in HireEvents(a) : HiredAt(a) <= e.created
  BY DEF HiredAtOK
<1>1. a \in Apps /\ HireEvents(a) # {} /\ cutoff \in Nat
  BY DEF TimeToHire, StateOK, TypeOK
<1>2. HireEvents(a) = HiresSince(a, cutoff)
  BY DEF HireEvents, HiresSince, BusinessEvents
<1>3. PICK e \in HireEvents(a) : \A f \in HireEvents(a) : e.created <= f.created
  BY <1>1, <1>2 DEF EarliestOK, Earliest
<1>4. \E t \in {f.created : f \in HireEvents(a)} : \A f \in HireEvents(a) : t <= f.created
  BY <1>3
<1> QED
  BY <1>4 DEF HiredAt

(* Nothing that is recorded later makes a hire later.                      *)
THEOREM HireOnlyEarlier == Spec => HireNeverLater
<1> DEFINE Earlier == \A a \in TimeToHire \cap TimeToHire' :
                        cutoff' = cutoff => HiredAt(a)' <= HiredAt(a)
<1>1. StateOK /\ EarliestOK => HiredAtOK
  BY HiredAtEarliest
<1>2. StateOK /\ EarliestOK /\ HiredAtOK /\ HiredAtOK' /\ [Next]_vars => [Earlier]_vars
  <2> SUFFICES ASSUME StateOK, EarliestOK, HiredAtOK, HiredAtOK', [Next]_vars,
                      NEW a \in TimeToHire \cap TimeToHire', cutoff' = cutoff
               PROVE  HiredAt(a)' <= HiredAt(a)
    OBVIOUS
  <2>1. HiredAt(a) \in {e.created : e \in HireEvents(a)}
    BY DEF HiredAtOK
  <2>2. log \subseteq log'
    BY EarliestNext
  <2>3. HireEvents(a) \subseteq HireEvents(a)'
    BY <2>2 DEF HireEvents, BusinessEvents
  <2>4. \A e \in HireEvents(a)' : HiredAt(a)' <= e.created
    BY DEF HiredAtOK
  <2> QED
    BY <2>1, <2>3, <2>4
<1> QED
  BY <1>1, <1>2, EarliestHolds, PTL DEF Spec, HireNeverLater
-----------------------------------------------------------------------------
(* What candidates are told *)

(* One of the writes ws took the status away from rejected between n and t.*)
Undone(ws, n, t) ==
  \E w \in ws : w.to # "rejected" /\ n < w.committed /\ w.committed < t

StatusWrites(a) == Writes(a, "status")

(* A status that is not rejected after a rejection has been written since, *)
(* and was when a request that rejects again has read it.                  *)
RejectionsPast ==
  /\ \A e \in Rejections : e.created < time /\ e.committed < time
  /\ \A r \in Requests : IsApp(r) /\ Rejects(request[r]) =>
       request[r].began < time /\ request[r].seen.status # "rejected"
StandsOrUndone ==
  \A e \in Rejections :
    app[e.app].status # "rejected" => Undone(StatusWrites(e.app), e.committed, time)
ReadUndone ==
  \A e \in Rejections, r \in Requests :
    IsApp(r) /\ Rejects(request[r]) /\ request[r].app = e.app
      /\ e.committed < request[r].began
        => Undone(StatusWrites(e.app), e.committed, request[r].began)
UndoneBetween ==
  \A e, f \in Rejections :
    e.app = f.app /\ e.committed < f.created
      => Undone(StatusWrites(e.app), e.committed, f.created)
ToldOfRejections ==
  /\ told \subseteq {e.committed : e \in Rejections}
  /\ \A r \in Requests :
       IsTelling(r) => request[r].rejection \in {e.committed : e \in Rejections}

TellInv == RejectionsPast /\ StandsOrUndone /\ ReadUndone /\ UndoneBetween /\ ToldOfRejections

LEMMA UndoneStays ==
  ASSUME NEW ws, NEW vs, ws \subseteq vs, \A w \in ws : w.committed \in Nat,
         NEW n \in Nat, NEW t \in Nat, NEW u \in Nat, t <= u, Undone(ws, n, t)
  PROVE  Undone(vs, n, u)
  BY DEF Undone

(* Nothing is taken out of the trail, and what is put in is of this time.  *)
LEMMA TrailGrows ==
  ASSUME StateOK, BoardInv, [Next]_vars
  PROVE  /\ time \in Nat /\ time' \in {time, time + 1}
         /\ Rejections \subseteq Rejections'
         /\ \A e \in Rejections : /\ e.committed \in Nat /\ e.created \in Nat /\ e.app \in Apps
         /\ \A e \in Rejections' \ Rejections : e.committed = time /\ time' = time + 1
         /\ \A a \in Apps : /\ StatusWrites(a) \subseteq StatusWrites(a)'
                            /\ \A w \in StatusWrites(a) : w.committed \in Nat /\ w.committed < time
<1>1. BoardMoves /\ time' \in {time, time + 1} /\ time \in Nat
  BY Moves DEF StateOK, TypeOK
<1>2. /\ log \subseteq log' /\ runs \subseteq runs'
      /\ \A e \in log' \ log : e.committed = time /\ time' = time + 1
  <2>1. ASSUME NEW r \in Requests, CommitApp(r)
        PROVE  /\ log \subseteq log' /\ runs \subseteq runs'
               /\ \A e \in log' \ log : e.committed = time /\ time' = time + 1
    BY <2>1, CommitFacts
  <2>2. ASSUME NEW r \in Requests, NEW s \in Outcomes, NEW conflict \in BOOLEAN,
               CommitPipeline(r, s, conflict)
        PROVE  log' = log /\ runs \subseteq runs'
    BY <2>2, RunFacts
  <2> QED
    BY <1>1, <2>1, <2>2 DEF BoardMoves
<1>3. ASSUME NEW a \in Apps
      PROVE  StatusWrites(a) \subseteq StatusWrites(a)'
  <2>1. Changes(a, "status") \subseteq Changes(a, "status")'
    BY <1>2 DEF Changes
  <2> QED
    BY <1>2, <2>1 DEF StatusWrites, Writes
<1>4. \A a \in Apps : \A w \in StatusWrites(a) : w.committed \in Nat /\ w.committed < time
  BY WritesPast DEF StatusWrites, BoardInv, Columns
<1>5. \A e \in Rejections : /\ e.committed \in Nat /\ e.created \in Nat /\ e.app \in Apps
  BY DEF Rejections, StateOK, TypeOK, Event
<1>6. /\ Rejections \subseteq Rejections'
      /\ \A e \in Rejections' \ Rejections : e.committed = time /\ time' = time + 1
  BY <1>2 DEF Rejections
<1> QED
  BY <1>1, <1>3, <1>4, <1>5, <1>6

(* A status that a step changes from rejected, it writes.                  *)
LEMMA ChangeWritten ==
  ASSUME StateOK, BoardInv, [Next]_vars, NEW a \in Apps, app'[a].status # app[a].status
  PROVE  /\ \E w \in StatusWrites(a)' : w.to = app'[a].status /\ w.committed = time
         /\ time' = time + 1
<1>1. CASE app' = app
  BY <1>1
<1>2. ASSUME NEW r \in Requests, CommitApp(r)
      PROVE  /\ \E w \in StatusWrites(a)' : w.to = app'[a].status /\ w.committed = time
             /\ time' = time + 1
  <2> DEFINE q == request[r]
             e == Recorded(q)
             w == [to |-> e.after["status"], committed |-> e.committed]
  <2>1. /\ e.app = q.app /\ e.before = q.seen /\ e.after = q.to
        /\ e.committed = time /\ log' = log \cup {e} /\ time' = time + 1
        /\ \A b \in Apps : b # q.app => app'[b] = app[b]
        /\ app'[q.app]["status"] = IF q.to["status"] # q.seen["status"]
                                   THEN q.to["status"] ELSE app[q.app]["status"]
    BY <1>2, CommitFacts DEF Columns
  <2> HIDE DEF e
  <2>2. a = q.app /\ q.to["status"] # q.seen["status"] /\ app'[a]["status"] = q.to["status"]
    BY <2>1
  <2>3. e \in Changes(a, "status")'
    BY <2>1, <2>2 DEF Changes
  <2>4. w \in StatusWrites(a)'
    BY <2>3 DEF StatusWrites, Writes
  <2> QED
    BY <2>1, <2>2, <2>4
<1>3. ASSUME NEW r \in Requests, NEW s \in Outcomes, NEW conflict \in BOOLEAN,
             CommitPipeline(r, s, conflict)
      PROVE  /\ \E w \in StatusWrites(a)' : w.to = app'[a].status /\ w.committed = time
             /\ time' = time + 1
  <2> DEFINE b == request[r].app
             p == [app |-> b, to |-> s, committed |-> time]
             w == [to |-> p.to, committed |-> p.committed]
  <2>1. /\ runs' = runs \cup {p} /\ app'[b]["status"] = s /\ time' = time + 1
        /\ \A c \in Apps : c # b => app'[c] = app[c]
    BY <1>3, RunFacts
  <2>2. p.app = b /\ p.to = s /\ p.committed = time
    OBVIOUS
  <2> HIDE DEF p
  <2>3. a = b
    BY <2>1
  <2>4. p \in {x \in runs' : x.app = a /\ "status" = "status"}
    BY <2>1, <2>2, <2>3
  <2>5. w \in StatusWrites(a)'
    BY <2>4 DEF StatusWrites, Writes
  <2> QED
    BY <2>1, <2>2, <2>3, <2>5
<1> QED
  BY <1>1, <1>2, <1>3, Moves DEF BoardMoves

(* The rejection that a step records, if it records one: the request had   *)
(* read another status, and the row is rejected now.                       *)
LEMMA NewRejection ==
  ASSUME StateOK, BoardInv, TellInv, [Next]_vars, NEW f \in Rejections', f \notin Rejections
  PROVE  \E r \in Requests :
           /\ CommitApp(r) /\ IsApp(r) /\ Rejects(request[r])
           /\ f.app = request[r].app /\ f.created = request[r].began
           /\ app'[f.app].status = "rejected"
<1>1. f \in log' /\ f \notin log
  BY DEF Rejections
<1>2. PICK r \in Requests : CommitApp(r)
  <2>1. ASSUME NEW r \in Requests, NEW s \in Outcomes, NEW conflict \in BOOLEAN,
               CommitPipeline(r, s, conflict)
        PROVE  FALSE
    BY <1>1, <2>1, RunFacts
  <2> QED
    BY <1>1, <2>1, Moves DEF BoardMoves
<1> DEFINE q == request[r]
           e == Recorded(q)
<1>3. /\ q.app \in Apps /\ e.app = q.app /\ e.action = q.kind /\ e.after = q.to
      /\ e.created = q.began /\ log' = log \cup {e}
      /\ app'[q.app]["status"] = IF q.to["status"] # q.seen["status"]
                                 THEN q.to["status"] ELSE app[q.app]["status"]
  BY <1>2, CommitFacts DEF Columns
<1> HIDE DEF e
<1>4. f = e
  BY <1>1, <1>3
<1>5. IsApp(r) /\ Rejects(q)
  BY <1>2, <1>3, <1>4 DEF Rejections, Rejects, CommitApp
<1>6. q.seen.status # "rejected" /\ q.to.status = "rejected"
  BY <1>5 DEF TellInv, RejectionsPast, Rejects
<1> QED
  BY <1>2, <1>3, <1>4, <1>5, <1>6

LEMMA PastNext ==
  ASSUME StateOK, BoardInv, TellInv, [Next]_vars
  PROVE  RejectionsPast'
<1>1. /\ time \in Nat /\ time' \in {time, time + 1}
      /\ \A e \in Rejections : e.committed \in Nat /\ e.created \in Nat
      /\ \A e \in Rejections' \ Rejections : e.committed = time /\ time' = time + 1
  BY TrailGrows
<1>2. ASSUME NEW e \in Rejections'
      PROVE  e.created < time' /\ e.committed < time'
  <2>1. CASE e \in Rejections
    BY <1>1, <2>1 DEF TellInv, RejectionsPast
  <2>2. CASE e \notin Rejections
    <3>1. PICK r \in Requests : IsApp(r) /\ Rejects(request[r]) /\ e.created = request[r].began
      BY <2>2, NewRejection
    <3>2. request[r].began < time /\ request[r].began \in Nat
      BY <3>1, Kinds DEF TellInv, RejectionsPast, StateOK, AppRequest
    <3> QED
      BY <1>1, <2>2, <3>1, <3>2
  <2> QED
    BY <2>1, <2>2
<1>3. ASSUME NEW r \in Requests, IsApp(r)', Rejects(request'[r])
      PROVE  request'[r].began < time' /\ request'[r].seen.status # "rejected"
  <2>1. CASE request'[r] = request[r]
    <3>1. IsApp(r) /\ Rejects(request[r])
      BY <1>3, <2>1 DEF IsApp
    <3>2. request[r].began < time /\ request[r].began \in Nat
          /\ request[r].seen.status # "rejected"
      BY <3>1, Kinds DEF TellInv, RejectionsPast, StateOK, AppRequest
    <3> QED
      BY <1>1, <2>1, <3>2
  <2>2. CASE request'[r] # request[r]
    <3>1. FreshStage(request'[r]) /\ time' = time + 1
      BY <1>3, <2>2, Moves DEF RequestMoves
    <3>2. request'[r].began = time /\ request'[r].seen.status # "rejected"
      BY <1>3, <3>1 DEF FreshStage, Rejects
    <3> QED
      BY <1>1, <3>1, <3>2
  <2> QED
    BY <2>1, <2>2
<1> QED
  BY <1>2, <1>3 DEF RejectionsPast

LEMMA StandsNext ==
  ASSUME StateOK, BoardInv, TellInv, [Next]_vars
  PROVE  StandsOrUndone'
<1> SUFFICES ASSUME NEW e \in Rejections', app'[e.app].status # "rejected"
             PROVE  Undone(StatusWrites(e.app)', e.committed, time')
  BY DEF StandsOrUndone
<1>1. /\ time \in Nat /\ time' \in {time, time + 1}
      /\ \A x \in Rejections : x.committed \in Nat /\ x.created \in Nat /\ x.app \in Apps
      /\ \A a \in Apps : /\ StatusWrites(a) \subseteq StatusWrites(a)'
                         /\ \A w \in StatusWrites(a) : w.committed \in Nat /\ w.committed < time
  BY TrailGrows
<1>2. e \in Rejections
  BY NewRejection
<1>3. e.committed < time /\ e.committed \in Nat /\ e.app \in Apps
  BY <1>1, <1>2 DEF TellInv, RejectionsPast
<1>4. CASE app'[e.app].status = app[e.app].status
  <2>1. Undone(StatusWrites(e.app), e.committed, time)
    BY <1>2, <1>4 DEF TellInv, StandsOrUndone
  <2> QED
    BY <1>1, <1>3, <2>1, UndoneStays
<1>5. CASE app'[e.app].status # app[e.app].status
  <2>1. /\ \E w \in StatusWrites(e.app)' : w.to = app'[e.app].status /\ w.committed = time
        /\ time' = time + 1
    BY <1>3, <1>5, ChangeWritten
  <2> QED
    BY <1>1, <1>3, <2>1 DEF Undone
<1> QED
  BY <1>4, <1>5

LEMMA ReadNext ==
  ASSUME StateOK, BoardInv, TellInv, [Next]_vars
  PROVE  ReadUndone'
<1> SUFFICES ASSUME NEW e \in Rejections', NEW r \in Requests, IsApp(r)',
                    Rejects(request'[r]), request'[r].app = e.app,
                    e.committed < request'[r].began
             PROVE  Undone(StatusWrites(e.app)', e.committed, request'[r].began)
  BY DEF ReadUndone
<1>1. /\ time \in Nat
      /\ \A x \in Rejections : x.committed \in Nat /\ x.app \in Apps
      /\ \A x \in Rejections' \ Rejections : x.committed = time
      /\ \A a \in Apps : /\ StatusWrites(a) \subseteq StatusWrites(a)'
                         /\ \A w \in StatusWrites(a) : w.committed \in Nat
  BY TrailGrows
<1>2. CASE request'[r] = request[r]
  <2>1. IsApp(r) /\ Rejects(request[r])
    BY <1>2 DEF IsApp
  <2>2. request[r].began < time /\ request[r].began \in Nat
    BY <2>1, Kinds DEF TellInv, RejectionsPast, StateOK, AppRequest
  <2>3. e \in Rejections
    BY <1>1, <1>2, <2>2
  <2>4. Undone(StatusWrites(e.app), e.committed, request[r].began)
    BY <1>2, <2>1, <2>3 DEF TellInv, ReadUndone
  <2> QED
    BY <1>1, <1>2, <2>2, <2>3, <2>4, UndoneStays
<1>3. CASE request'[r] # request[r]
  <2>1. FreshStage(request'[r])
    BY <1>3, Moves DEF RequestMoves
  <2>2. request'[r].began = time /\ app[e.app].status # "rejected"
    BY <2>1 DEF FreshStage, Rejects
  <2>3. e \in Rejections
    BY <1>1, <2>2
  <2>4. Undone(StatusWrites(e.app), e.committed, time)
    BY <2>2, <2>3 DEF TellInv, StandsOrUndone
  <2> QED
    BY <1>1, <2>2, <2>3, <2>4, UndoneStays
<1> QED
  BY <1>2, <1>3

LEMMA BetweenNext ==
  ASSUME StateOK, BoardInv, TellInv, [Next]_vars
  PROVE  UndoneBetween'
<1> SUFFICES ASSUME NEW e \in Rejections', NEW f \in Rejections', e.app = f.app,
                    e.committed < f.created
             PROVE  Undone(StatusWrites(e.app)', e.committed, f.created)
  BY DEF UndoneBetween
<1>1. /\ time \in Nat
      /\ \A x \in Rejections : x.committed \in Nat /\ x.created \in Nat /\ x.app \in Apps
      /\ \A x \in Rejections' \ Rejections : x.committed = time
      /\ \A a \in Apps : /\ StatusWrites(a) \subseteq StatusWrites(a)'
                         /\ \A w \in StatusWrites(a) : w.committed \in Nat
  BY TrailGrows
<1>2. f.created \in Nat /\ f.created < time
  <2>1. CASE f \in Rejections
    BY <1>1, <2>1 DEF TellInv, RejectionsPast
  <2>2. CASE f \notin Rejections
    <3>1. PICK r \in Requests : IsApp(r) /\ Rejects(request[r]) /\ f.created = request[r].began
      BY <2>2, NewRejection
    <3> QED
      BY <3>1, Kinds DEF TellInv, RejectionsPast, StateOK, AppRequest
  <2> QED
    BY <2>1, <2>2
<1>3. e \in Rejections
  BY <1>1, <1>2
<1>4. Undone(StatusWrites(e.app), e.committed, f.created)
  <2>1. CASE f \in Rejections
    BY <1>3, <2>1 DEF TellInv, UndoneBetween
  <2>2. CASE f \notin Rejections
    <3>1. PICK r \in Requests : /\ IsApp(r) /\ Rejects(request[r])
                                /\ f.app = request[r].app /\ f.created = request[r].began
      BY <2>2, NewRejection
    <3> QED
      BY <1>3, <3>1 DEF TellInv, ReadUndone
  <2> QED
    BY <2>1, <2>2
<1> QED
  BY <1>1, <1>2, <1>3, <1>4, UndoneStays

LEMMA ToldNext ==
  ASSUME StateOK, BoardInv, TellInv, [Next]_vars
  PROVE  ToldOfRejections'
<1> DEFINE Known == {e.committed : e \in Rejections}
<1>1. Known \subseteq {e.committed : e \in Rejections'}
  BY TrailGrows
<1>2. /\ told \subseteq Known
      /\ \A r \in Requests : IsTelling(r) => request[r].rejection \in Known
  BY DEF TellInv, ToldOfRejections
<1>3. told' \subseteq Known
  BY <1>2, Moves DEF RequestMoves
<1>4. ASSUME NEW r \in Requests, IsTelling(r)'
      PROVE  request'[r].rejection \in {e.committed : e \in Rejections'}
  <2>1. CASE request'[r] = request[r]
    <3>1. IsTelling(r)
      BY <1>4, <2>1 DEF IsTelling
    <3> QED
      BY <1>1, <1>2, <2>1, <3>1
  <2>2. CASE request'[r] # request[r]
    <3>1. CommitApp(r) /\ Rejects(request[r]) /\ request'[r].rejection = time
      BY <1>4, <2>2, Moves DEF RequestMoves
    <3> DEFINE e == Recorded(request[r])
    <3>2. /\ e.action = request[r].kind /\ e.after = request[r].to /\ e.committed = time
          /\ log' = log \cup {e}
      BY <3>1, CommitFacts
    <3> HIDE DEF e
    <3>3. e \in Rejections'
      BY <3>1, <3>2 DEF Rejections, Rejects
    <3> QED
      BY <3>1, <3>2, <3>3
  <2> QED
    BY <2>1, <2>2
<1> QED
  BY <1>1, <1>3, <1>4 DEF ToldOfRejections

LEMMA TellInit ==
  ASSUME Init
  PROVE  TellInv
<1>1. Rejections = {}
  BY DEF Init, Rejections
<1>2. \A r \in Requests : ~IsApp(r) /\ ~IsTelling(r)
  BY DEF Init, IsApp, IsTelling
<1> QED
  BY <1>1, <1>2 DEF TellInv, RejectionsPast, StandsOrUndone, ReadUndone, UndoneBetween,
                    ToldOfRejections, Init

(* For any number of requests and runs of the pipeline, a candidate hears  *)
(* only of rejections that are committed, and of a second one for the same *)
(* application only when the requests overlapped or the first was undone.  *)
THEOREM NotRejectedTwice == Spec => []RejectedAgainOnlyInOverlap
<1> DEFINE Inv == StateOK /\ BoardInv /\ TellInv
<1>1. Init => Inv
  BY InitState, BoardInit, TellInit
<1>2. Inv /\ [Next]_vars => Inv'
  BY StateNext, BoardNext, PastNext, StandsNext, ReadNext, BetweenNext, ToldNext DEF TellInv
<1>3. Inv => RejectedAgainOnlyInOverlap
  BY DEF TellInv, ToldOfRejections, UndoneBetween, Undone, StatusWrites,
         RejectedAgainOnlyInOverlap
<1> QED
  BY <1>1, <1>2, <1>3, PTL DEF Spec
-----------------------------------------------------------------------------
(* The word of the evaluators *)

EvalLogOK ==
  \A e \in evalLog : e.committed < time /\ eval[e.key] # None

EvalInv == EvalLogOK /\ EvaluatorsWordStands

LEMMA CommitWord ==
  ASSUME StateOK, EvalInv, NEW r \in Requests, CommitEval(r)
  PROVE  EvalInv'
<1> DEFINE q == request[r]
           e == [key |-> q.key, before |-> q.seen, after |-> q.to, committed |-> time]
           f == EvalFlushed(eval[q.key], q)
<1>1. /\ q \in EvalRequest /\ q.key \in Keys /\ TypeOK /\ EvalOK(r)
      /\ q.seen \in EvalRow /\ q.to \in EvalRow /\ q.seen # None
  BY Kinds, NoneApart DEF StateOK, CommitEval, EvalRequest
<1>2. /\ eval[q.key] \in EvalRow /\ time \in Nat /\ IsEval(r)
  BY <1>1 DEF EvalOK, TypeOK, CommitEval
<1>3. /\ f # None
      /\ q.kind = "suggest" => f["rating"] = eval[q.key]["rating"] /\ f["live"] = eval[q.key]["live"]
  BY <1>1, <1>2, EvalFlushedTyped DEF EvalOK
<1>4. \A c \in {"rating", "live"} :
        f[c] = IF q.to[c] # q.seen[c] THEN q.to[c] ELSE eval[q.key][c]
  BY DEF EvalFlushed, EvalColumns
<1>5. /\ eval' = [eval EXCEPT ![q.key] = f] /\ time' = time + 1
      /\ evalLog' = IF q.kind = "suggest" THEN evalLog ELSE evalLog \cup {e}
  BY DEF CommitEval
<1>6. e.key = q.key /\ e.before = q.seen /\ e.after = q.to /\ e.committed = time
  OBVIOUS
<1> HIDE DEF e, f
<1>7. eval'[q.key] = f /\ \A k \in Keys : k # q.key => eval'[k] = eval[k]
  BY <1>1, <1>5 DEF TypeOK
<1>8. \A x \in evalLog : /\ x.committed \in Nat /\ x.committed < time /\ x.key \in Keys
                        /\ eval[x.key] # None
  BY <1>1 DEF TypeOK, EvalEvent, EvalInv, EvalLogOK
<1>9. EvalLogOK'
  <2>1. ASSUME NEW x \in evalLog PROVE x.committed < time' /\ eval'[x.key] # None
    BY <1>2, <1>3, <1>5, <1>7, <1>8
  <2> QED
    BY <1>2, <1>3, <1>5, <1>6, <1>7, <2>1 DEF EvalLogOK
<1>10. EvaluatorsWordStands'
  <2> SUFFICES ASSUME NEW k \in Keys, NEW c \in {"rating", "live"}
               PROVE  \/ eval'[k] = None /\ EvalChanges(k, c)' = {}
                      \/ /\ eval'[k] # None
                         /\ \E x \in EvalChanges(k, c)' :
                              Latest(x, EvalChanges(k, c)') /\ eval'[k][c] = x.after[c]
    BY DEF EvaluatorsWordStands
  <2>1. CASE k = q.key /\ q.kind # "suggest" /\ q.to[c] # q.seen[c]
    <3>1. e \in EvalChanges(k, c)'
      BY <1>5, <1>6, <2>1 DEF EvalChanges
    <3>2. \A x \in EvalChanges(k, c)' : x.committed <= e.committed
      BY <1>2, <1>5, <1>6, <1>8, <2>1 DEF EvalChanges
    <3>3. eval'[k] # None /\ eval'[k][c] = e.after[c]
      BY <1>3, <1>4, <1>6, <1>7, <2>1
    <3> QED
      BY <3>1, <3>2, <3>3 DEF Latest
  <2>2. CASE k # q.key \/ q.kind = "suggest" \/ q.to[c] = q.seen[c]
    <3>1. EvalChanges(k, c)' = EvalChanges(k, c)
      <4>1. e \in evalLog' => e \in evalLog \/ e.key # k \/ q.to[c] = q.seen[c]
        BY <1>5, <1>6, <2>2
      <4> QED
        BY <1>1, <1>5, <1>6, <2>2, <4>1 DEF EvalChanges
    <3>2. /\ eval'[k] = None <=> eval[k] = None
          /\ eval[k] # None => eval'[k][c] = eval[k][c]
      BY <1>1, <1>2, <1>3, <1>4, <1>7, <2>2, NoneApart
    <3> QED
      BY <3>1, <3>2 DEF EvalInv, EvaluatorsWordStands
  <2> QED
    BY <2>1, <2>2
<1> QED
  BY <1>9, <1>10 DEF EvalInv

LEMMA CreateWord ==
  ASSUME StateOK, EvalInv, NEW j \in Keys, NEW rating \in Ratings \cup {None},
         NEW published \in BOOLEAN, CreateEvaluation(j, rating, published)
  PROVE  EvalInv'
<1> DEFINE row == [rating |-> rating, ai |-> None, live |-> TRUE]
           e == [key |-> j, before |-> None, after |-> row, committed |-> time]
<1>1. TypeOK /\ time \in Nat
  BY DEF StateOK, TypeOK
<1>2. row \in EvalRow
  BY DEF EvalRow
<1>3. /\ eval' = [eval EXCEPT ![j] = row] /\ evalLog' = evalLog \cup {e}
      /\ eval[j] = None /\ time' = time + 1
  BY DEF CreateEvaluation
<1>4. e.key = j /\ e.before = None /\ e.after = row /\ e.committed = time
  OBVIOUS
<1> HIDE DEF e, row
<1>5. row # None
  BY <1>2, NoneApart
<1>6. eval'[j] = row /\ \A k \in Keys : k # j => eval'[k] = eval[k]
  BY <1>1, <1>3 DEF TypeOK
<1>7. \A x \in evalLog : /\ x.committed \in Nat /\ x.committed < time /\ x.key \in Keys
                        /\ eval[x.key] # None
  BY <1>1 DEF TypeOK, EvalEvent, EvalInv, EvalLogOK
<1>8. EvalLogOK'
  <2>1. ASSUME NEW x \in evalLog PROVE x.committed < time' /\ eval'[x.key] # None
    BY <1>1, <1>3, <1>5, <1>6, <1>7
  <2> QED
    BY <1>1, <1>3, <1>4, <1>5, <1>6, <2>1 DEF EvalLogOK
<1>9. EvaluatorsWordStands'
  <2> SUFFICES ASSUME NEW k \in Keys, NEW c \in {"rating", "live"}
               PROVE  \/ eval'[k] = None /\ EvalChanges(k, c)' = {}
                      \/ /\ eval'[k] # None
                         /\ \E x \in EvalChanges(k, c)' :
                              Latest(x, EvalChanges(k, c)') /\ eval'[k][c] = x.after[c]
    BY DEF EvaluatorsWordStands
  <2>1. CASE k = j
    <3>1. EvalChanges(k, c)' = {e}
      BY <1>3, <1>4, <1>7, <2>1 DEF EvalChanges
    <3>2. Latest(e, {e})
      BY <1>1, <1>4 DEF Latest
    <3> QED
      BY <1>4, <1>5, <1>6, <2>1, <3>1, <3>2
  <2>2. CASE k # j
    <3>1. EvalChanges(k, c)' = EvalChanges(k, c)
      BY <1>3, <1>4, <2>2 DEF EvalChanges
    <3> QED
      BY <1>6, <2>2, <3>1 DEF EvalInv, EvaluatorsWordStands
  <2> QED
    BY <2>1, <2>2
<1> QED
  BY <1>8, <1>9 DEF EvalInv

LEMMA EvalNext ==
  ASSUME StateOK, EvalInv, [Next]_vars
  PROVE  EvalInv'
<1>1. EvalMoves /\ time' \in {time, time + 1} /\ time \in Nat
  BY Moves DEF StateOK, TypeOK
<1>2. CASE eval' = eval /\ evalLog' = evalLog
  <2>1. EvalLogOK'
    BY <1>1, <1>2 DEF EvalInv, EvalLogOK, StateOK, TypeOK, EvalEvent
  <2>2. EvaluatorsWordStands'
    <3>1. \A k \in Keys, c \in {"rating", "live"} : EvalChanges(k, c)' = EvalChanges(k, c)
      BY <1>2 DEF EvalChanges
    <3> QED
      BY <1>2, <3>1 DEF EvalInv, EvaluatorsWordStands, Latest
  <2> QED
    BY <2>1, <2>2 DEF EvalInv
<1> QED
  BY <1>1, <1>2, CommitWord, CreateWord DEF EvalMoves

(* The rating task, whenever its LLM answers, leaves the rating and the    *)
(* deletion of an evaluation as its evaluator last left them.              *)
THEOREM WordStands == Spec => []EvaluatorsWordStands
<1> DEFINE Inv == StateOK /\ EvalInv
<1>1. Init => Inv
  BY InitState DEF Init, EvalInv, EvalLogOK, EvaluatorsWordStands, EvalChanges
<1>2. Inv /\ [Next]_vars => Inv'
  BY StateNext, EvalNext
<1>3. Inv => EvaluatorsWordStands
  BY DEF EvalInv
<1> QED
  BY <1>1, <1>2, <1>3, PTL DEF Spec
=============================================================================
