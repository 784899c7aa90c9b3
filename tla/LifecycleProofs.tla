-------------------------- MODULE LifecycleProofs --------------------------
(***************************************************************************)
(* When nothing is lost or repeated, each application is in one place at a *)
(* time - a handler's outbox, the queue or a worker - until it is          *)
(* resolved or its retries are used up.  From that: the pipeline never     *)
(* touches a resolved application, and it implements ApplicationLifecycle. *)
(***************************************************************************)
EXTENDS ApplyTablesProofs

FaultFree == Faults = {} /\ MaxRequeues = 0

Busy(w) == pc[w] # "idle"

(* No application is in two places. *)
Once ==
  /\ \A rows, other \in outbox : rows # other => rows \cap other = {}
  /\ \A rows \in outbox : \A m \in queue : m.app \notin rows
  /\ \A rows \in outbox : \A w \in Workers : Busy(w) => App(w) \notin rows
  /\ \A m, n \in queue : m.app = n.app => m = n
  /\ \A m \in queue : \A w \in Workers : Busy(w) => App(w) # m.app
  /\ \A w, v \in Workers : Busy(w) /\ Busy(v) /\ App(w) = App(v) => w = v

Fresh(a) == app[a].status = "parsing" /\ app[a].cand = NoCandidate

(* What is still to be resolved is as it was submitted, what recruiters    *)
(* are editing has been resolved.                                          *)
Pending ==
  /\ \A rows \in outbox : \A a \in rows : Fresh(a)
  /\ \A m \in queue : Fresh(m.app)
  /\ \A w \in Workers : pc[w] \in Resolving =>
       /\ Fresh(App(w))
       /\ seen[w].status = "parsing" /\ seen[w].cand = NoCandidate
  /\ \A r \in Recruiters : edit[r] # NoEdit => app[edit[r].app].status \in Stages

(* An application that is nowhere, and one whose retries are used up is.   *)
Away(a) ==
  /\ \A rows \in outbox : a \notin rows
  /\ \A m \in queue : m.app # a
  /\ \A w \in Workers : Busy(w) => App(w) # a

ExhaustedAway ==
  \A a \in Apps : <<a, "exhausted">> \in lost => app[a].status # "none" /\ Away(a)

OnceInv == TypeInv /\ CarriedOK /\ NoneUnattached /\ Once /\ Pending /\ ExhaustedAway

LEMMA OnceInit == Init => OnceInv
  BY TypeInit DEF Init, OnceInv, CarriedOK, Once, Pending, ExhaustedAway, NoneUnattached,
     NewApp, Busy, Resolving

(* The steps of a fault-free behaviour. *)
LEMMA FaultFreeSteps ==
  ASSUME FaultFree, TypeInv, [Next]_vars
  PROVE  \/ \E new \in SUBSET Apps, j \in Jobs, dup \in BOOLEAN : CreateApplications(new, j, dup)
         \/ \E rows \in outbox : \E a \in rows : Enqueue(rows, a)
         \/ \E r \in Recruiters, a \in Apps, to \in Stages : LoadForEdit(r, a, to)
         \/ \E r \in Recruiters : CommitEdit(r)
         \/ \E a \in Apps : DeleteApplication(a)
         \/ \E c \in Candidates : ByHand(c)
         \/ \E j \in Jobs : DeleteJob(j)
         \/ \E w \in Workers : TaskStep(w)
         \/ \E w \in Workers, m \in queue : Deliver(w, m)
         \/ UNCHANGED vars
<1>1. ASSUME NEW a \in Apps
      PROVE  ~FixStuckParsing(a)
  BY <1>1 DEF FaultFree, FixStuckParsing, TypeInv, TypeOK
<1>2. \A w \in Workers : ~Fault(w)
  BY DEF FaultFree, Fault, DatabaseError, PublishFails, RetryRejected, ChildLost, WorkerCrash
<1>3. \A rows \in outbox : ~EnqueueFails(rows)
  BY DEF FaultFree, EnqueueFails
<1> QED
  BY <1>1, <1>2, <1>3 DEF Next, Handlers, ByHand

-----------------------------------------------------------------------------
(* Once is inductive. *)

LEMMA OnceFrame ==
  ASSUME Once, outbox' = outbox, queue' = queue, held' = held,
         \A w \in Workers : pc'[w] = "idle" <=> pc[w] = "idle"
  PROVE  Once'
  BY DEF Once, Busy, App

LEMMA OnceRelease ==
  ASSUME TypeInv, Once, NEW w \in Workers, outbox' = outbox, queue' = queue, Release(w)
  PROVE  Once'
<1>1. \A v \in Workers : Busy(v)' => Busy(v) /\ App(v)' = App(v)
  BY DEF Release, Busy, App, TypeInv, TypeOK
<1> QED
  BY <1>1 DEF Once

LEMMA OnceStep ==
  ASSUME FaultFree, OnceInv, [Next]_vars
  PROVE  Once'
<1> USE DEF OnceInv
<1>1. ASSUME NEW new \in SUBSET Apps, NEW j \in Jobs, NEW dup \in BOOLEAN,
             CreateApplications(new, j, dup)
      PROVE  Once'
  <2>1. \A a \in new : app[a].status = "none"
    BY <1>1 DEF CreateApplications
  <2>2. \A rows \in outbox : new \cap rows = {}
    BY <2>1 DEF Pending, Fresh
  <2>3. \A m \in queue : m.app \notin new
    BY <2>1 DEF Pending, Fresh
  <2>4. \A w \in Workers : Busy(w) => App(w) \notin new
    BY <2>1 DEF Busy, CarriedOK
  <2>5. /\ outbox' = outbox \cup {new} /\ queue' = queue
        /\ pc' = pc /\ held' = held
    BY <1>1 DEF CreateApplications, workerVars
  <2> QED
    BY <2>2, <2>3, <2>4, <2>5 DEF Once, Busy, App
<1>2. ASSUME NEW rows \in outbox, NEW a \in rows, Enqueue(rows, a)
      PROVE  Once'
  <2> DEFINE msg == [app |-> a, copy |-> 0, retries |-> 0]
  <2>1. /\ outbox' = (outbox \ {rows}) \cup ({rows \ {a}} \ {{}})
        /\ queue' = queue \cup {msg} /\ pc' = pc /\ held' = held
    BY <1>2 DEF Enqueue, workerVars
  <2>2. msg.app = a
    OBVIOUS
  <2>3. \A new \in outbox' : a \notin new /\ \E old \in outbox : new \subseteq old
    BY <1>2, <2>1 DEF Once
  <2>4. \A new, other \in outbox' : new # other => new \cap other = {}
    BY <2>1 DEF Once
  <2>5. \A m \in queue : m.app # a
    BY <1>2 DEF Once
  <2>6. \A w \in Workers : Busy(w) => App(w) # a
    BY <1>2 DEF Once
  <2> HIDE DEF msg
  <2>7. \A new \in outbox' : \A m \in queue' : m.app \notin new
    BY <2>1, <2>2, <2>3 DEF Once
  <2>8. \A new \in outbox' : \A w \in Workers : Busy(w) => App(w) \notin new
    BY <2>3 DEF Once
  <2>9. \A m, n \in queue' : m.app = n.app => m = n
    BY <2>1, <2>2, <2>5 DEF Once
  <2>10. \A m \in queue' : \A w \in Workers : Busy(w) => App(w) # m.app
    BY <2>1, <2>2, <2>6 DEF Once
  <2>11. \A w \in Workers : Busy(w)' = Busy(w) /\ App(w)' = App(w)
    BY <2>1 DEF Busy, App
  <2> QED
    BY <2>4, <2>7, <2>8, <2>9, <2>10, <2>11 DEF Once
<1>3. ASSUME NEW w \in Workers, NEW m \in queue, Deliver(w, m)
      PROVE  Once'
  <2>1. /\ outbox' = outbox /\ queue' = queue \ {m} /\ pc[w] = "idle"
        /\ Busy(w)' /\ App(w)' = m.app
        /\ \A v \in Workers \ {w} : Busy(v)' = Busy(v) /\ App(v)' = App(v)
    BY <1>3 DEF Deliver, Goto, Busy, App, apiVars, TypeInv, TypeOK
  <2> QED
    BY <2>1 DEF Once
<1>4. ASSUME NEW w \in Workers, TaskStep(w)
      PROVE  Once'
  <2>1. CASE RetryTask(w)
    <3> DEFINE msg == [held[w] EXCEPT !.retries = @ + 1]
    <3>1. held[w] \in Message
      BY <2>1, BusyWorker DEF RetryTask
    <3>2. msg.app = App(w)
      BY <3>1 DEF App, Message
    <3>3. /\ outbox' = outbox /\ queue' = queue \cup {msg} /\ Busy(w)
          /\ \A v \in Workers : Busy(v)' => Busy(v) /\ v # w /\ App(v)' = App(v)
      BY <2>1 DEF RetryTask, Release, Busy, App, apiVars, TypeInv, TypeOK
    <3> HIDE DEF msg
    <3> QED
      BY <3>2, <3>3 DEF Once
  <2>2. CASE RetriesExhausted(w)
    BY <2>2, OnceRelease DEF RetriesExhausted, apiVars
  <2>3. CASE EmbedAndFinish(w)
    BY <2>3, OnceRelease DEF EmbedAndFinish, apiVars
  <2>4. CASE FetchResume(w) \/ ExtractSucceeds(w) \/ ExtractTimesOut(w) \/ ExtractRejects(w)
             \/ CheckDuplicate(w) \/ SelectCandidate(w) \/ SaveConflicts(w)
             \/ (\E c \in Candidates :
                    SaveRefused(w, c) \/ SaveRolledBack(w, c) \/ SaveApplied(w, c))
             \/ MarkFailed(w) \/ PublishScore(w)
    <3>1. /\ outbox' = outbox /\ queue' = queue /\ held' = held
          /\ \A v \in Workers : pc'[v] = "idle" <=> pc[v] = "idle"
      BY <2>4 DEF FetchResume, ExtractSucceeds, ExtractTimesOut, ExtractRejects,
         CheckDuplicate, SelectCandidate, SaveConflicts, SaveRefused, SaveRolledBack,
         SaveApplied, MarkFailed, PublishScore, Goto, apiVars, TypeInv, TypeOK
    <3> QED
      BY <3>1, OnceFrame
  <2> QED
    BY <1>4, <2>1, <2>2, <2>3, <2>4 DEF TaskStep
<1>5. CASE \/ \E r \in Recruiters, a \in Apps, to \in Stages : LoadForEdit(r, a, to)
           \/ \E r \in Recruiters : CommitEdit(r)
           \/ \E a \in Apps : DeleteApplication(a)
           \/ \E c \in Candidates : ByHand(c)
           \/ \E j \in Jobs : DeleteJob(j)
           \/ UNCHANGED vars
  <2>1. outbox' = outbox /\ queue' = queue /\ held' = held /\ pc' = pc
    BY <1>5 DEF LoadForEdit, CommitEdit, DeleteApplication, ByHand, CreateCandidate,
       UpdateCandidate, DeleteCandidate, DeleteJob,
       workerVars, apiVars, vars
  <2> QED
    BY <2>1, OnceFrame
<1> QED
  BY <1>1, <1>2, <1>3, <1>4, <1>5, FaultFreeSteps
-----------------------------------------------------------------------------
(* Who may write an application, and when. *)

Same(a) == /\ app'[a].status = app[a].status /\ app'[a].cand = app[a].cand
           /\ app'[a].job = app[a].job

Submits(a) == /\ app[a].status = "none" /\ app'[a].status = "parsing"
              /\ app'[a].cand = app[a].cand

Moves(a) == \E r \in Recruiters :
              /\ edit[r] # NoEdit /\ edit[r].app = a /\ app[a].status \in Stages
              /\ app'[a].status = edit[r].to
              /\ app'[a].cand = app[a].cand /\ app'[a].job = app[a].job

Resolves(a) == \E w \in Workers :
                 /\ Busy(w) /\ App(w) = a /\ Fresh(a) /\ pc'[w] \notin Resolving
                 /\ app'[a].job = app[a].job
                 /\ \/ app'[a].status = "parse_failed" /\ app'[a].cand = app[a].cand
                    \/ /\ app'[a].status = "applied"
                       /\ \E c \in Candidates :
                            app'[a].cand = c /\ ~UniquePairBroken(a, c)

LEMMA FreshWritten ==
  ASSUME OnceInv, NEW w \in Workers, pc[w] \in Resolving
  PROVE  /\ App(w) \in Apps /\ Busy(w) /\ Fresh(App(w))
         /\ \A s \in Statuses \ {"parsing"} : Written(seen[w].status, s, app[App(w)].status) = s
         /\ \A c \in Candidates : Written(seen[w].cand, c, app[App(w)].cand) = c
  BY BusyWorker, ConstantsOK DEF OnceInv, Pending, Written, Busy, Resolving

LEMMA Writers ==
  ASSUME OnceInv, [Next]_vars, NEW a \in Apps
  PROVE  Same(a) \/ Submits(a) \/ Moves(a) \/ Resolves(a)
<1> USE DEF OnceInv, TypeInv, TypeOK
<1>1. ASSUME NEW new \in SUBSET Apps, NEW j \in Jobs, NEW dup \in BOOLEAN,
             CreateApplications(new, j, dup)
      PROVE  Same(a) \/ Submits(a)
  <2>1. a \in new => Submits(a)
    BY <1>1, Created DEF Submits
  <2>2. a \notin new => Same(a)
    BY <1>1, Created DEF Same
  <2> QED
    BY <2>1, <2>2
<1>2. ASSUME NEW r \in Recruiters, CommitEdit(r)
      PROVE  Same(a) \/ Moves(a)
  <2>1. CASE edit[r].app = a
    <3>1. /\ app'[a].status = Written(edit[r].seen, edit[r].to, app[a].status)
          /\ app'[a].cand = app[a].cand /\ app'[a].job = app[a].job
      BY <1>2, <2>1 DEF CommitEdit, AppRow
    <3>2. edit[r] # NoEdit /\ app[a].status \in Stages
      BY <1>2, <2>1 DEF CommitEdit, Pending
    <3> QED
      BY <2>1, <3>1, <3>2 DEF Same, Moves, Written
  <2>2. CASE edit[r].app # a
    BY <1>2, <2>2 DEF CommitEdit, Same
  <2> QED
    BY <2>1, <2>2
<1>3. ASSUME NEW b \in Apps, DeleteApplication(b)
      PROVE  Same(a)
  BY <1>3 DEF DeleteApplication, AppRow, Same
<1>4. ASSUME NEW w \in Workers, pc[w] \in Resolving, pc'[w] \notin Resolving,
             app' = [app EXCEPT ![App(w)].status = "parse_failed"]
      PROVE  Same(a) \/ Resolves(a)
  <2>1. CASE App(w) = a
    <3>1. /\ app'[a].status = "parse_failed" /\ app'[a].cand = app[a].cand
          /\ app'[a].job = app[a].job
      BY <1>4, <2>1 DEF AppRow
    <3> QED
      BY <1>4, <2>1, <3>1, FreshWritten DEF Resolves
  <2>2. CASE App(w) # a
    BY <1>4, <2>2 DEF Same
  <2> QED
    BY <2>1, <2>2
<1>5. ASSUME NEW w \in Workers, MarkFailed(w)
      PROVE  Same(a) \/ Resolves(a)
  <2>1. pc[w] \in Resolving /\ pc'[w] \notin Resolving
    BY <1>5 DEF MarkFailed, Goto, Resolving
  <2>2. Written(seen[w].status, "parse_failed", app[App(w)].status) = "parse_failed"
    BY <2>1, FreshWritten, ConstantTypes
  <2> QED
    BY <1>4, <1>5, <2>1, <2>2 DEF MarkFailed
<1>6. ASSUME NEW w \in Workers, NEW c \in Candidates, SaveRefused(w, c)
      PROVE  Same(a) \/ Resolves(a)
  <2>1. pc[w] \in Resolving /\ pc'[w] \notin Resolving
    BY <1>6 DEF SaveRefused, Goto, Resolving
  <2>2. Written(seen[w].status, "parse_failed", app[App(w)].status) = "parse_failed"
    BY <2>1, FreshWritten, ConstantTypes
  <2> QED
    BY <1>4, <1>6, <2>1, <2>2 DEF SaveRefused
<1>7. ASSUME NEW w \in Workers, NEW c \in Candidates, SaveRolledBack(w, c)
      PROVE  Same(a) \/ Resolves(a)
  <2>1. pc[w] \in Resolving /\ pc'[w] \notin Resolving
    BY <1>7 DEF SaveRolledBack, Goto, Resolving
  <2> QED
    BY <1>4, <1>7, <2>1 DEF SaveRolledBack
<1>8. ASSUME NEW w \in Workers, NEW c \in Candidates, SaveApplied(w, c)
      PROVE  Same(a) \/ Resolves(a)
  <2>1. pc[w] \in Resolving /\ pc'[w] \notin Resolving
    BY <1>8 DEF SaveApplied, Goto, Resolving
  <2>2. CASE App(w) = a
    <3>1. /\ Written(seen[w].status, "applied", app[a].status) = "applied"
          /\ Written(seen[w].cand, c, app[a].cand) = c
          /\ Fresh(a) /\ Busy(w)
      BY <2>1, <2>2, FreshWritten, ConstantTypes, ConstantsOK
    <3>2. app'[a].cand = c /\ app'[a].job = app[a].job
      BY <1>8, <2>2, <3>1, AppliedRow
    <3>3. app'[a].status = "applied" /\ ~UniquePairBroken(a, c)
      BY <1>8, <2>2, <3>1 DEF SaveApplied, AppRow
    <3> QED
      BY <2>1, <2>2, <3>1, <3>2, <3>3 DEF Resolves
  <2>3. CASE App(w) # a
    <3>1. app'[a] = app[a]
      BY <1>8, <2>3, AppliedRow
    <3> QED
      BY <3>1 DEF Same
  <2> QED
    BY <2>2, <2>3
<1>9. CASE app' = app
  BY <1>9 DEF Same
<1> HIDE DEF OnceInv
<1> QED
  BY <1>1, <1>2, <1>3, <1>5, <1>6, <1>7, <1>8, <1>9, AppWriters
(* An application in nobody's hands, or in those of a worker that goes on, *)
(* stays as it was submitted.                                              *)
LEMMA FreshStays ==
  ASSUME OnceInv, [Next]_vars, NEW a \in Apps, Fresh(a),
         \A w \in Workers : Busy(w) /\ App(w) = a => pc'[w] \in Resolving
  PROVE  Fresh(a)'
<1>1. ~Submits(a) /\ ~Moves(a) /\ ~Resolves(a)
  BY ConstantsOK DEF Submits, Moves, Resolves, Fresh
<1> QED
  BY <1>1, Writers DEF Same, Fresh

LEMMA StagedStays ==
  ASSUME OnceInv, [Next]_vars, NEW a \in Apps, app[a].status \in Stages
  PROVE  app'[a].status \in Stages
<1>1. ~Submits(a) /\ ~Resolves(a)
  BY ConstantsOK DEF Submits, Resolves, Fresh
<1>2. Moves(a) => app'[a].status \in Stages
  BY DEF Moves, OnceInv, TypeInv, TypeOK
<1> QED
  BY <1>1, <1>2, Writers DEF Same

LEMMA PendingStep ==
  ASSUME FaultFree, OnceInv, [Next]_vars
  PROVE  Pending'
<1>1. ASSUME NEW rows \in outbox', NEW a \in rows
      PROVE  Fresh(a)'
  <2>1. CASE \E old \in outbox : a \in old
    <3>1. Fresh(a) /\ a \in Apps /\ \A w \in Workers : Busy(w) => App(w) # a
      BY <2>1 DEF OnceInv, TypeInv, TypeOK, Pending, Once
    <3> QED
      BY <3>1, FreshStays
  <2>2. CASE ~ \E old \in outbox : a \in old
    <3>1. PICK new \in SUBSET Apps, j \in Jobs, dup \in BOOLEAN :
            CreateApplications(new, j, dup) /\ a \in new
      <4>1. ASSUME NEW w \in Workers, TaskStep(w) \/ \E m \in queue : Deliver(w, m)
            PROVE  outbox' = outbox
        BY <4>1 DEF TaskStep, FetchResume, ExtractSucceeds, ExtractTimesOut, ExtractRejects,
           CheckDuplicate, SelectCandidate, SaveConflicts, SaveRefused, SaveRolledBack,
           SaveApplied, MarkFailed, PublishScore, EmbedAndFinish, RetryTask,
           RetriesExhausted, Deliver, apiVars
      <4>2. outbox' # outbox
        BY <2>2
      <4>3. ASSUME NEW old \in outbox, NEW b \in old, Enqueue(old, b)
            PROVE  FALSE
        BY <2>2, <4>3 DEF Enqueue
      <4>4. \E new \in SUBSET Apps, j \in Jobs, dup \in BOOLEAN :
              CreateApplications(new, j, dup)
        BY <4>1, <4>2, <4>3, FaultFreeSteps DEF OnceInv, LoadForEdit, CommitEdit,
           DeleteApplication, ByHand, CreateCandidate, UpdateCandidate, DeleteCandidate,
           DeleteJob, apiVars, vars
      <4>5. PICK new \in SUBSET Apps, j \in Jobs, dup \in BOOLEAN :
              CreateApplications(new, j, dup)
        BY <4>4
      <4>6. a \in new
        BY <2>2, <4>5 DEF CreateApplications
      <4> QED
        BY <4>5, <4>6
    <3> QED
      BY <3>1, Created DEF Fresh, OnceInv, NoneUnattached
  <2> QED
    BY <2>1, <2>2
<1>2. ASSUME NEW m \in queue'
      PROVE  Fresh(m.app)'
  <2>1. CASE m \in queue
    <3>1. m.app \in Apps /\ Fresh(m.app) /\ \A w \in Workers : Busy(w) => App(w) # m.app
      BY <2>1 DEF OnceInv, TypeInv, TypeOK, Message, Pending, Once
    <3> QED
      BY <3>1, FreshStays
  <2>2. CASE m \notin queue
    <3>1. ASSUME NEW rows \in outbox, NEW a \in rows, Enqueue(rows, a)
          PROVE  Fresh(m.app)'
      <4>1. m.app = a /\ app' = app
        BY <2>2, <3>1 DEF Enqueue, tables
      <4> QED
        BY <4>1 DEF Fresh, OnceInv, Pending
    <3>2. ASSUME NEW w \in Workers, TaskStep(w)
          PROVE  Fresh(m.app)'
      <4>1. RetryTask(w)
        BY <1>2, <2>2, <3>2 DEF TaskStep, FetchResume, ExtractSucceeds, ExtractTimesOut,
           ExtractRejects, CheckDuplicate, SelectCandidate, SaveConflicts, SaveRefused,
           SaveRolledBack, SaveApplied, MarkFailed, PublishScore, EmbedAndFinish,
           RetriesExhausted
      <4>2. held[w] \in Message /\ pc[w] \in Resolving
        BY <4>1, BusyWorker DEF RetryTask, OnceInv, Resolving
      <4>3. [held[w] EXCEPT !.retries = @ + 1].app = App(w)
        BY <4>2 DEF Message, App
      <4>4. m.app = App(w) /\ app' = app
        BY <1>2, <2>2, <4>1, <4>3 DEF RetryTask, tables
      <4> QED
        BY <4>2, <4>4 DEF Fresh, OnceInv, Pending
    <3> QED
      BY <1>2, <2>2, <3>1, <3>2, FaultFreeSteps DEF OnceInv, CreateApplications,
         LoadForEdit, CommitEdit, DeleteApplication, ByHand, CreateCandidate,
         UpdateCandidate, DeleteCandidate, DeleteJob, Deliver, vars
  <2> QED
    BY <2>1, <2>2
<1>3. ASSUME NEW w \in Workers, pc'[w] \in Resolving
      PROVE  Fresh(App(w))' /\ seen'[w].status = "parsing" /\ seen'[w].cand = NoCandidate
  <2>1. ASSUME NEW m \in queue, Deliver(w, m)
        PROVE  Fresh(App(w))' /\ seen'[w].status = "parsing" /\ seen'[w].cand = NoCandidate
    <3>1. /\ App(w)' = m.app /\ app' = app /\ seen'[w].status = app[m.app].status
          /\ seen'[w].cand = app[m.app].cand
      BY <2>1 DEF Deliver, App, tables, OnceInv, TypeInv, TypeOK
    <3> QED
      BY <3>1 DEF Fresh, OnceInv, Pending
  <2>2. CASE pc[w] # "idle" /\ held'[w] = held[w] /\ seen'[w] = seen[w]
    <3>1. pc[w] \in Resolving
      <4>1. ASSUME NEW v \in Workers, TaskStep(v) \/ \E m \in queue : Deliver(v, m)
            PROVE  pc[w] \in Resolving
        BY <1>3, <2>2, <4>1 DEF TaskStep, FetchResume, ExtractSucceeds, ExtractTimesOut,
           ExtractRejects, CheckDuplicate, SelectCandidate, SaveConflicts, SaveRefused,
           SaveRolledBack, SaveApplied, MarkFailed, PublishScore, EmbedAndFinish, RetryTask,
           RetriesExhausted, Deliver, Goto, Release, Resolving, OnceInv, TypeInv, TypeOK
      <4> QED
        BY <1>3, <4>1, FaultFreeSteps DEF OnceInv, CreateApplications, Enqueue,
           LoadForEdit, CommitEdit, DeleteApplication, ByHand, CreateCandidate,
           UpdateCandidate, DeleteCandidate, DeleteJob, workerVars, vars
    <3>2. App(w) \in Apps /\ Fresh(App(w)) /\ App(w)' = App(w)
      BY <2>2, <3>1, FreshWritten DEF App
    <3>3. \A v \in Workers : Busy(v) /\ App(v) = App(w) => pc'[v] \in Resolving
      BY <1>3, <2>2 DEF OnceInv, Once, Busy
    <3>4. Fresh(App(w))'
      BY <3>2, <3>3, FreshStays DEF Fresh
    <3> QED
      BY <2>2, <3>1, <3>4 DEF OnceInv, Pending
  <2> QED
    BY <1>3, <2>1, <2>2, WorkerStep DEF OnceInv, Resolving
<1>4. ASSUME NEW r \in Recruiters, edit'[r] # NoEdit
      PROVE  app'[edit'[r].app].status \in Stages
  <2>1. CASE edit[r] # NoEdit /\ edit'[r] = edit[r]
    <3>1. edit[r].app \in Apps /\ app[edit[r].app].status \in Stages
      BY <2>1 DEF OnceInv, TypeInv, SlotsOK, Pending
    <3> QED
      BY <2>1, <3>1, StagedStays
  <2>2. CASE app[edit'[r].app].status \in Stages /\ app' = app
    BY <2>2
  <2> QED
    BY <1>4, <2>1, <2>2, EditStep DEF OnceInv
<1> QED
  BY <1>1, <1>2, <1>3, <1>4 DEF Pending

LEMMA AwayStays ==
  ASSUME FaultFree, OnceInv, [Next]_vars, NEW a \in Apps, app[a].status # "none", Away(a)
  PROVE  Away(a)'
<1> USE DEF OnceInv, TypeInv, TypeOK
<1>1. ASSUME NEW new \in SUBSET Apps, NEW j \in Jobs, NEW dup \in BOOLEAN,
             CreateApplications(new, j, dup)
      PROVE  Away(a)'
  BY <1>1 DEF CreateApplications, Away, Busy, App, workerVars
<1>2. ASSUME NEW rows \in outbox, NEW b \in rows, Enqueue(rows, b)
      PROVE  Away(a)'
  <2>1. b # a
    BY <1>2 DEF Away
  <2> QED
    BY <1>2, <2>1 DEF Enqueue, Away, Busy, App, workerVars
<1>3. ASSUME NEW w \in Workers, NEW m \in queue, Deliver(w, m)
      PROVE  Away(a)'
  BY <1>3 DEF Deliver, Goto, Away, Busy, App, apiVars
<1>4. ASSUME NEW w \in Workers, TaskStep(w)
      PROVE  Away(a)'
  <2>1. /\ outbox' = outbox
        /\ \A v \in Workers : Busy(v)' => Busy(v) /\ App(v)' = App(v)
    BY <1>4 DEF TaskStep, FetchResume, ExtractSucceeds, ExtractTimesOut, ExtractRejects,
       CheckDuplicate, SelectCandidate, SaveConflicts, SaveRefused, SaveRolledBack,
       SaveApplied, MarkFailed, PublishScore, EmbedAndFinish, RetryTask, RetriesExhausted,
       Goto, Release, Busy, App, apiVars
  <2>2. queue' = queue \/ RetryTask(w)
    BY <1>4 DEF TaskStep, FetchResume, ExtractSucceeds, ExtractTimesOut, ExtractRejects,
       CheckDuplicate, SelectCandidate, SaveConflicts, SaveRefused, SaveRolledBack,
       SaveApplied, MarkFailed, PublishScore, EmbedAndFinish, RetriesExhausted
  <2>3. ASSUME RetryTask(w), NEW m \in queue'
        PROVE  m.app # a
    <3>1. held[w] \in Message /\ Busy(w)
      BY <2>3, BusyWorker DEF RetryTask, Busy
    <3>2. [held[w] EXCEPT !.retries = @ + 1].app = App(w)
      BY <3>1 DEF Message, App
    <3> QED
      BY <2>3, <3>1, <3>2 DEF RetryTask, Away
  <2> QED
    BY <2>1, <2>2, <2>3 DEF Away
<1>5. CASE /\ outbox' = outbox /\ queue' = queue /\ held' = held /\ pc' = pc
  BY <1>5 DEF Away, Busy, App
<1>6. CASE \/ \E r \in Recruiters, b \in Apps, to \in Stages : LoadForEdit(r, b, to)
           \/ \E r \in Recruiters : CommitEdit(r)
           \/ \E b \in Apps : DeleteApplication(b)
           \/ \E c \in Candidates : ByHand(c)
           \/ \E j \in Jobs : DeleteJob(j)
           \/ UNCHANGED vars
  <2>1. outbox' = outbox /\ queue' = queue /\ held' = held /\ pc' = pc
    BY <1>6 DEF LoadForEdit, CommitEdit, DeleteApplication, ByHand, CreateCandidate,
       UpdateCandidate, DeleteCandidate, DeleteJob, workerVars, apiVars, vars
  <2> QED
    BY <1>5, <2>1
<1> QED
  BY <1>1, <1>2, <1>3, <1>4, <1>6, FaultFreeSteps

(* Without faults only a task at its last retry is given up. *)
LEMMA LostStep ==
  ASSUME FaultFree, OnceInv, [Next]_vars
  PROVE  lost' = lost \/ \E w \in Workers : RetriesExhausted(w)
<1>1. ASSUME NEW w \in Workers, TaskStep(w)
      PROVE  lost' = lost \/ RetriesExhausted(w)
  BY <1>1 DEF TaskStep, FetchResume, ExtractSucceeds, ExtractTimesOut, ExtractRejects,
     CheckDuplicate, SelectCandidate, SaveConflicts, SaveRefused, SaveRolledBack,
     SaveApplied, MarkFailed, PublishScore, EmbedAndFinish, RetryTask
<1>2. ASSUME NEW c \in Candidates, ByHand(c)
      PROVE  lost' = lost
  BY <1>2 DEF ByHand, CreateCandidate, UpdateCandidate, DeleteCandidate
<1> QED
  BY <1>1, <1>2, FaultFreeSteps DEF OnceInv, CreateApplications, Enqueue, LoadForEdit,
     CommitEdit, DeleteApplication, DeleteJob, Deliver, vars

LEMMA ExhaustedAwayStep ==
  ASSUME FaultFree, OnceInv, [Next]_vars
  PROVE  ExhaustedAway'
<1> SUFFICES ASSUME NEW a \in Apps, <<a, "exhausted">> \in lost'
             PROVE  app'[a].status # "none" /\ Away(a)'
  BY DEF ExhaustedAway
<1>1. CASE <<a, "exhausted">> \in lost
  BY <1>1, AwayStays, StatusMovesOn DEF OnceInv, ExhaustedAway
<1>2. CASE <<a, "exhausted">> \notin lost
  <2>1. PICK w \in Workers : RetriesExhausted(w)
    BY <1>2, LostStep
  <2>2. Busy(w) /\ App(w) = a
    BY <1>2, <2>1 DEF RetriesExhausted, Busy
  <2>3. outbox' = outbox /\ queue' = queue /\ app' = app
    BY <2>1 DEF RetriesExhausted, apiVars, tables
  <2>4. \A v \in Workers : Busy(v)' => Busy(v) /\ v # w /\ App(v)' = App(v)
    BY <2>1 DEF RetriesExhausted, Release, Busy, App, OnceInv, TypeInv, TypeOK
  <2>5. Away(a)'
    BY <2>2, <2>3, <2>4 DEF Away, OnceInv, Once
  <2> QED
    BY <2>2, <2>3, <2>5 DEF OnceInv, CarriedOK, Busy
<1> QED
  BY <1>1, <1>2

LEMMA OnceInvStep == FaultFree /\ OnceInv /\ [Next]_vars => OnceInv'
  BY TypeStep, CarriedStep, NoneUnattachedStep, OnceStep, PendingStep, ExhaustedAwayStep
     DEF OnceInv

LEMMA OnceAlways ==
  ASSUME FaultFree
  PROVE  Spec => []OnceInv
<1>1. OnceInv /\ [Next]_vars => OnceInv'
  BY OnceInvStep
<1> QED
  BY OnceInit, <1>1, PTL DEF Spec

-----------------------------------------------------------------------------
(* Without faults no step of the pipeline touches an application that has  *)
(* been resolved: any later step of its worker only requests the score and *)
(* embeds the candidate, and no second message exists.                     *)
THEOREM ResolvedUntouched ==
  ASSUME FaultFree
  PROVE  Spec => ResolvedBelongsToRecruiters
<1> DEFINE Step == \A a \in Apps : app[a].status \notin {"none", "parsing"} =>
                     /\ app'[a].cand = app[a].cand
                     /\ \/ app'[a].status = app[a].status
                        \/ /\ app[a].status \in Stages
                           /\ \E r \in Recruiters :
                                edit[r].app = a /\ edit[r].to = app'[a].status
<1>1. OnceInv /\ [Next]_vars => Step
  <2> SUFFICES ASSUME OnceInv, [Next]_vars, NEW a \in Apps,
                      app[a].status \notin {"none", "parsing"}
               PROVE  /\ app'[a].cand = app[a].cand
                      /\ \/ app'[a].status = app[a].status
                         \/ /\ app[a].status \in Stages
                            /\ \E r \in Recruiters :
                                 edit[r].app = a /\ edit[r].to = app'[a].status
    OBVIOUS
  <2>1. ~Submits(a) /\ ~Resolves(a)
    BY DEF Submits, Resolves, Fresh
  <2> QED
    BY <2>1, Writers DEF Same, Moves
<1> QED
  BY <1>1, OnceAlways, PTL DEF Spec, ResolvedBelongsToRecruiters

-----------------------------------------------------------------------------
(* The refinement: each step writes one application, or submits several.   *)

LEMMA OneRowStep ==
  ASSUME OnceInv, OnceInv', lost' = lost, NEW x \in Apps, \A b \in Apps \ {x} : app'[b] = app[b],
         Same(x) \/ Submits(x) \/ Moves(x) \/ Resolves(x)
  PROVE  [Lifecycle!Next]_(Lifecycle!vars)
<1> DEFINE st == [a \in Apps |-> app[a].status]
           jb == [a \in Apps |-> app[a].job]
           cd == [a \in Apps |-> app[a].cand]
           sr == {a \in Apps : <<a, "exhausted">> \in lost}
<1>0. sr' = sr
  OBVIOUS
<1>1. app \in [Apps -> AppRow] /\ app' \in [Apps -> AppRow]
  BY DEF OnceInv, TypeInv, TypeOK
<1>2. CASE Same(x)
  <2>1. st' = st /\ jb' = jb /\ cd' = cd
    BY <1>2 DEF Same
  <2> QED
    BY <1>0, <2>1 DEF Lifecycle!vars
<1>3. CASE Submits(x)
  <2>1. PICK j \in Jobs : j = app'[x].job
    BY <1>1 DEF AppRow
  <2>2. /\ st[x] = "none"
        /\ st' = [a \in Apps |-> IF a \in {x} THEN "parsing" ELSE st[a]]
        /\ jb' = [a \in Apps |-> IF a \in {x} THEN j ELSE jb[a]]
        /\ cd' = cd
    BY <1>3, <2>1 DEF Submits
  <2>3. Lifecycle!Submit({x}, j)
    BY <1>0, <2>2 DEF Lifecycle!Submit
  <2>4. {x} \in SUBSET Apps
    OBVIOUS
  <2> QED
    BY <2>3, <2>4 DEF Lifecycle!Next
<1>4. CASE Moves(x)
  <2>1. PICK r \in Recruiters :
          app[x].status \in Stages /\ app'[x].status = edit[r].to
          /\ app'[x].cand = app[x].cand /\ app'[x].job = app[x].job
    BY <1>4 DEF Moves
  <2>2. edit[r].to \in Stages
    BY DEF OnceInv, TypeInv, TypeOK
  <2>3. PICK s \in Stages : s = edit[r].to
    BY <2>2
  <2>4. st' = [st EXCEPT ![x] = s] /\ jb' = jb /\ cd' = cd /\ st[x] \in Stages
    BY <2>1, <2>3
  <2>5. Lifecycle!Move(x, s)
    BY <1>0, <2>4 DEF Lifecycle!Move
  <2> QED
    BY <2>5 DEF Lifecycle!Next
<1>5. CASE Resolves(x)
  <2>1. st[x] = "parsing" /\ jb' = jb
    BY <1>5 DEF Resolves, Fresh
  <2>4. x \notin sr
    BY <1>5 DEF Resolves, OnceInv, ExhaustedAway, Away
  <2>2. CASE app'[x].status = "parse_failed" /\ app'[x].cand = app[x].cand
    <3>1. st' = [st EXCEPT ![x] = "parse_failed"] /\ cd' = cd
      BY <2>2
    <3>2. Lifecycle!Refuse(x)
      BY <1>0, <2>1, <2>4, <3>1 DEF Lifecycle!Refuse
    <3> QED
      BY <3>2 DEF Lifecycle!Next, Lifecycle!Resolve
  <2>3. ASSUME NEW c \in Candidates, app'[x].status = "applied", app'[x].cand = c,
               ~UniquePairBroken(x, c)
        PROVE  [Lifecycle!Next]_(Lifecycle!vars)
    <3>1. st' = [st EXCEPT ![x] = "applied"] /\ cd' = [cd EXCEPT ![x] = c]
      BY <2>3
    <3>2. \A b \in Apps \ {x} : jb[b] = jb[x] => cd[b] # c
      BY <2>3 DEF UniquePairBroken
    <3>3. Lifecycle!Attach(x, c)
      BY <1>0, <2>1, <2>4, <3>1, <3>2 DEF Lifecycle!Attach
    <3> QED
      BY <3>3 DEF Lifecycle!Next, Lifecycle!Resolve
  <2> QED
    BY <1>5, <2>2, <2>3 DEF Resolves
<1> QED
  BY <1>2, <1>3, <1>4, <1>5

LEMMA LifecycleStep ==
  ASSUME FaultFree, OnceInv, [Next]_vars
  PROVE  [Lifecycle!Next]_(Lifecycle!vars)
<1>0. OnceInv'
  BY OnceInvStep
<1>1. ASSUME NEW x \in Apps, \A b \in Apps \ {x} : app'[b] = app[b], lost' = lost
      PROVE  [Lifecycle!Next]_(Lifecycle!vars)
  BY <1>0, <1>1, Writers, OneRowStep
<1>2. ASSUME NEW new \in SUBSET Apps, NEW j \in Jobs, NEW dup \in BOOLEAN,
             CreateApplications(new, j, dup)
      PROVE  Lifecycle!Submit(new, j)
  <2>1. \A a \in new : app[a].status = "none"
    BY <1>2 DEF CreateApplications
  <2>2. \A a \in Apps :
          /\ a \in new => app'[a].status = "parsing" /\ app'[a].cand = app[a].cand
          /\ a \notin new => app'[a] = app[a]
    BY <1>2, Created DEF OnceInv
  <2>3. \A a \in new : app'[a].job = j
    <3>1. PICK file \in [new -> Files] :
            app' = [b \in Apps |->
                      IF b \in new
                      THEN [app[b] EXCEPT !.status = "parsing", !.job = j,
                                          !.file = file[b], !.allowDuplicate = dup]
                      ELSE app[b]]
      BY <1>2 DEF CreateApplications
    <3>2. ASSUME NEW a \in new
          PROVE  app'[a].job = j
      <4>1. app[a] \in AppRow
        BY DEF OnceInv, TypeInv, TypeOK
      <4>2. app'[a] = [app[a] EXCEPT !.status = "parsing", !.job = j,
                                     !.file = file[a], !.allowDuplicate = dup]
        BY <3>1
      <4> QED
        BY <4>1, <4>2, SubmittedRow
    <3> QED
      BY <3>2
  <2> DEFINE st == [a \in Apps |-> app[a].status]
             jb == [a \in Apps |-> app[a].job]
             cd == [a \in Apps |-> app[a].cand]
  <2>4. st' = [a \in Apps |-> IF a \in new THEN "parsing" ELSE st[a]]
    <3>1. \A a \in Apps :
            app'[a].status = IF a \in new THEN "parsing" ELSE app[a].status
      BY <2>2
    <3> QED
      BY <3>1
  <2>5. jb' = [a \in Apps |-> IF a \in new THEN j ELSE jb[a]]
    BY <2>2, <2>3
  <2>6. cd' = cd
    <3>1. \A a \in Apps : app'[a].cand = app[a].cand
      BY <2>2
    <3> QED
      BY <3>1
  <2>7. \A a \in new : st[a] = "none"
    BY <2>1
  <2>8. lost' = lost
    BY <1>2 DEF CreateApplications
  <2> QED
    BY <2>4, <2>5, <2>6, <2>7, <2>8 DEF Lifecycle!Submit
<1>3. CASE app' = app /\ lost' = lost
  BY <1>3 DEF Lifecycle!vars
<1>10. ASSUME NEW w \in Workers, RetriesExhausted(w)
       PROVE  \E a \in Apps : Lifecycle!Strand(a)
  <2>0. PICK a : a = App(w)
    OBVIOUS
  <2> DEFINE sr == {b \in Apps : <<b, "exhausted">> \in lost}
  <2>1. pc[w] \in Resolving /\ app' = app /\ lost' = lost \cup {<<a, "exhausted">>}
    BY <1>10, <2>0 DEF RetriesExhausted, Resolving, tables
  <2>2. a \in Apps /\ Busy(w) /\ Fresh(a)
    BY <2>0, <2>1, FreshWritten
  <2>3. a \notin sr
    BY <2>0, <2>2 DEF OnceInv, ExhaustedAway, Away
  <2>4. sr' = sr \cup {a}
    BY <2>1, <2>2
  <2> QED
    BY <2>1, <2>2, <2>3, <2>4 DEF Lifecycle!Strand, Fresh
<1>11. lost' = lost \/ \E w \in Workers : RetriesExhausted(w)
  BY LostStep
<1>4. ASSUME NEW r \in Recruiters, CommitEdit(r)
      PROVE  \A b \in Apps \ {edit[r].app} : app'[b] = app[b]
  BY <1>4 DEF CommitEdit, OnceInv, TypeInv, TypeOK
<1>5. ASSUME NEW a \in Apps, DeleteApplication(a)
      PROVE  \A b \in Apps \ {a} : app'[b] = app[b]
  BY <1>5 DEF DeleteApplication, OnceInv, TypeInv, TypeOK
<1>6. ASSUME NEW w \in Workers, MarkFailed(w)
      PROVE  \A b \in Apps \ {App(w)} : app'[b] = app[b]
  BY <1>6 DEF MarkFailed, OnceInv, TypeInv, TypeOK
<1>7. ASSUME NEW w \in Workers, NEW c \in Candidates,
             SaveRefused(w, c) \/ SaveRolledBack(w, c) \/ SaveApplied(w, c)
      PROVE  \A b \in Apps \ {App(w)} : app'[b] = app[b]
  BY <1>7 DEF SaveRefused, SaveRolledBack, SaveApplied, OnceInv, TypeInv, TypeOK
<1>8. ASSUME NEW r \in Recruiters, CommitEdit(r)
      PROVE  edit[r].app \in Apps
  BY <1>8 DEF CommitEdit, OnceInv, TypeInv, SlotsOK
<1>9. ASSUME NEW w \in Workers,
             \/ MarkFailed(w)
             \/ \E c \in Candidates :
                  SaveRefused(w, c) \/ SaveRolledBack(w, c) \/ SaveApplied(w, c)
      PROVE  App(w) \in Apps
  BY <1>9, BusyWorker DEF MarkFailed, SaveRefused, SaveRolledBack, SaveApplied, Goto, OnceInv
<1> QED
  <2>1. CASE \E w \in Workers : RetriesExhausted(w)
    BY <1>10, <2>1 DEF Lifecycle!Next, Lifecycle!Resolve
  <2>2. CASE lost' = lost
    BY <1>1, <1>2, <1>3, <1>4, <1>5, <1>6, <1>7, <1>8, <1>9, <2>2, AppWriters
       DEF Lifecycle!Next
  <2> QED
    BY <1>11, <2>1, <2>2

(* Without faults every behaviour of the pipeline is one of the abstract   *)
(* specification: an application is resolved at most once, exclusively, or *)
(* else its task runs out of retries for good; and only recruiters move it *)
(* on.  (That one or the other happens is checked by TLC, not proved.)     *)
THEOREM RefinesLifecycle ==
  ASSUME FaultFree
  PROVE  Spec => Lifecycle!Spec
<1>1. Init => Lifecycle!Init
  BY ConstantTypes DEF Init, Lifecycle!Init, NewApp, AppRow
<1>2. OnceInv /\ [Next]_vars => [Lifecycle!Next]_(Lifecycle!vars)
  BY LifecycleStep
<1> QED
  BY <1>1, <1>2, OnceAlways, PTL DEF Spec, Lifecycle!Spec
=============================================================================
