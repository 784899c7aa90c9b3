------------------------ MODULE ApplyPipelineProofs ------------------------
(***************************************************************************)
(* Proofs about ApplyPipeline, for every number of applications, files,    *)
(* candidates, workers and recruiters, and under every fault.              *)
(***************************************************************************)
EXTENDS ApplyPipeline, FiniteSetTheorems, TLAPS

(* Strengthening of the types: what the guards establish about the slots   *)
(* that are in use.                                                        *)
SlotsOK ==
  /\ \A w \in Workers : pc[w] # "idle" => held[w] \in Message
  /\ \A w \in Workers : pc[w] = "publish" => chosen[w].cand \in Candidates
  /\ \A r \in Recruiters : edit[r] # NoEdit => edit[r].app \in Apps

TypeInv == TypeOK /\ SlotsOK

LEMMA ConstantTypes ==
  /\ NewApp \in AppRow
  /\ NewCand \in CandRow
  /\ NoMessage \notin Message
  /\ NothingSeen \in [status: Statuses, cand: Candidates \cup {NoCandidate}]
  /\ NothingChosen \in [cand: Candidates \cup {NoCandidate}, version: Nat]
  /\ NoEdit \in [app: Apps \cup {NoApp}, seen: Statuses, to: Stages]
  /\ {"none", "parsing", "parse_failed", "applied"} \subseteq Statuses
  BY ConstantsOK DEF NewApp, AppRow, NewCand, CandRow, NoMessage, Message, NothingSeen,
     NothingChosen, NoEdit, Statuses

LEMMA TypeInit == Init => TypeInv
  BY ConstantTypes, ConstantsOK
     DEF Init, TypeInv, TypeOK, SlotsOK, Steps
(* Updates of one row keep the tables well-typed.                          *)
LEMMA WrittenIn ==
  ASSUME NEW S, NEW x, NEW y \in S, NEW z \in S
  PROVE  Written(x, y, z) \in S
  BY DEF Written

LEMMA StatusTyped ==
  ASSUME app \in [Apps -> AppRow], NEW a \in Apps, NEW s \in Statuses
  PROVE  [app EXCEPT ![a].status = s] \in [Apps -> AppRow]
  BY DEF AppRow

LEMMA AttachTyped ==
  ASSUME app \in [Apps -> AppRow], NEW a \in Apps, NEW s \in Statuses,
         NEW c \in Candidates \cup {NoCandidate}
  PROVE  [app EXCEPT ![a].status = s, ![a].cand = c] \in [Apps -> AppRow]
<1> DEFINE row == [app[a] EXCEPT !.status = s, !.cand = c]
<1>1. row \in AppRow
  BY DEF AppRow
<1>2. [app EXCEPT ![a].status = s, ![a].cand = c] = [app EXCEPT ![a] = row]
  BY DEF AppRow
<1> QED
  BY <1>1, <1>2

LEMMA SubmitTyped ==
  ASSUME NEW row \in AppRow, NEW j \in Jobs, NEW f \in Files, NEW dup \in BOOLEAN
  PROVE  [row EXCEPT !.status = "parsing", !.job = j, !.file = f, !.allowDuplicate = dup]
           \in AppRow
  BY ConstantTypes DEF AppRow

LEMMA WithdrawnTyped ==
  ASSUME app \in [Apps -> AppRow], NEW a \in Apps
  PROVE  [app EXCEPT ![a].deleted = TRUE] \in [Apps -> AppRow]
<1>1. [app[a] EXCEPT !.deleted = TRUE] \in AppRow
  BY DEF AppRow
<1> QED
  BY <1>1

LEMMA DeletedTyped ==
  ASSUME NEW c \in Candidates, cand \in [Candidates -> CandRow]
  PROVE  [cand EXCEPT ![c].deleted = TRUE] \in [Candidates -> CandRow]
<1>1. [cand[c] EXCEPT !.deleted = TRUE] \in CandRow
  BY DEF CandRow
<1> QED
  BY <1>1

LEMMA UpdatedTyped ==
  ASSUME NEW c \in Candidates, cand \in [Candidates -> CandRow],
         NEW e \in Emails \cup {NoEmail}, NEW p \in People
  PROVE  [cand EXCEPT ![c].email = e, ![c].person = p] \in [Candidates -> CandRow]
<1> DEFINE row == [cand[c] EXCEPT !.email = e, !.person = p]
<1>1. row \in CandRow
  BY DEF CandRow
<1>2. [cand EXCEPT ![c].email = e, ![c].person = p] = [cand EXCEPT ![c] = row]
  BY DEF CandRow
<1> QED
  BY <1>1, <1>2

LEMMA VersionTyped ==
  ASSUME NEW row \in CandRow, NEW f \in Files, NEW v \in Nat
  PROVE  [row EXCEPT !.file = f, !.version = v] \in CandRow
  BY DEF CandRow

LEMMA EmbeddedTyped ==
  ASSUME NEW row \in CandRow
  PROVE  [row EXCEPT !.embedded = TRUE] \in CandRow
  BY DEF CandRow

LEMMA RetryTyped ==
  ASSUME NEW m \in Message, m.retries < MaxRetries
  PROVE  [m EXCEPT !.retries = @ + 1] \in Message
  BY ConstantsOK DEF Message

(* The application a busy worker is on. *)
LEMMA BusyWorker ==
  ASSUME TypeInv, NEW w \in Workers, pc[w] # "idle"
  PROVE  /\ App(w) \in Apps
         /\ Resume(App(w)) \in Files
         /\ held[w] \in Message
  BY DEF TypeInv, TypeOK, SlotsOK, App, Resume, Message, AppRow

LEMMA UpsertTyped ==
  ASSUME TypeInv, NEW w \in Workers, pc[w] # "idle", NEW c \in Candidates, Upsert(w, c)
  PROVE  cand' \in [Candidates -> CandRow] /\ resumes' \subseteq ResumeRow
<1> DEFINE f == Resume(App(w))
           v == chosen[w].version + 1
           fresh == [exists |-> TRUE, email |-> EmailOf[f], person |-> PersonOf[f],
                     file |-> f, version |-> 1, embedded |-> FALSE, deleted |-> FALSE]
<1>1. f \in Files /\ v \in Nat
  BY BusyWorker DEF TypeInv, TypeOK
<1>2. fresh \in CandRow
  BY <1>1, ConstantsOK DEF CandRow
<1>3. [cand[c] EXCEPT !.file = f, !.version = v] \in CandRow
  BY <1>1, VersionTyped DEF TypeInv, TypeOK
<1>4. [cand |-> c, version |-> v, file |-> f] \in ResumeRow
  BY <1>1 DEF ResumeRow
<1> QED
  BY <1>2, <1>3, <1>4 DEF Upsert, TypeInv, TypeOK

(* One step per action; TypeInv' follows from the guard and the assignments. *)
LEMMA TypeStep == TypeInv /\ [Next]_vars => TypeInv'
<1> SUFFICES ASSUME TypeInv, [Next]_vars
             PROVE  TypeInv'
  OBVIOUS
<1> USE ConstantTypes, ConstantsOK DEF TypeInv, TypeOK, SlotsOK
<1>1. ASSUME NEW new \in SUBSET Apps, NEW j \in Jobs, NEW dup \in BOOLEAN,
             CreateApplications(new, j, dup)
      PROVE  TypeInv'
  <2>1. PICK file \in [new -> Files] :
          app' = [a \in Apps |->
                    IF a \in new
                    THEN [app[a] EXCEPT !.status = "parsing", !.job = j,
                                        !.file = file[a], !.allowDuplicate = dup]
                    ELSE app[a]]
    BY <1>1 DEF CreateApplications
  <2>2. ASSUME NEW a \in Apps
        PROVE  app'[a] \in AppRow
    <3>1. CASE a \in new
      BY <2>1, <3>1, SubmitTyped
    <3>2. CASE a \notin new
      BY <2>1, <3>2
    <3> QED
      BY <3>1, <3>2
  <2>3. app' \in [Apps -> AppRow]
    BY <2>1, <2>2
  <2> QED
    BY <1>1, <2>3 DEF CreateApplications, workerVars
<1>2. ASSUME NEW rows \in outbox, EnqueueFails(rows)
      PROVE  TypeInv'
  BY <1>2 DEF EnqueueFails, tables, workerVars, Causes
<1>3. ASSUME NEW rows \in outbox, NEW a \in rows, Enqueue(rows, a)
      PROVE  TypeInv'
  BY <1>3 DEF Enqueue, tables, workerVars, Message
<1>4. ASSUME NEW r \in Recruiters, NEW a \in Apps, NEW to \in Stages, LoadForEdit(r, a, to)
      PROVE  TypeInv'
  BY <1>4 DEF LoadForEdit, tables, workerVars, AppRow
<1>5. ASSUME NEW r \in Recruiters, CommitEdit(r)
      PROVE  TypeInv'
  <2>1. edit[r].app \in Apps /\ edit[r].to \in Statuses
    BY <1>5 DEF CommitEdit, Statuses
  <2>2. Written(edit[r].seen, edit[r].to, app[edit[r].app].status) \in Statuses
    BY <2>1, WrittenIn DEF AppRow
  <2>3. app' \in [Apps -> AppRow]
    BY <1>5, <2>1, <2>2, StatusTyped DEF CommitEdit
  <2> QED
    BY <1>5, <2>3 DEF CommitEdit, workerVars
<1>6. ASSUME NEW a \in Apps, DeleteApplication(a)
      PROVE  TypeInv'
  <2>1. app' \in [Apps -> AppRow]
    BY <1>6, WithdrawnTyped DEF DeleteApplication
  <2> QED
    BY <1>6, <2>1 DEF DeleteApplication, apiVars, workerVars
<1>7. ASSUME NEW a \in Apps, FixStuckParsing(a)
      PROVE  TypeInv'
  BY <1>7 DEF FixStuckParsing, tables, workerVars, Message
<1>8. ASSUME NEW c \in Candidates, DeleteCandidate(c)
      PROVE  TypeInv'
  <2>1. cand' \in [Candidates -> CandRow]
    BY <1>8, DeletedTyped DEF DeleteCandidate
  <2> QED
    BY <1>8, <2>1 DEF DeleteCandidate, apiVars, workerVars
<1>9. ASSUME NEW j \in Jobs, DeleteJob(j)
      PROVE  TypeInv'
  BY <1>9 DEF DeleteJob, tables, workerVars
<1>10. ASSUME NEW w \in Workers, NEW m \in queue, Deliver(w, m)
       PROVE  TypeInv'
  BY <1>10 DEF Deliver, Goto, Steps, tables, apiVars, AppRow, Message
<1>11. ASSUME NEW w \in Workers, FetchResume(w)
       PROVE  TypeInv'
  BY <1>11 DEF FetchResume, Goto, Steps, tables, apiVars
<1>12. ASSUME NEW w \in Workers, ExtractSucceeds(w)
       PROVE  TypeInv'
  BY <1>12 DEF ExtractSucceeds, Goto, Steps, tables, apiVars
<1>13. ASSUME NEW w \in Workers, ExtractTimesOut(w)
       PROVE  TypeInv'
  BY <1>13 DEF ExtractTimesOut, Goto, Steps, tables, apiVars
<1>14. ASSUME NEW w \in Workers, ExtractRejects(w)
       PROVE  TypeInv'
  BY <1>14 DEF ExtractRejects, Goto, Steps, tables, apiVars
<1>15. ASSUME NEW w \in Workers, CheckDuplicate(w)
       PROVE  TypeInv'
  <2>1. PICK to \in {"failing", "select"} : Goto(w, "dedup", to)
    BY <1>15 DEF CheckDuplicate
  <2>2. UNCHANGED <<tables, apiVars, store, queue, held, seen, chosen, scoreJobs, lost,
                    crashes>>
    BY <1>15 DEF CheckDuplicate
  <2> QED
    BY <2>1, <2>2 DEF Goto, Steps, tables, apiVars
<1>16. ASSUME NEW w \in Workers, SelectCandidate(w)
       PROVE  TypeInv'
  BY <1>16 DEF SelectCandidate, Goto, Steps, tables, apiVars, ActiveWithEmail, CandRow
<1>17. ASSUME NEW w \in Workers, SaveConflicts(w)
       PROVE  TypeInv'
  BY <1>17 DEF SaveConflicts, Goto, Steps, tables, apiVars
<1>18. ASSUME NEW w \in Workers, NEW c \in Candidates, SaveRefused(w, c)
       PROVE  TypeInv'
  <2>1. cand' \in [Candidates -> CandRow] /\ resumes' \subseteq ResumeRow
    BY <1>18, UpsertTyped DEF SaveRefused, Goto
  <2>2. Written(seen[w].status, "parse_failed", app[App(w)].status) \in Statuses
    BY <1>18, BusyWorker, WrittenIn DEF SaveRefused, Goto, AppRow
  <2>3. app' \in [Apps -> AppRow]
    BY <1>18, <2>2, BusyWorker, StatusTyped DEF SaveRefused, Goto
  <2> QED
    BY <1>18, <2>1, <2>3 DEF SaveRefused, Goto, Steps, apiVars
<1>19. ASSUME NEW w \in Workers, NEW c \in Candidates, SaveRolledBack(w, c)
       PROVE  TypeInv'
  <2>1. app' \in [Apps -> AppRow]
    BY <1>19, BusyWorker, StatusTyped DEF SaveRolledBack, Goto
  <2> QED
    BY <1>19, <2>1 DEF SaveRolledBack, Goto, Steps, apiVars
<1>20. ASSUME NEW w \in Workers, NEW c \in Candidates, SaveApplied(w, c)
       PROVE  TypeInv'
  <2>1. cand' \in [Candidates -> CandRow] /\ resumes' \subseteq ResumeRow
    BY <1>20, UpsertTyped DEF SaveApplied, Goto
  <2> DEFINE s == Written(seen[w].status, "applied", app[App(w)].status)
             d == Written(seen[w].cand, c, app[App(w)].cand)
  <2>2. s \in Statuses /\ d \in Candidates \cup {NoCandidate}
    BY <1>20, BusyWorker, WrittenIn DEF SaveApplied, Goto, AppRow
  <2>3. app' = [app EXCEPT ![App(w)].status = s, ![App(w)].cand = d]
    BY <1>20 DEF SaveApplied
  <2>4. app' \in [Apps -> AppRow]
    <3>1. App(w) \in Apps
      BY <1>20, BusyWorker DEF SaveApplied, Goto
    <3> HIDE DEF s, d
    <3> QED
      BY <2>2, <2>3, <3>1, AttachTyped
  <2>5. /\ pc[w] = "save" /\ pc' = [pc EXCEPT ![w] = "publish"]
        /\ chosen' = [chosen EXCEPT ![w].cand = c]
        /\ UNCHANGED <<apiVars, store, queue, held, seen, scoreJobs, lost, crashes>>
    BY <1>20 DEF SaveApplied, Goto
  <2>6. chosen' \in [Workers -> [cand: Candidates \cup {NoCandidate}, version: Nat]]
    <3>1. [chosen[w] EXCEPT !.cand = c] \in [cand: Candidates \cup {NoCandidate}, version: Nat]
      OBVIOUS
    <3>2. chosen \in [Workers -> [cand: Candidates \cup {NoCandidate}, version: Nat]]
      OBVIOUS
    <3> HIDE DEF TypeInv, TypeOK, SlotsOK
    <3> QED
      BY <2>5, <3>1, <3>2
  <2>7. pc' \in [Workers -> Steps]
    BY <2>5 DEF Steps
  <2>8. pc \in [Workers -> Steps]
        /\ chosen \in [Workers -> [cand: Candidates \cup {NoCandidate}, version: Nat]]
    OBVIOUS
  <2> HIDE DEF SlotsOK
  <2>9. TypeOK'
    BY <2>1, <2>4, <2>5, <2>6, <2>7 DEF apiVars
  <2> HIDE DEF TypeInv, TypeOK
  <2>10. SlotsOK'
    BY <2>5, <2>8 DEF SlotsOK, TypeInv, apiVars
  <2> QED
    BY <2>9, <2>10 DEF TypeInv
<1>21. ASSUME NEW w \in Workers, MarkFailed(w)
       PROVE  TypeInv'
  <2>1. Written(seen[w].status, "parse_failed", app[App(w)].status) \in Statuses
    BY <1>21, BusyWorker, WrittenIn DEF MarkFailed, Goto, AppRow
  <2>2. app' \in [Apps -> AppRow]
    BY <1>21, <2>1, BusyWorker, StatusTyped DEF MarkFailed, Goto
  <2> QED
    BY <1>21, <2>2 DEF MarkFailed, Goto, Steps, apiVars
<1>22. ASSUME NEW w \in Workers, PublishScore(w)
       PROVE  TypeInv'
  BY <1>22 DEF PublishScore, Goto, Steps, tables, apiVars, App, Message, AppRow
<1>23. ASSUME NEW w \in Workers, EmbedAndFinish(w)
       PROVE  TypeInv'
  <2>1. cand' \in [Candidates -> CandRow]
    <3>1. CASE cand' = cand
      BY <3>1
    <3>2. CASE /\ app[App(w)].cand # NoCandidate
               /\ cand' = [cand EXCEPT ![app[App(w)].cand].embedded = TRUE]
      <4>1. app[App(w)].cand \in Candidates
        BY <1>23, <3>2, BusyWorker DEF EmbedAndFinish, AppRow
      <4>2. [cand[app[App(w)].cand] EXCEPT !.embedded = TRUE] \in CandRow
        BY <4>1, EmbeddedTyped
      <4> QED
        BY <3>2, <4>1, <4>2
    <3> QED
      BY <1>23, <3>1, <3>2 DEF EmbedAndFinish
  <2> QED
    BY <1>23, <2>1 DEF EmbedAndFinish, Release, Steps, apiVars
<1>24. ASSUME NEW w \in Workers, DatabaseError(w)
       PROVE  TypeInv'
  BY <1>24 DEF DatabaseError, Steps, tables, apiVars
<1>25. ASSUME NEW w \in Workers, PublishFails(w)
       PROVE  TypeInv'
  BY <1>25 DEF PublishFails, Goto, Steps, tables, apiVars
<1>26. ASSUME NEW w \in Workers, RetryTask(w)
       PROVE  TypeInv'
  <2>1. [held[w] EXCEPT !.retries = @ + 1] \in Message
    BY <1>26, BusyWorker, RetryTyped DEF RetryTask
  <2>2. queue' \subseteq Message
    BY <1>26, <2>1 DEF RetryTask
  <2> QED
    BY <1>26, <2>2 DEF RetryTask, Release, Steps, tables, apiVars
<1>27. ASSUME NEW w \in Workers, RetriesExhausted(w)
       PROVE  TypeInv'
  BY <1>27 DEF RetriesExhausted, Release, Steps, tables, apiVars, App, Message, Causes
<1>28. ASSUME NEW w \in Workers, RetryRejected(w)
       PROVE  TypeInv'
  BY <1>28 DEF RetryRejected, Release, Steps, tables, apiVars, App, Message, Causes
<1>29. ASSUME NEW w \in Workers, ChildLost(w)
       PROVE  TypeInv'
  BY <1>29 DEF ChildLost, Release, Steps, tables, apiVars, App, Message, Causes
<1>30. ASSUME NEW w \in Workers, WorkerCrash(w)
       PROVE  TypeInv'
  BY <1>30 DEF WorkerCrash, Release, Steps, tables, apiVars
<1>32. ASSUME NEW c \in Candidates, NEW e \in Emails \cup {NoEmail}, NEW p \in People,
              NEW f \in Files, CreateCandidate(c, e, p, f)
       PROVE  TypeInv'
  <2>1. cand' \in [Candidates -> CandRow]
    BY <1>32 DEF CreateCandidate, CandRow
  <2> QED
    BY <1>32, <2>1 DEF CreateCandidate, apiVars, workerVars
<1>33. ASSUME NEW c \in Candidates, NEW e \in Emails \cup {NoEmail}, NEW p \in People,
              UpdateCandidate(c, e, p)
       PROVE  TypeInv'
  <2>1. cand' \in [Candidates -> CandRow]
    BY <1>33, UpdatedTyped DEF UpdateCandidate
  <2> QED
    BY <1>33, <2>1 DEF UpdateCandidate, apiVars, workerVars
<1>31. CASE UNCHANGED vars
  BY <1>31 DEF vars, workerVars
<1> HIDE ConstantTypes, ConstantsOK DEF TypeInv, TypeOK, SlotsOK
<1> QED
  BY <1>1, <1>2, <1>3, <1>4, <1>5, <1>6, <1>7, <1>8, <1>9, <1>10, <1>11, <1>12, <1>13,
     <1>14, <1>15, <1>16, <1>17, <1>18, <1>19, <1>20, <1>21, <1>22, <1>23, <1>24, <1>25,
     <1>26, <1>27, <1>28, <1>29, <1>30, <1>31, <1>32, <1>33 DEF Next, Handlers, TaskStep, Fault

(* Every reachable state is well-typed, whatever the faults. *)
THEOREM TypeCorrect == Spec => []TypeOK
<1>1. Spec => []TypeInv
  BY TypeInit, TypeStep, PTL DEF Spec
<1> QED
  BY <1>1, PTL DEF TypeInv
-----------------------------------------------------------------------------
(* No application is stranded in "parsing" without a recorded loss.        *)

(* The only steps that write job_applications. *)
LEMMA AppWriters ==
  ASSUME [Next]_vars
  PROVE  \/ app' = app
         \/ \E new \in SUBSET Apps, j \in Jobs, dup \in BOOLEAN : CreateApplications(new, j, dup)
         \/ \E r \in Recruiters : CommitEdit(r)
         \/ \E a \in Apps : DeleteApplication(a)
         \/ \E w \in Workers : MarkFailed(w)
         \/ \E w \in Workers, c \in Candidates :
              SaveRefused(w, c) \/ SaveRolledBack(w, c) \/ SaveApplied(w, c)
<1>1. ASSUME NEW w \in Workers, TaskStep(w)
      PROVE  \/ app' = app
             \/ MarkFailed(w)
             \/ \E c \in Candidates :
                  SaveRefused(w, c) \/ SaveRolledBack(w, c) \/ SaveApplied(w, c)
  BY <1>1 DEF TaskStep, FetchResume, ExtractSucceeds, ExtractTimesOut, ExtractRejects,
     CheckDuplicate, SelectCandidate, SaveConflicts, PublishScore, EmbedAndFinish,
     RetryTask, RetriesExhausted, tables
<1>2. ASSUME NEW w \in Workers, Fault(w)
      PROVE  app' = app
  BY <1>2 DEF Fault, DatabaseError, PublishFails, RetryRejected, ChildLost, WorkerCrash,
     tables
<1>3. ASSUME NEW w \in Workers, NEW m \in queue, Deliver(w, m)
      PROVE  app' = app
  BY <1>3 DEF Deliver, tables
<1>4. ASSUME Handlers
      PROVE  \/ app' = app
             \/ \E new \in SUBSET Apps, j \in Jobs, dup \in BOOLEAN :
                  CreateApplications(new, j, dup)
             \/ \E r \in Recruiters : CommitEdit(r)
             \/ \E a \in Apps : DeleteApplication(a)
  BY <1>4 DEF Handlers, EnqueueFails, Enqueue, LoadForEdit, FixStuckParsing,
     CreateCandidate, UpdateCandidate, DeleteCandidate, DeleteJob, tables
<1> QED
  BY <1>1, <1>2, <1>3, <1>4 DEF Next, vars

LEMMA SubmittedRow ==
  ASSUME NEW row \in AppRow, NEW j, NEW f, NEW dup
  PROVE  LET new == [row EXCEPT !.status = "parsing", !.job = j, !.file = f,
                                !.allowDuplicate = dup]
         IN  new.status = "parsing" /\ new.cand = row.cand /\ new.job = j
  BY DEF AppRow

LEMMA Created ==
  ASSUME TypeInv, NEW new \in SUBSET Apps, NEW j \in Jobs, NEW dup \in BOOLEAN,
         CreateApplications(new, j, dup), NEW a \in Apps
  PROVE  /\ a \in new => /\ app[a].status = "none" /\ app'[a].status = "parsing"
                         /\ app'[a].cand = app[a].cand
         /\ a \notin new => app'[a] = app[a]
<1>1. PICK file \in [new -> Files] :
        app' = [b \in Apps |->
                  IF b \in new
                  THEN [app[b] EXCEPT !.status = "parsing", !.job = j,
                                      !.file = file[b], !.allowDuplicate = dup]
                  ELSE app[b]]
  BY DEF CreateApplications
<1>2. ASSUME a \in new
      PROVE  app'[a].status = "parsing" /\ app'[a].cand = app[a].cand
  <2>1. app[a] \in AppRow
    BY DEF TypeInv, TypeOK
  <2>2. app'[a] = [app[a] EXCEPT !.status = "parsing", !.job = j, !.file = file[a],
                                 !.allowDuplicate = dup]
    BY <1>1, <1>2
  <2> QED
    BY <2>1, <2>2, SubmittedRow
<1>3. a \in new => app[a].status = "none"
  BY DEF CreateApplications
<1>4. a \notin new => app'[a] = app[a]
  BY <1>1
<1> QED
  BY <1>2, <1>3, <1>4

(* What a step may do to a status: keep it, submit the application, or     *)
(* write one that a recruiter may set or "parse_failed".                   *)
LEMMA StatusStep ==
  ASSUME TypeInv, [Next]_vars, NEW a \in Apps
  PROVE  \/ app'[a].status = app[a].status
         \/ /\ app[a].status = "none" /\ app'[a].status = "parsing"
            /\ \E rows \in outbox' : a \in rows
         \/ app'[a].status \in Stages \cup {"parse_failed"}
<1> DEFINE Goal == \/ app'[a].status = app[a].status
                   \/ /\ app[a].status = "none" /\ app'[a].status = "parsing"
                      /\ \E rows \in outbox' : a \in rows
                   \/ app'[a].status \in Stages \cup {"parse_failed"}
<1> USE DEF TypeInv, TypeOK
<1>1. ASSUME NEW new \in SUBSET Apps, NEW j \in Jobs, NEW dup \in BOOLEAN,
             CreateApplications(new, j, dup)
      PROVE  Goal
  <2>1. new \in outbox'
    BY <1>1 DEF CreateApplications
  <2>2. a \in new => app[a].status = "none" /\ app'[a].status = "parsing"
    BY <1>1, Created
  <2>3. a \notin new => app'[a] = app[a]
    BY <1>1, Created
  <2> QED
    BY <2>1, <2>2, <2>3
<1>2. ASSUME NEW r \in Recruiters, CommitEdit(r)
      PROVE  Goal
  <2>1. edit[r].to \in Stages
    OBVIOUS
  <2> QED
    BY <1>2, <2>1 DEF CommitEdit, Written, AppRow
<1>3. ASSUME NEW b \in Apps, DeleteApplication(b)
      PROVE  Goal
  BY <1>3 DEF DeleteApplication, AppRow
<1>4. ASSUME NEW w \in Workers, MarkFailed(w)
      PROVE  Goal
  BY <1>4 DEF MarkFailed, Written, AppRow
<1>5. ASSUME NEW w \in Workers, NEW c \in Candidates, SaveRefused(w, c)
      PROVE  Goal
  BY <1>5 DEF SaveRefused, Written, AppRow
<1>6. ASSUME NEW w \in Workers, NEW c \in Candidates, SaveRolledBack(w, c)
      PROVE  Goal
  BY <1>6 DEF SaveRolledBack, AppRow
<1>7. ASSUME NEW w \in Workers, NEW c \in Candidates, SaveApplied(w, c)
      PROVE  Goal
  BY <1>7, ConstantsOK DEF SaveApplied, Written, AppRow
<1> QED
  BY <1>1, <1>2, <1>3, <1>4, <1>5, <1>6, <1>7, AppWriters
LEMMA StatusMovesOn ==
  ASSUME TypeInv, [Next]_vars, NEW a \in Apps
  PROVE  /\ app[a].status # "none" => app'[a].status # "none"
         /\ app[a].status \notin {"none", "parsing"} => app'[a].status # "parsing"
  BY StatusStep, ConstantsOK

(* Where the next outbox, queue and tasks come from. *)
LEMMA OutboxStep ==
  ASSUME TypeInv, [Next]_vars, NEW rows \in outbox', NEW a \in rows
  PROVE  (\E old \in outbox : a \in old) \/ (a \in Apps /\ app'[a].status = "parsing")
<1>1. ASSUME NEW new \in SUBSET Apps, NEW j \in Jobs, NEW dup \in BOOLEAN,
             CreateApplications(new, j, dup)
      PROVE  (\E old \in outbox : a \in old) \/ (a \in Apps /\ app'[a].status = "parsing")
  <2>1. rows \in outbox \/ a \in new
    BY <1>1 DEF CreateApplications
  <2> QED
    BY <1>1, <2>1, Created
<1>2. ASSUME NEW old \in outbox, EnqueueFails(old) \/ \E b \in old : Enqueue(old, b)
      PROVE  \E older \in outbox : a \in older
  BY <1>2 DEF EnqueueFails, Enqueue
<1>3. ASSUME NEW w \in Workers, TaskStep(w)
      PROVE  outbox' = outbox
  BY <1>3 DEF TaskStep, FetchResume, ExtractSucceeds, ExtractTimesOut, ExtractRejects,
     CheckDuplicate, SelectCandidate, SaveConflicts, SaveRefused, SaveRolledBack,
     SaveApplied, MarkFailed, PublishScore, EmbedAndFinish, RetryTask, RetriesExhausted,
     apiVars
<1>4. ASSUME NEW w \in Workers, Fault(w) \/ \E m \in queue : Deliver(w, m)
      PROVE  outbox' = outbox
  BY <1>4 DEF Fault, DatabaseError, PublishFails, RetryRejected, ChildLost, WorkerCrash,
     Deliver, apiVars
<1>5. ASSUME Handlers
      PROVE  \/ outbox' = outbox
             \/ \E new \in SUBSET Apps, j \in Jobs, dup \in BOOLEAN :
                  CreateApplications(new, j, dup)
             \/ \E old \in outbox : EnqueueFails(old) \/ \E b \in old : Enqueue(old, b)
  BY <1>5 DEF Handlers, LoadForEdit, CommitEdit, DeleteApplication, FixStuckParsing,
     CreateCandidate, UpdateCandidate, DeleteCandidate, DeleteJob, apiVars
<1> QED
  BY <1>1, <1>2, <1>3, <1>4, <1>5 DEF Next, vars

LEMMA QueueStep ==
  ASSUME TypeInv, [Next]_vars, NEW m \in queue'
  PROVE  \/ m \in queue
         \/ \E rows \in outbox : m.app \in rows
         \/ \E w \in Workers : pc[w] # "idle" /\ m.app = App(w)
         \/ m.app \in Apps /\ app[m.app].status = "parsing"
<1> DEFINE Goal == \/ m \in queue
                   \/ \E rows \in outbox : m.app \in rows
                   \/ \E w \in Workers : pc[w] # "idle" /\ m.app = App(w)
                   \/ m.app \in Apps /\ app[m.app].status = "parsing"
<1>1. ASSUME NEW rows \in outbox, NEW a \in rows, Enqueue(rows, a)
      PROVE  Goal
  BY <1>1 DEF Enqueue
<1>2. ASSUME NEW a \in Apps, FixStuckParsing(a)
      PROVE  Goal
  <2>1. m \in queue \/ m.app = a
    BY <1>2 DEF FixStuckParsing
  <2>2. app[a].status = "parsing"
    BY <1>2 DEF FixStuckParsing
  <2> QED
    BY <2>1, <2>2
<1>3. ASSUME NEW w \in Workers, RetryTask(w)
      PROVE  Goal
  <2>1. held[w] \in Message
    BY <1>3, BusyWorker DEF RetryTask
  <2>2. [held[w] EXCEPT !.retries = @ + 1].app = held[w].app
    BY <2>1 DEF Message
  <2>3. m \in queue \/ m.app = held[w].app
    BY <1>3, <2>2 DEF RetryTask
  <2> QED
    BY <1>3, <2>3 DEF RetryTask, App
<1>4. ASSUME NEW w \in Workers, WorkerCrash(w)
      PROVE  Goal
  <2>1. m \in queue \/ m = held[w]
    BY <1>4 DEF WorkerCrash
  <2> QED
    BY <1>4, <2>1 DEF WorkerCrash, App
<1>5. ASSUME NEW w \in Workers, TaskStep(w)
      PROVE  queue' = queue \/ RetryTask(w)
  BY <1>5 DEF TaskStep, FetchResume, ExtractSucceeds, ExtractTimesOut, ExtractRejects,
     CheckDuplicate, SelectCandidate, SaveConflicts, SaveRefused, SaveRolledBack,
     SaveApplied, MarkFailed, PublishScore, EmbedAndFinish, RetriesExhausted
<1>6. ASSUME NEW w \in Workers, Fault(w) \/ \E n \in queue : Deliver(w, n)
      PROVE  queue' \subseteq queue \/ WorkerCrash(w)
  BY <1>6 DEF Fault, DatabaseError, PublishFails, RetryRejected, ChildLost, Deliver
<1>7. ASSUME Handlers
      PROVE  \/ queue' = queue
             \/ \E rows \in outbox : \E a \in rows : Enqueue(rows, a)
             \/ \E a \in Apps : FixStuckParsing(a)
  BY <1>7 DEF Handlers, CreateApplications, EnqueueFails, LoadForEdit, CommitEdit,
     DeleteApplication, CreateCandidate, UpdateCandidate, DeleteCandidate, DeleteJob
<1> QED
  BY <1>1, <1>2, <1>3, <1>4, <1>5, <1>6, <1>7 DEF Next, vars

LEMMA WorkerStep ==
  ASSUME TypeInv, [Next]_vars, NEW w \in Workers, pc'[w] # "idle"
  PROVE  \/ pc[w] # "idle" /\ held'[w] = held[w] /\ seen'[w] = seen[w]
         \/ \E m \in queue : Deliver(w, m)
<1> DEFINE Goal == \/ pc[w] # "idle" /\ held'[w] = held[w] /\ seen'[w] = seen[w]
                   \/ \E m \in queue : Deliver(w, m)
<1> USE DEF TypeInv, TypeOK
<1>1. ASSUME NEW v \in Workers, TaskStep(v)
      PROVE  Goal
  BY <1>1 DEF TaskStep, FetchResume, ExtractSucceeds, ExtractTimesOut, ExtractRejects,
     CheckDuplicate, SelectCandidate, SaveConflicts, SaveRefused, SaveRolledBack,
     SaveApplied, MarkFailed, PublishScore, EmbedAndFinish, RetryTask, RetriesExhausted,
     Goto, Release
<1>2. ASSUME NEW v \in Workers, Fault(v)
      PROVE  Goal
  BY <1>2 DEF Fault, DatabaseError, PublishFails, RetryRejected, ChildLost, WorkerCrash,
     Goto, Release
<1>3. ASSUME NEW v \in Workers, NEW m \in queue, Deliver(v, m)
      PROVE  Goal
  BY <1>3 DEF Deliver, Goto
<1>4. ASSUME Handlers
      PROVE  Goal
  <2>1. UNCHANGED workerVars
    BY ONLY <1>4 DEF Handlers, CreateApplications, EnqueueFails, Enqueue, LoadForEdit,
       CommitEdit, DeleteApplication, FixStuckParsing, CreateCandidate, UpdateCandidate,
       DeleteCandidate, DeleteJob
  <2>2. pc' = pc /\ held' = held /\ seen' = seen
    BY ONLY <2>1 DEF workerVars
  <2> QED
    BY <2>2
<1> QED
  BY <1>1, <1>2, <1>3, <1>4 DEF Next, vars, workerVars
(* Whatever is due for an application, the row is there; and a worker that *)
(* loaded a resolved application works on one that is not "parsing".       *)
CarriedOK ==
  /\ \A rows \in outbox : \A a \in rows : app[a].status # "none"
  /\ \A m \in queue : app[m.app].status # "none"
  /\ \A w \in Workers : pc[w] # "idle" =>
       /\ app[App(w)].status # "none" /\ seen[w].status # "none"
       /\ seen[w].status # "parsing" => app[App(w)].status # "parsing"

LEMMA CarriedStep == TypeInv /\ CarriedOK /\ [Next]_vars => CarriedOK'
<1> SUFFICES ASSUME TypeInv, CarriedOK, [Next]_vars
             PROVE  CarriedOK'
  OBVIOUS
<1>1. ASSUME NEW rows \in outbox', NEW a \in rows
      PROVE  app'[a].status # "none"
  BY <1>1, OutboxStep, StatusMovesOn DEF CarriedOK, TypeInv, TypeOK
<1>2. ASSUME NEW m \in queue'
      PROVE  app'[m.app].status # "none"
  <2>1. \A w \in Workers : pc[w] # "idle" => App(w) \in Apps
    BY BusyWorker
  <2>2. \A n \in queue : n.app \in Apps
    BY DEF TypeInv, TypeOK, Message
  <2>3. m.app \in Apps /\ app[m.app].status # "none"
    BY <1>2, <2>1, <2>2, QueueStep DEF CarriedOK, TypeInv, TypeOK
  <2> QED
    BY <2>3, StatusMovesOn
<1>3. ASSUME NEW w \in Workers, pc'[w] # "idle"
      PROVE  /\ app'[App(w)'].status # "none" /\ seen'[w].status # "none"
             /\ seen'[w].status # "parsing" => app'[App(w)'].status # "parsing"
  <2>1. CASE pc[w] # "idle" /\ held'[w] = held[w] /\ seen'[w] = seen[w]
    <3>1. App(w)' = App(w) /\ App(w) \in Apps
      BY <2>1, BusyWorker DEF App
    <3> QED
      BY <2>1, <3>1, StatusMovesOn DEF CarriedOK
  <2>2. ASSUME NEW m \in queue, Deliver(w, m)
        PROVE  /\ app'[App(w)'].status # "none" /\ seen'[w].status # "none"
               /\ seen'[w].status # "parsing" => app'[App(w)'].status # "parsing"
    <3>1. App(w)' = m.app /\ seen'[w].status = app[m.app].status /\ app' = app
      BY <2>2 DEF Deliver, App, tables, TypeInv, TypeOK
    <3> QED
      BY <3>1 DEF CarriedOK
  <2> QED
    BY <1>3, <2>1, <2>2, WorkerStep
<1> QED
  BY <1>1, <1>2, <1>3 DEF CarriedOK

(* Every kind of tracker hands the application on, resolves it or reports  *)
(* its loss.                                                               *)
LEMMA OutboxTracks ==
  ASSUME TypeInv, [Next]_vars, NEW rows \in outbox, NEW a \in rows
  PROVE  \/ \E new \in outbox' : a \in new
         \/ \E m \in queue' : m.app = a
         \/ \E why \in Causes : <<a, why>> \in lost'
<1> DEFINE Goal == \/ \E new \in outbox' : a \in new
                   \/ \E m \in queue' : m.app = a
                   \/ \E why \in Causes : <<a, why>> \in lost'
<1>1. ASSUME NEW old \in outbox, NEW b \in old, Enqueue(old, b)
      PROVE  Goal
  <2>1. CASE rows # old
    BY <1>1, <2>1 DEF Enqueue
  <2>2. CASE rows = old /\ a # b
    <3>1. a \in old \ {b}
      BY <2>2
    <3> QED
      BY <1>1, <3>1 DEF Enqueue
  <2>3. CASE a = b
    <3>1. [app |-> b, copy |-> 0, retries |-> 0] \in queue'
      BY <1>1 DEF Enqueue
    <3> QED
      BY <2>3, <3>1
  <2> QED
    BY <2>1, <2>2, <2>3
<1>2. ASSUME NEW old \in outbox, EnqueueFails(old)
      PROVE  Goal
  <2>1. CASE rows # old
    BY <1>2, <2>1 DEF EnqueueFails
  <2>2. CASE rows = old
    <3>1. <<a, "unpublished">> \in lost'
      BY <1>2, <2>2 DEF EnqueueFails
    <3> QED
      BY <3>1 DEF Causes
  <2> QED
    BY <2>1, <2>2
<1>3. ASSUME NEW w \in Workers, TaskStep(w)
      PROVE  outbox' = outbox
  BY <1>3 DEF TaskStep, FetchResume, ExtractSucceeds, ExtractTimesOut, ExtractRejects,
     CheckDuplicate, SelectCandidate, SaveConflicts, SaveRefused, SaveRolledBack,
     SaveApplied, MarkFailed, PublishScore, EmbedAndFinish, RetryTask, RetriesExhausted,
     apiVars
<1>4. ASSUME NEW w \in Workers, Fault(w) \/ \E m \in queue : Deliver(w, m)
      PROVE  outbox' = outbox
  BY <1>4 DEF Fault, DatabaseError, PublishFails, RetryRejected, ChildLost, WorkerCrash,
     Deliver, apiVars
<1>5. ASSUME Handlers
      PROVE  \/ outbox \subseteq outbox'
             \/ \E old \in outbox : EnqueueFails(old) \/ \E b \in old : Enqueue(old, b)
  BY <1>5 DEF Handlers, CreateApplications, LoadForEdit, CommitEdit, DeleteApplication,
     FixStuckParsing, CreateCandidate, UpdateCandidate, DeleteCandidate, DeleteJob,
     apiVars
<1> QED
  BY <1>1, <1>2, <1>3, <1>4, <1>5 DEF Next, vars

LEMMA QueueTracks ==
  ASSUME TypeInv, [Next]_vars, NEW m \in queue
  PROVE  \/ m \in queue'
         \/ \E w \in Workers : pc'[w] = "fetch" /\ App(w)' = m.app
<1>1. ASSUME NEW w \in Workers, NEW n \in queue, Deliver(w, n)
      PROVE  m \in queue' \/ (pc'[w] = "fetch" /\ App(w)' = m.app)
  <2>1. m \in queue' \/ m = n
    BY <1>1 DEF Deliver
  <2>2. pc'[w] = "fetch" /\ held'[w] = n
    BY <1>1 DEF Deliver, Goto, TypeInv, TypeOK
  <2>3. App(w)' = n.app
    BY <2>2 DEF App
  <2> QED
    BY <2>1, <2>2, <2>3
<1>2. ASSUME NEW w \in Workers, TaskStep(w) \/ Fault(w)
      PROVE  queue \subseteq queue'
  BY <1>2 DEF TaskStep, FetchResume, ExtractSucceeds, ExtractTimesOut, ExtractRejects,
     CheckDuplicate, SelectCandidate, SaveConflicts, SaveRefused, SaveRolledBack,
     SaveApplied, MarkFailed, PublishScore, EmbedAndFinish, RetryTask, RetriesExhausted,
     Fault, DatabaseError, PublishFails, RetryRejected, ChildLost, WorkerCrash
<1>3. ASSUME Handlers
      PROVE  queue \subseteq queue'
  BY <1>3 DEF Handlers, CreateApplications, Enqueue, EnqueueFails, LoadForEdit,
     CommitEdit, DeleteApplication, FixStuckParsing, CreateCandidate, UpdateCandidate,
     DeleteCandidate, DeleteJob
<1> QED
  BY <1>1, <1>2, <1>3 DEF Next, vars
LEMMA WorkerTracks ==
  ASSUME TypeInv, CarriedOK, [Next]_vars, NEW w \in Workers, pc[w] \in Resolving
  PROVE  \/ pc'[w] \in Resolving /\ App(w)' = App(w)
         \/ \E m \in queue' : m.app = App(w)
         \/ app'[App(w)].status # "parsing"
         \/ \E why \in Causes : <<App(w), why>> \in lost'
<1> DEFINE Goal == \/ pc'[w] \in Resolving /\ App(w)' = App(w)
                   \/ \E m \in queue' : m.app = App(w)
                   \/ app'[App(w)].status # "parsing"
                   \/ \E why \in Causes : <<App(w), why>> \in lost'
<1> SUFFICES Goal
  OBVIOUS
<1>0. App(w) \in Apps /\ held[w] \in Message
  BY BusyWorker DEF Resolving
<1> USE DEF TypeInv, TypeOK
<1>1. ASSUME \/ FetchResume(w) \/ ExtractSucceeds(w) \/ ExtractTimesOut(w)
             \/ ExtractRejects(w) \/ CheckDuplicate(w) \/ SelectCandidate(w)
             \/ SaveConflicts(w) \/ DatabaseError(w)
      PROVE  pc'[w] \in Resolving /\ App(w)' = App(w)
  BY <1>1 DEF FetchResume, ExtractSucceeds, ExtractTimesOut, ExtractRejects, CheckDuplicate,
     SelectCandidate, SaveConflicts, DatabaseError, Goto, Resolving, App
<1>2. ASSUME NEW x \in Statuses \ {"parsing"},
             app'[App(w)].status = Written(seen[w].status, x, app[App(w)].status)
      PROVE  app'[App(w)].status # "parsing"
  BY <1>2 DEF Written, CarriedOK, Resolving
<1>3. ASSUME MarkFailed(w)
      PROVE  app'[App(w)].status # "parsing"
  <2>1. app'[App(w)].status = Written(seen[w].status, "parse_failed", app[App(w)].status)
    BY <1>0, <1>3 DEF MarkFailed, AppRow
  <2> QED
    BY <1>2, <2>1, ConstantTypes
<1>4. ASSUME NEW c \in Candidates, SaveRefused(w, c)
      PROVE  app'[App(w)].status # "parsing"
  <2>1. app'[App(w)].status = Written(seen[w].status, "parse_failed", app[App(w)].status)
    BY <1>0, <1>4 DEF SaveRefused, AppRow
  <2> QED
    BY <1>2, <2>1, ConstantTypes
<1>5. ASSUME NEW c \in Candidates, SaveRolledBack(w, c)
      PROVE  app'[App(w)].status # "parsing"
  BY <1>0, <1>5 DEF SaveRolledBack, AppRow
<1>6. ASSUME NEW c \in Candidates, SaveApplied(w, c)
      PROVE  app'[App(w)].status # "parsing"
  <2>1. app'[App(w)].status = Written(seen[w].status, "applied", app[App(w)].status)
    BY <1>0, <1>6 DEF SaveApplied, AppRow
  <2> QED
    BY <1>2, <2>1, ConstantTypes, ConstantsOK
<1>7. ASSUME RetryTask(w)
      PROVE  \E m \in queue' : m.app = App(w)
  <2>1. [held[w] EXCEPT !.retries = @ + 1].app = App(w)
    BY <1>0 DEF App, Message
  <2> QED
    BY <1>7, <2>1 DEF RetryTask
<1>8. ASSUME WorkerCrash(w)
      PROVE  \E m \in queue' : m.app = App(w)
  BY <1>8 DEF WorkerCrash, App
<1>9. ASSUME RetriesExhausted(w) \/ RetryRejected(w) \/ ChildLost(w)
      PROVE  \E why \in Causes : <<App(w), why>> \in lost'
  BY <1>9 DEF RetriesExhausted, RetryRejected, ChildLost, Causes
<1>10. ASSUME NEW v \in Workers \ {w}, TaskStep(v) \/ Fault(v) \/ \E m \in queue : Deliver(v, m)
       PROVE  pc'[w] = pc[w] /\ held'[w] = held[w]
  BY <1>10 DEF TaskStep, FetchResume, ExtractSucceeds, ExtractTimesOut, ExtractRejects,
     CheckDuplicate, SelectCandidate, SaveConflicts, SaveRefused, SaveRolledBack,
     SaveApplied, MarkFailed, PublishScore, EmbedAndFinish, RetryTask, RetriesExhausted,
     Fault, DatabaseError, PublishFails, RetryRejected, ChildLost, WorkerCrash, Deliver,
     Goto, Release
<1>11. ASSUME Handlers
       PROVE  pc'[w] = pc[w] /\ held'[w] = held[w]
  BY <1>11 DEF Handlers, CreateApplications, Enqueue, EnqueueFails, LoadForEdit,
     CommitEdit, DeleteApplication, FixStuckParsing, CreateCandidate, UpdateCandidate,
     DeleteCandidate, DeleteJob, workerVars
<1>12. ~PublishScore(w) /\ ~EmbedAndFinish(w) /\ ~PublishFails(w)
       /\ ~(\E m \in queue : Deliver(w, m))
  BY DEF PublishScore, EmbedAndFinish, PublishFails, Deliver, Goto, Resolving
<1>13. ASSUME TaskStep(w) \/ Fault(w)
       PROVE  Goal
  BY <1>1, <1>3, <1>4, <1>5, <1>6, <1>7, <1>8, <1>9, <1>12, <1>13 DEF TaskStep, Fault
<1>14. ASSUME pc'[w] = pc[w], held'[w] = held[w]
       PROVE  Goal
  BY <1>14 DEF App
<1>15. ASSUME NEW v \in Workers, TaskStep(v) \/ Fault(v) \/ \E m \in queue : Deliver(v, m)
       PROVE  Goal
  <2>1. CASE v = w
    BY <1>12, <1>13, <1>15, <2>1
  <2>2. CASE v # w
    BY <1>10, <1>14, <1>15, <2>2
  <2> QED
    BY <2>1, <2>2
<1>16. CASE UNCHANGED vars
  BY <1>14, <1>16 DEF vars, workerVars
<1> HIDE DEF Goal
<1> QED
  BY <1>11, <1>14, <1>15, <1>16 DEF Next
LEMMA LostGrows == [Next]_vars => lost \subseteq lost'
<1> SUFFICES ASSUME [Next]_vars
             PROVE  lost \subseteq lost'
  OBVIOUS
<1>1. ASSUME NEW w \in Workers, TaskStep(w) \/ Fault(w) \/ \E m \in queue : Deliver(w, m)
      PROVE  lost \subseteq lost'
  BY <1>1 DEF TaskStep, FetchResume, ExtractSucceeds, ExtractTimesOut, ExtractRejects,
     CheckDuplicate, SelectCandidate, SaveConflicts, SaveRefused, SaveRolledBack,
     SaveApplied, MarkFailed, PublishScore, EmbedAndFinish, RetryTask, RetriesExhausted,
     Fault, DatabaseError, PublishFails, RetryRejected, ChildLost, WorkerCrash, Deliver
<1>2. ASSUME Handlers
      PROVE  lost \subseteq lost'
  BY <1>2 DEF Handlers, CreateApplications, Enqueue, EnqueueFails, LoadForEdit,
     CommitEdit, DeleteApplication, FixStuckParsing, CreateCandidate, UpdateCandidate,
     DeleteCandidate, DeleteJob
<1> QED
  BY <1>1, <1>2 DEF Next, vars

LEMMA AccountedStep ==
  TypeInv /\ CarriedOK /\ ParsingIsAccountedFor /\ [Next]_vars => ParsingIsAccountedFor'
<1> SUFFICES ASSUME TypeInv, CarriedOK, ParsingIsAccountedFor, [Next]_vars,
                    NEW a \in Apps, app'[a].status = "parsing"
             PROVE  Tracked(a)' \/ \E why \in Causes : <<a, why>> \in lost'
  BY DEF ParsingIsAccountedFor
<1>1. CASE app[a].status = "none"
  BY <1>1, StatusStep, ConstantsOK DEF Tracked
<1>2. CASE app[a].status # "none"
  <2>1. app[a].status = "parsing"
    BY <1>2, StatusMovesOn
  <2>2. CASE \E why \in Causes : <<a, why>> \in lost
    BY <2>2, LostGrows
  <2>3. ASSUME NEW rows \in outbox, a \in rows
        PROVE  Tracked(a)' \/ \E why \in Causes : <<a, why>> \in lost'
    BY <2>3, OutboxTracks DEF Tracked
  <2>4. ASSUME NEW m \in queue, m.app = a
        PROVE  Tracked(a)'
    BY <2>4, QueueTracks DEF Tracked, Resolving
  <2>5. ASSUME NEW w \in Workers, pc[w] \in Resolving, App(w) = a
        PROVE  Tracked(a)' \/ \E why \in Causes : <<a, why>> \in lost'
    BY <2>5, WorkerTracks DEF Tracked
  <2> QED
    BY <2>1, <2>2, <2>3, <2>4, <2>5 DEF ParsingIsAccountedFor, Tracked
<1> QED
  BY <1>1, <1>2

(* ParsingIsAccountedFor alone is not inductive: a worker that loaded an   *)
(* already resolved application would write nothing when it marks it       *)
(* failed.  CarriedOK says that such an application is not "parsing".      *)
THEOREM ParsingAccounted == Spec => []ParsingIsAccountedFor
<1> DEFINE IInv == TypeInv /\ CarriedOK /\ ParsingIsAccountedFor
<1>1. Init => IInv
  <2>1. Init => CarriedOK
    BY DEF Init, CarriedOK
  <2>2. Init => ParsingIsAccountedFor
    BY DEF Init, ParsingIsAccountedFor, NewApp
  <2> QED
    BY <2>1, <2>2, TypeInit
<1>2. IInv /\ [Next]_vars => IInv'
  BY TypeStep, CarriedStep, AccountedStep
<1> QED
  BY <1>1, <1>2, PTL DEF Spec
=============================================================================
