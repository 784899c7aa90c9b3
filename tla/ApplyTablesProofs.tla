------------------------- MODULE ApplyTablesProofs -------------------------
(***************************************************************************)
(* Proofs about what the pipeline leaves in the tables: a resume behind    *)
(* every application recruiters see, gapless resume histories, and as many *)
(* rows in them as an application has lost races.                          *)
(***************************************************************************)
EXTENDS ApplyPipelineProofs

(* The row SaveApplied writes; every other row stays.                      *)
LEMMA AppliedRow ==
  ASSUME TypeInv, NEW w \in Workers, NEW c \in Candidates, SaveApplied(w, c)
  PROVE  LET a == App(w) IN
         /\ a \in Apps
         /\ app'[a].cand = Written(seen[w].cand, c, app[a].cand)
         /\ app'[a].job = app[a].job /\ app'[a].file = app[a].file
         /\ \A b \in Apps \ {a} : app'[b] = app[b]
<1>1. App(w) \in Apps
  BY BusyWorker DEF SaveApplied, Goto
<1> DEFINE s == Written(seen[w].status, "applied", app[App(w)].status)
           d == Written(seen[w].cand, c, app[App(w)].cand)
           new == [app[App(w)] EXCEPT !.status = s, !.cand = d]
<1>2. app' = [app EXCEPT ![App(w)].status = s, ![App(w)].cand = d]
  BY DEF SaveApplied
<1>3. new.cand = d /\ new.job = app[App(w)].job /\ new.file = app[App(w)].file
  BY <1>1 DEF TypeInv, TypeOK, AppRow
<1>4. app' = [app EXCEPT ![App(w)] = new]
  BY <1>1, <1>2 DEF TypeInv, TypeOK, AppRow
<1> QED
  BY <1>1, <1>3, <1>4 DEF TypeInv, TypeOK

(* A step attaches a candidate, or inserts the row, or leaves its candidate, *)
(* job and file alone.                                                     *)
LEMMA RowStep ==
  ASSUME TypeInv, [Next]_vars, NEW a \in Apps
  PROVE  \/ app'[a].cand = app[a].cand /\ app'[a].job = app[a].job /\ app'[a].file = app[a].file
         \/ app'[a].cand = app[a].cand /\ app[a].status = "none"
         \/ \E w \in Workers, c \in Candidates : SaveApplied(w, c) /\ App(w) = a
<1> DEFINE Same == /\ app'[a].cand = app[a].cand /\ app'[a].job = app[a].job
                   /\ app'[a].file = app[a].file
<1>1. ASSUME NEW new \in SUBSET Apps, NEW j \in Jobs, NEW dup \in BOOLEAN,
             CreateApplications(new, j, dup)
      PROVE  Same \/ (app'[a].cand = app[a].cand /\ app[a].status = "none")
  BY <1>1, Created
<1>2. ASSUME NEW r \in Recruiters, CommitEdit(r)
      PROVE  Same
  BY <1>2 DEF CommitEdit, TypeInv, TypeOK, AppRow
<1>3. ASSUME NEW b \in Apps, DeleteApplication(b)
      PROVE  Same
  BY <1>3 DEF DeleteApplication, TypeInv, TypeOK, AppRow
<1>4. ASSUME NEW w \in Workers, MarkFailed(w)
      PROVE  Same
  BY <1>4 DEF MarkFailed, TypeInv, TypeOK, AppRow
<1>5. ASSUME NEW w \in Workers, NEW c \in Candidates, SaveRefused(w, c)
      PROVE  Same
  BY <1>5 DEF SaveRefused, TypeInv, TypeOK, AppRow
<1>6. ASSUME NEW w \in Workers, NEW c \in Candidates, SaveRolledBack(w, c)
      PROVE  Same
  BY <1>6 DEF SaveRolledBack, TypeInv, TypeOK, AppRow
<1>7. ASSUME NEW w \in Workers, NEW c \in Candidates, SaveApplied(w, c)
      PROVE  Same \/ App(w) = a
  BY <1>7, AppliedRow
<1> QED
  BY <1>1, <1>2, <1>3, <1>4, <1>5, <1>6, <1>7, AppWriters

(* A row that is not inserted has no candidate. *)
NoneUnattached == \A a \in Apps : app[a].status = "none" => app[a].cand = NoCandidate

LEMMA NoneUnattachedStep ==
  TypeInv /\ CarriedOK /\ NoneUnattached /\ [Next]_vars => NoneUnattached'
<1> SUFFICES ASSUME TypeInv, CarriedOK, NoneUnattached, [Next]_vars,
                    NEW a \in Apps, app'[a].status = "none"
             PROVE  app'[a].cand = NoCandidate
  BY DEF NoneUnattached
<1>1. app[a].status = "none"
  BY StatusMovesOn
<1>2. ASSUME NEW w \in Workers, NEW c \in Candidates, SaveApplied(w, c), App(w) = a
      PROVE  FALSE
  BY <1>1, <1>2 DEF CarriedOK, SaveApplied, Goto
<1> QED
  BY <1>1, <1>2, RowStep DEF NoneUnattached
-----------------------------------------------------------------------------
(* Behind every application recruiters see there is its resume.            *)

(* What recruiters do with a candidate. *)
ByHand(c) ==
  \/ DeleteCandidate(c)
  \/ \E e \in Emails \cup {NoEmail}, p \in People :
       UpdateCandidate(c, e, p) \/ \E f \in Files : CreateCandidate(c, e, p, f)

(* The only steps that write candidates and candidate_resumes. *)
LEMMA CandWriters ==
  ASSUME TypeInv, [Next]_vars
  PROVE  \/ cand' = cand /\ resumes' = resumes
         \/ \E c \in Candidates : ByHand(c)
         \/ \E w \in Workers : EmbedAndFinish(w)
         \/ \E w \in Workers, c \in Candidates : SaveRefused(w, c) \/ SaveApplied(w, c)
<1>1. ASSUME NEW w \in Workers, TaskStep(w)
      PROVE  \/ cand' = cand /\ resumes' = resumes
             \/ EmbedAndFinish(w)
             \/ \E c \in Candidates : SaveRefused(w, c) \/ SaveApplied(w, c)
  BY <1>1 DEF TaskStep, FetchResume, ExtractSucceeds, ExtractTimesOut, ExtractRejects,
     CheckDuplicate, SelectCandidate, SaveConflicts, SaveRolledBack, MarkFailed,
     PublishScore, RetryTask, RetriesExhausted, tables
<1>2. ASSUME NEW w \in Workers, Fault(w) \/ \E m \in queue : Deliver(w, m)
      PROVE  cand' = cand /\ resumes' = resumes
  BY <1>2 DEF Fault, DatabaseError, PublishFails, RetryRejected, ChildLost, WorkerCrash,
     Deliver, tables
<1>3. ASSUME Handlers
      PROVE  \/ cand' = cand /\ resumes' = resumes
             \/ \E c \in Candidates : ByHand(c)
  BY <1>3 DEF Handlers, ByHand, CreateApplications, EnqueueFails, Enqueue, LoadForEdit,
     CommitEdit, DeleteApplication, FixStuckParsing, DeleteJob, tables
<1> QED
  BY <1>1, <1>2, <1>3 DEF Next, vars

LEMMA ResumesGrow == TypeInv /\ [Next]_vars => resumes \subseteq resumes'
<1> SUFFICES ASSUME TypeInv, [Next]_vars
             PROVE  resumes \subseteq resumes'
  OBVIOUS
<1>1. ASSUME NEW c \in Candidates, ByHand(c)
      PROVE  resumes' = resumes
  BY <1>1 DEF ByHand, DeleteCandidate, UpdateCandidate, CreateCandidate
<1>2. ASSUME NEW w \in Workers, EmbedAndFinish(w)
      PROVE  resumes' = resumes
  BY <1>2 DEF EmbedAndFinish
<1>3. ASSUME NEW w \in Workers, NEW c \in Candidates, SaveRefused(w, c) \/ SaveApplied(w, c)
      PROVE  resumes \subseteq resumes'
  BY <1>3 DEF SaveRefused, SaveApplied, Upsert
<1> QED
  BY <1>1, <1>2, <1>3, CandWriters

(* What was read about a candidate by a worker or a recruiter still holds. *)
AttachedOK ==
  /\ \A a \in Apps : app[a].cand # NoCandidate =>
       \E r \in resumes : r.cand = app[a].cand /\ r.file = app[a].file
  /\ \A w \in Workers : pc[w] # "idle" /\ seen[w].cand # NoCandidate =>
       app[App(w)].cand # NoCandidate
  /\ \A r \in Recruiters : edit[r] # NoEdit => app[edit[r].app].cand # NoCandidate

LEMMA StaysAttached ==
  ASSUME TypeInv, AttachedOK, [Next]_vars, NEW a \in Apps, app[a].cand # NoCandidate
  PROVE  app'[a].cand # NoCandidate
<1>1. ASSUME NEW w \in Workers, NEW c \in Candidates, SaveApplied(w, c), App(w) = a
      PROVE  app'[a].cand # NoCandidate
  BY <1>1, AppliedRow, ConstantsOK DEF Written
<1> QED
  BY <1>1, RowStep

LEMMA EditStep ==
  ASSUME TypeInv, [Next]_vars, NEW r \in Recruiters, edit'[r] # NoEdit
  PROVE  \/ edit[r] # NoEdit /\ edit'[r] = edit[r]
         \/ /\ edit'[r].app \in Apps /\ app[edit'[r].app].status \in Stages
            /\ app' = app
<1>1. ASSUME NEW q \in Recruiters, NEW a \in Apps, NEW to \in Stages, LoadForEdit(q, a, to)
      PROVE  \/ edit'[r] = edit[r]
             \/ edit'[r].app = a /\ app[a].status \in Stages /\ app' = app
  BY <1>1 DEF LoadForEdit, TypeInv, TypeOK, AppRow, Unresolved, Statuses, tables
<1>2. ASSUME NEW q \in Recruiters, CommitEdit(q)
      PROVE  edit'[r] = edit[r] \/ edit'[r] = NoEdit
  BY <1>2 DEF CommitEdit, TypeInv, TypeOK
<1>3. ASSUME NEW w \in Workers, TaskStep(w) \/ Fault(w) \/ \E m \in queue : Deliver(w, m)
      PROVE  edit' = edit
  BY <1>3 DEF TaskStep, FetchResume, ExtractSucceeds, ExtractTimesOut, ExtractRejects,
     CheckDuplicate, SelectCandidate, SaveConflicts, SaveRefused, SaveRolledBack,
     SaveApplied, MarkFailed, PublishScore, EmbedAndFinish, RetryTask, RetriesExhausted,
     Fault, DatabaseError, PublishFails, RetryRejected, ChildLost, WorkerCrash, Deliver,
     apiVars
<1>4. ASSUME Handlers
      PROVE  \/ edit' = edit
             \/ \E q \in Recruiters, a \in Apps, to \in Stages : LoadForEdit(q, a, to)
             \/ \E q \in Recruiters : CommitEdit(q)
  BY <1>4 DEF Handlers, CreateApplications, Enqueue, EnqueueFails, DeleteApplication,
     FixStuckParsing, CreateCandidate, UpdateCandidate, DeleteCandidate, DeleteJob,
     apiVars
<1> QED
  BY <1>1, <1>2, <1>3, <1>4 DEF Next, vars
LEMMA AttachedStep ==
  TypeInv /\ NoneUnattached /\ AttachedOK /\ StagedIsBacked /\ [Next]_vars => AttachedOK'
<1> SUFFICES ASSUME TypeInv, NoneUnattached, AttachedOK, StagedIsBacked, [Next]_vars
             PROVE  AttachedOK'
  OBVIOUS
<1>1. ASSUME NEW a \in Apps, app'[a].cand # NoCandidate
      PROVE  \E r \in resumes' : r.cand = app'[a].cand /\ r.file = app'[a].file
  <2>1. CASE /\ app'[a].cand = app[a].cand
             /\ app[a].status # "none" => app'[a].file = app[a].file
    BY <1>1, <2>1, ResumesGrow DEF AttachedOK, NoneUnattached
  <2>2. ASSUME NEW w \in Workers, NEW c \in Candidates, SaveApplied(w, c), App(w) = a
        PROVE  \E r \in resumes' : r.cand = app'[a].cand /\ r.file = app'[a].file
    <3>1. app'[a].cand = Written(seen[w].cand, c, app[a].cand) /\ app'[a].file = app[a].file
      BY <2>2, AppliedRow
    <3>2. CASE app'[a].cand = app[a].cand
      BY <1>1, <3>1, <3>2, ResumesGrow DEF AttachedOK
    <3>3. CASE app'[a].cand = c
      <4> DEFINE r == [cand |-> c, version |-> chosen[w].version + 1, file |-> app[a].file]
      <4>1. r \in resumes'
        BY <2>2 DEF SaveApplied, Upsert, Resume
      <4> QED
        BY <3>1, <3>3, <4>1
    <3> QED
      BY <3>1, <3>2, <3>3 DEF Written
  <2> QED
    BY <2>1, <2>2, RowStep
<1>2. ASSUME NEW w \in Workers, pc'[w] # "idle", seen'[w].cand # NoCandidate
      PROVE  app'[App(w)'].cand # NoCandidate
  <2>1. CASE pc[w] # "idle" /\ held'[w] = held[w] /\ seen'[w] = seen[w]
    <3>1. App(w)' = App(w) /\ App(w) \in Apps
      BY <2>1, BusyWorker DEF App
    <3> QED
      BY <1>2, <2>1, <3>1, StaysAttached DEF AttachedOK
  <2>2. ASSUME NEW m \in queue, Deliver(w, m)
        PROVE  app'[App(w)'].cand # NoCandidate
    <3>1. App(w)' = m.app /\ seen'[w].cand = app[m.app].cand /\ app' = app
      BY <2>2 DEF Deliver, App, tables, TypeInv, TypeOK
    <3> QED
      BY <1>2, <3>1
  <2> QED
    BY <1>2, <2>1, <2>2, WorkerStep
<1>3. ASSUME NEW r \in Recruiters, edit'[r] # NoEdit
      PROVE  app'[edit'[r].app].cand # NoCandidate
  <2>1. CASE edit[r] # NoEdit /\ edit'[r] = edit[r]
    <3>1. edit[r].app \in Apps
      BY <2>1 DEF TypeInv, SlotsOK
    <3> QED
      BY <2>1, <3>1, StaysAttached DEF AttachedOK
  <2>2. CASE edit'[r].app \in Apps /\ app[edit'[r].app].status \in Stages /\ app' = app
    BY <2>2 DEF StagedIsBacked
  <2> QED
    BY <1>3, <2>1, <2>2, EditStep
<1> QED
  BY <1>1, <1>2, <1>3 DEF AttachedOK

LEMMA StagedStep ==
  TypeInv /\ AttachedOK /\ StagedIsBacked /\ AttachedOK' /\ [Next]_vars => StagedIsBacked'
<1> SUFFICES ASSUME TypeInv, AttachedOK, StagedIsBacked, AttachedOK', [Next]_vars,
                    NEW a \in Apps, app'[a].status \in Stages
             PROVE  app'[a].cand # NoCandidate
  BY DEF StagedIsBacked, AttachedOK
<1>1. CASE app[a].status \in Stages
  BY <1>1, StaysAttached DEF StagedIsBacked
<1>2. CASE app[a].status \notin Stages
  <2> USE <1>2 DEF TypeInv, TypeOK
  <2>1. ASSUME NEW new \in SUBSET Apps, NEW j \in Jobs, NEW dup \in BOOLEAN,
               CreateApplications(new, j, dup)
        PROVE  FALSE
    <3>1. a \in new => app'[a].status = "parsing"
      BY <2>1, Created
    <3>2. a \notin new => app'[a] = app[a]
      BY <2>1, Created
    <3> QED
      BY <3>1, <3>2, ConstantsOK
  <2>2. ASSUME NEW r \in Recruiters, CommitEdit(r)
        PROVE  app'[a].cand # NoCandidate
    <3>1. CASE edit[r].app = a
      <4>1. app'[a].cand = app[a].cand
        BY <2>2 DEF CommitEdit, AppRow
      <4> QED
        BY <2>2, <3>1, <4>1 DEF CommitEdit, AttachedOK
    <3>2. CASE edit[r].app # a
      BY <2>2, <3>2 DEF CommitEdit
    <3> QED
      BY <3>1, <3>2
  <2>3. ASSUME NEW b \in Apps, DeleteApplication(b)
        PROVE  FALSE
    BY <2>3 DEF DeleteApplication, AppRow
  <2>4. ASSUME NEW w \in Workers, MarkFailed(w)
        PROVE  FALSE
    BY <2>4, ConstantsOK DEF MarkFailed, Written, AppRow
  <2>5. ASSUME NEW w \in Workers, NEW c \in Candidates, SaveRefused(w, c)
        PROVE  FALSE
    BY <2>5, ConstantsOK DEF SaveRefused, Written, AppRow
  <2>6. ASSUME NEW w \in Workers, NEW c \in Candidates, SaveRolledBack(w, c)
        PROVE  FALSE
    BY <2>6, ConstantsOK DEF SaveRolledBack, AppRow
  <2>7. ASSUME NEW w \in Workers, NEW c \in Candidates, SaveApplied(w, c)
        PROVE  app'[a].cand # NoCandidate
    <3>1. CASE App(w) = a
      <4>1. app'[a].cand = Written(seen[w].cand, c, app[a].cand)
        BY <2>7, <3>1, AppliedRow
      <4>2. seen[w].cand # NoCandidate => app[a].cand # NoCandidate
        BY <2>7, <3>1 DEF AttachedOK, SaveApplied, Goto
      <4> QED
        BY <4>1, <4>2, ConstantsOK DEF Written
    <3>2. CASE App(w) # a
      BY <2>7, <3>2, AppliedRow
    <3> QED
      BY <3>1, <3>2
  <2>8. CASE app' = app
    BY <2>8
  <2> QED
    BY <2>1, <2>2, <2>3, <2>4, <2>5, <2>6, <2>7, <2>8, AppWriters
<1> QED
  BY <1>1, <1>2

(* StagedIsBacked needs AttachedOK: a commit goes by what its worker or    *)
(* recruiter read earlier, and an attached candidate is never detached.    *)
THEOREM Staged == Spec => []StagedIsBacked
<1> DEFINE IInv == TypeInv /\ CarriedOK /\ NoneUnattached /\ AttachedOK /\ StagedIsBacked
<1>1. Init => IInv
  <2>1. Init => CarriedOK /\ NoneUnattached /\ AttachedOK
    BY DEF Init, CarriedOK, NoneUnattached, AttachedOK, NewApp
  <2>2. Init => StagedIsBacked
    BY ConstantsOK DEF Init, StagedIsBacked, NewApp
  <2> QED
    BY <2>1, <2>2, TypeInit
<1>2. IInv /\ [Next]_vars => IInv'
  BY TypeStep, CarriedStep, NoneUnattachedStep, AttachedStep, StagedStep
<1> QED
  BY <1>1, <1>2, PTL DEF Spec
-----------------------------------------------------------------------------
(* The candidates: gapless histories.                                      *)

(* A candidate has a version once it exists, and what a worker that is     *)
(* about to save has read is not newer than the table.                     *)
ChosenOK ==
  /\ \A c \in Candidates : cand[c].exists <=> cand[c].version # 0
  /\ \A w \in Workers : pc[w] = "save" =>
       IF chosen[w].cand = NoCandidate
       THEN chosen[w].version = 0
       ELSE 0 < chosen[w].version /\ chosen[w].version <= cand[chosen[w].cand].version

(* ResumeHistoryIsGapless, one candidate at a time. *)
Gapless(c) ==
  LET history == {r \in resumes : r.cand = c} IN
  /\ {r.version : r \in history} \in {1..cand[c].version, 2..cand[c].version}
  /\ \A r, s \in history : r.version = s.version => r = s
  /\ history # {} =>
       [cand |-> c, version |-> cand[c].version, file |-> cand[c].file] \in resumes

(* A save that is not in conflict writes the version after the current one. *)
Saves(w, c) ==
  /\ pc[w] = "save"
  /\ ~FlushConflict(chosen[w], Resume(App(w)))
  /\ UpsertTarget(w, c)
  /\ Upsert(w, c)

LEMMA SavesNextVersion ==
  ASSUME TypeInv, ChosenOK, ResumeHistoryIsGapless,
         NEW w \in Workers, NEW c \in Candidates, Saves(w, c)
  PROVE  /\ chosen[w].version = cand[c].version
         /\ LET v == cand[c].version + 1
                f == Resume(App(w))
            IN  /\ cand'[c].exists /\ cand'[c].version = v /\ cand'[c].file = f
                /\ resumes' = resumes \cup {[cand |-> c, version |-> v, file |-> f]}
         /\ \A d \in Candidates \ {c} : cand'[d] = cand[d]
<1> USE DEF TypeInv, TypeOK
<1>1. cand[c].version \in Nat /\ chosen[w].version \in Nat
  BY DEF CandRow
<1>2. CASE chosen[w].cand # NoCandidate
  <2>1. /\ c = chosen[w].cand /\ 0 < chosen[w].version
        /\ chosen[w].version <= cand[c].version
    BY <1>2 DEF Saves, UpsertTarget, ChosenOK
  <2>6. cand[c].exists
    BY <1>1, <2>1 DEF ChosenOK
  <2>2. chosen[w].version = cand[c].version
    <3>1. ~ \E r \in resumes : r.cand = c /\ r.version = chosen[w].version + 1
      BY <1>2, <2>1 DEF Saves, FlushConflict
    <3>2. {r.version : r \in {s \in resumes : s.cand = c}}
            \in {1..cand[c].version, 2..cand[c].version}
      BY DEF ResumeHistoryIsGapless
    <3>3. chosen[w].version + 1 \notin 1..cand[c].version
          \/ chosen[w].version + 1 \notin 2..cand[c].version
      BY <3>1, <3>2
    <3>4. \A m, n \in Nat : 0 < m /\ m <= n /\ (m + 1 \notin 1..n \/ m + 1 \notin 2..n)
            => m = n
      OBVIOUS
    <3> QED
      BY <1>1, <2>1, <3>3, <3>4
  <2> DEFINE new == [cand[c] EXCEPT !.file = Resume(App(w)), !.version = chosen[w].version + 1]
  <2>3. cand' = [cand EXCEPT ![c] = new]
    BY <1>2 DEF Saves, Upsert
  <2>4. /\ new.exists = cand[c].exists /\ new.version = chosen[w].version + 1
        /\ new.file = Resume(App(w))
    BY DEF CandRow
  <2>5. resumes' = resumes \cup {[cand |-> c, version |-> chosen[w].version + 1,
                                  file |-> Resume(App(w))]}
    BY DEF Saves, Upsert
  <2> HIDE DEF new
  <2> QED
    BY <2>1, <2>2, <2>3, <2>4, <2>5, <2>6
<1>3. CASE chosen[w].cand = NoCandidate
  <2>1. ~cand[c].exists /\ chosen[w].version = 0 /\ cand[c].version = 0
    BY <1>3 DEF Saves, UpsertTarget, ChosenOK
  <2> DEFINE new == [exists |-> TRUE, email |-> EmailOf[Resume(App(w))],
                     person |-> PersonOf[Resume(App(w))], file |-> Resume(App(w)),
                     version |-> 1, embedded |-> FALSE, deleted |-> FALSE]
  <2>2. cand' = [cand EXCEPT ![c] = new]
    BY <1>3 DEF Saves, Upsert
  <2>3. new.exists /\ new.version = 1 /\ new.file = Resume(App(w))
    OBVIOUS
  <2>4. resumes' = resumes \cup {[cand |-> c, version |-> chosen[w].version + 1,
                                  file |-> Resume(App(w))]}
    BY DEF Saves, Upsert
  <2> HIDE DEF new
  <2> QED
    BY <2>1, <2>2, <2>3, <2>4
<1> QED
  BY <1>2, <1>3
(* Every other step leaves versions and histories alone, or makes a        *)
(* candidate by hand; addresses change by hand only.                       *)
Kept(c) ==
  /\ cand'[c].exists = cand[c].exists /\ cand'[c].version = cand[c].version
  /\ cand'[c].file = cand[c].file
  /\ cand'[c].email = cand[c].email \/ "updateCandidate" \in Operations
  /\ cand[c].deleted => cand'[c].deleted

(* A candidate made by hand. *)
Made(c) ==
  /\ "createCandidate" \in Operations
  /\ ~cand[c].exists /\ cand'[c].exists /\ cand'[c].version = 1
  /\ \A d \in Candidates \ {c} : Kept(d)

LEMMA CandStep ==
  ASSUME TypeInv, [Next]_vars
  PROVE  \/ resumes' = resumes /\ \A c \in Candidates : Kept(c)
         \/ resumes' = resumes /\ \E c \in Candidates : Made(c)
         \/ \E w \in Workers, c \in Candidates : Saves(w, c)
<1> USE DEF TypeInv, TypeOK
<1>1. ASSUME NEW d \in Candidates, ByHand(d)
      PROVE  resumes' = resumes /\ (Made(d) \/ \A c \in Candidates : Kept(c))
  <2>1. CASE DeleteCandidate(d)
    BY <2>1 DEF DeleteCandidate, Kept, CandRow
  <2>2. ASSUME NEW e, NEW p, UpdateCandidate(d, e, p)
        PROVE  resumes' = resumes /\ \A c \in Candidates : Kept(c)
    BY <2>2 DEF UpdateCandidate, Kept, CandRow
  <2>3. ASSUME NEW e, NEW p, NEW f, CreateCandidate(d, e, p, f)
        PROVE  resumes' = resumes /\ Made(d)
    BY <2>3 DEF CreateCandidate, Made, Kept
  <2> QED
    BY <1>1, <2>1, <2>2, <2>3 DEF ByHand
<1>2. ASSUME NEW w \in Workers, EmbedAndFinish(w)
      PROVE  resumes' = resumes /\ \A c \in Candidates : Kept(c)
  <2>1. /\ resumes' = resumes
        /\ \/ cand' = cand
           \/ \E d \in Candidates : cand' = [cand EXCEPT ![d].embedded = TRUE]
    BY <1>2 DEF EmbedAndFinish
  <2>2. ASSUME NEW d \in Candidates, cand' = [cand EXCEPT ![d].embedded = TRUE],
               NEW c \in Candidates
        PROVE  Kept(c)
    BY <2>2 DEF Kept, CandRow
  <2> QED
    BY <2>1, <2>2 DEF Kept
<1>3. ASSUME NEW w \in Workers, NEW c \in Candidates, SaveRefused(w, c) \/ SaveApplied(w, c)
      PROVE  Saves(w, c)
  BY <1>3 DEF SaveRefused, SaveApplied, Saves, Goto
<1> QED
  BY <1>1, <1>2, <1>3, CandWriters DEF Kept

LEMMA VersionsOfUnion ==
  ASSUME NEW S, NEW x
  PROVE  {r.version : r \in S \cup {x}} = {r.version : r \in S} \cup {x.version}
  OBVIOUS

LEMMA GaplessStep ==
  TypeInv /\ ChosenOK /\ ResumeHistoryIsGapless /\ [Next]_vars => ResumeHistoryIsGapless'
<1> SUFFICES ASSUME TypeInv, ChosenOK, ResumeHistoryIsGapless, [Next]_vars,
                    NEW c \in Candidates
             PROVE  Gapless(c)'
  BY DEF ResumeHistoryIsGapless, Gapless
<1>1. Gapless(c)
  BY DEF ResumeHistoryIsGapless, Gapless
<1>2. CASE resumes' = resumes /\ Kept(c)
  BY <1>1, <1>2 DEF Gapless, Kept
<1>4. CASE resumes' = resumes /\ Made(c)
  <2>1. cand[c].version = 0 /\ cand'[c].version = 1
    BY <1>4 DEF Made, ChosenOK
  <2>2. {r.version : r \in {s \in resumes : s.cand = c}} \in {1..0, 2..0}
    BY <1>1, <2>1 DEF Gapless
  <2>3. {s \in resumes : s.cand = c} = {}
    BY <2>2
  <2>4. 2..1 = {}
    OBVIOUS
  <2> QED
    BY <1>4, <2>1, <2>3, <2>4 DEF Gapless
<1>3. ASSUME NEW w \in Workers, NEW d \in Candidates, Saves(w, d)
      PROVE  Gapless(c)'
  <2> DEFINE v == cand[d].version + 1
             f == Resume(App(w))
             new == [cand |-> d, version |-> v, file |-> f]
             old == {r \in resumes : r.cand = c}
  <2>1. /\ cand'[d].exists /\ cand'[d].version = v /\ cand'[d].file = f
        /\ resumes' = resumes \cup {new}
        /\ \A e \in Candidates \ {d} : cand'[e] = cand[e]
    BY <1>3, SavesNextVersion
  <2>2. CASE c # d
    <3>1. {r \in resumes' : r.cand = c} = old
      BY <2>1, <2>2
    <3>2. cand'[c] = cand[c]
      BY <2>1, <2>2
    <3> QED
      BY <1>1, <2>1, <3>1, <3>2 DEF Gapless
  <2>3. CASE c = d
    <3>1. {r \in resumes' : r.cand = c} = old \cup {new}
      BY <2>1, <2>3
    <3>2. cand[c].version \in Nat
      BY DEF TypeInv, TypeOK, CandRow
    <3>3. {r.version : r \in old} \in {1..cand[c].version, 2..cand[c].version}
      BY <1>1 DEF Gapless
    <3>4. {r.version : r \in old \cup {new}} \in {1..v, 2..v}
      <4>1. {r.version : r \in old \cup {new}} = {r.version : r \in old} \cup {new.version}
        BY VersionsOfUnion
      <4>2. \A n \in Nat :
                          /\ (1..n) \cup {n + 1} = 1..(n + 1)
                          /\ n # 0 => (2..n) \cup {n + 1} = 2..(n + 1)
                          /\ n = 0 => (2..n) \cup {n + 1} = 1..(n + 1)
        OBVIOUS
      <4> QED
        BY <2>3, <3>2, <3>3, <4>1, <4>2
    <3>5. ASSUME NEW r \in old \cup {new}, NEW s \in old \cup {new}, r.version = s.version
          PROVE  r = s
      <4>1. \A q \in old : q.version # v
        <5>1. v \notin 1..cand[c].version /\ v \notin 2..cand[c].version
          BY <2>3, <3>2
        <5> QED
          BY <3>3, <5>1
      <4>2. \A q, t \in old : q.version = t.version => q = t
        BY <1>1 DEF Gapless
      <4> QED
        BY <3>5, <4>1, <4>2
    <3>6. cand'[c].version = v /\ cand'[c].file = f /\ new \in resumes'
      BY <2>1, <2>3
    <3> HIDE DEF v, f, old
    <3> QED
      BY <2>3, <3>1, <3>4, <3>5, <3>6 DEF Gapless
  <2> QED
    BY <2>2, <2>3
<1> QED
  BY <1>2, <1>3, <1>4, CandStep DEF Made

(* A worker is about to save what it was about to save, or has just read   *)
(* the candidate by its e-mail address.                                    *)
LEMMA SaveStep ==
  ASSUME TypeInv, [Next]_vars, NEW w \in Workers, pc'[w] = "save"
  PROVE  /\ pc[w] # "idle" /\ held'[w] = held[w]
         /\ \/ pc[w] = "save" /\ chosen'[w] = chosen[w]
            \/ SelectCandidate(w)
<1>1. ASSUME NEW v \in Workers, TaskStep(v) \/ Fault(v) \/ \E m \in queue : Deliver(v, m)
      PROVE  /\ pc[w] # "idle" /\ held'[w] = held[w]
             /\ (pc[w] = "save" /\ chosen'[w] = chosen[w]) \/ SelectCandidate(w)
  BY <1>1 DEF TypeInv, TypeOK, TaskStep, FetchResume, ExtractSucceeds,
     ExtractTimesOut, ExtractRejects, CheckDuplicate, SelectCandidate, SaveConflicts,
     SaveRefused, SaveRolledBack, SaveApplied, MarkFailed, PublishScore, EmbedAndFinish,
     RetryTask, RetriesExhausted, Fault, DatabaseError, PublishFails, RetryRejected,
     ChildLost, WorkerCrash, Deliver, Goto, Release
<1>2. ASSUME Handlers
      PROVE  pc' = pc /\ chosen' = chosen /\ held' = held
  BY <1>2 DEF Handlers, CreateApplications, Enqueue, EnqueueFails, LoadForEdit, CommitEdit,
     DeleteApplication, FixStuckParsing, CreateCandidate, UpdateCandidate, DeleteCandidate,
     DeleteJob, workerVars
<1> QED
  BY <1>1, <1>2 DEF Next, vars, workerVars

LEMMA ChosenStep ==
  TypeInv /\ ChosenOK /\ ResumeHistoryIsGapless /\ [Next]_vars => ChosenOK'
<1> SUFFICES ASSUME TypeInv, ChosenOK, ResumeHistoryIsGapless, [Next]_vars
             PROVE  ChosenOK'
  OBVIOUS
<1>1. ASSUME NEW c \in Candidates
      PROVE  /\ cand[c].version <= cand'[c].version
             /\ cand'[c].exists <=> cand'[c].version # 0
  <2>1. cand[c].version \in Nat
    BY DEF TypeInv, TypeOK, CandRow
  <2>2. CASE Kept(c)
    BY <2>1, <2>2 DEF Kept, ChosenOK
  <2>4. CASE Made(c)
    BY <2>1, <2>4 DEF Made, ChosenOK
  <2>3. ASSUME NEW w \in Workers, NEW d \in Candidates, Saves(w, d)
        PROVE  /\ cand[c].version <= cand'[c].version
               /\ cand'[c].exists <=> cand'[c].version # 0
    <3>1. CASE c = d
      BY <2>1, <2>3, <3>1, SavesNextVersion
    <3>2. CASE c # d
      <4>1. cand'[c] = cand[c]
        BY <2>3, <3>2, SavesNextVersion
      <4> QED
        BY <2>1, <4>1 DEF ChosenOK
    <3> QED
      BY <3>1, <3>2
  <2> QED
    BY <2>2, <2>3, <2>4, CandStep DEF Made
<1>3. ASSUME NEW w \in Workers, pc'[w] = "save"
      PROVE  IF chosen'[w].cand = NoCandidate
             THEN chosen'[w].version = 0
             ELSE /\ 0 < chosen'[w].version
                  /\ chosen'[w].version <= cand'[chosen'[w].cand].version
  <2>1. CASE pc[w] = "save" /\ chosen'[w] = chosen[w]
    <3>1. CASE chosen[w].cand = NoCandidate
      BY <2>1, <3>1 DEF ChosenOK
    <3>2. CASE chosen[w].cand # NoCandidate
      <4> DEFINE d == chosen[w].cand
      <4>1. d \in Candidates /\ chosen[w].version \in Nat
        BY <3>2 DEF TypeInv, TypeOK
      <4>2. 0 < chosen[w].version /\ chosen[w].version <= cand[d].version
        BY <2>1, <3>2 DEF ChosenOK
      <4>3. cand[d].version \in Nat /\ cand'[d].version \in Nat
        BY <4>1, TypeStep DEF TypeInv, TypeOK, CandRow
      <4>4. cand[d].version <= cand'[d].version
        BY <1>1, <4>1
      <4>5. chosen[w].version <= cand'[d].version
        BY <4>1, <4>2, <4>3, <4>4
      <4> QED
        BY <2>1, <3>2, <4>2, <4>5
    <3> QED
      BY <3>1, <3>2
  <2>2. CASE SelectCandidate(w)
    <3>1. \/ chosen'[w] = NothingChosen
          \/ \E c \in ActiveWithEmail(EmailOf[Resume(App(w))]) :
               chosen'[w] = [cand |-> c, version |-> cand[c].version]
      BY <2>2 DEF SelectCandidate, TypeInv, TypeOK
    <3>2. cand' = cand
      BY <2>2 DEF SelectCandidate, tables
    <3>3. \A c \in Candidates : cand[c].version <= cand[c].version
      BY DEF TypeInv, TypeOK, CandRow
    <3>4. CASE chosen'[w] = NothingChosen
      BY <3>4 DEF NothingChosen
    <3>5. ASSUME NEW c \in ActiveWithEmail(EmailOf[Resume(App(w))]),
                 chosen'[w] = [cand |-> c, version |-> cand[c].version]
          PROVE  /\ chosen'[w].cand = c /\ chosen'[w].version = cand'[c].version
                 /\ c \in Candidates /\ c # NoCandidate /\ 0 < chosen'[w].version
      <4>1. c \in Candidates /\ cand[c].exists /\ cand[c].version \in Nat
        BY <3>5 DEF ActiveWithEmail, TypeInv, TypeOK, CandRow
      <4> QED
        BY <3>2, <3>5, <4>1, ConstantsOK DEF ChosenOK
    <3> QED
      BY <3>1, <3>2, <3>3, <3>4, <3>5
  <2> QED
    BY <1>3, <2>1, <2>2, SaveStep
<1> QED
  BY <1>1, <1>3 DEF ChosenOK

(* The version a worker writes it read in an earlier step.  ChosenOK keeps *)
(* what it read from being newer than the table, the unique constraint     *)
(* from being older; and a candidate made by hand has no history at all    *)
(* before its second version.                                              *)
THEOREM HistoryGapless == Spec => []ResumeHistoryIsGapless
<1> DEFINE IInv == TypeInv /\ ChosenOK /\ ResumeHistoryIsGapless
<1>1. Init => IInv
  <2>1. Init => ChosenOK
    BY DEF Init, ChosenOK, NewCand
  <2>2. ASSUME Init, NEW c \in Candidates
        PROVE  Gapless(c)
    <3>1. {r \in resumes : r.cand = c} = {} /\ cand[c].version = 0 /\ ~cand[c].exists
      BY <2>2 DEF Init, NewCand
    <3>2. 1..0 = {}
      OBVIOUS
    <3> QED
      BY <3>1, <3>2 DEF Gapless
  <2> QED
    BY <2>1, <2>2, TypeInit DEF ResumeHistoryIsGapless, Gapless
<1>2. IInv /\ [Next]_vars => IInv'
  BY TypeStep, ChosenStep, GaplessStep
<1> QED
  BY <1>1, <1>2, PTL DEF Spec
-----------------------------------------------------------------------------
(* Retries are used up by lost races, and every lost race leaves a row.    *)

RowsOf(e) == {r \in resumes : EmailOf[r.file] = e}
Address(a) == EmailOf[app[a].file]
Rows(a) == Cardinality(RowsOf(Address(a)))

RacesOnly ==
  /\ Faults \cap {"database", "broker"} = {}
  /\ Operations \cap {"createCandidate", "updateCandidate"} = {}

(* Candidates come with a row, and rows go by the candidate's address. *)
RowsOK ==
  /\ IsFiniteSet(resumes)
  /\ \A r \in resumes : cand[r.cand].exists /\ cand[r.cand].email = EmailOf[r.file]
  /\ \A c \in Candidates : cand[c].exists => \E r \in resumes : r.cand = c
  /\ \A w \in Workers : pc[w] = "save" /\ chosen[w].cand # NoCandidate =>
       /\ cand[chosen[w].cand].exists
       /\ cand[chosen[w].cand].email = Address(App(w))

(* The rows of its address that a worker's SELECT has taken account of. *)
Known(w) ==
  {r \in RowsOf(Address(App(w))) :
     IF chosen[w].cand = NoCandidate
     THEN Address(App(w)) # NoEmail => r.cand \notin ActiveWithEmail(Address(App(w)))
     ELSE r.cand = chosen[w].cand => r.version <= chosen[w].version}

RacesOK ==
  /\ \A m \in queue : m.retries <= Rows(m.app)
  /\ \A w \in Workers : pc[w] # "idle" => held[w].retries <= Rows(App(w))
  /\ \A w \in Workers : pc[w] = "save" => held[w].retries <= Cardinality(Known(w))
  /\ \A w \in Workers : pc[w] = "raised" => held[w].retries < Rows(App(w))
  /\ \A a \in Apps : <<a, "exhausted">> \in lost =>
       app[a].status # "none" /\ MaxRetries < Rows(a)

RacesInv ==
  TypeInv /\ CarriedOK /\ ChosenOK /\ ResumeHistoryIsGapless /\ RowsOK /\ RacesOK

LEMMA AddressKept ==
  ASSUME TypeInv, [Next]_vars, NEW a \in Apps, app[a].status # "none"
  PROVE  Address(a)' = Address(a)
<1>1. app'[a].file = app[a].file
  BY RowStep, AppliedRow
<1> QED
  BY <1>1 DEF Address

LEMMA EmailKept ==
  ASSUME RacesOnly, TypeInv, [Next]_vars, NEW c \in Candidates, cand[c].exists
  PROVE  /\ cand'[c].exists /\ cand'[c].email = cand[c].email
         /\ cand[c].deleted => cand'[c].deleted
<1>1. CASE Kept(c)
  BY <1>1 DEF Kept, RacesOnly
<1>2. ASSUME NEW w \in Workers, NEW d \in Candidates, Saves(w, d)
      PROVE  /\ cand'[c].exists /\ cand'[c].email = cand[c].email
             /\ cand[c].deleted => cand'[c].deleted
  <2>1. CASE c # d
    BY <1>2, <2>1 DEF Saves, Upsert, TypeInv, TypeOK
  <2>2. CASE c = d
    <3>1. chosen[w].cand # NoCandidate
      BY <1>2, <2>2 DEF Saves, UpsertTarget
    <3>2. cand[c] \in CandRow
      BY DEF TypeInv, TypeOK
    <3>3. cand'[c] = [cand[c] EXCEPT !.file = Resume(App(w)), !.version = chosen[w].version + 1]
      BY <1>2, <2>2, <3>1 DEF Saves, Upsert, TypeInv, TypeOK
    <3> QED
      BY <3>2, <3>3 DEF CandRow
  <2> QED
    BY <2>1, <2>2
<1> QED
  BY <1>1, <1>2, CandStep DEF Made, RacesOnly

(* The row a save adds, and the candidate it belongs to. *)
LEMMA SavedRow ==
  ASSUME RacesOnly, TypeInv, CarriedOK, RowsOK, [Next]_vars,
         NEW w \in Workers, NEW c \in Candidates, Saves(w, c)
  PROVE  \E r \in resumes' :
           /\ resumes' = resumes \cup {r} /\ r.cand = c
           /\ cand'[c].exists /\ cand'[c].email = EmailOf[r.file]
<1> DEFINE f == Resume(App(w))
           r == [cand |-> c, version |-> chosen[w].version + 1, file |-> f]
<1>1. resumes' = resumes \cup {r}
  BY DEF Saves, Upsert
<1>4. r.cand = c /\ r.file = f
  OBVIOUS
<1> HIDE DEF r
<1>2. CASE chosen[w].cand # NoCandidate
  <2>1. cand[c].exists /\ cand[c].email = EmailOf[f]
    BY <1>2 DEF Saves, UpsertTarget, RowsOK, Address, Resume
  <2>2. cand'[c].exists /\ cand'[c].email = EmailOf[f]
    BY <2>1, EmailKept
  <2> QED
    BY <1>1, <1>4, <2>2
<1>3. CASE chosen[w].cand = NoCandidate
  <2>1. cand'[c].exists /\ cand'[c].email = EmailOf[f]
    BY <1>3 DEF Saves, Upsert, TypeInv, TypeOK
  <2> QED
    BY <1>1, <1>4, <2>1
<1> QED
  BY <1>2, <1>3

LEMMA RowsStep ==
  RacesOnly /\ TypeInv /\ CarriedOK /\ RowsOK /\ [Next]_vars => RowsOK'
<1> SUFFICES ASSUME RacesOnly, TypeInv, CarriedOK, RowsOK, [Next]_vars
             PROVE  RowsOK'
  OBVIOUS
<1>1. \/ resumes' = resumes /\ \A c \in Candidates : cand'[c].exists = cand[c].exists
      \/ \E c \in Candidates, r \in resumes' :
           /\ resumes' = resumes \cup {r} /\ r.cand = c
           /\ cand'[c].exists /\ cand'[c].email = EmailOf[r.file]
           /\ \A d \in Candidates \ {c} : cand'[d] = cand[d]
  <2>1. ASSUME NEW w \in Workers, NEW c \in Candidates, Saves(w, c)
        PROVE  \A d \in Candidates \ {c} : cand'[d] = cand[d]
    BY <2>1 DEF Saves, Upsert, TypeInv, TypeOK
  <2> QED
    BY <2>1, CandStep, SavedRow DEF Kept, Made, RacesOnly
<1>2. \A r \in resumes : r.cand \in Candidates
  BY DEF TypeInv, TypeOK, ResumeRow
<1>3. IsFiniteSet(resumes')
  BY <1>1, FS_AddElement DEF RowsOK
<1>4. ASSUME NEW r \in resumes'
      PROVE  cand'[r.cand].exists /\ cand'[r.cand].email = EmailOf[r.file]
  <2>1. CASE r \in resumes
    BY <1>2, <2>1, EmailKept DEF RowsOK
  <2>2. CASE r \notin resumes
    BY <1>1, <1>4, <2>2
  <2> QED
    BY <2>1, <2>2
<1>5. ASSUME NEW c \in Candidates, cand'[c].exists
      PROVE  \E r \in resumes' : r.cand = c
  BY <1>1, <1>5 DEF RowsOK
<1>6. ASSUME NEW w \in Workers, pc'[w] = "save", chosen'[w].cand # NoCandidate
      PROVE  /\ cand'[chosen'[w].cand].exists
             /\ cand'[chosen'[w].cand].email = Address(App(w))'
  <2>1. pc[w] # "idle" /\ App(w)' = App(w) /\ App(w) \in Apps
    BY <1>6, SaveStep, BusyWorker DEF App
  <2>2. Address(App(w))' = Address(App(w))
    BY <2>1, AddressKept DEF CarriedOK, Address
  <2>3. CASE pc[w] = "save" /\ chosen'[w] = chosen[w]
    <3>1. chosen[w].cand \in Candidates
      BY <1>6, <2>3 DEF TypeInv, TypeOK
    <3> QED
      BY <1>6, <2>2, <2>3, <3>1, EmailKept DEF RowsOK
  <2>4. CASE SelectCandidate(w)
    <3>1. \/ chosen'[w] = NothingChosen
          \/ \E c \in ActiveWithEmail(EmailOf[Resume(App(w))]) :
               chosen'[w] = [cand |-> c, version |-> cand[c].version]
      BY <2>4 DEF SelectCandidate, TypeInv, TypeOK
    <3>2. chosen'[w].cand \in ActiveWithEmail(Address(App(w)))
      <4>1. chosen'[w] # NothingChosen
        BY <1>6 DEF NothingChosen
      <4>2. EmailOf[Resume(App(w))] = Address(App(w))
        BY DEF Address, Resume
      <4>3. \E c \in ActiveWithEmail(Address(App(w))) :
              chosen'[w] = [cand |-> c, version |-> cand[c].version]
        BY <3>1, <4>1, <4>2
      <4> QED
        BY ONLY <4>3
    <3>3. cand' = cand
      BY <2>4 DEF SelectCandidate, tables
    <3> QED
      BY <2>2, <3>2, <3>3 DEF ActiveWithEmail
  <2> QED
    BY <1>6, <2>3, <2>4, SaveStep
<1> QED
  BY <1>3, <1>4, <1>5, <1>6 DEF RowsOK

LEMMA RowsGrow ==
  ASSUME TypeInv, RowsOK, RowsOK', [Next]_vars, NEW a \in Apps, app[a].status # "none"
  PROVE  /\ Rows(a) \in Nat /\ Rows(a)' \in Nat /\ Rows(a) <= Rows(a)'
<1>1. RowsOf(Address(a)) \subseteq RowsOf(Address(a))'
  BY ResumesGrow, AddressKept DEF RowsOf
<1>2. /\ RowsOf(Address(a)) \subseteq resumes /\ RowsOf(Address(a))' \subseteq resumes'
      /\ IsFiniteSet(resumes) /\ IsFiniteSet(resumes')
  BY DEF RowsOf, RowsOK
<1>3. IsFiniteSet(RowsOf(Address(a))) /\ IsFiniteSet(RowsOf(Address(a))')
  BY <1>2, FS_Subset
<1> QED
  BY <1>1, <1>3, FS_Subset, FS_CardinalityType DEF Rows

(* What a worker knows, it goes on knowing until it has saved; and its     *)
(* SELECT takes account of every row.                                      *)
LEMMA KnownStep ==
  ASSUME RacesOnly, TypeInv, CarriedOK, ChosenOK, ResumeHistoryIsGapless, RowsOK,
         [Next]_vars, NEW w \in Workers, pc'[w] = "save"
  PROVE  /\ SelectCandidate(w) => RowsOf(Address(App(w))) \subseteq Known(w)'
         /\ ~SelectCandidate(w) => pc[w] = "save" /\ Known(w) \subseteq Known(w)'
<1>1. pc[w] # "idle" /\ App(w)' = App(w) /\ App(w) \in Apps
  BY SaveStep, BusyWorker DEF App
<1>0. PICK e : e = Address(App(w))
  OBVIOUS
<1>2. Address(App(w))' = e
  BY <1>0, <1>1, AddressKept DEF CarriedOK, Address
<1>3. ASSUME NEW r \in RowsOf(e), SelectCandidate(w)
      PROVE  r \in Known(w)'
  <2>1. cand' = cand /\ resumes' = resumes
    BY <1>3 DEF SelectCandidate, tables
  <2>2. r \in RowsOf(Address(App(w)))'
    BY <1>2, <2>1 DEF RowsOf
  <2>3. CASE chosen'[w] = NothingChosen /\ (e = NoEmail \/ ActiveWithEmail(e) = {})
    <3>1. e # NoEmail => r.cand \notin ActiveWithEmail(e)'
      BY <2>1, <2>3 DEF ActiveWithEmail
    <3> QED
      BY <1>2, <2>2, <2>3, <3>1 DEF Known, NothingChosen
  <2>4. ASSUME NEW c \in ActiveWithEmail(e),
               chosen'[w] = [cand |-> c, version |-> cand[c].version]
        PROVE  r \in Known(w)'
    <3>1. c \in Candidates /\ c # NoCandidate
      BY ConstantsOK DEF ActiveWithEmail
    <3>2. cand[c].version \in Nat
      BY <3>1 DEF TypeInv, TypeOK, CandRow
    <3>3. r.cand = c => r.version \in 1..cand[c].version \/ r.version \in 2..cand[c].version
      <4>1. r \in resumes
        BY DEF RowsOf
      <4>2. {s.version : s \in {t \in resumes : t.cand = c}}
              \in {1..cand[c].version, 2..cand[c].version}
        BY <3>1 DEF ResumeHistoryIsGapless
      <4> QED
        BY ONLY <4>1, <4>2
    <3>4. r.cand = c => r.version <= cand[c].version
      BY <3>2, <3>3
    <3> QED
      BY <2>2, <2>4, <3>1, <3>4 DEF Known
  <2> QED
    BY <1>0, <1>3, <2>3, <2>4 DEF SelectCandidate, TypeInv, TypeOK, Address, Resume
<1>4. ASSUME NEW r \in Known(w), pc[w] = "save", chosen'[w] = chosen[w]
      PROVE  r \in Known(w)'
  <2>1. r \in RowsOf(Address(App(w)))'
    <3>1. r \in resumes /\ EmailOf[r.file] = e
      BY <1>0 DEF Known, RowsOf
    <3> QED
      BY <1>2, <3>1, ResumesGrow DEF RowsOf
  <2>2. CASE chosen[w].cand # NoCandidate
    BY <1>4, <2>1, <2>2 DEF Known
  <2>3. CASE chosen[w].cand = NoCandidate
    <3>1. r \in resumes /\ r.cand \in Candidates /\ EmailOf[r.file] = e
      BY <1>0 DEF Known, RowsOf, TypeInv, TypeOK, ResumeRow
    <3>2. cand[r.cand].exists /\ cand[r.cand].email = e
      BY <3>1 DEF RowsOK
    <3>3. e # NoEmail => cand[r.cand].deleted
      BY <1>0, <2>3, <3>1, <3>2 DEF Known, ActiveWithEmail
    <3>4. e # NoEmail => r.cand \notin ActiveWithEmail(e)'
      BY <3>1, <3>2, <3>3, EmailKept DEF ActiveWithEmail
    <3> QED
      BY <1>2, <1>4, <2>1, <2>3, <3>4 DEF Known
  <2> QED
    BY <2>2, <2>3
<1> QED
  BY <1>0, <1>3, <1>4, SaveStep

(* Where the next messages, and a raised exception, come from. *)
LEMMA RetryStep ==
  ASSUME TypeInv, [Next]_vars, NEW m \in queue'
  PROVE  \/ m \in queue
         \/ m.retries = 0
         \/ \E w \in Workers : pc[w] # "idle" /\ m = held[w]
         \/ \E w \in Workers : /\ pc[w] = "raised" /\ held[w].retries < MaxRetries
                               /\ m = [held[w] EXCEPT !.retries = @ + 1]
<1>1. ASSUME NEW w \in Workers, TaskStep(w)
      PROVE  queue' = queue \/ RetryTask(w)
  BY <1>1 DEF TaskStep, FetchResume, ExtractSucceeds, ExtractTimesOut, ExtractRejects,
     CheckDuplicate, SelectCandidate, SaveConflicts, SaveRefused, SaveRolledBack,
     SaveApplied, MarkFailed, PublishScore, EmbedAndFinish, RetriesExhausted
<1>2. ASSUME NEW w \in Workers, Fault(w) \/ \E n \in queue : Deliver(w, n)
      PROVE  queue' \subseteq queue \/ (pc[w] # "idle" /\ queue' = queue \cup {held[w]})
  BY <1>2 DEF Fault, DatabaseError, PublishFails, RetryRejected, ChildLost, WorkerCrash,
     Deliver
<1>3. ASSUME Handlers
      PROVE  queue' = queue \/ \E x : x.retries = 0 /\ queue' = queue \cup {x}
  <2>1. ASSUME NEW rows \in outbox, NEW a \in rows, Enqueue(rows, a)
        PROVE  \E x : x.retries = 0 /\ queue' = queue \cup {x}
    <3>1. [app |-> a, copy |-> 0, retries |-> 0].retries = 0
      OBVIOUS
    <3> QED
      BY <2>1, <3>1 DEF Enqueue
  <2>2. ASSUME NEW a \in Apps, FixStuckParsing(a)
        PROVE  \E x : x.retries = 0 /\ queue' = queue \cup {x}
    <3> DEFINE x == [app |-> a, copy |-> requeued[a] + 1, retries |-> 0]
    <3>1. x.retries = 0 /\ queue' = queue \cup {x}
      BY <2>2 DEF FixStuckParsing
    <3> QED
      BY <3>1
  <2> QED
    BY <1>3, <2>1, <2>2 DEF Handlers, CreateApplications, EnqueueFails, LoadForEdit,
       CommitEdit, DeleteApplication, CreateCandidate, UpdateCandidate, DeleteCandidate,
       DeleteJob
<1> QED
  BY <1>1, <1>2, <1>3 DEF Next, vars, RetryTask

LEMMA RaisedStep ==
  ASSUME RacesOnly, TypeInv, [Next]_vars, NEW w \in Workers, pc'[w] = "raised"
  PROVE  pc[w] = "raised" \/ SaveConflicts(w)
<1>1. ASSUME NEW v \in Workers, TaskStep(v)
      PROVE  pc[w] = "raised" \/ SaveConflicts(w)
  BY <1>1 DEF TypeInv, TypeOK, TaskStep, FetchResume, ExtractSucceeds, ExtractTimesOut,
     ExtractRejects, CheckDuplicate, SelectCandidate, SaveConflicts, SaveRefused,
     SaveRolledBack, SaveApplied, MarkFailed, PublishScore, EmbedAndFinish, RetryTask,
     RetriesExhausted, Goto, Release
<1>2. ASSUME NEW v \in Workers, Fault(v) \/ \E m \in queue : Deliver(v, m)
      PROVE  pc[w] = "raised"
  BY <1>2 DEF RacesOnly, TypeInv, TypeOK, Fault, DatabaseError, PublishFails, RetryRejected,
     ChildLost, WorkerCrash, Deliver, Goto, Release
<1>3. ASSUME Handlers
      PROVE  pc' = pc
  BY <1>3 DEF Handlers, CreateApplications, Enqueue, EnqueueFails, LoadForEdit, CommitEdit,
     DeleteApplication, FixStuckParsing, CreateCandidate, UpdateCandidate, DeleteCandidate,
     DeleteJob, workerVars
<1> QED
  BY <1>1, <1>2, <1>3 DEF Next, vars, workerVars

(* What is newly given up is a raised task at its last retry. *)
LEMMA ExhaustedStep ==
  ASSUME TypeInv, [Next]_vars, NEW a \in Apps, <<a, "exhausted">> \in lost'
  PROVE  \/ <<a, "exhausted">> \in lost
         \/ \E w \in Workers : RetriesExhausted(w) /\ App(w) = a
<1>1. ASSUME NEW w \in Workers, TaskStep(w)
      PROVE  lost' = lost \/ RetriesExhausted(w)
  BY <1>1 DEF TaskStep, FetchResume, ExtractSucceeds, ExtractTimesOut,
     ExtractRejects, CheckDuplicate, SelectCandidate, SaveConflicts, SaveRefused,
     SaveRolledBack, SaveApplied, MarkFailed, PublishScore, EmbedAndFinish, RetryTask
<1>2. ASSUME NEW w \in Workers, Fault(w) \/ \E m \in queue : Deliver(w, m)
      PROVE  <<a, "exhausted">> \in lost
  BY <1>2 DEF Fault, DatabaseError, PublishFails, RetryRejected, ChildLost, WorkerCrash,
     Deliver
<1>4. ASSUME NEW rows \in outbox, EnqueueFails(rows)
      PROVE  <<a, "exhausted">> \in lost
  <2>1. <<a, "exhausted">> \in lost \cup {<<b, "unpublished">> : b \in rows}
    BY <1>4 DEF EnqueueFails
  <2> QED
    BY ONLY <2>1
<1>3. ASSUME Handlers
      PROVE  <<a, "exhausted">> \in lost
  BY <1>3, <1>4 DEF Handlers, CreateApplications, Enqueue, LoadForEdit, CommitEdit,
     DeleteApplication, FixStuckParsing, CreateCandidate, UpdateCandidate, DeleteCandidate,
     DeleteJob
<1> QED
  BY <1>1, <1>2, <1>3 DEF Next, vars, RetriesExhausted

(* The rival whose insert or update breaks the flush has left a row that   *)
(* the worker's SELECT did not see.                                        *)
LEMMA ConflictCosts ==
  ASSUME TypeInv, ChosenOK, RowsOK, RacesOK, NEW w \in Workers, SaveConflicts(w)
  PROVE  held[w].retries < Rows(App(w))
<1>1. pc[w] = "save" /\ FlushConflict(chosen[w], Resume(App(w)))
  BY DEF SaveConflicts, Goto
<1>2. held[w] \in Message /\ held[w].retries \in Nat
  BY <1>1, BusyWorker, ConstantsOK DEF Message
<1> DEFINE K == Known(w)
           R == RowsOf(Address(App(w)))
<1>3. K \subseteq R /\ R \subseteq resumes /\ IsFiniteSet(resumes)
  BY DEF Known, RowsOf, RowsOK
<1>4. \E r \in R : r \notin K
  <2>1. CASE chosen[w].cand # NoCandidate
    <3>1. PICK r \in resumes : r.cand = chosen[w].cand /\ r.version = chosen[w].version + 1
      BY <1>1, <2>1 DEF FlushConflict
    <3>2. EmailOf[r.file] = Address(App(w))
      BY <1>1, <2>1, <3>1 DEF RowsOK
    <3>3. chosen[w].version \in Nat
      BY DEF TypeInv, TypeOK
    <3> QED
      BY <2>1, <3>1, <3>2, <3>3 DEF RowsOf, Known
  <2>2. CASE chosen[w].cand = NoCandidate
    <3>1. Address(App(w)) # NoEmail /\ ActiveWithEmail(Address(App(w))) # {}
      BY <1>1, <2>2 DEF FlushConflict, Address, Resume
    <3>2. PICK c \in ActiveWithEmail(Address(App(w))) : TRUE
      BY <3>1
    <3>3. c \in Candidates /\ cand[c].exists /\ cand[c].email = Address(App(w))
      BY DEF ActiveWithEmail
    <3>4. PICK r \in resumes : r.cand = c
      BY <3>3 DEF RowsOK
    <3>5. EmailOf[r.file] = Address(App(w))
      BY <3>3, <3>4 DEF RowsOK
    <3> QED
      BY <2>2, <3>1, <3>2, <3>4, <3>5 DEF RowsOf, Known
  <2> QED
    BY <2>1, <2>2
<1>5. held[w].retries <= Cardinality(K)
  BY <1>1 DEF RacesOK
<1> HIDE DEF K, R
<1>6. IsFiniteSet(R) /\ IsFiniteSet(K) /\ Cardinality(K) \in Nat /\ Cardinality(R) \in Nat
  BY <1>3, FS_Subset, FS_CardinalityType
<1>7. Cardinality(K) < Cardinality(R)
  BY <1>3, <1>4, <1>6, FS_Subset
<1>8. held[w].retries < Cardinality(R)
  BY <1>2, <1>5, <1>6, <1>7
<1> QED
  BY <1>8 DEF R, Rows

LEMMA RacesStep == RacesOnly /\ RacesInv /\ [Next]_vars => RacesInv'
<1> SUFFICES ASSUME RacesOnly, RacesInv, [Next]_vars
             PROVE  RacesInv'
  OBVIOUS
<1> USE DEF RacesInv
<1>1. TypeInv' /\ CarriedOK' /\ ChosenOK' /\ ResumeHistoryIsGapless' /\ RowsOK'
  BY TypeStep, CarriedStep, ChosenStep, GaplessStep, RowsStep
<1>2. ASSUME NEW a \in Apps, app[a].status # "none"
      PROVE  Rows(a) \in Nat /\ Rows(a)' \in Nat /\ Rows(a) <= Rows(a)'
  BY <1>1, <1>2, RowsGrow
<1>3. ASSUME NEW w \in Workers, pc[w] # "idle"
      PROVE  /\ App(w) \in Apps /\ app[App(w)].status # "none"
             /\ held[w].retries \in Nat
             /\ held[w].retries <= Rows(App(w))
             /\ pc[w] = "raised" => held[w].retries < Rows(App(w))
  <2>1. held[w] \in Message
    BY <1>3, BusyWorker
  <2> QED
    BY <1>3, <2>1, BusyWorker, ConstantsOK DEF Message, CarriedOK, RacesOK
<1>4. ASSUME NEW m \in queue
      PROVE  m.app \in Apps /\ app[m.app].status # "none" /\ m.retries \in Nat
  <2>1. m \in Message
    BY DEF TypeInv, TypeOK
  <2> QED
    BY <2>1, ConstantsOK DEF Message, CarriedOK
<1>5. ASSUME NEW m \in queue'
      PROVE  m.retries <= Rows(m.app)'
  <2>1. CASE m \in queue
    <3>1. m.retries <= Rows(m.app)
      BY <2>1 DEF RacesOK
    <3>2. Rows(m.app) \in Nat /\ Rows(m.app)' \in Nat /\ Rows(m.app) <= Rows(m.app)'
      BY <1>2, <1>4, <2>1
    <3> QED
      BY <1>4, <2>1, <3>1, <3>2
  <2>2. CASE m.retries = 0
    <3>1. m.app \in Apps
      BY <1>1, <1>5 DEF TypeInv, TypeOK, Message
    <3>2. Rows(m.app)' \in Nat
      <4>1. RowsOf(Address(m.app))' \subseteq resumes' /\ IsFiniteSet(resumes')
        BY <1>1 DEF RowsOf, RowsOK
      <4> QED
        BY <4>1, FS_Subset, FS_CardinalityType DEF Rows
    <3> QED
      BY <2>2, <3>2
  <2>3. ASSUME NEW w \in Workers, pc[w] # "idle", m = held[w]
        PROVE  m.retries <= Rows(m.app)'
    <3>1. m.app = App(w) /\ m.retries \in Nat /\ m.retries <= Rows(App(w))
      BY <1>3, <2>3 DEF App
    <3>2. Rows(m.app) \in Nat /\ Rows(m.app)' \in Nat /\ Rows(m.app) <= Rows(m.app)'
      BY <1>2, <1>3, <2>3, <3>1
    <3> QED
      BY <3>1, <3>2
  <2>4. ASSUME NEW w \in Workers, pc[w] = "raised",
               m = [held[w] EXCEPT !.retries = @ + 1]
        PROVE  m.retries <= Rows(m.app)'
    <3>1. held[w] \in Message
      BY <2>4, BusyWorker
    <3>2. m.app = App(w) /\ m.retries = held[w].retries + 1
      BY <2>4, <3>1 DEF Message, App
    <3>3. held[w].retries \in Nat /\ held[w].retries < Rows(App(w))
      BY <1>3, <2>4
    <3>4. Rows(m.app) \in Nat /\ Rows(m.app)' \in Nat /\ Rows(m.app) <= Rows(m.app)'
      BY <1>2, <1>3, <2>4, <3>2
    <3> QED
      BY <3>2, <3>3, <3>4
  <2> QED
    BY <2>1, <2>2, <2>3, <2>4, RetryStep
<1>6. ASSUME NEW w \in Workers, pc'[w] # "idle"
      PROVE  held'[w].retries <= Rows(App(w))'
  <2>1. CASE pc[w] # "idle" /\ held'[w] = held[w]
    <3>1. PICK a \in Apps : a = App(w) /\ app[a].status # "none"
      BY <1>3, <2>1
    <3>2. Rows(App(w)) = Rows(a) /\ Rows(App(w))' = Rows(a)'
      BY <2>1, <3>1 DEF Rows, Address, RowsOf, App
    <3>3. Rows(a) \in Nat /\ Rows(a)' \in Nat /\ Rows(a) <= Rows(a)'
      BY <1>2, <3>1
    <3> QED
      BY <1>3, <2>1, <3>2, <3>3
  <2>2. ASSUME NEW m \in queue, Deliver(w, m)
        PROVE  held'[w].retries <= Rows(App(w))'
    <3>1. held'[w] = m /\ app' = app /\ resumes' = resumes
      BY <2>2 DEF Deliver, TypeInv, TypeOK, tables
    <3>2. m.retries <= Rows(m.app)
      BY <2>2 DEF RacesOK
    <3> QED
      BY <3>1, <3>2 DEF Rows, Address, RowsOf, App
  <2> QED
    BY <1>6, <2>1, <2>2, WorkerStep
<1>7. ASSUME NEW w \in Workers, pc'[w] = "save"
      PROVE  held'[w].retries <= Cardinality(Known(w)')
  <2>1. pc[w] # "idle" /\ held'[w] = held[w]
    BY <1>7, SaveStep
  <2>2. Known(w)' \subseteq resumes' /\ IsFiniteSet(resumes')
    BY <1>1 DEF Known, RowsOf, RowsOK
  <2>3. IsFiniteSet(Known(w)') /\ Cardinality(Known(w)') \in Nat
    BY <2>2, FS_Subset, FS_CardinalityType
  <2>4. \E K : /\ K \subseteq Known(w)' /\ held[w].retries <= Cardinality(K)
    <3>1. CASE SelectCandidate(w)
      BY <1>3, <1>7, <2>1, <3>1, KnownStep DEF Rows
    <3>2. CASE ~SelectCandidate(w)
      BY <1>7, <3>2, KnownStep DEF RacesOK
    <3> QED
      BY <3>1, <3>2
  <2>5. PICK K : K \subseteq Known(w)' /\ held[w].retries <= Cardinality(K)
    BY <2>4
  <2>6. Cardinality(K) \in Nat /\ Cardinality(K) <= Cardinality(Known(w)')
    BY <2>3, <2>5, FS_Subset, FS_CardinalityType
  <2> QED
    BY <1>3, <2>1, <2>3, <2>5, <2>6
<1>8. ASSUME NEW w \in Workers, pc'[w] = "raised"
      PROVE  held'[w].retries < Rows(App(w))'
  <2>1. pc[w] # "idle" /\ held'[w] = held[w]
    <3>1. pc[w] # "idle"
      BY <1>8, RaisedStep DEF SaveConflicts, Goto
    <3>2. \A m \in queue : ~Deliver(w, m)
      BY <3>1 DEF Deliver, Goto
    <3> QED
      BY <1>8, <3>1, <3>2, WorkerStep
  <2>2. held[w].retries < Rows(App(w))
    BY <1>3, <1>8, <2>1, RaisedStep, ConflictCosts
  <2>3. PICK a \in Apps : a = App(w) /\ app[a].status # "none"
    BY <1>3, <2>1
  <2>4. Rows(App(w)) = Rows(a) /\ Rows(App(w))' = Rows(a)'
    BY <2>1, <2>3 DEF Rows, Address, RowsOf, App
  <2>5. Rows(a) \in Nat /\ Rows(a)' \in Nat /\ Rows(a) <= Rows(a)'
    BY <1>2, <2>3
  <2> QED
    BY <1>3, <2>1, <2>2, <2>4, <2>5
<1>9. ASSUME NEW a \in Apps, <<a, "exhausted">> \in lost'
      PROVE  app'[a].status # "none" /\ MaxRetries < Rows(a)'
  <2>1. app[a].status # "none" /\ MaxRetries < Rows(a)
    BY <1>3, <1>9, ExhaustedStep DEF RacesOK, RetriesExhausted
  <2>2. Rows(a) \in Nat /\ Rows(a)' \in Nat /\ Rows(a) <= Rows(a)'
    BY <1>2, <2>1
  <2> QED
    BY <2>1, <2>2, StatusMovesOn, ConstantsOK
<1> QED
  BY <1>1, <1>5, <1>6, <1>7, <1>8, <1>9 DEF RacesOK

(* A task has at most as many retries behind it as there are rows in the   *)
(* history of its person that it has read (RacesOK): a race is lost to a   *)
(* row that the worker had not read.                                       *)
THEOREM RacesExhaust == Spec => []ExhaustedByRaces
<1>1. CASE RacesOnly
  <2>1. Init => RacesInv
    <3>1. Init => CarriedOK /\ ChosenOK /\ RacesOK
      BY DEF Init, CarriedOK, ChosenOK, RacesOK, NewCand
    <3>2. Init => RowsOK
      BY FS_EmptySet DEF Init, RowsOK, NewCand
    <3>3. ASSUME Init, NEW c \in Candidates
          PROVE  Gapless(c)
      <4>1. {r \in resumes : r.cand = c} = {} /\ cand[c].version = 0
        BY <3>3 DEF Init, NewCand
      <4>2. 1..0 = {}
        OBVIOUS
      <4> QED
        BY <4>1, <4>2 DEF Gapless
    <3> QED
      BY <3>1, <3>2, <3>3, TypeInit DEF RacesInv, ResumeHistoryIsGapless, Gapless
  <2>2. RacesInv /\ [Next]_vars => RacesInv'
    BY <1>1, RacesStep
  <2>3. RacesInv => ExhaustedByRaces
    <3>1. ASSUME RacesInv, NEW a \in Apps, <<a, "exhausted">> \in lost
          PROVE  MaxRetries < Rows(a) /\ Rows(a) \in Nat
      <4>1. RowsOf(Address(a)) \subseteq resumes /\ IsFiniteSet(resumes)
        BY <3>1 DEF RacesInv, RowsOf, RowsOK
      <4>2. Rows(a) \in Nat
        BY <4>1, FS_Subset, FS_CardinalityType DEF Rows
      <4> QED
        BY <3>1, <4>2 DEF RacesInv, RacesOK
    <3> QED
      BY <3>1, ConstantsOK DEF ExhaustedByRaces, Rows, RowsOf, Address
  <2> QED
    BY <2>1, <2>2, <2>3, PTL DEF Spec
<1>2. CASE ~RacesOnly
  <2>1. ExhaustedByRaces
    BY <1>2 DEF ExhaustedByRaces, RacesOnly
  <2> QED
    BY <2>1, PTL
<1> QED
  BY <1>1, <1>2
=============================================================================
