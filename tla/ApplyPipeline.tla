--------------------------- MODULE ApplyPipeline ---------------------------
(***************************************************************************)
(* The apply-to-job pipeline: the request handlers that create, move and   *)
(* delete applications, the Celery broker between them and the workers,    *)
(* and the task that parses a resume, upserts its candidate and resolves   *)
(* the application.                                                        *)
(*                                                                         *)
(* PostgreSQL runs at READ COMMITTED, so what a handler or a task reads is *)
(* a committed value that may be stale by the time it commits.  A task     *)
(* therefore keeps what it read (seen, chosen) in variables of its own,    *)
(* and only its commit changes the tables.                                 *)
(***************************************************************************)
EXTENDS Naturals, FiniteSets

CONSTANTS
  Apps,          \* primary keys of job_applications
  Jobs,          \* primary keys of jobs
  Files,         \* object keys in the MinIO bucket
  Emails,        \* normalised e-mail addresses
  People,        \* identities as embedding, name and phone tell them apart
  Candidates,    \* primary keys of candidates
  Workers,       \* Celery worker processes (prefetch 1: one task each)
  Recruiters,    \* concurrent status changes by recruiters
  Stages,        \* statuses a recruiter may set; "applied" is one of them
  NoEmail,       \* the resume names no e-mail address (a phone identifies it)
  NoCandidate,   \* NULL in job_applications.candidate_id
  NoApp,         \* a recruiter's slot with no request in progress
  EmailOf,       \* file -> the e-mail the parser extracts from it
  PersonOf,      \* file -> the person it describes
  MaxRetries,    \* max_retries of apply_pipeline_task
  MaxRequeues,   \* bound: requeues by scripts/fix_stuck_parsing.py, per row
  MaxCrashes,    \* bound: worker crashes in a behaviour
  Operations,    \* bound: what users do besides submitting applications
  Faults         \* the failures the environment may inject

ASSUME ConstantsOK ==
  /\ Jobs # {} /\ Files # {} /\ People # {}
  /\ "applied" \in Stages
  /\ Stages \cap {"none", "parsing", "parse_failed"} = {}
  /\ NoCandidate \notin Candidates /\ NoApp \notin Apps
  /\ NoEmail \notin Emails
  /\ EmailOf \in [Files -> Emails \cup {NoEmail}]
  /\ PersonOf \in [Files -> People]
  /\ MaxRetries \in Nat /\ MaxRequeues \in Nat /\ MaxCrashes \in Nat
  /\ Operations \subseteq {"edit", "deleteApplication", "createCandidate",
                          "updateCandidate", "deleteCandidate", "deleteJob"}
  /\ Faults \subseteq {"database", "broker", "childLost", "workerCrash"}

VARIABLES
  app,        \* the table job_applications
  cand,       \* the table candidates
  resumes,    \* the table candidate_resumes: [cand, version, file]
  liveJobs,   \* jobs whose deleted_at is NULL
  store,      \* the objects in MinIO
  outbox,     \* per handler between its commit and its last .delay: the rows
              \* it still has to enqueue
  queue,      \* apply_pipeline messages in the broker (ETA retries included)
  requeued,   \* how often the operator's script requeued each application
  pc,         \* where each worker is in apply_pipeline_task
  held,       \* the unacknowledged message each worker runs
  seen,       \* the application as the worker's session loaded it
  chosen,     \* what the worker's SELECT by e-mail returned
  edit,       \* per recruiter slot: the status change between load and commit
  scoreJobs,  \* score_candidate_for_job requests published so far
  lost,       \* <<application, cause>>: its task ended without resolving it
  crashes     \* worker crashes so far (only bounds the model)

vars == <<app, cand, resumes, liveJobs, store, outbox, queue, requeued, pc, held,
          seen, chosen, edit, scoreJobs, lost, crashes>>

workerVars == <<pc, held, seen, chosen>>
tables == <<app, cand, resumes>>
apiVars == <<liveJobs, outbox, requeued, edit>>
-----------------------------------------------------------------------------
(* Types *)

Statuses == {"none", "parsing", "parse_failed"} \cup Stages

\* A row of job_applications; status "none" is a row not inserted yet.
AppRow == [status: Statuses, job: Jobs, file: Files, deleted: BOOLEAN,
           cand: Candidates \cup {NoCandidate}, allowDuplicate: BOOLEAN]

\* A row of candidates; person is what its embedding, name and phone say, from
\* the first resume or by hand; version is current_resume_version.
CandRow == [exists: BOOLEAN, email: Emails \cup {NoEmail}, person: People,
            file: Files, version: Nat, embedded: BOOLEAN, deleted: BOOLEAN]

ResumeRow == [cand: Candidates, version: Nat, file: Files]

\* copy tells the original message (0) from those of the operator's script.
Message == [app: Apps, copy: 0..MaxRequeues, retries: 0..MaxRetries]
NoMessage == [app |-> NoApp, copy |-> 0, retries |-> 0]

NothingSeen == [status |-> "none", cand |-> NoCandidate]
NothingChosen == [cand |-> NoCandidate, version |-> 0]
NoEdit == [app |-> NoApp, seen |-> "none", to |-> "applied"]

Steps == {"idle", "fetch", "extract", "dedup", "select", "save", "failing",
          "publish", "embed", "raised"}

Causes == {"unpublished", "exhausted", "rejected", "childLost"}

TypeOK ==
  /\ app \in [Apps -> AppRow]
  /\ cand \in [Candidates -> CandRow]
  /\ resumes \subseteq ResumeRow
  /\ liveJobs \subseteq Jobs
  /\ store \subseteq Files
  /\ outbox \subseteq SUBSET Apps
  /\ queue \subseteq Message
  /\ requeued \in [Apps -> 0..MaxRequeues]
  /\ pc \in [Workers -> Steps]
  /\ held \in [Workers -> Message \cup {NoMessage}]
  /\ seen \in [Workers -> [status: Statuses, cand: Candidates \cup {NoCandidate}]]
  /\ chosen \in [Workers -> [cand: Candidates \cup {NoCandidate}, version: Nat]]
  /\ edit \in [Recruiters -> [app: Apps \cup {NoApp}, seen: Statuses, to: Stages]]
  /\ scoreJobs \subseteq Candidates \X Jobs
  /\ lost \subseteq Apps \X Causes
  /\ crashes \in 0..MaxCrashes
-----------------------------------------------------------------------------
(* What the queries return *)

Unresolved == {"none", "parsing", "parse_failed"}

\* SQLAlchemy writes a column only if its new value differs from the loaded
\* one; otherwise the row keeps whatever has been committed meanwhile.
Written(loaded, new, current) == IF new = loaded THEN current ELSE new

\* Candidates a SELECT by this e-mail, deleted_at IS NULL, returns.
ActiveWithEmail(e) ==
  {c \in Candidates : cand[c].exists /\ ~cand[c].deleted /\ cand[c].email = e}

\* find_similar_candidate and the name and phone checks after it.
Lookalikes(f) ==
  {c \in Candidates : cand[c].exists /\ ~cand[c].deleted /\ cand[c].embedded
                      /\ cand[c].person = PersonOf[f]}

\* Another live application of this candidate to the same job.
LiveRivals(a, c) ==
  {b \in Apps \ {a} : app[b].cand = c /\ app[b].job = app[a].job
                      /\ ~app[b].deleted}

\* uq_job_applications_candidate_job, which has no deleted_at condition.
UniquePairBroken(a, c) ==
  \E b \in Apps \ {a} : app[b].cand = c /\ app[b].job = app[a].job

\* Mutants: no uq (candidate_id, version); the same without candidate_id.
NoVersionConstraint(ch, f) ==
  ch.cand = NoCandidate /\ EmailOf[f] # NoEmail /\ ActiveWithEmail(EmailOf[f]) # {}

VersionOfAnyone(ch, f) == \E r \in resumes : r.version = ch.version + 1

\* What flushing the upsert runs into: uq (candidate_id, version) when another
\* worker has added that version, or uq_candidates_email_active when another
\* has inserted that e-mail.
FlushConflict(ch, f) ==
  IF ch.cand # NoCandidate
  THEN \E r \in resumes : r.cand = ch.cand /\ r.version = ch.version + 1
  ELSE EmailOf[f] # NoEmail /\ ActiveWithEmail(EmailOf[f]) # {}

Resume(a) == app[a].file
App(w) == held[w].app

NewApp == [status |-> "none", job |-> CHOOSE j \in Jobs : TRUE,
           file |-> CHOOSE f \in Files : TRUE, deleted |-> FALSE,
           cand |-> NoCandidate, allowDuplicate |-> FALSE]

NewCand == [exists |-> FALSE, email |-> NoEmail, person |-> CHOOSE p \in People : TRUE,
            file |-> CHOOSE f \in Files : TRUE, version |-> 0,
            embedded |-> FALSE, deleted |-> FALSE]

Init ==
  /\ app = [a \in Apps |-> NewApp]
  /\ cand = [c \in Candidates |-> NewCand]
  /\ resumes = {}
  /\ liveJobs = Jobs
  /\ store = Files
  /\ outbox = {}
  /\ queue = {}
  /\ requeued = [a \in Apps |-> 0]
  /\ pc = [w \in Workers |-> "idle"]
  /\ held = [w \in Workers |-> NoMessage]
  /\ seen = [w \in Workers |-> NothingSeen]
  /\ chosen = [w \in Workers |-> NothingChosen]
  /\ edit = [r \in Recruiters |-> NoEdit]
  /\ scoreJobs = {}
  /\ lost = {}
  /\ crashes = 0
-----------------------------------------------------------------------------
(* Request handlers *)

\* create_application (one row) and bulk_create_applications (several): insert
\* the rows as "parsing" and commit.  The .delay calls come after the commit.
CreateApplications(new, j, dup) ==
  /\ j \in liveJobs
  /\ new # {} /\ \A a \in new : app[a].status = "none"
  /\ \E file \in [new -> Files] :
       app' = [a \in Apps |->
                 IF a \in new
                 THEN [app[a] EXCEPT !.status = "parsing", !.job = j,
                                     !.file = file[a], !.allowDuplicate = dup]
                 ELSE app[a]]
  /\ outbox' = outbox \cup {new}
  /\ UNCHANGED <<cand, resumes, liveJobs, store, queue, requeued, workerVars, edit,
                 scoreJobs, lost, crashes>>

\* Mutant: the row is still due after its .delay, which is made again.
EnqueueAgain(rows, a) ==
  /\ rows \in outbox /\ a \in rows
  /\ queue' = queue \cup {[app |-> a, copy |-> 0, retries |-> 0]}
  /\ UNCHANGED <<tables, apiVars, store, workerVars, scoreJobs, lost, crashes>>

\* apply_pipeline_task.delay for one of the rows the handler committed.
Enqueue(rows, a) ==
  /\ rows \in outbox /\ a \in rows
  /\ outbox' = (outbox \ {rows}) \cup ({rows \ {a}} \ {{}})
  /\ queue' = queue \cup {[app |-> a, copy |-> 0, retries |-> 0]}
  /\ UNCHANGED <<tables, liveJobs, store, requeued, workerVars, edit, scoreJobs,
                 lost, crashes>>

\* .delay raises, or the API process dies first: the handler ends there, and
\* none of its remaining rows is ever enqueued.
EnqueueFails(rows) ==
  /\ "broker" \in Faults
  /\ rows \in outbox
  /\ outbox' = outbox \ {rows}
  /\ lost' = lost \cup {<<a, "unpublished">> : a \in rows}
  /\ UNCHANGED <<tables, liveJobs, store, queue, requeued, workerVars, edit,
                 scoreJobs, crashes>>

\* Mutant: only "parsing" is guarded, as if a failed parse could be overridden.
LoadFailedForEdit(r, a, to) ==
  /\ "edit" \in Operations
  /\ edit[r] = NoEdit
  /\ ~app[a].deleted
  /\ app[a].status \notin {"none", "parsing"}
  /\ edit' = [edit EXCEPT ![r] = [app |-> a, seen |-> app[a].status, to |-> to]]
  /\ UNCHANGED <<tables, liveJobs, store, outbox, queue, requeued, workerVars,
                 scoreJobs, lost, crashes>>

\* update_application_status, and transition_application_stage (whose table of
\* allowed moves only narrows "to"), up to the guard on the row they loaded.
LoadForEdit(r, a, to) ==
  /\ "edit" \in Operations
  /\ edit[r] = NoEdit
  /\ ~app[a].deleted
  /\ app[a].status \notin Unresolved
  /\ edit' = [edit EXCEPT ![r] = [app |-> a, seen |-> app[a].status, to |-> to]]
  /\ UNCHANGED <<tables, liveJobs, store, outbox, queue, requeued, workerVars,
                 scoreJobs, lost, crashes>>

\* The commit of that handler.
CommitEdit(r) ==
  /\ edit[r] # NoEdit
  /\ LET e == edit[r] IN
       app' = [app EXCEPT ![e.app].status = Written(e.seen, e.to, @)]
  /\ edit' = [edit EXCEPT ![r] = NoEdit]
  /\ UNCHANGED <<cand, resumes, liveJobs, store, outbox, queue, requeued, workerVars,
                 scoreJobs, lost, crashes>>

\* delete_application: a soft delete, in any status.
DeleteApplication(a) ==
  /\ "deleteApplication" \in Operations
  /\ app[a].status # "none" /\ ~app[a].deleted
  /\ app' = [app EXCEPT ![a].deleted = TRUE]
  /\ UNCHANGED <<cand, resumes, apiVars, store, queue, workerVars, scoreJobs, lost,
                 crashes>>

\* create_candidate: a row made by hand has version 1 and a file, but no row in
\* candidate_resumes.  The e-mail is looked up first; the index decides.
CreateCandidate(c, e, p, f) ==
  /\ "createCandidate" \in Operations
  /\ ~cand[c].exists
  /\ e # NoEmail => ActiveWithEmail(e) = {}
  /\ cand' = [cand EXCEPT ![c] =
       [exists |-> TRUE, email |-> e, person |-> p, file |-> f, version |-> 1,
        embedded |-> FALSE, deleted |-> FALSE]]
  /\ UNCHANGED <<app, resumes, apiVars, store, queue, workerVars, scoreJobs, lost,
                 crashes>>

\* update_candidate, as far as the pipeline tells candidates apart.  (A row
\* deleted between its load and its commit is one nobody looks up any more.)
UpdateCandidate(c, e, p) ==
  /\ "updateCandidate" \in Operations
  /\ cand[c].exists /\ ~cand[c].deleted
  /\ e = cand[c].email \/ (e # NoEmail /\ ActiveWithEmail(e) = {})
  /\ cand' = [cand EXCEPT ![c].email = e, ![c].person = p]
  /\ UNCHANGED <<app, resumes, apiVars, store, queue, workerVars, scoreJobs, lost,
                 crashes>>

\* delete_candidate: a soft delete, which frees the e-mail address.
DeleteCandidate(c) ==
  /\ "deleteCandidate" \in Operations
  /\ cand[c].exists /\ ~cand[c].deleted
  /\ cand' = [cand EXCEPT ![c].deleted = TRUE]
  /\ UNCHANGED <<app, resumes, apiVars, store, queue, workerVars, scoreJobs, lost,
                 crashes>>

\* delete_job: a soft delete; its applications stay as they are.
DeleteJob(j) ==
  /\ "deleteJob" \in Operations
  /\ j \in liveJobs
  /\ liveJobs' = liveJobs \ {j}
  /\ UNCHANGED <<tables, outbox, requeued, edit, store, queue, workerVars, scoreJobs,
                 lost, crashes>>

\* scripts/fix_stuck_parsing.py --fix: enqueues every live row it finds in
\* "parsing" once more.  The status it assigns is the one it loaded, so the
\* commit writes none.
FixStuckParsing(a) ==
  /\ app[a].status = "parsing" /\ ~app[a].deleted
  /\ requeued[a] < MaxRequeues
  /\ requeued' = [requeued EXCEPT ![a] = @ + 1]
  /\ queue' = queue \cup {[app |-> a, copy |-> requeued[a] + 1, retries |-> 0]}
  /\ UNCHANGED <<tables, liveJobs, store, outbox, workerVars, edit, scoreJobs, lost,
                 crashes>>
-----------------------------------------------------------------------------
(* The task: apply_pipeline_task around run_apply_pipeline *)

\* The message is acknowledged (acks_late) and the task's session closed.
Release(w) ==
  /\ pc' = [pc EXCEPT ![w] = "idle"]
  /\ held' = [held EXCEPT ![w] = NoMessage]
  /\ seen' = [seen EXCEPT ![w] = NothingSeen]
  /\ chosen' = [chosen EXCEPT ![w] = NothingChosen]

Goto(w, from, to) ==
  /\ pc[w] = from
  /\ pc' = [pc EXCEPT ![w] = to]

\* A free worker takes a message and loads the application by primary key,
\* whatever its status and deleted_at.
Deliver(w, m) ==
  /\ m \in queue
  /\ Goto(w, "idle", "fetch")
  /\ queue' = queue \ {m}
  /\ held' = [held EXCEPT ![w] = m]
  /\ seen' = [seen EXCEPT ![w] = [status |-> app[m.app].status,
                                  cand |-> app[m.app].cand]]
  /\ UNCHANGED <<tables, apiVars, store, chosen, scoreJobs, lost, crashes>>

\* Mutant: a deleted job makes the pipeline return without marking the row.
SkipDeletedJob(w) ==
  /\ Goto(w, "fetch", IF app[App(w)].job \in liveJobs THEN "extract" ELSE "embed")
  /\ UNCHANGED <<tables, apiVars, store, queue, held, seen, chosen, scoreJobs, lost,
                 crashes>>

\* parse_and_validate up to the object read: 404 if the job is deleted or the
\* object is gone.
FetchResume(w) ==
  /\ Goto(w, "fetch", IF app[App(w)].job \in liveJobs /\ Resume(App(w)) \in store
                      THEN "extract" ELSE "failing")
  /\ UNCHANGED <<tables, apiVars, store, queue, held, seen, chosen, scoreJobs, lost,
                 crashes>>

\* The LLM returns a candidate with an identity.
ExtractSucceeds(w) ==
  /\ Goto(w, "extract", IF app[App(w)].allowDuplicate THEN "select" ELSE "dedup")
  /\ UNCHANGED <<tables, apiVars, store, queue, held, seen, chosen, scoreJobs, lost,
                 crashes>>

\* A timeout (504), or text extraction raises: the object stays.
ExtractTimesOut(w) ==
  /\ Goto(w, "extract", "failing")
  /\ UNCHANGED <<tables, apiVars, store, queue, held, seen, chosen, scoreJobs, lost,
                 crashes>>

\* Unusable LLM output (502), any other LLM error (500) or a resume without an
\* identity (422): delete_file runs before the exception.
ExtractRejects(w) ==
  /\ Goto(w, "extract", "failing")
  /\ store' = store \ {Resume(App(w))}
  /\ UNCHANGED <<tables, apiVars, queue, held, seen, chosen, scoreJobs, lost, crashes>>

\* _check_duplicate.  Its own failure counts as "no duplicate".
CheckDuplicate(w) ==
  /\ \/ Goto(w, "dedup", "failing") /\ Lookalikes(Resume(App(w))) # {}
     \/ Goto(w, "dedup", "select")
  /\ UNCHANGED <<tables, apiVars, store, queue, held, seen, chosen, scoreJobs, lost,
                 crashes>>

\* _upsert_candidate's SELECT by e-mail, skipped for a resume without one.  The
\* flush comes right after it, but no lock keeps another worker out between.
SelectCandidate(w) ==
  LET found == ActiveWithEmail(EmailOf[Resume(App(w))]) IN
  /\ Goto(w, "select", "save")
  /\ IF EmailOf[Resume(App(w))] = NoEmail \/ found = {}
     THEN chosen' = [chosen EXCEPT ![w] = NothingChosen]
     ELSE \E c \in found :
            chosen' = [chosen EXCEPT ![w] = [cand |-> c, version |-> cand[c].version]]
  /\ UNCHANGED <<tables, apiVars, store, queue, held, seen, scoreJobs, lost, crashes>>

\* The upsert the session has flushed: a new version of the chosen candidate's
\* resume, or a new candidate with version 1.
UpsertTarget(w, c) ==
  IF chosen[w].cand # NoCandidate THEN c = chosen[w].cand ELSE ~cand[c].exists

\* Mutant: an existing candidate's file is replaced without a history row.
ReplaceResume(w, c) ==
  LET f == Resume(App(w)) IN
  /\ cand' = [cand EXCEPT ![c] =
       [@ EXCEPT !.exists = TRUE, !.email = EmailOf[f], !.person = PersonOf[f],
                 !.file = f, !.version = 1, !.deleted = FALSE]]
  /\ resumes' = IF chosen[w].cand # NoCandidate THEN resumes
                ELSE resumes \cup {[cand |-> c, version |-> 1, file |-> f]}

Upsert(w, c) ==
  LET f == Resume(App(w))
      v == chosen[w].version + 1
  IN  /\ cand' = [cand EXCEPT ![c] =
           IF chosen[w].cand # NoCandidate
           THEN [@ EXCEPT !.file = f, !.version = v]
           ELSE [exists |-> TRUE, email |-> EmailOf[f], person |-> PersonOf[f],
                 file |-> f, version |-> 1, embedded |-> FALSE, deleted |-> FALSE]]
      /\ resumes' = resumes \cup {[cand |-> c, version |-> v, file |-> f]}

\* From the flush of the upsert to the commit the transaction holds the row
\* and index locks any rival needs, so the four outcomes are one step each.

\* The flush fails, the session must be rolled back first, and _mark_failed's
\* commit raises PendingRollbackError out of run_apply_pipeline.
SaveConflicts(w) ==
  /\ Goto(w, "save", "raised")
  /\ FlushConflict(chosen[w], Resume(App(w)))
  /\ UNCHANGED <<tables, apiVars, store, queue, held, seen, chosen, scoreJobs, lost,
                 crashes>>

\* The pre-check finds another live application: _mark_failed commits, and the
\* flushed upsert with it.
SaveRefused(w, c) ==
  /\ Goto(w, "save", "embed")
  /\ ~FlushConflict(chosen[w], Resume(App(w)))
  /\ UpsertTarget(w, c)
  /\ LiveRivals(App(w), c) # {}
  /\ Upsert(w, c)
  /\ app' = [app EXCEPT ![App(w)].status = Written(seen[w].status, "parse_failed", @)]
  /\ UNCHANGED <<apiVars, store, queue, held, seen, chosen, scoreJobs, lost, crashes>>

\* The commit breaks the unique pair with a deleted application: everything is
\* rolled back, and _mark_failed writes the (expired) row unconditionally.
SaveRolledBack(w, c) ==
  /\ Goto(w, "save", "embed")
  /\ ~FlushConflict(chosen[w], Resume(App(w)))
  /\ UpsertTarget(w, c)
  /\ LiveRivals(App(w), c) = {}
  /\ UniquePairBroken(App(w), Written(seen[w].cand, c, app[App(w)].cand))
  /\ app' = [app EXCEPT ![App(w)].status = "parse_failed"]
  /\ UNCHANGED <<cand, resumes, apiVars, store, queue, held, seen, chosen, scoreJobs,
                 lost, crashes>>

\* The commit that attaches the candidate and flips the status.
SaveApplied(w, c) ==
  LET a == App(w)
      attached == Written(seen[w].cand, c, app[a].cand)
  IN  /\ Goto(w, "save", "publish")
      /\ ~FlushConflict(chosen[w], Resume(a))
      /\ UpsertTarget(w, c)
      /\ LiveRivals(a, c) = {}
      /\ ~UniquePairBroken(a, attached)
      /\ Upsert(w, c)
      /\ app' = [app EXCEPT ![a].status = Written(seen[w].status, "applied", @),
                            ![a].cand = attached]
      /\ chosen' = [chosen EXCEPT ![w].cand = c]
      /\ UNCHANGED <<apiVars, store, queue, held, seen, scoreJobs, lost, crashes>>

\* _mark_failed for a parse failure or a duplicate.
MarkFailed(w) ==
  /\ Goto(w, "failing", "embed")
  /\ app' = [app EXCEPT ![App(w)].status = Written(seen[w].status, "parse_failed", @)]
  /\ UNCHANGED <<cand, resumes, apiVars, store, queue, held, seen, chosen, scoreJobs,
                 lost, crashes>>

\* Mutant: the candidate to score is read from the application as first loaded.
PublishStale(w) ==
  /\ Goto(w, "publish", "embed")
  /\ scoreJobs' = scoreJobs \cup ({<<seen[w].cand, app[App(w)].job>>}
                                  \cap (Candidates \X Jobs))
  /\ UNCHANGED <<tables, apiVars, store, queue, held, seen, chosen, lost, crashes>>

\* score_candidate_for_job_task.delay, after the commit.
PublishScore(w) ==
  /\ Goto(w, "publish", "embed")
  /\ scoreJobs' = scoreJobs \cup {<<chosen[w].cand, app[App(w)].job>>}
  /\ UNCHANGED <<tables, apiVars, store, queue, held, seen, chosen, lost, crashes>>

\* Mutant: an error of the embedding fails the task, which is retried.
EmbedOrRaise(w) ==
  /\ pc[w] = "embed"
  /\ pc' = [pc EXCEPT ![w] = "raised"]
  /\ UNCHANGED <<tables, apiVars, store, queue, held, seen, chosen, scoreJobs, lost,
                 crashes>>

\* _embed_candidate_from_application in a second session, its errors only
\* logged; then the task ends and its message is acknowledged.
EmbedAndFinish(w) ==
  /\ pc[w] = "embed"
  /\ \/ cand' = cand
     \/ /\ app[App(w)].cand # NoCandidate
        /\ ~cand[app[App(w)].cand].embedded
        /\ cand' = [cand EXCEPT ![app[App(w)].cand].embedded = TRUE]
  /\ Release(w)
  /\ UNCHANGED <<app, resumes, apiVars, store, queue, scoreJobs, lost, crashes>>
-----------------------------------------------------------------------------
(* Exceptions, retries and crashes *)

\* A database call raises something no handler of the pipeline commits past.
DatabaseError(w) ==
  /\ "database" \in Faults
  /\ pc[w] \in {"fetch", "dedup", "select", "save", "failing"}
  /\ pc' = [pc EXCEPT ![w] = "raised"]
  /\ UNCHANGED <<tables, apiVars, store, queue, held, seen, chosen, scoreJobs, lost,
                 crashes>>

\* The score request cannot be published: run_apply_pipeline raises although
\* its commit is done.
PublishFails(w) ==
  /\ "broker" \in Faults
  /\ Goto(w, "publish", "raised")
  /\ UNCHANGED <<tables, apiVars, store, queue, held, seen, chosen, scoreJobs, lost,
                 crashes>>

\* Mutant: no limit on the retries.
RetryForEver(w) ==
  /\ pc[w] = "raised"
  /\ queue' = queue \cup {[held[w] EXCEPT !.retries = @ + 1]}
  /\ Release(w)
  /\ UNCHANGED <<tables, apiVars, store, scoreJobs, lost, crashes>>

\* self.retry publishes the message again and the current one is acknowledged.
RetryTask(w) ==
  /\ pc[w] = "raised"
  /\ held[w].retries < MaxRetries
  /\ queue' = queue \cup {[held[w] EXCEPT !.retries = @ + 1]}
  /\ Release(w)
  /\ UNCHANGED <<tables, apiVars, store, scoreJobs, lost, crashes>>

\* At the limit self.retry(exc=exc) re-raises exc, not MaxRetriesExceededError,
\* so the task's own handler for that error is passed by; the message is
\* acknowledged as failed.
RetriesExhausted(w) ==
  /\ pc[w] = "raised"
  /\ held[w].retries = MaxRetries
  /\ lost' = lost \cup {<<App(w), "exhausted">>}
  /\ Release(w)
  /\ UNCHANGED <<tables, apiVars, store, queue, scoreJobs, crashes>>

\* self.retry cannot publish: Celery rejects the message without requeueing.
RetryRejected(w) ==
  /\ "broker" \in Faults
  /\ pc[w] = "raised"
  /\ held[w].retries < MaxRetries
  /\ lost' = lost \cup {<<App(w), "rejected">>}
  /\ Release(w)
  /\ UNCHANGED <<tables, apiVars, store, queue, scoreJobs, crashes>>

\* The pool child dies (out of memory, say).  With task_acks_late but without
\* task_reject_on_worker_lost the parent acknowledges the message.
ChildLost(w) ==
  /\ "childLost" \in Faults
  /\ pc[w] # "idle"
  /\ lost' = lost \cup {<<App(w), "childLost">>}
  /\ Release(w)
  /\ UNCHANGED <<tables, apiVars, store, queue, scoreJobs, crashes>>

\* Mutant: the message is acknowledged when it is taken (no task_acks_late).
CrashAfterEarlyAck(w) ==
  /\ "workerCrash" \in Faults
  /\ crashes < MaxCrashes
  /\ pc[w] # "idle"
  /\ crashes' = crashes + 1
  /\ Release(w)
  /\ UNCHANGED <<tables, apiVars, store, queue, scoreJobs, lost>>

\* The whole worker dies: the broker restores the unacknowledged message.
WorkerCrash(w) ==
  /\ "workerCrash" \in Faults
  /\ crashes < MaxCrashes
  /\ pc[w] # "idle"
  /\ queue' = queue \cup {held[w]}
  /\ crashes' = crashes + 1
  /\ Release(w)
  /\ UNCHANGED <<tables, apiVars, store, scoreJobs, lost>>
-----------------------------------------------------------------------------
TaskStep(w) ==
  \/ FetchResume(w) \/ ExtractSucceeds(w) \/ ExtractTimesOut(w) \/ ExtractRejects(w)
  \/ CheckDuplicate(w) \/ SelectCandidate(w) \/ SaveConflicts(w)
  \/ \E c \in Candidates : SaveRefused(w, c) \/ SaveRolledBack(w, c) \/ SaveApplied(w, c)
  \/ MarkFailed(w) \/ PublishScore(w) \/ EmbedAndFinish(w)
  \/ RetryTask(w) \/ RetriesExhausted(w)

Fault(w) ==
  \/ DatabaseError(w) \/ PublishFails(w) \/ RetryRejected(w) \/ ChildLost(w)
  \/ WorkerCrash(w)

Handlers ==
  \/ \E new \in SUBSET Apps, j \in Jobs, dup \in BOOLEAN : CreateApplications(new, j, dup)
  \/ \E rows \in outbox : EnqueueFails(rows) \/ \E a \in rows : Enqueue(rows, a)
  \/ \E r \in Recruiters, a \in Apps, to \in Stages : LoadForEdit(r, a, to)
  \/ \E r \in Recruiters : CommitEdit(r)
  \/ \E a \in Apps : DeleteApplication(a) \/ FixStuckParsing(a)
  \/ \E c \in Candidates :
       \/ DeleteCandidate(c)
       \/ \E e \in Emails \cup {NoEmail}, p \in People :
            UpdateCandidate(c, e, p) \/ \E f \in Files : CreateCandidate(c, e, p, f)
  \/ \E j \in Jobs : DeleteJob(j)

Next ==
  \/ Handlers
  \/ \E w \in Workers :
       TaskStep(w) \/ Fault(w) \/ \E m \in queue : Deliver(w, m)

Spec == Init /\ [][Next]_vars

\* A handler that is running goes on, a worker that holds a task goes on with
\* it (the LLM client has a timeout), and idle workers consume the queue.
Fairness ==
  /\ WF_vars(\E rows \in outbox : \E a \in rows : Enqueue(rows, a))
  /\ WF_vars(\E w \in Workers, m \in queue : Deliver(w, m))
  /\ \A w \in Workers : WF_vars(TaskStep(w))

FairSpec == Spec /\ Fairness
-----------------------------------------------------------------------------
(* Safety, under every fault *)

\* Concurrent, retried and repeated upserts leave each candidate a gapless
\* resume history that ends in its current version and file.  It begins with
\* version 1, or with version 2 if the candidate was made by hand: that first
\* file is in no history (create_candidate adds no candidate_resumes row).
ResumeHistoryIsGapless ==
  \A c \in Candidates :
    LET history == {r \in resumes : r.cand = c} IN
    /\ {r.version : r \in history} \in {1..cand[c].version, 2..cand[c].version}
    /\ \A r, s \in history : r.version = s.version => r = s
    /\ history # {} =>
         [cand |-> c, version |-> cand[c].version, file |-> cand[c].file] \in resumes

\* Retries do not record a resume again: whatever runs overlap and fail, the
\* history has no more rows than applications were submitted, requeued by the
\* operator or delivered again after a crash.  (run_apply_pipeline raises only
\* before its commit, as long as the score request can be published.)
ResumesRecordedOnce ==
  "broker" \notin Faults =>
    Cardinality(resumes) <= Cardinality({a \in Apps : app[a].status # "none"})
                            + Cardinality({x \in Apps \X (1..MaxRequeues) :
                                             x[2] <= requeued[x[1]]})
                            + crashes

\* An application recruiters can see and move has a candidate, and that
\* candidate's history holds the very resume the application was made with.
\* A recruiter's stale commit must not lift an application that never parsed.
StagedIsBacked ==
  \A a \in Apps : app[a].status \in Stages =>
    /\ app[a].cand # NoCandidate
    /\ \E r \in resumes : r.cand = app[a].cand /\ r.file = app[a].file

Resolving == {"fetch", "extract", "dedup", "select", "save", "failing", "raised"}

\* Someone is still going to resolve the application: a handler about to
\* enqueue it, a message, or a worker that has not committed yet.
Tracked(a) ==
  \/ \E rows \in outbox : a \in rows
  \/ \E m \in queue : m.app = a
  \/ \E w \in Workers : pc[w] \in Resolving /\ App(w) = a

\* An application stays in "parsing" only while someone is going to resolve
\* it, or after one of the four losses the code does not recover from.  In
\* particular no crash of a worker, no failed parse and no rollback strands it.
ParsingIsAccountedFor ==
  \A a \in Apps : app[a].status = "parsing" =>
    Tracked(a) \/ \E why \in Causes : <<a, why>> \in lost

\* Without a failing database or broker, retries are used up by lost races
\* only, and every lost race is another row in the history of the person: with
\* MaxRetries rows or fewer no application of theirs stays in "parsing".
\* (Candidates made or edited by hand can cost a retry without adding a row.)
ExhaustedByRaces ==
  Faults \cap {"database", "broker"} = {}
    /\ Operations \cap {"createCandidate", "updateCandidate"} = {} =>
      \A a \in Apps : <<a, "exhausted">> \in lost =>
        Cardinality({r \in resumes : EmailOf[r.file] = EmailOf[app[a].file]})
          > MaxRetries

\* What the handler for MaxRetriesExceededError in apply_pipeline_task is for:
\* an application whose last retry failed does not stay in "parsing".
ExhaustedIsMarkedFailed ==
  \A a \in Apps : <<a, "exhausted">> \in lost => app[a].status # "parsing"
-----------------------------------------------------------------------------
(* Action properties and liveness *)

\* As long as no delivery is repeated, the pipeline leaves an application
\* alone once it has resolved it: the status only takes values recruiters
\* choose, and the candidate stays the one attached first.
ResolvedBelongsToRecruiters ==
  [][\A a \in Apps : app[a].status \notin {"none", "parsing"} =>
       /\ app'[a].cand = app[a].cand
       /\ \/ app'[a].status = app[a].status
          \/ /\ app[a].status \in Stages
             /\ \E r \in Recruiters : edit[r].app = a /\ edit[r].to = app'[a].status]_vars

\* A submitted application does not stay in "parsing" for ever, unless the
\* retries of its task are used up.
ParsingEnds ==
  \A a \in Apps :
    app[a].status = "parsing" ~> app[a].status # "parsing" \/ <<a, "exhausted">> \in lost

\* Every application the pipeline attaches gets its score requested.
AppliedIsScored ==
  \A a \in Apps :
    app[a].cand # NoCandidate ~> <<app[a].cand, app[a].job>> \in scoreJobs

Lifecycle == INSTANCE ApplicationLifecycle WITH
  status <- [a \in Apps |-> app[a].status],
  job <- [a \in Apps |-> app[a].job],
  candidate <- [a \in Apps |-> app[a].cand],
  stranded <- {a \in Apps : <<a, "exhausted">> \in lost}

\* Without faults and requeues the pipeline implements the abstract
\* specification, its fairness included.
ImplementsLifecycle == Lifecycle!FairSpec
=============================================================================
