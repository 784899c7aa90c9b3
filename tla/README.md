# AI-Base Recruitment: a TLA+ verification project

AI-Base Recruitment is an applicant tracking system: a FastAPI service over
PostgreSQL, Celery workers behind a Redis broker, resumes in MinIO, candidates
mirrored in Elasticsearch, and an LLM that reads resumes and scores candidates.
This directory holds TLA+ models of its core logic, TLC configurations that
check them, and proofs checked by TLAPS.

    tlc -workers 2 -config PipelineFaults.cfg MCApplyPipeline.tla
    tlapm AccountsProofs.tla

`PROJECT.json` lists components, runs, mutants, the source lines behind each
definition, hazards, findings and theorems.

## 1. Inventory

| Component | State it keeps | Operations | What is hard | What makes it correct |
|---|---|---|---|---|
| **Apply pipeline** (`applications/`, `worker/tasks.py`, `parser/service.py`) | `job_applications`, `candidates`, `candidate_resumes`; the broker queue; objects in MinIO | create one or many applications, enqueue, parse, check for duplicates, upsert the candidate, attach it or mark the application failed, request the score, embed the candidate, retry | two workers and the API share rows; a task holds the application it loaded across LLM calls of seconds, and commits without looking again; lost races cost retries; messages are redelivered or lost; publishing happens after commits | each resume recorded once, in a history without gaps; what recruiters see is backed by a candidate and its resume; no application silently stuck in `parsing`; resolved applications are left to recruiters |
| **Candidates** (`candidates/`) | `candidates`, bookmarks, photo | create, edit, delete (soft), search, avatar | the e-mail index is partial; creation, edits and deletion race the pipeline; a candidate made by hand has no recorded resume | as above; search leaves out no candidate for having been deleted that was not |
| **Jobs** (`jobs/`) | `jobs`, cached decision tags | create, edit, delete (soft), leaderboard, LLM tiebreaker | jobs vanish under running pipelines; order of tied candidates | a deleted job fails its pending applications |
| **Stage board** (`applications/router.py`, `evaluations/`, `analytics/`) | status, interview time, evaluations, business events | PATCH status, stage transition, evaluations, AI rating, time-to-hire, funnel | two endpoints and the pipeline write one status under different rules; check-then-commit; metrics read the audit trail | no change is undone by one that has not seen it; hires are counted; nobody is rejected twice in sequence |
| **Scoring and comparison** (`worker/scoring.py`, `comparisons/`, `jobs/router.py`) | `candidate_job_scores` with an input hash, comparisons and their results | get-or-compute, upsert, compare, analyze, shortlist, tiebreaker | request and worker compute the same pair; rows are locked in whatever order the LLM answers; a page is made of two reads | the same input is asked about again only in an overlap; a ranking shows scores that are on record; tiers fit the seats |
| **Search index** (`search/`) | the Elasticsearch index | index, remove, backfill, search with SQL fallback | tasks overtake each other; errors are swallowed | the index converges to the table; the list is never blank |
| **Accounts** (`users/`, `auth*.py`) | users, refresh and reset tokens, invites | register by invite, log in, rotate, log out, reset, roles, deactivation, SSO | tokens are read before they are revoked; administrators act on each other | an invite makes one account; a session ends at logout; an administrator remains |
| **Watchers, notifications, scheduled alerts** (`watchers/`, `notifications/`, `worker/tasks.py`) | watchers, notifications, markers in `business_events` | watch, fan-out, reminders, SLA alerts, digests | marker before delivery; overlapping runs of beat tasks; e-mail sent before it is recorded; a rollback expires the session; digests as far apart as they look back | reminders and digests repeat only in an overlap; a recipient is forgotten only by a failure; a digest leaves out only what is too old for it |
| **Audit** (`audit/`) | `audit_log`, `business_events` | record in the caller's transaction, purge | the purge deletes what metrics read | an event exists exactly for committed changes |
| Notes, GDPR export, PDF/Excel export, storage upload, LLM clients, web client | | | | not modelled, see section 7 |

How they interact: handlers and tasks share only the tables, and only through
short transactions at READ COMMITTED; handlers talk to workers by publishing
messages after their commit; tasks publish further tasks (score requests,
e-mails); Celery beat publishes the scheduled ones.  Nothing else is called
back.

## 2. Modules

| Module | Models | Run on | Proved in |
|---|---|---|---|
| `ApplyPipeline` | the pipeline with its handlers, broker, workers and faults | `MCApplyPipeline` | `ApplyPipelineProofs` (types; nothing is stranded), `ApplyTablesProofs` (what the tables hold) |
| `ApplicationLifecycle` | abstract specification: what becomes of a submitted application | as a property of `ApplyPipeline` | `LifecycleProofs` (the pipeline implements it) |
| `SearchIndex` | the Elasticsearch copy of the candidates: handlers, tasks, backfill, faults, the list | `MCSearchIndex` | `SearchIndexProofs` |
| `StageBoard` | what recruiters and runs of the pipeline do to applications and evaluations; the trail, its purge, time-to-hire, rejection mails, the AI rating | `MCStageBoard` | `StageBoardProofs` |
| `Notifications` | watchers, `fan_out`, digests | through `ScheduledAlerts` | `AlertsProofs` |
| `ScheduledAlerts` | extends `Notifications` by the tasks of the beat: reminders, SLA alerts and their markers | `MCScheduledAlerts` | `AlertsProofs` |
| `Accounts` | accounts, invites, refresh and reset tokens, single sign-on | `MCAccounts` | `AccountsProofs` |
| `JobScoring` | the score cache, comparisons, analyses, shortlists, tiebreakers, the job's skill lists | `MCJobScoring` | `JobScoringProofs` |

`Notifications` and `ScheduledAlerts` are composed by EXTENDS: a run of the beat
ends each of its items in `fan_out`, and the handlers call the same operators.
The other modules share tables but not windows: each looks at the races of its
own sessions, and takes what the others do as far as it notices it: in
`StageBoard` a run of the pipeline is one more session with a beginning and a
commit (`BeginPipeline`, `CommitPipeline`), in `SearchIndex` it is
`PipelineCreates`; `DeleteCandidate` and `DeleteJob` appear wherever they are
noticed.

Two conventions are common to all.  A request is split where its session has
read something and not yet committed: `Begin...` loads, `Commit...` writes.  And
SQLAlchemy writes a column only if its value differs from the loaded one, which
every module with such a window models (`Written`, `Flushed`, `CommitUpdate`);
writing back the whole row is the natural mutant.

An operator marked `Mutant:` is a plausible bug of the definition that follows
it; the runs show that the property named in `PROJECT.json` tells the two apart.

### ApplyPipeline

`app`, `cand` and `resumes` are the three tables; `liveJobs` and `store` are the
rows and objects the parser looks up; `outbox` is what a handler has committed
but not yet enqueued; `queue` holds the messages (a retry's countdown is
abstracted: it may be taken at any time).  Each worker has a program counter
`pc`, the unacknowledged message `held`, and the values its session read:
`seen` (the application as loaded at the start) and `chosen` (the SELECT by
e-mail).  The first is the older: the LLM works between the load of the
application and the commit, for seconds.  The SELECT and the flush that uses it
are neighbours, but no lock lies between them, so that a rival's commit can.

A step of the model is one transaction, one message, or one call whose outcome
matters:

| Action | Code |
|---|---|
| `CreateApplications`, `Enqueue`, `EnqueueFails` | `create_application`, `bulk_create_applications`: insert and commit, then one `.delay` per row, which may fail or be cut short |
| `LoadForEdit`, `CommitEdit` | PATCH status and the stage endpoint: guard on the loaded row, then commit |
| `CreateCandidate`, `UpdateCandidate` | POST and PATCH of `/candidates`: a candidate with a file and version 1, but no row in `candidate_resumes` |
| `DeleteApplication`, `DeleteCandidate`, `DeleteJob` | the soft deletes |
| `FixStuckParsing` | `scripts/fix_stuck_parsing.py --fix` |
| `Deliver` ... `EmbedAndFinish` | `apply_pipeline_task` and `run_apply_pipeline`, in the order of the code |
| `SaveConflicts`, `SaveRefused`, `SaveRolledBack`, `SaveApplied` | the four outcomes of upsert, pre-check and commit |
| `DatabaseError`, `PublishFails`, `RetryTask`, `RetriesExhausted`, `RetryRejected` | exceptions out of the pipeline and Celery's retry |
| `ChildLost`, `WorkerCrash` | the pool child dies (message acknowledged), the worker dies (message redelivered) |

Three facts about libraries shape it.  SQLAlchemy writes a column only if its
value differs from the loaded one (`Written`): a stale "no change" does not
overwrite a newer value.  From the flush of the upsert on, the transaction holds
the locks a rival would need, so upsert, pre-check and commit are one step.  And
Celery's `retry(exc=...)` re-raises the exception itself at the limit.

Data is reduced to what the properties tell apart: a file determines an e-mail
address (or none) and a person; a person stands for what embedding, name and
phone can recognise.  Error texts, scores, sources, audit events and
notifications of the handlers are left out.

### ApplicationLifecycle

`Submit`, `Attach`, `Refuse`, `Strand`, `Move` on `status`, `job`, `candidate`
and `stranded`: an application is resolved once, exclusively, and then belongs to
the recruiters; every submission is resolved or stranded in the end, as races
alone can use its retries up.  `ApplyPipeline` implements it (`Lifecycle`) by
reading the functions off `app` and `stranded` off `lost`.

### SearchIndex

A row of `candidates` is a version, one more at each commit that writes it, and
whether it is deleted; a document is a snapshot of a row.  `calls` holds what a
handler has committed and not yet published, `tasks` what is in the broker, both
as bags, since two messages for one candidate are equal.  A worker that loads a
row keeps it in `batch` until it writes it: that is the window of the races.

| Action | Code |
|---|---|
| `CreateCandidate`, `LoadForUpdate`/`CommitUpdate`, `DeleteCandidate` | the handlers of `candidates/router.py`; the PATCH reads and commits in two steps |
| `PipelineCreates`, `ScriptDeletes` | writers that publish nothing: the upsert of the pipeline, `scripts/reparse_candidates.py` |
| `Publish`, `PublishFails` | `_enqueue_es_index`, `_enqueue_es_remove`, which swallow every exception |
| `LoadRow`, `WriteDoc`, `WriteRefused` | `es_index_candidate_task` and `index_candidate` |
| `RemoveDoc`, `RemoveRefused` | `remove_candidate`, with its failure on a missing document |
| `StartBackfill`, then `WriteDoc` per row | `backfill_all_candidates` |
| `RetryTask`, `GiveUp` | a failure to load the row, the only one `self.retry` sees |
| `ChildLost`, `WorkerCrash` | as in `ApplyPipeline` |
| `Hits`, `Listed` | the list without criteria, with its fallback to SQL |

`lost` is a history variable: each loss the code swallows is recorded with its
cause, and forgotten at the next published change of the row.  A new upload of an
existing candidate by the pipeline changes only columns the document does not
contain, so it is not a change here.

### StageBoard

`app` holds the columns of `job_applications` the board is about (status,
interview slot and place, liveness), `eval` those of `candidate_evaluations`,
`log` and `evalLog` the business events, `runs` what runs of the pipeline have
written, of which there is no event, `told` the rejections a candidate was mailed
about.  `request` is what each session holds:
the row as `seen`, the row as the handler has made it (`to`), and when its
transaction `began`, which is what `created_at` of its event will be.  `time`
counts beginnings and commits, so that the two orders can differ.

| Action | Code |
|---|---|
| `BeginStage` | `transition_application_stage`: live job, `_VALID_NEXT` of the status as loaded |
| `BeginStatus` | `update_application_status`: any resolved status to any other |
| `BeginInterview`, `BeginDelete` | `set_interview`, the soft delete |
| `CommitApp` | flush of the changed columns and the event, one transaction |
| `Tell` | after the commit of a rejection: watchers first, then the candidate's mail |
| `BeginPipeline`, `CommitPipeline` | `run_apply_pipeline` as the board sees it: it reads any row, staged, deleted or not, and writes `applied` or `parse_failed` if that differs from what it read; after a conflict (`conflict`) it writes in any case |
| `CreateEvaluation`, `BeginRate`, `BeginUnrate`, `CommitEval` | `create_evaluation`, `update_evaluation`, `delete_evaluation` |
| `BeginSuggest`, then `CommitEval` | the rating task: loads, asks the LLM, writes `ai_rating` |
| `Abandon` | the transaction fails, or the process dies; a rejection not told yet is then not told at all |
| `DeleteCandidate`, `DeleteJob`, `Purge` | the soft deletes, the daily purge of the trail |
| `HireEvents`, `TimeToHire`, `HiredAt` | the query of `get_time_to_hire` |

The events carry the row as the session has it.  Next to another request's
commit a `before` may never have been true of the row; this is why the
properties are stated per column and over the changes only.

### Notifications and ScheduledAlerts

`notifs` is the table, `mails` counts how often each notification was handed to
the broker as e-mail.  `digest` is the run each mailer is at: the users still to
do, the rows it holds of the present one (`due`), when it read them, and whether
their mail is out.  Nothing keeps two runs of one preference apart.  `owed`,
`skipped` and `digested` are history: the recipients each call of `fan_out` has
read, those a failure has cut off, and the users each run of a digest got through.

| Action | Code |
|---|---|
| `Watch`, `SetFilter`, `Unwatch`, `Follow`, `Unfollow`, `Disable` | `watchers/router.py`, `update_user_active` |
| `StartFan`, `Notify`, `NotifyFails`, `EndFan`, `FanDies` | `fan_out`: recipients are read once, each is published and committed on its own; a failed commit expires the session and with it every recipient after; the process can die when one mail is out and its row is not committed |
| `StartDigest`, `ReadDue`, `PublishDigest`, `MarkDigest`, `EndDigest` | `_send_digests` for daily and weekly: users are read once; per user, unmarked rows of the window, their mail, their marks |
| `DigestFails` | publishing or committing fails, or the worker dies, at any of these steps: the rest of the run is lost |
| `StartReminders`, `Check`, `Mark`, `Send`, `NextWindow`, `EndRun` | `_send_interview_reminders`: rows due, marker lookup, marker commit, `fan_out`; first the 1-hour window, then the 24-hour window |
| `StartAlerts`, then the same | `_send_sla_alerts` |
| `RunDies` | the worker dies, or the database fails, at any step |
| `SetInterview`, `SetStatus`, `DeleteApplication`, `DeleteJob` | what recruiters change meanwhile |

A run keeps `now` of its beginning and the rows it has loaded, however long it
takes; `Marked24h` is the lookup of the marker.  What `fan_out` does to the
notifications is explored from the handlers (`Request`); a run sees only whether
it left the session expired, since that ends the run.

### Accounts

`secret` is one table for the four things that stand for a person: invites,
refresh tokens, reset tokens, and the states of single sign-on, which are kept
in the process's memory.  `uses` and `log` are what has become of secrets and
accounts, each with when it was read and when it was committed.

| Action | Code |
|---|---|
| `Enter`, `Load`, `CommitChange` | `require_admin`, then `update_user_role` or `update_user_active`; the actor is checked once, the target is loaded later |
| `Invite`, `Revoke` | `create_invite`, `revoke_invite` |
| `BeginRegister`, `Register` | `register_user`: SELECT FOR UPDATE of the invite, then account and `used_at` |
| `Login`, `Logout`, `BeginRotate`, `Rotate` | `login_user`, `logout_user`, `rotate_refresh_token` |
| `ForgotPassword`, `BeginReset`, `Reset`, `BeginPassword`, `ChangePassword` | `forgot_password`, `reset_password`, `change_password` |
| `StartSso`, `BeginSso`, `Sso` | `sso_login`, `sso_callback`, which takes the state out before it asks the provider |
| `Fail`, `Restart` | a refused or failed request; a new process, with no pending sign-ins |

Addresses have a spelling: invites and the identity provider know them in lower
case, accounts as they were typed.  Secrets are numbered in the order of issue;
hashing, expiry and signatures of tokens are left out, so that whoever could
hold a secret may present it.

### JobScoring

A candidate is the number of its last edit, the job its text and three lists of
skills; both together are what `score_input_hash` is of.  A session holds, per
candidate, the phase it is in (`look`, `ask`, `write`, `have`), the inputs as
loaded, and which rows it has upserted: these stay locked until it ends.

| Action | Code |
|---|---|
| `Created`, `BeginUpdate`, `CommitUpdate` | `create_job`, `update_job` with `_merged_required_skills` |
| `StartScore`, `StartCompare`, `Look`, `Answer`, `Upsert`, `CommitScores` | `score_with_cache` from the task and, for all candidates at once, from `create_comparison` |
| `ScoreFails`, `RetryScore`, `CompareFails`, `Deadlock`, `Abort` | Celery's two retries; the comparison saved as failed; the transaction PostgreSQL aborts; a dead process |
| `BeginAnalyze`, `EndAnalyze` | `analyze_head_to_head` |
| `Rating`, `Cut`, `AssignTiers` | `to_ten_scale`, `assign_tiers` |
| `BeginShortlist`, `EndShortlist` | `get_job_shortlist`: tiers from one read, scores shown from a second |
| `BeginTiebreak`, `EndTiebreak`, `TiebreakFails` | `run_tiebreaker`, whose LLM answers with names |
| `EditCandidate`, `DeleteCandidate`, `DeleteJob` | the handlers that change what is hashed or loaded |

The LLM is a choice of a score, or of a list of names.  Two candidates can have
one name, which is how verdicts and tiebreakers go by names in the code.

## 3. Runs

| Run | What it asks | Result (distinct states) |
|---|---|---|
| `pipeline_faults` | two pipelines of one person, database errors, a crash with redelivery, lost children, deletions | four invariants hold (1.06 million) |
| `pipeline_operators` | one application in two workers at once (requeued), recruiters, candidates made and edited by hand, job deletion, broker failures | three invariants hold (1.02 million) |
| `pipeline_lifecycle` | no fault, no retry: implements the lifecycle with its fairness; scores are requested; resolved applications stay | holds (230 000) |
| `pipeline_crashes` | does every submission leave `parsing` or use up its retries, and what uses them up? | holds (214 000) |
| `pipeline_exhausted` | is an application marked failed when its retries are used up? | violated: finding 1 |
| `search_sync` | two workers, two candidates, edits, deletion, backfill, silent writers, two faults | four invariants hold, and the index converges unless a loss is recorded (418 000) |
| `search_race` | without a fault, does a deleted candidate leave the list? | violated: finding 3 |
| `stage_board` | two requests, rating tasks or pipelines at once on one application and one evaluation, with failed commits, deletions and the purge | five invariants and an action property hold (2.5 million) |
| `alerts` | two runs of reminders or alerts at once, late and dying; or `fan_out` and two digests at once, with failures | seven invariants hold (2.5 million) |
| `reminder_once` | is a reminder sent once only? | violated: finding 5 |
| `accounts` | two requests at once on accounts and secrets, with restarts | four invariants and an action property hold (580 000) |
| `scoring` | tasks, comparisons, analyses, shortlists and tiebreakers over rows that change | five invariants hold (330 000) |

**Properties of the pipeline.**  `ResumeHistoryIsGapless`: whatever upserts
overlap, retry and repeat, a candidate's history has each version once, up to the
current one, from version 1 or, of a candidate made by hand, from version 2.
`ResumesRecordedOnce` bounds the history from the other side: a retry does not
record a resume again, so the rows are at most the submissions, the requeues and
the redeliveries.  `StagedIsBacked` says that nothing recruiters can move lacks a
candidate whose history holds the application's resume: this is what a stale
status change could break.  `ParsingIsAccountedFor` says who is still going to
resolve an application in `parsing`, or by which of four losses (`lost`) it got
stranded; it shows that there is no fifth.  One of the four needs no failure: a
lost race costs a retry.  `ExhaustedByRaces` says how many it takes: with the
code's two retries, three rows in that person's history, so that four submissions
of one person at a time can strand one of them and three cannot, unless one was
delivered again or requeued.  `ParsingEnds` therefore ends in a
resolved application or in one without retries, and so does the lifecycle
(`ImplementsLifecycle`, by `Strand`).  `ResolvedBelongsToRecruiters` and
`AppliedIsScored` are the other properties of behaviours.

What the constraints of the database say by themselves (one application per
candidate and job, one active candidate per address) is not stated as a
property: it is the guard of the only action that could break it.  What the code
makes of a refusal is (`ImplementsLifecycle`, `ParsingIsAccountedFor`).

**Of the search index.**  `DriftIsAccountedFor` is the counterpart of
`ParsingIsAccountedFor`: where the index and a row disagree, a task that will
repair it is on its way, or one of eight losses happened since the last
published change.  `OnlyDeletedAreFlagged` and `ListIsNeverBlank` are what still
holds when the index drifts; `Converges` is the eventual agreement.  The first is
about the flag alone: a candidate the pipeline has inserted has no document and
is left out of every search that finds somebody else.  That loss is `"pipeline"`.

**Of the board.**  `ColumnsExplained`: each column of a row has the value of its
last recorded change, so that no request undoes what it has not seen.  The status
has one more writer, of which there is no event: a run of the pipeline that was
requeued or delivered again, which overwrites whatever a recruiter has made of
the application (finding 13).  `runs` keeps what these have written, and the
property lets the status, and nothing else, come from the last of them.
`EvaluatorsWordStands` says the same of an evaluation next to the rating task.
`HireCounted` names the two ways in which a hire can be missing from
time-to-hire, and `HireNeverLater` says that the date it reports only moves by a
purge.  `RejectedAgainOnlyInOverlap`: two requests that have both loaded the
unrejected row both mail the candidate; any other second mail has a status set
back between the two rejections, by a recruiter or by the pipeline.

**Of notifications and alerts.**  `MarkersAccountForReminders` relates the
markers to what was sent, both ways; `RemindersBounded` is what is left of "once"
when runs overlap, and `ReminderOnce` what the product promises.  `AlertsSpaced`
is about the 24 hours between alerts, measured from runs that can be late.
`MailsMatchMarks` counts mails: `fan_out` sends at most one for a notification,
whatever dies, and the digests one per worker and one more per failure between a
mail and its mark, as two runs can hold the same unmarked row.
`EveryoneNotified` relates the notifications to the recipients a call has read.
`DigestsLeaveNothingOut` is about each user each run got through: what was
committed when it read and is still unmailed was created a window or more before
the run began.  It makes no assumption about the schedule.  The beat runs the
digests exactly a window apart, so that any jitter leaves a gap between two
windows; that, and a row whose transaction began before one read and committed
after it, is what the exception admits, and no more than that.

**Of accounts.**  `SpentIsSpent` and `UsedOnce` say which secrets can be taken
twice, and that only requests that read before the other's commit do it.
`TrailExplainsAccounts` is the counterpart of `ColumnsExplained`.
`LastAdminLostInOverlap` names the two ways of losing the last administrator.

**Of scoring.**  `AskedAgainOnlyInOverlap`: the LLM is asked twice about one
input only if the second lookup came before the first commit, or another input's
score was there in between.  `ComparisonsAddUp` and `ShortlistsAddUp` state what
a ranking, a verdict, the tiers and a tiebreaker's recommendation have to do with
the scores on record.  `SkillsInSync` relates the three lists of a job.

**Bounds.**  For the pipeline, two applications and two workers: every conflict
in the code is between two transactions (docker-compose starts the worker with
concurrency 2).  Three candidate keys in the fault runs, so that a rolled-back or
repeated insert still finds a free key; one job, since every query is confined to
one job.  The number of retries and the number of applications go together, as
each lost race costs one retry and takes one rival: with the code's two retries
exhaustion takes four applications of one person, with none it takes two.
`pipeline_lifecycle` therefore has `MaxRetries = 0`, so that two applications
reach `Strand`, and `pipeline_crashes` one retry, of which a redelivery and a
rival can make two losses; `pipeline_exhausted` has the code's two.  The theorems
hold for any number of either.  `MaxCrashes` and `MaxRequeues`
bound crashes and the operator's script; `Operations` and `Faults` choose per run
which users and faults take part, so that each run stays small and yet each
combination that can interact meets: deletions with crashes, recruiters with
requeues.

For the search index, two workers (the race of a load with a write) and two
commits to the edited candidate in `search_sync`, three (creation, edit,
deletion) in `search_race`; the second candidate, with one commit, is there for
the batch of the backfill and for the list.  `MaxVersion` is per candidate for
this reason.  `MaxRetries` is 1 instead of 5, which is enough for a retry and for
running out of them.

For the board, one application and one evaluation with two requests: requests
touch one row each, so that a third row would only multiply the states.
`MaxTime = 5` is the number of beginnings and commits of requests: two that
overlap take four of them and leave one for what was there before or comes after.
The beginning of a run of the pipeline takes none, so that one can span the
commits of two requests.  The application is begun in `parsing` or already
attached, as the message that is delivered again may come at any time.
`Asked` holds the stages where hiring and rejection are decided; `Places` is
empty in the run, as `place` behaves like `slot`.

For the alerts, `Schedules` gives each behaviour one of three programmes
(reminders; SLA alerts; handlers with digests), as these share no variable that
both write.  Times are abstract: an hour is 1, the day's window 2, the week of
digests 2 units too, the daily one's 1; `MaxTime = 3` holds both windows of an
interview.  Three runs on two workers: two that overlap and one after.  One call
of `fan_out` with two recipients, one mailed at once and one by digest, two digests
on two workers (`Mailers`), and one fault among them.  `Horizon` ends the digests'
programme at 2, which is a window after its beginning: a row created at 0 is then
just too old for a run that begins at 2.

For the accounts, `Scenarios` looks at pairs of operations that write the same
rows or revoke each other's secrets.  Two spellings of one address, which can be
two accounts; begun with one or two administrators.  Three secrets and two
commits: every property relates two commits, and the theorems of section 5 cover
any number of them; a rotated token can be rotated again.

For scoring, three candidates of two names; the values 59, 60, 62 and 80 lie on
both sides of the threshold and of each decision, and two of them round to one
rating.  Each scenario starts up to three tasks or requests on two sessions,
which is a race and something that comes after it, over all or some assignments
of the values to the candidates.

Symmetry (workers, candidates, applications, requests, handlers, sessions) is
used only in runs without liveness properties.

**Deadlock** is not an error here: a run ends when every application has been
submitted and processed, or when the bounds on time, runs or edits are reached,
so the configurations switch the check off.  The one deadlock the code has, of
two comparisons that upsert each other's rows, is an action (`Deadlock` of
`JobScoring`), as PostgreSQL ends it.

**Fairness.**  A request handler that is running goes on to publish (`Enqueue`);
a worker that holds a task goes on with it, since the LLM client has a timeout
(`TaskStep`, per worker); idle workers consume the queue (`Deliver`, over all
workers, since any may take the message).  No fairness is assumed of users,
recruiters, operators or faults, nor between the outcomes of an extraction.  In
`SearchIndex` likewise: `Publish`, `Deliver` and `WorkerStep` are weakly fair,
users, scripts, backfills and faults are not.  The other modules state safety
only: what they promise to happen eventually is bounded by runs of the beat and
lost with the process that owed it, which `skipped` and `dropped` record instead.

## 4. Findings

1. **Exhausted retries strand the application** (`worker/tasks.py:84-88`).
   `apply_pipeline_task` calls `self.retry(exc=exc)` and expects
   `MaxRetriesExceededError` at the limit.  Celery re-raises `exc` then, so
   `_mark_application_failed` is never called and the application stays in
   `parsing`.  Run `pipeline_exhausted`.
2. **A failed parse deletes the resume** (`parser/service.py:130, 133, 156`).
   `applications/service.py:6-7` promises to keep the source file so that the
   user can retry; the docstring at `parser/service.py:109` says the opposite.
3. **A deleted candidate can come back to the list** (`search/service.py:61`).
   The index task loads and writes in two calls and `es.index` checks no version;
   the remove task can run in between.  The list fetches rows by id without
   looking at `deleted_at` (`candidates/router.py:263-267`), and the backfill
   skips deleted rows.  `docs/PRD-scope-finalization.md:124` promises that a
   deletion is reflected within one worker cycle.  Run `search_race`.
4. **Index tasks are not retried when Elasticsearch is down**
   (`search/service.py:68-70`).  The docstring of `es_index_candidate_task`
   (`worker/tasks.py:311-312`) promises it; `index_candidate` swallows the
   exception.  It is the loss `"refused"` of `SearchIndex`.
5. **A reminder can be sent twice** (`worker/tasks.py:222`).  The marker is
   looked up and inserted in two steps, without a constraint behind them, and
   nothing keeps two runs of the task apart.  `docs/PRD-scope-finalization.md:68`
   says "never duplicates".  Run `reminder_once`.
6. **A verdict can rest on the wrong candidate's score**
   (`comparisons/router.py:287`), as scores are kept by name and the lower-ranked
   candidate of a shared name replaces the other.  `ComparisonsAddUp` asks for
   the name to be nobody else's.
7. **The trail of an analysis has the LLM's guess** (`comparisons/router.py:312`),
   the comparison the decision derived from the scores.
8. **Analyzing a tiebreaker overwrites it** (`comparisons/router.py:232`): its
   verdict does not validate as that of an analysis and is taken for none.
9. **`required_skills` drifts from the two lists** (`jobs/router.py:207`): the
   merge takes the old union for the legacy list, so nothing is ever taken out,
   and overlapping updates can lose a skill.
10. **Forbidden stage moves happen in an overlap** (`evaluations/router.py:309`):
    the table is looked up for the status as loaded.
11. **Time-to-hire leaves out hires** (`analytics/router.py:212`): those made
    through the stage endpoint, whose action it does not read, and those the
    purge has deleted from a log the comment calls immutable.
12. **A failed notification loses the rejection mail**
    (`evaluations/router.py:371`): the rollback in `fan_out` expires the objects
    the mail is made of.

13. **A repeated pipeline run overwrites a recruiter's stage**
    (`applications/service.py:78`).  It checks neither the status it has read nor
    `deleted_at`, and records no event.
14. **The first resume of a candidate made by hand is in no history**
    (`candidates/router.py:146`), which `alembic/versions/0009_resume_versioning.py:8`
    says holds every resume uploaded.
15. **`fix_stuck_parsing.py --fix` resets nothing** (`:48`): it announces a reset
    to `parse_failed` and assigns the status it has selected for.

Findings 1, 3 and 5 are counterexamples of a run.  The others were met while
translating; the models behave as the code does, and the properties make
exactly the exceptions these call for.

## 5. Proofs

Every theorem holds for every number of the things its module is about
(applications, candidates, accounts, secrets, workers, requests, ...) and every
bound, under the named assumptions on the constants of that module: those of the
pipeline assume `ConstantsOK` (jobs, files and people exist, `"applied"` is a
stage and the pipeline's own statuses are not, the null values are outside their
sets), those of `SearchIndex` assume `Bounds` and `NoneApart`, those of
`StageBoard` `Bounds` and `NoneApart`, those of `Accounts` `AccountConstants`,
`NoneApart` and `NoneElse`.  Those of `Notifications` and `ScheduledAlerts`
assume `NotificationConstants`, `NoneOfThem`, `AlertConstants` (positive windows,
an hour shorter than a day, finitely many workers) and `NoneApart`; those of
`JobScoring` `ScoringConstants` (scores and threshold are percentages, finitely
many candidates and sessions) and `NoneApart`.  Finiteness is assumed only where
something is counted: sends per worker, seats per tier, scorers per commit.

| Theorem | Statement | Argument |
|---|---|---|
| `TypeCorrect` | `Spec => []TypeOK` | inductive with `SlotsOK`: a busy worker holds a message, a recruiter's open request names an application |
| `ParsingAccounted` | `Spec => []ParsingIsAccountedFor` | strengthened with `CarriedOK` (whatever is enqueued, queued or held has been inserted); one lemma per place an application can be in: `OutboxTracks`, `QueueTracks`, `WorkerTracks` show that leaving it resolves the application, moves it to another place or records a loss |
| `Staged` | `Spec => []StagedIsBacked` | needs that attached candidates have the resume (`AttachedOK`), and that a recruiter's request was loaded from a row that was already backed, which stays so |
| `HistoryGapless` | `Spec => []ResumeHistoryIsGapless` | what a worker chose exists and its version is at most the current one (`ChosenOK`); together with the version constraint the next version is exactly one more, of a history that began with 1 as of one that began with 2 |
| `RacesExhaust` | `Spec => []ExhaustedByRaces` | `RacesOK`: a task's retries are at most the rows of its address, fewer once it has lost another race; a SELECT takes account of all rows there are (`Known`), and the flush it loses meets one it has not (`ConflictCosts`) |
| `ResolvedUntouched` | fault-free: `Spec => ResolvedBelongsToRecruiters` | `OnceInv`: an unresolved application is in exactly one place, as it was submitted (`Once`, `Pending`) |
| `RefinesLifecycle` | fault-free: `Spec => Lifecycle!Spec` | an application out of retries is in no place any more; each step changes one application's row or submits several (`Writers`); `OneRowStep` maps the change to the abstract action |
| `SearchTypes` | `Spec => []TypeOK` | `StateOK`: what a worker holds in each state, and that it never holds a snapshot newer than the row |
| `DriftAccounted` | `Spec => []DriftIsAccountedFor` | inductive as `Accounted(c)` for each candidate on top of `StateOK`; the main cases are a write (either it is the row's present state or something newer is pending or lost) and the end of a task |
| `OnlyDeletedFlagged` | `Spec => []OnlyDeletedAreFlagged` | documents, snapshots and remove messages are all behind the row (`DocsBehind`, `BatchesBehind`, `MessagesOK`), and a row once deleted stays so |
| `NeverBlank` | `Spec => []ListIsNeverBlank` | no document of a row that was never created (`DocsBehind`) |
| `AccountTypes` | `Spec => []TypeOK` | `StateOK`: secrets name accounts that exist (`SecretsOK`), a request in flight holds a secret of its kind, a registration one that is not spent (`HeldOK`), and no two registrations hold one invite (`LocksOK`) |
| `SpentForGood` | `Spec => []SpentIsSpent` | `UsesInv`: what has been used is spent (`UsesOK`), so whoever found it unspent read it before each of its uses was committed (`Overlap`) |
| `InviteUsedOnce` | `Spec => []UsedOnce` | from the same invariant; a registration's lock keeps revocations and other registrations away between its reading and its commit |
| `TrailExplains` | `Spec => []TrailExplainsAccounts` | `LogInv`: commits are ordered by `time` (`LogOK`); an event with a change is of a commit that wrote the column, and one without a change wrote nothing |
| `LastAdminLost` | `Spec => LastAdminLostInOverlap` | only a commit of a change takes an administrator away; its actor is the target, or is no administrator any more, and was one when it was checked (`BackedOK`) |
| `BoardTypes` | `Spec => []TypeOK` | `StateOK`: what each kind of request in flight has seen and is going to write |
| `ColumnsAreExplained` | `Spec => []ColumnsExplained` | `BoardInv` with the order of commits (`LogOK`); a commit writes and records a column, or neither changes (`CommitExplained`), and a run of the pipeline writes the status and nothing else (`RunExplained`) |
| `HiresCounted` | `Spec => []HireCounted` | a consequence of `ColumnsExplained`: the last change of the status made it hired |
| `HireOnlyEarlier` | `Spec => HireNeverLater` | a set of events that grows has no later minimum; that there is one is inductive (`EarliestOK`), as nothing is assumed finite |
| `NotRejectedTwice` | `Spec => []RejectedAgainOnlyInOverlap` | `TellInv`: after a rejection's commit the row is rejected or has been written since (`StandsOrUndone`), so that whoever loads it unrejected has such a write before its beginning (`ReadUndone`), and its own rejection carries that on (`UndoneBetween`) |
| `WordStands` | `Spec => []EvaluatorsWordStands` | `EvalInv`, as for the columns; the rating task gives neither the rating nor the deletion another value |
| `AlertTypes` | `Spec => []TypeOK` | `StateOK`: what a run holds in each of its steps (`RunOK`); one theorem for the tables and calls of `Notifications` and the runs of `ScheduledAlerts` |
| `RemindersAccounted` | `Spec => []MarkersAccountForReminders` | `MarkersOK`: a run that sends has committed its marker, and what has been passed over has one (`MarkedBeforeSent`, `PassedOver`); a step of another worker only adds markers (`MarkedStays`) |
| `AlertsADayApart` | `Spec => []AlertsSpaced` | `SpacingOK`: the markers a run about to mark could see at its beginning were a day old (`AlertLookedUp`), whatever the clock has done since |
| `RemindersAtMostOnePerWorker` | `Spec => []RemindersBounded` | `SendsLeft`: sends done plus workers at the row are never more than the workers; a worker joins only while there is no marker, hence before the first send |
| `RecipientsNotified` | `Spec => []EveryoneNotified` | `FanOK`: calls are numbered apart, nobody is in a call's list twice (`CallsOK`), and each recipient owed is notified, skipped or still to do (`Accounted`) |
| `NoSecondMail` | `Spec => []MailsMatchMarks` | `MailsOK` on top of `FanOK` and of what a run holds (`HeldOK`): while the row is unmarked, each mail is of a fault or of a run about to mark it (`Posted`); once it is marked, no run reads it again, and those that had read it unmailed (`Waiting`) are no more than there are workers |
| `DigestsComplete` | `Spec => []DigestsLeaveNothingOut` | `DigestOK`: a run holds all rows of its user that were committed when it read, but for those too old (`HoldsAll`), so that its marks cover them (`ThroughAll`); whatever is committed later is later than each read (`ReadBefore`) |
| `ScoringTypes` | `Spec => []TypeOK` | `StateOK`: what a session holds in each phase (`SessionsOK`); commits so far plus scorers that may still commit are at most the starts (`TimeBounded`), which keeps the commit times in their range |
| `SkillsStayInSync` | `Spec => []SkillsInSync` | the merge contains both new lists; an update whose row was changed since its load is recorded as `raced` when it commits |
| `AskedAgainOnlyThen` | `Spec => []AskedAgainOnlyInOverlap` | `HistoryOK`: a row is the last score committed for it (`RowsAreLast`), so a lookup that misses has found every earlier score of its input replaced (`LookedUp`) |
| `ComparisonsStandUp` | `Spec => []ComparisonsAddUp` | `ComparesOK` on `HistoryOK`: what a comparison ranks was written by it or was on record at its lookup; ranking is a sorted permutation, so the first result is a best one |
| `ShortlistsFit` | `Spec => []ShortlistsAddUp` | `PageOK` and `TiebreaksOK`, from the two theorems on `assign_tiers` below and from the rows being those of the commit number read (`SessionOK`) |
| `TiersSeated` | for all rows and targets: `Seated(AssignTiers(rows, target), target)` | the cut exists (`CutExists`, by `HighestExists`) and at least as many reach it as there are seats, while fewer score above it |
| `TiersOrdered` | for all rows and targets: `Ordered(AssignTiers(rows, target), rows)` | rounding to half points is monotonic, and the qualified scored at least the threshold |

`ResolvedUntouched` and `RefinesLifecycle` assume `Faults = {}` and no requeues:
with redelivery they are false, since the task is not idempotent.

Each proof module has the same layout: the strengthening as a conjunction of
named parts, a lemma per action (or per kind of action) for the type invariant,
then, for each safety property, a short list of what a step can do to the
variables it is about (`Moves`, `UsesOnly`, `LogOnly`, `Writers`), so that the
argument proper is made once and not per action.

Steps of `JobScoring` are sorted once, in `StepsAre`, into those that commit
scores, those that save a comparison or a page, and those that leave all of
these alone; three of its theorems start there.

Two places needed something in the stead of induction.  That a finite set of
scores has a cut is a maximum, which the library has only through induction on
cardinality; `HighestExists` takes it from the well-foundedness of strict
inclusion on finite sets: of the sets of numbers above each score, one includes no
other.  And `SendsLeft` and
`TimeBounded` count sets of workers and sessions, which change by one element per
step, so that the library's facts on adding and removing an element are enough.

**Model-checked only.**  `ResumesRecordedOnce`, and liveness (`ParsingEnds`,
`AppliedIsScored`, `Converges`, the fairness part of the refinement), which is
outside the prover's reach.  The three properties that do not hold
(`ExhaustedIsMarkedFailed`, `DeletedLeavesTheList`, `ReminderOnce`) are TLC's
counterexamples.  All other invariants and action properties of the passing runs
are theorems.

## 6. Plan

All modules of the plan are written and have their proofs: `ApplyPipeline`,
`ApplicationLifecycle`, `SearchIndex`, `StageBoard`, `Notifications`,
`ScheduledAlerts`, `Accounts`, `JobScoring`.  What could follow:

1. What repairs of the findings would buy, as theorems: with a unique marker, at
   most one reminder (`RemindersBounded` with 1); with a status guarded by the
   row at commit, the stage table without exceptions.
2. The steps of `RefinesLifecycle` under redelivery, against an abstract
   specification that allows an application to be resolved twice.
3. `ResumesRecordedOnce` as a theorem: it needs the count of the messages and
   workers that may still save, next to that of the rows.
4. Digests that go by the mark instead of the window: what would be left out then.

## 7. Not modelled

The web client, notes and mentions, exports (GDPR, PDF, Excel) and the upload
endpoint have no concurrent state of their own: single transactions or read-only
projections.  LLM clients, text extraction and language detection are text
processing; the models see only whether they succeed and what they answer, as a
choice.  The leaderboard, the summaries, the funnel and the other reports, the
Slack summary and the lists are single reads.  Left out of components that are
modelled: passwords' hashing, tokens' expiry and the OIDC exchange; marking
notifications as read, webhooks and texts of mails; the audit middleware; avatars,
bookmarks, similarity search; drafts of job descriptions.  Of the search index,
ranking, filters, facets and embeddings are left out, as are the hard deletes of
`scripts/nuke_candidates.py` and two concurrent DELETE requests for one candidate
(both would set the same flag).
