----------------------------- MODULE SearchIndex -----------------------------
(***************************************************************************)
(* The Elasticsearch copy of the candidates table.  Handlers commit a row  *)
(* and then publish a task naming the candidate; a worker loads the row    *)
(* and writes the document in two separate calls.  Neither the publishing  *)
(* nor the writing reports its failures to anybody.                        *)
(*                                                                         *)
(* A row is abstracted to a version, one more at each commit that writes   *)
(* it, and its deletion; a document is the snapshot of a row.              *)
(***************************************************************************)
EXTENDS Naturals, FiniteSets

CONSTANTS
  Candidates,    \* rows of the candidates table
  Workers,       \* Celery worker processes
  MaxRetries,    \* max_retries of the indexing task
  MaxVersion,    \* bound on the commits to each row
  MaxBackfills,  \* bound on the runs of the backfill
  MaxFaults,     \* bound on the failures of the broker, Elasticsearch and workers
  Unsynced,      \* which writers that publish nothing are active
  NoDoc,         \* no document, no snapshot
  NoMessage      \* an idle worker's message

ASSUME Bounds ==
  /\ MaxRetries \in Nat /\ MaxVersion \in [Candidates -> Nat]
  /\ MaxBackfills \in Nat /\ MaxFaults \in Nat
  /\ Unsynced \subseteq {"pipeline", "script"}

Kinds == {"index", "remove"}
Message == [kind: Kinds, cand: Candidates, retries: 0..MaxRetries]
Snapshot == [version: Nat, deleted: BOOLEAN]
Causes == {"pipeline", "script", "notPublished", "refused", "missing", "overtaken",
           "gaveUp", "childLost"}

ASSUME NoneApart == NoDoc \notin Snapshot /\ NoMessage \notin Message

VARIABLES
  row,        \* candidates: version 0 until created
  loaded,     \* candidates a PATCH request has loaded and not yet committed
  doc,        \* the candidates index
  calls,      \* bag of publications a handler still has to make
  tasks,      \* bag of messages in the broker
  job,        \* what each worker is at
  held,       \* the message each worker is on
  batch,      \* the rows each worker has loaded and not yet written
  lost,       \* <<candidate, cause>> since its last published change
  backfills,
  faults

handlerVars == <<row, loaded, calls>>
workerVars == <<job, held, batch>>
bounds == <<backfills, faults>>
vars == <<row, loaded, doc, calls, tasks, workerVars, lost, bounds>>

Absent(c) == row[c].version = 0
Live(c) == row[c].version > 0 /\ ~row[c].deleted

TypeOK ==
  /\ row \in [Candidates -> Snapshot]
  /\ loaded \subseteq Candidates
  /\ doc \in [Candidates -> Snapshot \cup {NoDoc}]
  /\ calls \in [Message -> Nat]
  /\ tasks \in [Message -> Nat]
  /\ job \in [Workers -> {"idle", "load", "write", "remove", "backfill"}]
  /\ held \in [Workers -> Message \cup {NoMessage}]
  /\ batch \in [Workers -> [Candidates -> Snapshot \cup {NoDoc}]]
  /\ lost \subseteq Candidates \X Causes
  /\ backfills \in 0..MaxBackfills
  /\ faults \in 0..MaxFaults
-----------------------------------------------------------------------------
(* Search *)

\* The documents the query's must clause lets through.
Hits == {c \in Candidates : doc[c] # NoDoc /\ ~doc[c].deleted}

\* Mutant: an empty answer of the index is taken at its word.
ListedFromIndex(up) ==
  IF up THEN {c \in Hits : ~Absent(c)} ELSE {c \in Candidates : Live(c)}

\* GET /candidates/search without criteria: the rows of the hits, fetched by
\* id whatever their deleted_at; SQL when Elasticsearch does not answer or has
\* no hit.
Listed(up) ==
  IF up /\ Hits # {} THEN {c \in Hits : ~Absent(c)} ELSE {c \in Candidates : Live(c)}

-----------------------------------------------------------------------------
Init ==
  /\ row = [c \in Candidates |-> [version |-> 0, deleted |-> FALSE]]
  /\ loaded = {}
  /\ doc = [c \in Candidates |-> NoDoc]
  /\ calls = [m \in Message |-> 0]
  /\ tasks = [m \in Message |-> 0]
  /\ job = [w \in Workers |-> "idle"]
  /\ held = [w \in Workers |-> NoMessage]
  /\ batch = [w \in Workers |-> [c \in Candidates |-> NoDoc]]
  /\ lost = {}
  /\ backfills = 0
  /\ faults = 0

Fault == faults < MaxFaults /\ faults' = faults + 1

(* Handlers: the commit, then the publication. *)

Call(k, c) == [kind |-> k, cand |-> c, retries |-> 0]

\* A commit that writes the row and will publish: what was lost about the
\* candidate before no longer counts.
Commit(c, deleted, k) ==
  /\ row[c].version < MaxVersion[c]
  /\ row' = [row EXCEPT ![c] = [version |-> row[c].version + 1, deleted |-> deleted]]
  /\ calls' = [calls EXCEPT ![Call(k, c)] = @ + 1]
  /\ lost' = lost \ ({c} \X Causes)
  /\ UNCHANGED <<doc, tasks, workerVars, bounds>>

CreateCandidate(c) ==
  /\ Absent(c)
  /\ Commit(c, FALSE, "index")
  /\ UNCHANGED loaded

LoadForUpdate(c) ==
  /\ Live(c)
  /\ c \notin loaded
  /\ loaded' = loaded \cup {c}
  /\ UNCHANGED <<row, doc, calls, tasks, workerVars, lost, bounds>>

\* Mutant: an edit publishes nothing.
UpdateUnpublished(c) ==
  /\ c \in loaded
  /\ row[c].version < MaxVersion[c]
  /\ loaded' = loaded \ {c}
  /\ row' = [row EXCEPT ![c].version = @ + 1]
  /\ UNCHANGED <<doc, calls, tasks, workerVars, lost, bounds>>

\* The UPDATE names the row by id: a deletion since the load does not stop it.
CommitUpdate(c) ==
  /\ c \in loaded
  /\ loaded' = loaded \ {c}
  /\ Commit(c, row[c].deleted, "index")

\* Mutant: the removal is published by a transaction that rolls back.
DeleteRollsBack(c) ==
  /\ Live(c)
  /\ calls' = [calls EXCEPT ![Call("remove", c)] = @ + 1]
  /\ UNCHANGED <<row, loaded, doc, tasks, workerVars, lost, bounds>>

DeleteCandidate(c) ==
  /\ Live(c)
  /\ Commit(c, TRUE, "remove")
  /\ UNCHANGED loaded

\* Writers that publish nothing: the apply pipeline's insert, and the
\* deletions of the reparse script.
PipelineCreates(c) ==
  /\ "pipeline" \in Unsynced
  /\ Absent(c) /\ MaxVersion[c] > 0
  /\ row' = [row EXCEPT ![c] = [version |-> 1, deleted |-> FALSE]]
  /\ lost' = lost \cup {<<c, "pipeline">>}
  /\ UNCHANGED <<loaded, doc, calls, tasks, workerVars, bounds>>

ScriptDeletes(c) ==
  /\ "script" \in Unsynced
  /\ Live(c) /\ row[c].version < MaxVersion[c]
  /\ row' = [row EXCEPT ![c] = [version |-> row[c].version + 1, deleted |-> TRUE]]
  /\ lost' = lost \cup {<<c, "script">>}
  /\ UNCHANGED <<loaded, doc, calls, tasks, workerVars, bounds>>

Publish(m) ==
  /\ calls[m] > 0
  /\ calls' = [calls EXCEPT ![m] = @ - 1]
  /\ tasks' = [tasks EXCEPT ![m] = @ + 1]
  /\ UNCHANGED <<row, loaded, doc, workerVars, lost, bounds>>

\* The broker is down and the exception swallowed, or the API process dies.
PublishFails(m) ==
  /\ Fault
  /\ calls[m] > 0
  /\ calls' = [calls EXCEPT ![m] = @ - 1]
  /\ lost' = lost \cup {<<m.cand, "notPublished">>}
  /\ UNCHANGED <<row, loaded, doc, tasks, workerVars, backfills>>
-----------------------------------------------------------------------------
(* Workers *)

Release(w) ==
  /\ job' = [job EXCEPT ![w] = "idle"]
  /\ held' = [held EXCEPT ![w] = NoMessage]
  /\ batch' = [batch EXCEPT ![w] = [c \in Candidates |-> NoDoc]]

Deliver(w, m) ==
  /\ job[w] = "idle"
  /\ tasks[m] > 0
  /\ tasks' = [tasks EXCEPT ![m] = @ - 1]
  /\ job' = [job EXCEPT ![w] = IF m.kind = "index" THEN "load" ELSE "remove"]
  /\ held' = [held EXCEPT ![w] = m]
  /\ UNCHANGED <<handlerVars, doc, batch, lost, bounds>>

\* The row by id, deleted or not.
LoadRow(w) ==
  /\ job[w] = "load"
  /\ LET c == held[w].cand
     IN  batch' = [batch EXCEPT ![w] = [@ EXCEPT ![c] = row[c]]]
  /\ job' = [job EXCEPT ![w] = "write"]
  /\ UNCHANGED <<handlerVars, doc, tasks, held, lost, bounds>>

\* The backfill loads every live row at once.
StartBackfill(w) ==
  /\ job[w] = "idle"
  /\ backfills < MaxBackfills
  /\ \E c \in Candidates : Live(c)
  /\ backfills' = backfills + 1
  /\ batch' = [batch EXCEPT ![w] = [c \in Candidates |-> IF Live(c) THEN row[c] ELSE NoDoc]]
  /\ job' = [job EXCEPT ![w] = "backfill"]
  /\ UNCHANGED <<handlerVars, doc, tasks, held, lost, faults>>

\* What follows the write of c: the next row of the batch or the end.
Advance(w, c) ==
  LET rest == [batch[w] EXCEPT ![c] = NoDoc]
  IN  IF \E d \in Candidates : rest[d] # NoDoc
      THEN batch' = [batch EXCEPT ![w] = rest] /\ UNCHANGED <<job, held>>
      ELSE Release(w)

\* The document in the index is of a later state of the row than s.
Overtakes(d, s) ==
  d # NoDoc /\ (d.version > s.version \/ (d.deleted /\ ~s.deleted))

\* es.index replaces the document, without a version check.
WriteDoc(w, c) ==
  /\ job[w] \in {"write", "backfill"}
  /\ batch[w][c] # NoDoc
  /\ doc' = [doc EXCEPT ![c] = batch[w][c]]
  /\ lost' = lost \cup (IF Overtakes(doc[c], batch[w][c]) THEN {<<c, "overtaken">>} ELSE {})
  /\ Advance(w, c)
  /\ UNCHANGED <<handlerVars, tasks, bounds>>

\* Elasticsearch is down: index_candidate returns False and the task ends well.
WriteRefused(w, c) ==
  /\ Fault
  /\ job[w] \in {"write", "backfill"}
  /\ batch[w][c] # NoDoc
  /\ lost' = lost \cup {<<c, "refused">>}
  /\ Advance(w, c)
  /\ UNCHANGED <<handlerVars, doc, tasks, backfills>>

\* Mutant: doc_as_upsert, which makes a document of the flag alone.
RemoveUpserts(w) ==
  /\ job[w] = "remove"
  /\ LET c == held[w].cand
     IN  doc' = [doc EXCEPT ![c] = IF @ = NoDoc THEN [deleted |-> TRUE]
                                   ELSE [@ EXCEPT !.deleted = TRUE]]
  /\ Release(w)
  /\ UNCHANGED <<handlerVars, tasks, lost, bounds>>

\* es.update of the deleted flag; on a missing document it raises, which
\* remove_candidate swallows.
RemoveDoc(w) ==
  /\ job[w] = "remove"
  /\ LET c == held[w].cand
     IN  IF doc[c] = NoDoc
         THEN doc' = doc /\ lost' = lost \cup {<<c, "missing">>}
         ELSE doc' = [doc EXCEPT ![c].deleted = TRUE] /\ lost' = lost
  /\ Release(w)
  /\ UNCHANGED <<handlerVars, tasks, bounds>>

RemoveRefused(w) ==
  /\ Fault
  /\ job[w] = "remove"
  /\ lost' = lost \cup {<<held[w].cand, "refused">>}
  /\ Release(w)
  /\ UNCHANGED <<handlerVars, doc, tasks, backfills>>

\* Mutant: the retry is dropped.
RetryDropped(w) ==
  /\ Fault
  /\ job[w] = "load"
  /\ Release(w)
  /\ UNCHANGED <<handlerVars, doc, tasks, lost, backfills>>

\* Only a failure to load the row reaches the retry of the task.
RetryTask(w) ==
  /\ Fault
  /\ job[w] = "load"
  /\ held[w].retries < MaxRetries
  /\ tasks' = [tasks EXCEPT ![[held[w] EXCEPT !.retries = @ + 1]] = @ + 1]
  /\ Release(w)
  /\ UNCHANGED <<handlerVars, doc, lost, backfills>>

\* Out of retries, or the retry could not be published.
GiveUp(w) ==
  /\ Fault
  /\ job[w] = "load"
  /\ lost' = lost \cup {<<held[w].cand, "gaveUp">>}
  /\ Release(w)
  /\ UNCHANGED <<handlerVars, doc, tasks, backfills>>

\* The pool's child dies: its message is acknowledged all the same.
ChildLost(w) ==
  /\ Fault
  /\ held[w] # NoMessage
  /\ lost' = lost \cup {<<held[w].cand, "childLost">>}
  /\ Release(w)
  /\ UNCHANGED <<handlerVars, doc, tasks, backfills>>

\* The whole worker dies: the unacknowledged message is delivered again.
WorkerCrash(w) ==
  /\ Fault
  /\ job[w] # "idle"
  /\ tasks' = IF held[w] = NoMessage THEN tasks ELSE [tasks EXCEPT ![held[w]] = @ + 1]
  /\ Release(w)
  /\ UNCHANGED <<handlerVars, doc, lost, backfills>>
-----------------------------------------------------------------------------
Handlers ==
  \/ \E c \in Candidates :
       \/ CreateCandidate(c) \/ LoadForUpdate(c) \/ CommitUpdate(c) \/ DeleteCandidate(c)
       \/ PipelineCreates(c) \/ ScriptDeletes(c)
  \/ \E m \in Message : Publish(m) \/ PublishFails(m)

WorkerStep(w) ==
  \/ LoadRow(w) \/ RemoveDoc(w)
  \/ \E c \in Candidates : WriteDoc(w, c)

WorkerFault(w) ==
  \/ \E c \in Candidates : WriteRefused(w, c)
  \/ RemoveRefused(w) \/ RetryTask(w) \/ GiveUp(w) \/ ChildLost(w) \/ WorkerCrash(w)

Next ==
  \/ Handlers
  \/ \E w \in Workers :
       \/ \E m \in Message : Deliver(w, m)
       \/ StartBackfill(w)
       \/ WorkerStep(w)
       \/ WorkerFault(w)

\* A handler past its commit goes on to publish, and a worker takes the
\* message it polls and runs its coroutine; operators and clients do as they
\* like.
Fairness ==
  /\ \A m \in Message : WF_vars(Publish(m)) /\ WF_vars(\E w \in Workers : Deliver(w, m))
  /\ \A w \in Workers : WF_vars(WorkerStep(w))

Spec == Init /\ [][Next]_vars
FairSpec == Spec /\ Fairness
-----------------------------------------------------------------------------
(* Properties *)

\* The document says what the row says.
Reflected(c) ==
  \/ Absent(c) /\ doc[c] = NoDoc
  \/ Live(c) /\ doc[c] = row[c]
  \/ row[c].deleted /\ doc[c] # NoDoc /\ doc[c].deleted

\* A task for c has still to be published, taken or finished, and one that
\* has already loaded the row has loaded its present state.
Queued(c) == \E m \in Message : m.cand = c /\ (calls[m] > 0 \/ tasks[m] > 0)
AtWork(c) ==
  \E w \in Workers :
    /\ held[w] # NoMessage /\ held[w].cand = c
    /\ \/ job[w] \in {"load", "remove"}
       \/ job[w] = "write" /\ batch[w][c] = row[c]
Pending(c) == Queued(c) \/ AtWork(c)

LostTrack(c) == \E k \in Causes : <<c, k>> \in lost

\* Whenever the index disagrees with a row, a task that will repair it is on
\* its way, or one of the losses the code swallows has happened since the last
\* published change: handlers and workers interleave in no other harmful way.
DriftIsAccountedFor ==
  \A c \in Candidates : Reflected(c) \/ Pending(c) \/ LostTrack(c)

\* The flag the query filters on is set only for a candidate whose deletion was
\* committed, whichever task, retry or backfill wrote last.  That a candidate
\* which has no document is not found is DriftIsAccountedFor's concern.
OnlyDeletedAreFlagged ==
  \A c \in Candidates : doc[c] # NoDoc /\ doc[c].deleted => row[c].deleted

\* The unfiltered list, which also feeds the dashboard, is not blank while
\* there are candidates (comment in search_candidates).
ListIsNeverBlank ==
  (\E c \in Candidates : Live(c)) => \A up \in BOOLEAN : Listed(up) # {}

\* "Reflected in ES within one worker cycle", without any fault: a candidate
\* whose tasks are all done is not listed after its deletion.
DeletedLeavesTheList ==
  \A c \in Candidates :
    row[c].deleted /\ ~Queued(c) /\ (\A w \in Workers : job[w] = "idle") =>
      \A up \in BOOLEAN : c \notin Listed(up)

\* Every change reaches the index for good, unless it is lost.
Converges ==
  \A c \in Candidates : <>[](Reflected(c) \/ LostTrack(c))
=============================================================================
