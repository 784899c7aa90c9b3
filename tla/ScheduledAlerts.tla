--------------------------- MODULE ScheduledAlerts ---------------------------
(***************************************************************************)
(* The tasks the beat schedules: interview reminders, alerts for           *)
(* applications past the job's SLA, and the digests.  A reminder or alert  *)
(* leaves a marker in business_events, which later runs look up; runs can  *)
(* be late, overlap on two workers, be repeated, and die at any step.      *)
(*                                                                         *)
(* The schedule says which of the tasks, and whether request handlers that *)
(* notify, are there at all.  What a call of fan_out does to the           *)
(* notifications is explored from the request handlers; a run is told only *)
(* what it left of the session.                                            *)
(***************************************************************************)
EXTENDS Notifications

CONSTANTS
  Apps,       \* applications for one job
  Slots,      \* interview times
  Hour, Day,
  SlaTime,    \* the job's sla_days
  Workers,
  Asked,      \* bound: the statuses given to applications
  Schedules,  \* bound: the schedules looked at
  Horizon,    \* bound on the clock under each of them
  MaxRuns,    \* bound on the runs of reminders and alerts
  MaxEdits,   \* bound on the changes to applications, or to users
  None,       \* no interview, no subject
  NoRun

Statuses == {"parsing", "parse_failed", "applied", "reviewing", "shortlisted",
             "screening", "interview", "offer", "hired", "rejected", "withdrawn"}
Skipped == {"rejected", "withdrawn", "parse_failed", "parsing"}
Ageing == {"applied", "screening", "interview"}

Entries == {"requests", "digests", "reminders", "alerts"}
ReminderTasks == {"1h", "24h"}
Tasks == ReminderTasks \cup {"sla"}

ASSUME AlertConstants ==
  /\ Slots \subseteq Times
  /\ Hour \in Nat /\ Day \in Nat /\ 0 < Hour /\ Hour < Day
  /\ SlaTime \in Nat
  /\ IsFiniteSet(Workers)
  /\ Asked \subseteq Statuses
  /\ Schedules \subseteq SUBSET Entries /\ Horizon \in [Schedules -> Times]
  /\ MaxRuns \in Nat /\ MaxEdits \in Nat
  /\ None \notin Slots

Application == [slot: Slots \cup {None}, status: Statuses, live: BOOLEAN, updated: Times]
Subject == [app: Apps, slot: Slots \cup {None}]
\* A run: the rows it loaded, those left, the one it is at, and when its
\* transaction began.
Run == [task: Tasks, now: Times, seen: SUBSET Subject, todo: SUBSET Subject,
        step: {"check", "mark", "send"}, on: Subject \cup {None},
        began: Times \cup {Never}]
Marker == [task: Tasks, subject: Subject, now: Times, created: Times, committed: Times]

ASSUME NoneApart == NoRun \notin Run /\ None \notin Subject

VARIABLES
  schedule,
  app,       \* the board's columns the tasks read
  jobLive,
  run,       \* what each worker is at
  markers,   \* the tasks' business events
  sent,      \* how often each reminder or alert was given to fan_out
  dropped,   \* those marked by a run that died before
  runs,
  edits

alertVars == <<app, jobLive, run, markers, sent, dropped, runs, edits>>
vars == <<notificationVars, schedule, alertVars>>

TypeOK ==
  /\ NotificationTypeOK
  /\ schedule \in Schedules
  /\ app \in [Apps -> Application]
  /\ jobLive \in BOOLEAN
  /\ run \in [Workers -> Run \cup {NoRun}]
  /\ markers \subseteq Marker
  /\ sent \in [Tasks \X Subject -> Nat]
  /\ dropped \subseteq Tasks \X Subject
  /\ runs \in 0..MaxRuns /\ edits \in 0..MaxEdits
-----------------------------------------------------------------------------
(* Recruiters *)

Edit(a, row) ==
  /\ schedule \cap {"reminders", "alerts"} # {}
  /\ app[a].live /\ edits < MaxEdits
  /\ edits' = edits + 1
  /\ app' = [app EXCEPT ![a] = row]
  /\ UNCHANGED <<notificationVars, schedule, jobLive, run, markers, sent, dropped, runs>>

SetInterview(a, s) ==
  s # app[a].slot /\ Edit(a, [app[a] EXCEPT !.slot = s, !.updated = clock])

SetStatus(a, s) == Edit(a, [app[a] EXCEPT !.status = s, !.updated = clock])

DeleteApplication(a) == Edit(a, [app[a] EXCEPT !.live = FALSE])

DeleteJob ==
  /\ "alerts" \in schedule /\ jobLive
  /\ jobLive' = FALSE
  /\ UNCHANGED <<notificationVars, schedule, app, run, markers, sent, dropped, runs, edits>>

\* Users watch, stop watching and are disabled.
WatcherStep ==
  /\ "requests" \in schedule
  /\ UserStep
  /\ edits < MaxEdits /\ edits' = edits + 1
  /\ UNCHANGED <<schedule, app, jobLive, run, markers, sent, dropped, runs>>

\* A handler that notifies.
Request(c) ==
  /\ "requests" \in schedule
  /\ StartFan(c)
  /\ UNCHANGED <<schedule, alertVars>>

RequestEnds(c) ==
  /\ EndFan(c) \/ FanDies(c)
  /\ UNCHANGED <<schedule, alertVars>>
-----------------------------------------------------------------------------
(* What a run reads *)

\* Interviews in (now, now + 1h], and in (now + 1h, now + 24h].
InterviewsDue(task, now) ==
  {x \in Subject :
    /\ app[x.app].live /\ app[x.app].status \notin Skipped
    /\ x.slot # None /\ x.slot = app[x.app].slot
    /\ IF task = "1h" THEN now < x.slot /\ x.slot <= now + Hour
                      ELSE now + Hour < x.slot /\ x.slot <= now + Day}

\* Applications of the job nobody has touched for its sla_days.
Stale(now) ==
  {x \in Subject :
    /\ jobLive /\ app[x.app].live /\ app[x.app].status \in Ageing
    /\ x.slot = None /\ app[x.app].updated + SlaTime <= now}

\* Mutant: only a marker later than the run's beginning counts.
MarkedSinceNow(task, x, now) ==
  \E m \in markers : m.task = task /\ m.subject = x /\ m.created > now

\* Mutant: an alert is looked up in the last hour.
MarkedThisHour(task, x, now) ==
  \E m \in markers : m.task = task /\ m.subject = x
                      /\ (task = "sla" => m.created + Hour > now)

\* The marker of this reminder, or an alert of the last 24 hours.
Marked24h(task, x, now) ==
  \E m \in markers : m.task = task /\ m.subject = x
                      /\ (task = "sla" => m.created + Day > now)
-----------------------------------------------------------------------------
(* A run *)

StartRun(w, entry, task, rows) ==
  /\ entry \in schedule /\ run[w] = NoRun /\ runs < MaxRuns
  /\ run' = [run EXCEPT ![w] =
               [task |-> task, now |-> clock, seen |-> rows, todo |-> rows,
                step |-> "check", on |-> None, began |-> clock]]
  /\ runs' = runs + 1
  /\ UNCHANGED <<notificationVars, schedule, app, jobLive, markers, sent, dropped, edits>>

StartReminders(w) == StartRun(w, "reminders", "1h", InterviewsDue("1h", clock))
StartAlerts(w) == StartRun(w, "alerts", "sla", Stale(clock))

At(w, step) == run[w] # NoRun /\ run[w].step = step

SetRun(w, r) ==
  /\ run' = [run EXCEPT ![w] = r]
  /\ UNCHANGED <<schedule, app, jobLive, runs, edits>>

\* Mutant: the reminder is sent before it is marked.
CheckSendsFirst(w, x) ==
  /\ At(w, "check") /\ x \in run[w].todo
  /\ ~Marked24h(run[w].task, x, run[w].now)
  /\ SetRun(w, [run[w] EXCEPT !.step = "send", !.on = x])
  /\ UNCHANGED <<notificationVars, markers, sent, dropped>>

\* The next row: passed over when its marker is found.
Check(w, x) ==
  /\ At(w, "check") /\ x \in run[w].todo
  /\ LET r == [run[w] EXCEPT !.began = IF @ = Never THEN clock ELSE @] IN
       SetRun(w, IF Marked24h(r.task, x, r.now)
                   THEN [r EXCEPT !.todo = @ \ {x}]
                   ELSE [r EXCEPT !.step = "mark", !.on = x])
  /\ UNCHANGED <<notificationVars, markers, sent, dropped>>

\* The marker is committed first ...
Mark(w) ==
  /\ At(w, "mark")
  /\ LET r == run[w] IN
       /\ markers' = markers \cup {[task |-> r.task, subject |-> r.on, now |-> r.now,
                                    created |-> r.began, committed |-> clock]}
       /\ SetRun(w, [r EXCEPT !.step = "send", !.began = Never])
  /\ UNCHANGED <<notificationVars, sent, dropped>>

\* ... then everyone is notified by fan_out, which catches its failures; but
\* when its rollback has expired the rows, the next one's attributes cannot be
\* read, and the task ends there.
Send(w, expired) ==
  /\ At(w, "send")
  /\ LET r == run[w]
         left == r.todo \ {r.on}
     IN /\ sent' = [sent EXCEPT ![<<r.task, r.on>>] = @ + 1]
        /\ SetRun(w, IF expired /\ left # {} THEN NoRun
                     ELSE [r EXCEPT !.todo = left, !.step = "check", !.on = None])
  /\ UNCHANGED <<notificationVars, markers, dropped>>

\* The reminders' second window, as of the same moment, in a new session.
NextWindow(w) ==
  /\ At(w, "check") /\ run[w].task = "1h" /\ run[w].todo = {}
  /\ LET rows == InterviewsDue("24h", run[w].now) IN
       SetRun(w, [run[w] EXCEPT !.task = "24h", !.seen = rows, !.todo = rows,
                                !.began = clock])
  /\ UNCHANGED <<notificationVars, markers, sent, dropped>>

EndRun(w) ==
  /\ At(w, "check") /\ run[w].task # "1h" /\ run[w].todo = {}
  /\ SetRun(w, NoRun)
  /\ UNCHANGED <<notificationVars, markers, sent, dropped>>

\* The worker dies, or the database fails; the task may be run again.
RunDies(w) ==
  /\ run[w] # NoRun
  /\ dropped' = IF At(w, "send") THEN dropped \cup {<<run[w].task, run[w].on>>} ELSE dropped
  /\ SetRun(w, NoRun)
  /\ UNCHANGED <<notificationVars, markers, sent>>
-----------------------------------------------------------------------------
Init ==
  /\ NotificationInit
  /\ schedule \in Schedules
  /\ app = [a \in Apps |-> [slot |-> None, status |-> "applied", live |-> TRUE, updated |-> 0]]
  /\ jobLive = TRUE
  /\ run = [w \in Workers |-> NoRun]
  /\ markers = {}
  /\ sent = [i \in Tasks \X Subject |-> 0]
  /\ dropped = {}
  /\ runs = 0 /\ edits = 0

RecruiterStep ==
  \/ DeleteJob
  \/ \E a \in Apps :
       \/ DeleteApplication(a)
       \/ \E s \in Slots \cup {None} : SetInterview(a, s)
       \/ \E s \in Asked : SetStatus(a, s)

RunStep ==
  \E w \in Workers :
    \/ StartReminders(w) \/ StartAlerts(w)
    \/ \E x \in Subject : Check(w, x)
    \/ \E expired \in BOOLEAN : Send(w, expired)
    \/ Mark(w) \/ NextWindow(w) \/ EndRun(w) \/ RunDies(w)

Next ==
  \/ ((Tick /\ clock < Horizon[schedule]) \/ FanStep) /\ UNCHANGED <<schedule, alertVars>>
  \/ WatcherStep
  \/ "digests" \in schedule /\ DigestStep /\ UNCHANGED <<schedule, alertVars>>
  \/ \E c \in Callers : Request(c) \/ RequestEnds(c)
  \/ RecruiterStep
  \/ RunStep

Spec == Init /\ [][Next]_vars
-----------------------------------------------------------------------------
(* Properties *)

Reminders == ReminderTasks \X Subject

\* Reminders are not sent twice, says the product's description: "fires once
\* ~24h before and once ~1h before; never duplicates".  Two overlapping runs
\* both find no marker.
ReminderOnce == \A i \in Reminders : sent[i] <= 1

\* A reminder is sent again only by runs that overlap: never more often than
\* there are workers, however often its interview is moved away and back.
RemindersBounded == \A i \in Reminders : sent[i] <= Cardinality(Workers)

\* What a run has passed over has its marker: the same application at another
\* time is not taken for it.  A marker without a reminder is about to be sent, or
\* its worker died between the two; and there is no reminder without a marker.
MarkersAccountForReminders ==
  /\ \A w \in Workers : run[w] # NoRun =>
       \A x \in run[w].seen \ run[w].todo :
         \E m \in markers : m.task = run[w].task /\ m.subject = x
  /\ \A i \in Reminders :
       /\ sent[i] > 0 => \E m \in markers : <<m.task, m.subject>> = i
       /\ \A m \in markers : <<m.task, m.subject>> = i =>
            \/ sent[i] > 0 \/ i \in dropped
            \/ \E w \in Workers : At(w, "send") /\ <<run[w].task, run[w].on>> = i

\* An alert made after another was committed comes a day later than it, going
\* by the beginning of the run.
AlertsSpaced ==
  \A m1, m2 \in {m \in markers : m.task = "sla"} :
    m1.subject = m2.subject /\ m1.committed < m2.created => m1.created + Day <= m2.now
=============================================================================
