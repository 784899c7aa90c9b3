---------------------------- MODULE Notifications ----------------------------
(***************************************************************************)
(* fan_out, which every handler and scheduled task calls to notify the     *)
(* watchers of a job and of a candidate, and the digest tasks, which mail  *)
(* what fan_out only stored.  Mail is handed to the broker before the row  *)
(* that says so is committed; a commit that fails expires everything the   *)
(* session holds.                                                          *)
(***************************************************************************)
EXTENDS Naturals, FiniteSets

CONSTANTS
  Users,       \* the job's creator and possible watchers
  Creator,
  Preference,  \* each user's digest_preference
  Window,      \* how far back the digest of each preference looks
  Callers,     \* handlers that notify
  Mailers,     \* workers that run digests
  MaxTime,     \* bound on the clock
  MaxFans,     \* bound on the calls of fan_out
  MaxDigests,  \* bound on the runs of the digests
  MaxFaults,   \* bound on failures, and on the deaths of runs of a digest
  NoFan,
  NoDigest

DigestPrefs == {"daily", "weekly"}
Times == 0..MaxTime
Never == MaxTime + 1

ASSUME NotificationConstants ==
  /\ Creator \in Users
  /\ Preference \in [Users -> {"immediate"} \cup DigestPrefs]
  /\ Window \in [DigestPrefs -> Nat \ {0}]
  /\ IsFiniteSet(Mailers)
  /\ MaxTime \in Nat /\ MaxFans \in Nat /\ MaxDigests \in Nat /\ MaxFaults \in Nat

Fans == 1..MaxFans
\* created_at is when its transaction began, committed when others see it.
Notification == [fan: Fans, user: Users, emailed: BOOLEAN,
                 created: Times, committed: Times]
\* A call of fan_out: who is still to be notified, whether the transaction
\* began before the present recipient, and whether its objects are expired.
Fan == [id: Fans, todo: SUBSET Users, began: Times \cup {Never},
        expired: BOOLEAN]
Ids == Fans \X Users
\* A run of a digest: the users still to be read, the notifications it holds of
\* the one it is at, when it read them, and whether it has published its mail.
Digest == [preference: DigestPrefs, now: Times, todo: SUBSET Users,
           due: SUBSET Ids, read: Times, published: BOOLEAN]
\* A user that a run of a digest got through.
Digested == [user: Users, now: Times, read: Times]

ASSUME NoneOfThem == NoFan \notin Fan /\ NoDigest \notin Digest

VARIABLES
  clock,
  watching,   \* the job's watchers
  muted,      \* those of them whose filter leaves the items out
  following,  \* the candidate's watchers
  active,     \* users that are neither disabled nor deleted
  notifs,     \* the notifications table
  mails,      \* how often each notification was mailed
  fan,        \* what each caller's fan_out is at
  fans,       \* calls made
  owed,       \* <<call, user>> of the recipients of each call
  skipped,    \* <<call, user>> lost to a failure
  digest,     \* what each mailer's run of a digest is at
  digests,    \* runs begun
  digested,   \* whom the runs got through
  faults

fanVars == <<notifs, mails, fan, fans, owed, skipped>>
digestVars == <<digest, digests, digested>>
watcherVars == <<watching, muted, following>>
notificationVars == <<clock, watcherVars, active, fanVars, digestVars, faults>>

NotificationTypeOK ==
  /\ clock \in Times
  /\ muted \subseteq watching /\ watching \subseteq Users /\ following \subseteq Users
  /\ active \subseteq Users
  /\ notifs \subseteq Notification
  /\ mails \in [Ids -> Nat]
  /\ fan \in [Callers -> Fan \cup {NoFan}]
  /\ fans \in 0..MaxFans
  /\ owed \subseteq Ids /\ skipped \subseteq Ids
  /\ digest \in [Mailers -> Digest \cup {NoDigest}]
  /\ digests \in 0..MaxDigests
  /\ digested \subseteq Digested
  /\ faults \in 0..MaxFaults

Tick ==
  /\ clock < MaxTime
  /\ clock' = clock + 1
  /\ UNCHANGED <<watcherVars, active, fanVars, digestVars, faults>>
-----------------------------------------------------------------------------
(* Watchers and users *)

\* add_job_watcher; a user has one row per job, and the filter is set again.
Watch(u, mute) ==
  /\ u \in active
  /\ watching' = watching \cup {u}
  /\ muted' = IF mute THEN muted \cup {u} ELSE muted \ {u}
  /\ UNCHANGED <<clock, following, active, fanVars, digestVars, faults>>

\* update_job_watcher_filters, whose row is there even if its user is not.
SetFilter(u, mute) ==
  /\ u \in watching
  /\ muted' = IF mute THEN muted \cup {u} ELSE muted \ {u}
  /\ UNCHANGED <<clock, watching, following, active, fanVars, digestVars, faults>>

\* Mutant: the filter outlives the row.
UnwatchKeepsFilter(u) ==
  /\ u \in watching
  /\ watching' = watching \ {u}
  /\ UNCHANGED <<clock, muted, following, active, fanVars, digestVars, faults>>

\* remove_job_watcher
Unwatch(u) ==
  /\ u \in watching
  /\ watching' = watching \ {u} /\ muted' = muted \ {u}
  /\ UNCHANGED <<clock, following, active, fanVars, digestVars, faults>>

\* add_candidate_watcher
Follow(u) ==
  /\ u \in active \ following
  /\ following' = following \cup {u}
  /\ UNCHANGED <<clock, watching, muted, active, fanVars, digestVars, faults>>

\* remove_candidate_watcher
Unfollow(u) ==
  /\ u \in following
  /\ following' = following \ {u}
  /\ UNCHANGED <<clock, watching, muted, active, fanVars, digestVars, faults>>

\* update_user_active
Disable(u) ==
  /\ u \in active
  /\ active' = active \ {u}
  /\ UNCHANGED <<clock, watcherVars, fanVars, digestVars, faults>>
-----------------------------------------------------------------------------
(* fan_out *)

Immediate(u) == Preference[u] \notin DigestPrefs

\* Whom an item about the job and the candidate goes to.
Recipients == {Creator} \cup (watching \ muted) \cup following

\* The recipients, and the users among them, are read once.
StartFan(c) ==
  /\ fan[c] = NoFan /\ fans < MaxFans
  /\ LET to == Recipients \cap active IN
       /\ fan' = [fan EXCEPT ![c] =
                    [id |-> fans + 1, todo |-> to, began |-> clock, expired |-> FALSE]]
       /\ owed' = owed \cup {<<fans + 1, u>> : u \in to}
  /\ fans' = fans + 1
  /\ UNCHANGED <<clock, watcherVars, active, notifs, mails, skipped, digestVars, faults>>

MailedAll(ids) == [i \in Ids |-> IF i \in ids THEN mails[i] + 1 ELSE mails[i]]

\* Mutant: a mail that cannot be published ends the loop.
StopsUnpublished(todo, u, published) == IF published THEN todo \ {u} ELSE {}

Rest(todo, u, published) == todo \ {u}

\* Mutant: a mail that could not be published counts as sent.
MarkedAnyway(u, published) == Immediate(u)

Marked(u, published) == Immediate(u) /\ published

\* One recipient, committed.
Notify(c, u, published) ==
  /\ fan[c] # NoFan /\ u \in fan[c].todo /\ ~fan[c].expired
  /\ Immediate(u) /\ ~published => faults < MaxFaults
  /\ faults' = IF Immediate(u) /\ ~published THEN faults + 1 ELSE faults
  /\ LET f == fan[c]
         created == IF f.began = Never THEN clock ELSE f.began
     IN /\ notifs' = notifs \cup {[fan |-> f.id, user |-> u,
                                   emailed |-> Marked(u, published),
                                   created |-> created, committed |-> clock]}
        /\ mails' = IF Immediate(u) /\ published THEN MailedAll({<<f.id, u>>}) ELSE mails
        /\ fan' = [fan EXCEPT ![c].todo = Rest(@, u, published),
                                 ![c].began = Never]
  /\ UNCHANGED <<clock, watcherVars, active, fans, owed, skipped, digestVars>>

\* The commit fails, when the mail is out already.  The rollback expires the
\* users, so that everyone after is skipped as well.
NotifyFails(c, u) ==
  /\ fan[c] # NoFan /\ u \in fan[c].todo /\ ~fan[c].expired
  /\ faults < MaxFaults /\ faults' = faults + 1
  /\ mails' = IF Immediate(u) THEN MailedAll({<<fan[c].id, u>>}) ELSE mails
  /\ skipped' = skipped \cup ({fan[c].id} \X fan[c].todo)
  /\ fan' = [fan EXCEPT ![c].todo = {}, ![c].expired = TRUE]
  /\ UNCHANGED <<clock, watcherVars, active, notifs, fans, owed, digestVars>>

\* fan_out returns.
EndFan(c) ==
  /\ fan[c] # NoFan /\ fan[c].todo = {}
  /\ fan' = [fan EXCEPT ![c] = NoFan]
  /\ UNCHANGED <<clock, watcherVars, active, notifs, mails, fans, owed, skipped, digestVars,
                 faults>>

\* The process dies in it, perhaps when one recipient's mail is out already.
FanDies(c) ==
  /\ fan[c] # NoFan
  /\ skipped' = skipped \cup ({fan[c].id} \X fan[c].todo)
  /\ \/ mails' = mails
     \/ \E u \in fan[c].todo : Immediate(u) /\ mails' = MailedAll({<<fan[c].id, u>>})
  /\ fan' = [fan EXCEPT ![c] = NoFan]
  /\ UNCHANGED <<clock, watcherVars, active, notifs, fans, owed, digestVars, faults>>
-----------------------------------------------------------------------------
(* The digests *)

\* The task of a preference begins, and has someone to write to.  Nothing keeps
\* another run of it waiting: a late or redelivered one runs beside it.
StartDigest(d, p) ==
  /\ digest[d] = NoDigest /\ digests < MaxDigests
  /\ \E u \in active : Preference[u] = p
  /\ digest' = [digest EXCEPT ![d] =
                  [preference |-> p, now |-> clock, todo |-> {u \in active : Preference[u] = p},
                   due |-> {}, read |-> clock, published |-> FALSE]]
  /\ digests' = digests + 1
  /\ UNCHANGED <<clock, watcherVars, active, fanVars, digested, faults>>

\* Mutant: every digest looks back a day.
DayOnly(n, p, now) == n.created + Window["daily"] > now

InWindow(n, p, now) == n.created + Window[p] > now

\* The notifications of a user that no committed digest has marked yet.
Due(d, u) ==
  {n \in notifs : n.user = u /\ ~n.emailed
                   /\ InWindow(n, digest[d].preference, digest[d].now)}

\* The next user's are read; when there are none, the user is through.
ReadDue(d, u) ==
  /\ digest[d] # NoDigest /\ digest[d].due = {} /\ u \in digest[d].todo
  /\ digest' = [digest EXCEPT ![d].todo = @ \ {u},
                              ![d].due = {<<n.fan, n.user>> : n \in Due(d, u)},
                              ![d].read = clock]
  /\ digested' = IF Due(d, u) # {} THEN digested
                 ELSE digested \cup {[user |-> u, now |-> digest[d].now, read |-> clock]}
  /\ UNCHANGED <<clock, watcherVars, active, fanVars, digests, faults>>

\* The mail that lists them is published ...
PublishDigest(d) ==
  /\ digest[d] # NoDigest /\ digest[d].due # {} /\ ~digest[d].published
  /\ mails' = MailedAll(digest[d].due)
  /\ digest' = [digest EXCEPT ![d].published = TRUE]
  /\ UNCHANGED <<clock, watcherVars, active, notifs, fan, fans, owed, skipped,
                 digests, digested, faults>>

\* ... and then they are marked, whoever has marked them meanwhile.
MarkDigest(d) ==
  /\ digest[d] # NoDigest /\ digest[d].published
  /\ LET g == digest[d]
         held == {n \in notifs : <<n.fan, n.user>> \in g.due}
     IN /\ notifs' = (notifs \ held) \cup {[n EXCEPT !.emailed = TRUE] : n \in held}
        /\ digested' = digested \cup {[user |-> n.user, now |-> g.now, read |-> g.read] : n \in held}
  /\ digest' = [digest EXCEPT ![d].due = {}, ![d].published = FALSE]
  /\ UNCHANGED <<clock, watcherVars, active, mails, fan, fans, owed, skipped, digests, faults>>

\* Publishing or committing fails, or the worker dies: no row is marked, and
\* the rest of the run is given up, the rollback having expired its users.
DigestFails(d) ==
  /\ digest[d] # NoDigest
  /\ faults < MaxFaults /\ faults' = faults + 1
  /\ digest' = [digest EXCEPT ![d] = NoDigest]
  /\ UNCHANGED <<clock, watcherVars, active, fanVars, digests, digested>>

EndDigest(d) ==
  /\ digest[d] # NoDigest /\ digest[d].todo = {} /\ digest[d].due = {}
  /\ digest' = [digest EXCEPT ![d] = NoDigest]
  /\ UNCHANGED <<clock, watcherVars, active, fanVars, digests, digested, faults>>
-----------------------------------------------------------------------------
NotificationInit ==
  /\ clock = 0
  /\ watching = {} /\ muted = {} /\ following = {}
  /\ active = Users
  /\ notifs = {}
  /\ mails = [i \in Ids |-> 0]
  /\ fan = [c \in Callers |-> NoFan]
  /\ fans = 0
  /\ owed = {} /\ skipped = {}
  /\ digest = [d \in Mailers |-> NoDigest]
  /\ digests = 0
  /\ digested = {}
  /\ faults = 0

UserStep ==
  \E u \in Users :
    \/ Unwatch(u) \/ Follow(u) \/ Unfollow(u) \/ Disable(u)
    \/ \E mute \in BOOLEAN : Watch(u, mute) \/ SetFilter(u, mute)

FanStep ==
  \E c \in Callers, u \in Users :
    NotifyFails(c, u) \/ \E published \in BOOLEAN : Notify(c, u, published)

DigestStep ==
  \E d \in Mailers :
    \/ \E p \in DigestPrefs : StartDigest(d, p)
    \/ \E u \in Users : ReadDue(d, u)
    \/ PublishDigest(d) \/ MarkDigest(d) \/ DigestFails(d) \/ EndDigest(d)
-----------------------------------------------------------------------------
(* Properties *)

Row(k, u) == {n \in notifs : n.fan = k /\ n.user = u}

\* A notification is marked as mailed only if it was.  fan_out mails it once at
\* most, and no digest mails it again; digests mail it once, but for runs that
\* overlap, one to a worker, and runs that fail between the mail and the mark.
MailsMatchMarks ==
  \A k \in Fans, u \in Users :
    /\ mails[<<k, u>>] <= IF Immediate(u) THEN 1 ELSE faults + Cardinality(Mailers)
    /\ \A n \in Row(k, u) : n.emailed => mails[<<k, u>>] > 0

\* A call that is over has notified each of its recipients, but for those a
\* failed commit or the death of the caller cut off.
EveryoneNotified ==
  \A k \in Fans, u \in Users :
    /\ <<k, u>> \in owed
    /\ \A c \in Callers : fan[c] # NoFan => fan[c].id # k
    => Row(k, u) # {} \/ <<k, u>> \in skipped

\* A digest that got through a user leaves none of what was committed when it
\* read unmailed, but for what was created a window before the digest began: also
\* when it is late, overlaps another, or a transaction commits long after it began.
DigestsLeaveNothingOut ==
  \A n \in notifs, d \in digested :
    n.user = d.user /\ n.committed < d.read /\ ~n.emailed
    => n.created + Window[Preference[n.user]] <= d.now
=============================================================================
