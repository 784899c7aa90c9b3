----------------------------- MODULE AlertsProofs -----------------------------
(***************************************************************************)
(* What holds of notifications, digests, reminders and alerts for any      *)
(* number of users, callers, workers, applications and runs.               *)
(***************************************************************************)
EXTENDS ScheduledAlerts, TLAPS, FiniteSetTheorems

(* What the steps do to the notifications, whoever takes them.             *)
NotificationNext ==
  \/ Tick \/ FanStep \/ UserStep \/ DigestStep
  \/ \E c \in Callers : StartFan(c) \/ EndFan(c) \/ FanDies(c)

LEMMA NotificationMoves == [Next]_vars => [NotificationNext]_notificationVars
<1>1. CASE RecruiterStep
  BY <1>1 DEF RecruiterStep, DeleteJob, DeleteApplication, SetInterview, SetStatus, Edit
<1>2. CASE RunStep
  BY <1>2 DEF RunStep, StartReminders, StartAlerts, StartRun, Check, Mark, Send,
              NextWindow, EndRun, RunDies
<1>3. CASE UNCHANGED vars
  BY <1>3 DEF vars
<1> QED
  BY <1>1, <1>2, <1>3 DEF Next, NotificationNext, WatcherStep, Request, RequestEnds

(* The marks and runs of the beat are moved by runs alone.                 *)
beatVars == <<run, markers, sent, dropped>>

RunMoves(w) ==
  \/ StartReminders(w) \/ StartAlerts(w)
  \/ \E x \in Subject : Check(w, x)
  \/ \E expired \in BOOLEAN : Send(w, expired)
  \/ Mark(w) \/ NextWindow(w) \/ EndRun(w) \/ RunDies(w)

LEMMA BeatMoves == [Next]_vars => UNCHANGED beatVars \/ \E w \in Workers : RunMoves(w)
<1>1. CASE RecruiterStep
  BY <1>1 DEF RecruiterStep, DeleteJob, DeleteApplication, SetInterview, SetStatus, Edit,
              beatVars
<1>2. CASE RunStep
  BY <1>2 DEF RunStep, RunMoves
<1>3. CASE UNCHANGED vars
  BY <1>3 DEF vars, alertVars, beatVars
<1> QED
  BY <1>1, <1>2, <1>3
     DEF Next, WatcherStep, Request, RequestEnds, alertVars, beatVars

(* Time does not run back, and nothing but time passes at a tick.          *)
LEMMA ClockMoves ==
  ASSUME clock \in Times, [Next]_vars
  PROVE  clock' \in Times /\ clock <= clock'
<1> USE NotificationConstants DEF Times
<1>1. CASE UNCHANGED notificationVars
  BY <1>1 DEF notificationVars
<1>2. CASE Tick
  BY <1>2 DEF Tick
<1>3. CASE FanStep
  <2>1. PICK c \in Callers, u \in Users :
          NotifyFails(c, u) \/ \E published \in BOOLEAN : Notify(c, u, published)
    BY <1>3 DEF FanStep
  <2>2. CASE NotifyFails(c, u)
    BY <2>2 DEF NotifyFails
  <2>3. ASSUME NEW published \in BOOLEAN, Notify(c, u, published)
        PROVE  clock' = clock
    BY <2>3 DEF Notify
  <2> QED
    BY <2>1, <2>2, <2>3
<1>4. CASE UserStep
  BY <1>4 DEF UserStep, Watch, SetFilter, Unwatch, Follow, Unfollow, Disable
<1>5. CASE DigestStep
  <2>1. clock' = clock
    BY <1>5 DEF DigestStep, StartDigest, ReadDue, PublishDigest, MarkDigest, DigestFails,
                EndDigest
  <2> QED
    BY ONLY <2>1, clock \in Times, NotificationConstants DEF Times
<1>6. CASE \E c \in Callers : StartFan(c) \/ EndFan(c) \/ FanDies(c)
  BY <1>6 DEF StartFan, EndFan, FanDies
<1> QED
  BY <1>1, <1>2, <1>3, <1>4, <1>5, <1>6, NotificationMoves DEF NotificationNext
-----------------------------------------------------------------------------
(* Types of the notifications *)

LEMMA TickTyped ==
  ASSUME NotificationTypeOK, Tick
  PROVE  NotificationTypeOK'
  BY NotificationConstants
     DEF NotificationTypeOK, Tick, Times, watcherVars, fanVars, digestVars

LEMMA UserTyped ==
  ASSUME NotificationTypeOK, UserStep
  PROVE  NotificationTypeOK'
  BY DEF NotificationTypeOK, UserStep, Watch, SetFilter, Unwatch, Follow, Unfollow,
         Disable, watcherVars, fanVars, digestVars

LEMMA StartFanTyped ==
  ASSUME NotificationTypeOK, NEW c \in Callers, StartFan(c)
  PROVE  NotificationTypeOK'
<1> DEFINE to == Recipients \cap active
           f == [id |-> fans + 1, todo |-> to, began |-> clock, expired |-> FALSE]
<1>1. fans + 1 \in Fans /\ fans' \in 0..MaxFans
  BY NotificationConstants DEF NotificationTypeOK, StartFan, Fans
<1>2. to \subseteq Users
  BY DEF NotificationTypeOK
<1>3. f \in Fan
  BY <1>1, <1>2 DEF Fan, NotificationTypeOK
<1>4. fan' = [fan EXCEPT ![c] = f] /\ owed' = owed \cup {<<fans + 1, u>> : u \in to}
  BY DEF StartFan
<1> HIDE DEF f
<1>5. fan' \in [Callers -> Fan \cup {NoFan}]
  BY <1>3, <1>4 DEF NotificationTypeOK
<1>6. owed' \subseteq Ids
  BY <1>1, <1>2, <1>4 DEF NotificationTypeOK, Ids
<1> QED
  BY <1>1, <1>5, <1>6 DEF NotificationTypeOK, StartFan, watcherVars, digestVars

(* What a call is at, when there is one.                                   *)
LEMMA FanTyped ==
  ASSUME NotificationTypeOK, NEW c \in Callers, fan[c] # NoFan
  PROVE  /\ fan[c] \in Fan /\ fan[c].id \in Fans /\ fan[c].todo \subseteq Users
         /\ fan[c].began \in Times \cup {Never}
  BY DEF NotificationTypeOK, Fan

(* The notification that a call commits.                                   *)
Added(c, u, published) ==
  [fan |-> fan[c].id, user |-> u, emailed |-> Marked(u, published),
   created |-> IF fan[c].began = Never THEN clock ELSE fan[c].began, committed |-> clock]

LEMMA NotifyFan ==
  ASSUME NotificationTypeOK, NEW c \in Callers, NEW u \in Users, NEW published \in BOOLEAN,
         Notify(c, u, published)
  PROVE  /\ fan[c] # NoFan /\ u \in fan[c].todo
         /\ \A b \in Callers : b # c => fan'[b] = fan[b]
         /\ fan'[c] # NoFan /\ fan'[c].id = fan[c].id
         /\ fan'[c].todo = fan[c].todo \ {u}
         /\ fan' \in [Callers -> Fan \cup {NoFan}]
<1>1. fan[c] # NoFan /\ u \in fan[c].todo
  BY DEF Notify
<1>2. /\ fan[c] \in Fan /\ fan[c].id \in Fans /\ fan[c].todo \subseteq Users
      /\ fan[c].began \in Times \cup {Never}
  BY <1>1, FanTyped
<1>3. fan' = [fan EXCEPT ![c].todo = fan[c].todo \ {u}, ![c].began = Never]
  BY DEF Notify, Rest, NotificationTypeOK
<1>4. [fan[c] EXCEPT !.todo = fan[c].todo \ {u}, !.began = Never] \in Fan
  BY <1>2 DEF Fan, Never
<1>5. fan'[c] = [fan[c] EXCEPT !.todo = fan[c].todo \ {u}, !.began = Never]
  BY <1>3 DEF NotificationTypeOK
<1>6. /\ fan'[c] \in Fan /\ fan'[c] # NoFan /\ fan'[c].id = fan[c].id
      /\ fan'[c].todo = fan[c].todo \ {u}
  BY <1>2, <1>4, <1>5, NoneOfThem DEF Fan
<1>7. \A b \in Callers : b # c => fan'[b] = fan[b]
  BY <1>3 DEF NotificationTypeOK
<1>8. fan' \in [Callers -> Fan \cup {NoFan}]
  BY <1>3, <1>6, <1>7 DEF NotificationTypeOK
<1> QED
  BY <1>1, <1>6, <1>7, <1>8

LEMMA NotifyAdds ==
  ASSUME NotificationTypeOK, NEW c \in Callers, NEW u \in Users, NEW published \in BOOLEAN,
         Notify(c, u, published)
  PROVE  /\ Added(c, u, published) \in Notification
         /\ Added(c, u, published).fan = fan[c].id /\ Added(c, u, published).user = u
         /\ Added(c, u, published).committed = clock
         /\ Added(c, u, published).emailed <=> Immediate(u) /\ published
         /\ notifs' = notifs \cup {Added(c, u, published)}
<1>1. fan[c] # NoFan
  BY DEF Notify
<1>2. fan[c].id \in Fans /\ fan[c].began \in Times \cup {Never}
  BY <1>1, FanTyped
<1>3. (Marked(u, published) <=> Immediate(u) /\ published) /\ Marked(u, published) \in BOOLEAN
  BY DEF Marked, Immediate
<1>4. Added(c, u, published) \in Notification
  BY <1>2, <1>3 DEF Added, Notification, NotificationTypeOK, Times, Never
<1>5. notifs' = notifs \cup {Added(c, u, published)}
  BY DEF Notify, Added
<1>6. /\ Added(c, u, published).fan = fan[c].id /\ Added(c, u, published).user = u
      /\ Added(c, u, published).committed = clock
      /\ Added(c, u, published).emailed = Marked(u, published)
  BY DEF Added
<1> QED
  BY <1>3, <1>4, <1>5, <1>6

(* The notifications of a set of calls and users are mailed once more.     *)
LEMMA MailedMore ==
  ASSUME NotificationTypeOK, NEW ids
  PROVE  /\ MailedAll(ids) \in [Ids -> Nat]
         /\ \A i \in Ids : MailedAll(ids)[i] = IF i \in ids THEN mails[i] + 1 ELSE mails[i]
  BY DEF MailedAll, NotificationTypeOK

LEMMA NotifyMails ==
  ASSUME NotificationTypeOK, NEW c \in Callers, NEW u \in Users, NEW published \in BOOLEAN,
         Notify(c, u, published)
  PROVE  /\ <<fan[c].id, u>> \in Ids
         /\ Immediate(u) /\ published => mails' = MailedAll({<<fan[c].id, u>>})
         /\ ~(Immediate(u) /\ published) => mails' = mails
         /\ mails' \in [Ids -> Nat]
         /\ faults' \in 0..MaxFaults /\ faults <= faults'
<1>1. fan[c] # NoFan /\ u \in fan[c].todo
  BY DEF Notify
<1>2. <<fan[c].id, u>> \in Ids
  BY <1>1, FanTyped DEF Ids
<1>3. faults' \in 0..MaxFaults /\ faults <= faults'
  BY NotificationConstants DEF Notify, NotificationTypeOK
<1>4. /\ Immediate(u) /\ published => mails' = MailedAll({<<fan[c].id, u>>})
      /\ ~(Immediate(u) /\ published) => mails' = mails
  BY DEF Notify
<1>5. mails' \in [Ids -> Nat]
  BY <1>4, MailedMore DEF NotificationTypeOK
<1> QED
  BY <1>2, <1>3, <1>4, <1>5

LEMMA NotifyTyped ==
  ASSUME NotificationTypeOK, NEW c \in Callers, NEW u \in Users, NEW published \in BOOLEAN,
         Notify(c, u, published)
  PROVE  NotificationTypeOK'
<1>1. mails' \in [Ids -> Nat] /\ faults' \in 0..MaxFaults
  BY NotifyMails
<1>2. notifs' \subseteq Notification
  BY NotifyAdds DEF NotificationTypeOK
<1>3. fan' \in [Callers -> Fan \cup {NoFan}]
  BY NotifyFan
<1>4. UNCHANGED <<clock, watcherVars, active, fans, owed, skipped, digestVars>>
  BY DEF Notify
<1> QED
  BY <1>1, <1>2, <1>3, <1>4 DEF NotificationTypeOK, watcherVars, digestVars

(* A failed commit, and every other end of a call.                         *)
LEMMA NotifyFailsTyped ==
  ASSUME NotificationTypeOK, NEW c \in Callers, NEW u \in Users, NotifyFails(c, u)
  PROVE  NotificationTypeOK'
<1>1. fan[c] # NoFan /\ u \in fan[c].todo
  BY DEF NotifyFails
<1>2. /\ fan[c] \in Fan /\ fan[c].id \in Fans /\ fan[c].todo \subseteq Users
      /\ fan[c].began \in Times \cup {Never}
  BY <1>1, FanTyped
<1>3. mails' \in [Ids -> Nat]
  BY MailedMore DEF NotifyFails, NotificationTypeOK
<1>4. fan' \in [Callers -> Fan \cup {NoFan}]
  <2>1. fan' = [fan EXCEPT ![c] = [fan[c] EXCEPT !.todo = {}, !.expired = TRUE]]
    BY DEF NotifyFails, NotificationTypeOK
  <2>2. [fan[c] EXCEPT !.todo = {}, !.expired = TRUE] \in Fan
    BY <1>2 DEF Fan
  <2> QED
    BY <2>1, <2>2 DEF NotificationTypeOK
<1>5. faults' \in 0..MaxFaults
  BY NotificationConstants DEF NotifyFails, NotificationTypeOK
<1>6. skipped' \subseteq Ids
  <2>1. skipped' = skipped \cup ({fan[c].id} \X fan[c].todo)
    BY DEF NotifyFails
  <2> QED
    BY <1>2, <2>1 DEF NotificationTypeOK, Ids
<1>7. UNCHANGED <<clock, watcherVars, active, notifs, fans, owed, digestVars>>
  BY DEF NotifyFails
<1> QED
  BY <1>3, <1>4, <1>5, <1>6, <1>7 DEF NotificationTypeOK, watcherVars, digestVars

LEMMA FanEndsTyped ==
  ASSUME NotificationTypeOK, NEW c \in Callers, EndFan(c) \/ FanDies(c)
  PROVE  NotificationTypeOK'
<1>1. CASE EndFan(c)
  BY <1>1 DEF NotificationTypeOK, EndFan, watcherVars, digestVars
<1>2. CASE FanDies(c)
  <2>1. fan[c].id \in Fans /\ fan[c].todo \subseteq Users
    BY <1>2, FanTyped DEF FanDies
  <2>2. skipped' = skipped \cup ({fan[c].id} \X fan[c].todo)
    BY <1>2 DEF FanDies
  <2>3. skipped' \subseteq Ids
    BY <2>1, <2>2 DEF NotificationTypeOK, Ids
  <2>4. mails' \in [Ids -> Nat]
    <3>1. mails' = mails \/ \E u \in fan[c].todo : mails' = MailedAll({<<fan[c].id, u>>})
      BY <1>2 DEF FanDies
    <3>2. ASSUME NEW u \in fan[c].todo, mails' = MailedAll({<<fan[c].id, u>>})
          PROVE  mails' \in [Ids -> Nat]
      BY <3>2, MailedMore
    <3> QED
      BY <3>1, <3>2 DEF NotificationTypeOK
  <2>5. fan' \in [Callers -> Fan \cup {NoFan}]
        /\ UNCHANGED <<clock, watcherVars, active, notifs, fans, owed, digestVars, faults>>
    BY <1>2 DEF FanDies, NotificationTypeOK
  <2> QED
    BY <2>3, <2>4, <2>5 DEF NotificationTypeOK, watcherVars, digestVars
<1> QED
  BY <1>1, <1>2

(* What a worker's run of a digest is at, when there is one.               *)
LEMMA DigestTyped ==
  ASSUME NotificationTypeOK, NEW d \in Mailers, digest[d] # NoDigest
  PROVE  /\ digest[d] \in Digest /\ digest[d].preference \in DigestPrefs
         /\ digest[d].now \in Times /\ digest[d].todo \subseteq Users
         /\ digest[d].due \subseteq Ids /\ digest[d].read \in Times
         /\ digest[d].published \in BOOLEAN
  BY DEF NotificationTypeOK, Digest

LEMMA DigestSet ==
  ASSUME NotificationTypeOK, NEW d \in Mailers, NEW g \in Digest,
         digest' = [digest EXCEPT ![d] = g]
  PROVE  /\ digest' \in [Mailers -> Digest \cup {NoDigest}]
         /\ digest'[d] = g /\ digest'[d] # NoDigest
         /\ \A e \in Mailers : e # d => digest'[e] = digest[e]
  BY NoneOfThem DEF NotificationTypeOK

LEMMA StartDigestEffect ==
  ASSUME NotificationTypeOK, NEW d \in Mailers, NEW p \in DigestPrefs, StartDigest(d, p)
  PROVE  /\ digest' \in [Mailers -> Digest \cup {NoDigest}]
         /\ digest[d] = NoDigest /\ digest'[d] # NoDigest
         /\ digest'[d].preference = p /\ digest'[d].read = clock /\ digest'[d].due = {}
         /\ ~digest'[d].published
         /\ \A u \in digest'[d].todo : Preference[u] = p
         /\ \A e \in Mailers : e # d => digest'[e] = digest[e]
         /\ UNCHANGED <<clock, notifs, mails, fan, fans, owed, skipped, digested, faults>>
<1> DEFINE g == [preference |-> p, now |-> clock, todo |-> {u \in active : Preference[u] = p},
                 due |-> {}, read |-> clock, published |-> FALSE]
<1>1. g \in Digest
  BY DEF Digest, NotificationTypeOK
<1>2. digest[d] = NoDigest /\ digest' = [digest EXCEPT ![d] = g]
      /\ UNCHANGED <<clock, notifs, mails, fan, fans, owed, skipped, digested, faults>>
  BY DEF StartDigest, fanVars
<1>3. /\ g.preference = p /\ g.read = clock /\ g.due = {} /\ ~g.published
      /\ \A u \in g.todo : Preference[u] = p
  OBVIOUS
<1> HIDE DEF g
<1> QED
  BY <1>1, <1>2, <1>3, DigestSet

(* The ids of the notifications a run finds of a user.                     *)
DueIds(d, u) == {<<n.fan, n.user>> : n \in Due(d, u)}

LEMMA ReadDueEffect ==
  ASSUME NotificationTypeOK, NEW d \in Mailers, NEW u \in Users, ReadDue(d, u)
  PROVE  /\ digest' \in [Mailers -> Digest \cup {NoDigest}]
         /\ digest[d] # NoDigest /\ digest[d].due = {} /\ u \in digest[d].todo
         /\ digest'[d] # NoDigest
         /\ digest'[d].preference = digest[d].preference /\ digest'[d].now = digest[d].now
         /\ digest'[d].todo = digest[d].todo \ {u}
         /\ digest'[d].due = DueIds(d, u) /\ digest'[d].read = clock
         /\ digest'[d].published = digest[d].published
         /\ \A e \in Mailers : e # d => digest'[e] = digest[e]
         /\ UNCHANGED <<clock, notifs, mails, fan, fans, owed, skipped, faults>>
<1> DEFINE g == [digest[d] EXCEPT !.todo = @ \ {u}, !.due = DueIds(d, u), !.read = clock]
<1>1. digest[d] # NoDigest /\ digest[d].due = {} /\ u \in digest[d].todo
      /\ UNCHANGED <<clock, notifs, mails, fan, fans, owed, skipped, faults>>
  BY DEF ReadDue, fanVars
<1>2. digest[d] \in Digest /\ clock \in Times
  BY <1>1, DigestTyped DEF NotificationTypeOK
<1>3. DueIds(d, u) \subseteq Ids
  BY DEF DueIds, Due, Ids, NotificationTypeOK, Notification
<1>4. g \in Digest
  BY <1>2, <1>3 DEF Digest
<1>5. digest' = [digest EXCEPT ![d] = g]
  BY DEF ReadDue, DueIds, NotificationTypeOK
<1>6. /\ g.preference = digest[d].preference /\ g.now = digest[d].now
      /\ g.todo = digest[d].todo \ {u} /\ g.due = DueIds(d, u) /\ g.read = clock
      /\ g.published = digest[d].published
  BY <1>2 DEF Digest
<1> HIDE DEF g
<1> QED
  BY <1>1, <1>4, <1>5, <1>6, DigestSet

LEMMA PublishDigestEffect ==
  ASSUME NotificationTypeOK, NEW d \in Mailers, PublishDigest(d)
  PROVE  /\ digest' \in [Mailers -> Digest \cup {NoDigest}]
         /\ digest[d] # NoDigest /\ digest[d].due # {} /\ ~digest[d].published
         /\ digest'[d] # NoDigest /\ digest'[d].published
         /\ digest'[d].preference = digest[d].preference /\ digest'[d].now = digest[d].now
         /\ digest'[d].todo = digest[d].todo /\ digest'[d].due = digest[d].due
         /\ digest'[d].read = digest[d].read
         /\ \A e \in Mailers : e # d => digest'[e] = digest[e]
         /\ mails' = MailedAll(digest[d].due)
         /\ UNCHANGED <<clock, notifs, fan, fans, owed, skipped, digested, faults>>
<1> DEFINE g == [digest[d] EXCEPT !.published = TRUE]
<1>1. digest[d] # NoDigest /\ digest[d].due # {} /\ ~digest[d].published
      /\ mails' = MailedAll(digest[d].due)
      /\ UNCHANGED <<clock, notifs, fan, fans, owed, skipped, digested, faults>>
  BY DEF PublishDigest
<1>2. digest[d] \in Digest
  BY <1>1, DigestTyped
<1>3. g \in Digest
  BY <1>2 DEF Digest
<1>4. digest' = [digest EXCEPT ![d] = g]
  BY DEF PublishDigest, NotificationTypeOK
<1>5. /\ g.preference = digest[d].preference /\ g.now = digest[d].now
      /\ g.todo = digest[d].todo /\ g.due = digest[d].due /\ g.read = digest[d].read
      /\ g.published
  BY <1>2 DEF Digest
<1> HIDE DEF g
<1> QED
  BY <1>1, <1>3, <1>4, <1>5, DigestSet

LEMMA MarkDigestEffect ==
  ASSUME NotificationTypeOK, NEW d \in Mailers, MarkDigest(d)
  PROVE  /\ digest' \in [Mailers -> Digest \cup {NoDigest}]
         /\ digest[d] # NoDigest /\ digest[d].published
         /\ digest'[d] # NoDigest /\ digest'[d].preference = digest[d].preference
         /\ digest'[d].todo = digest[d].todo /\ digest'[d].due = {}
         /\ digest'[d].read = digest[d].read /\ ~digest'[d].published
         /\ \A e \in Mailers : e # d => digest'[e] = digest[e]
         /\ UNCHANGED <<clock, mails, fan, fans, owed, skipped, faults>>
<1> DEFINE g == [digest[d] EXCEPT !.due = {}, !.published = FALSE]
<1>1. digest[d] # NoDigest /\ digest[d].published
      /\ UNCHANGED <<clock, mails, fan, fans, owed, skipped, faults>>
  BY DEF MarkDigest
<1>2. digest[d] \in Digest
  BY <1>1, DigestTyped
<1>3. g \in Digest
  BY <1>2 DEF Digest
<1>4. digest' = [digest EXCEPT ![d] = g]
  BY DEF MarkDigest, NotificationTypeOK
<1>5. /\ g.preference = digest[d].preference /\ g.todo = digest[d].todo /\ g.due = {}
      /\ g.read = digest[d].read /\ ~g.published
  BY <1>2 DEF Digest
<1> HIDE DEF g
<1> QED
  BY <1>1, <1>3, <1>4, <1>5, DigestSet

(* A run that is over, or given up.                                        *)
DigestGone(d) == DigestFails(d) \/ EndDigest(d)

LEMMA DigestGoneEffect ==
  ASSUME NotificationTypeOK, NEW d \in Mailers, DigestGone(d)
  PROVE  /\ digest' \in [Mailers -> Digest \cup {NoDigest}]
         /\ digest[d] # NoDigest /\ digest'[d] = NoDigest
         /\ \A e \in Mailers : e # d => digest'[e] = digest[e]
         /\ faults' \in 0..MaxFaults
         /\ faults' = faults + 1 \/ (digest[d].due = {} /\ faults' = faults)
         /\ UNCHANGED <<clock, notifs, mails, fan, fans, owed, skipped, digested>>
<1>1. digest[d] # NoDigest /\ digest' = [digest EXCEPT ![d] = NoDigest]
      /\ UNCHANGED <<clock, notifs, mails, fan, fans, owed, skipped, digested>>
  BY DEF DigestGone, DigestFails, EndDigest, fanVars
<1>2. faults' = faults + 1 \/ (digest[d].due = {} /\ faults' = faults)
  BY DEF DigestGone, DigestFails, EndDigest
<1>3. faults' \in 0..MaxFaults
  BY NotificationConstants
     DEF DigestGone, DigestFails, EndDigest, NotificationTypeOK
<1> QED
  BY <1>1, <1>2, <1>3 DEF NotificationTypeOK

LEMMA StartDigestTyped ==
  ASSUME NotificationTypeOK, NEW d \in Mailers, NEW p \in DigestPrefs, StartDigest(d, p)
  PROVE  NotificationTypeOK'
<1>1. digest' \in [Mailers -> Digest \cup {NoDigest}]
  BY StartDigestEffect
<1>2. digests' \in 0..MaxDigests
      /\ UNCHANGED <<clock, watcherVars, active, fanVars, digested, faults>>
  BY NotificationConstants DEF StartDigest, NotificationTypeOK
<1> QED
  BY <1>1, <1>2 DEF NotificationTypeOK, watcherVars, fanVars

LEMMA ReadDueTyped ==
  ASSUME NotificationTypeOK, NEW d \in Mailers, NEW u \in Users, ReadDue(d, u)
  PROVE  NotificationTypeOK'
<1>1. digest' \in [Mailers -> Digest \cup {NoDigest}] /\ digest[d] # NoDigest
  BY ReadDueEffect
<1>2. [user |-> u, now |-> digest[d].now, read |-> clock] \in Digested
  BY <1>1, DigestTyped DEF Digested, NotificationTypeOK
<1>3. digested' \subseteq Digested
      /\ UNCHANGED <<clock, watcherVars, active, fanVars, digests, faults>>
  BY <1>2 DEF ReadDue, NotificationTypeOK
<1> QED
  BY <1>1, <1>3 DEF NotificationTypeOK, watcherVars, fanVars

LEMMA PublishDigestTyped ==
  ASSUME NotificationTypeOK, NEW d \in Mailers, PublishDigest(d)
  PROVE  NotificationTypeOK'
<1>1. digest' \in [Mailers -> Digest \cup {NoDigest}] /\ mails' = MailedAll(digest[d].due)
  BY PublishDigestEffect
<1>2. mails' \in [Ids -> Nat]
  BY <1>1, MailedMore
<1>3. UNCHANGED <<clock, watcherVars, active, notifs, fan, fans, owed, skipped, digests,
                  digested, faults>>
  BY DEF PublishDigest
<1> QED
  BY <1>1, <1>2, <1>3 DEF NotificationTypeOK, watcherVars

(* What a digest makes of a row whose mail it published.                   *)
LEMMA MarkedTyped ==
  ASSUME NEW n \in Notification
  PROVE  /\ [n EXCEPT !.emailed = TRUE] \in Notification
         /\ [n EXCEPT !.emailed = TRUE].fan = n.fan
         /\ [n EXCEPT !.emailed = TRUE].user = n.user
         /\ [n EXCEPT !.emailed = TRUE].emailed = TRUE
         /\ [n EXCEPT !.emailed = TRUE].created = n.created
         /\ [n EXCEPT !.emailed = TRUE].committed = n.committed
  BY DEF Notification

Dealt(ids, n) == IF <<n.fan, n.user>> \in ids THEN [n EXCEPT !.emailed = TRUE] ELSE n

LEMMA DealtWith ==
  ASSUME NEW n \in Notification, NEW ids
  PROVE  /\ Dealt(ids, n) \in Notification
         /\ Dealt(ids, n).fan = n.fan /\ Dealt(ids, n).user = n.user
         /\ Dealt(ids, n).created = n.created /\ Dealt(ids, n).committed = n.committed
         /\ Dealt(ids, n).emailed <=> n.emailed \/ <<n.fan, n.user>> \in ids
         /\ <<n.fan, n.user>> \notin ids => Dealt(ids, n) = n
<1>1. /\ [n EXCEPT !.emailed = TRUE] \in Notification
      /\ [n EXCEPT !.emailed = TRUE].fan = n.fan /\ [n EXCEPT !.emailed = TRUE].user = n.user
      /\ [n EXCEPT !.emailed = TRUE].emailed = TRUE
      /\ [n EXCEPT !.emailed = TRUE].created = n.created
      /\ [n EXCEPT !.emailed = TRUE].committed = n.committed
  BY MarkedTyped
<1>2. CASE <<n.fan, n.user>> \in ids
  BY <1>1, <1>2 DEF Dealt
<1>3. CASE <<n.fan, n.user>> \notin ids
  BY <1>3 DEF Dealt
<1> QED
  BY <1>2, <1>3

LEMMA DigestRows ==
  ASSUME NEW d, MarkDigest(d)
  PROVE  notifs' = {Dealt(digest[d].due, n) : n \in notifs}
<1> DEFINE held == {n \in notifs : <<n.fan, n.user>> \in digest[d].due}
<1>1. notifs' = (notifs \ held) \cup {[n EXCEPT !.emailed = TRUE] : n \in held}
  BY DEF MarkDigest
<1> QED
  BY <1>1 DEF Dealt

LEMMA MarkDigestTyped ==
  ASSUME NotificationTypeOK, NEW d \in Mailers, MarkDigest(d)
  PROVE  NotificationTypeOK'
<1>1. digest' \in [Mailers -> Digest \cup {NoDigest}] /\ digest[d] # NoDigest
  BY MarkDigestEffect
<1>2. notifs' \subseteq Notification
  <2>1. notifs' = {Dealt(digest[d].due, n) : n \in notifs} /\ notifs \subseteq Notification
    BY DigestRows DEF NotificationTypeOK
  <2>2. \A n \in notifs : Dealt(digest[d].due, n) \in Notification
    BY <2>1, DealtWith
  <2> QED
    BY <2>1, <2>2
<1>3. digested' \subseteq Digested
  <2>1. \A n \in notifs : [user |-> n.user, now |-> digest[d].now, read |-> digest[d].read]
                            \in Digested
    BY <1>1, DigestTyped DEF NotificationTypeOK, Notification, Digested
  <2> QED
    BY <2>1 DEF MarkDigest, NotificationTypeOK
<1>4. UNCHANGED <<clock, watcherVars, active, mails, fan, fans, owed, skipped, digests, faults>>
  BY DEF MarkDigest
<1> QED
  BY <1>1, <1>2, <1>3, <1>4 DEF NotificationTypeOK, watcherVars

LEMMA DigestGoneTyped ==
  ASSUME NotificationTypeOK, NEW d \in Mailers, DigestFails(d) \/ EndDigest(d)
  PROVE  NotificationTypeOK'
<1>1. digest' \in [Mailers -> Digest \cup {NoDigest}] /\ faults' \in 0..MaxFaults
  BY DigestGoneEffect DEF DigestGone
<1>2. UNCHANGED <<clock, watcherVars, active, fanVars, digests, digested>>
  BY DEF DigestFails, EndDigest
<1> QED
  BY <1>1, <1>2 DEF NotificationTypeOK, watcherVars, fanVars

LEMMA NotificationInitTyped == NotificationInit => NotificationTypeOK
<1> SUFFICES ASSUME NotificationInit PROVE NotificationTypeOK
  OBVIOUS
<1>1. 0 \in Times /\ 0 \in 0..MaxFans /\ 0 \in 0..MaxDigests /\ 0 \in 0..MaxFaults
  BY NotificationConstants DEF Times
<1> QED
  BY <1>1 DEF NotificationInit, NotificationTypeOK

LEMMA NotificationsTyped ==
  ASSUME NotificationTypeOK, [NotificationNext]_notificationVars
  PROVE  NotificationTypeOK'
<1>1. CASE UNCHANGED notificationVars
  BY <1>1 DEF notificationVars, watcherVars, fanVars, digestVars, NotificationTypeOK
<1>2. CASE FanStep
  BY <1>2, NotifyTyped, NotifyFailsTyped DEF FanStep
<1>3. CASE DigestStep
  BY <1>3, StartDigestTyped, ReadDueTyped, PublishDigestTyped, MarkDigestTyped,
     DigestGoneTyped DEF DigestStep
<1>4. CASE \E c \in Callers : StartFan(c) \/ EndFan(c) \/ FanDies(c)
  BY <1>4, StartFanTyped, FanEndsTyped
<1> QED
  BY <1>1, <1>2, <1>3, <1>4, TickTyped, UserTyped DEF NotificationNext
-----------------------------------------------------------------------------
(* Types of reminders and alerts *)

(* A run goes through rows it loaded; the row it is at is left until it is *)
(* done with; and a marker is about to be committed in a transaction.      *)
RunOK(w) ==
  run[w] # NoRun =>
    /\ run[w].todo \subseteq run[w].seen
    /\ run[w].step # "check" => run[w].on \in run[w].todo
    /\ run[w].step = "mark" => run[w].began \in Times

StateOK == TypeOK /\ \A w \in Workers : RunOK(w)

LEMMA RunTyped ==
  ASSUME StateOK, NEW w \in Workers, run[w] # NoRun
  PROVE  /\ run[w] \in Run
         /\ run[w].task \in Tasks /\ run[w].now \in Times
         /\ run[w].seen \subseteq Subject /\ run[w].todo \subseteq run[w].seen
         /\ run[w].step \in {"check", "mark", "send"}
         /\ run[w].began \in Times \cup {Never}
         /\ run[w].step # "check" => run[w].on \in run[w].todo /\ run[w].on \in Subject
         /\ run[w].step = "mark" => run[w].began \in Times
  BY DEF StateOK, TypeOK, RunOK, Run

(* A run that was given its next record.                                   *)
LEMMA RunSet ==
  ASSUME StateOK, NEW w \in Workers, NEW r \in Run \cup {NoRun},
         run' = [run EXCEPT ![w] = r],
         r # NoRun => /\ r.todo \subseteq r.seen
                      /\ r.step # "check" => r.on \in r.todo
                      /\ r.step = "mark" => r.began \in Times
  PROVE  /\ run' \in [Workers -> Run \cup {NoRun}]
         /\ run'[w] = r
         /\ \A v \in Workers : v # w => run'[v] = run[v]
         /\ \A v \in Workers : RunOK(v)'
<1>1. run \in [Workers -> Run \cup {NoRun}]
  BY DEF StateOK, TypeOK
<1>2. /\ run' \in [Workers -> Run \cup {NoRun}] /\ run'[w] = r
      /\ \A v \in Workers : v # w => run'[v] = run[v]
  BY <1>1
<1>3. ASSUME NEW v \in Workers
      PROVE  RunOK(v)'
  <2>1. CASE v = w
    BY <1>2, <2>1 DEF RunOK
  <2>2. CASE v # w
    BY <1>2, <2>2 DEF RunOK, StateOK
  <2> QED
    BY <2>1, <2>2
<1> QED
  BY <1>2, <1>3

LEMMA StartRunEffect ==
  ASSUME StateOK, NEW w \in Workers, StartReminders(w) \/ StartAlerts(w)
  PROVE  /\ run[w] = NoRun
         /\ run'[w] \in Run /\ run'[w] # NoRun
         /\ run'[w].task \in {"1h", "sla"} /\ run'[w].now = clock
         /\ run'[w].seen = run'[w].todo
         /\ run'[w].step = "check" /\ run'[w].began = clock
         /\ \A v \in Workers : v # w => run'[v] = run[v]
         /\ run' \in [Workers -> Run \cup {NoRun}] /\ \A v \in Workers : RunOK(v)'
         /\ runs' \in 0..MaxRuns
         /\ UNCHANGED <<notificationVars, schedule, app, jobLive, markers, sent, dropped,
                        edits>>
<1>1. ASSUME NEW entry, NEW task \in {"1h", "sla"}, NEW rows \in SUBSET Subject,
             StartRun(w, entry, task, rows)
      PROVE  /\ run[w] = NoRun
             /\ run'[w] \in Run /\ run'[w] # NoRun
             /\ run'[w].task \in {"1h", "sla"} /\ run'[w].now = clock
             /\ run'[w].seen = run'[w].todo
             /\ run'[w].step = "check" /\ run'[w].began = clock
             /\ \A v \in Workers : v # w => run'[v] = run[v]
             /\ run' \in [Workers -> Run \cup {NoRun}] /\ \A v \in Workers : RunOK(v)'
             /\ runs' \in 0..MaxRuns
             /\ UNCHANGED <<notificationVars, schedule, app, jobLive, markers, sent, dropped,
                            edits>>
  <2> DEFINE r == [task |-> task, now |-> clock, seen |-> rows, todo |-> rows,
                   step |-> "check", on |-> None, began |-> clock]
  <2>1. r \in Run
    BY DEF Run, Tasks, ReminderTasks, StateOK, TypeOK, NotificationTypeOK
  <2>2. r.task = task /\ r.now = clock /\ r.seen = rows /\ r.todo = rows
        /\ r.step = "check" /\ r.began = clock
    OBVIOUS
  <2>3. run' = [run EXCEPT ![w] = r]
    BY <1>1 DEF StartRun
  <2> HIDE DEF r
  <2>4. /\ run'[w] = r /\ run' \in [Workers -> Run \cup {NoRun}]
        /\ \A v \in Workers : v # w => run'[v] = run[v]
        /\ \A v \in Workers : RunOK(v)'
    BY <2>1, <2>2, <2>3, RunSet
  <2>5. runs' \in 0..MaxRuns
    BY <1>1, AlertConstants DEF StartRun, StateOK, TypeOK
  <2>6. run[w] = NoRun
        /\ UNCHANGED <<notificationVars, schedule, app, jobLive, markers, sent, dropped, edits>>
    BY <1>1 DEF StartRun
  <2>7. r # NoRun
    BY <2>1, NoneApart
  <2> QED
    BY <2>1, <2>2, <2>4, <2>5, <2>6, <2>7
<1>2. InterviewsDue("1h", clock) \in SUBSET Subject /\ Stale(clock) \in SUBSET Subject
  BY DEF InterviewsDue, Stale
<1>3. CASE StartReminders(w)
  <2>1. StartRun(w, "reminders", "1h", InterviewsDue("1h", clock))
    BY <1>3 DEF StartReminders
  <2> QED
    BY <1>1, <1>2, <2>1
<1>4. CASE StartAlerts(w)
  <2>1. StartRun(w, "alerts", "sla", Stale(clock))
    BY <1>4 DEF StartAlerts
  <2> QED
    BY <1>1, <1>2, <2>1
<1> QED
  BY <1>3, <1>4

(* The transaction a run is in when it has looked a row up.                *)
Begun(w) == IF run[w].began = Never THEN clock ELSE run[w].began

LEMMA CheckEffect ==
  ASSUME StateOK, NEW w \in Workers, NEW x \in Subject, Check(w, x)
  PROVE  /\ run[w] # NoRun /\ run[w].step = "check" /\ x \in run[w].todo
         /\ run'[w] \in Run /\ run'[w] # NoRun
         /\ run'[w].task = run[w].task /\ run'[w].now = run[w].now
         /\ run'[w].seen = run[w].seen /\ run'[w].began = Begun(w)
         /\ Begun(w) \in Times
         /\ Marked24h(run[w].task, x, run[w].now) =>
              run'[w].todo = run[w].todo \ {x} /\ run'[w].step = "check"
         /\ ~Marked24h(run[w].task, x, run[w].now) =>
              run'[w].todo = run[w].todo /\ run'[w].step = "mark" /\ run'[w].on = x
         /\ \A v \in Workers : v # w => run'[v] = run[v]
         /\ run' \in [Workers -> Run \cup {NoRun}] /\ \A v \in Workers : RunOK(v)'
         /\ UNCHANGED <<notificationVars, schedule, app, jobLive, runs, edits, markers, sent,
                        dropped>>
<1> DEFINE m == Marked24h(run[w].task, x, run[w].now)
           r == [run[w] EXCEPT !.began = Begun(w)]
           s == IF m THEN [r EXCEPT !.todo = @ \ {x}]
                ELSE [r EXCEPT !.step = "mark", !.on = x]
<1>1. run[w] # NoRun /\ run[w].step = "check" /\ x \in run[w].todo
  BY DEF Check, At
<1>2. /\ run[w] \in Run
      /\ run[w].seen \subseteq Subject /\ run[w].todo \subseteq run[w].seen
      /\ run[w].began \in Times \cup {Never}
  BY <1>1, RunTyped
<1>3. Begun(w) \in Times
  BY <1>2 DEF Begun, StateOK, TypeOK, NotificationTypeOK
<1>4. /\ r \in Run /\ r.task = run[w].task /\ r.now = run[w].now /\ r.seen = run[w].seen
      /\ r.todo = run[w].todo /\ r.step = run[w].step /\ r.began = Begun(w)
  BY <1>2, <1>3 DEF Run
<1>5. run' = [run EXCEPT ![w] = s]
      /\ UNCHANGED <<notificationVars, schedule, app, jobLive, runs, edits, markers, sent,
                     dropped>>
  BY <1>4 DEF Check, SetRun, Begun
<1> HIDE DEF r, m
<1>6. /\ s \in Run /\ s.task = run[w].task /\ s.now = run[w].now /\ s.seen = run[w].seen
      /\ s.began = Begun(w)
      /\ m => s.todo = run[w].todo \ {x} /\ s.step = "check"
      /\ ~m => s.todo = run[w].todo /\ s.step = "mark" /\ s.on = x
  BY <1>1, <1>2, <1>4 DEF Run
<1> HIDE DEF s
<1>7. s # NoRun
  BY <1>6, NoneApart
<1>8. s.todo \subseteq s.seen /\ (s.step # "check" => s.on \in s.todo)
      /\ (s.step = "mark" => s.began \in Times)
  BY <1>1, <1>2, <1>3, <1>6
<1>9. /\ run'[w] = s /\ run' \in [Workers -> Run \cup {NoRun}]
      /\ \A v \in Workers : v # w => run'[v] = run[v]
      /\ \A v \in Workers : RunOK(v)'
  BY <1>5, <1>6, <1>8, RunSet
<1> QED
  BY <1>1, <1>3, <1>5, <1>6, <1>7, <1>9 DEF m

(* The marker a run commits.                                               *)
NewMarker(w) ==
  [task |-> run[w].task, subject |-> run[w].on, now |-> run[w].now,
   created |-> run[w].began, committed |-> clock]

LEMMA MarkEffect ==
  ASSUME StateOK, NEW w \in Workers, Mark(w)
  PROVE  /\ run[w] # NoRun /\ run[w].step = "mark"
         /\ run'[w] \in Run /\ run'[w] # NoRun
         /\ run'[w].task = run[w].task /\ run'[w].now = run[w].now
         /\ run'[w].seen = run[w].seen /\ run'[w].todo = run[w].todo
         /\ run'[w].step = "send" /\ run'[w].on = run[w].on /\ run'[w].began = Never
         /\ NewMarker(w) \in Marker
         /\ markers' = markers \cup {NewMarker(w)}
         /\ \A v \in Workers : v # w => run'[v] = run[v]
         /\ run' \in [Workers -> Run \cup {NoRun}] /\ \A v \in Workers : RunOK(v)'
         /\ UNCHANGED <<notificationVars, schedule, app, jobLive, runs, edits, sent, dropped>>
<1> DEFINE r == [run[w] EXCEPT !.step = "send", !.began = Never]
<1>1. run[w] # NoRun /\ run[w].step = "mark"
  BY DEF Mark, At
<1>2. /\ run[w] \in Run /\ run[w].task \in Tasks /\ run[w].now \in Times
      /\ run[w].todo \subseteq run[w].seen
      /\ run[w].on \in run[w].todo /\ run[w].on \in Subject
      /\ run[w].began \in Times
  BY <1>1, RunTyped
<1>3. /\ r \in Run /\ r.task = run[w].task /\ r.now = run[w].now /\ r.seen = run[w].seen
      /\ r.todo = run[w].todo /\ r.step = "send" /\ r.on = run[w].on /\ r.began = Never
  BY <1>2 DEF Run
<1>4. run' = [run EXCEPT ![w] = r] /\ markers' = markers \cup {NewMarker(w)}
      /\ UNCHANGED <<notificationVars, schedule, app, jobLive, runs, edits, sent, dropped>>
  BY DEF Mark, SetRun, NewMarker
<1>5. NewMarker(w) \in Marker
  BY <1>2 DEF NewMarker, Marker, StateOK, TypeOK, NotificationTypeOK
<1> HIDE DEF r
<1>6. r # NoRun
  BY <1>3, NoneApart
<1>7. r.todo \subseteq r.seen /\ (r.step # "check" => r.on \in r.todo)
      /\ (r.step = "mark" => r.began \in Times)
  BY <1>2, <1>3
<1>8. /\ run'[w] = r /\ run' \in [Workers -> Run \cup {NoRun}]
      /\ \A v \in Workers : v # w => run'[v] = run[v]
      /\ \A v \in Workers : RunOK(v)'
  BY <1>3, <1>4, <1>7, RunSet
<1> QED
  BY <1>1, <1>3, <1>4, <1>5, <1>6, <1>8

LEMMA SendEffect ==
  ASSUME StateOK, NEW w \in Workers, NEW expired \in BOOLEAN, Send(w, expired)
  PROVE  /\ run[w] # NoRun /\ run[w].step = "send"
         /\ <<run[w].task, run[w].on>> \in Tasks \X Subject
         /\ sent' = [sent EXCEPT ![<<run[w].task, run[w].on>>] = @ + 1]
         /\ sent' \in [Tasks \X Subject -> Nat]
         /\ run'[w] # NoRun =>
              /\ run'[w] \in Run
              /\ run'[w].task = run[w].task /\ run'[w].now = run[w].now
              /\ run'[w].seen = run[w].seen /\ run'[w].todo = run[w].todo \ {run[w].on}
              /\ run'[w].step = "check" /\ run'[w].began = run[w].began
         /\ \A v \in Workers : v # w => run'[v] = run[v]
         /\ run' \in [Workers -> Run \cup {NoRun}] /\ \A v \in Workers : RunOK(v)'
         /\ UNCHANGED <<notificationVars, schedule, app, jobLive, runs, edits, markers,
                        dropped>>
<1> DEFINE left == run[w].todo \ {run[w].on}
           r == [run[w] EXCEPT !.todo = left, !.step = "check", !.on = None]
           s == IF expired /\ left # {} THEN NoRun ELSE r
<1>1. run[w] # NoRun /\ run[w].step = "send"
  BY DEF Send, At
<1>2. /\ run[w] \in Run /\ run[w].task \in Tasks
      /\ run[w].todo \subseteq run[w].seen /\ run[w].seen \subseteq Subject
      /\ run[w].on \in Subject
  BY <1>1, RunTyped
<1>3. /\ r \in Run /\ r.task = run[w].task /\ r.now = run[w].now /\ r.seen = run[w].seen
      /\ r.todo = left /\ r.step = "check" /\ r.began = run[w].began
  BY <1>2 DEF Run
<1>4. run' = [run EXCEPT ![w] = s]
      /\ sent' = [sent EXCEPT ![<<run[w].task, run[w].on>>] = @ + 1]
      /\ UNCHANGED <<notificationVars, schedule, app, jobLive, runs, edits, markers, dropped>>
  BY DEF Send, SetRun
<1> HIDE DEF r
<1>5. s \in Run \cup {NoRun} /\ (s # NoRun => s = r)
  BY <1>3
<1> HIDE DEF s
<1>6. s # NoRun => /\ s.todo \subseteq s.seen
                   /\ s.step # "check" => s.on \in s.todo
                   /\ s.step = "mark" => s.began \in Times
  BY <1>2, <1>3, <1>5
<1>7. /\ run'[w] = s /\ run' \in [Workers -> Run \cup {NoRun}]
      /\ \A v \in Workers : v # w => run'[v] = run[v]
      /\ \A v \in Workers : RunOK(v)'
  BY <1>4, <1>5, <1>6, RunSet
<1>8. <<run[w].task, run[w].on>> \in Tasks \X Subject
  BY <1>2
<1>9. sent' \in [Tasks \X Subject -> Nat]
  BY <1>4, <1>8 DEF StateOK, TypeOK
<1> QED
  BY <1>1, <1>3, <1>4, <1>5, <1>7, <1>8, <1>9

LEMMA NextWindowEffect ==
  ASSUME StateOK, NEW w \in Workers, NextWindow(w)
  PROVE  /\ run[w] # NoRun /\ run[w].step = "check" /\ run[w].todo = {}
         /\ run'[w] \in Run /\ run'[w] # NoRun
         /\ run'[w].task = "24h" /\ run'[w].seen = run'[w].todo
         /\ run'[w].step = "check" /\ run'[w].began = clock
         /\ \A v \in Workers : v # w => run'[v] = run[v]
         /\ run' \in [Workers -> Run \cup {NoRun}] /\ \A v \in Workers : RunOK(v)'
         /\ UNCHANGED <<notificationVars, schedule, app, jobLive, runs, edits, markers, sent,
                        dropped>>
<1> DEFINE rows == InterviewsDue("24h", run[w].now)
           r == [run[w] EXCEPT !.task = "24h", !.seen = rows, !.todo = rows, !.began = clock]
<1>1. run[w] # NoRun /\ run[w].step = "check" /\ run[w].todo = {}
  BY DEF NextWindow, At
<1>2. run[w] \in Run
  BY <1>1, RunTyped
<1>3. rows \in SUBSET Subject
  BY DEF InterviewsDue
<1>4. run' = [run EXCEPT ![w] = r]
      /\ UNCHANGED <<notificationVars, schedule, app, jobLive, runs, edits, markers, sent,
                     dropped>>
  BY DEF NextWindow, SetRun
<1> HIDE DEF rows
<1>5. /\ r \in Run /\ r.task = "24h" /\ r.seen = rows /\ r.todo = rows
      /\ r.step = run[w].step /\ r.began = clock
  BY <1>2, <1>3 DEF Run, Tasks, ReminderTasks, StateOK, TypeOK, NotificationTypeOK
<1> HIDE DEF r
<1>6. r # NoRun
  BY <1>5, NoneApart
<1>7. r.todo \subseteq r.seen /\ (r.step # "check" => r.on \in r.todo)
      /\ (r.step = "mark" => r.began \in Times)
  BY <1>1, <1>5
<1>8. /\ run'[w] = r /\ run' \in [Workers -> Run \cup {NoRun}]
      /\ \A v \in Workers : v # w => run'[v] = run[v]
      /\ \A v \in Workers : RunOK(v)'
  BY <1>4, <1>5, <1>7, RunSet
<1> QED
  BY <1>1, <1>4, <1>5, <1>6, <1>8

(* A run ends, or dies.                                                    *)
LEMMA RunEnds ==
  ASSUME StateOK, NEW w \in Workers, EndRun(w) \/ RunDies(w)
  PROVE  /\ run[w] # NoRun
         /\ run'[w] = NoRun
         /\ \A v \in Workers : v # w => run'[v] = run[v]
         /\ run' \in [Workers -> Run \cup {NoRun}] /\ \A v \in Workers : RunOK(v)'
         /\ dropped \subseteq dropped' /\ dropped' \subseteq Tasks \X Subject
         /\ At(w, "send") => <<run[w].task, run[w].on>> \in dropped'
         /\ UNCHANGED <<notificationVars, schedule, app, jobLive, runs, edits, markers, sent>>
<1>1. run[w] # NoRun /\ run' = [run EXCEPT ![w] = NoRun]
      /\ UNCHANGED <<notificationVars, schedule, app, jobLive, runs, edits, markers, sent>>
  BY DEF EndRun, RunDies, SetRun, At
<1>2. /\ run'[w] = NoRun /\ run' \in [Workers -> Run \cup {NoRun}]
      /\ \A v \in Workers : v # w => run'[v] = run[v]
      /\ \A v \in Workers : RunOK(v)'
  BY <1>1, RunSet
<1>3. CASE EndRun(w)
  BY <1>1, <1>2, <1>3 DEF EndRun, At, StateOK, TypeOK
<1>4. CASE RunDies(w)
  <2>1. At(w, "send") => <<run[w].task, run[w].on>> \in Tasks \X Subject
    BY <1>1, RunTyped DEF At
  <2>2. dropped' = IF At(w, "send") THEN dropped \cup {<<run[w].task, run[w].on>>}
                   ELSE dropped
    BY <1>4 DEF RunDies
  <2>3. dropped \subseteq dropped' /\ dropped' \subseteq Tasks \X Subject
        /\ (At(w, "send") => <<run[w].task, run[w].on>> \in dropped')
    BY <2>1, <2>2 DEF StateOK, TypeOK
  <2> QED
    BY <1>1, <1>2, <2>3
<1> QED
  BY <1>3, <1>4

LEMMA RunMovesTyped ==
  ASSUME StateOK, NEW w \in Workers, RunMoves(w)
  PROVE  StateOK'
<1> USE DEF StateOK, TypeOK, notificationVars, watcherVars, fanVars, digestVars
<1>1. CASE StartReminders(w) \/ StartAlerts(w)
  BY <1>1, StartRunEffect DEF NotificationTypeOK
<1>2. ASSUME NEW x \in Subject, Check(w, x)
      PROVE  StateOK'
  BY <1>2, CheckEffect DEF NotificationTypeOK
<1>3. CASE Mark(w)
  <2>1. /\ NewMarker(w) \in Marker
        /\ markers' = markers \cup {NewMarker(w)}
        /\ run' \in [Workers -> Run \cup {NoRun}] /\ \A v \in Workers : RunOK(v)'
        /\ UNCHANGED <<notificationVars, schedule, app, jobLive, runs, edits, sent, dropped>>
    BY <1>3, MarkEffect
  <2>2. markers' \subseteq Marker
    BY <2>1
  <2> QED
    BY <2>1, <2>2 DEF NotificationTypeOK
<1>4. ASSUME NEW expired \in BOOLEAN, Send(w, expired)
      PROVE  StateOK'
  <2>1. /\ sent' \in [Tasks \X Subject -> Nat]
        /\ run' \in [Workers -> Run \cup {NoRun}] /\ \A v \in Workers : RunOK(v)'
        /\ UNCHANGED <<notificationVars, schedule, app, jobLive, runs, edits, markers, dropped>>
    BY <1>4, SendEffect
  <2> QED
    BY <2>1 DEF NotificationTypeOK
<1>5. CASE NextWindow(w)
  BY <1>5, NextWindowEffect DEF NotificationTypeOK
<1>6. CASE EndRun(w) \/ RunDies(w)
  BY <1>6, RunEnds DEF NotificationTypeOK
<1> QED
  BY <1>1, <1>2, <1>3, <1>4, <1>5, <1>6 DEF RunMoves

(* Recruiters leave what the tasks keep alone.                             *)
LEMMA RecruiterTyped ==
  ASSUME StateOK, RecruiterStep
  PROVE  StateOK'
<1> USE DEF StateOK, TypeOK
<1>1. ASSUME NEW a \in Apps, NEW row \in Application, Edit(a, row)
      PROVE  StateOK'
  <2>1. app' \in [Apps -> Application]
    BY <1>1 DEF Edit
  <2>2. edits' \in 0..MaxEdits
    BY <1>1, AlertConstants DEF Edit
  <2>3. UNCHANGED <<notificationVars, schedule, jobLive, run, markers, sent, dropped, runs>>
    BY <1>1 DEF Edit
  <2>4. \A w \in Workers : RunOK(w)'
    BY <2>3 DEF RunOK
  <2> QED
    BY <2>1, <2>2, <2>3, <2>4
       DEF notificationVars, watcherVars, fanVars, digestVars, NotificationTypeOK
<1>2. CASE DeleteJob
  <2>1. jobLive' \in BOOLEAN /\ UNCHANGED <<notificationVars, schedule, app, run, markers,
                                            sent, dropped, runs, edits>>
    BY <1>2 DEF DeleteJob
  <2>2. \A w \in Workers : RunOK(w)'
    BY <2>1 DEF RunOK
  <2> QED
    BY <2>1, <2>2 DEF notificationVars, watcherVars, fanVars, digestVars, NotificationTypeOK
<1>3. ASSUME NEW a \in Apps, DeleteApplication(a)
      PROVE  StateOK'
  <2>1. [app[a] EXCEPT !.live = FALSE] \in Application
    BY DEF Application
  <2> QED
    BY <1>1, <1>3, <2>1 DEF DeleteApplication
<1>4. ASSUME NEW a \in Apps, NEW s \in Slots \cup {None}, SetInterview(a, s)
      PROVE  StateOK'
  <2>1. app[a] \in Application /\ clock \in Times
    BY DEF NotificationTypeOK
  <2>2. [app[a] EXCEPT !.slot = s, !.updated = clock] \in Application
    BY ONLY <2>1, s \in Slots \cup {None} DEF Application
  <2> QED
    BY <1>1, <1>4, <2>2 DEF SetInterview
<1>5. ASSUME NEW a \in Apps, NEW s \in Asked, SetStatus(a, s)
      PROVE  StateOK'
  <2>1. app[a] \in Application /\ clock \in Times /\ s \in Statuses
    BY AlertConstants DEF NotificationTypeOK
  <2>2. [app[a] EXCEPT !.status = s, !.updated = clock] \in Application
    BY ONLY <2>1 DEF Application
  <2> QED
    BY <1>1, <1>5, <2>2 DEF SetStatus
<1> QED
  BY <1>2, <1>3, <1>4, <1>5 DEF RecruiterStep

LEMMA StateTyped ==
  ASSUME StateOK, [Next]_vars
  PROVE  StateOK'
<1>1. NotificationTypeOK'
  BY NotificationsTyped, NotificationMoves DEF StateOK, TypeOK
<1>2. CASE RunStep
  BY <1>2, RunMovesTyped DEF RunStep, RunMoves
<1>3. CASE RecruiterStep
  BY <1>3, RecruiterTyped
<1>4. CASE ~RunStep /\ ~RecruiterStep
  <2>1. UNCHANGED <<schedule, app, jobLive, run, markers, sent, dropped, runs>>
    BY <1>4 DEF Next, vars, alertVars, WatcherStep, Request, RequestEnds
  <2>2. edits' \in 0..MaxEdits
    <3>1. CASE WatcherStep
      BY <3>1, AlertConstants DEF WatcherStep, StateOK, TypeOK
    <3>2. CASE ~WatcherStep
      <4>1. UNCHANGED edits
        BY <1>4, <3>2 DEF Next, vars, alertVars, Request, RequestEnds
      <4> QED
        BY <4>1 DEF StateOK, TypeOK
    <3> QED
      BY <3>1, <3>2
  <2>3. \A w \in Workers : RunOK(w)'
    BY <2>1 DEF StateOK, RunOK
  <2> QED
    BY <1>1, <2>1, <2>2, <2>3 DEF StateOK, TypeOK
<1> QED
  BY <1>2, <1>3, <1>4

LEMMA StateInit == Init => StateOK
<1> SUFFICES ASSUME Init PROVE StateOK
  OBVIOUS
<1>1. NotificationTypeOK
  BY NotificationInitTyped DEF Init
<1>2. app \in [Apps -> Application]
  <2>1. 0 \in Times
    BY NotificationConstants DEF Times
  <2> QED
    BY <2>1 DEF Init, Application, Statuses
<1>3. runs \in 0..MaxRuns /\ edits \in 0..MaxEdits
  BY AlertConstants DEF Init
<1>4. \A w \in Workers : run[w] = NoRun
  BY DEF Init
<1> QED
  BY <1>1, <1>2, <1>3, <1>4 DEF Init, StateOK, TypeOK, RunOK

LEMMA StateAlways == Spec => []StateOK
  BY StateInit, StateTyped, PTL DEF Spec

(* Notifications, digests, runs and markers keep their types, whatever     *)
(* users, recruiters, handlers and the beat do.                            *)
THEOREM AlertTypes == Spec => []TypeOK
<1>1. StateOK => TypeOK
  BY DEF StateOK
<1> QED
  BY <1>1, StateAlways, PTL
-----------------------------------------------------------------------------
(* Reminders, alerts and their markers *)

Has(ms, i) == \E m \in ms : <<m.task, m.subject>> = i

(* A run that sends has committed the marker.                              *)
MarkedBeforeSent ==
  \A w \in Workers :
    run[w] # NoRun /\ run[w].step = "send" => Has(markers, <<run[w].task, run[w].on>>)

(* The parts of MarkersAccountForReminders.                                *)
PassedOver ==
  \A w \in Workers : run[w] # NoRun =>
    \A x \in run[w].seen \ run[w].todo : Has(markers, <<run[w].task, x>>)

SentOnlyMarked == \A i \in Reminders : sent[i] > 0 => Has(markers, i)

Explained(i) ==
  \/ sent[i] > 0 \/ i \in dropped
  \/ \E w \in Workers :
       run[w] # NoRun /\ run[w].step = "send" /\ <<run[w].task, run[w].on>> = i

MarkersExplained == \A i \in Reminders : Has(markers, i) => Explained(i)

MarkersOK == MarkedBeforeSent /\ PassedOver /\ SentOnlyMarked /\ MarkersExplained

(* A step of a run at w that writes no marker.                             *)
LEMMA MarkedStays ==
  ASSUME StateOK, MarkersOK, NEW w \in Workers,
         markers \subseteq markers',
         \A v \in Workers : v # w => run'[v] = run[v],
         run'[w] # NoRun =>
           /\ run'[w].step = "send" => Has(markers', <<run'[w].task, run'[w].on>>)
           /\ \A x \in run'[w].seen \ run'[w].todo : Has(markers', <<run'[w].task, x>>)
  PROVE  MarkedBeforeSent' /\ PassedOver' /\ \A i : Has(markers, i) => Has(markers', i)
<1>1. \A i : Has(markers, i) => Has(markers', i)
  BY DEF Has
<1>2. ASSUME NEW v \in Workers, run'[v] # NoRun
      PROVE  /\ run'[v].step = "send" => Has(markers', <<run'[v].task, run'[v].on>>)
             /\ \A x \in run'[v].seen \ run'[v].todo : Has(markers', <<run'[v].task, x>>)
  <2>1. CASE v = w
    BY <1>2, <2>1
  <2>2. CASE v # w
    <3>1. run'[v] = run[v]
      BY <2>2
    <3>2. run[v].step = "send" => Has(markers, <<run[v].task, run[v].on>>)
      BY <1>2, <3>1 DEF MarkersOK, MarkedBeforeSent
    <3>3. \A x \in run[v].seen \ run[v].todo : Has(markers, <<run[v].task, x>>)
      BY <1>2, <3>1 DEF MarkersOK, PassedOver
    <3>4. run'[v].step = "send" => Has(markers', <<run'[v].task, run'[v].on>>)
      BY <1>1, <3>1, <3>2
    <3>5. \A x \in run'[v].seen \ run'[v].todo : Has(markers', <<run'[v].task, x>>)
      BY <1>1, <3>1, <3>3
    <3> QED
      BY <3>4, <3>5
  <2> QED
    BY <2>1, <2>2
<1> QED
  BY <1>1, <1>2 DEF MarkedBeforeSent, PassedOver

(* The step of a run that neither marks nor sends.                         *)
LEMMA QuietRun ==
  ASSUME StateOK, MarkersOK, NEW w \in Workers,
         UNCHANGED <<markers, sent>>, dropped \subseteq dropped',
         \A v \in Workers : v # w => run'[v] = run[v],
         run'[w] # NoRun =>
           /\ run'[w].step # "send"
           /\ \A x \in run'[w].seen \ run'[w].todo : Has(markers, <<run'[w].task, x>>),
         run[w] # NoRun /\ run[w].step = "send" => <<run[w].task, run[w].on>> \in dropped'
  PROVE  MarkersOK'
<1>1. \A i : Has(markers', i) = Has(markers, i)
  BY DEF Has
<1>2. MarkedBeforeSent' /\ PassedOver'
  BY <1>1, MarkedStays
<1>3. SentOnlyMarked'
  BY <1>1 DEF MarkersOK, SentOnlyMarked, Reminders
<1>4. ASSUME NEW i \in Reminders, Has(markers', i)
      PROVE  Explained(i)'
  <2>1. Explained(i)
    BY <1>1, <1>4 DEF MarkersOK, MarkersExplained
  <2>2. CASE sent[i] > 0 \/ i \in dropped
    BY <2>2 DEF Explained
  <2>3. ASSUME NEW v \in Workers, run[v] # NoRun, run[v].step = "send",
               <<run[v].task, run[v].on>> = i
        PROVE  Explained(i)'
    <3>1. CASE v = w
      BY <2>3, <3>1 DEF Explained
    <3>2. CASE v # w
      <4>1. run'[v] = run[v]
        BY <3>2
      <4> QED
        BY <2>3, <4>1 DEF Explained
    <3> QED
      BY <3>1, <3>2
  <2> QED
    BY <2>1, <2>2, <2>3 DEF Explained
<1> QED
  BY <1>2, <1>3, <1>4 DEF MarkersOK, MarkersExplained, Reminders

LEMMA MarksMarked ==
  ASSUME StateOK, MarkersOK, NEW w \in Workers, Mark(w)
  PROVE  MarkersOK'
<1>1. /\ run[w] # NoRun /\ run[w].step = "mark"
      /\ run'[w] # NoRun /\ run'[w].task = run[w].task /\ run'[w].on = run[w].on
      /\ run'[w].seen = run[w].seen /\ run'[w].todo = run[w].todo /\ run'[w].step = "send"
      /\ markers' = markers \cup {NewMarker(w)}
      /\ \A v \in Workers : v # w => run'[v] = run[v]
      /\ UNCHANGED <<sent, dropped>>
  BY MarkEffect
<1>2. NewMarker(w).task = run[w].task /\ NewMarker(w).subject = run[w].on
  BY DEF NewMarker
<1>3. \A i : Has(markers', i) <=> Has(markers, i) \/ i = <<run[w].task, run[w].on>>
  BY <1>1, <1>2 DEF Has
<1>4. \A x \in run[w].seen \ run[w].todo : Has(markers, <<run[w].task, x>>)
  BY <1>1 DEF MarkersOK, PassedOver
<1>5. markers \subseteq markers'
  BY <1>1
<1>6. /\ run'[w].step = "send" => Has(markers', <<run'[w].task, run'[w].on>>)
      /\ \A x \in run'[w].seen \ run'[w].todo : Has(markers', <<run'[w].task, x>>)
  BY <1>1, <1>3, <1>4
<1>7. MarkedBeforeSent' /\ PassedOver'
  BY <1>1, <1>5, <1>6, MarkedStays
<1>8. SentOnlyMarked'
  BY <1>1, <1>3 DEF MarkersOK, SentOnlyMarked, Reminders
<1>9. ASSUME NEW i \in Reminders, Has(markers', i)
      PROVE  Explained(i)'
  <2>1. CASE i = <<run[w].task, run[w].on>>
    BY <1>1, <2>1 DEF Explained
  <2>2. CASE i # <<run[w].task, run[w].on>>
    <3>1. Explained(i)
      BY <1>3, <1>9, <2>2 DEF MarkersOK, MarkersExplained
    <3>2. CASE sent[i] > 0 \/ i \in dropped
      BY <1>1, <3>2 DEF Explained
    <3>3. ASSUME NEW v \in Workers, run[v] # NoRun, run[v].step = "send",
                 <<run[v].task, run[v].on>> = i
          PROVE  Explained(i)'
      <4>1. run'[v] = run[v]
        BY <1>1, <3>3
      <4> QED
        BY <3>3, <4>1 DEF Explained
    <3> QED
      BY <3>1, <3>2, <3>3 DEF Explained
  <2> QED
    BY <2>1, <2>2
<1> QED
  BY <1>7, <1>8, <1>9 DEF MarkersOK, MarkersExplained, Reminders

LEMMA SendsMarked ==
  ASSUME StateOK, MarkersOK, NEW w \in Workers, NEW expired \in BOOLEAN, Send(w, expired)
  PROVE  MarkersOK'
<1> DEFINE j == <<run[w].task, run[w].on>>
<1>1. /\ run[w] # NoRun /\ run[w].step = "send" /\ j \in Tasks \X Subject
      /\ sent' = [sent EXCEPT ![j] = @ + 1]
      /\ run'[w] # NoRun =>
           /\ run'[w].task = run[w].task /\ run'[w].seen = run[w].seen
           /\ run'[w].todo = run[w].todo \ {run[w].on} /\ run'[w].step = "check"
      /\ \A v \in Workers : v # w => run'[v] = run[v]
      /\ UNCHANGED <<markers, dropped>>
  BY SendEffect
<1>2. Has(markers, j) /\ \A i : Has(markers', i) = Has(markers, i)
  BY <1>1 DEF MarkersOK, MarkedBeforeSent, Has
<1>3. \A x \in run[w].seen \ run[w].todo : Has(markers, <<run[w].task, x>>)
  BY <1>1 DEF MarkersOK, PassedOver
<1>4. run'[w] # NoRun =>
        /\ run'[w].step = "send" => Has(markers', <<run'[w].task, run'[w].on>>)
        /\ \A x \in run'[w].seen \ run'[w].todo : Has(markers', <<run'[w].task, x>>)
  BY <1>1, <1>2, <1>3
<1>5. MarkedBeforeSent' /\ PassedOver'
  BY <1>1, <1>4, MarkedStays
<1>6. Reminders \subseteq Tasks \X Subject
  BY DEF Reminders, Tasks
<1> HIDE DEF j
<1>7. \A i \in Reminders : i # j => sent'[i] = sent[i]
  BY <1>1, <1>6 DEF StateOK, TypeOK
<1>8. sent[j] \in Nat /\ sent'[j] = sent[j] + 1
  BY <1>1 DEF StateOK, TypeOK
<1>9. SentOnlyMarked'
  BY <1>2, <1>7 DEF MarkersOK, SentOnlyMarked, Reminders
<1>10. ASSUME NEW i \in Reminders, Has(markers', i)
       PROVE  Explained(i)'
  <2>1. CASE i = j
    BY <1>8, <2>1 DEF Explained
  <2>2. CASE i # j
    <3>1. Explained(i)
      BY <1>2, <1>10 DEF MarkersOK, MarkersExplained
    <3>2. CASE sent[i] > 0 \/ i \in dropped
      BY <1>1, <1>7, <2>2, <3>2 DEF Explained
    <3>3. ASSUME NEW v \in Workers, run[v] # NoRun, run[v].step = "send",
                 <<run[v].task, run[v].on>> = i
          PROVE  Explained(i)'
      <4>1. run'[v] = run[v]
        BY <1>1, <2>2, <3>3 DEF j
      <4> QED
        BY <3>3, <4>1 DEF Explained
    <3> QED
      BY <3>1, <3>2, <3>3 DEF Explained
  <2> QED
    BY <2>1, <2>2
<1> QED
  BY <1>5, <1>9, <1>10 DEF MarkersOK, MarkersExplained, Reminders

LEMMA RunMovesMarked ==
  ASSUME StateOK, MarkersOK, NEW w \in Workers, RunMoves(w)
  PROVE  MarkersOK'
<1>1. CASE StartReminders(w) \/ StartAlerts(w)
  <2>1. /\ run[w] = NoRun /\ run'[w].step = "check" /\ run'[w].seen = run'[w].todo
        /\ \A v \in Workers : v # w => run'[v] = run[v]
        /\ UNCHANGED <<markers, sent, dropped>>
    BY <1>1, StartRunEffect
  <2> QED
    BY <2>1, QuietRun
<1>2. ASSUME NEW x \in Subject, Check(w, x)
      PROVE  MarkersOK'
  <2>1. /\ run[w] # NoRun /\ run[w].step = "check"
        /\ run'[w].task = run[w].task /\ run'[w].seen = run[w].seen
        /\ Marked24h(run[w].task, x, run[w].now) =>
             run'[w].todo = run[w].todo \ {x} /\ run'[w].step = "check"
        /\ ~Marked24h(run[w].task, x, run[w].now) =>
             run'[w].todo = run[w].todo /\ run'[w].step = "mark"
        /\ \A v \in Workers : v # w => run'[v] = run[v]
        /\ UNCHANGED <<markers, sent, dropped>>
    BY <1>2, CheckEffect
  <2>2. \A y \in run[w].seen \ run[w].todo : Has(markers, <<run[w].task, y>>)
    BY <2>1 DEF MarkersOK, PassedOver
  <2>3. Marked24h(run[w].task, x, run[w].now) => Has(markers, <<run[w].task, x>>)
    BY DEF Marked24h, Has
  <2>4. run'[w].step # "send"
        /\ \A y \in run'[w].seen \ run'[w].todo : Has(markers, <<run'[w].task, y>>)
    BY <2>1, <2>2, <2>3
  <2> QED
    BY <2>1, <2>4, QuietRun
<1>3. CASE NextWindow(w)
  <2>1. /\ run[w].step = "check" /\ run'[w].step = "check" /\ run'[w].seen = run'[w].todo
        /\ \A v \in Workers : v # w => run'[v] = run[v]
        /\ UNCHANGED <<markers, sent, dropped>>
    BY <1>3, NextWindowEffect
  <2> QED
    BY <2>1, QuietRun
<1>4. CASE EndRun(w) \/ RunDies(w)
  <2>1. /\ run'[w] = NoRun /\ dropped \subseteq dropped'
        /\ \A v \in Workers : v # w => run'[v] = run[v]
        /\ At(w, "send") => <<run[w].task, run[w].on>> \in dropped'
        /\ UNCHANGED <<markers, sent>>
    BY <1>4, RunEnds
  <2> QED
    BY <2>1, QuietRun DEF At
<1> QED
  BY <1>1, <1>2, <1>3, <1>4, MarksMarked, SendsMarked DEF RunMoves

LEMMA MarkersMove ==
  ASSUME StateOK, MarkersOK, [Next]_vars
  PROVE  MarkersOK'
<1>1. CASE UNCHANGED beatVars
  BY <1>1 DEF beatVars, MarkersOK, MarkedBeforeSent, PassedOver, SentOnlyMarked,
              MarkersExplained, Explained, Has, Reminders
<1> QED
  BY <1>1, BeatMoves, RunMovesMarked

LEMMA MarkersInit == Init => MarkersOK
<1>1. Init => \A i \in Reminders : sent[i] = 0
  BY DEF Init, Reminders, Tasks
<1> QED
  BY <1>1 DEF Init, MarkersOK, MarkedBeforeSent, PassedOver, SentOnlyMarked,
              MarkersExplained, Has

LEMMA MarkersAlways == Spec => []MarkersOK
  BY MarkersInit, MarkersMove, StateAlways, PTL DEF Spec

(* What a run has passed over has its marker; a reminder was sent only if  *)
(* it was marked, and a marker without a reminder is about to be sent or   *)
(* its worker died between the two.                                        *)
THEOREM RemindersAccounted == Spec => []MarkersAccountForReminders
<1>1. StateOK /\ MarkersOK => MarkersAccountForReminders
  <2> SUFFICES ASSUME StateOK, MarkersOK PROVE MarkersAccountForReminders
    OBVIOUS
  <2>1. ASSUME NEW w \in Workers, run[w] # NoRun, NEW x \in run[w].seen \ run[w].todo
        PROVE  \E m \in markers : m.task = run[w].task /\ m.subject = x
    BY <2>1 DEF MarkersOK, PassedOver, Has
  <2>2. ASSUME NEW i \in Reminders, sent[i] > 0
        PROVE  \E m \in markers : <<m.task, m.subject>> = i
    BY <2>2 DEF MarkersOK, SentOnlyMarked, Has
  <2>3. ASSUME NEW i \in Reminders, NEW m \in markers, <<m.task, m.subject>> = i
        PROVE  \/ sent[i] > 0 \/ i \in dropped
               \/ \E w \in Workers : At(w, "send") /\ <<run[w].task, run[w].on>> = i
    <3>1. Has(markers, i)
      BY <2>3 DEF Has
    <3>2. Explained(i)
      BY <3>1 DEF MarkersOK, MarkersExplained
    <3> QED
      BY <3>2 DEF Explained, At
  <2> QED
    BY <2>1, <2>2, <2>3 DEF MarkersAccountForReminders
<1> QED
  BY <1>1, StateAlways, MarkersAlways, PTL

(* Time stamps are not ahead of the clock, and a marker is written in the  *)
(* transaction that a run began.                                           *)
AlertTimes ==
  /\ \A m \in markers : m.created <= m.committed /\ m.committed <= clock
  /\ \A w \in Workers : run[w] # NoRun /\ run[w].began # Never => run[w].began <= clock

(* The markers a run about to mark had seen were a day old at its          *)
(* beginning.                                                              *)
AlertLookedUp ==
  \A w \in Workers :
    run[w] # NoRun /\ run[w].step = "mark" /\ run[w].task = "sla" =>
      \A m \in markers :
        m.task = "sla" /\ m.subject = run[w].on /\ m.committed < run[w].began
        => m.created + Day <= run[w].now

SpacingOK == AlertTimes /\ AlertLookedUp /\ AlertsSpaced

LEMMA MarkerTyped ==
  ASSUME StateOK, NEW m \in markers
  PROVE  /\ m.task \in Tasks /\ m.subject \in Subject /\ m.now \in Times
         /\ m.created \in Times /\ m.committed \in Times
  BY DEF StateOK, TypeOK, Marker

(* The step of a run at w that is not about to mark an alert.              *)
LEMMA SpacingStays ==
  ASSUME StateOK, SpacingOK, NEW w \in Workers, clock' = clock, markers' = markers,
         \A v \in Workers : v # w => run'[v] = run[v],
         run'[w] # NoRun =>
           /\ run'[w].began # Never => run'[w].began <= clock
           /\ run'[w].step = "mark" /\ run'[w].task = "sla" =>
                \A m \in markers :
                  m.task = "sla" /\ m.subject = run'[w].on /\ m.committed < run'[w].began
                  => m.created + Day <= run'[w].now
  PROVE  SpacingOK'
<1>1. AlertTimes'
  <2>1. \A m \in markers' : m.created <= m.committed /\ m.committed <= clock'
    BY DEF SpacingOK, AlertTimes
  <2>2. ASSUME NEW v \in Workers, run'[v] # NoRun, run'[v].began # Never
        PROVE  run'[v].began <= clock'
    BY <2>2 DEF SpacingOK, AlertTimes
  <2> QED
    BY <2>1, <2>2 DEF AlertTimes, Never
<1>2. AlertLookedUp'
  <2> SUFFICES ASSUME NEW v \in Workers, run'[v] # NoRun, run'[v].step = "mark",
                      run'[v].task = "sla", NEW m \in markers,
                      m.task = "sla", m.subject = run'[v].on, m.committed < run'[v].began
               PROVE  m.created + Day <= run'[v].now
    BY DEF AlertLookedUp
  <2>1. CASE v = w
    BY <2>1
  <2>2. CASE v # w
    <3>1. run'[v] = run[v]
      BY <2>2
    <3> QED
      BY <3>1 DEF SpacingOK, AlertLookedUp
  <2> QED
    BY <2>1, <2>2
<1>3. AlertsSpaced'
  BY DEF SpacingOK, AlertsSpaced
<1> QED
  BY <1>1, <1>2, <1>3 DEF SpacingOK

LEMMA CheckSpaced ==
  ASSUME StateOK, SpacingOK, NEW w \in Workers, NEW x \in Subject, Check(w, x)
  PROVE  SpacingOK'
<1>1. /\ run[w] # NoRun /\ run'[w].task = run[w].task /\ run'[w].now = run[w].now
      /\ run'[w].began = Begun(w) /\ Begun(w) \in Times
      /\ Marked24h(run[w].task, x, run[w].now) => run'[w].step = "check"
      /\ ~Marked24h(run[w].task, x, run[w].now) => run'[w].on = x
      /\ \A v \in Workers : v # w => run'[v] = run[v]
      /\ UNCHANGED <<notificationVars, markers>>
  BY CheckEffect
<1>2. clock' = clock /\ markers' = markers
  BY <1>1 DEF notificationVars
<1>3. clock \in Nat /\ run[w].now \in Nat /\ Day \in Nat
  BY <1>1, RunTyped, AlertConstants DEF StateOK, TypeOK, NotificationTypeOK, Times
<1>4. run'[w].began <= clock
  BY <1>1, <1>3 DEF Begun, SpacingOK, AlertTimes
<1>5. ASSUME run'[w].step = "mark", run'[w].task = "sla",
             NEW m \in markers, m.task = "sla", m.subject = run'[w].on
      PROVE  m.created + Day <= run'[w].now
  <2>1. ~Marked24h(run[w].task, x, run[w].now)
    BY <1>1, <1>5
  <2>2. ~(m.created + Day > run[w].now)
    BY <1>1, <1>5, <2>1 DEF Marked24h
  <2>3. m.created \in Nat
    BY MarkerTyped DEF Times
  <2> QED
    BY <1>1, <1>3, <2>2, <2>3
<1> QED
  BY <1>1, <1>2, <1>4, <1>5, SpacingStays

LEMMA MarkSpaced ==
  ASSUME StateOK, SpacingOK, NEW w \in Workers, Mark(w)
  PROVE  SpacingOK'
<1> DEFINE new == NewMarker(w)
<1>1. /\ run[w] # NoRun /\ run[w].step = "mark"
      /\ run'[w].step = "send" /\ run'[w].began = Never
      /\ new \in Marker /\ markers' = markers \cup {new}
      /\ \A v \in Workers : v # w => run'[v] = run[v]
      /\ UNCHANGED notificationVars
  BY MarkEffect
<1>2. clock' = clock
  BY <1>1 DEF notificationVars
<1>3. /\ new.task = run[w].task /\ new.subject = run[w].on /\ new.now = run[w].now
      /\ new.created = run[w].began /\ new.committed = clock
  BY DEF NewMarker
<1> HIDE DEF new
<1>4. clock \in Times /\ run[w].began \in Times /\ run[w].began <= clock
      /\ run[w].began # Never
  <2>1. run[w].began \in Times
    BY <1>1, RunTyped
  <2>2. run[w].began # Never
    BY <2>1, NotificationConstants DEF Times, Never
  <2> QED
    BY <1>1, <2>1, <2>2 DEF SpacingOK, AlertTimes, StateOK, TypeOK, NotificationTypeOK
<1>5. AlertTimes'
  <2>1. ASSUME NEW m \in markers'
        PROVE  m.created <= m.committed /\ m.committed <= clock'
    <3>1. CASE m = new
      BY <1>2, <1>3, <1>4, <3>1 DEF Times
    <3>2. CASE m \in markers
      BY <1>2, <3>2 DEF SpacingOK, AlertTimes
    <3> QED
      BY <1>1, <2>1, <3>1, <3>2
  <2>2. ASSUME NEW v \in Workers, run'[v] # NoRun, run'[v].began # Never
        PROVE  run'[v].began <= clock'
    BY <1>1, <1>2, <2>2 DEF SpacingOK, AlertTimes
  <2> QED
    BY <2>1, <2>2 DEF AlertTimes, Never
<1>6. ASSUME NEW v \in Workers, run'[v] # NoRun, run'[v].step = "mark",
             run'[v].task = "sla", NEW m \in markers',
             m.task = "sla", m.subject = run'[v].on, m.committed < run'[v].began
      PROVE  m.created + Day <= run'[v].now
  <2>1. v # w
    BY <1>1, <1>6
  <2>2. run'[v] = run[v]
    BY <1>1, <2>1
  <2>3. run[v].began \in Times
    BY <1>6, <2>2, RunTyped
  <2>4. run[v].began <= clock
    BY <1>6, <2>2, <2>3, NotificationConstants DEF SpacingOK, AlertTimes, Times, Never
  <2>5. m # new
    BY <1>3, <1>4, <1>6, <2>2, <2>3, <2>4 DEF Times
  <2>6. m \in markers
    BY <1>1, <1>6, <2>5
  <2> QED
    BY <1>6, <2>2, <2>6 DEF SpacingOK, AlertLookedUp
<1>7. ASSUME NEW m1 \in markers', NEW m2 \in markers', m1.task = "sla", m2.task = "sla",
             m1.subject = m2.subject, m1.committed < m2.created
      PROVE  m1.created + Day <= m2.now
  <2>1. CASE m2 = new
    <3>1. m1 # new
      BY <1>3, <1>4, <1>7, <2>1 DEF Times
    <3>2. m1 \in markers
      BY <1>1, <1>7, <3>1
    <3> QED
      BY <1>1, <1>3, <1>7, <2>1, <3>2 DEF SpacingOK, AlertLookedUp
  <2>2. CASE m2 # new
    <3>1. m2 \in markers
      BY <1>1, <1>7, <2>2
    <3>2. m2.created \in Times /\ m2.committed \in Times
          /\ m2.created <= m2.committed /\ m2.committed <= clock
      BY <3>1, MarkerTyped DEF SpacingOK, AlertTimes
    <3>3. m1 # new
      BY <1>3, <1>4, <1>7, <3>2 DEF Times
    <3>4. m1 \in markers
      BY <1>1, <1>7, <3>3
    <3> QED
      BY <1>7, <3>1, <3>4 DEF SpacingOK, AlertsSpaced
  <2> QED
    BY <2>1, <2>2
<1>8. AlertLookedUp'
  BY <1>6 DEF AlertLookedUp
<1>9. AlertsSpaced'
  BY <1>7 DEF AlertsSpaced
<1> QED
  BY <1>5, <1>8, <1>9 DEF SpacingOK

LEMMA RunMovesSpaced ==
  ASSUME StateOK, SpacingOK, NEW w \in Workers, RunMoves(w)
  PROVE  SpacingOK'
<1>1. CASE StartReminders(w) \/ StartAlerts(w)
  <2>1. /\ run'[w].step = "check" /\ run'[w].began = clock
        /\ \A v \in Workers : v # w => run'[v] = run[v]
        /\ UNCHANGED <<notificationVars, markers>>
    BY <1>1, StartRunEffect
  <2> QED
    BY <2>1, SpacingStays DEF notificationVars, StateOK, TypeOK, NotificationTypeOK, Times
<1>2. ASSUME NEW expired \in BOOLEAN, Send(w, expired)
      PROVE  SpacingOK'
  <2> USE <1>2
  <2>1. run[w] # NoRun
    BY SendEffect
  <2>2. run'[w] # NoRun => run'[w].step = "check" /\ run'[w].began = run[w].began
    BY SendEffect
  <2>3. /\ \A v \in Workers : v # w => run'[v] = run[v]
        /\ UNCHANGED <<notificationVars, markers>>
    BY SendEffect
  <2>4. run'[w] # NoRun /\ run'[w].began # Never => run'[w].began <= clock
    BY <2>1, <2>2 DEF SpacingOK, AlertTimes
  <2> QED
    BY <2>1, <2>2, <2>3, <2>4, SpacingStays DEF notificationVars
<1>3. CASE NextWindow(w)
  <2>1. /\ run'[w].step = "check" /\ run'[w].began = clock
        /\ \A v \in Workers : v # w => run'[v] = run[v]
        /\ UNCHANGED <<notificationVars, markers>>
    BY <1>3, NextWindowEffect
  <2> QED
    BY <2>1, SpacingStays DEF notificationVars, StateOK, TypeOK, NotificationTypeOK, Times
<1>4. CASE EndRun(w) \/ RunDies(w)
  <2>1. /\ run'[w] = NoRun /\ \A v \in Workers : v # w => run'[v] = run[v]
        /\ UNCHANGED <<notificationVars, markers>>
    BY <1>4, RunEnds
  <2> QED
    BY <2>1, SpacingStays DEF notificationVars
<1> QED
  BY <1>1, <1>2, <1>3, <1>4, CheckSpaced, MarkSpaced DEF RunMoves

LEMMA SpacingMoves ==
  ASSUME StateOK, SpacingOK, [Next]_vars
  PROVE  SpacingOK'
<1>1. CASE UNCHANGED beatVars
  <2>1. clock \in Nat /\ clock' \in Nat /\ clock <= clock'
    BY ClockMoves, NotificationConstants DEF StateOK, TypeOK, NotificationTypeOK, Times
  <2>2. run' = run /\ markers' = markers
    BY <1>1 DEF beatVars
  <2>3. \A m \in markers : m.committed \in Nat
    BY MarkerTyped DEF Times
  <2>4. \A w \in Workers : run[w] # NoRun /\ run[w].began # Never => run[w].began \in Nat
    BY RunTyped DEF Times
  <2>5. AlertTimes'
    BY <2>1, <2>2, <2>3, <2>4 DEF SpacingOK, AlertTimes, Never
  <2>6. AlertLookedUp' /\ AlertsSpaced'
    BY <2>2 DEF SpacingOK, AlertLookedUp, AlertsSpaced
  <2> QED
    BY <2>5, <2>6 DEF SpacingOK
<1> QED
  BY <1>1, BeatMoves, RunMovesSpaced

LEMMA SpacingInit == Init => SpacingOK
  BY DEF Init, SpacingOK, AlertTimes, AlertLookedUp, AlertsSpaced

(* An alert made after another was committed comes a day later than it:    *)
(* a run that was given the row again found the marker.                    *)
THEOREM AlertsADayApart == Spec => []AlertsSpaced
<1>1. SpacingOK => AlertsSpaced
  BY DEF SpacingOK
<1> QED
  BY <1>1, SpacingInit, SpacingMoves, StateAlways, PTL DEF Spec

(* The workers about to mark or to send a reminder.                        *)
AtRow(r, i) ==
  {w \in Workers : r[w] # NoRun /\ r[w].step # "check" /\ <<r[w].task, r[w].on>> = i}

(* Each of them sends it at most once more, and nobody joins them when it  *)
(* has been sent.                                                          *)
SendsLeft ==
  \A i \in Reminders : sent[i] + Cardinality(AtRow(run, i)) <= Cardinality(Workers)

LEMMA RowsCounted ==
  ASSUME NEW r, NEW i
  PROVE  /\ AtRow(r, i) \subseteq Workers /\ IsFiniteSet(AtRow(r, i))
         /\ Cardinality(AtRow(r, i)) \in Nat /\ Cardinality(Workers) \in Nat
         /\ Cardinality(AtRow(r, i)) <= Cardinality(Workers)
<1>1. AtRow(r, i) \in SUBSET Workers
  BY DEF AtRow
<1>2. IsFiniteSet(Workers)
  BY AlertConstants
<1>3. IsFiniteSet(AtRow(r, i)) /\ Cardinality(AtRow(r, i)) <= Cardinality(Workers)
  BY <1>1, <1>2, FS_Subset
<1> QED
  BY <1>1, <1>2, <1>3, FS_CardinalityType

(* A set of those rows can only have fewer workers when none joins them.   *)
LEMMA RowsFewer ==
  ASSUME NEW r, NEW s, NEW i, AtRow(s, i) \subseteq AtRow(r, i)
  PROVE  Cardinality(AtRow(s, i)) <= Cardinality(AtRow(r, i))
  BY RowsCounted, FS_Subset

LEMMA FewerSends ==
  ASSUME StateOK, SendsLeft, NEW w \in Workers, sent' = sent,
         \A v \in Workers : v # w => run'[v] = run[v],
         run'[w] # NoRun /\ run'[w].step # "check" =>
           /\ run[w] # NoRun /\ run[w].step # "check"
           /\ run'[w].task = run[w].task /\ run'[w].on = run[w].on
  PROVE  SendsLeft'
<1>1. ASSUME NEW i \in Reminders
      PROVE  sent'[i] + Cardinality(AtRow(run', i)) <= Cardinality(Workers)
  <2>1. AtRow(run', i) \subseteq AtRow(run, i)
    BY DEF AtRow
  <2>2. Cardinality(AtRow(run', i)) <= Cardinality(AtRow(run, i))
    BY <2>1, RowsFewer
  <2>3. sent[i] + Cardinality(AtRow(run, i)) <= Cardinality(Workers) /\ sent'[i] = sent[i]
    BY DEF SendsLeft
  <2>4. sent[i] \in Nat
    BY DEF StateOK, TypeOK, Reminders, Tasks
  <2>5. /\ Cardinality(AtRow(run, i)) \in Nat /\ Cardinality(AtRow(run', i)) \in Nat
        /\ Cardinality(Workers) \in Nat
    BY RowsCounted
  <2> QED
    BY <2>2, <2>3, <2>4, <2>5
<1> QED
  BY <1>1 DEF SendsLeft, Reminders

(* A worker joins the others only when there is no marker yet, so that     *)
(* nobody has sent the reminder.                                           *)
LEMMA CheckJoins ==
  ASSUME StateOK, MarkersOK, SendsLeft, NEW w \in Workers, NEW x \in Subject, Check(w, x)
  PROVE  SendsLeft'
<1>1. /\ run[w] # NoRun /\ run'[w].task = run[w].task
      /\ Marked24h(run[w].task, x, run[w].now) => run'[w].step = "check"
      /\ ~Marked24h(run[w].task, x, run[w].now) => run'[w].on = x
      /\ \A v \in Workers : v # w => run'[v] = run[v]
      /\ UNCHANGED sent
  BY CheckEffect
<1>2. CASE Marked24h(run[w].task, x, run[w].now)
  BY <1>1, <1>2, FewerSends
<1>3. CASE ~Marked24h(run[w].task, x, run[w].now)
  <2>1. ASSUME NEW i \in Reminders
        PROVE  sent'[i] + Cardinality(AtRow(run', i)) <= Cardinality(Workers)
    <3>1. sent[i] \in Nat /\ sent'[i] = sent[i]
      BY <1>1 DEF StateOK, TypeOK, Reminders, Tasks
    <3>2. /\ Cardinality(AtRow(run, i)) \in Nat /\ Cardinality(AtRow(run', i)) \in Nat
          /\ Cardinality(Workers) \in Nat
          /\ Cardinality(AtRow(run', i)) <= Cardinality(Workers)
      BY RowsCounted
    <3>3. CASE i = <<run[w].task, x>>
      <4>1. run[w].task # "sla"
        BY <3>3 DEF Reminders, ReminderTasks
      <4>2. ~\E m \in markers : m.task = run[w].task /\ m.subject = x
        BY <1>3, <4>1 DEF Marked24h
      <4>3. ~Has(markers, i)
        BY <3>3, <4>2 DEF Has
      <4>4. sent[i] = 0
        BY <3>1, <4>3 DEF MarkersOK, SentOnlyMarked
      <4> QED
        BY <3>1, <3>2, <4>4
    <3>4. CASE i # <<run[w].task, x>>
      <4>1. AtRow(run', i) \subseteq AtRow(run, i)
        BY <1>1, <1>3, <3>4 DEF AtRow
      <4>2. Cardinality(AtRow(run', i)) <= Cardinality(AtRow(run, i))
        BY <4>1, RowsFewer
      <4> QED
        BY <3>1, <3>2, <4>2 DEF SendsLeft
    <3> QED
      BY <3>3, <3>4
  <2> QED
    BY <2>1 DEF SendsLeft, Reminders
<1> QED
  BY <1>2, <1>3

LEMMA SendLeaves ==
  ASSUME StateOK, SendsLeft, NEW w \in Workers, NEW expired \in BOOLEAN, Send(w, expired)
  PROVE  SendsLeft'
<1> DEFINE j == <<run[w].task, run[w].on>>
<1>1. /\ run[w] # NoRun /\ run[w].step = "send" /\ j \in Tasks \X Subject
      /\ sent' = [sent EXCEPT ![j] = @ + 1]
      /\ run'[w] # NoRun => run'[w].step = "check"
      /\ \A v \in Workers : v # w => run'[v] = run[v]
  BY SendEffect
<1>2. ASSUME NEW i \in Reminders
      PROVE  sent'[i] + Cardinality(AtRow(run', i)) <= Cardinality(Workers)
  <2>1. /\ Cardinality(AtRow(run, i)) \in Nat /\ Cardinality(AtRow(run', i)) \in Nat
        /\ Cardinality(Workers) \in Nat /\ IsFiniteSet(AtRow(run, i))
    BY RowsCounted
  <2>2. sent[i] \in Nat /\ i \in Tasks \X Subject /\ sent \in [Tasks \X Subject -> Nat]
    BY DEF StateOK, TypeOK, Reminders, Tasks
  <2>3. sent[i] + Cardinality(AtRow(run, i)) <= Cardinality(Workers)
    BY DEF SendsLeft
  <2>4. CASE i = j
    <3>1. sent'[i] = sent[i] + 1
      BY <1>1, <2>2, <2>4
    <3>2. w \in AtRow(run, i)
      BY <1>1, <2>4 DEF AtRow
    <3>3. AtRow(run', i) = AtRow(run, i) \ {w}
      BY <1>1 DEF AtRow
    <3>4. Cardinality(AtRow(run', i)) = Cardinality(AtRow(run, i)) - 1
      BY <2>1, <3>2, <3>3, FS_RemoveElement
    <3> QED
      BY <2>1, <2>2, <2>3, <3>1, <3>4
  <2>5. CASE i # j
    <3>1. sent'[i] = sent[i]
      BY <1>1, <2>2, <2>5
    <3>2. AtRow(run', i) \subseteq AtRow(run, i)
      BY <1>1 DEF AtRow
    <3>3. Cardinality(AtRow(run', i)) <= Cardinality(AtRow(run, i))
      BY <3>2, RowsFewer
    <3> QED
      BY <2>1, <2>2, <2>3, <3>1, <3>3
  <2> QED
    BY <2>4, <2>5
<1> QED
  BY <1>2 DEF SendsLeft, Reminders

LEMMA RunMovesBounded ==
  ASSUME StateOK, MarkersOK, SendsLeft, NEW w \in Workers, RunMoves(w)
  PROVE  SendsLeft'
<1>1. CASE StartReminders(w) \/ StartAlerts(w)
  <2>1. /\ run'[w].step = "check" /\ UNCHANGED sent
        /\ \A v \in Workers : v # w => run'[v] = run[v]
    BY <1>1, StartRunEffect
  <2> QED
    BY <2>1, FewerSends
<1>2. CASE Mark(w)
  <2>1. /\ run[w] # NoRun /\ run[w].step = "mark" /\ UNCHANGED sent
        /\ run'[w].task = run[w].task /\ run'[w].on = run[w].on
        /\ \A v \in Workers : v # w => run'[v] = run[v]
    BY <1>2, MarkEffect
  <2> QED
    BY <2>1, FewerSends
<1>3. CASE NextWindow(w)
  <2>1. /\ run'[w].step = "check" /\ UNCHANGED sent
        /\ \A v \in Workers : v # w => run'[v] = run[v]
    BY <1>3, NextWindowEffect
  <2> QED
    BY <2>1, FewerSends
<1>4. CASE EndRun(w) \/ RunDies(w)
  <2>1. /\ run'[w] = NoRun /\ UNCHANGED sent
        /\ \A v \in Workers : v # w => run'[v] = run[v]
    BY <1>4, RunEnds
  <2> QED
    BY <2>1, FewerSends
<1> QED
  BY <1>1, <1>2, <1>3, <1>4, CheckJoins, SendLeaves DEF RunMoves

LEMMA BoundMoves ==
  ASSUME StateOK, MarkersOK, SendsLeft, [Next]_vars
  PROVE  SendsLeft'
<1>1. CASE UNCHANGED beatVars
  BY <1>1 DEF beatVars, SendsLeft, AtRow, Reminders
<1> QED
  BY <1>1, BeatMoves, RunMovesBounded

LEMMA BoundInit == Init => SendsLeft
<1> SUFFICES ASSUME Init, NEW i \in Reminders
             PROVE  sent[i] + Cardinality(AtRow(run, i)) <= Cardinality(Workers)
  BY DEF SendsLeft
<1>1. sent[i] = 0
  BY DEF Init, Reminders, Tasks
<1>2. /\ Cardinality(AtRow(run, i)) \in Nat /\ Cardinality(AtRow(run, i)) <= Cardinality(Workers)
  BY RowsCounted
<1> QED
  BY <1>1, <1>2

(* A reminder is sent no more often than there are workers, however often  *)
(* its interview is moved and the runs overlap, die and are repeated.      *)
THEOREM RemindersAtMostOnePerWorker == Spec => []RemindersBounded
<1>1. StateOK /\ SendsLeft => RemindersBounded
  <2> SUFFICES ASSUME StateOK, SendsLeft, NEW i \in Reminders
               PROVE  sent[i] <= Cardinality(Workers)
    BY DEF RemindersBounded
  <2>1. sent[i] \in Nat
    BY DEF StateOK, TypeOK, Reminders, Tasks
  <2>2. Cardinality(AtRow(run, i)) \in Nat /\ Cardinality(Workers) \in Nat
    BY RowsCounted
  <2>3. sent[i] + Cardinality(AtRow(run, i)) <= Cardinality(Workers)
    BY DEF SendsLeft
  <2> QED
    BY <2>1, <2>2, <2>3
<1> QED
  BY <1>1, BoundInit, BoundMoves, MarkersAlways, StateAlways, PTL DEF Spec
-----------------------------------------------------------------------------
(* Notifications and mails *)

(* Calls of fan_out are numbered, a row is of a call and a user, and whom  *)
(* a call still has to notify has no row of it.                            *)
Numbered ==
  /\ \A c \in Callers : fan[c] # NoFan => fan[c].id <= fans
  /\ \A n \in notifs : n.fan <= fans

CallsApart ==
  \A b, c \in Callers : b # c /\ fan[b] # NoFan /\ fan[c] # NoFan => fan[b].id # fan[c].id

NobodyTwice ==
  \A c \in Callers : fan[c] # NoFan =>
    \A n \in notifs : n.fan = fan[c].id => n.user \notin fan[c].todo

OneRow == \A m, n \in notifs : m.fan = n.fan /\ m.user = n.user => m = n

CallsOK == Numbered /\ CallsApart /\ NobodyTwice /\ OneRow

(* Each recipient was notified, lost to a failure, or still is to be.      *)
Accounted ==
  \A k \in Fans, u \in Users : <<k, u>> \in owed =>
    \/ \E n \in notifs : n.fan = k /\ n.user = u
    \/ <<k, u>> \in skipped
    \/ \E c \in Callers : fan[c] # NoFan /\ fan[c].id = k /\ u \in fan[c].todo

FanOK == NotificationTypeOK /\ CallsOK /\ Accounted

LEMMA RowTyped ==
  ASSUME NotificationTypeOK, NEW n \in notifs
  PROVE  /\ n \in Notification /\ n.fan \in Fans /\ n.user \in Users /\ n.emailed \in BOOLEAN
         /\ n.created \in Times /\ n.committed \in Times
  BY DEF NotificationTypeOK, Notification

LEMMA StartFanCalls ==
  ASSUME FanOK, NEW c \in Callers, StartFan(c)
  PROVE  CallsOK' /\ Accounted'
<1> DEFINE to == Recipients \cap active
           f == [id |-> fans + 1, todo |-> to, began |-> clock, expired |-> FALSE]
<1>1. fans \in Nat /\ fan \in [Callers -> Fan \cup {NoFan}]
  BY NotificationConstants DEF FanOK, NotificationTypeOK
<1>2. /\ fan[c] = NoFan /\ fan' = [fan EXCEPT ![c] = f] /\ fans' = fans + 1
      /\ owed' = owed \cup {<<fans + 1, u>> : u \in to}
      /\ UNCHANGED <<notifs, skipped>>
  BY DEF StartFan
<1>3. f.id = fans + 1 /\ f.todo = to
  OBVIOUS
<1>4. f # NoFan
  <2>1. f \in Fan
    BY <1>1, <1>2, NotificationConstants
       DEF Fan, Fans, StartFan, FanOK, NotificationTypeOK
  <2> QED
    BY <2>1, NoneOfThem
<1> HIDE DEF f, to
<1>5. fan'[c] = f /\ \A b \in Callers : b # c => fan'[b] = fan[b]
  BY <1>1, <1>2
<1>6. /\ \A b \in Callers : fan[b] # NoFan => fan[b].id \in Nat /\ fan[b].id <= fans
      /\ \A n \in notifs : n.fan \in Nat /\ n.fan <= fans
  <2>1. \A b \in Callers : fan[b] # NoFan => fan[b].id \in Nat
    BY FanTyped DEF FanOK, Fans
  <2>2. \A n \in notifs : n.fan \in Nat
    BY RowTyped DEF FanOK, Fans
  <2> QED
    BY <2>1, <2>2 DEF FanOK, CallsOK, Numbered
<1>7. Numbered'
  BY <1>1, <1>2, <1>3, <1>5, <1>6 DEF Numbered
<1>8. CallsApart'
  BY <1>1, <1>3, <1>5, <1>6 DEF CallsApart, FanOK, CallsOK
<1>9. NobodyTwice'
  BY <1>1, <1>2, <1>3, <1>5, <1>6 DEF NobodyTwice, FanOK, CallsOK
<1>10. OneRow'
  BY <1>2 DEF OneRow, FanOK, CallsOK
<1>11. ASSUME NEW k \in Fans, NEW u \in Users, <<k, u>> \in owed'
       PROVE  \/ \E n \in notifs' : n.fan = k /\ n.user = u
              \/ <<k, u>> \in skipped'
              \/ \E b \in Callers : fan'[b] # NoFan /\ fan'[b].id = k /\ u \in fan'[b].todo
  <2>1. CASE <<k, u>> \in owed
    BY <1>2, <1>5, <2>1 DEF FanOK, Accounted
  <2>2. CASE <<k, u>> \notin owed
    <3>1. k = fans + 1 /\ u \in to
      BY <1>2, <1>11, <2>2
    <3> QED
      BY <1>3, <1>4, <1>5, <3>1
  <2> QED
    BY <2>1, <2>2
<1>12. Accounted'
  BY <1>11 DEF Accounted
<1> QED
  BY <1>7, <1>8, <1>9, <1>10, <1>12 DEF CallsOK

LEMMA NotifyCalls ==
  ASSUME FanOK, NEW c \in Callers, NEW u \in Users, NEW published \in BOOLEAN,
         Notify(c, u, published)
  PROVE  CallsOK' /\ Accounted'
<1> DEFINE new == Added(c, u, published)
<1>1. NotificationTypeOK
  BY DEF FanOK
<1>2. /\ fan[c] # NoFan /\ u \in fan[c].todo
      /\ \A b \in Callers : b # c => fan'[b] = fan[b]
      /\ fan'[c] # NoFan /\ fan'[c].id = fan[c].id /\ fan'[c].todo = fan[c].todo \ {u}
  BY <1>1, NotifyFan
<1>3. new.fan = fan[c].id /\ new.user = u /\ notifs' = notifs \cup {new}
  BY <1>1, NotifyAdds
<1>4. UNCHANGED <<fans, owed, skipped>>
  BY DEF Notify
<1> HIDE DEF new
<1>5. Numbered'
  BY <1>2, <1>3, <1>4 DEF FanOK, CallsOK, Numbered
<1>6. CallsApart'
  BY <1>2, <1>3 DEF FanOK, CallsOK, CallsApart
<1>7. ASSUME NEW b \in Callers, fan'[b] # NoFan, NEW n \in notifs', n.fan = fan'[b].id
      PROVE  n.user \notin fan'[b].todo
  <2>1. CASE b = c
    <3>1. CASE n = new
      BY <1>2, <1>3, <2>1, <3>1
    <3>2. CASE n # new
      BY <1>2, <1>3, <1>7, <2>1, <3>2 DEF FanOK, CallsOK, NobodyTwice
    <3> QED
      BY <3>1, <3>2
  <2>2. CASE b # c
    <3>1. fan'[b] = fan[b] /\ fan[b].id # fan[c].id
      BY <1>2, <1>3, <1>7, <2>2 DEF FanOK, CallsOK, CallsApart
    <3>2. n \in notifs
      BY <1>2, <1>3, <1>7, <3>1
    <3> QED
      BY <1>7, <3>1, <3>2 DEF FanOK, CallsOK, NobodyTwice
  <2> QED
    BY <2>1, <2>2
<1>8. NobodyTwice'
  BY <1>7 DEF NobodyTwice
<1>9. \A n \in notifs : ~(n.fan = new.fan /\ n.user = new.user)
  BY <1>2, <1>3 DEF FanOK, CallsOK, NobodyTwice
<1>10. OneRow'
  BY <1>2, <1>3, <1>9 DEF FanOK, CallsOK, OneRow
<1>11. ASSUME NEW k \in Fans, NEW v \in Users, <<k, v>> \in owed'
      PROVE  \/ \E n \in notifs' : n.fan = k /\ n.user = v
             \/ <<k, v>> \in skipped'
             \/ \E b \in Callers : fan'[b] # NoFan /\ fan'[b].id = k /\ v \in fan'[b].todo
  <2>1. CASE k = fan[c].id /\ v = u
    BY <1>2, <1>3, <2>1
  <2>2. CASE (\E n \in notifs : n.fan = k /\ n.user = v) \/ <<k, v>> \in skipped
    BY <1>2, <1>3, <1>4, <2>2
  <2>3. ASSUME NEW b \in Callers, fan[b] # NoFan, fan[b].id = k, v \in fan[b].todo,
               ~(k = fan[c].id /\ v = u)
        PROVE  fan'[b] # NoFan /\ fan'[b].id = k /\ v \in fan'[b].todo
    <3>1. CASE b = c
      BY <1>2, <1>3, <2>3, <3>1
    <3>2. CASE b # c
      BY <1>2, <1>3, <2>3, <3>2
    <3> QED
      BY <3>1, <3>2
  <2> QED
    BY <1>4, <1>11, <2>1, <2>2, <2>3 DEF FanOK, Accounted
<1>12. Accounted'
  BY <1>11 DEF Accounted
<1> QED
  BY <1>5, <1>6, <1>8, <1>10, <1>12 DEF CallsOK

(* However a call ends, whom it had still to notify is lost.               *)
LEMMA CallCut ==
  ASSUME NotificationTypeOK, NEW c \in Callers,
         EndFan(c) \/ FanDies(c) \/ \E u \in Users : NotifyFails(c, u)
  PROVE  /\ fan[c] # NoFan
         /\ fan'[c] # NoFan => fan'[c].id = fan[c].id /\ fan'[c].todo = {}
         /\ \A b \in Callers : b # c => fan'[b] = fan[b]
         /\ skipped \subseteq skipped' /\ \A u \in fan[c].todo : <<fan[c].id, u>> \in skipped'
         /\ UNCHANGED <<notifs, fans, owed>>
<1>1. fan \in [Callers -> Fan \cup {NoFan}]
  BY DEF NotificationTypeOK
<1>2. CASE EndFan(c)
  <2>1. fan' = [fan EXCEPT ![c] = NoFan] /\ fan[c] # NoFan /\ fan[c].todo = {}
        /\ UNCHANGED <<notifs, fans, owed, skipped>>
    BY <1>2 DEF EndFan
  <2> QED
    BY <1>1, <2>1
<1>3. CASE FanDies(c)
  <2>1. fan' = [fan EXCEPT ![c] = NoFan] /\ fan[c] # NoFan
        /\ skipped' = skipped \cup ({fan[c].id} \X fan[c].todo)
        /\ UNCHANGED <<notifs, fans, owed>>
    BY <1>3 DEF FanDies
  <2> QED
    BY <1>1, <2>1
<1>4. ASSUME NEW u \in Users, NotifyFails(c, u)
      PROVE  /\ fan[c] # NoFan
             /\ fan'[c].id = fan[c].id /\ fan'[c].todo = {}
             /\ \A b \in Callers : b # c => fan'[b] = fan[b]
             /\ skipped' = skipped \cup ({fan[c].id} \X fan[c].todo)
             /\ UNCHANGED <<notifs, fans, owed>>
  <2>1. /\ fan' = [fan EXCEPT ![c] = [fan[c] EXCEPT !.todo = {}, !.expired = TRUE]]
        /\ fan[c] # NoFan
        /\ skipped' = skipped \cup ({fan[c].id} \X fan[c].todo)
        /\ UNCHANGED <<notifs, fans, owed>>
    BY <1>1, <1>4 DEF NotifyFails
  <2>2. fan[c] \in Fan
    BY <1>1, <2>1
  <2>3. [fan[c] EXCEPT !.todo = {}, !.expired = TRUE].id = fan[c].id
        /\ [fan[c] EXCEPT !.todo = {}, !.expired = TRUE].todo = {}
    BY <2>2 DEF Fan
  <2> QED
    BY <1>1, <2>1, <2>3
<1> QED
  BY <1>2, <1>3, <1>4

LEMMA CutCalls ==
  ASSUME FanOK, NEW c \in Callers,
         EndFan(c) \/ FanDies(c) \/ \E u \in Users : NotifyFails(c, u)
  PROVE  CallsOK' /\ Accounted'
<1>1. /\ fan[c] # NoFan
      /\ fan'[c] # NoFan => fan'[c].id = fan[c].id /\ fan'[c].todo = {}
      /\ \A b \in Callers : b # c => fan'[b] = fan[b]
      /\ skipped \subseteq skipped' /\ \A u \in fan[c].todo : <<fan[c].id, u>> \in skipped'
      /\ UNCHANGED <<notifs, fans, owed>>
  BY CallCut DEF FanOK
<1>2. Numbered'
  BY <1>1 DEF FanOK, CallsOK, Numbered
<1>3. CallsApart'
  BY <1>1 DEF FanOK, CallsOK, CallsApart
<1>4. NobodyTwice'
  BY <1>1 DEF FanOK, CallsOK, NobodyTwice
<1>5. OneRow'
  BY <1>1 DEF FanOK, CallsOK, OneRow
<1>6. ASSUME NEW k \in Fans, NEW v \in Users, <<k, v>> \in owed'
      PROVE  \/ \E n \in notifs' : n.fan = k /\ n.user = v
             \/ <<k, v>> \in skipped'
             \/ \E b \in Callers : fan'[b] # NoFan /\ fan'[b].id = k /\ v \in fan'[b].todo
  <2>1. CASE (\E n \in notifs : n.fan = k /\ n.user = v) \/ <<k, v>> \in skipped
    BY <1>1, <2>1
  <2>2. ASSUME NEW b \in Callers, fan[b] # NoFan, fan[b].id = k, v \in fan[b].todo
        PROVE  <<k, v>> \in skipped'
               \/ (fan'[b] # NoFan /\ fan'[b].id = k /\ v \in fan'[b].todo)
    <3>1. CASE b = c
      BY <1>1, <2>2, <3>1
    <3>2. CASE b # c
      BY <1>1, <2>2, <3>2
    <3> QED
      BY <3>1, <3>2
  <2> QED
    BY <1>1, <1>6, <2>1, <2>2 DEF FanOK, Accounted
<1>7. Accounted'
  BY <1>6 DEF Accounted
<1> QED
  BY <1>2, <1>3, <1>4, <1>5, <1>7 DEF CallsOK


(* Marking rows changes nobody's share in a call.                          *)
LEMMA DigestCalls ==
  ASSUME FanOK, NEW d \in Mailers, MarkDigest(d)
  PROVE  CallsOK' /\ Accounted'
<1> DEFINE ids == digest[d].due
<1>1. UNCHANGED <<fan, fans, owed, skipped>>
  BY DEF MarkDigest
<1>2. notifs' = {Dealt(ids, n) : n \in notifs}
  BY DigestRows
<1>3. \A n \in notifs : Dealt(ids, n).fan = n.fan /\ Dealt(ids, n).user = n.user
  BY DealtWith DEF FanOK, NotificationTypeOK
<1> HIDE DEF ids
<1>4. Numbered' /\ CallsApart'
  BY <1>1, <1>2, <1>3 DEF FanOK, CallsOK, Numbered, CallsApart
<1>5. NobodyTwice'
  BY <1>1, <1>2, <1>3 DEF FanOK, CallsOK, NobodyTwice
<1>6. OneRow'
  BY <1>2, <1>3 DEF FanOK, CallsOK, OneRow
<1>7. Accounted'
  BY <1>1, <1>2, <1>3 DEF FanOK, Accounted
<1> QED
  BY <1>4, <1>5, <1>6, <1>7 DEF CallsOK

LEMMA CallsStay ==
  ASSUME FanOK, UNCHANGED <<notifs, fan, fans, owed, skipped>>
  PROVE  CallsOK' /\ Accounted'
  BY DEF FanOK, CallsOK, Accounted, Numbered, CallsApart, NobodyTwice, OneRow

LEMMA CallsMove ==
  ASSUME FanOK, [NotificationNext]_notificationVars
  PROVE  FanOK'
<1>1. NotificationTypeOK'
  BY NotificationsTyped DEF FanOK
<1>2. CASE Tick \/ UserStep \/ UNCHANGED notificationVars
  <2>1. UNCHANGED <<notifs, fan, fans, owed, skipped>>
    BY <1>2 DEF Tick, UserStep, Watch, SetFilter, Unwatch, Follow, Unfollow, Disable,
                notificationVars, fanVars
  <2> QED
    BY <1>1, <2>1, CallsStay DEF FanOK
<1>3. CASE FanStep
  BY <1>1, <1>3, NotifyCalls, CutCalls DEF FanStep, FanOK
<1>4. CASE DigestStep
  <2>1. PICK d \in Mailers :
          \/ \E p \in DigestPrefs : StartDigest(d, p)
          \/ \E u \in Users : ReadDue(d, u)
          \/ PublishDigest(d) \/ MarkDigest(d) \/ DigestFails(d) \/ EndDigest(d)
    BY <1>4 DEF DigestStep
  <2>2. CASE MarkDigest(d)
    BY <1>1, <2>2, DigestCalls DEF FanOK
  <2>3. CASE ~MarkDigest(d)
    <3>1. UNCHANGED <<notifs, fan, fans, owed, skipped>>
      BY <2>1, <2>3 DEF StartDigest, ReadDue, PublishDigest, DigestFails, EndDigest, fanVars
    <3> QED
      BY <1>1, <3>1, CallsStay DEF FanOK
  <2> QED
    BY <2>2, <2>3
<1>5. CASE \E c \in Callers : StartFan(c) \/ EndFan(c) \/ FanDies(c)
  BY <1>1, <1>5, StartFanCalls, CutCalls DEF FanOK
<1> QED
  BY <1>2, <1>3, <1>4, <1>5 DEF NotificationNext

LEMMA CallsInit == Init => FanOK
  BY NotificationInitTyped
     DEF Init, NotificationInit, FanOK, CallsOK, Accounted, Numbered, CallsApart,
         NobodyTwice, OneRow

LEMMA FanAlways == Spec => []FanOK
  BY CallsInit, CallsMove, NotificationMoves, PTL DEF Spec

(* Of a call that is over each recipient has a row, but for those a failed *)
(* commit or the death of the caller cut off.                              *)
THEOREM RecipientsNotified == Spec => []EveryoneNotified
<1>1. FanOK => EveryoneNotified
  BY DEF FanOK, Accounted, EveryoneNotified, Row
<1> QED
  BY <1>1, FanAlways, PTL
-----------------------------------------------------------------------------
(* What the runs of the digests hold *)

(* Runs go to users of their preference, and hold ids of rows of such; no  *)
(* mail is out that lists nothing.                                         *)
RunHeld(d) ==
  digest[d] # NoDigest =>
    /\ digest[d].due = {} => ~digest[d].published
    /\ \A u \in digest[d].todo : Preference[u] = digest[d].preference
    /\ \A i \in digest[d].due :
         /\ i \in Ids /\ Preference[i[2]] = digest[d].preference
         /\ \E n \in notifs : n.fan = i[1] /\ n.user = i[2]

HeldOK == \A d \in Mailers : RunHeld(d)

\* Rows stay, whatever becomes of their marks.
RowsStay == \A n \in notifs : \E m \in notifs' : m.fan = n.fan /\ m.user = n.user

LEMMA HeldStays ==
  ASSUME HeldOK, RowsStay, NEW d \in Mailers, digest'[d] = digest[d]
  PROVE  RunHeld(d)'
<1>1. digest[d] # NoDigest =>
        /\ digest[d].due = {} => ~digest[d].published
        /\ \A u \in digest[d].todo : Preference[u] = digest[d].preference
        /\ \A i \in digest[d].due :
             /\ i \in Ids /\ Preference[i[2]] = digest[d].preference
             /\ \E n \in notifs : n.fan = i[1] /\ n.user = i[2]
  BY DEF HeldOK, RunHeld
<1>2. \A i : (\E n \in notifs : n.fan = i[1] /\ n.user = i[2])
               => \E m \in notifs' : m.fan = i[1] /\ m.user = i[2]
  BY DEF RowsStay
<1> QED
  BY <1>1, <1>2 DEF RunHeld

LEMMA RowsKept ==
  ASSUME NotificationTypeOK, [NotificationNext]_notificationVars
  PROVE  RowsStay
<1>1. CASE \E d \in Mailers : MarkDigest(d)
  <2>1. PICK d \in Mailers : MarkDigest(d)
    BY <1>1
  <2>2. notifs' = {Dealt(digest[d].due, n) : n \in notifs}
    BY <2>1, DigestRows
  <2>3. \A n \in notifs : Dealt(digest[d].due, n).fan = n.fan
                          /\ Dealt(digest[d].due, n).user = n.user
    BY DealtWith DEF NotificationTypeOK
  <2> QED
    BY <2>2, <2>3 DEF RowsStay
<1>2. CASE notifs \subseteq notifs'
  BY <1>2 DEF RowsStay
<1>3. CASE FanStep
  <2>1. PICK c \in Callers, u \in Users :
          NotifyFails(c, u) \/ \E published \in BOOLEAN : Notify(c, u, published)
    BY <1>3 DEF FanStep
  <2>2. CASE NotifyFails(c, u)
    BY <1>2, <2>2 DEF NotifyFails
  <2>3. ASSUME NEW published \in BOOLEAN, Notify(c, u, published)
        PROVE  notifs \subseteq notifs'
    BY <2>3, NotifyAdds
  <2> QED
    BY <1>2, <2>1, <2>2, <2>3
<1>4. CASE DigestStep /\ \A d \in Mailers : ~MarkDigest(d)
  BY <1>2, <1>4 DEF DigestStep, StartDigest, ReadDue, PublishDigest, DigestFails, EndDigest,
                    fanVars
<1>5. CASE Tick \/ UserStep \/ UNCHANGED notificationVars
  BY <1>2, <1>5 DEF Tick, UserStep, Watch, SetFilter, Unwatch, Follow, Unfollow, Disable,
                    notificationVars, fanVars
<1>6. CASE \E c \in Callers : StartFan(c) \/ EndFan(c) \/ FanDies(c)
  BY <1>2, <1>6 DEF StartFan, EndFan, FanDies
<1> QED
  BY <1>1, <1>3, <1>4, <1>5, <1>6 DEF NotificationNext

LEMMA ReadDueHeld ==
  ASSUME NotificationTypeOK, HeldOK, RowsStay, NEW d \in Mailers, NEW u \in Users, ReadDue(d, u)
  PROVE  RunHeld(d)'
<1>1. /\ digest[d] # NoDigest /\ u \in digest[d].todo
      /\ digest'[d].preference = digest[d].preference
      /\ digest'[d].todo = digest[d].todo \ {u} /\ digest'[d].due = DueIds(d, u)
      /\ digest[d].due = {} /\ digest'[d].published = digest[d].published
      /\ notifs' = notifs
  BY ReadDueEffect
<1>2. ~digest[d].published /\ \A v \in digest[d].todo : Preference[v] = digest[d].preference
  BY <1>1 DEF HeldOK, RunHeld
<1>3. ASSUME NEW i \in DueIds(d, u)
      PROVE  /\ i \in Ids /\ Preference[i[2]] = digest[d].preference
             /\ \E n \in notifs : n.fan = i[1] /\ n.user = i[2]
  <2>1. PICK n \in Due(d, u) : i = <<n.fan, n.user>>
    BY DEF DueIds
  <2>2. n \in notifs /\ n.user = u
    BY DEF Due
  <2>3. i \in Ids /\ i[1] = n.fan /\ i[2] = u
    BY <2>1, <2>2 DEF Ids, NotificationTypeOK, Notification
  <2> QED
    BY <1>1, <1>2, <2>2, <2>3
<1> QED
  BY <1>1, <1>2, <1>3 DEF RunHeld

LEMMA HeldMoves ==
  ASSUME NotificationTypeOK, HeldOK, [NotificationNext]_notificationVars
  PROVE  HeldOK'
<1>1. RowsStay
  BY RowsKept
<1>2. digest' = digest => HeldOK'
  BY <1>1, HeldStays DEF HeldOK
<1>3. CASE FanStep
  <2>1. PICK c \in Callers, u \in Users :
          NotifyFails(c, u) \/ \E published \in BOOLEAN : Notify(c, u, published)
    BY <1>3 DEF FanStep
  <2>2. CASE NotifyFails(c, u)
    BY <1>2, <2>2 DEF NotifyFails, digestVars
  <2>3. ASSUME NEW published \in BOOLEAN, Notify(c, u, published)
        PROVE  digest' = digest
    BY <2>3 DEF Notify, digestVars
  <2> QED
    BY <1>2, <2>1, <2>2, <2>3
<1>4. CASE Tick \/ UserStep \/ UNCHANGED notificationVars
  BY <1>2, <1>4 DEF Tick, UserStep, Watch, SetFilter, Unwatch, Follow, Unfollow, Disable,
                    notificationVars, digestVars
<1>5. CASE \E c \in Callers : StartFan(c) \/ EndFan(c) \/ FanDies(c)
  BY <1>2, <1>5 DEF StartFan, EndFan, FanDies, digestVars
<1>6. CASE DigestStep
  <2>1. PICK d \in Mailers :
          \/ \E p \in DigestPrefs : StartDigest(d, p)
          \/ \E u \in Users : ReadDue(d, u)
          \/ PublishDigest(d) \/ MarkDigest(d) \/ DigestFails(d) \/ EndDigest(d)
    BY <1>6 DEF DigestStep
  <2>2. \A e \in Mailers : e # d => digest'[e] = digest[e]
    BY <2>1, StartDigestEffect, ReadDueEffect, PublishDigestEffect, MarkDigestEffect,
       DigestGoneEffect DEF DigestGone
  <2>3. \A e \in Mailers : e # d => RunHeld(e)'
    BY <1>1, <2>2, HeldStays
  <2>4. RunHeld(d)'
    <3>1. CASE \E p \in DigestPrefs : StartDigest(d, p)
      BY <3>1, StartDigestEffect DEF RunHeld
    <3>2. CASE \E u \in Users : ReadDue(d, u)
      BY <1>1, <3>2, ReadDueHeld
    <3>3. CASE PublishDigest(d)
      <4>1. /\ digest[d] # NoDigest /\ digest[d].due # {} /\ notifs' = notifs
            /\ digest'[d].preference = digest[d].preference
            /\ digest'[d].todo = digest[d].todo /\ digest'[d].due = digest[d].due
        BY <3>3, PublishDigestEffect
      <4> QED
        BY <4>1 DEF HeldOK, RunHeld
    <3>4. CASE MarkDigest(d)
      <4>1. /\ digest[d] # NoDigest /\ digest'[d].preference = digest[d].preference
            /\ digest'[d].todo = digest[d].todo /\ digest'[d].due = {} /\ ~digest'[d].published
        BY <3>4, MarkDigestEffect
      <4> QED
        BY <4>1 DEF HeldOK, RunHeld
    <3>5. CASE DigestFails(d) \/ EndDigest(d)
      BY <3>5, DigestGoneEffect DEF RunHeld, DigestGone
    <3> QED
      BY <2>1, <3>1, <3>2, <3>3, <3>4, <3>5
  <2> QED
    BY <2>3, <2>4 DEF HeldOK
<1> QED
  BY <1>3, <1>4, <1>5, <1>6 DEF NotificationNext

LEMMA HeldInit == Init => HeldOK
  BY DEF Init, NotificationInit, HeldOK, RunHeld

LEMMA HeldAlways == Spec => []HeldOK
<1>1. FanOK => NotificationTypeOK
  BY DEF FanOK
<1> QED
  BY <1>1, HeldInit, HeldMoves, FanAlways, NotificationMoves, PTL DEF Spec
-----------------------------------------------------------------------------
(* Mails *)

(* The workers whose run holds a notification, with its mail out or not.   *)
Posted(g, i) == {d \in Mailers : g[d] # NoDigest /\ i \in g[d].due /\ g[d].published}
Waiting(g, i) == {d \in Mailers : g[d] # NoDigest /\ i \in g[d].due /\ ~g[d].published}

MarkedRow(ns, k, u) == \E n \in ns : n.fan = k /\ n.user = u /\ n.emailed

\* The call that is to notify the user is to come, or has not come to the user.
ToBeNotified(k, u) ==
  \/ fans < k
  \/ \E c \in Callers : fan[c] # NoFan /\ fan[c].id = k /\ u \in fan[c].todo

(* Who is mailed at once is mailed by the call alone.                      *)
AtOnce(k, u) ==
  Immediate(u) => mails[<<k, u>>] <= 1 /\ (ToBeNotified(k, u) => mails[<<k, u>>] = 0)

(* A run adds a mail only if it read the row before it was marked: until   *)
(* then, each mail is of a fault or of a run that is still to mark.        *)
ByDigest(k, u) ==
  ~Immediate(u) =>
    IF MarkedRow(notifs, k, u)
      THEN mails[<<k, u>>] + Cardinality(Waiting(digest, <<k, u>>))
             <= faults + Cardinality(Mailers)
      ELSE mails[<<k, u>>] <= faults + Cardinality(Posted(digest, <<k, u>>))

Backed(k, u) ==
  MarkedRow(notifs, k, u) \/ Posted(digest, <<k, u>>) # {} => mails[<<k, u>>] > 0

MailsOf(k, u) == AtOnce(k, u) /\ ByDigest(k, u) /\ Backed(k, u)
MailsOK == \A k \in Fans, u \in Users : MailsOf(k, u)

LEMMA MailTyped ==
  ASSUME NotificationTypeOK, NEW k \in Fans, NEW u \in Users
  PROVE  <<k, u>> \in Ids /\ mails[<<k, u>>] \in Nat /\ faults \in Nat
  BY NotificationConstants DEF NotificationTypeOK, Ids

LEMMA HoldersCounted ==
  ASSUME NEW g, NEW i
  PROVE  /\ IsFiniteSet(Posted(g, i)) /\ IsFiniteSet(Waiting(g, i))
         /\ Cardinality(Posted(g, i)) \in Nat /\ Cardinality(Waiting(g, i)) \in Nat
         /\ Cardinality(Mailers) \in Nat
         /\ Cardinality(Posted(g, i)) + Cardinality(Waiting(g, i)) <= Cardinality(Mailers)
<1>1. IsFiniteSet(Mailers)
  BY NotificationConstants
<1>2. Posted(g, i) \in SUBSET Mailers /\ Waiting(g, i) \in SUBSET Mailers
  BY DEF Posted, Waiting
<1>3. IsFiniteSet(Posted(g, i)) /\ IsFiniteSet(Waiting(g, i))
  BY <1>1, <1>2, FS_Subset
<1>4. /\ Cardinality(Posted(g, i)) \in Nat /\ Cardinality(Waiting(g, i)) \in Nat
      /\ Cardinality(Mailers) \in Nat
  BY <1>1, <1>3, FS_CardinalityType
<1>5. Posted(g, i) \cap Waiting(g, i) = {}
  BY DEF Posted, Waiting
<1>6. Cardinality(Posted(g, i) \cup Waiting(g, i))
        = Cardinality(Posted(g, i)) + Cardinality(Waiting(g, i))
  <2>1. Cardinality(Posted(g, i) \cap Waiting(g, i)) = 0
    BY <1>5, FS_EmptySet
  <2>2. Cardinality(Posted(g, i) \cup Waiting(g, i))
          = Cardinality(Posted(g, i)) + Cardinality(Waiting(g, i))
              - Cardinality(Posted(g, i) \cap Waiting(g, i))
    BY ONLY <1>3, FS_Union
  <2> QED
    BY ONLY <1>4, <2>1, <2>2
<1>7. Cardinality(Posted(g, i) \cup Waiting(g, i)) <= Cardinality(Mailers)
  <2>1. Posted(g, i) \cup Waiting(g, i) \in SUBSET Mailers
    BY <1>2
  <2> QED
    BY <1>1, <2>1, FS_Subset
<1> QED
  BY <1>3, <1>4, <1>6, <1>7

LEMMA Smaller ==
  ASSUME NEW T, IsFiniteSet(T), NEW S \in SUBSET T
  PROVE  Cardinality(S) <= Cardinality(T)
  BY FS_Subset

(* Mails, marks and runs stay as they were, but for faults.                *)
LEMMA ByDigestStays ==
  ASSUME NotificationTypeOK, NEW k \in Fans, NEW u \in Users, ByDigest(k, u), Backed(k, u),
         mails'[<<k, u>>] = mails[<<k, u>>], faults' \in Nat, faults <= faults',
         MarkedRow(notifs', k, u) <=> MarkedRow(notifs, k, u),
         Posted(digest', <<k, u>>) = Posted(digest, <<k, u>>),
         Waiting(digest', <<k, u>>) = Waiting(digest, <<k, u>>)
  PROVE  ByDigest(k, u)' /\ Backed(k, u)'
<1>1. mails[<<k, u>>] \in Nat /\ faults \in Nat
  BY MailTyped
<1>2. /\ Cardinality(Posted(digest, <<k, u>>)) \in Nat
      /\ Cardinality(Waiting(digest, <<k, u>>)) \in Nat
      /\ Cardinality(Mailers) \in Nat
  BY HoldersCounted
<1>3. Backed(k, u)'
  BY DEF Backed
<1>4. CASE Immediate(u)
  BY <1>3, <1>4 DEF ByDigest
<1>5. CASE ~Immediate(u) /\ MarkedRow(notifs, k, u)
  BY <1>1, <1>2, <1>3, <1>5 DEF ByDigest
<1>6. CASE ~Immediate(u) /\ ~MarkedRow(notifs, k, u)
  BY <1>1, <1>2, <1>3, <1>6 DEF ByDigest
<1> QED
  BY <1>4, <1>5, <1>6

(* A step of a call: it mails the one it notifies, or nobody, and marks    *)
(* whom it mails.                                                          *)
CallStep(c) ==
  /\ fan[c] # NoFan /\ \A b \in Callers : b # c => fan'[b] = fan[b]
  /\ fan'[c] # NoFan => fan'[c].id = fan[c].id /\ fan'[c].todo \subseteq fan[c].todo
  /\ fans' = fans /\ digest' = digest
  /\ faults' \in Nat /\ faults <= faults'
  /\ \/ /\ mails' = mails
        /\ \A k, u : MarkedRow(notifs', k, u) <=> MarkedRow(notifs, k, u)
     \/ \E v \in fan[c].todo :
          /\ fan'[c] # NoFan => v \notin fan'[c].todo
          /\ Immediate(v) /\ mails' = MailedAll({<<fan[c].id, v>>})
          /\ \A k, u : ~(k = fan[c].id /\ u = v) =>
               (MarkedRow(notifs', k, u) <=> MarkedRow(notifs, k, u))

LEMMA CallStepMails ==
  ASSUME FanOK, MailsOK, NEW c \in Callers, CallStep(c)
  PROVE  MailsOK'
<1>1. NotificationTypeOK
  BY DEF FanOK
<1>2. /\ fan[c] # NoFan /\ \A b \in Callers : b # c => fan'[b] = fan[b]
      /\ fan'[c] # NoFan => fan'[c].id = fan[c].id /\ fan'[c].todo \subseteq fan[c].todo
      /\ fans' = fans /\ digest' = digest
      /\ faults' \in Nat /\ faults <= faults'
  BY DEF CallStep
<1>3. ASSUME NEW k \in Fans, NEW u \in Users, mails'[<<k, u>>] = mails[<<k, u>>],
             MarkedRow(notifs', k, u) <=> MarkedRow(notifs, k, u)
      PROVE  MailsOf(k, u)'
  <2>1. AtOnce(k, u) /\ ByDigest(k, u) /\ Backed(k, u)
    BY DEF MailsOK, MailsOf
  <2>2. ToBeNotified(k, u)' => ToBeNotified(k, u)
    BY <1>2 DEF ToBeNotified
  <2>3. AtOnce(k, u)'
    BY <1>3, <2>1, <2>2 DEF AtOnce
  <2>4. ByDigest(k, u)' /\ Backed(k, u)'
    BY <1>1, <1>2, <1>3, <2>1, ByDigestStays
  <2> QED
    BY <2>3, <2>4 DEF MailsOf
<1>4. CASE mails' = mails /\ \A k, u : MarkedRow(notifs', k, u) <=> MarkedRow(notifs, k, u)
  BY <1>3, <1>4 DEF MailsOK
<1>5. ASSUME NEW v \in fan[c].todo,
             fan'[c] # NoFan => v \notin fan'[c].todo,
             Immediate(v), mails' = MailedAll({<<fan[c].id, v>>}),
             \A k, u : ~(k = fan[c].id /\ u = v) =>
               (MarkedRow(notifs', k, u) <=> MarkedRow(notifs, k, u))
      PROVE  MailsOK'
  <2> SUFFICES ASSUME NEW k \in Fans, NEW u \in Users PROVE MailsOf(k, u)'
    BY DEF MailsOK
  <2>1. <<k, u>> \in Ids /\ mails[<<k, u>>] \in Nat
    BY <1>1, MailTyped
  <2>2. mails'[<<k, u>>] = IF <<k, u>> \in {<<fan[c].id, v>>} THEN mails[<<k, u>>] + 1
                           ELSE mails[<<k, u>>]
    BY <1>1, <1>5, <2>1, MailedMore
  <2>3. CASE ~(k = fan[c].id /\ u = v)
    BY <1>3, <1>5, <2>2, <2>3
  <2>4. CASE k = fan[c].id /\ u = v
    <3>1. ToBeNotified(k, u)
      BY <1>2, <1>5, <2>4 DEF ToBeNotified
    <3>2. mails[<<k, u>>] = 0
      BY <1>5, <2>4, <3>1 DEF MailsOK, MailsOf, AtOnce
    <3>3. mails'[<<k, u>>] = 1
      BY <2>2, <2>4, <3>2
    <3>4. ~ToBeNotified(k, u)'
      <4>1. ~(fans < k)
        <5>1. fan[c].id \in Nat /\ fans \in Nat
          BY <1>1, <1>2, FanTyped, NotificationConstants DEF NotificationTypeOK, Fans
        <5>2. fan[c].id <= fans
          BY <1>2 DEF FanOK, CallsOK, Numbered
        <5> QED
          BY <2>4, <5>1, <5>2
      <4>2. ASSUME NEW b \in Callers, fan'[b] # NoFan, fan'[b].id = k, u \in fan'[b].todo
            PROVE  FALSE
        <5>1. CASE b = c
          BY <1>5, <2>4, <4>2, <5>1
        <5>2. CASE b # c
          BY <1>2, <2>4, <4>2, <5>2 DEF FanOK, CallsOK, CallsApart
        <5> QED
          BY <5>1, <5>2
      <4> QED
        BY <1>2, <4>1, <4>2 DEF ToBeNotified
    <3> QED
      BY <1>5, <2>4, <3>3, <3>4 DEF MailsOf, AtOnce, ByDigest, Backed
  <2> QED
    BY <2>3, <2>4
<1> QED
  BY <1>4, <1>5 DEF CallStep

LEMMA NotifyIsStep ==
  ASSUME FanOK, NEW c \in Callers, NEW u \in Users, NEW published \in BOOLEAN,
         Notify(c, u, published)
  PROVE  CallStep(c)
<1> DEFINE new == Added(c, u, published)
<1>1. NotificationTypeOK
  BY DEF FanOK
<1>2. /\ fan[c] # NoFan /\ u \in fan[c].todo
      /\ \A b \in Callers : b # c => fan'[b] = fan[b]
      /\ fan'[c] # NoFan /\ fan'[c].id = fan[c].id /\ fan'[c].todo = fan[c].todo \ {u}
  BY <1>1, NotifyFan
<1>3. /\ new.fan = fan[c].id /\ new.user = u /\ notifs' = notifs \cup {new}
      /\ new.emailed <=> Immediate(u) /\ published
  BY <1>1, NotifyAdds
<1>4. /\ Immediate(u) /\ published => mails' = MailedAll({<<fan[c].id, u>>})
      /\ ~(Immediate(u) /\ published) => mails' = mails
      /\ faults' \in 0..MaxFaults /\ faults <= faults'
  BY <1>1, NotifyMails
<1>5. fans' = fans /\ digest' = digest
  BY DEF Notify, digestVars
<1>6. faults' \in Nat
  BY <1>4, NotificationConstants
<1> HIDE DEF new
<1>7. CASE Immediate(u) /\ published
  <2>1. \A k, v : ~(k = fan[c].id /\ v = u) =>
          (MarkedRow(notifs', k, v) <=> MarkedRow(notifs, k, v))
    BY <1>3 DEF MarkedRow
  <2> QED
    BY <1>2, <1>4, <1>5, <1>6, <1>7, <2>1 DEF CallStep
<1>8. CASE ~(Immediate(u) /\ published)
  <2>1. \A k, v : MarkedRow(notifs', k, v) <=> MarkedRow(notifs, k, v)
    BY <1>3, <1>8 DEF MarkedRow
  <2> QED
    BY <1>2, <1>4, <1>5, <1>6, <1>8, <2>1 DEF CallStep
<1> QED
  BY <1>7, <1>8

LEMMA CutIsStep ==
  ASSUME NotificationTypeOK, NEW c \in Callers,
         EndFan(c) \/ FanDies(c) \/ \E u \in Users : NotifyFails(c, u)
  PROVE  CallStep(c)
<1>1. /\ fan[c] # NoFan
      /\ fan'[c] # NoFan => fan'[c].id = fan[c].id /\ fan'[c].todo = {}
      /\ \A b \in Callers : b # c => fan'[b] = fan[b]
      /\ notifs' = notifs /\ fans' = fans
  BY CallCut
<1>2. digest' = digest
  BY DEF EndFan, FanDies, NotifyFails, digestVars
<1>3. faults' \in Nat /\ faults <= faults'
  <2>1. faults' = faults \/ faults' = faults + 1
    BY DEF EndFan, FanDies, NotifyFails
  <2>2. faults \in Nat
    BY NotificationConstants DEF NotificationTypeOK
  <2> QED
    BY ONLY <2>1, <2>2
<1>4. \/ mails' = mails
      \/ \E v \in fan[c].todo : Immediate(v) /\ mails' = MailedAll({<<fan[c].id, v>>})
  BY DEF EndFan, FanDies, NotifyFails
<1>5. \A k, u : MarkedRow(notifs', k, u) <=> MarkedRow(notifs, k, u)
  BY <1>1
<1> QED
  BY <1>1, <1>2, <1>3, <1>4, <1>5 DEF CallStep

(* A run begins, and holds nothing yet.                                    *)
LEMMA StartDigestMails ==
  ASSUME NotificationTypeOK, MailsOK, NEW d \in Mailers, NEW p \in DigestPrefs, StartDigest(d, p)
  PROVE  MailsOK'
<1>1. /\ digest[d] = NoDigest /\ digest'[d].due = {}
      /\ \A e \in Mailers : e # d => digest'[e] = digest[e]
      /\ UNCHANGED <<notifs, mails, fan, fans, faults>>
  BY StartDigestEffect
<1>2. ASSUME NEW k \in Fans, NEW u \in Users PROVE MailsOf(k, u)'
  <2>1. AtOnce(k, u) /\ ByDigest(k, u) /\ Backed(k, u)
    BY DEF MailsOK, MailsOf
  <2>2. Posted(digest', <<k, u>>) = Posted(digest, <<k, u>>)
    BY <1>1 DEF Posted
  <2>3. Waiting(digest', <<k, u>>) = Waiting(digest, <<k, u>>)
    BY <1>1 DEF Waiting
  <2>4. AtOnce(k, u)'
    BY <1>1, <2>1 DEF AtOnce, ToBeNotified
  <2>5. faults' \in Nat /\ faults <= faults'
    <3>1. faults' = faults /\ faults \in Nat
      BY <1>1, MailTyped
    <3> QED
      BY ONLY <3>1
  <2>6. ByDigest(k, u)' /\ Backed(k, u)'
    BY <1>1, <2>1, <2>2, <2>3, <2>5, ByDigestStays
  <2> QED
    BY <2>4, <2>6 DEF MailsOf
<1> QED
  BY <1>2 DEF MailsOK

(* A run holds only what was not marked when it read it.                   *)
LEMMA ReadDueMails ==
  ASSUME FanOK, HeldOK, MailsOK, NEW d \in Mailers, NEW v \in Users, ReadDue(d, v)
  PROVE  MailsOK'
<1>1. NotificationTypeOK
  BY DEF FanOK
<1>2. /\ digest[d] # NoDigest /\ digest[d].due = {}
      /\ digest'[d] # NoDigest /\ digest'[d].due = DueIds(d, v)
      /\ digest'[d].published = digest[d].published
      /\ \A e \in Mailers : e # d => digest'[e] = digest[e]
      /\ UNCHANGED <<notifs, mails, fan, fans, faults>>
  BY <1>1, ReadDueEffect
<1>3. ~digest[d].published
  BY <1>2 DEF HeldOK, RunHeld
<1>4. ASSUME NEW k \in Fans, NEW u \in Users PROVE MailsOf(k, u)'
  <2>1. AtOnce(k, u) /\ ByDigest(k, u) /\ Backed(k, u)
    BY DEF MailsOK, MailsOf
  <2>2. Posted(digest', <<k, u>>) = Posted(digest, <<k, u>>)
    BY <1>2, <1>3 DEF Posted
  <2>3. AtOnce(k, u)'
    BY <1>2, <2>1 DEF AtOnce, ToBeNotified
  <2>4. CASE <<k, u>> \notin DueIds(d, v)
    <3>1. Waiting(digest', <<k, u>>) = Waiting(digest, <<k, u>>)
      BY <1>2, <2>4 DEF Waiting
    <3>2. faults' \in Nat /\ faults <= faults'
      <4>1. faults' = faults /\ faults \in Nat
        BY <1>1, <1>2, MailTyped
      <4> QED
        BY ONLY <4>1
    <3>3. ByDigest(k, u)' /\ Backed(k, u)'
      BY <1>1, <1>2, <2>1, <2>2, <3>1, <3>2, ByDigestStays
    <3> QED
      BY <2>3, <3>3 DEF MailsOf
  <2>5. CASE <<k, u>> \in DueIds(d, v)
    <3>1. PICK n \in Due(d, v) : <<k, u>> = <<n.fan, n.user>>
      BY <2>5 DEF DueIds
    <3>2. n \in notifs /\ ~n.emailed /\ n.fan = k /\ n.user = u
      BY <3>1 DEF Due
    <3>3. ~MarkedRow(notifs, k, u)
      BY <3>2 DEF MarkedRow, FanOK, CallsOK, OneRow
    <3>4. ByDigest(k, u)' /\ Backed(k, u)'
      BY <1>2, <2>1, <2>2, <3>3 DEF ByDigest, Backed
    <3> QED
      BY <2>3, <3>4 DEF MailsOf
  <2> QED
    BY <2>4, <2>5
<1> QED
  BY <1>4 DEF MailsOK

(* What a run holds goes to users that are not mailed at once.             *)
LEMMA HeldByDigest ==
  ASSUME NotificationTypeOK, HeldOK, NEW d \in Mailers, digest[d] # NoDigest,
         NEW k, NEW u, <<k, u>> \in digest[d].due
  PROVE  ~Immediate(u) /\ \E n \in notifs : n.fan = k /\ n.user = u
<1>1. digest[d].preference \in DigestPrefs
  BY DigestTyped
<1>2. /\ Preference[<<k, u>>[2]] = digest[d].preference
      /\ \E n \in notifs : n.fan = <<k, u>>[1] /\ n.user = <<k, u>>[2]
  BY DEF HeldOK, RunHeld
<1> QED
  BY <1>1, <1>2 DEF Immediate

(* The mail of a run goes out, and the worker goes over from those that    *)
(* wait to those that posted.                                              *)
LEMMA PublishDigestMails ==
  ASSUME NotificationTypeOK, HeldOK, MailsOK, NEW d \in Mailers, PublishDigest(d)
  PROVE  MailsOK'
<1>1. /\ digest[d] # NoDigest /\ ~digest[d].published
      /\ digest'[d] # NoDigest /\ digest'[d].published /\ digest'[d].due = digest[d].due
      /\ \A e \in Mailers : e # d => digest'[e] = digest[e]
      /\ mails' = MailedAll(digest[d].due)
      /\ UNCHANGED <<notifs, fan, fans, faults>>
  BY PublishDigestEffect
<1>2. ASSUME NEW k \in Fans, NEW u \in Users PROVE MailsOf(k, u)'
  <2>1. AtOnce(k, u) /\ ByDigest(k, u) /\ Backed(k, u)
    BY DEF MailsOK, MailsOf
  <2>2. <<k, u>> \in Ids /\ mails[<<k, u>>] \in Nat /\ faults \in Nat
    BY MailTyped
  <2>3. mails'[<<k, u>>] = IF <<k, u>> \in digest[d].due THEN mails[<<k, u>>] + 1
                           ELSE mails[<<k, u>>]
    BY <1>1, <2>2, MailedMore
  <2>4. CASE <<k, u>> \notin digest[d].due
    <3>1. Posted(digest', <<k, u>>) = Posted(digest, <<k, u>>)
      BY <1>1, <2>4 DEF Posted
    <3>2. Waiting(digest', <<k, u>>) = Waiting(digest, <<k, u>>)
      BY <1>1, <2>4 DEF Waiting
    <3>3. mails'[<<k, u>>] = mails[<<k, u>>] /\ faults' \in Nat /\ faults <= faults'
      BY <1>1, <2>2, <2>3, <2>4
    <3>4. AtOnce(k, u)'
      BY <1>1, <2>1, <3>3 DEF AtOnce, ToBeNotified
    <3>5. ByDigest(k, u)' /\ Backed(k, u)'
      BY <1>1, <2>1, <3>1, <3>2, <3>3, ByDigestStays
    <3> QED
      BY <3>4, <3>5 DEF MailsOf
  <2>5. CASE <<k, u>> \in digest[d].due
    <3>1. ~Immediate(u)
      BY <1>1, <2>5, HeldByDigest
    <3>2. mails'[<<k, u>>] = mails[<<k, u>>] + 1
      BY <2>3, <2>5
    <3>3. Posted(digest', <<k, u>>) = Posted(digest, <<k, u>>) \cup {d}
          /\ d \notin Posted(digest, <<k, u>>)
      BY <1>1, <2>5 DEF Posted
    <3>4. Waiting(digest', <<k, u>>) = Waiting(digest, <<k, u>>) \ {d}
          /\ d \in Waiting(digest, <<k, u>>)
      BY <1>1, <2>5 DEF Waiting
    <3>5. /\ IsFiniteSet(Posted(digest, <<k, u>>)) /\ IsFiniteSet(Waiting(digest, <<k, u>>))
          /\ Cardinality(Posted(digest, <<k, u>>)) \in Nat
          /\ Cardinality(Waiting(digest, <<k, u>>)) \in Nat
          /\ Cardinality(Mailers) \in Nat
      BY HoldersCounted
    <3>6. Cardinality(Posted(digest', <<k, u>>)) = Cardinality(Posted(digest, <<k, u>>)) + 1
      BY ONLY <3>3, <3>5, FS_AddElement
    <3>7. Cardinality(Waiting(digest', <<k, u>>)) = Cardinality(Waiting(digest, <<k, u>>)) - 1
      BY ONLY <3>4, <3>5, FS_RemoveElement
    <3>8. CASE MarkedRow(notifs, k, u)
      <4>1. mails[<<k, u>>] + Cardinality(Waiting(digest, <<k, u>>))
              <= faults + Cardinality(Mailers)
        BY <2>1, <3>1, <3>8 DEF ByDigest
      <4>2. mails'[<<k, u>>] + Cardinality(Waiting(digest', <<k, u>>))
              <= faults + Cardinality(Mailers)
        BY ONLY <2>2, <3>2, <3>5, <3>7, <4>1
      <4>3. ByDigest(k, u)'
        BY <1>1, <3>8, <4>2 DEF ByDigest
      <4> QED
        BY <2>2, <3>1, <3>2, <4>3 DEF MailsOf, AtOnce, Backed
    <3>9. CASE ~MarkedRow(notifs, k, u)
      <4>1. mails[<<k, u>>] <= faults + Cardinality(Posted(digest, <<k, u>>))
        BY <2>1, <3>1, <3>9 DEF ByDigest
      <4>2. mails'[<<k, u>>] <= faults + Cardinality(Posted(digest', <<k, u>>))
        BY ONLY <2>2, <3>2, <3>5, <3>6, <4>1
      <4>3. ByDigest(k, u)'
        BY <1>1, <3>9, <4>2 DEF ByDigest
      <4> QED
        BY <2>2, <3>1, <3>2, <4>3 DEF MailsOf, AtOnce, Backed
    <3> QED
      BY <3>8, <3>9
  <2> QED
    BY <2>4, <2>5
<1> QED
  BY <1>2 DEF MailsOK

(* A run marks its rows: whoever has posted it, at most the workers that   *)
(* do not wait can have.                                                   *)
LEMMA MarkDigestMails ==
  ASSUME NotificationTypeOK, HeldOK, MailsOK, NEW d \in Mailers, MarkDigest(d)
  PROVE  MailsOK'
<1> DEFINE ids == digest[d].due
<1>1. /\ digest[d] # NoDigest /\ digest[d].published
      /\ digest'[d] # NoDigest /\ digest'[d].due = {}
      /\ \A e \in Mailers : e # d => digest'[e] = digest[e]
      /\ UNCHANGED <<mails, fan, fans, faults>>
  BY MarkDigestEffect
<1>2. notifs' = {Dealt(ids, n) : n \in notifs}
  BY DigestRows
<1>3. \A n \in notifs : /\ Dealt(ids, n).fan = n.fan /\ Dealt(ids, n).user = n.user
                        /\ Dealt(ids, n).emailed <=> n.emailed \/ <<n.fan, n.user>> \in ids
  BY DealtWith DEF NotificationTypeOK
<1>4. ASSUME NEW k \in Fans, NEW u \in Users PROVE MailsOf(k, u)'
  <2>1. AtOnce(k, u) /\ ByDigest(k, u) /\ Backed(k, u)
    BY DEF MailsOK, MailsOf
  <2>2. mails[<<k, u>>] \in Nat /\ faults \in Nat
    BY MailTyped
  <2>3. AtOnce(k, u)'
    BY <1>1, <2>1 DEF AtOnce, ToBeNotified
  <2>4. CASE <<k, u>> \notin ids
    <3>1. MarkedRow(notifs', k, u) <=> MarkedRow(notifs, k, u)
      <4> HIDE DEF ids
      <4> QED
        BY <1>2, <1>3, <2>4 DEF MarkedRow
    <3>2. Posted(digest', <<k, u>>) = Posted(digest, <<k, u>>)
      BY <1>1, <2>4 DEF Posted
    <3>3. Waiting(digest', <<k, u>>) = Waiting(digest, <<k, u>>)
      BY <1>1, <2>4 DEF Waiting
    <3>4. faults' \in Nat /\ faults <= faults'
      BY <1>1, <2>2
    <3>5. ByDigest(k, u)' /\ Backed(k, u)'
      BY <1>1, <2>1, <3>1, <3>2, <3>3, <3>4, ByDigestStays
    <3> QED
      BY <2>3, <3>5 DEF MailsOf
  <2>5. CASE <<k, u>> \in ids
    <3>1. ~Immediate(u) /\ \E n \in notifs : n.fan = k /\ n.user = u
      BY <1>1, <2>5, HeldByDigest
    <3>2. MarkedRow(notifs', k, u)
      <4> HIDE DEF ids
      <4> QED
        BY <1>2, <1>3, <2>5, <3>1 DEF MarkedRow
    <3>3. Waiting(digest', <<k, u>>) = Waiting(digest, <<k, u>>)
      BY <1>1 DEF Waiting
    <3>4. d \in Posted(digest, <<k, u>>)
      BY <1>1, <2>5 DEF Posted
    <3>5. /\ Cardinality(Posted(digest, <<k, u>>)) \in Nat
          /\ Cardinality(Waiting(digest, <<k, u>>)) \in Nat
          /\ Cardinality(Mailers) \in Nat
          /\ Cardinality(Posted(digest, <<k, u>>)) + Cardinality(Waiting(digest, <<k, u>>))
               <= Cardinality(Mailers)
      BY HoldersCounted
    <3>6. mails[<<k, u>>] + Cardinality(Waiting(digest, <<k, u>>))
            <= faults + Cardinality(Mailers)
      <4>1. CASE MarkedRow(notifs, k, u)
        BY <2>1, <3>1, <4>1 DEF ByDigest
      <4>2. CASE ~MarkedRow(notifs, k, u)
        <5>1. mails[<<k, u>>] <= faults + Cardinality(Posted(digest, <<k, u>>))
          BY <2>1, <3>1, <4>2 DEF ByDigest
        <5> QED
          BY ONLY <2>2, <3>5, <5>1
      <4> QED
        BY <4>1, <4>2
    <3>7. ByDigest(k, u)'
      BY <1>1, <3>2, <3>3, <3>6 DEF ByDigest
    <3>8. Backed(k, u)'
      BY <1>1, <2>1, <3>4 DEF Backed
    <3> QED
      BY <2>3, <3>7, <3>8 DEF MailsOf
  <2> QED
    BY <2>4, <2>5
<1> QED
  BY <1>4 DEF MailsOK

(* A run that is given up is a fault, and leaves one mail unaccounted for. *)
LEMMA DigestGoneMails ==
  ASSUME NotificationTypeOK, MailsOK, NEW d \in Mailers, DigestGone(d)
  PROVE  MailsOK'
<1>1. /\ digest[d] # NoDigest /\ digest'[d] = NoDigest
      /\ \A e \in Mailers : e # d => digest'[e] = digest[e]
      /\ faults' \in 0..MaxFaults
      /\ faults' = faults + 1 \/ (digest[d].due = {} /\ faults' = faults)
      /\ UNCHANGED <<notifs, mails, fan, fans>>
  BY DigestGoneEffect
<1>2. ASSUME NEW k \in Fans, NEW u \in Users PROVE MailsOf(k, u)'
  <2>1. AtOnce(k, u) /\ ByDigest(k, u) /\ Backed(k, u)
    BY DEF MailsOK, MailsOf
  <2>2. mails[<<k, u>>] \in Nat /\ faults \in Nat
    BY MailTyped
  <2>3. AtOnce(k, u)'
    BY <1>1, <2>1 DEF AtOnce, ToBeNotified
  <2>4. /\ Posted(digest', <<k, u>>) = Posted(digest, <<k, u>>) \ {d}
        /\ Waiting(digest', <<k, u>>) = Waiting(digest, <<k, u>>) \ {d}
    BY <1>1 DEF Posted, Waiting
  <2>5. /\ IsFiniteSet(Posted(digest, <<k, u>>)) /\ IsFiniteSet(Waiting(digest, <<k, u>>))
        /\ Cardinality(Posted(digest, <<k, u>>)) \in Nat
        /\ Cardinality(Waiting(digest, <<k, u>>)) \in Nat
        /\ Cardinality(Mailers) \in Nat
    BY HoldersCounted
  <2>6. /\ Cardinality(Posted(digest', <<k, u>>)) \in Nat
        /\ Cardinality(Waiting(digest', <<k, u>>)) \in Nat
    BY HoldersCounted
  <2>7. Backed(k, u)'
    BY <1>1, <2>1, <2>4 DEF Backed
  <2>8. CASE faults' = faults + 1
    <3>1. Cardinality(Posted(digest, <<k, u>>)) <= Cardinality(Posted(digest', <<k, u>>)) + 1
      <4>1. Cardinality(Posted(digest, <<k, u>>) \ {d})
              = IF d \in Posted(digest, <<k, u>>) THEN Cardinality(Posted(digest, <<k, u>>)) - 1
                ELSE Cardinality(Posted(digest, <<k, u>>))
        BY ONLY <2>5, FS_RemoveElement
      <4> QED
        BY ONLY <2>4, <2>5, <4>1
    <3>2. Cardinality(Waiting(digest', <<k, u>>)) <= Cardinality(Waiting(digest, <<k, u>>))
      <4>1. Waiting(digest', <<k, u>>) \in SUBSET Waiting(digest, <<k, u>>)
        BY ONLY <2>4
      <4> QED
        BY ONLY <2>5, <4>1, Smaller
    <3>3. CASE Immediate(u)
      BY <2>3, <2>7, <3>3 DEF MailsOf, ByDigest
    <3>4. CASE ~Immediate(u) /\ MarkedRow(notifs, k, u)
      <4>1. mails[<<k, u>>] + Cardinality(Waiting(digest, <<k, u>>))
              <= faults + Cardinality(Mailers)
        BY <2>1, <3>4 DEF ByDigest
      <4>2. mails[<<k, u>>] + Cardinality(Waiting(digest', <<k, u>>))
              <= faults' + Cardinality(Mailers)
        BY ONLY <2>2, <2>5, <2>6, <2>8, <3>2, <4>1
      <4>3. ByDigest(k, u)'
        BY <1>1, <3>4, <4>2 DEF ByDigest
      <4> QED
        BY <2>3, <2>7, <4>3 DEF MailsOf
    <3>5. CASE ~Immediate(u) /\ ~MarkedRow(notifs, k, u)
      <4>1. mails[<<k, u>>] <= faults + Cardinality(Posted(digest, <<k, u>>))
        BY <2>1, <3>5 DEF ByDigest
      <4>2. mails[<<k, u>>] <= faults' + Cardinality(Posted(digest', <<k, u>>))
        BY ONLY <2>2, <2>5, <2>6, <2>8, <3>1, <4>1
      <4>3. ByDigest(k, u)'
        BY <1>1, <3>5, <4>2 DEF ByDigest
      <4> QED
        BY <2>3, <2>7, <4>3 DEF MailsOf
    <3> QED
      BY <3>3, <3>4, <3>5
  <2>9. CASE digest[d].due = {} /\ faults' = faults
    <3>1. d \notin Posted(digest, <<k, u>>) /\ d \notin Waiting(digest, <<k, u>>)
      BY <2>9 DEF Posted, Waiting
    <3>2. /\ Posted(digest', <<k, u>>) = Posted(digest, <<k, u>>)
          /\ Waiting(digest', <<k, u>>) = Waiting(digest, <<k, u>>)
      BY <2>4, <3>1
    <3>3. ByDigest(k, u)'
      BY <1>1, <2>1, <2>9, <3>2 DEF ByDigest
    <3> QED
      BY <2>3, <2>7, <3>3 DEF MailsOf
  <2> QED
    BY <1>1, <2>8, <2>9
<1> QED
  BY <1>2 DEF MailsOK

LEMMA StartFanMails ==
  ASSUME FanOK, MailsOK, NEW c \in Callers, StartFan(c)
  PROVE  MailsOK'
<1>1. /\ fan[c] = NoFan /\ fans' = fans + 1
      /\ \E f : f.id = fans + 1 /\ fan' = [fan EXCEPT ![c] = f]
      /\ UNCHANGED <<notifs, mails, digest, faults>>
  BY DEF StartFan, digestVars
<1>2. fan \in [Callers -> Fan \cup {NoFan}] /\ fans \in Nat /\ faults \in Nat
  BY NotificationConstants DEF FanOK, NotificationTypeOK
<1>3. fan'[c].id = fans + 1 /\ \A b \in Callers : b # c => fan'[b] = fan[b]
  BY <1>1, <1>2
<1>4. ASSUME NEW k \in Fans, NEW u \in Users PROVE MailsOf(k, u)'
  <2>1. AtOnce(k, u) /\ ByDigest(k, u) /\ Backed(k, u)
    BY DEF MailsOK, MailsOf
  <2>2. ToBeNotified(k, u)' => ToBeNotified(k, u)
    <3>1. k \in Nat
      BY DEF Fans
    <3>2. fans + 1 < k => fans < k
      BY <1>2, <3>1
    <3>3. fans + 1 = k => fans < k
      BY <1>2, <3>1
    <3> QED
      BY <1>1, <1>3, <3>2, <3>3 DEF ToBeNotified
  <2>3. AtOnce(k, u)'
    BY <1>1, <2>1, <2>2 DEF AtOnce
  <2>4. ByDigest(k, u)' /\ Backed(k, u)'
    BY <1>1, <2>1 DEF ByDigest, Backed
  <2> QED
    BY <2>3, <2>4 DEF MailsOf
<1> QED
  BY <1>4 DEF MailsOK

LEMMA MailsMove ==
  ASSUME FanOK, HeldOK, MailsOK, [NotificationNext]_notificationVars
  PROVE  MailsOK'
<1>1. NotificationTypeOK
  BY DEF FanOK
<1>2. UNCHANGED <<notifs, mails, fan, fans, digest, faults>> => MailsOK'
  BY DEF MailsOK, MailsOf, AtOnce, ByDigest, Backed, ToBeNotified
<1>3. CASE Tick \/ UserStep \/ UNCHANGED notificationVars
  BY <1>2, <1>3 DEF Tick, UserStep, Watch, SetFilter, Unwatch, Follow, Unfollow, Disable,
                    notificationVars, fanVars, digestVars
<1>4. CASE FanStep
  BY <1>1, <1>4, NotifyIsStep, CutIsStep, CallStepMails DEF FanStep
<1>5. CASE DigestStep
  BY <1>1, <1>5, StartDigestMails, ReadDueMails, PublishDigestMails, MarkDigestMails,
     DigestGoneMails DEF DigestStep, DigestGone
<1>6. CASE \E c \in Callers : StartFan(c) \/ EndFan(c) \/ FanDies(c)
  BY <1>1, <1>6, StartFanMails, CutIsStep, CallStepMails
<1> QED
  BY <1>3, <1>4, <1>5, <1>6 DEF NotificationNext

LEMMA MailsInit == Init => MailsOK
<1> SUFFICES ASSUME Init, NEW k \in Fans, NEW u \in Users PROVE MailsOf(k, u)
  BY DEF MailsOK
<1>1. /\ mails[<<k, u>>] = 0 /\ faults = 0 /\ notifs = {}
      /\ \A d \in Mailers : digest[d] = NoDigest
  BY DEF Init, NotificationInit, Ids
<1>2. Posted(digest, <<k, u>>) = {}
  BY <1>1 DEF Posted
<1>3. Cardinality(Posted(digest, <<k, u>>)) \in Nat
  BY HoldersCounted
<1> QED
  BY <1>1, <1>2, <1>3 DEF MailsOf, AtOnce, ByDigest, Backed, MarkedRow

LEMMA MailsAlways == Spec => []MailsOK
  BY MailsInit, MailsMove, HeldAlways, FanAlways, NotificationMoves, PTL DEF Spec

(* However many runs of the digests overlap, fail and are repeated, a row  *)
(* is marked as mailed only if it was, fan_out mails it at most once, and  *)
(* the digests at most once but for faults and for the other workers.      *)
THEOREM NoSecondMail == Spec => []MailsMatchMarks
<1>1. FanOK /\ MailsOK => MailsMatchMarks
  <2> SUFFICES ASSUME FanOK, MailsOK, NEW k \in Fans, NEW u \in Users
               PROVE  /\ mails[<<k, u>>] <= IF Immediate(u) THEN 1
                                            ELSE faults + Cardinality(Mailers)
                      /\ \A n \in Row(k, u) : n.emailed => mails[<<k, u>>] > 0
    BY DEF MailsMatchMarks
  <2>1. AtOnce(k, u) /\ ByDigest(k, u) /\ Backed(k, u)
    BY DEF MailsOK, MailsOf
  <2>2. mails[<<k, u>>] \in Nat /\ faults \in Nat
    BY MailTyped DEF FanOK
  <2>3. /\ Cardinality(Posted(digest, <<k, u>>)) \in Nat
        /\ Cardinality(Waiting(digest, <<k, u>>)) \in Nat
        /\ Cardinality(Mailers) \in Nat
        /\ Cardinality(Posted(digest, <<k, u>>)) + Cardinality(Waiting(digest, <<k, u>>))
             <= Cardinality(Mailers)
    BY HoldersCounted
  <2>4. \A n \in Row(k, u) : n.emailed => mails[<<k, u>>] > 0
    BY <2>1 DEF Row, Backed, MarkedRow
  <2>5. CASE Immediate(u)
    BY <2>1, <2>4, <2>5 DEF AtOnce
  <2>6. CASE ~Immediate(u)
    <3>1. \/ mails[<<k, u>>] + Cardinality(Waiting(digest, <<k, u>>))
               <= faults + Cardinality(Mailers)
          \/ mails[<<k, u>>] <= faults + Cardinality(Posted(digest, <<k, u>>))
      BY <2>1, <2>6 DEF ByDigest
    <3>2. mails[<<k, u>>] <= faults + Cardinality(Mailers)
      BY ONLY <2>2, <2>3, <3>1
    <3> QED
      BY <2>4, <2>6, <3>2
  <2> QED
    BY <2>5, <2>6
<1> QED
  BY <1>1, MailsAlways, FanAlways, PTL
-----------------------------------------------------------------------------
(* Digests *)

(* Whether a run, or one that got through the user, may have left n out:   *)
(* it is marked, or was committed later than the run read, or is too old.  *)
Seen(n, now, read) ==
  n.committed < read /\ ~n.emailed => n.created + Window[Preference[n.user]] <= now

ReadBefore ==
  /\ \A n \in notifs : n.committed <= clock
  /\ \A e \in digested : e.read <= clock
  /\ \A d \in Mailers : digest[d] # NoDigest => digest[d].read <= clock

(* A run holds all the rows of its user that it must not leave out.        *)
HoldsAll(d) ==
  digest[d] # NoDigest =>
    \A i \in digest[d].due : \A n \in notifs :
      n.user = i[2] =>
        <<n.fan, n.user>> \in digest[d].due \/ Seen(n, digest[d].now, digest[d].read)

ThroughAll ==
  \A n \in notifs, e \in digested : n.user = e.user => Seen(n, e.now, e.read)

DigestOK == ReadBefore /\ (\A d \in Mailers : HoldsAll(d)) /\ ThroughAll

LEMMA RowTimes ==
  ASSUME NotificationTypeOK, NEW n \in notifs
  PROVE  n.committed \in Nat /\ n.created \in Nat /\ clock \in Nat
  BY RowTyped DEF Times, NotificationTypeOK

LEMMA DigestStays ==
  ASSUME NotificationTypeOK, DigestOK, UNCHANGED <<notifs, digest, digested>>,
         clock' \in Times, clock <= clock'
  PROVE  DigestOK'
<1>1. clock \in Nat /\ clock' \in Nat
  BY DEF NotificationTypeOK, Times
<1>2. \A n \in notifs' : n.committed <= clock'
  <2> SUFFICES ASSUME NEW n \in notifs PROVE n.committed <= clock'
    OBVIOUS
  <2>1. n.committed \in Nat /\ n.committed <= clock
    BY RowTimes DEF DigestOK, ReadBefore
  <2> QED
    BY <1>1, <2>1
<1>3. \A e \in digested' : e.read <= clock'
  <2> SUFFICES ASSUME NEW e \in digested PROVE e.read <= clock'
    OBVIOUS
  <2>1. e.read \in Nat /\ e.read <= clock
    BY DEF DigestOK, ReadBefore, NotificationTypeOK, Digested, Times
  <2> QED
    BY <1>1, <2>1
<1>4. \A d \in Mailers : digest'[d] # NoDigest => digest'[d].read <= clock'
  <2> SUFFICES ASSUME NEW d \in Mailers, digest[d] # NoDigest
               PROVE  digest[d].read <= clock'
    OBVIOUS
  <2>1. digest[d].read \in Nat /\ digest[d].read <= clock
    BY DigestTyped DEF DigestOK, ReadBefore, Times
  <2> QED
    BY <1>1, <2>1
<1>5. ReadBefore'
  BY <1>2, <1>3, <1>4 DEF ReadBefore
<1>6. (\A d \in Mailers : HoldsAll(d)') /\ ThroughAll'
  BY DEF DigestOK, HoldsAll, ThroughAll
<1> QED
  BY <1>5, <1>6 DEF DigestOK

(* A row that is committed now is new to whoever has read.                 *)
LEMMA NotifyDigestOK ==
  ASSUME NotificationTypeOK, DigestOK, NEW c \in Callers, NEW u \in Users,
         NEW published \in BOOLEAN, Notify(c, u, published)
  PROVE  DigestOK'
<1> DEFINE new == Added(c, u, published)
<1>1. new.committed = clock /\ notifs' = notifs \cup {new}
  BY NotifyAdds
<1>2. UNCHANGED <<clock, digest, digested>>
  BY DEF Notify, digestVars
<1>3. clock \in Nat
  BY DEF NotificationTypeOK, Times
<1> HIDE DEF new
<1>4. ReadBefore'
  BY <1>1, <1>2, <1>3 DEF DigestOK, ReadBefore
<1>5. ASSUME NEW now, NEW read \in Nat, read <= clock
      PROVE  Seen(new, now, read)
  BY <1>1, <1>3, <1>5 DEF Seen
<1>6. ASSUME NEW d \in Mailers, digest[d] # NoDigest
      PROVE  Seen(new, digest[d].now, digest[d].read)
  <2>1. digest[d].read \in Nat /\ digest[d].read <= clock
    BY <1>6, DigestTyped DEF DigestOK, ReadBefore, Times
  <2> QED
    BY <1>5, <2>1
<1>7. \A d \in Mailers : HoldsAll(d)'
  BY <1>1, <1>2, <1>6 DEF DigestOK, HoldsAll
<1>8. ASSUME NEW e \in digested
      PROVE  Seen(new, e.now, e.read)
  <2>1. e.read \in Nat /\ e.read <= clock
    BY DEF DigestOK, ReadBefore, NotificationTypeOK, Digested, Times
  <2> QED
    BY <1>5, <2>1
<1>9. ThroughAll'
  BY <1>1, <1>2, <1>8 DEF DigestOK, ThroughAll
<1> QED
  BY <1>4, <1>7, <1>9 DEF DigestOK

LEMMA StartDigestOK ==
  ASSUME NotificationTypeOK, DigestOK, NEW d \in Mailers, NEW p \in DigestPrefs,
         StartDigest(d, p)
  PROVE  DigestOK'
<1>1. /\ digest'[d].read = clock /\ digest'[d].due = {}
      /\ \A e \in Mailers : e # d => digest'[e] = digest[e]
      /\ UNCHANGED <<clock, notifs, digested>>
  BY StartDigestEffect
<1>2. clock <= clock
  BY DEF NotificationTypeOK, Times
<1>3. ReadBefore'
  BY <1>1, <1>2 DEF DigestOK, ReadBefore
<1>4. (\A e \in Mailers : HoldsAll(e)') /\ ThroughAll'
  BY <1>1 DEF DigestOK, HoldsAll, ThroughAll
<1> QED
  BY <1>3, <1>4 DEF DigestOK

(* What a run does not hold of the user it reads is marked or too old.     *)
LEMMA NotDue ==
  ASSUME NotificationTypeOK, HeldOK, NEW d \in Mailers, digest[d] # NoDigest,
         NEW u \in digest[d].todo, NEW n \in notifs, n.user = u, n \notin Due(d, u)
  PROVE  \A read : Seen(n, digest[d].now, read)
<1>1. Preference[u] = digest[d].preference
  BY DEF HeldOK, RunHeld
<1>2. n.emailed \/ ~(n.created + Window[digest[d].preference] > digest[d].now)
  BY DEF Due, InWindow
<1>3. n.created \in Nat /\ digest[d].now \in Nat /\ Window[digest[d].preference] \in Nat
  BY RowTimes, DigestTyped, NotificationConstants DEF Times
<1>4. n.emailed \/ n.created + Window[digest[d].preference] <= digest[d].now
  BY ONLY <1>2, <1>3
<1> QED
  BY <1>1, <1>4 DEF Seen

LEMMA ReadDueOK ==
  ASSUME NotificationTypeOK, HeldOK, DigestOK, NEW d \in Mailers, NEW u \in Users, ReadDue(d, u)
  PROVE  DigestOK'
<1>1. /\ digest[d] # NoDigest /\ u \in digest[d].todo
      /\ digest'[d].now = digest[d].now
      /\ digest'[d].due = DueIds(d, u) /\ digest'[d].read = clock
      /\ \A e \in Mailers : e # d => digest'[e] = digest[e]
      /\ UNCHANGED <<clock, notifs>>
  BY ReadDueEffect
<1>2. clock <= clock
  BY DEF NotificationTypeOK, Times
<1>3. digested' = IF Due(d, u) # {} THEN digested
                  ELSE digested \cup {[user |-> u, now |-> digest[d].now, read |-> clock]}
  BY DEF ReadDue
<1>4. ReadBefore'
  BY <1>1, <1>2, <1>3 DEF DigestOK, ReadBefore
<1>5. HoldsAll(d)'
  <2> SUFFICES ASSUME NEW i \in DueIds(d, u), NEW n \in notifs, n.user = i[2],
                      <<n.fan, n.user>> \notin DueIds(d, u)
               PROVE  Seen(n, digest[d].now, clock)
    BY <1>1 DEF HoldsAll
  <2>1. n.user = u
    BY DEF DueIds, Due
  <2>2. n \notin Due(d, u)
    BY DEF DueIds
  <2> QED
    BY <1>1, <2>1, <2>2, NotDue
<1>6. \A e \in Mailers : HoldsAll(e)'
  BY <1>1, <1>5 DEF DigestOK, HoldsAll
<1>7. ThroughAll'
  <2>1. ASSUME Due(d, u) = {}, NEW n \in notifs, n.user = u
        PROVE  Seen(n, digest[d].now, clock)
    BY <1>1, <2>1, NotDue
  <2>2. \A n \in notifs, e \in digested : n.user = e.user => Seen(n, e.now, e.read)
    BY DEF DigestOK, ThroughAll
  <2> QED
    BY <1>1, <1>3, <2>1, <2>2 DEF ThroughAll
<1> QED
  BY <1>4, <1>6, <1>7 DEF DigestOK

(* What a run has marked it has not left out, and the rest it held not     *)
(* either.                                                                 *)
LEMMA MarkDigestOK ==
  ASSUME NotificationTypeOK, DigestOK, NEW d \in Mailers, MarkDigest(d)
  PROVE  DigestOK'
<1> DEFINE ids == digest[d].due
           held == {n \in notifs : <<n.fan, n.user>> \in ids}
           through == {[user |-> n.user, now |-> digest[d].now, read |-> digest[d].read]
                         : n \in held}
<1>1. /\ digest[d] # NoDigest /\ digest'[d] # NoDigest
      /\ digest'[d].due = {} /\ digest'[d].read = digest[d].read
      /\ \A e \in Mailers : e # d => digest'[e] = digest[e]
      /\ clock' = clock
  BY MarkDigestEffect
<1>2. notifs' = {Dealt(ids, n) : n \in notifs}
  BY DigestRows
<1>3. \A n \in notifs : /\ Dealt(ids, n).fan = n.fan /\ Dealt(ids, n).user = n.user
                        /\ Dealt(ids, n).created = n.created
                        /\ Dealt(ids, n).committed = n.committed
                        /\ Dealt(ids, n).emailed <=> n.emailed \/ <<n.fan, n.user>> \in ids
  BY DealtWith DEF NotificationTypeOK
<1>4. digested' = digested \cup through
  BY DEF MarkDigest
<1>5. digest[d].read <= clock
  BY <1>1 DEF DigestOK, ReadBefore
<1>6. \A n \in notifs : \A now, read : Seen(n, now, read) => Seen(Dealt(ids, n), now, read)
  <2> HIDE DEF ids
  <2> QED
    BY <1>3 DEF Seen
<1>7. \A n \in held : \A now, read : Seen(Dealt(ids, n), now, read)
  BY <1>3 DEF Seen
<1>8. \A e \in through : e.read = digest[d].read /\ e.now = digest[d].now
                         /\ \E n \in held : e.user = n.user
  <2> SUFFICES ASSUME NEW e \in through
               PROVE  /\ e.read = digest[d].read /\ e.now = digest[d].now
                      /\ \E n \in held : e.user = n.user
    OBVIOUS
  <2>1. PICK n \in held :
          e = [user |-> n.user, now |-> digest[d].now, read |-> digest[d].read]
    OBVIOUS
  <2> HIDE DEF held, through
  <2> QED
    BY <2>1
<1>9. ReadBefore'
  <2>1. \A n \in notifs' : n.committed <= clock'
    <3> HIDE DEF ids
    <3>1. \A n \in notifs : n.committed <= clock
      BY DEF DigestOK, ReadBefore
    <3> QED
      BY ONLY <1>1, <1>2, <1>3, <3>1
  <2>2. \A e \in digested' : e.read <= clock'
    BY <1>1, <1>4, <1>5, <1>8 DEF DigestOK, ReadBefore
  <2>3. \A e \in Mailers : digest'[e] # NoDigest => digest'[e].read <= clock'
    BY <1>1, <1>5 DEF DigestOK, ReadBefore
  <2> QED
    BY <2>1, <2>2, <2>3 DEF ReadBefore
<1>10. ASSUME NEW e \in Mailers PROVE HoldsAll(e)'
  <2>1. CASE e = d
    BY <1>1, <2>1 DEF HoldsAll
  <2>2. CASE e # d
    <3> SUFFICES ASSUME digest[e] # NoDigest, NEW i \in digest[e].due, NEW m \in notifs',
                        m.user = i[2]
                 PROVE  <<m.fan, m.user>> \in digest[e].due
                        \/ Seen(m, digest[e].now, digest[e].read)
      BY <1>1, <2>2 DEF HoldsAll
    <3>1. PICK n \in notifs : m = Dealt(ids, n)
      BY <1>2
    <3>2. <<n.fan, n.user>> \in digest[e].due \/ Seen(n, digest[e].now, digest[e].read)
      BY <1>3, <3>1 DEF DigestOK, HoldsAll
    <3> QED
      BY <1>3, <1>6, <3>1, <3>2
  <2> QED
    BY <2>1, <2>2
<1>11. ThroughAll'
  <2> SUFFICES ASSUME NEW m \in notifs', NEW e \in digested', m.user = e.user
               PROVE  Seen(m, e.now, e.read)
    BY DEF ThroughAll
  <2>1. PICK n \in notifs : m = Dealt(ids, n)
    BY <1>2
  <2>2. n.user = e.user
    BY <1>3, <2>1
  <2>3. CASE e \in digested
    <3>1. Seen(n, e.now, e.read)
      BY <2>2, <2>3 DEF DigestOK, ThroughAll
    <3> QED
      BY <1>6, <2>1, <3>1
  <2>4. CASE e \in through
    <3>1. PICK h \in held : e.user = h.user
      BY <1>8, <2>4
    <3>2. e.read = digest[d].read /\ e.now = digest[d].now
      BY <1>8, <2>4
    <3>3. <<h.fan, h.user>> \in ids /\ n.user = <<h.fan, h.user>>[2]
      BY <2>2, <3>1
    <3>4. <<n.fan, n.user>> \in ids \/ Seen(n, digest[d].now, digest[d].read)
      BY <1>1, <3>3 DEF DigestOK, HoldsAll
    <3>5. CASE <<n.fan, n.user>> \in ids
      BY <1>7, <2>1, <3>5
    <3>6. CASE Seen(n, digest[d].now, digest[d].read)
      BY <1>6, <2>1, <3>2, <3>6
    <3> QED
      BY <3>4, <3>5, <3>6
  <2> QED
    BY <1>4, <2>3, <2>4
<1> QED
  BY <1>9, <1>10, <1>11 DEF DigestOK

LEMMA PublishDigestOK ==
  ASSUME NotificationTypeOK, DigestOK, NEW d \in Mailers, PublishDigest(d)
  PROVE  DigestOK'
<1>1. /\ digest[d] # NoDigest /\ digest'[d].now = digest[d].now
      /\ digest'[d].due = digest[d].due /\ digest'[d].read = digest[d].read
      /\ \A e \in Mailers : e # d => digest'[e] = digest[e]
      /\ UNCHANGED <<clock, notifs, digested>>
  BY PublishDigestEffect
<1>2. ReadBefore'
  BY <1>1 DEF DigestOK, ReadBefore
<1>3. (\A e \in Mailers : HoldsAll(e)') /\ ThroughAll'
  BY <1>1 DEF DigestOK, HoldsAll, ThroughAll
<1> QED
  BY <1>2, <1>3 DEF DigestOK

LEMMA DigestGoneOK ==
  ASSUME NotificationTypeOK, DigestOK, NEW d \in Mailers, DigestGone(d)
  PROVE  DigestOK'
<1>1. /\ digest'[d] = NoDigest /\ \A e \in Mailers : e # d => digest'[e] = digest[e]
      /\ UNCHANGED <<clock, notifs, digested>>
  BY DigestGoneEffect
<1>2. ReadBefore'
  BY <1>1 DEF DigestOK, ReadBefore
<1>3. (\A e \in Mailers : HoldsAll(e)') /\ ThroughAll'
  BY <1>1 DEF DigestOK, HoldsAll, ThroughAll
<1> QED
  BY <1>2, <1>3 DEF DigestOK

LEMMA DigestsMove ==
  ASSUME NotificationTypeOK, HeldOK, DigestOK, [NotificationNext]_notificationVars
  PROVE  DigestOK'
<1>1. clock \in Times /\ clock' \in Times
  BY NotificationsTyped DEF NotificationTypeOK
<1>2. clock <= clock
  BY <1>1 DEF Times
<1>3. UNCHANGED <<clock, notifs, digest, digested>> => DigestOK'
  BY <1>1, <1>2, DigestStays
<1>4. CASE UserStep \/ UNCHANGED notificationVars
  BY <1>3, <1>4 DEF UserStep, Watch, SetFilter, Unwatch, Follow, Unfollow, Disable,
                    notificationVars, fanVars, digestVars
<1>5. CASE Tick
  <2>1. clock <= clock' /\ UNCHANGED <<notifs, digest, digested>>
    BY <1>1, <1>5 DEF Tick, Times, fanVars, digestVars
  <2> QED
    BY <1>1, <2>1, DigestStays
<1>6. CASE FanStep
  <2>1. PICK c \in Callers, u \in Users :
          NotifyFails(c, u) \/ \E published \in BOOLEAN : Notify(c, u, published)
    BY <1>6 DEF FanStep
  <2>2. CASE NotifyFails(c, u)
    BY <1>3, <2>2 DEF NotifyFails, digestVars
  <2> QED
    BY <2>1, <2>2, NotifyDigestOK
<1>7. CASE DigestStep
  BY <1>7, StartDigestOK, ReadDueOK, PublishDigestOK, MarkDigestOK, DigestGoneOK
     DEF DigestStep, DigestGone
<1>8. CASE \E c \in Callers : StartFan(c) \/ EndFan(c) \/ FanDies(c)
  BY <1>3, <1>8 DEF StartFan, EndFan, FanDies, digestVars
<1> QED
  BY <1>4, <1>5, <1>6, <1>7, <1>8 DEF NotificationNext

LEMMA DigestsInit == Init => DigestOK
  BY DEF Init, NotificationInit, DigestOK, ReadBefore, HoldsAll, ThroughAll

(* Of the rows committed before a digest read its user's, a digest that    *)
(* got through the user leaves only those unmailed that were created a     *)
(* window before it began: however late it is, whatever it overlaps.       *)
THEOREM DigestsComplete == Spec => []DigestsLeaveNothingOut
<1>1. FanOK => NotificationTypeOK
  BY DEF FanOK
<1>2. DigestOK => DigestsLeaveNothingOut
  BY DEF DigestOK, ThroughAll, Seen, DigestsLeaveNothingOut
<1> QED
  BY <1>1, <1>2, DigestsInit, DigestsMove, HeldAlways, FanAlways, NotificationMoves, PTL DEF Spec
=============================================================================
