------------------------------- MODULE Accounts -------------------------------
(***************************************************************************)
(* Accounts, and the secrets that stand for a person: invites, refresh     *)
(* tokens, password reset tokens and the states of single sign-on.  A      *)
(* request reads the secret or the accounts it is about, and writes what   *)
(* it makes of them when it commits; only registration locks what it read. *)
(***************************************************************************)
EXTENDS Naturals, FiniteSets

CONSTANTS
  Emails,     \* as they are spelled; an account is known by its own
  Lower,      \* each spelling in lower case
  Beginnings, \* the sets of administrators to begin with
  Asked,      \* bound: the roles given
  Scenarios,  \* bound: the operations looked at together
  Passwords, FirstPassword,
  Handlers,
  MaxSecrets, \* bound on the secrets issued
  MaxTime,    \* bound on the commits
  None        \* no account, secret or request

Roles == {"admin", "recruiter", "hr_manager", "viewer"}
States == {"enabled", "disabled"}
Columns == {"role", "state"}
Kinds == {"invite", "refresh", "reset", "sso"}
Secrets == 1..MaxSecrets
Times == 0..MaxTime

Operations == Columns \cup Kinds \cup {"password"}

ASSUME AccountConstants ==
  /\ Lower \in [Emails -> Emails]
  /\ Beginnings \subseteq SUBSET Emails
  /\ Asked \subseteq Roles /\ Scenarios \subseteq SUBSET Operations
  /\ FirstPassword \in Passwords
  /\ MaxSecrets \in Nat /\ MaxTime \in Nat

Account == [role: Roles, state: States, password: Passwords]
\* Whom a secret is for: the account, or the address invited; the state of a
\* single sign-on is for nobody yet.
Secret == [kind: Kinds, for: Emails \cup {None}, role: Roles \cup {None}, spent: BOOLEAN]
\* An administrator's change of an account, loaded once it has been read; a use
\* of a secret; and a change of password.
Change == [op: Columns, actor: Emails, target: Emails, to: Roles \cup States,
           loaded: Account \cup {None}, began: Times]
Using == [op: {"register", "rotate", "reset", "sso"}, secret: Secrets, email: Emails,
          password: Passwords, began: Times]
NewPassword == [op: {"password"}, email: Emails, password: Passwords]

\* Events of the trail: from and to are the column in before and after.
Event == [column: Columns, actor: Emails, target: Emails, from: Roles \cup States,
          to: Roles \cup States, began: Times, committed: Times]
\* What has become of a secret, with when it was read.
Use == [op: {"register", "revoke", "rotate", "logout", "reset", "sso"}, secret: Secrets,
        began: Times, committed: Times]

ASSUME NoneApart == None \notin Account \cup Secret \cup Change \cup Using \cup NewPassword
ASSUME NoneElse == None \notin Emails \cup Roles

VARIABLES
  scenario,
  account,  \* users, by the address
  secret,   \* user_invites, refresh_tokens, password_reset_tokens, and _pending
  issued,
  request,
  log,      \* role and activity changes in business_events
  uses,
  time      \* commits so far

vars == <<scenario, account, secret, issued, request, log, uses, time>>

TypeOK ==
  /\ scenario \in Scenarios
  /\ account \in [Emails -> Account \cup {None}]
  /\ secret \in [Secrets -> Secret \cup {None}]
  /\ issued \in 0..MaxSecrets
  /\ request \in [Handlers -> Change \cup Using \cup NewPassword \cup {None}]
  /\ log \subseteq Event
  /\ uses \subseteq Use
  /\ time \in Times
-----------------------------------------------------------------------------
Enabled(e) == account[e] # None /\ account[e].state = "enabled"

\* require_admin
IsAdmin(e) == Enabled(e) /\ account[e].role = "admin"

Op(h) == IF request[h] = None THEN "none" ELSE request[h].op

Free(h) == request[h] = None

\* Mutant: the invite is read without a lock.
Unlocked(i) == FALSE

\* Registration holds the row of its invite until it commits.
Locked(i) == \E h \in Handlers : Op(h) = "register" /\ request[h].secret = i

\* Mutant: an administrator may change their own role.
AnyTarget(op, actor, target) == TRUE

\* Cannot change your own role; there is no such check for is_active.
MayChange(op, actor, target) == op = "role" => target # actor

Issue(s) ==
  /\ issued < MaxSecrets
  /\ issued' = issued + 1
  /\ secret' = [secret EXCEPT ![issued + 1] = s]

Commit == time < MaxTime /\ time' = time + 1

Done(h) == request' = [request EXCEPT ![h] = None]

\* The request is refused, its commit fails, or the process is killed.
Fail(h) ==
  /\ request[h] # None
  /\ Done(h)
  /\ UNCHANGED <<account, secret, issued, log, uses, time>>

\* The process starts again: what was under way and _pending are gone.
Restart ==
  /\ request' = [h \in Handlers |-> None]
  /\ secret' = [i \in Secrets |->
       IF secret[i] # None /\ secret[i].kind = "sso"
         THEN [secret[i] EXCEPT !.spent = TRUE] ELSE secret[i]]
  /\ UNCHANGED <<account, issued, log, uses, time>>
-----------------------------------------------------------------------------
(* Administrators *)

\* get_current_user, once for the whole request; the session already holds the
\* target if it is the actor.
Enter(h, op, actor, target, to) ==
  /\ Free(h) /\ IsAdmin(actor)
  /\ MayChange(op, actor, target)
  /\ request' = [request EXCEPT ![h] =
       [op |-> op, actor |-> actor, target |-> target, to |-> to,
        loaded |-> IF target = actor THEN account[actor] ELSE None, began |-> time]]
  /\ UNCHANGED <<account, secret, issued, log, uses, time>>

Load(h) ==
  /\ Op(h) \in Columns /\ request[h].loaded = None
  /\ account[request[h].target] # None
  /\ request' = [request EXCEPT ![h].loaded = account[request[h].target]]
  /\ UNCHANGED <<account, secret, issued, log, uses, time>>

Column(row, op) == IF op = "role" THEN row.role ELSE row.state

\* Mutant: every column is written back.
WholeRow(row, loaded, op, to) ==
  IF op = "role" THEN [loaded EXCEPT !.role = to] ELSE [loaded EXCEPT !.state = to]

\* The UPDATE of a session that has set a column: none if it had that value.
Written(row, loaded, op, to) ==
  IF Column(loaded, op) = to THEN row
  ELSE IF op = "role" THEN [row EXCEPT !.role = to] ELSE [row EXCEPT !.state = to]

\* update_user_role and update_user_active
CommitChange(h) ==
  /\ Op(h) \in Columns /\ request[h].loaded # None
  /\ Commit
  /\ LET r == request[h] IN
       /\ account' = [account EXCEPT ![r.target] = Written(@, r.loaded, r.op, r.to)]
       /\ log' = log \cup {[column |-> r.op, actor |-> r.actor, target |-> r.target,
                            from |-> Column(r.loaded, r.op), to |-> r.to,
                            began |-> r.began, committed |-> time]}
  /\ Done(h)
  /\ UNCHANGED <<secret, issued, uses>>

\* Mutant: an invite has no role of its own.
InviteWithoutRole(actor, email, role) ==
  /\ IsAdmin(actor)
  /\ Issue([kind |-> "invite", for |-> Lower[email], role |-> None, spent |-> FALSE])
  /\ UNCHANGED <<account, request, log, uses, time>>

\* create_invite
Invite(actor, email, role) ==
  /\ IsAdmin(actor)
  /\ Issue([kind |-> "invite", for |-> Lower[email], role |-> role, spent |-> FALSE])
  /\ UNCHANGED <<account, request, log, uses, time>>

Spend(i) == secret' = [secret EXCEPT ![i].spent = TRUE]

Used(op, i, began) ==
  uses' = uses \cup {[op |-> op, secret |-> i, began |-> began, committed |-> time]}

Issued(i, kind) == secret[i] # None /\ secret[i].kind = kind

\* revoke_invite, of an invite in any state; the UPDATE waits for a lock.
Revoke(actor, i) ==
  /\ IsAdmin(actor) /\ Issued(i, "invite") /\ ~Locked(i)
  /\ Commit /\ Spend(i) /\ Used("revoke", i, time)
  /\ UNCHANGED <<account, issued, request, log>>
-----------------------------------------------------------------------------
(* Secrets *)

\* Mutant: used_at, or revoked_at, is not looked at.
EvenSpent(i, kind) == Issued(i, kind)

Usable(i, kind) == Issued(i, kind) /\ ~secret[i].spent

BeginUse(h, op, i, email, password) ==
  /\ Free(h)
  /\ request' = [request EXCEPT ![h] = [op |-> op, secret |-> i, email |-> email,
                                        password |-> password, began |-> time]]
  /\ UNCHANGED <<account, issued, log, time>>

\* register_user; SELECT ... FOR UPDATE waits, and reads the row then.
BeginRegister(h, i, email, password) ==
  /\ account[email] = None
  /\ Usable(i, "invite") /\ ~Locked(i) /\ Lower[email] = secret[i].for
  /\ BeginUse(h, "register", i, email, password)
  /\ UNCHANGED <<secret, uses>>

\* users.email is unique.
Register(h) ==
  /\ Op(h) = "register"
  /\ LET r == request[h] IN
       /\ account[r.email] = None
       /\ account' = [account EXCEPT ![r.email] =
            [role |-> secret[r.secret].role, state |-> "enabled", password |-> r.password]]
       /\ Commit /\ Spend(r.secret) /\ Used("register", r.secret, r.began)
  /\ Done(h)
  /\ UNCHANGED <<issued, log>>

RefreshToken(email) ==
  Issue([kind |-> "refresh", for |-> email, role |-> None, spent |-> FALSE])

\* login_user
Login(email, password) ==
  /\ Enabled(email) /\ account[email].password = password
  /\ RefreshToken(email)
  /\ UNCHANGED <<account, request, log, uses, time>>

\* logout_user, of a token in any state.
Logout(i) ==
  /\ Issued(i, "refresh")
  /\ Commit /\ Spend(i) /\ Used("logout", i, time)
  /\ UNCHANGED <<account, issued, request, log>>

\* rotate_refresh_token
BeginRotate(h, i) ==
  /\ Usable(i, "refresh") /\ Enabled(secret[i].for)
  /\ BeginUse(h, "rotate", i, secret[i].for, FirstPassword)
  /\ UNCHANGED <<secret, uses>>

Rotate(h) ==
  /\ Op(h) = "rotate"
  /\ issued < MaxSecrets /\ issued' = issued + 1
  /\ LET r == request[h] IN
       /\ secret' = [secret EXCEPT ![r.secret].spent = TRUE,
            ![issued + 1] = [kind |-> "refresh", for |-> r.email, role |-> None,
                             spent |-> FALSE]]
       /\ Commit /\ Used("rotate", r.secret, r.began)
  /\ Done(h)
  /\ UNCHANGED <<account, log>>

\* forgot_password
ForgotPassword(email) ==
  /\ account[email] # None
  /\ Issue([kind |-> "reset", for |-> email, role |-> None, spent |-> FALSE])
  /\ UNCHANGED <<account, request, log, uses, time>>

\* reset_password, whoever the user is by now.
BeginReset(h, i, password) ==
  /\ Usable(i, "reset")
  /\ BeginUse(h, "reset", i, secret[i].for, password)
  /\ UNCHANGED <<secret, uses>>

Reset(h) ==
  /\ Op(h) = "reset"
  /\ LET r == request[h] IN
       /\ account' = [account EXCEPT ![r.email].password = r.password]
       /\ Commit /\ Spend(r.secret) /\ Used("reset", r.secret, r.began)
  /\ Done(h)
  /\ UNCHANGED <<issued, log>>

\* change_password, by who knows the current one.
BeginPassword(h, email, current, new) ==
  /\ Free(h) /\ Enabled(email) /\ account[email].password = current
  /\ request' = [request EXCEPT ![h] =
                   [op |-> "password", email |-> email, password |-> new]]
  /\ UNCHANGED <<account, secret, issued, log, uses, time>>

ChangePassword(h) ==
  /\ Op(h) = "password"
  /\ Commit
  /\ account' = [account EXCEPT ![request[h].email].password = request[h].password]
  /\ Done(h)
  /\ UNCHANGED <<secret, issued, log, uses>>

\* sso_login
StartSso ==
  /\ Issue([kind |-> "sso", for |-> None, role |-> None, spent |-> FALSE])
  /\ UNCHANGED <<account, request, log, uses, time>>

\* sso_callback takes the state out at once, then asks the identity provider,
\* which knows the address in lower case.
BeginSso(h, i, email) ==
  /\ Usable(i, "sso")
  /\ BeginUse(h, "sso", i, Lower[email], FirstPassword)
  /\ Spend(i) /\ uses' = uses \cup {[op |-> "sso", secret |-> i, began |-> time,
                                     committed |-> time]}

\* An active account of that address is signed in, with no refresh token.
Sso(h) ==
  /\ Op(h) = "sso" /\ Enabled(request[h].email)
  /\ Commit /\ Done(h)
  /\ UNCHANGED <<account, secret, issued, log, uses>>
-----------------------------------------------------------------------------
\* Some administrators, and nothing done yet.
Init ==
  /\ \E admins \in Beginnings :
       account = [e \in Emails |->
         IF e \in admins
           THEN [role |-> "admin", state |-> "enabled", password |-> FirstPassword]
           ELSE None]
  /\ secret = [i \in Secrets |-> None]
  /\ scenario \in Scenarios
  /\ issued = 0
  /\ request = [h \in Handlers |-> None]
  /\ log = {} /\ uses = {}
  /\ time = 0

ChangeStep ==
  \/ \E h \in Handlers : Load(h) \/ CommitChange(h)
  \/ \E h \in Handlers, op \in scenario \cap Columns, actor, target \in Emails :
       \E to \in (IF op = "role" THEN Asked ELSE States) : Enter(h, op, actor, target, to)

InviteStep ==
  /\ "invite" \in scenario
  /\ \/ \E actor, email \in Emails, role \in Asked : Invite(actor, email, role)
     \/ \E actor \in Emails, i \in Secrets : Revoke(actor, i)
     \/ \E h \in Handlers : Register(h)
     \/ \E h \in Handlers, i \in Secrets, e \in Emails, p \in Passwords :
          BeginRegister(h, i, e, p)

SessionStep ==
  /\ "refresh" \in scenario
  /\ \/ \E e \in Emails, p \in Passwords : Login(e, p)
     \/ \E i \in Secrets : Logout(i)
     \/ \E h \in Handlers : Rotate(h) \/ \E i \in Secrets : BeginRotate(h, i)

PasswordStep ==
  \/ /\ "reset" \in scenario
     /\ \/ \E e \in Emails : ForgotPassword(e)
        \/ \E h \in Handlers : Reset(h)
        \/ \E h \in Handlers, i \in Secrets, p \in Passwords : BeginReset(h, i, p)
  \/ /\ "password" \in scenario
     /\ \E h \in Handlers :
          \/ ChangePassword(h)
          \/ \E e \in Emails, p, q \in Passwords : BeginPassword(h, e, p, q)

SsoStep ==
  /\ "sso" \in scenario
  /\ \/ StartSso
     \/ \E h \in Handlers : Sso(h) \/ \E i \in Secrets, e \in Emails : BeginSso(h, i, e)

Next ==
  /\ \/ ChangeStep \/ InviteStep \/ SessionStep \/ PasswordStep \/ SsoStep
     \/ Restart
     \/ \E h \in Handlers : Fail(h)
  /\ UNCHANGED scenario

Spec == Init /\ [][Next]_vars
-----------------------------------------------------------------------------
(* Properties *)

\* A secret that was revoked or used is not taken by a request that reads it
\* after; requests that read it before may both go through.
SpentIsSpent ==
  \A u, v \in uses :
    /\ u.secret = v.secret
    /\ v.op \in {"register", "rotate", "reset", "sso"}
    => v.began <= u.committed

\* An invite makes one account, and none once it is revoked; a state signs in
\* once.
UsedOnce ==
  \A u, v \in uses :
    u.secret = v.secret /\ u # v /\ v.op \in {"register", "sso"} => v.committed < u.committed

\* The trail explains the roles and activity of the accounts, whatever requests
\* overlapped: each is what its last change made it.
ChangesOf(e, c) == {x \in log : x.target = e /\ x.column = c /\ x.from # x.to}

TrailExplainsAccounts ==
  \A e \in Emails, c \in Columns :
    \A x \in ChangesOf(e, c) :
      (\A y \in ChangesOf(e, c) : y.committed <= x.committed)
      => Column(account[e], c) = x.to

\* The last administrator is lost only by deactivating themselves, or to a
\* request of one who was demoted or deactivated while it was under way.
LastAdmin ==
  (\E e \in Emails : IsAdmin(e)) /\ ~(\E e \in Emails : IsAdmin(e)')
  => \E y \in log' \ log :
       \/ y.column = "state" /\ y.actor = y.target
       \/ \E x \in log : x.target = y.actor /\ y.began <= x.committed

LastAdminLostInOverlap == [][LastAdmin]_vars
=============================================================================
