---------------------------- MODULE AccountsProofs ----------------------------
(***************************************************************************)
(* What holds of accounts and secrets for any number of addresses,         *)
(* requests, secrets and commits, with every operation at once.            *)
(***************************************************************************)
EXTENDS Accounts, TLAPS

UsingOps == {"register", "rotate", "reset", "sso"}

KindOf(op) ==
  CASE op \in {"register", "revoke"} -> "invite"
    [] op \in {"rotate", "logout"} -> "refresh"
    [] op = "reset" -> "reset"
    [] op = "sso" -> "sso"

(* Secrets are numbered as they are issued, and whom they are for exists.  *)
SecretsOK ==
  /\ \A i \in Secrets : i > issued => secret[i] = None
  /\ \A i \in Secrets : secret[i] # None =>
       /\ secret[i].kind = "invite" => secret[i].for \in Emails /\ secret[i].role \in Roles
       /\ secret[i].kind \in {"refresh", "reset"} =>
            secret[i].for \in Emails /\ account[secret[i].for] # None

(* What a request in flight knows is still so: the accounts it has read    *)
(* exist, its secret is of its kind, and an invite under registration is   *)
(* not spent.                                                              *)
ChangeOK(h) ==
  LET r == request[h] IN
  /\ r \in Change
  /\ r.to \in (IF r.op = "role" THEN Roles ELSE States)
  /\ MayChange(r.op, r.actor, r.target)
  /\ r.loaded # None => account[r.target] # None
  /\ r.began <= time
UsingOK(h) ==
  LET r == request[h] IN
  /\ r \in Using
  /\ secret[r.secret] # None /\ secret[r.secret].kind = KindOf(r.op)
  /\ r.op = "register" => ~secret[r.secret].spent
  /\ r.op \in {"rotate", "reset"} => account[r.email] # None
  /\ r.began <= time
PasswordOK(h) == request[h] \in NewPassword /\ account[request[h].email] # None

Good(h) ==
  \/ request[h] = None
  \/ request[h] # None /\ request[h].op \in Columns /\ ChangeOK(h)
  \/ request[h] # None /\ request[h].op \in UsingOps /\ UsingOK(h)
  \/ request[h] # None /\ request[h].op = "password" /\ PasswordOK(h)

HeldOK == \A h \in Handlers : Good(h)

LocksOK ==
  \A g, h \in Handlers :
    Op(g) = "register" /\ Op(h) = "register" /\ request[g].secret = request[h].secret
    => g = h

StateOK == TypeOK /\ SecretsOK /\ HeldOK /\ LocksOK
-----------------------------------------------------------------------------
LEMMA Apart ==
  /\ None \notin Account /\ None \notin Secret /\ None \notin Change
  /\ None \notin Using /\ None \notin NewPassword /\ None \notin Emails /\ None \notin Roles
  BY NoneApart, NoneElse

LEMMA OpKinds ==
  /\ KindOf("register") = "invite" /\ KindOf("revoke") = "invite"
  /\ KindOf("rotate") = "refresh" /\ KindOf("logout") = "refresh"
  /\ KindOf("reset") = "reset" /\ KindOf("sso") = "sso"
  BY DEF KindOf

(* What a request does to the rest: accounts are never lost, secrets keep  *)
(* their kind and stay spent, and time goes on.                            *)
Keeps ==
  /\ \A e \in Emails : account[e] # None => account'[e] # None
  /\ \A i \in Secrets : secret[i] # None =>
       /\ secret'[i] # None
       /\ secret'[i].kind = secret[i].kind /\ secret'[i].for = secret[i].for
       /\ secret'[i].role = secret[i].role
       /\ secret[i].spent => secret'[i].spent
  /\ time <= time'

LEMMA SpentTyped ==
  ASSUME NEW s \in Secret
  PROVE  LET t == [s EXCEPT !.spent = TRUE] IN
         /\ t \in Secret /\ t.kind = s.kind /\ t.for = s.for /\ t.role = s.role
         /\ t.spent
  BY DEF Secret

LEMMA SpendKeeps ==
  ASSUME TypeOK, NEW i \in Secrets, secret[i] # None, Spend(i)
  PROVE  /\ secret' \in [Secrets -> Secret \cup {None}]
         /\ \A j \in Secrets : j # i => secret'[j] = secret[j]
         /\ secret'[i] # None /\ secret'[i].spent
         /\ secret'[i].kind = secret[i].kind /\ secret'[i].for = secret[i].for
         /\ secret'[i].role = secret[i].role
<1>1. secret \in [Secrets -> Secret \cup {None}] /\ secret[i] \in Secret
  BY DEF TypeOK
<1>2. secret' = [secret EXCEPT ![i] = [secret[i] EXCEPT !.spent = TRUE]]
  BY DEF Spend
<1>3. secret'[i] = [secret[i] EXCEPT !.spent = TRUE]
  BY <1>1, <1>2
<1> QED
  BY <1>1, <1>2, <1>3, SpentTyped, Apart

LEMMA IssueKeeps ==
  ASSUME TypeOK, SecretsOK, NEW s \in Secret, Issue(s)
  PROVE  /\ issued' \in 0..MaxSecrets /\ issued' = issued + 1 /\ issued' \in Secrets
         /\ secret' \in [Secrets -> Secret \cup {None}]
         /\ secret[issued'] = None /\ secret'[issued'] = s
         /\ \A j \in Secrets : j # issued' => secret'[j] = secret[j]
  BY AccountConstants, Apart DEF TypeOK, SecretsOK, Issue, Secrets

LEMMA CommitTyped ==
  ASSUME TypeOK, Commit
  PROVE  time \in Times /\ time' \in Times /\ time < time'
  BY AccountConstants DEF TypeOK, Commit, Times

(* A request goes on as it was, unless its invite was spent under it.      *)
LEMMA GoodKept ==
  ASSUME StateOK, Keeps, NEW h \in Handlers, request'[h] = request[h],
         time' \in Times,
         Op(h) = "register" => ~secret'[request[h].secret].spent
  PROVE  Good(h)'
<1>0. Good(h) /\ time \in Times /\ time' \in Times /\ time <= time'
  BY DEF StateOK, HeldOK, Keeps, TypeOK
<1>1. CASE request[h] = None
  BY <1>1 DEF Good
<1>2. CASE request[h] # None /\ request[h].op \in Columns /\ ChangeOK(h)
  <2>1. request[h].target \in Emails /\ request[h].began \in Times
    BY <1>2 DEF ChangeOK, Change
  <2>2. ChangeOK(h)'
    BY <1>0, <1>2, <2>1 DEF ChangeOK, Keeps, MayChange, Times
  <2> QED
    BY <1>2, <2>2 DEF Good
<1>3. CASE request[h] # None /\ request[h].op \in UsingOps /\ UsingOK(h)
  <2>1. /\ request[h].secret \in Secrets /\ request[h].began \in Times
        /\ request[h].email \in Emails
    BY <1>3 DEF UsingOK, Using
  <2>2. UsingOK(h)'
    BY <1>0, <1>3, <2>1 DEF UsingOK, Keeps, Times, Op
  <2> QED
    BY <1>3, <2>2 DEF Good
<1>4. CASE request[h] # None /\ request[h].op = "password" /\ PasswordOK(h)
  <2>1. request[h].email \in Emails
    BY <1>4 DEF PasswordOK, NewPassword
  <2>2. PasswordOK(h)'
    BY <1>4, <2>1 DEF PasswordOK, Keeps
  <2> QED
    BY <1>4, <2>2 DEF Good
<1> QED
  BY <1>0, <1>1, <1>2, <1>3, <1>4 DEF Good

(* Only h has gone or come, and if it registers, its invite was free.      *)
Only(h) == \A g \in Handlers : g # h => request'[g] = request[g]

LEMMA LocksKept ==
  ASSUME LocksOK, NEW h \in Handlers, Only(h),
         \/ request'[h] = request[h] \/ request'[h] = None
         \/ request'[h] # None /\ request'[h].op # "register"
         \/ ~Locked(request'[h].secret)
  PROVE  LocksOK'
  BY DEF LocksOK, Only, Locked, Op

LEMMA GoodSecrets ==
  ASSUME StateOK, NEW h \in Handlers, Op(h) \in UsingOps
  PROVE  /\ UsingOK(h) /\ request[h] \in Using
         /\ request[h].secret \in Secrets /\ request[h].email \in Emails
         /\ request[h].password \in Passwords
         /\ request[h].began \in Times /\ request[h].began <= time
         /\ secret[request[h].secret] # None
         /\ secret[request[h].secret].kind = KindOf(Op(h))
<1>1. request[h] # None /\ Op(h) = request[h].op
  BY DEF Op, UsingOps
<1>2. UsingOK(h)
  BY <1>1 DEF StateOK, HeldOK, Good, UsingOps, Columns
<1> QED
  BY <1>1, <1>2 DEF UsingOK, Using

LEMMA SecretsKept ==
  ASSUME StateOK, Keeps, issued' = issued,
         \A i \in Secrets : secret[i] = None => secret'[i] = None
  PROVE  SecretsOK'
<1>1. \A i \in Secrets : i > issued' => secret'[i] = None
  BY DEF StateOK, SecretsOK
<1>2. ASSUME NEW i \in Secrets, secret'[i] # None
      PROVE  /\ secret[i] # None
             /\ secret'[i].kind = secret[i].kind /\ secret'[i].for = secret[i].for
             /\ secret'[i].role = secret[i].role
  BY <1>2 DEF Keeps
<1> QED
  BY <1>1, <1>2 DEF SecretsOK, StateOK, Keeps

LEMMA StateKept ==
  ASSUME StateOK, Keeps, TypeOK', SecretsOK',
         NEW h \in Handlers, Only(h), Good(h)',
         \/ request'[h] = request[h] \/ request'[h] = None
         \/ request'[h] # None /\ request'[h].op # "register"
         \/ ~Locked(request'[h].secret),
         \A g \in Handlers : g # h /\ Op(g) = "register" =>
           ~secret'[request[g].secret].spent
  PROVE  StateOK'
<1>1. LocksOK'
  BY LocksKept DEF StateOK
<1>2. ASSUME NEW g \in Handlers PROVE Good(g)'
  <2>1. CASE g = h
    BY <2>1
  <2>2. CASE g # h
    <3>1. request'[g] = request[g] /\ time' \in Times
      BY <2>2 DEF Only, TypeOK
    <3> QED
      BY <2>2, <3>1, GoodKept
  <2> QED
    BY <2>1, <2>2
<1> QED
  BY <1>1, <1>2 DEF StateOK, HeldOK

LEMMA StateStays ==
  ASSUME StateOK, Keeps, TypeOK', SecretsOK', request' = request,
         \A g \in Handlers : Op(g) = "register" => ~secret'[request[g].secret].spent
  PROVE  StateOK'
<1>1. LocksOK'
  BY DEF StateOK, LocksOK, Op
<1>2. ASSUME NEW g \in Handlers PROVE Good(g)'
  <2>1. time' \in Times
    BY DEF TypeOK
  <2> QED
    BY <2>1, GoodKept
<1> QED
  BY <1>1, <1>2 DEF StateOK, HeldOK

LEMMA Unspent ==
  ASSUME StateOK, NEW g \in Handlers, Op(g) = "register"
  PROVE  /\ request[g].secret \in Secrets /\ secret[request[g].secret] # None
         /\ ~secret[request[g].secret].spent
         /\ secret[request[g].secret].kind = "invite"
  BY GoodSecrets, OpKinds DEF UsingOps, UsingOK, Op

LEMMA RequestTyped ==
  ASSUME TypeOK, NEW h \in Handlers,
         NEW r \in Change \cup Using \cup NewPassword \cup {None},
         request' = [request EXCEPT ![h] = r]
  PROVE  /\ request' \in [Handlers -> Change \cup Using \cup NewPassword \cup {None}]
         /\ request'[h] = r /\ Only(h)
  BY DEF TypeOK, Only
-----------------------------------------------------------------------------
(* One lemma per step *)

LEMMA FailStep ==
  ASSUME StateOK, NEW h \in Handlers, Fail(h), UNCHANGED scenario
  PROVE  StateOK' /\ Keeps
<1>1. TypeOK /\ time \in Times
  BY DEF StateOK, TypeOK
<1>2. /\ request' \in [Handlers -> Change \cup Using \cup NewPassword \cup {None}]
      /\ request'[h] = None /\ Only(h)
  BY <1>1, RequestTyped DEF Fail, Done
<1>3. TypeOK'
  BY <1>1, <1>2 DEF Fail, TypeOK
<1>4. Keeps
  BY <1>1 DEF Fail, Keeps, Times
<1>5. SecretsOK'
  BY <1>4, SecretsKept DEF Fail
<1>6. Good(h)'
  BY <1>2 DEF Good
<1> QED
  BY <1>2, <1>3, <1>4, <1>5, <1>6, StateKept, Unspent DEF Fail

LEMMA RestartStep ==
  ASSUME StateOK, Restart, UNCHANGED scenario
  PROVE  StateOK' /\ Keeps
<1>1. TypeOK /\ time \in Times
  BY DEF StateOK, TypeOK
<1>2. /\ secret' \in [Secrets -> Secret \cup {None}]
      /\ \A i \in Secrets : IF secret[i] # None /\ secret[i].kind = "sso"
           THEN /\ secret'[i] # None /\ secret'[i].spent
                /\ secret'[i].kind = secret[i].kind /\ secret'[i].for = secret[i].for
                /\ secret'[i].role = secret[i].role
           ELSE secret'[i] = secret[i]
  <2>1. ASSUME NEW i \in Secrets, secret[i] # None
        PROVE  LET t == [secret[i] EXCEPT !.spent = TRUE] IN
               /\ t \in Secret /\ t # None /\ t.spent
               /\ t.kind = secret[i].kind /\ t.for = secret[i].for /\ t.role = secret[i].role
    BY <1>1, <2>1, SpentTyped, Apart DEF TypeOK
  <2>2. \A i \in Secrets : secret[i] \in Secret \cup {None}
    BY <1>1 DEF TypeOK
  <2> QED
    BY <2>1, <2>2 DEF Restart
<1>3. TypeOK'
  BY <1>1, <1>2 DEF Restart, TypeOK
<1>4. Keeps
  BY <1>1, <1>2 DEF Restart, Keeps, Times
<1>5. SecretsOK'
  <2>1. issued' = issued
    BY DEF Restart
  <2>2. \A i \in Secrets : secret[i] = None => secret'[i] = None
    BY <1>2
  <2> QED
    BY <1>4, <2>1, <2>2, SecretsKept
<1>6. HeldOK'
  BY DEF HeldOK, Good, Restart
<1>7. LocksOK'
  BY DEF LocksOK, Op, Restart
<1> QED
  BY <1>3, <1>4, <1>5, <1>6, <1>7 DEF StateOK

LEMMA EnterStep ==
  ASSUME StateOK, NEW h \in Handlers, NEW op \in Columns, NEW actor \in Emails,
         NEW target \in Emails, NEW to \in (IF op = "role" THEN Asked ELSE States),
         Enter(h, op, actor, target, to), UNCHANGED scenario
  PROVE  StateOK' /\ Keeps
<1> DEFINE loaded == IF target = actor THEN account[actor] ELSE None
           r == [op |-> op, actor |-> actor, target |-> target, to |-> to,
                 loaded |-> loaded, began |-> time]
<1>1. TypeOK /\ time \in Times
  BY DEF StateOK, TypeOK
<1>2. to \in (IF op = "role" THEN Roles ELSE States) /\ to \in Roles \cup States
  BY AccountConstants
<1>3. /\ loaded \in Account \cup {None}
      /\ loaded # None => account[target] # None
  BY <1>1 DEF TypeOK
<1>4. r \in Change /\ r # None
  <2> HIDE DEF loaded
  <2>1. r \in Change
    BY <1>1, <1>2, <1>3 DEF Change
  <2> HIDE DEF r
  <2> QED
    BY <2>1, Apart
<1>5. request' = [request EXCEPT ![h] = r] /\ MayChange(op, actor, target)
  BY DEF Enter
<1>6. /\ request' \in [Handlers -> Change \cup Using \cup NewPassword \cup {None}]
      /\ request'[h] = r /\ Only(h)
  BY <1>1, <1>4, <1>5, RequestTyped
<1>7. TypeOK'
  BY <1>1, <1>6 DEF Enter, TypeOK
<1>8. Keeps
  BY <1>1 DEF Enter, Keeps, Times
<1>9. SecretsOK'
  BY <1>8, SecretsKept DEF Enter
<1>10. ChangeOK(h)'
  <2>1. /\ r.op = op /\ r.to = to /\ r.actor = actor /\ r.target = target
        /\ r.loaded = loaded /\ r.began = time
    OBVIOUS
  <2>2. account' = account /\ time' = time
    BY DEF Enter
  <2> HIDE DEF r, loaded
  <2> QED
    <3>1. MayChange(r.op, r.actor, r.target)
      BY <1>5, <2>1
    <3>2. r.to \in (IF r.op = "role" THEN Roles ELSE States)
      BY <1>2, <2>1
    <3>3. r.loaded # None => account'[r.target] # None
      BY <1>3, <2>1, <2>2
    <3>4. r.began <= time'
      BY <1>1, <2>1, <2>2 DEF Times
    <3> QED
      BY <1>4, <1>6, <3>1, <3>2, <3>3, <3>4 DEF ChangeOK, MayChange
<1>11. Good(h)' /\ request'[h].op # "register"
  BY <1>4, <1>6, <1>10 DEF Good, Columns
<1>12. secret' = secret
  BY DEF Enter
<1> QED
  BY <1>4, <1>6, <1>7, <1>8, <1>9, <1>11, <1>12, StateKept, Unspent

LEMMA ChangeFacts ==
  ASSUME StateOK, NEW h \in Handlers, Op(h) \in Columns
  PROVE  request[h] \in Change /\ ChangeOK(h) /\ request[h] # None
         /\ request[h].op = Op(h)
<1>1. request[h] # None /\ Op(h) = request[h].op
  BY DEF Op, Columns
<1> QED
  BY <1>1 DEF StateOK, HeldOK, Good, UsingOps, Columns, ChangeOK

LEMMA LoadStep ==
  ASSUME StateOK, NEW h \in Handlers, Load(h), UNCHANGED scenario
  PROVE  StateOK' /\ Keeps
<1> DEFINE r == [request[h] EXCEPT !.loaded = account[request[h].target]]
<1>1. TypeOK /\ time \in Times
  BY DEF StateOK, TypeOK
<1>2. request[h] \in Change /\ ChangeOK(h) /\ request[h] # None /\ request[h].op \in Columns
  BY ChangeFacts DEF Load
<1>3. account[request[h].target] \in Account
  BY <1>1, <1>2 DEF Load, TypeOK, Change
<1>4. /\ r \in Change /\ r # None
      /\ r.op = request[h].op /\ r.to = request[h].to /\ r.actor = request[h].actor
      /\ r.target = request[h].target /\ r.began = request[h].began
  BY <1>2, <1>3, Apart DEF Change
<1>5. request' = [request EXCEPT ![h] = r]
  BY DEF Load
<1>6. /\ request' \in [Handlers -> Change \cup Using \cup NewPassword \cup {None}]
      /\ request'[h] = r /\ Only(h)
  BY <1>1, <1>4, <1>5, RequestTyped
<1>7. TypeOK'
  BY <1>1, <1>6 DEF Load, TypeOK
<1>8. Keeps
  BY <1>1 DEF Load, Keeps, Times
<1>9. SecretsOK'
  BY <1>8, SecretsKept DEF Load
<1>10. account' = account /\ time' = time /\ secret' = secret
  BY DEF Load
<1>11. account[request[h].target] # None
  BY DEF Load
<1> HIDE DEF r
<1>12. ChangeOK(h)'
  BY <1>2, <1>4, <1>6, <1>10, <1>11 DEF ChangeOK, MayChange
<1>13. Good(h)' /\ request'[h].op # "register"
  BY <1>2, <1>4, <1>6, <1>12 DEF Good, Columns
<1> QED
  BY <1>4, <1>6, <1>7, <1>8, <1>9, <1>10, <1>13, StateKept, Unspent

LEMMA WrittenTyped ==
  ASSUME NEW row \in Account, NEW loaded \in Account, NEW op \in Columns,
         NEW to \in (IF op = "role" THEN Roles ELSE States)
  PROVE  /\ Written(row, loaded, op, to) \in Account
         /\ Column(loaded, op) \in Roles \cup States
         /\ Column(loaded, op) = to => Written(row, loaded, op, to) = row
         /\ Column(loaded, op) # to =>
              /\ Column(Written(row, loaded, op, to), op) = to
              /\ \A c \in Columns : c # op =>
                   Column(Written(row, loaded, op, to), c) = Column(row, c)
<1>1. CASE op = "role"
  BY <1>1 DEF Account, Written, Column, Columns
<1>2. CASE op = "state"
  BY <1>2 DEF Account, Written, Column, Columns
<1> QED
  BY <1>1, <1>2 DEF Columns

(* What a change does to the accounts, and the event it leaves.            *)
LEMMA CommitChangeEffect ==
  ASSUME StateOK, NEW h \in Handlers, CommitChange(h)
  PROVE  LET r == request[h]
             from == Column(r.loaded, r.op)
         IN /\ r \in Change /\ r.loaded \in Account /\ r.target \in Emails
            /\ r.op \in Columns /\ from \in Roles \cup States
            /\ account' \in [Emails -> Account \cup {None}]
            /\ account[r.target] # None
            /\ account'[r.target] \in Account /\ account'[r.target] # None
            /\ \A e \in Emails : e # r.target => account'[e] = account[e]
            /\ from = r.to => account' = account
            /\ from # r.to =>
                 /\ Column(account'[r.target], r.op) = r.to
                 /\ \A c \in Columns : c # r.op =>
                      Column(account'[r.target], c) = Column(account[r.target], c)
<1> DEFINE r == request[h]
           w == Written(account[r.target], r.loaded, r.op, r.to)
<1>1. r \in Change /\ ChangeOK(h)
  BY ChangeFacts DEF CommitChange
<1>2. /\ r.loaded \in Account /\ r.target \in Emails /\ r.op \in Columns
      /\ r.to \in (IF r.op = "role" THEN Roles ELSE States)
      /\ account[r.target] # None
  BY <1>1 DEF ChangeOK, CommitChange, Change
<1>3. account \in [Emails -> Account \cup {None}]
  BY DEF StateOK, TypeOK
<1>4. account' = [account EXCEPT ![r.target] = w]
  BY DEF CommitChange
<1>5. account[r.target] \in Account
  BY <1>2, <1>3
<1>6. /\ w \in Account /\ Column(r.loaded, r.op) \in Roles \cup States
      /\ Column(r.loaded, r.op) = r.to => w = account[r.target]
      /\ Column(r.loaded, r.op) # r.to =>
           /\ Column(w, r.op) = r.to
           /\ \A c \in Columns : c # r.op => Column(w, c) = Column(account[r.target], c)
  BY <1>2, <1>5, WrittenTyped, SMTT(30)
<1>7. w # None
  BY <1>6, Apart
<1> HIDE DEF w
<1>8. account'[r.target] = w /\ \A e \in Emails : e # r.target => account'[e] = account[e]
  BY <1>2, <1>3, <1>4
<1>9. account' \in [Emails -> Account \cup {None}]
  BY <1>2, <1>3, <1>4, <1>6
<1>10. Column(r.loaded, r.op) = r.to => account' = account
  BY <1>2, <1>3, <1>4, <1>6
<1> QED
  BY <1>1, <1>2, <1>6, <1>7, <1>8, <1>9, <1>10

LEMMA CommitChangeStep ==
  ASSUME StateOK, NEW h \in Handlers, CommitChange(h), UNCHANGED scenario
  PROVE  StateOK' /\ Keeps
<1> DEFINE r == request[h]
           x == [column |-> r.op, actor |-> r.actor, target |-> r.target,
                 from |-> Column(r.loaded, r.op), to |-> r.to,
                 began |-> r.began, committed |-> time]
<1>1. TypeOK /\ time \in Times /\ time' \in Times /\ time < time'
  BY CommitTyped DEF StateOK, CommitChange
<1>2. /\ r \in Change /\ r.op \in Columns /\ Column(r.loaded, r.op) \in Roles \cup States
      /\ account' \in [Emails -> Account \cup {None}]
      /\ account'[r.target] # None
      /\ \A e \in Emails : e # r.target => account'[e] = account[e]
  BY CommitChangeEffect
<1>3. x \in Event
  BY <1>1, <1>2 DEF Change, Event
<1>4. /\ request' \in [Handlers -> Change \cup Using \cup NewPassword \cup {None}]
      /\ request'[h] = None /\ Only(h)
  BY <1>1, RequestTyped DEF CommitChange, Done
<1>5. TypeOK'
  BY <1>1, <1>2, <1>3, <1>4 DEF CommitChange, TypeOK
<1>6. Keeps
  BY <1>1, <1>2 DEF CommitChange, Keeps, Times
<1>7. SecretsOK'
  BY <1>6, SecretsKept DEF CommitChange
<1>8. Good(h)'
  BY <1>4 DEF Good
<1> QED
  BY <1>4, <1>5, <1>6, <1>7, <1>8, StateKept, Unspent DEF CommitChange

(* A secret is issued, for someone that exists if it is for an account.    *)
LEMMA IssueStep ==
  ASSUME StateOK, NEW s \in Secret, Issue(s), s.kind = "invite" => s.for \in Emails /\ s.role \in Roles,
         s.kind \in {"refresh", "reset"} => s.for \in Emails /\ account[s.for] # None,
         UNCHANGED <<scenario, account, request, log, uses, time>>
  PROVE  StateOK' /\ Keeps
<1>1. TypeOK /\ SecretsOK /\ time \in Times
  BY DEF StateOK, TypeOK
<1>2. /\ issued' \in 0..MaxSecrets /\ issued' = issued + 1 /\ issued' \in Secrets
      /\ secret' \in [Secrets -> Secret \cup {None}]
      /\ secret[issued'] = None /\ secret'[issued'] = s
      /\ \A j \in Secrets : j # issued' => secret'[j] = secret[j]
  BY <1>1, IssueKeeps
<1>3. TypeOK'
  BY <1>1, <1>2 DEF TypeOK
<1>4. Keeps
  BY <1>1, <1>2 DEF Keeps, Times
<1>5. SecretsOK'
  <2>1. \A i \in Secrets : i > issued' => secret'[i] = None
    BY <1>1, <1>2, AccountConstants DEF SecretsOK, Secrets, TypeOK
  <2>2. ASSUME NEW i \in Secrets, secret'[i] # None
        PROVE  /\ secret'[i].kind = "invite" =>
                    secret'[i].for \in Emails /\ secret'[i].role \in Roles
               /\ secret'[i].kind \in {"refresh", "reset"} =>
                    secret'[i].for \in Emails /\ account'[secret'[i].for] # None
    <3>1. CASE i = issued'
      BY <1>2, <3>1
    <3>2. CASE i # issued'
      BY <1>1, <1>2, <2>2, <3>2 DEF SecretsOK
    <3> QED
      BY <3>1, <3>2
  <2> QED
    BY <2>1, <2>2 DEF SecretsOK
<1>6. \A g \in Handlers : Op(g) = "register" => ~secret'[request[g].secret].spent
  <2>1. ASSUME NEW g \in Handlers, Op(g) = "register"
        PROVE  ~secret'[request[g].secret].spent
    <3>1. /\ request[g].secret \in Secrets /\ secret[request[g].secret] # None
          /\ ~secret[request[g].secret].spent
      BY <2>1, Unspent
    <3> QED
      BY <1>2, <3>1
  <2> QED
    BY <2>1
<1> QED
  BY <1>3, <1>4, <1>5, <1>6, StateStays

LEMMA InviteIssued ==
  ASSUME StateOK, NEW actor \in Emails, NEW email \in Emails, NEW role \in Asked, Invite(actor, email, role), UNCHANGED scenario
  PROVE  StateOK' /\ Keeps
<1> DEFINE s == [kind |-> "invite", for |-> Lower[email], role |-> role, spent |-> FALSE]
<1>1. TypeOK /\ SecretsOK /\ time \in Times
  BY DEF StateOK, TypeOK
<1>2. s \in Secret
  BY AccountConstants DEF Secret, Kinds, Roles
<1>3. /\ s.kind = "invite"
      /\ s.kind = "invite" => s.for \in Emails /\ s.role \in Roles
      /\ s.kind \in {"refresh", "reset"} => s.for \in Emails /\ account[s.for] # None
  BY AccountConstants DEF Roles
<1>4. Issue(s)
  BY DEF Invite
<1> HIDE DEF s
<1> QED
  BY <1>2, <1>3, <1>4, IssueStep DEF Invite

LEMMA LoginStep ==
  ASSUME StateOK, NEW email \in Emails, NEW password \in Passwords, Login(email, password), UNCHANGED scenario
  PROVE  StateOK' /\ Keeps
<1> DEFINE s == [kind |-> "refresh", for |-> email, role |-> None, spent |-> FALSE]
<1>1. account[email] # None
  BY DEF Login, Enabled
<1>0. TypeOK /\ SecretsOK /\ time \in Times
  BY DEF StateOK, TypeOK
<1>2. s \in Secret
  BY <1>1 DEF Secret, Kinds, Roles
<1>3. /\ s.kind = "refresh"
      /\ s.kind = "invite" => s.for \in Emails /\ s.role \in Roles
      /\ s.kind \in {"refresh", "reset"} => s.for \in Emails /\ account[s.for] # None
  BY <1>1 DEF Roles
<1>4. Issue(s)
  BY DEF Login, RefreshToken
<1> HIDE DEF s
<1> QED
  BY <1>2, <1>3, <1>4, IssueStep DEF Login, RefreshToken

LEMMA ForgotStep ==
  ASSUME StateOK, NEW email \in Emails, ForgotPassword(email), UNCHANGED scenario
  PROVE  StateOK' /\ Keeps
<1> DEFINE s == [kind |-> "reset", for |-> email, role |-> None, spent |-> FALSE]
<1>1. account[email] # None
  BY DEF ForgotPassword
<1>0. TypeOK /\ SecretsOK /\ time \in Times
  BY DEF StateOK, TypeOK
<1>2. s \in Secret
  BY <1>1 DEF Secret, Kinds, Roles
<1>3. /\ s.kind = "reset"
      /\ s.kind = "invite" => s.for \in Emails /\ s.role \in Roles
      /\ s.kind \in {"refresh", "reset"} => s.for \in Emails /\ account[s.for] # None
  BY <1>1 DEF Roles
<1>4. Issue(s)
  BY DEF ForgotPassword
<1> HIDE DEF s
<1> QED
  BY <1>2, <1>3, <1>4, IssueStep DEF ForgotPassword

LEMMA StartSsoStep ==
  ASSUME StateOK, StartSso, UNCHANGED scenario
  PROVE  StateOK' /\ Keeps
<1> DEFINE s == [kind |-> "sso", for |-> None, role |-> None, spent |-> FALSE]
<1>1. TypeOK /\ SecretsOK /\ time \in Times
  BY DEF StateOK, TypeOK
<1>2. s \in Secret
  BY Apart DEF Secret, Kinds, Roles
<1>3. /\ s.kind = "sso"
      /\ s.kind = "invite" => s.for \in Emails /\ s.role \in Roles
      /\ s.kind \in {"refresh", "reset"} => s.for \in Emails /\ account[s.for] # None
  BY Apart DEF Roles
<1>4. Issue(s)
  BY DEF StartSso
<1> HIDE DEF s
<1> QED
  BY <1>2, <1>3, <1>4, IssueStep DEF StartSso

(* A request takes up a secret, none of it spent yet.                      *)
LEMMA BeginKept ==
  ASSUME StateOK, NEW h \in Handlers, NEW r \in Using,
         request' = [request EXCEPT ![h] = r], r.began = time,
         Usable(r.secret, KindOf(r.op)),
         r.op = "register" => ~Locked(r.secret),
         r.op \in {"rotate", "reset"} => account[r.email] # None,
         UNCHANGED <<scenario, account, secret, issued, log, uses, time>>
  PROVE  StateOK' /\ Keeps
<1>1. TypeOK /\ time \in Times /\ r # None
  BY Apart DEF StateOK, TypeOK
<1>2. /\ request' \in [Handlers -> Change \cup Using \cup NewPassword \cup {None}]
      /\ request'[h] = r /\ Only(h)
  BY <1>1, RequestTyped
<1>3. TypeOK'
  BY <1>1, <1>2 DEF TypeOK
<1>4. Keeps
  BY <1>1 DEF Keeps, Times
<1>5. SecretsOK'
  BY <1>4, SecretsKept
<1>6. /\ secret[r.secret] # None /\ secret[r.secret].kind = KindOf(r.op)
      /\ ~secret[r.secret].spent
  BY DEF Usable, Issued
<1>7. r.op \in UsingOps
  BY DEF Using, UsingOps
<1>8. UsingOK(h)'
  BY <1>1, <1>2, <1>6 DEF UsingOK, Times
<1>9. Good(h)'
  BY <1>1, <1>2, <1>7, <1>8 DEF Good
<1>10. /\ request'[h] # None /\ request'[h].op # "register"
       \/ ~Locked(request'[h].secret)
  BY <1>1, <1>2
<1> QED
  BY <1>2, <1>3, <1>4, <1>5, <1>9, <1>10, StateKept, Unspent

LEMMA BeginRegisterStep ==
  ASSUME StateOK, NEW h \in Handlers, NEW i \in Secrets, NEW email \in Emails,
         NEW password \in Passwords, BeginRegister(h, i, email, password),
         UNCHANGED scenario
  PROVE  StateOK' /\ Keeps
<1> DEFINE r == [op |-> "register", secret |-> i, email |-> email,
                 password |-> password, began |-> time]
<1>1. r \in Using
  BY DEF Using, StateOK, TypeOK
<1>2. /\ r.op = "register" /\ r.secret = i /\ r.began = time
      /\ request' = [request EXCEPT ![h] = r]
  BY DEF BeginRegister, BeginUse
<1> HIDE DEF r
<1>3. Usable(r.secret, KindOf(r.op)) /\ ~Locked(r.secret)
  BY <1>2, OpKinds DEF BeginRegister
<1> QED
  BY <1>1, <1>2, <1>3, BeginKept DEF BeginRegister, BeginUse

LEMMA BeginRotateStep ==
  ASSUME StateOK, NEW h \in Handlers, NEW i \in Secrets, BeginRotate(h, i),
         UNCHANGED scenario
  PROVE  StateOK' /\ Keeps
<1> DEFINE r == [op |-> "rotate", secret |-> i, email |-> secret[i].for,
                 password |-> FirstPassword, began |-> time]
<1>1. secret[i].for \in Emails /\ account[secret[i].for] # None
  BY DEF BeginRotate, Enabled, Usable, Issued, StateOK, SecretsOK
<1>2. r \in Using
  BY <1>1, AccountConstants DEF Using, StateOK, TypeOK
<1>3. /\ r.op = "rotate" /\ r.secret = i /\ r.began = time /\ r.email = secret[i].for
      /\ request' = [request EXCEPT ![h] = r]
  BY DEF BeginRotate, BeginUse
<1> HIDE DEF r
<1>4. Usable(r.secret, KindOf(r.op))
  BY <1>3, OpKinds DEF BeginRotate
<1> QED
  BY <1>1, <1>2, <1>3, <1>4, BeginKept DEF BeginRotate, BeginUse

LEMMA BeginResetStep ==
  ASSUME StateOK, NEW h \in Handlers, NEW i \in Secrets, NEW password \in Passwords,
         BeginReset(h, i, password), UNCHANGED scenario
  PROVE  StateOK' /\ Keeps
<1> DEFINE r == [op |-> "reset", secret |-> i, email |-> secret[i].for,
                 password |-> password, began |-> time]
<1>1. secret[i].for \in Emails /\ account[secret[i].for] # None
  BY DEF BeginReset, Usable, Issued, StateOK, SecretsOK
<1>2. r \in Using
  BY <1>1 DEF Using, StateOK, TypeOK
<1>3. /\ r.op = "reset" /\ r.secret = i /\ r.began = time /\ r.email = secret[i].for
      /\ request' = [request EXCEPT ![h] = r]
  BY DEF BeginReset, BeginUse
<1> HIDE DEF r
<1>4. Usable(r.secret, KindOf(r.op))
  BY <1>3, OpKinds DEF BeginReset
<1> QED
  BY <1>1, <1>2, <1>3, <1>4, BeginKept DEF BeginReset, BeginUse

LEMMA UsedTyped ==
  ASSUME TypeOK, NEW i \in Secrets, NEW began \in Times,
         NEW op \in {"register", "revoke", "rotate", "logout", "reset", "sso"},
         Used(op, i, began)
  PROVE  uses' \subseteq Use
<1>1. [op |-> op, secret |-> i, began |-> began, committed |-> time] \in Use
  BY DEF Use, TypeOK
<1> QED
  BY <1>1 DEF Used, TypeOK

(* A state is taken out, of a kind no other request holds.                 *)
LEMMA BeginSsoStep ==
  ASSUME StateOK, NEW h \in Handlers, NEW i \in Secrets, NEW email \in Emails,
         BeginSso(h, i, email), UNCHANGED scenario
  PROVE  StateOK' /\ Keeps
<1> DEFINE r == [op |-> "sso", secret |-> i, email |-> Lower[email],
                 password |-> FirstPassword, began |-> time]
<1>1. TypeOK /\ time \in Times
  BY DEF StateOK, TypeOK
<1>2. r \in Using
  BY <1>1, AccountConstants DEF Using
<1>3. /\ r.op = "sso" /\ r.secret = i /\ r.began = time
      /\ request' = [request EXCEPT ![h] = r]
  BY DEF BeginSso, BeginUse
<1> HIDE DEF r
<1>4. /\ request' \in [Handlers -> Change \cup Using \cup NewPassword \cup {None}]
      /\ request'[h] = r /\ Only(h) /\ r # None
  BY <1>1, <1>2, <1>3, RequestTyped, Apart
<1>5. secret[i] # None /\ secret[i].kind = "sso"
  BY DEF BeginSso, Usable, Issued
<1>6. /\ secret' \in [Secrets -> Secret \cup {None}]
      /\ \A j \in Secrets : j # i => secret'[j] = secret[j]
      /\ secret'[i] # None /\ secret'[i].spent
      /\ secret'[i].kind = secret[i].kind /\ secret'[i].for = secret[i].for
      /\ secret'[i].role = secret[i].role
  BY <1>1, <1>5, SpendKeeps DEF BeginSso
<1>7. uses' \subseteq Use
  BY <1>1, UsedTyped DEF BeginSso, Used
<1>8. TypeOK'
  BY <1>1, <1>4, <1>6, <1>7 DEF BeginSso, BeginUse, TypeOK
<1>9. Keeps
  BY <1>1, <1>6 DEF BeginSso, BeginUse, Keeps, Times
<1>10. SecretsOK'
  BY <1>5, <1>6, <1>9, SecretsKept DEF BeginSso, BeginUse
<1>11. time' = time /\ account' = account
  BY DEF BeginSso, BeginUse
<1>12. UsingOK(h)'
  BY <1>1, <1>2, <1>3, <1>4, <1>5, <1>6, <1>11, OpKinds DEF UsingOK, Times
<1>13. Good(h)' /\ request'[h].op # "register"
  BY <1>3, <1>4, <1>12 DEF Good, UsingOps
<1>14. ASSUME NEW g \in Handlers, g # h, Op(g) = "register"
       PROVE  ~secret'[request[g].secret].spent
  BY <1>5, <1>6, <1>14, Unspent
<1> QED
  BY <1>4, <1>8, <1>9, <1>10, <1>13, <1>14, StateKept

LEMMA BeginPasswordStep ==
  ASSUME StateOK, NEW h \in Handlers, NEW email \in Emails, NEW current \in Passwords,
         NEW new \in Passwords, BeginPassword(h, email, current, new), UNCHANGED scenario
  PROVE  StateOK' /\ Keeps
<1> DEFINE r == [op |-> "password", email |-> email, password |-> new]
<1>1. TypeOK /\ time \in Times
  BY DEF StateOK, TypeOK
<1>2. r \in NewPassword
  BY DEF NewPassword
<1>3. /\ r.op = "password" /\ r.email = email
      /\ request' = [request EXCEPT ![h] = r]
  BY DEF BeginPassword
<1> HIDE DEF r
<1>4. /\ request' \in [Handlers -> Change \cup Using \cup NewPassword \cup {None}]
      /\ request'[h] = r /\ Only(h) /\ r # None
  BY <1>1, <1>2, <1>3, RequestTyped, Apart
<1>5. TypeOK'
  BY <1>1, <1>4 DEF BeginPassword, TypeOK
<1>6. Keeps
  BY <1>1 DEF BeginPassword, Keeps, Times
<1>7. SecretsOK'
  BY <1>6, SecretsKept DEF BeginPassword
<1>8. account[email] # None /\ account' = account
  BY DEF BeginPassword, Enabled
<1>9. Good(h)' /\ request'[h].op # "register"
  BY <1>2, <1>3, <1>4, <1>8 DEF Good, PasswordOK
<1>10. secret' = secret
  BY DEF BeginPassword
<1> QED
  BY <1>4, <1>5, <1>6, <1>7, <1>9, <1>10, StateKept, Unspent

(* A request is done: no other holds an invite that it spent.              *)
LEMMA DoneKept ==
  ASSUME StateOK, Keeps, TypeOK', SecretsOK', NEW h \in Handlers, Done(h),
         \A g \in Handlers : g # h /\ Op(g) = "register" =>
           ~secret'[request[g].secret].spent
  PROVE  StateOK'
<1>1. request'[h] = None /\ Only(h)
  BY DEF StateOK, TypeOK, Done, Only
<1>2. Good(h)'
  BY <1>1 DEF Good
<1> QED
  BY <1>1, <1>2, StateKept

LEMMA DoneTyped ==
  ASSUME TypeOK, NEW h \in Handlers, Done(h)
  PROVE  request' \in [Handlers -> Change \cup Using \cup NewPassword \cup {None}]
  BY DEF TypeOK, Done

LEMMA RevokeStep ==
  ASSUME StateOK, NEW actor \in Emails, NEW i \in Secrets, Revoke(actor, i),
         UNCHANGED scenario
  PROVE  StateOK' /\ Keeps
<1>1. TypeOK /\ time \in Times /\ time' \in Times /\ time < time'
  BY CommitTyped DEF StateOK, Revoke
<1>2. secret[i] # None
  BY DEF Revoke, Issued
<1>3. /\ secret' \in [Secrets -> Secret \cup {None}]
      /\ \A j \in Secrets : j # i => secret'[j] = secret[j]
      /\ secret'[i] # None /\ secret'[i].spent
      /\ secret'[i].kind = secret[i].kind /\ secret'[i].for = secret[i].for
      /\ secret'[i].role = secret[i].role
  BY <1>1, <1>2, SpendKeeps DEF Revoke
<1>4. uses' \subseteq Use
  BY <1>1, UsedTyped DEF Revoke
<1>5. TypeOK'
  BY <1>1, <1>3, <1>4 DEF Revoke, TypeOK
<1>6. Keeps
  BY <1>1, <1>3 DEF Revoke, Keeps, Times
<1>7. SecretsOK'
  BY <1>2, <1>3, <1>6, SecretsKept DEF Revoke
<1>8. ASSUME NEW g \in Handlers, Op(g) = "register"
      PROVE  ~secret'[request[g].secret].spent
  <2>1. request[g].secret # i
    BY <1>8 DEF Revoke, Locked
  <2> QED
    BY <1>3, <1>8, <2>1, Unspent
<1> QED
  BY <1>5, <1>6, <1>7, <1>8, StateStays DEF Revoke

LEMMA LogoutStep ==
  ASSUME StateOK, NEW i \in Secrets, Logout(i), UNCHANGED scenario
  PROVE  StateOK' /\ Keeps
<1>1. TypeOK /\ time \in Times /\ time' \in Times /\ time < time'
  BY CommitTyped DEF StateOK, Logout
<1>2. secret[i] # None /\ secret[i].kind = "refresh"
  BY DEF Logout, Issued
<1>3. /\ secret' \in [Secrets -> Secret \cup {None}]
      /\ \A j \in Secrets : j # i => secret'[j] = secret[j]
      /\ secret'[i] # None /\ secret'[i].spent
      /\ secret'[i].kind = secret[i].kind /\ secret'[i].for = secret[i].for
      /\ secret'[i].role = secret[i].role
  BY <1>1, <1>2, SpendKeeps DEF Logout
<1>4. uses' \subseteq Use
  BY <1>1, UsedTyped DEF Logout
<1>5. TypeOK'
  BY <1>1, <1>3, <1>4 DEF Logout, TypeOK
<1>6. Keeps
  BY <1>1, <1>3 DEF Logout, Keeps, Times
<1>7. SecretsOK'
  BY <1>2, <1>3, <1>6, SecretsKept DEF Logout
<1>8. ASSUME NEW g \in Handlers, Op(g) = "register"
      PROVE  ~secret'[request[g].secret].spent
  BY <1>2, <1>3, <1>8, Unspent
<1> QED
  BY <1>5, <1>6, <1>7, <1>8, StateStays DEF Logout

(* The invite is held by nobody else, and the address was free.            *)
LEMMA RegisterStep ==
  ASSUME StateOK, NEW h \in Handlers, Register(h), UNCHANGED scenario
  PROVE  StateOK' /\ Keeps
<1> DEFINE r == request[h]
           a == [role |-> secret[r.secret].role, state |-> "enabled",
                 password |-> r.password]
<1>1. TypeOK /\ time \in Times /\ time' \in Times /\ time < time'
  BY CommitTyped DEF StateOK, Register
<1>2. /\ r.secret \in Secrets /\ r.email \in Emails /\ r.password \in Passwords
      /\ r.began \in Times /\ secret[r.secret] # None /\ secret[r.secret].kind = "invite"
  BY GoodSecrets, OpKinds DEF Register, UsingOps
<1>3. secret[r.secret].role \in Roles
  BY <1>2 DEF StateOK, SecretsOK
<1>4. a \in Account /\ a # None
  <2>1. a \in Account
    BY <1>2, <1>3 DEF Account, States
  <2> HIDE DEF a
  <2> QED
    BY <2>1, Apart
<1>5. account' = [account EXCEPT ![r.email] = a] /\ account[r.email] = None
  BY DEF Register
<1> HIDE DEF a
<1>6. /\ account' \in [Emails -> Account \cup {None}]
      /\ \A e \in Emails : account[e] # None => account'[e] = account[e]
  BY <1>1, <1>2, <1>4, <1>5 DEF TypeOK
<1>7. /\ secret' \in [Secrets -> Secret \cup {None}]
      /\ \A j \in Secrets : j # r.secret => secret'[j] = secret[j]
      /\ secret'[r.secret] # None /\ secret'[r.secret].spent
      /\ secret'[r.secret].kind = secret[r.secret].kind
      /\ secret'[r.secret].for = secret[r.secret].for
      /\ secret'[r.secret].role = secret[r.secret].role
  BY <1>1, <1>2, SpendKeeps DEF Register
<1>8. uses' \subseteq Use
  BY <1>1, <1>2, UsedTyped DEF Register
<1>9. request' \in [Handlers -> Change \cup Using \cup NewPassword \cup {None}]
  BY <1>1, DoneTyped DEF Register
<1>10. TypeOK'
  BY <1>1, <1>6, <1>7, <1>8, <1>9 DEF Register, TypeOK
<1>11. Keeps
  BY <1>1, <1>6, <1>7 DEF Keeps, Times
<1>12. SecretsOK'
  BY <1>2, <1>7, <1>11, SecretsKept DEF Register
<1>13. ASSUME NEW g \in Handlers, g # h, Op(g) = "register"
       PROVE  ~secret'[request[g].secret].spent
  <2>1. request[g].secret # r.secret
    BY <1>13 DEF StateOK, LocksOK, Register
  <2> QED
    BY <1>7, <1>13, <2>1, Unspent
<1> QED
  BY <1>10, <1>11, <1>12, <1>13, DoneKept DEF Register

(* A new password, for an account that exists.                             *)
LEMMA PasswordTyped ==
  ASSUME TypeOK, NEW e \in Emails, account[e] # None, NEW p \in Passwords,
         account' = [account EXCEPT ![e].password = p]
  PROVE  /\ account' \in [Emails -> Account \cup {None}]
         /\ \A f \in Emails : f # e => account'[f] = account[f]
         /\ account'[e] # None /\ account'[e].role = account[e].role
         /\ account'[e].state = account[e].state
<1> DEFINE a == [account[e] EXCEPT !.password = p]
<1>1. account \in [Emails -> Account \cup {None}] /\ account[e] \in Account
  BY DEF TypeOK
<1>2. /\ a \in Account /\ a.role = account[e].role /\ a.state = account[e].state
  BY <1>1 DEF Account
<1>3. account' = [account EXCEPT ![e] = a]
  BY <1>1
<1> HIDE DEF a
<1>4. a # None
  BY <1>2, Apart
<1> QED
  BY <1>1, <1>2, <1>3, <1>4

LEMMA ResetStep ==
  ASSUME StateOK, NEW h \in Handlers, Reset(h), UNCHANGED scenario
  PROVE  StateOK' /\ Keeps
<1> DEFINE r == request[h]
<1>1. TypeOK /\ time \in Times /\ time' \in Times /\ time < time'
  BY CommitTyped DEF StateOK, Reset
<1>2. /\ r.secret \in Secrets /\ r.email \in Emails /\ r.password \in Passwords
      /\ r.began \in Times /\ secret[r.secret] # None /\ secret[r.secret].kind = "reset"
      /\ account[r.email] # None
  BY GoodSecrets, OpKinds DEF Reset, UsingOps, UsingOK, Op
<1>3. account' = [account EXCEPT ![r.email].password = r.password]
  BY DEF Reset
<1>4. /\ account' \in [Emails -> Account \cup {None}]
      /\ \A e \in Emails : account[e] # None => account'[e] # None
  BY <1>1, <1>2, <1>3, PasswordTyped
<1>5. /\ secret' \in [Secrets -> Secret \cup {None}]
      /\ \A j \in Secrets : j # r.secret => secret'[j] = secret[j]
      /\ secret'[r.secret] # None /\ secret'[r.secret].spent
      /\ secret'[r.secret].kind = secret[r.secret].kind
      /\ secret'[r.secret].for = secret[r.secret].for
      /\ secret'[r.secret].role = secret[r.secret].role
  BY <1>1, <1>2, SpendKeeps DEF Reset
<1>6. uses' \subseteq Use
  BY <1>1, <1>2, UsedTyped DEF Reset
<1>7. request' \in [Handlers -> Change \cup Using \cup NewPassword \cup {None}]
  BY <1>1, DoneTyped DEF Reset
<1>8. TypeOK'
  BY <1>1, <1>4, <1>5, <1>6, <1>7 DEF Reset, TypeOK
<1>9. Keeps
  BY <1>1, <1>4, <1>5 DEF Keeps, Times
<1>10. SecretsOK'
  BY <1>2, <1>5, <1>9, SecretsKept DEF Reset
<1>11. ASSUME NEW g \in Handlers, g # h, Op(g) = "register"
       PROVE  ~secret'[request[g].secret].spent
  BY <1>2, <1>5, <1>11, Unspent
<1> QED
  BY <1>8, <1>9, <1>10, <1>11, DoneKept DEF Reset

LEMMA ChangePasswordStep ==
  ASSUME StateOK, NEW h \in Handlers, ChangePassword(h), UNCHANGED scenario
  PROVE  StateOK' /\ Keeps
<1> DEFINE r == request[h]
<1>1. TypeOK /\ time \in Times /\ time' \in Times /\ time < time'
  BY CommitTyped DEF StateOK, ChangePassword
<1>2. r.email \in Emails /\ r.password \in Passwords /\ account[r.email] # None
  BY DEF ChangePassword, Op, StateOK, HeldOK, Good, PasswordOK, NewPassword, UsingOps, Columns
<1>3. account' = [account EXCEPT ![r.email].password = r.password]
  BY DEF ChangePassword
<1>4. /\ account' \in [Emails -> Account \cup {None}]
      /\ \A e \in Emails : account[e] # None => account'[e] # None
  BY <1>1, <1>2, <1>3, PasswordTyped
<1>5. request' \in [Handlers -> Change \cup Using \cup NewPassword \cup {None}]
  BY <1>1, DoneTyped DEF ChangePassword
<1>6. TypeOK'
  BY <1>1, <1>4, <1>5 DEF ChangePassword, TypeOK
<1>7. Keeps
  BY <1>1, <1>4 DEF ChangePassword, Keeps, Times
<1>8. SecretsOK'
  BY <1>7, SecretsKept DEF ChangePassword
<1> QED
  BY <1>6, <1>7, <1>8, DoneKept, Unspent DEF ChangePassword

LEMMA SsoFinished ==
  ASSUME StateOK, NEW h \in Handlers, Sso(h), UNCHANGED scenario
  PROVE  StateOK' /\ Keeps
<1>1. TypeOK /\ time \in Times /\ time' \in Times /\ time < time'
  BY CommitTyped DEF StateOK, Sso
<1>2. request' \in [Handlers -> Change \cup Using \cup NewPassword \cup {None}]
  BY <1>1, DoneTyped DEF Sso
<1>3. TypeOK'
  BY <1>1, <1>2 DEF Sso, TypeOK
<1>4. Keeps
  BY <1>1 DEF Sso, Keeps, Times
<1>5. SecretsOK'
  BY <1>4, SecretsKept DEF Sso
<1> QED
  BY <1>3, <1>4, <1>5, DoneKept, Unspent DEF Sso

(* One token is spent, and another issued, for the same account.           *)
LEMMA RotateStep ==
  ASSUME StateOK, NEW h \in Handlers, Rotate(h), UNCHANGED scenario
  PROVE  StateOK' /\ Keeps
<1> DEFINE r == request[h]
           i == r.secret
           s == [kind |-> "refresh", for |-> r.email, role |-> None, spent |-> FALSE]
           t == [secret[i] EXCEPT !.spent = TRUE]
<1>1. /\ TypeOK /\ SecretsOK /\ time \in Times /\ time' \in Times /\ time < time'
  BY CommitTyped DEF StateOK, Rotate
<1>2. /\ i \in Secrets /\ r.email \in Emails /\ r.began \in Times
      /\ secret[i] # None /\ secret[i].kind = "refresh"
      /\ account[r.email] # None
  BY GoodSecrets, OpKinds DEF Rotate, UsingOps, UsingOK, Op
<1>3. /\ t \in Secret /\ t.kind = secret[i].kind /\ t.for = secret[i].for
      /\ t.role = secret[i].role /\ t.spent
  BY <1>1, <1>2, SpentTyped DEF TypeOK
<1>4. s \in Secret /\ s.kind = "refresh" /\ s.for = r.email
  BY <1>2 DEF Secret, Kinds
<1>5. /\ issued \in Nat /\ issued < MaxSecrets /\ issued' = issued + 1
      /\ secret' = [secret EXCEPT ![i] = t, ![issued + 1] = s]
  BY <1>1 DEF Rotate, TypeOK
<1> HIDE DEF s, t
<1>6. s # None /\ t # None
  BY <1>3, <1>4, Apart
<1>7. issued' \in 0..MaxSecrets /\ issued' \in Secrets /\ secret[issued'] = None
  BY <1>1, <1>5, AccountConstants DEF SecretsOK, Secrets
<1>8. i # issued'
  BY <1>2, <1>7
<1>9. /\ secret' \in [Secrets -> Secret \cup {None}]
      /\ secret'[i] = t /\ secret'[issued'] = s
      /\ \A j \in Secrets : j # i /\ j # issued' => secret'[j] = secret[j]
  BY <1>1, <1>2, <1>3, <1>4, <1>5, <1>7, <1>8 DEF TypeOK
<1>10. uses' \subseteq Use
  BY <1>1, <1>2, UsedTyped DEF Rotate
<1>11. request' \in [Handlers -> Change \cup Using \cup NewPassword \cup {None}]
  BY <1>1, DoneTyped DEF Rotate
<1>12. TypeOK'
  BY <1>1, <1>7, <1>9, <1>10, <1>11 DEF Rotate, TypeOK
<1>13. Keeps
  <2>1. account' = account
    BY DEF Rotate
  <2> QED
    BY <1>1, <1>3, <1>6, <1>7, <1>9, <2>1 DEF Keeps, Times
<1>14. SecretsOK'
  <2>1. \A j \in Secrets : j > issued' => secret'[j] = None
    BY <1>1, <1>2, <1>5, <1>7, <1>9 DEF SecretsOK, Secrets
  <2>2. ASSUME NEW j \in Secrets, secret'[j] # None
        PROVE  /\ secret'[j].kind = "invite" =>
                    secret'[j].for \in Emails /\ secret'[j].role \in Roles
               /\ secret'[j].kind \in {"refresh", "reset"} =>
                    secret'[j].for \in Emails /\ account[secret'[j].for] # None
    <3>1. CASE j = issued'
      BY <1>2, <1>4, <1>9, <3>1
    <3>2. CASE j = i
      BY <1>1, <1>2, <1>3, <1>9, <3>2 DEF SecretsOK
    <3>3. CASE j # i /\ j # issued'
      BY <1>1, <1>9, <2>2, <3>3 DEF SecretsOK
    <3> QED
      BY <3>1, <3>2, <3>3
  <2>3. account' = account
    BY DEF Rotate
  <2> QED
    BY <2>1, <2>2, <2>3 DEF SecretsOK
<1>15. ASSUME NEW g \in Handlers, g # h, Op(g) = "register"
       PROVE  ~secret'[request[g].secret].spent
  BY <1>2, <1>7, <1>9, <1>15, Unspent
<1> QED
  BY <1>12, <1>13, <1>14, <1>15, DoneKept DEF Rotate
-----------------------------------------------------------------------------
LEMMA InitState ==
  ASSUME Init
  PROVE  StateOK
<1>1. TypeOK
  <2>1. PICK admins \in Beginnings : account = [e \in Emails |->
          IF e \in admins
            THEN [role |-> "admin", state |-> "enabled", password |-> FirstPassword]
            ELSE None]
    BY DEF Init
  <2>2. [role |-> "admin", state |-> "enabled", password |-> FirstPassword] \in Account
    BY AccountConstants DEF Account, Roles, States
  <2>3. account \in [Emails -> Account \cup {None}]
    BY <2>1, <2>2
  <2> QED
    BY <2>3, AccountConstants DEF Init, TypeOK, Times
<1>2. SecretsOK
  BY DEF Init, SecretsOK
<1>3. HeldOK
  BY DEF Init, HeldOK, Good
<1>4. LocksOK
  BY DEF Init, LocksOK, Op
<1> QED
  BY <1>1, <1>2, <1>3, <1>4 DEF StateOK

LEMMA StateNext ==
  ASSUME StateOK, [Next]_vars
  PROVE  StateOK' /\ Keeps
<1>1. CASE ChangeStep /\ UNCHANGED scenario
  <2>1. CASE \E h \in Handlers : Load(h) \/ CommitChange(h)
    BY <1>1, <2>1, LoadStep, CommitChangeStep
  <2>2. CASE \E h \in Handlers, op \in scenario \cap Columns, actor, target \in Emails :
               \E to \in (IF op = "role" THEN Asked ELSE States) :
                 Enter(h, op, actor, target, to)
    <3>1. PICK h \in Handlers, op \in scenario \cap Columns, actor, target \in Emails :
               \E to \in (IF op = "role" THEN Asked ELSE States) :
                 Enter(h, op, actor, target, to)
      BY <2>2
    <3>2. PICK to \in (IF op = "role" THEN Asked ELSE States) :
               Enter(h, op, actor, target, to)
      BY <3>1
    <3> QED
      BY <1>1, <3>2, EnterStep
  <2> QED
    BY <1>1, <2>1, <2>2 DEF ChangeStep
<1>2. CASE InviteStep /\ UNCHANGED scenario
  BY <1>2, InviteIssued, RevokeStep, RegisterStep, BeginRegisterStep DEF InviteStep
<1>3. CASE SessionStep /\ UNCHANGED scenario
  BY <1>3, LoginStep, LogoutStep, RotateStep, BeginRotateStep DEF SessionStep
<1>4. CASE PasswordStep /\ UNCHANGED scenario
  BY <1>4, ForgotStep, ResetStep, BeginResetStep, ChangePasswordStep, BeginPasswordStep
  DEF PasswordStep
<1>5. CASE SsoStep /\ UNCHANGED scenario
  BY <1>5, StartSsoStep, SsoFinished, BeginSsoStep DEF SsoStep
<1>6. CASE (Restart \/ \E h \in Handlers : Fail(h)) /\ UNCHANGED scenario
  BY <1>6, RestartStep, FailStep
<1>7. CASE UNCHANGED vars
  <2>1. TypeOK /\ TypeOK' /\ time \in Times
    BY <1>7 DEF vars, StateOK, TypeOK
  <2>2. Keeps
    BY <1>7, <2>1 DEF vars, Keeps, Times
  <2>3. SecretsOK'
    BY <1>7, <2>2, SecretsKept DEF vars
  <2> QED
    BY <1>7, <2>1, <2>2, <2>3, StateStays, Unspent DEF vars
<1> QED
  BY <1>1, <1>2, <1>3, <1>4, <1>5, <1>6, <1>7 DEF Next

LEMMA StateHolds == Spec => []StateOK
<1>1. Init => StateOK
  BY InitState
<1>2. StateOK /\ [Next]_vars => StateOK'
  BY StateNext
<1> QED
  BY <1>1, <1>2, PTL DEF Spec

(* Every account, secret, request and event is one of those described.     *)
THEOREM AccountTypes == Spec => []TypeOK
<1>1. StateOK => TypeOK
  BY DEF StateOK
<1> QED
  BY <1>1, StateHolds, PTL
-----------------------------------------------------------------------------
(* What becomes of secrets *)

(* What was used is spent, and was committed before now; only a state of   *)
(* single sign-on is used up with no commit.                               *)
UsesOK ==
  \A u \in uses :
    /\ secret[u.secret] # None /\ secret[u.secret].spent
    /\ secret[u.secret].kind = KindOf(u.op)
    /\ u.began <= u.committed /\ u.committed <= time
    /\ u.op # "sso" => u.committed < time

(* A request in flight read its secret before anyone else used it.         *)
Overlap ==
  \A h \in Handlers : Op(h) \in UsingOps =>
    \A u \in uses : u.secret = request[h].secret => request[h].began <= u.committed

UsesInv == UsesOK /\ Overlap /\ SpentIsSpent /\ UsedOnce

(* A step uses at most one secret, that it holds or that is not spent, and *)
(* takes up only what is not spent.                                        *)
Taken(u) ==
  /\ u \in Use /\ uses' = uses \cup {u}
  /\ u.committed = time /\ u.began <= time
  /\ secret[u.secret] # None /\ secret[u.secret].kind = KindOf(u.op)
  /\ secret'[u.secret].spent
  /\ u.op # "sso" => time' = time + 1
  /\ u.op \in {"register", "sso"} => ~secret[u.secret].spent
  /\ u.op \in {"register", "rotate", "reset"} =>
       \E h \in Handlers : /\ Op(h) \in UsingOps
                           /\ request[h].secret = u.secret /\ request[h].began = u.began

Fresh(h) ==
  /\ request'[h] # None /\ request'[h].began = time
  /\ ~secret[request'[h].secret].spent

HandlersMove ==
  \A h \in Handlers : Op(h)' \in UsingOps => request'[h] = request[h] \/ Fresh(h)

UsesMove == HandlersMove /\ (uses' = uses \/ \E u \in Use : Taken(u))

LEMMA DoneMoves ==
  ASSUME TypeOK, NEW h \in Handlers, Done(h)
  PROVE  HandlersMove
  BY DEF TypeOK, Done, HandlersMove, Op, UsingOps

LEMMA BeginMoves ==
  ASSUME TypeOK, NEW h \in Handlers, NEW op \in UsingOps, NEW i \in Secrets,
         NEW email \in Emails, NEW password \in Passwords,
         BeginUse(h, op, i, email, password), ~secret[i].spent
  PROVE  HandlersMove
<1> DEFINE r == [op |-> op, secret |-> i, email |-> email, password |-> password,
                 began |-> time]
<1>1. r \in Using /\ r.secret = i /\ r.began = time
  BY DEF Using, UsingOps, TypeOK
<1>2. request' = [request EXCEPT ![h] = r]
  BY DEF BeginUse
<1> HIDE DEF r
<1>3. request'[h] = r /\ r # None /\ \A g \in Handlers : g # h => request'[g] = request[g]
  BY <1>1, <1>2, Apart DEF TypeOK
<1> QED
  BY <1>1, <1>3 DEF HandlersMove, Fresh

(* A request that commits uses what it holds.                              *)
LEMMA TakenHeld ==
  ASSUME StateOK, NEW h \in Handlers, NEW op \in {"register", "rotate", "reset"},
         Op(h) = op, Used(op, request[h].secret, request[h].began), Commit,
         secret'[request[h].secret].spent
  PROVE  \E u \in Use : Taken(u)
<1> DEFINE u == [op |-> op, secret |-> request[h].secret, began |-> request[h].began,
                 committed |-> time]
<1>1. /\ request[h].secret \in Secrets /\ request[h].began \in Times
      /\ request[h].began <= time /\ secret[request[h].secret] # None
      /\ secret[request[h].secret].kind = KindOf(op)
  BY GoodSecrets DEF UsingOps
<1>2. /\ u \in Use /\ u.op = op /\ u.secret = request[h].secret
      /\ u.began = request[h].began /\ u.committed = time
      /\ uses' = uses \cup {u}
  BY <1>1 DEF Use, Used, StateOK, TypeOK
<1> HIDE DEF u
<1>3. op \in {"register", "sso"} => ~secret[request[h].secret].spent
  BY Unspent
<1>4. Taken(u)
  BY <1>1, <1>2, <1>3 DEF Taken, Commit, UsingOps
<1> QED
  BY <1>2, <1>4

(* One that revokes or takes out a secret does so at once.                 *)
LEMMA TakenAtOnce ==
  ASSUME StateOK, NEW i \in Secrets, NEW op \in {"revoke", "logout", "sso"},
         uses' = uses \cup {[op |-> op, secret |-> i, began |-> time, committed |-> time]},
         secret[i] # None, secret[i].kind = KindOf(op), secret'[i].spent,
         op # "sso" => time' = time + 1, op = "sso" => ~secret[i].spent
  PROVE  \E u \in Use : Taken(u)
<1> DEFINE u == [op |-> op, secret |-> i, began |-> time, committed |-> time]
<1>1. /\ u \in Use /\ u.op = op /\ u.secret = i /\ u.began = time /\ u.committed = time
      /\ uses' = uses \cup {u} /\ time <= time
  BY DEF Use, StateOK, TypeOK, Times
<1> HIDE DEF u
<1>2. Taken(u)
  BY <1>1 DEF Taken
<1> QED
  BY <1>1, <1>2

LEMMA UsesOnly ==
  ASSUME StateOK, [Next]_vars
  PROVE  UsesMove
<1>0. TypeOK
  BY DEF StateOK
<1> DEFINE Quiet == uses' = uses /\ HandlersMove
<1>1. Quiet => UsesMove
  BY DEF UsesMove
<1>2. ASSUME request' = request, uses' = uses PROVE Quiet
  BY <1>2 DEF HandlersMove
<1>3. ASSUME NEW h \in Handlers, Done(h), uses' = uses PROVE Quiet
  BY <1>0, <1>3, DoneMoves
<1> HIDE DEF Quiet
<1>4. CASE ChangeStep
  <2>1. CASE \E h \in Handlers : Load(h)
    <3>1. PICK h \in Handlers : Load(h)
      BY <2>1
    <3> DEFINE r == [request[h] EXCEPT !.loaded = account[request[h].target]]
    <3>2. r.op \notin UsingOps
      BY <3>1, ChangeFacts DEF Load, Columns, UsingOps, Change
    <3>3. request' = [request EXCEPT ![h] = r] /\ uses' = uses
      BY <3>1 DEF Load
    <3> HIDE DEF r
    <3>4. request'[h] = r /\ \A g \in Handlers : g # h => request'[g] = request[g]
      BY <1>0, <3>3 DEF TypeOK
    <3> QED
      BY <3>2, <3>3, <3>4 DEF UsesMove, HandlersMove, Op, UsingOps
  <2>2. CASE \E h \in Handlers : CommitChange(h)
    BY <1>1, <1>3, <2>2 DEF CommitChange
  <2>3. CASE \E h \in Handlers, op \in scenario \cap Columns, actor, target \in Emails :
               \E to \in (IF op = "role" THEN Asked ELSE States) :
                 Enter(h, op, actor, target, to)
    <3>1. PICK h \in Handlers, op \in scenario \cap Columns, actor, target \in Emails :
               \E to \in (IF op = "role" THEN Asked ELSE States) :
                 Enter(h, op, actor, target, to)
      BY <2>3
    <3>2. PICK to \in (IF op = "role" THEN Asked ELSE States) :
               Enter(h, op, actor, target, to)
      BY <3>1
    <3> DEFINE r == [op |-> op, actor |-> actor, target |-> target, to |-> to,
                     loaded |-> IF target = actor THEN account[actor] ELSE None,
                     began |-> time]
    <3>3. r.op \notin UsingOps
      BY DEF Columns, UsingOps
    <3>4. request' = [request EXCEPT ![h] = r] /\ uses' = uses
      BY <3>2 DEF Enter
    <3> HIDE DEF r
    <3>5. request'[h] = r /\ \A g \in Handlers : g # h => request'[g] = request[g]
      BY <1>0, <3>4 DEF TypeOK
    <3> QED
      BY <3>3, <3>4, <3>5 DEF UsesMove, HandlersMove, Op, UsingOps
  <2> QED
    BY <1>4, <2>1, <2>2, <2>3 DEF ChangeStep
<1>5. CASE InviteStep
  <2>1. CASE \E actor, email \in Emails, role \in Asked : Invite(actor, email, role)
    BY <1>1, <1>2, <2>1 DEF Invite
  <2>2. ASSUME NEW actor \in Emails, NEW i \in Secrets, Revoke(actor, i) PROVE UsesMove
    <3>1. secret[i] # None /\ secret[i].kind = KindOf("revoke") /\ secret'[i].spent
      BY <1>0, <2>2, SpendKeeps, OpKinds DEF Revoke, Issued
    <3>2. request' = request
      BY <2>2 DEF Revoke
    <3> QED
      BY <2>2, <3>1, <3>2, TakenAtOnce DEF Revoke, Used, Commit, UsesMove, HandlersMove
  <2>3. ASSUME NEW h \in Handlers, Register(h) PROVE UsesMove
    <3>1. request[h].secret \in Secrets /\ secret[request[h].secret] # None
      BY <2>3, GoodSecrets DEF Register, UsingOps
    <3>2. secret'[request[h].secret].spent
      BY <1>0, <2>3, <3>1, SpendKeeps DEF Register
    <3> QED
      BY <1>0, <2>3, <3>2, TakenHeld, DoneMoves DEF Register, UsesMove
  <2>4. ASSUME NEW h \in Handlers, NEW i \in Secrets, NEW e \in Emails, NEW p \in Passwords,
               BeginRegister(h, i, e, p)
        PROVE  UsesMove
    BY <1>0, <2>4, BeginMoves DEF BeginRegister, Usable, UsingOps, UsesMove
  <2> QED
    BY <1>5, <2>1, <2>2, <2>3, <2>4 DEF InviteStep
<1>6. CASE SessionStep
  <2>1. CASE \E e \in Emails, p \in Passwords : Login(e, p)
    BY <1>1, <1>2, <2>1 DEF Login
  <2>2. ASSUME NEW i \in Secrets, Logout(i) PROVE UsesMove
    <3>1. secret[i] # None /\ secret[i].kind = KindOf("logout") /\ secret'[i].spent
      BY <1>0, <2>2, SpendKeeps, OpKinds DEF Logout, Issued
    <3>2. request' = request
      BY <2>2 DEF Logout
    <3> QED
      BY <2>2, <3>1, <3>2, TakenAtOnce DEF Logout, Used, Commit, UsesMove, HandlersMove
  <2>3. ASSUME NEW h \in Handlers, Rotate(h) PROVE UsesMove
    <3>1. request[h].secret \in Secrets /\ secret[request[h].secret] # None
      BY <2>3, GoodSecrets DEF Rotate, UsingOps
    <3>2. secret[request[h].secret] \in Secret /\ request[h].secret # issued + 1
      BY <1>0, <3>1 DEF TypeOK, StateOK, SecretsOK, Secrets
    <3>3. secret'[request[h].secret].spent
      BY <1>0, <2>3, <3>1, <3>2 DEF Rotate, TypeOK, Secret
    <3> QED
      BY <1>0, <2>3, <3>3, TakenHeld, DoneMoves DEF Rotate, UsesMove
  <2>4. ASSUME NEW h \in Handlers, NEW i \in Secrets, BeginRotate(h, i) PROVE UsesMove
    <3>1. secret[i].for \in Emails /\ ~secret[i].spent
      BY <2>4 DEF BeginRotate, Usable, Issued, StateOK, SecretsOK
    <3> QED
      BY <1>0, <2>4, <3>1, BeginMoves, AccountConstants DEF BeginRotate, UsingOps, UsesMove
  <2> QED
    BY <1>6, <2>1, <2>2, <2>3, <2>4 DEF SessionStep
<1>7. CASE PasswordStep
  <2>1. CASE \E e \in Emails : ForgotPassword(e)
    BY <1>1, <1>2, <2>1 DEF ForgotPassword
  <2>2. ASSUME NEW h \in Handlers, Reset(h) PROVE UsesMove
    <3>1. request[h].secret \in Secrets /\ secret[request[h].secret] # None
      BY <2>2, GoodSecrets DEF Reset, UsingOps
    <3>2. secret'[request[h].secret].spent
      BY <1>0, <2>2, <3>1, SpendKeeps DEF Reset
    <3> QED
      BY <1>0, <2>2, <3>2, TakenHeld, DoneMoves DEF Reset, UsesMove
  <2>3. ASSUME NEW h \in Handlers, NEW i \in Secrets, NEW p \in Passwords,
               BeginReset(h, i, p)
        PROVE  UsesMove
    <3>1. secret[i].for \in Emails /\ ~secret[i].spent
      BY <2>3 DEF BeginReset, Usable, Issued, StateOK, SecretsOK
    <3> QED
      BY <1>0, <2>3, <3>1, BeginMoves DEF BeginReset, UsingOps, UsesMove
  <2>4. CASE \E h \in Handlers : ChangePassword(h)
    BY <1>1, <1>3, <2>4 DEF ChangePassword
  <2>5. ASSUME NEW h \in Handlers, NEW e \in Emails, NEW p \in Passwords, NEW q \in Passwords,
               BeginPassword(h, e, p, q)
        PROVE  UsesMove
    <3> DEFINE r == [op |-> "password", email |-> e, password |-> q]
    <3>1. r.op \notin UsingOps
      BY DEF UsingOps
    <3>2. request' = [request EXCEPT ![h] = r] /\ uses' = uses
      BY <2>5 DEF BeginPassword
    <3> HIDE DEF r
    <3>3. request'[h] = r /\ \A g \in Handlers : g # h => request'[g] = request[g]
      BY <1>0, <3>2 DEF TypeOK
    <3> QED
      BY <3>1, <3>2, <3>3 DEF UsesMove, HandlersMove, Op, UsingOps
  <2> QED
    BY <1>7, <2>1, <2>2, <2>3, <2>4, <2>5 DEF PasswordStep
<1>8. CASE SsoStep
  <2>1. CASE StartSso
    BY <1>1, <1>2, <2>1 DEF StartSso
  <2>2. CASE \E h \in Handlers : Sso(h)
    BY <1>1, <1>3, <2>2 DEF Sso
  <2>3. ASSUME NEW h \in Handlers, NEW i \in Secrets, NEW e \in Emails, BeginSso(h, i, e)
        PROVE  UsesMove
    <3>1. secret[i] # None /\ secret[i].kind = KindOf("sso") /\ ~secret[i].spent
      BY <2>3, OpKinds DEF BeginSso, Usable, Issued
    <3>2. secret'[i].spent
      BY <1>0, <2>3, <3>1, SpendKeeps DEF BeginSso
    <3>3. Lower[e] \in Emails /\ FirstPassword \in Passwords
      BY AccountConstants
    <3>4. BeginUse(h, "sso", i, Lower[e], FirstPassword)
      BY <2>3 DEF BeginSso
    <3>5. HandlersMove
      BY <1>0, <3>1, <3>3, <3>4, BeginMoves DEF UsingOps
    <3>6. uses' = uses \cup {[op |-> "sso", secret |-> i, began |-> time, committed |-> time]}
      BY <2>3 DEF BeginSso
    <3> QED
      BY <3>1, <3>2, <3>5, <3>6, TakenAtOnce DEF UsesMove
  <2> QED
    BY <1>8, <2>1, <2>2, <2>3 DEF SsoStep
<1>9. CASE Restart
  BY <1>9 DEF Restart, UsesMove, HandlersMove, Op, UsingOps
<1>10. CASE \E h \in Handlers : Fail(h)
  BY <1>1, <1>3, <1>10 DEF Fail
<1>11. CASE UNCHANGED vars
  BY <1>1, <1>2, <1>11 DEF vars
<1> QED
  BY <1>4, <1>5, <1>6, <1>7, <1>8, <1>9, <1>10, <1>11 DEF Next

LEMMA UsesInit ==
  ASSUME Init
  PROVE  UsesInv
  BY DEF Init, UsesInv, UsesOK, Overlap, SpentIsSpent, UsedOnce, Op

(* Nothing was used of a secret that is not spent.                         *)
LEMMA NotUsed ==
  ASSUME UsesOK, NEW i \in Secrets, ~secret[i].spent
  PROVE  \A u \in uses : u.secret # i
  BY DEF UsesOK

LEMMA OverlapNext ==
  ASSUME StateOK, StateOK', UsesInv, UsesMove, Keeps
  PROVE  Overlap'
<1>1. /\ uses \subseteq Use /\ time \in Times
      /\ \A u \in uses : u.committed \in Times /\ u.secret \in Secrets
  BY DEF StateOK, TypeOK, Use
<1>2. ASSUME NEW h \in Handlers, Op(h)' \in UsingOps, NEW u \in uses',
             u.secret = request'[h].secret
      PROVE  request'[h].began <= u.committed
  <2>1. CASE u \in uses
    <3>1. CASE request'[h] = request[h]
      BY <1>2, <2>1, <3>1 DEF UsesInv, Overlap, Op
    <3>2. CASE Fresh(h)
      BY <1>1, <1>2, <2>1, <3>2, NotUsed DEF Fresh, UsesInv
    <3> QED
      BY <1>2, <3>1, <3>2 DEF UsesMove, HandlersMove
  <2>2. CASE u \notin uses
    <3>1. u.committed = time
      BY <1>2, <2>2 DEF UsesMove, Taken
    <3>2. CASE request'[h] = request[h]
      <4>1. Op(h) \in UsingOps
        BY <1>2, <3>2 DEF Op
      <4> QED
        BY <3>1, <3>2, <4>1, GoodSecrets
    <3>3. CASE Fresh(h)
      BY <1>1, <3>1, <3>3 DEF Fresh, Times
    <3> QED
      BY <1>2, <3>2, <3>3 DEF UsesMove, HandlersMove
  <2> QED
    BY <2>1, <2>2
<1> QED
  BY <1>2 DEF Overlap

LEMMA UsesOKNext ==
  ASSUME StateOK, StateOK', UsesInv, UsesMove, Keeps
  PROVE  UsesOK'
<1>1. /\ time \in Times /\ time' \in Times /\ time <= time'
      /\ \A u \in uses' : u.committed \in Times /\ u.secret \in Secrets
  BY DEF StateOK, TypeOK, Use, Keeps
<1> SUFFICES ASSUME NEW u \in uses'
             PROVE  /\ secret'[u.secret] # None /\ secret'[u.secret].spent
                    /\ secret'[u.secret].kind = KindOf(u.op)
                    /\ u.began <= u.committed /\ u.committed <= time'
                    /\ u.op # "sso" => u.committed < time'
  BY DEF UsesOK
<1>2. CASE u \in uses
  <2>1. /\ secret[u.secret] # None /\ secret[u.secret].spent
        /\ secret[u.secret].kind = KindOf(u.op)
        /\ u.began <= u.committed /\ u.committed <= time
        /\ u.op # "sso" => u.committed < time
    BY <1>2 DEF UsesInv, UsesOK
  <2>2. /\ secret'[u.secret] # None /\ secret'[u.secret].spent
        /\ secret'[u.secret].kind = KindOf(u.op)
    BY <1>1, <2>1 DEF Keeps
  <2>3. u.committed <= time' /\ (u.op # "sso" => u.committed < time')
    BY <1>1, <2>1 DEF Times
  <2> QED
    BY <2>1, <2>2, <2>3
<1>3. CASE u \notin uses
  <2>1. Taken(u)
    BY <1>3 DEF UsesMove, Taken
  <2>2. /\ secret'[u.secret] # None /\ secret'[u.secret].spent
        /\ secret'[u.secret].kind = KindOf(u.op)
    BY <1>1, <2>1 DEF Keeps, Taken
  <2>3. /\ u.began <= u.committed /\ u.committed <= time'
        /\ u.op # "sso" => u.committed < time'
    BY <1>1, <2>1 DEF Taken, Times
  <2> QED
    BY <2>2, <2>3
<1> QED
  BY <1>2, <1>3

LEMMA SpentNext ==
  ASSUME StateOK, StateOK', UsesInv, UsesMove
  PROVE  SpentIsSpent'
<1>1. /\ time \in Times /\ uses' \subseteq Use
      /\ \A u \in uses' : /\ u.committed \in Times /\ u.began \in Times
                          /\ u.secret \in Secrets
  BY DEF StateOK, TypeOK, Use
<1> SUFFICES ASSUME NEW u \in uses', NEW v \in uses', u.secret = v.secret,
                    v.op \in {"register", "rotate", "reset", "sso"}
             PROVE  v.began <= u.committed
  BY DEF SpentIsSpent
<1>2. CASE u \in uses /\ v \in uses
  BY <1>2 DEF UsesInv, SpentIsSpent
<1>3. CASE u \notin uses /\ v \in uses
  <2>1. u.committed = time
    BY <1>3 DEF UsesMove, Taken
  <2>2. v.began <= v.committed /\ v.committed <= time
    BY <1>3 DEF UsesInv, UsesOK
  <2> QED
    BY <1>1, <2>1, <2>2 DEF Times
<1>4. CASE u \in uses /\ v \notin uses
  <2>1. Taken(v)
    BY <1>4 DEF UsesMove, Taken
  <2>2. CASE v.op = "sso"
    BY <1>1, <1>4, <2>1, <2>2, NotUsed DEF Taken, UsesInv
  <2>3. CASE v.op \in {"register", "rotate", "reset"}
    BY <1>4, <2>1, <2>3 DEF Taken, UsesInv, Overlap
  <2> QED
    BY <2>2, <2>3
<1>5. CASE u \notin uses /\ v \notin uses
  BY <1>1, <1>5 DEF UsesMove, Taken
<1> QED
  BY <1>2, <1>3, <1>4, <1>5

LEMMA OnceNext ==
  ASSUME StateOK, StateOK', UsesInv, UsesMove
  PROVE  UsedOnce'
<1>1. /\ uses' \subseteq Use /\ time \in Times
      /\ \A u \in uses' : u.committed \in Times /\ u.secret \in Secrets /\ u.op \in
           {"register", "revoke", "rotate", "logout", "reset", "sso"}
  BY DEF StateOK, TypeOK, Use
<1> SUFFICES ASSUME NEW u \in uses', NEW v \in uses', u.secret = v.secret, u # v,
                    v.op \in {"register", "sso"}
             PROVE  v.committed < u.committed
  BY DEF UsedOnce
<1>2. CASE u \in uses /\ v \in uses
  BY <1>2 DEF UsesInv, UsedOnce
<1>3. CASE v \notin uses
  <2>1. Taken(v) /\ u \in uses
    BY <1>3 DEF UsesMove, Taken
  <2> QED
    BY <1>1, <2>1, NotUsed DEF Taken, UsesInv
<1>4. CASE u \notin uses /\ v \in uses
  <2>1. Taken(u) /\ u.committed = time
    BY <1>4 DEF UsesMove, Taken
  <2>2. CASE v.op = "register"
    BY <1>4, <2>1, <2>2 DEF UsesInv, UsesOK
  <2>3. CASE v.op = "sso"
    <3>1. KindOf(u.op) = "sso"
      BY <1>4, <2>1, <2>3, OpKinds DEF UsesInv, UsesOK, Taken
    <3>2. u.op = "sso"
      BY <1>1, <3>1, OpKinds
    <3>3. ~secret[u.secret].spent
      BY <2>1, <3>2 DEF Taken
    <3> QED
      BY <1>1, <1>4, <3>3, NotUsed DEF UsesInv
  <2> QED
    BY <2>2, <2>3
<1> QED
  BY <1>2, <1>3, <1>4

LEMMA UsesHold == Spec => []UsesInv
<1>1. Init => StateOK /\ UsesInv
  BY InitState, UsesInit
<1>2. (StateOK /\ UsesInv) /\ [Next]_vars => (StateOK /\ UsesInv)'
  <2> SUFFICES ASSUME StateOK, UsesInv, [Next]_vars
               PROVE  StateOK' /\ UsesInv'
    OBVIOUS
  <2>1. StateOK' /\ Keeps /\ UsesMove
    BY StateNext, UsesOnly
  <2>2. UsesOK' /\ Overlap' /\ SpentIsSpent' /\ UsedOnce'
    BY <2>1, UsesOKNext, OverlapNext, SpentNext, OnceNext
  <2> QED
    BY <2>1, <2>2 DEF UsesInv
<1> QED
  BY <1>1, <1>2, PTL DEF Spec

(* A secret that was revoked or used, by any request, is not taken by one  *)
(* that reads it after: the check in users/service.py is enough for those  *)
(* that do not overlap.                                                    *)
THEOREM SpentForGood == Spec => []SpentIsSpent
<1>1. UsesInv => SpentIsSpent
  BY DEF UsesInv
<1> QED
  BY <1>1, UsesHold, PTL

(* An invite makes one account, and none after it was revoked, because     *)
(* registration locks its row; a state of single sign-on is used once.     *)
THEOREM InviteUsedOnce == Spec => []UsedOnce
<1>1. UsesInv => UsedOnce
  BY DEF UsesInv
<1> QED
  BY <1>1, UsesHold, PTL
-----------------------------------------------------------------------------
(* What becomes of roles and activity *)

(* Events were committed before now, about accounts that exist.            *)
LogOK == \A x \in log : x.committed < time /\ account[x.target] # None

(* An administrator with a request in flight still is one, or has been     *)
(* changed since it began.                                                 *)
BackedOK ==
  \A h \in Handlers : Op(h) \in Columns =>
    \/ IsAdmin(request[h].actor)
    \/ \E x \in log : x.target = request[h].actor /\ request[h].began <= x.committed

LogInv == LogOK /\ BackedOK /\ TrailExplainsAccounts

(* All but a change leave roles, activity and the trail alone.             *)
RolesKept ==
  \A e \in Emails : account[e] # None =>
    /\ account'[e] # None /\ account'[e].role = account[e].role
    /\ account'[e].state = account[e].state

(* A change in flight was so before, but for what it has loaded, or begins *)
(* with an administrator.                                                  *)
Goes(h) ==
  \/ /\ Op(h) \in Columns
     /\ request'[h].actor = request[h].actor /\ request'[h].began = request[h].began
  \/ IsAdmin(request'[h].actor) /\ request'[h].began = time

LogQuiet ==
  log' = log /\ RolesKept /\ \A h \in Handlers : Op(h)' \in Columns => Goes(h)

LEMMA SameQuiet ==
  ASSUME TypeOK, log' = log, account' = account,
         \/ request' = request
         \/ \E h \in Handlers : Done(h)
         \/ \E h \in Handlers, r \in Using \cup NewPassword :
              request' = [request EXCEPT ![h] = r]
  PROVE  LogQuiet
<1>1. RolesKept
  BY DEF RolesKept
<1>2. CASE request' = request
  BY <1>1, <1>2 DEF LogQuiet, Goes, Op
<1>3. CASE \E h \in Handlers : Done(h)
  BY <1>1, <1>3 DEF LogQuiet, Goes, Op, Done, TypeOK, Columns
<1>4. ASSUME NEW h \in Handlers, NEW r \in Using \cup NewPassword,
             request' = [request EXCEPT ![h] = r]
      PROVE  LogQuiet
  <2>1. r.op \notin Columns
    BY DEF Using, NewPassword, Columns
  <2>2. request'[h] = r /\ \A g \in Handlers : g # h => request'[g] = request[g]
    BY <1>4 DEF TypeOK
  <2>3. Op(h)' \notin Columns
    BY <2>1, <2>2 DEF Op, Columns
  <2>4. \A g \in Handlers : g # h /\ Op(g)' \in Columns => Goes(g)
    BY <2>2 DEF Op, Goes
  <2> QED
    BY <1>1, <1>4, <2>3, <2>4 DEF LogQuiet
<1> QED
  BY <1>2, <1>3, <1>4

LEMMA BeginQuiet ==
  ASSUME TypeOK, NEW h \in Handlers, NEW op \in UsingOps, NEW i \in Secrets,
         NEW email \in Emails, NEW password \in Passwords,
         BeginUse(h, op, i, email, password)
  PROVE  LogQuiet
<1> DEFINE r == [op |-> op, secret |-> i, email |-> email, password |-> password,
                 began |-> time]
<1>1. r \in Using
  BY DEF Using, UsingOps, TypeOK
<1>2. request' = [request EXCEPT ![h] = r] /\ account' = account /\ log' = log
  BY DEF BeginUse
<1> HIDE DEF r
<1> QED
  BY <1>1, <1>2, SameQuiet

(* One that is done, and has changed no role and no activity.              *)
LEMMA DoneQuiet ==
  ASSUME TypeOK, NEW h \in Handlers, Done(h), log' = log, RolesKept
  PROVE  LogQuiet
  BY DEF LogQuiet, Goes, Op, Done, TypeOK, Columns

LEMMA LogOnly ==
  ASSUME StateOK, [Next]_vars
  PROVE  LogQuiet \/ \E h \in Handlers : CommitChange(h)
<1>0. TypeOK
  BY DEF StateOK
<1>1. CASE ChangeStep
  <2>1. CASE \E h \in Handlers : Load(h)
    <3>1. PICK h \in Handlers : Load(h)
      BY <2>1
    <3>2. request[h] \in Change /\ Op(h) \in Columns
      BY <3>1, ChangeFacts DEF Load
    <3> DEFINE r == [request[h] EXCEPT !.loaded = account[request[h].target]]
    <3>3. r.actor = request[h].actor /\ r.began = request[h].began
      BY <3>2 DEF Change
    <3>4. request' = [request EXCEPT ![h] = r] /\ log' = log /\ account' = account
      BY <3>1 DEF Load
    <3> HIDE DEF r
    <3>5. request'[h] = r /\ \A g \in Handlers : g # h => request'[g] = request[g]
      BY <1>0, <3>4 DEF TypeOK
    <3> QED
      BY <3>2, <3>3, <3>4, <3>5 DEF LogQuiet, RolesKept, Goes, Op
  <2>2. CASE \E h \in Handlers, op \in scenario \cap Columns, actor, target \in Emails :
               \E to \in (IF op = "role" THEN Asked ELSE States) :
                 Enter(h, op, actor, target, to)
    <3>1. PICK h \in Handlers, op \in scenario \cap Columns, actor, target \in Emails :
               \E to \in (IF op = "role" THEN Asked ELSE States) :
                 Enter(h, op, actor, target, to)
      BY <2>2
    <3>2. PICK to \in (IF op = "role" THEN Asked ELSE States) :
               Enter(h, op, actor, target, to)
      BY <3>1
    <3> DEFINE r == [op |-> op, actor |-> actor, target |-> target, to |-> to,
                     loaded |-> IF target = actor THEN account[actor] ELSE None,
                     began |-> time]
    <3>3. r.actor = actor /\ r.began = time
      OBVIOUS
    <3>4. /\ request' = [request EXCEPT ![h] = r] /\ log' = log /\ account' = account
          /\ IsAdmin(actor)
      BY <3>2 DEF Enter
    <3> HIDE DEF r
    <3>5. request'[h] = r /\ \A g \in Handlers : g # h => request'[g] = request[g]
      BY <1>0, <3>4 DEF TypeOK
    <3> QED
      BY <3>3, <3>4, <3>5 DEF LogQuiet, RolesKept, Goes, Op
  <2> QED
    BY <1>1, <2>1, <2>2 DEF ChangeStep
<1>2. CASE InviteStep
  <2>1. CASE \E actor, email \in Emails, role \in Asked : Invite(actor, email, role)
    BY <1>0, <2>1, SameQuiet DEF Invite
  <2>2. CASE \E actor \in Emails, i \in Secrets : Revoke(actor, i)
    BY <1>0, <2>2, SameQuiet DEF Revoke
  <2>3. ASSUME NEW h \in Handlers, Register(h) PROVE LogQuiet
    <3>1. request[h].email \in Emails
      BY <2>3, GoodSecrets DEF Register, UsingOps
    <3>2. RolesKept
      BY <1>0, <2>3, <3>1 DEF Register, RolesKept, TypeOK
    <3> QED
      BY <1>0, <2>3, <3>2, DoneQuiet DEF Register
  <2>4. ASSUME NEW h \in Handlers, NEW i \in Secrets, NEW e \in Emails, NEW p \in Passwords,
               BeginRegister(h, i, e, p)
        PROVE  LogQuiet
    BY <1>0, <2>4, BeginQuiet DEF BeginRegister, UsingOps
  <2> QED
    BY <1>2, <2>1, <2>2, <2>3, <2>4 DEF InviteStep
<1>3. CASE SessionStep
  <2>1. CASE \E e \in Emails, p \in Passwords : Login(e, p)
    BY <1>0, <2>1, SameQuiet DEF Login
  <2>2. CASE \E i \in Secrets : Logout(i)
    BY <1>0, <2>2, SameQuiet DEF Logout
  <2>3. CASE \E h \in Handlers : Rotate(h)
    BY <1>0, <2>3, SameQuiet DEF Rotate
  <2>4. ASSUME NEW h \in Handlers, NEW i \in Secrets, BeginRotate(h, i) PROVE LogQuiet
    <3>1. secret[i].for \in Emails
      BY <2>4 DEF BeginRotate, Usable, Issued, StateOK, SecretsOK
    <3> QED
      BY <1>0, <2>4, <3>1, BeginQuiet, AccountConstants DEF BeginRotate, UsingOps
  <2> QED
    BY <1>3, <2>1, <2>2, <2>3, <2>4 DEF SessionStep
<1>4. CASE PasswordStep
  <2>1. CASE \E e \in Emails : ForgotPassword(e)
    BY <1>0, <2>1, SameQuiet DEF ForgotPassword
  <2>2. ASSUME NEW h \in Handlers, Reset(h) PROVE LogQuiet
    <3>1. /\ request[h].email \in Emails /\ request[h].password \in Passwords
          /\ account[request[h].email] # None
      BY <2>2, GoodSecrets DEF Reset, UsingOps, UsingOK, Op
    <3>2. account' = [account EXCEPT ![request[h].email].password = request[h].password]
      BY <2>2 DEF Reset
    <3>3. RolesKept
      BY <1>0, <3>1, <3>2, PasswordTyped DEF RolesKept
    <3> QED
      BY <1>0, <2>2, <3>3, DoneQuiet DEF Reset
  <2>3. ASSUME NEW h \in Handlers, NEW i \in Secrets, NEW p \in Passwords,
               BeginReset(h, i, p)
        PROVE  LogQuiet
    <3>1. secret[i].for \in Emails
      BY <2>3 DEF BeginReset, Usable, Issued, StateOK, SecretsOK
    <3> QED
      BY <1>0, <2>3, <3>1, BeginQuiet DEF BeginReset, UsingOps
  <2>4. ASSUME NEW h \in Handlers, ChangePassword(h) PROVE LogQuiet
    <3>1. /\ request[h].email \in Emails /\ request[h].password \in Passwords
          /\ account[request[h].email] # None
      BY <2>4 DEF ChangePassword, Op, StateOK, HeldOK, Good, PasswordOK, NewPassword,
                  UsingOps, Columns
    <3>2. account' = [account EXCEPT ![request[h].email].password = request[h].password]
      BY <2>4 DEF ChangePassword
    <3>3. RolesKept
      BY <1>0, <3>1, <3>2, PasswordTyped DEF RolesKept
    <3> QED
      BY <1>0, <2>4, <3>3, DoneQuiet DEF ChangePassword
  <2>5. ASSUME NEW h \in Handlers, NEW e \in Emails, NEW p \in Passwords, NEW q \in Passwords,
               BeginPassword(h, e, p, q)
        PROVE  LogQuiet
    <3>1. [op |-> "password", email |-> e, password |-> q] \in NewPassword
      BY DEF NewPassword
    <3> QED
      BY <1>0, <2>5, <3>1, SameQuiet DEF BeginPassword
  <2> QED
    BY <1>4, <2>1, <2>2, <2>3, <2>4, <2>5 DEF PasswordStep
<1>5. CASE SsoStep
  <2>1. CASE StartSso
    BY <1>0, <2>1, SameQuiet DEF StartSso
  <2>2. CASE \E h \in Handlers : Sso(h)
    BY <1>0, <2>2, SameQuiet DEF Sso
  <2>3. ASSUME NEW h \in Handlers, NEW i \in Secrets, NEW e \in Emails, BeginSso(h, i, e)
        PROVE  LogQuiet
    BY <1>0, <2>3, BeginQuiet, AccountConstants DEF BeginSso, UsingOps
  <2> QED
    BY <1>5, <2>1, <2>2, <2>3 DEF SsoStep
<1>6. CASE Restart
  BY <1>6 DEF Restart, LogQuiet, RolesKept, Op, Columns
<1>7. CASE \E h \in Handlers : Fail(h)
  BY <1>0, <1>7, SameQuiet DEF Fail
<1>8. CASE UNCHANGED vars
  BY <1>0, <1>8, SameQuiet DEF vars
<1> QED
  BY <1>1, <1>2, <1>3, <1>4, <1>5, <1>6, <1>7, <1>8 DEF Next

LEMMA LogInit ==
  ASSUME Init
  PROVE  LogInv
  BY DEF Init, LogInv, LogOK, BackedOK, TrailExplainsAccounts, ChangesOf, Op, Columns

LEMMA ChangeFactsNext ==
  ASSUME StateOK', NEW h \in Handlers, Op(h)' \in Columns
  PROVE  request'[h].actor \in Emails
<1>1. request'[h] # None /\ request'[h].op \in Columns
  BY DEF Op, Columns
<1>2. ChangeOK(h)'
  BY <1>1 DEF StateOK, HeldOK, Good, UsingOps, Columns
<1> QED
  BY <1>2 DEF ChangeOK, Change

LEMMA QuietNext ==
  ASSUME StateOK, LogInv, LogQuiet, Keeps, StateOK'
  PROVE  LogInv'
<1>1. /\ log' = log /\ log \subseteq Event /\ time \in Times /\ time' \in Times
      /\ time <= time'
  BY DEF LogQuiet, StateOK, TypeOK, Keeps
<1>2. LogOK'
  BY <1>1 DEF LogInv, LogOK, Keeps, Event, Times
<1>3. BackedOK'
  <2> SUFFICES ASSUME NEW h \in Handlers, Op(h)' \in Columns
               PROVE  \/ IsAdmin(request[h].actor)'
                      \/ \E x \in log : /\ x.target = request'[h].actor
                                      /\ request'[h].began <= x.committed
    BY <1>1 DEF BackedOK
  <2>1. request'[h].actor \in Emails
    BY ChangeFactsNext
  <2>2. ASSUME IsAdmin(request'[h].actor) PROVE IsAdmin(request[h].actor)'
    BY <2>1, <2>2 DEF IsAdmin, Enabled, LogQuiet, RolesKept
  <2>3. Goes(h)
    BY DEF LogQuiet
  <2> QED
    BY <2>2, <2>3 DEF Goes, LogInv, BackedOK
<1>4. TrailExplainsAccounts'
  <2> SUFFICES ASSUME NEW e \in Emails, NEW c \in Columns, NEW x \in ChangesOf(e, c),
                      \A y \in ChangesOf(e, c) : y.committed <= x.committed
               PROVE  Column(account'[e], c) = x.to
    BY <1>1 DEF TrailExplainsAccounts, ChangesOf
  <2>1. Column(account[e], c) = x.to
    BY DEF LogInv, TrailExplainsAccounts
  <2>2. account[e] # None
    BY DEF LogInv, LogOK, ChangesOf
  <2> QED
    BY <2>1, <2>2 DEF LogQuiet, RolesKept, Column
<1> QED
  BY <1>2, <1>3, <1>4 DEF LogInv

LEMMA ChangeNext ==
  ASSUME StateOK, LogInv, NEW h \in Handlers, CommitChange(h), Keeps, StateOK'
  PROVE  LogInv'
<1> DEFINE r == request[h]
           x == [column |-> r.op, actor |-> r.actor, target |-> r.target,
                 from |-> Column(r.loaded, r.op), to |-> r.to,
                 began |-> r.began, committed |-> time]
<1>1. /\ time \in Times /\ time' \in Times /\ time < time' /\ log \subseteq Event
  BY CommitTyped DEF StateOK, TypeOK, CommitChange
<1>2. /\ r \in Change /\ r.target \in Emails /\ r.op \in Columns
      /\ account'[r.target] # None
      /\ \A e \in Emails : e # r.target => account'[e] = account[e]
      /\ Column(r.loaded, r.op) = r.to => account' = account
      /\ Column(r.loaded, r.op) # r.to =>
           /\ Column(account'[r.target], r.op) = r.to
           /\ \A c \in Columns : c # r.op =>
                Column(account'[r.target], c) = Column(account[r.target], c)
  BY CommitChangeEffect
<1>3. /\ log' = log \cup {x}
      /\ x.column = r.op /\ x.target = r.target /\ x.to = r.to /\ x.committed = time
      /\ x.from = Column(r.loaded, r.op)
  BY DEF CommitChange
<1>4. request'[h] = None /\ \A g \in Handlers : g # h => request'[g] = request[g]
  BY DEF StateOK, TypeOK, CommitChange, Done
<1> HIDE DEF x
<1>5. \A y \in log : y.committed \in Times /\ y.target \in Emails
  BY <1>1 DEF Event
<1>6. LogOK'
  <2>1. ASSUME NEW y \in log PROVE y.committed < time' /\ account'[y.target] # None
    <3>1. y.committed < time /\ account[y.target] # None
      BY DEF LogInv, LogOK
    <3> QED
      BY <1>1, <1>5, <3>1 DEF Keeps, Times
  <2> QED
    BY <1>1, <1>2, <1>3, <2>1 DEF LogOK
<1>7. BackedOK'
  <2> SUFFICES ASSUME NEW g \in Handlers, Op(g)' \in Columns
               PROVE  \/ IsAdmin(request[g].actor)'
                      \/ \E y \in log' : /\ y.target = request'[g].actor
                                       /\ request'[g].began <= y.committed
    BY DEF BackedOK
  <2>1. g # h /\ request'[g] = request[g] /\ Op(g) \in Columns
    BY <1>4 DEF Op, Columns
  <2>2. request[g].actor \in Emails /\ request[g].began <= time
    BY <2>1, ChangeFacts DEF Change, ChangeOK
  <2>3. CASE IsAdmin(request[g].actor) /\ request[g].actor # r.target
    BY <1>2, <2>1, <2>2, <2>3 DEF IsAdmin, Enabled
  <2>4. CASE request[g].actor = r.target
    BY <1>3, <2>1, <2>2, <2>4
  <2>5. CASE \E y \in log : /\ y.target = request[g].actor
                           /\ request[g].began <= y.committed
    BY <1>3, <2>1, <2>5
  <2> QED
    BY <2>1, <2>3, <2>4, <2>5 DEF LogInv, BackedOK
<1>8. TrailExplainsAccounts'
  <2> SUFFICES ASSUME NEW e \in Emails, NEW c \in Columns, NEW z \in ChangesOf(e, c)',
                      \A y \in ChangesOf(e, c)' : y.committed <= z.committed
               PROVE  Column(account'[e], c) = z.to
    BY DEF TrailExplainsAccounts
  <2>1. ChangesOf(e, c) \subseteq ChangesOf(e, c)'
    BY <1>3 DEF ChangesOf
  <2>2. CASE z \notin log
    <3>1. z = x
      BY <1>3, <2>2 DEF ChangesOf
    <3> QED
      BY <1>2, <1>3, <3>1 DEF ChangesOf
  <2>3. CASE z \in log
    <3>1. z \in ChangesOf(e, c)
      BY <2>3 DEF ChangesOf
    <3>2. Column(account[e], c) = z.to
      BY <2>1, <3>1 DEF LogInv, TrailExplainsAccounts
    <3>3. x \notin ChangesOf(e, c)'
      <4>1. z.committed < time /\ z.committed \in Times
        BY <1>5, <2>3 DEF LogInv, LogOK
      <4> QED
        BY <1>1, <1>3, <4>1 DEF Times
    <3>4. e # r.target \/ c # r.op \/ Column(r.loaded, r.op) = r.to
      BY <1>3, <3>3 DEF ChangesOf
    <3> QED
      BY <1>2, <3>2, <3>4
  <2> QED
    BY <2>2, <2>3
<1> QED
  BY <1>6, <1>7, <1>8 DEF LogInv

LEMMA LogHolds == Spec => [](StateOK /\ LogInv)
<1>1. Init => StateOK /\ LogInv
  BY InitState, LogInit
<1>2. (StateOK /\ LogInv) /\ [Next]_vars => (StateOK /\ LogInv)'
  BY StateNext, LogOnly, QuietNext, ChangeNext
<1> QED
  BY <1>1, <1>2, PTL DEF Spec

(* Whatever requests overlapped, the role and the activity of an account   *)
(* are what the latest change of it in the audit trail says: the UPDATE of *)
(* a request writes only the column it changes.                            *)
THEOREM TrailExplains == Spec => []TrailExplainsAccounts
<1>1. LogInv => TrailExplainsAccounts
  BY DEF LogInv
<1> QED
  BY <1>1, LogHolds, PTL

(* The step that loses the last administrator commits a change: its actor  *)
(* is the target, or has been changed since the request began.             *)
LEMMA LastAdminStep ==
  ASSUME StateOK, LogInv, [Next]_vars
  PROVE  LastAdmin
<1> SUFFICES ASSUME NEW a \in Emails, IsAdmin(a), ~(\E e \in Emails : IsAdmin(e)')
             PROVE  \E y \in log' \ log :
                      \/ y.column = "state" /\ y.actor = y.target
                      \/ \E x \in log : x.target = y.actor /\ y.began <= x.committed
  BY DEF LastAdmin
<1>1. ~LogQuiet
  BY DEF LogQuiet, RolesKept, IsAdmin, Enabled
<1>2. PICK h \in Handlers : CommitChange(h)
  BY <1>1, LogOnly
<1> DEFINE r == request[h]
           y == [column |-> r.op, actor |-> r.actor, target |-> r.target,
                 from |-> Column(r.loaded, r.op), to |-> r.to,
                 began |-> r.began, committed |-> time]
<1>3. /\ y.column = r.op /\ y.actor = r.actor /\ y.target = r.target
      /\ y.began = r.began /\ y.committed = time /\ log' = log \cup {y}
  BY <1>2 DEF CommitChange
<1> HIDE DEF y
<1>4. time \in Nat
  BY DEF StateOK, TypeOK, Times
<1>5. y \in log' \ log
  BY <1>3, <1>4 DEF LogInv, LogOK
<1>6. /\ r.actor \in Emails /\ r.op \in Columns /\ MayChange(r.op, r.actor, r.target)
      /\ r.op = Op(h)
  BY <1>2, ChangeFacts DEF CommitChange, Change, ChangeOK
<1>7. \A e \in Emails : e # r.target => account'[e] = account[e]
  BY <1>2, CommitChangeEffect
<1>8. CASE r.actor = r.target
  <2>1. r.op = "state"
    BY <1>6, <1>8 DEF MayChange, Columns
  <2> QED
    BY <1>3, <1>5, <1>8, <2>1
<1>9. CASE r.actor # r.target
  <2>1. ~IsAdmin(r.actor)
    BY <1>6, <1>7, <1>9 DEF IsAdmin, Enabled
  <2>2. PICK x \in log : x.target = r.actor /\ r.began <= x.committed
    BY <1>6, <2>1 DEF LogInv, BackedOK
  <2> QED
    BY <1>3, <1>5, <2>2
<1> QED
  BY <1>8, <1>9

(* The last administrator is lost only to their own deactivation, or to a  *)
(* request of one who was an administrator when it began and no longer is. *)
THEOREM LastAdminLost == Spec => LastAdminLostInOverlap
<1>1. (StateOK /\ LogInv) /\ [Next]_vars => [LastAdmin]_vars
  BY LastAdminStep
<1> QED
  BY <1>1, LogHolds, PTL DEF Spec, LastAdminLostInOverlap
=============================================================================
