-------------------------- MODULE SearchIndexProofs --------------------------
(***************************************************************************)
(* What holds of the candidates index for any number of candidates,        *)
(* workers, retries and faults.                                            *)
(***************************************************************************)
EXTENDS SearchIndex, TLAPS

(* The message and the batch of a worker fit what it is at. *)
HeldOK ==
  \A w \in Workers :
    /\ job[w] = "idle" => held[w] = NoMessage
    /\ job[w] = "load" => held[w] # NoMessage
    /\ job[w] = "backfill" => held[w] = NoMessage
    /\ job[w] = "remove" => held[w] # NoMessage
    /\ job[w] = "write" =>
         /\ held[w] # NoMessage
         /\ \A c \in Candidates : batch[w][c] # NoDoc => c = held[w].cand
    /\ job[w] \in {"idle", "load"} => \A c \in Candidates : batch[w][c] = NoDoc

(* A snapshot is of the row's present state or of an earlier one. *)
Behind(s, r) ==
  /\ 0 < s.version /\ s.version <= r.version
  /\ s.version = r.version => s = r
  /\ s.deleted => r.deleted

RowsOK == \A c \in Candidates : Absent(c) => ~row[c].deleted
DocsBehind == \A c \in Candidates : doc[c] # NoDoc => Behind(doc[c], row[c])
BatchesBehind ==
  \A w \in Workers, c \in Candidates : batch[w][c] # NoDoc => Behind(batch[w][c], row[c])

(* A message about a candidate says that it exists; one that removes it,   *)
(* that it is deleted.                                                     *)
Says(m) == ~Absent(m.cand) /\ (m.kind = "remove" => row[m.cand].deleted)
MessagesOK ==
  /\ \A m \in Message : calls[m] > 0 \/ tasks[m] > 0 => Says(m)
  /\ \A w \in Workers : held[w] # NoMessage => Says(held[w])
  /\ \A w \in Workers : job[w] = "remove" => held[w].kind = "remove"
  /\ \A c \in loaded : ~Absent(c)

StateOK == TypeOK /\ HeldOK /\ RowsOK /\ DocsBehind /\ BatchesBehind /\ MessagesOK
-----------------------------------------------------------------------------
LEMMA CallTyped ==
  ASSUME NEW k \in Kinds, NEW c \in Candidates
  PROVE  Call(k, c) \in Message /\ Call(k, c).cand = c /\ Call(k, c).kind = k
  BY Bounds DEF Call, Message

LEMMA Apart == NoDoc \notin Snapshot /\ NoMessage \notin Message
  BY NoneApart

LEMMA RetriedTyped ==
  ASSUME NEW m \in Message, m.retries < MaxRetries
  PROVE  /\ [m EXCEPT !.retries = @ + 1] \in Message
         /\ [m EXCEPT !.retries = @ + 1].cand = m.cand
         /\ [m EXCEPT !.retries = @ + 1].kind = m.kind
  BY Bounds DEF Message

LEMMA FlaggedTyped ==
  ASSUME NEW s \in Snapshot
  PROVE  /\ [s EXCEPT !.deleted = TRUE] \in Snapshot
         /\ [s EXCEPT !.deleted = TRUE].version = s.version
         /\ [s EXCEPT !.deleted = TRUE].deleted
  BY DEF Snapshot

LEMMA StateInit == Init => StateOK
<1> SUFFICES ASSUME Init PROVE StateOK
  OBVIOUS
<1>1. TypeOK
  BY Bounds DEF Init, TypeOK, Snapshot
<1> QED
  BY <1>1 DEF Init, StateOK, HeldOK, RowsOK, DocsBehind, BatchesBehind, MessagesOK, Absent,
     Behind
-----------------------------------------------------------------------------
(* How the steps change what they change. *)

(* A commit that publishes. *)
LEMMA CommitChanges ==
  ASSUME TypeOK, NEW c \in Candidates, NEW del \in BOOLEAN, NEW k \in Kinds,
         Commit(c, del, k)
  PROVE  /\ row' \in [Candidates -> Snapshot]
         /\ row'[c] = [version |-> row[c].version + 1, deleted |-> del]
         /\ \A d \in Candidates : d # c => row'[d] = row[d]
         /\ calls' \in [Message -> Nat]
         /\ calls'[Call(k, c)] > 0
         /\ \A m \in Message : m # Call(k, c) => calls'[m] = calls[m]
         /\ lost' \subseteq lost
         /\ \A d \in Candidates : d # c => \A x \in Causes : <<d, x>> \in lost => <<d, x>> \in lost'
         /\ UNCHANGED <<doc, tasks, job, held, batch, backfills, faults>>
<1> USE DEF TypeOK
<1>1. Call(k, c) \in Message
  BY CallTyped
<1>2. [version |-> row[c].version + 1, deleted |-> del] \in Snapshot
  BY DEF Snapshot
<1>3. calls[Call(k, c)] \in Nat
  BY <1>1
<1>4. calls' = [calls EXCEPT ![Call(k, c)] = calls[Call(k, c)] + 1]
  BY DEF Commit
<1>5. /\ calls' \in [Message -> Nat]
      /\ calls'[Call(k, c)] > 0
      /\ \A m \in Message : m # Call(k, c) => calls'[m] = calls[m]
  BY <1>1, <1>3, <1>4
<1>6. /\ row' \in [Candidates -> Snapshot]
      /\ row'[c] = [version |-> row[c].version + 1, deleted |-> del]
      /\ \A d \in Candidates : d # c => row'[d] = row[d]
  BY <1>2 DEF Commit
<1>7. /\ lost' \subseteq lost
      /\ \A d \in Candidates : d # c => \A x \in Causes : <<d, x>> \in lost => <<d, x>> \in lost'
  BY DEF Commit
<1> QED
  BY <1>5, <1>6, <1>7 DEF Commit, workerVars, bounds

(* Moving one message between bags. *)
LEMMA BagAdd ==
  ASSUME NEW B \in [Message -> Nat], NEW m \in Message
  PROVE  /\ [B EXCEPT ![m] = @ + 1] \in [Message -> Nat]
         /\ [B EXCEPT ![m] = @ + 1][m] > 0
         /\ \A n \in Message : n # m => [B EXCEPT ![m] = @ + 1][n] = B[n]
  OBVIOUS

LEMMA BagTake ==
  ASSUME NEW B \in [Message -> Nat], NEW m \in Message, B[m] > 0
  PROVE  /\ [B EXCEPT ![m] = @ - 1] \in [Message -> Nat]
         /\ \A n \in Message : [B EXCEPT ![m] = @ - 1][n] > 0 => B[n] > 0
         /\ \A n \in Message : n # m => [B EXCEPT ![m] = @ - 1][n] = B[n]
  OBVIOUS

LEMMA ReleaseChanges ==
  ASSUME TypeOK, NEW w \in Workers, Release(w)
  PROVE  /\ job' \in [Workers -> {"idle", "load", "write", "remove", "backfill"}]
         /\ held' \in [Workers -> Message \cup {NoMessage}]
         /\ batch' \in [Workers -> [Candidates -> Snapshot \cup {NoDoc}]]
         /\ job'[w] = "idle" /\ held'[w] = NoMessage
         /\ \A c \in Candidates : batch'[w][c] = NoDoc
         /\ \A v \in Workers : v # w =>
              job'[v] = job[v] /\ held'[v] = held[v] /\ batch'[v] = batch[v]
  BY DEF TypeOK, Release

(* What a commit leaves true of documents, snapshots and messages. *)
Grown(c) ==
  /\ row'[c].version = row[c].version + 1
  /\ row[c].deleted => row'[c].deleted

LEMMA RowsGrow ==
  ASSUME StateOK, row' \in [Candidates -> Snapshot], UNCHANGED <<doc, batch>>,
         \A c \in Candidates : row'[c] = row[c] \/ Grown(c)
  PROVE  /\ RowsOK' /\ DocsBehind' /\ BatchesBehind'
         /\ \A m \in Message : Says(m) => Says(m)'
         /\ \A c \in Candidates : ~Absent(c) => ~Absent(c)'
<1> USE DEF StateOK, TypeOK
<1>1. ASSUME NEW c \in Candidates
      PROVE  /\ row[c].version \in Nat /\ row'[c].version \in Nat
             /\ row[c].version <= row'[c].version
             /\ row[c].deleted => row'[c].deleted
             /\ row'[c].version = row[c].version => row'[c] = row[c]
  BY DEF Grown, Snapshot
<1>2. ASSUME NEW s \in Snapshot, NEW c \in Candidates, Behind(s, row[c])
      PROVE  0 < s.version /\ s.version <= row'[c].version
             /\ (s.version = row'[c].version => s = row'[c])
             /\ (s.deleted => row'[c].deleted)
  <2>1. s.version \in Nat
    BY DEF Snapshot
  <2> HIDE DEF StateOK, TypeOK
  <2> QED
    BY <1>1, <1>2, <2>1 DEF Behind
<1>3. DocsBehind'
  BY <1>2 DEF DocsBehind, Behind
<1>4. BatchesBehind'
  <2>1. ASSUME NEW w \in Workers, NEW c \in Candidates, batch[w][c] # NoDoc
        PROVE  Behind(batch[w][c], row[c]) /\ batch[w][c] \in Snapshot
    BY <2>1 DEF BatchesBehind
  <2>2. ASSUME NEW w \in Workers, NEW c \in Candidates, batch[w][c] # NoDoc
        PROVE  /\ 0 < batch[w][c].version /\ batch[w][c].version <= row'[c].version
               /\ batch[w][c].version = row'[c].version => batch[w][c] = row'[c]
               /\ batch[w][c].deleted => row'[c].deleted
    BY <1>2, <2>1, <2>2
  <2> QED
    BY <2>2 DEF BatchesBehind, Behind
<1>5. RowsOK'
  BY <1>1 DEF RowsOK, Absent, Grown
<1>6. \A c \in Candidates : ~Absent(c) => ~Absent(c)'
  BY <1>1 DEF Absent
<1>7. \A m \in Message : Says(m) => Says(m)'
  BY <1>1, <1>6 DEF Says, Message
<1> QED
  BY <1>3, <1>4, <1>5, <1>6, <1>7

LEMMA CommitKeepsState ==
  ASSUME StateOK, NEW c \in Candidates, NEW del \in BOOLEAN, NEW k \in Kinds,
         Commit(c, del, k), row[c].deleted => del, k = "remove" => del,
         loaded' \subseteq loaded
  PROVE  StateOK'
<1> USE DEF StateOK
<1>1. Call(k, c) \in Message /\ Call(k, c).cand = c /\ Call(k, c).kind = k
  BY CallTyped
<1> HIDE DEF StateOK
<1>0. TypeOK
  BY DEF StateOK
<1>2. /\ row' \in [Candidates -> Snapshot]
      /\ row'[c] = [version |-> row[c].version + 1, deleted |-> del]
      /\ \A d \in Candidates : d # c => row'[d] = row[d]
      /\ calls' \in [Message -> Nat]
      /\ \A m \in Message : m # Call(k, c) => calls'[m] = calls[m]
      /\ lost' \subseteq lost
      /\ UNCHANGED <<doc, tasks, job, held, batch, backfills, faults>>
  BY <1>0, CommitChanges
<1> USE DEF StateOK
<1>3. /\ RowsOK' /\ DocsBehind' /\ BatchesBehind'
      /\ \A m \in Message : Says(m) => Says(m)'
      /\ \A d \in Candidates : ~Absent(d) => ~Absent(d)'
  BY <1>2, RowsGrow DEF Grown
<1>4. Says(Call(k, c))'
  BY <1>1, <1>2 DEF Says, Absent, TypeOK, Snapshot
<1>5. MessagesOK'
  BY <1>1, <1>2, <1>3, <1>4 DEF MessagesOK, TypeOK
<1>6. TypeOK'
  BY <1>2 DEF TypeOK
<1>7. HeldOK'
  BY <1>2 DEF HeldOK
<1> QED
  BY <1>3, <1>5, <1>6, <1>7

(* A writer that publishes nothing. *)
LEMMA UnsyncedKeepsState ==
  ASSUME StateOK, NEW c \in Candidates, PipelineCreates(c) \/ ScriptDeletes(c)
  PROVE  StateOK'
<1> USE DEF StateOK
<1>1. row[c].version \in Nat
  BY DEF TypeOK, Snapshot
<1>2. PICK new \in Snapshot :
        /\ row' = [row EXCEPT ![c] = new]
        /\ new.version = row[c].version + 1 /\ (row[c].deleted => new.deleted)
  <2>1. CASE PipelineCreates(c)
    <3> DEFINE new == [version |-> 1, deleted |-> FALSE]
    <3>1. new \in Snapshot
      BY DEF Snapshot
    <3>2. row[c].version = 0 /\ ~row[c].deleted
      BY <2>1 DEF PipelineCreates, Absent, RowsOK
    <3>3. row' = [row EXCEPT ![c] = new]
      BY <2>1 DEF PipelineCreates
    <3>4. new.version = row[c].version + 1 /\ (row[c].deleted => new.deleted)
      BY <3>2
    <3> HIDE DEF new
    <3> QED
      BY <3>1, <3>3, <3>4
  <2>2. CASE ScriptDeletes(c)
    <3>1. [version |-> row[c].version + 1, deleted |-> TRUE] \in Snapshot
      BY <1>1 DEF Snapshot
    <3> QED
      BY <2>2, <3>1 DEF ScriptDeletes
  <2> QED
    BY <2>1, <2>2
<1>3. /\ UNCHANGED <<loaded, doc, calls, tasks, job, held, batch, backfills, faults>>
      /\ lost' \subseteq Candidates \X Causes
  BY DEF PipelineCreates, ScriptDeletes, workerVars, bounds, TypeOK, Causes
<1>4. /\ RowsOK' /\ DocsBehind' /\ BatchesBehind'
      /\ \A m \in Message : Says(m) => Says(m)'
      /\ \A d \in Candidates : ~Absent(d) => ~Absent(d)'
  BY <1>2, <1>3, RowsGrow DEF Grown, TypeOK
<1>5. MessagesOK'
  BY <1>3, <1>4 DEF MessagesOK, TypeOK
<1>6. TypeOK' /\ HeldOK'
  BY <1>2, <1>3 DEF TypeOK, HeldOK
<1> QED
  BY <1>4, <1>5, <1>6

(* A worker that is done with its message or with one row of its batch. *)
Shrunk(w) ==
  /\ job' \in [Workers -> {"idle", "load", "write", "remove", "backfill"}]
  /\ held' \in [Workers -> Message \cup {NoMessage}]
  /\ batch' \in [Workers -> [Candidates -> Snapshot \cup {NoDoc}]]
  /\ \A v \in Workers : v # w =>
       job'[v] = job[v] /\ held'[v] = held[v] /\ batch'[v] = batch[v]
  /\ \A d \in Candidates : batch'[w][d] \in {NoDoc, batch[w][d]}
  /\ \/ /\ job'[w] = "idle" /\ held'[w] = NoMessage
        /\ \A d \in Candidates : batch'[w][d] = NoDoc
     \/ job'[w] = job[w] /\ held'[w] = held[w] /\ job[w] \in {"write", "backfill"}

LEMMA ReleaseShrinks ==
  ASSUME TypeOK, NEW w \in Workers, Release(w)
  PROVE  Shrunk(w) /\ job'[w] = "idle"
  BY ReleaseChanges DEF Shrunk

LEMMA AdvanceShrinks ==
  ASSUME StateOK, NEW w \in Workers, NEW c \in Candidates, Advance(w, c),
         job[w] \in {"write", "backfill"}, batch[w][c] # NoDoc
  PROVE  Shrunk(w) /\ (job[w] = "write" => job'[w] = "idle")
<1> DEFINE rest == [batch[w] EXCEPT ![c] = NoDoc]
<1>1. /\ rest \in [Candidates -> Snapshot \cup {NoDoc}]
      /\ \A d \in Candidates : rest[d] \in {NoDoc, batch[w][d]}
  BY DEF StateOK, TypeOK
<1>2. CASE \E d \in Candidates : rest[d] # NoDoc
  <2>1. batch' = [batch EXCEPT ![w] = rest] /\ UNCHANGED <<job, held>>
    BY <1>2 DEF Advance
  <2>2. job[w] # "write"
    <3>1. SUFFICES ASSUME job[w] = "write" PROVE FALSE
      OBVIOUS
    <3>2. \A d \in Candidates : batch[w][d] # NoDoc => d = held[w].cand
      BY <3>1 DEF StateOK, HeldOK
    <3> QED
      BY <1>1, <1>2, <3>2 DEF StateOK, TypeOK
  <2> HIDE DEF rest
  <2>3. batch' \in [Workers -> [Candidates -> Snapshot \cup {NoDoc}]]
    BY <1>1, <2>1 DEF StateOK, TypeOK
  <2>4. batch'[w] = rest /\ \A v \in Workers : v # w => batch'[v] = batch[v]
    BY <2>1 DEF StateOK, TypeOK
  <2> QED
    BY <1>1, <2>1, <2>2, <2>3, <2>4 DEF StateOK, TypeOK, Shrunk
<1>3. CASE ~\E d \in Candidates : rest[d] # NoDoc
  BY <1>3, ReleaseShrinks DEF Advance, StateOK
<1> QED
  BY <1>2, <1>3

LEMMA ShrunkKeepsState ==
  ASSUME StateOK, NEW w \in Workers, Shrunk(w), UNCHANGED <<row, loaded, calls, backfills>>,
         doc' \in [Candidates -> Snapshot \cup {NoDoc}], DocsBehind',
         tasks' \in [Message -> Nat],
         \A m \in Message : tasks'[m] > 0 => tasks[m] > 0 \/ Says(m),
         lost' \subseteq Candidates \X Causes, faults' \in 0..MaxFaults
  PROVE  StateOK'
<1> USE DEF StateOK
<1>1. TypeOK'
  BY DEF TypeOK, Shrunk
<1>2. HeldOK'
  <2>1. ASSUME NEW v \in Workers, v # w
        PROVE  job'[v] = job[v] /\ held'[v] = held[v] /\ batch'[v] = batch[v]
    BY <2>1 DEF Shrunk
  <2>2. \/ /\ job'[w] = "idle" /\ held'[w] = NoMessage
           /\ \A d \in Candidates : batch'[w][d] = NoDoc
        \/ job'[w] = job[w] /\ held'[w] = held[w] /\ job[w] \in {"write", "backfill"}
    BY DEF Shrunk
  <2>3. \A d \in Candidates : batch'[w][d] \in {NoDoc, batch[w][d]}
    BY DEF Shrunk
  <2> QED
    BY <2>1, <2>2, <2>3 DEF HeldOK
<1>3. BatchesBehind'
  BY DEF BatchesBehind, Behind, Shrunk
<1>4. \A m \in Message : Says(m) => Says(m)'
  BY DEF Says, Absent
<1>5. MessagesOK'
  BY <1>4 DEF MessagesOK, TypeOK, Absent, Shrunk
<1>6. RowsOK'
  BY DEF RowsOK, Absent
<1> QED
  BY <1>1, <1>2, <1>3, <1>5, <1>6

(* The invariant that carries types, messages and snapshots. *)
LEMMA StateStep == StateOK /\ [Next]_vars => StateOK'
<1> SUFFICES ASSUME StateOK, [Next]_vars
             PROVE  StateOK'
  OBVIOUS
<1> TypeOK
  BY DEF StateOK
<1>1. ASSUME NEW c \in Candidates, CreateCandidate(c) \/ CommitUpdate(c) \/ DeleteCandidate(c)
      PROVE  StateOK'
  <2>1. CASE CreateCandidate(c)
    BY <2>1, CommitKeepsState DEF CreateCandidate, StateOK, RowsOK, Kinds
  <2>2. CASE CommitUpdate(c)
    <3>1. row[c].deleted \in BOOLEAN
      BY DEF TypeOK, Snapshot
    <3> QED
      BY <2>2, <3>1, CommitKeepsState DEF CommitUpdate, Kinds
  <2>3. CASE DeleteCandidate(c)
    BY <2>3, CommitKeepsState DEF DeleteCandidate, Kinds
  <2> QED
    BY <1>1, <2>1, <2>2, <2>3
<1>2. ASSUME NEW c \in Candidates, LoadForUpdate(c)
      PROVE  StateOK'
  <2>1. /\ loaded' = loaded \cup {c} /\ ~Absent(c)
        /\ UNCHANGED <<row, doc, calls, tasks, job, held, batch, lost, backfills, faults>>
    BY <1>2 DEF LoadForUpdate, workerVars, bounds, Live, Absent, TypeOK, Snapshot
  <2> QED
    BY <2>1 DEF StateOK, TypeOK, HeldOK, RowsOK, DocsBehind, BatchesBehind, Behind, MessagesOK,
       Says, Absent
<1>3. ASSUME NEW c \in Candidates, PipelineCreates(c) \/ ScriptDeletes(c)
      PROVE  StateOK'
  BY <1>3, UnsyncedKeepsState
<1>4. ASSUME NEW m \in Message, Publish(m) \/ PublishFails(m)
      PROVE  StateOK'
  <2>1. /\ calls' \in [Message -> Nat]
        /\ \A n \in Message : calls'[n] > 0 => calls[n] > 0
        /\ calls[m] > 0
    BY <1>4, BagTake DEF Publish, PublishFails, TypeOK
  <2>2. /\ tasks' \in [Message -> Nat]
        /\ \A n \in Message : tasks'[n] > 0 => tasks[n] > 0 \/ n = m
    BY <1>4, BagAdd DEF Publish, PublishFails, TypeOK
  <2>3. /\ UNCHANGED <<row, loaded, doc, job, held, batch, backfills>>
        /\ lost' \subseteq Candidates \X Causes /\ faults' \in 0..MaxFaults
    BY <1>4, Bounds DEF Publish, PublishFails, Fault, workerVars, bounds, TypeOK, Causes, Message
  <2>4. TypeOK'
    BY <2>1, <2>2, <2>3 DEF TypeOK
  <2>5. MessagesOK'
    BY <2>1, <2>2, <2>3 DEF StateOK, MessagesOK, Says, Absent
  <2> QED
    BY <2>3, <2>4, <2>5 DEF StateOK, HeldOK, RowsOK, DocsBehind, BatchesBehind, Behind, Absent
<1>5. ASSUME NEW w \in Workers, NEW m \in Message, Deliver(w, m)
      PROVE  StateOK'
  <2>1. /\ tasks' \in [Message -> Nat]
        /\ \A n \in Message : tasks'[n] > 0 => tasks[n] > 0
        /\ tasks[m] > 0 /\ Says(m)
    BY <1>5, BagTake DEF Deliver, TypeOK, StateOK, MessagesOK
  <2>2. /\ job[w] = "idle" /\ held'[w] = m
        /\ job'[w] = IF m.kind = "index" THEN "load" ELSE "remove"
        /\ \A v \in Workers : v # w => job'[v] = job[v] /\ held'[v] = held[v]
        /\ job' \in [Workers -> {"idle", "load", "write", "remove", "backfill"}]
        /\ held' \in [Workers -> Message \cup {NoMessage}]
        /\ UNCHANGED <<row, loaded, doc, calls, batch, lost, backfills, faults>>
    BY <1>5 DEF Deliver, TypeOK, handlerVars, bounds
  <2>3. m # NoMessage /\ m.kind \in Kinds
    BY Apart DEF Message
  <2>4. \A c \in Candidates : batch[w][c] = NoDoc
    BY <2>2 DEF StateOK, HeldOK
  <2>5. HeldOK'
    BY <2>2, <2>3, <2>4 DEF StateOK, HeldOK
  <2>6. MessagesOK'
    <3>1. \A n \in Message : calls'[n] > 0 \/ tasks'[n] > 0 => Says(n)'
      BY <2>1, <2>2 DEF StateOK, MessagesOK, Says, Absent
    <3>2. \A v \in Workers : held'[v] # NoMessage => Says(held[v])'
      BY <2>1, <2>2 DEF StateOK, MessagesOK, Says, Absent
    <3>3. \A v \in Workers : job'[v] = "remove" => held'[v].kind = "remove"
      BY <2>2, <2>3 DEF StateOK, MessagesOK, Kinds
    <3> QED
      BY <2>2, <3>1, <3>2, <3>3 DEF StateOK, MessagesOK, Absent
  <2>7. TypeOK'
    BY <2>1, <2>2 DEF TypeOK
  <2> QED
    BY <2>2, <2>5, <2>6, <2>7 DEF StateOK, RowsOK, DocsBehind, BatchesBehind, Behind, Absent
<1>6. ASSUME NEW w \in Workers, LoadRow(w)
      PROVE  StateOK'
  <2>1. /\ job[w] = "load" /\ held[w] \in Message /\ held[w] # NoMessage
        /\ \A c \in Candidates : batch[w][c] = NoDoc
        /\ held[w].cand \in Candidates /\ ~Absent(held[w].cand)
    BY <1>6 DEF LoadRow, StateOK, HeldOK, MessagesOK, Says, TypeOK, Message
  <2> DEFINE d == held[w].cand
  <2>2. /\ batch' = [batch EXCEPT ![w] = [batch[w] EXCEPT ![d] = row[d]]]
        /\ job' = [job EXCEPT ![w] = "write"]
        /\ UNCHANGED <<row, loaded, doc, calls, tasks, held, lost, backfills, faults>>
    BY <1>6 DEF LoadRow, handlerVars, bounds
  <2>3. /\ batch' \in [Workers -> [Candidates -> Snapshot \cup {NoDoc}]]
        /\ \A c \in Candidates : batch'[w][c] = IF c = d THEN row[d] ELSE NoDoc
        /\ \A v \in Workers : v # w => batch'[v] = batch[v] /\ job'[v] = job[v]
        /\ job'[w] = "write"
    BY <2>1, <2>2 DEF TypeOK
  <2>4. Behind(row[d], row[d])
    BY <2>1 DEF Behind, TypeOK, Snapshot, Absent
  <2>5. HeldOK'
    BY <2>1, <2>2, <2>3 DEF StateOK, HeldOK
  <2>6. BatchesBehind'
    <3>1. ASSUME NEW c \in Candidates, batch'[w][c] # NoDoc
          PROVE  Behind(batch[w][c], row[c])'
      BY <2>2, <2>3, <2>4, <3>1 DEF Behind
    <3>2. ASSUME NEW v \in Workers, v # w, NEW c \in Candidates, batch'[v][c] # NoDoc
          PROVE  Behind(batch[v][c], row[c])'
      BY <2>2, <2>3, <3>2 DEF StateOK, BatchesBehind, Behind
    <3> QED
      BY <3>1, <3>2 DEF BatchesBehind
  <2>7. TypeOK'
    BY <2>2, <2>3 DEF TypeOK
  <2> QED
    BY <2>2, <2>3, <2>5, <2>6, <2>7 DEF StateOK, RowsOK, DocsBehind, Behind, MessagesOK, Says,
       Absent
<1>7. ASSUME NEW w \in Workers, StartBackfill(w)
      PROVE  StateOK'
  <2> DEFINE rows == [c \in Candidates |-> IF Live(c) THEN row[c] ELSE NoDoc]
  <2>1. /\ job[w] = "idle" /\ backfills' \in 0..MaxBackfills
        /\ batch' = [batch EXCEPT ![w] = rows]
        /\ job' = [job EXCEPT ![w] = "backfill"]
        /\ UNCHANGED <<row, loaded, doc, calls, tasks, held, lost, faults>>
    BY <1>7, Bounds DEF StartBackfill, handlerVars, TypeOK
  <2>2. /\ rows \in [Candidates -> Snapshot \cup {NoDoc}]
        /\ \A c \in Candidates : rows[c] # NoDoc => Behind(rows[c], row[c])
    BY DEF TypeOK, Live, Behind, Snapshot
  <2> HIDE DEF rows
  <2>3. /\ batch' \in [Workers -> [Candidates -> Snapshot \cup {NoDoc}]]
        /\ batch'[w] = rows /\ job'[w] = "backfill"
        /\ \A v \in Workers : v # w => batch'[v] = batch[v] /\ job'[v] = job[v]
    BY <2>1, <2>2 DEF TypeOK
  <2>4. HeldOK'
    BY <2>1, <2>3 DEF StateOK, HeldOK
  <2>5. BatchesBehind'
    BY <2>1, <2>2, <2>3 DEF StateOK, BatchesBehind, Behind
  <2>6. TypeOK'
    BY <2>1, <2>3 DEF TypeOK
  <2> QED
    BY <2>1, <2>3, <2>4, <2>5, <2>6 DEF StateOK, RowsOK, DocsBehind, Behind, MessagesOK, Says,
       Absent
<1>8. ASSUME NEW w \in Workers, NEW c \in Candidates, WriteDoc(w, c) \/ WriteRefused(w, c)
      PROVE  StateOK'
  <2>1. /\ Shrunk(w) /\ batch[w][c] # NoDoc
        /\ UNCHANGED <<row, loaded, calls, tasks, backfills>>
    BY <1>8, AdvanceShrinks DEF WriteDoc, WriteRefused, handlerVars, bounds
  <2>2. /\ lost' \subseteq Candidates \X Causes /\ faults' \in 0..MaxFaults
    BY <1>8, Bounds DEF WriteDoc, WriteRefused, Fault, bounds, TypeOK, Causes
  <2>3. doc' = doc \/ doc' = [doc EXCEPT ![c] = batch[w][c]]
    BY <1>8 DEF WriteDoc, WriteRefused
  <2>4. batch[w][c] \in Snapshot /\ Behind(batch[w][c], row[c])
    BY <2>1 DEF StateOK, TypeOK, BatchesBehind
  <2>5. doc' \in [Candidates -> Snapshot \cup {NoDoc}]
    BY <2>3, <2>4 DEF TypeOK
  <2>6. DocsBehind'
    BY <2>1, <2>3, <2>4 DEF StateOK, TypeOK, DocsBehind, Behind
  <2> QED
    BY <2>1, <2>2, <2>5, <2>6, ShrunkKeepsState DEF TypeOK
<1>9. ASSUME NEW w \in Workers, RemoveDoc(w) \/ RemoveRefused(w)
      PROVE  StateOK'
  <2>1. /\ Shrunk(w) /\ job[w] = "remove"
        /\ UNCHANGED <<row, loaded, calls, tasks, backfills>>
    BY <1>9, ReleaseShrinks DEF RemoveDoc, RemoveRefused, handlerVars, bounds
  <2>2. held[w].cand \in Candidates /\ row[held[w].cand].deleted
    BY <2>1 DEF StateOK, HeldOK, MessagesOK, Says, TypeOK, Message
  <2>3. /\ lost' \subseteq Candidates \X Causes /\ faults' \in 0..MaxFaults
    BY <1>9, <2>2, Bounds DEF RemoveDoc, RemoveRefused, Fault, bounds, TypeOK, Causes
  <2> DEFINE c == held[w].cand
             flagged == [doc[c] EXCEPT !.deleted = TRUE]
  <2>4. doc' = doc \/ (doc[c] # NoDoc /\ doc' = [doc EXCEPT ![c] = flagged])
    BY <1>9 DEF RemoveDoc, RemoveRefused
  <2>5. doc[c] # NoDoc => /\ doc[c] \in Snapshot /\ flagged \in Snapshot
                          /\ flagged.version = doc[c].version /\ flagged.deleted
    BY <2>2, FlaggedTyped DEF TypeOK
  <2>6. doc[c] # NoDoc => Behind(flagged, row[c])
    <3>1. SUFFICES ASSUME doc[c] # NoDoc PROVE Behind(flagged, row[c])
      OBVIOUS
    <3>2. Behind(doc[c], row[c])
      BY <2>2, <3>1 DEF StateOK, DocsBehind
    <3>3. row[c].deleted => [row[c] EXCEPT !.deleted = TRUE] = row[c]
      BY <2>2 DEF TypeOK, Snapshot
    <3>4. doc[c].version = row[c].version => flagged = row[c]
      BY <2>2, <3>2, <3>3 DEF Behind
    <3> HIDE DEF flagged
    <3> QED
      BY <2>2, <2>5, <3>1, <3>2, <3>4 DEF Behind
  <2> HIDE DEF flagged
  <2>7. doc' \in [Candidates -> Snapshot \cup {NoDoc}]
    BY <2>2, <2>4, <2>5 DEF TypeOK
  <2>8. DocsBehind'
    BY <2>1, <2>2, <2>4, <2>6 DEF StateOK, TypeOK, DocsBehind, Behind
  <2> QED
    BY <2>1, <2>3, <2>7, <2>8, ShrunkKeepsState DEF TypeOK
<1>10. ASSUME NEW w \in Workers, RetryTask(w) \/ GiveUp(w) \/ ChildLost(w) \/ WorkerCrash(w)
       PROVE  StateOK'
  <2>1. /\ Shrunk(w) /\ faults' \in 0..MaxFaults
        /\ UNCHANGED <<row, loaded, calls, doc, backfills>>
    BY <1>10, ReleaseShrinks, Bounds
    DEF RetryTask, GiveUp, ChildLost, WorkerCrash, Fault, handlerVars, TypeOK
  <2>2. held[w] # NoMessage => /\ held[w] \in Message /\ Says(held[w])
                               /\ held[w].cand \in Candidates
    BY DEF StateOK, MessagesOK, TypeOK, Message
  <2>3. lost' \subseteq Candidates \X Causes
    BY <1>10, <2>2 DEF RetryTask, GiveUp, ChildLost, WorkerCrash, StateOK, HeldOK, TypeOK, Causes
  <2>4. /\ tasks' \in [Message -> Nat]
        /\ \A m \in Message : tasks'[m] > 0 => tasks[m] > 0 \/ Says(m)
    <3>1. CASE RetryTask(w)
      <4> DEFINE again == [held[w] EXCEPT !.retries = @ + 1]
      <4>1. held[w] # NoMessage /\ held[w].retries < MaxRetries
        BY <3>1 DEF RetryTask, StateOK, HeldOK
      <4>2. again \in Message /\ Says(again)
        BY <2>2, <4>1, RetriedTyped DEF Says
      <4>3. tasks' = [tasks EXCEPT ![again] = @ + 1]
        BY <3>1 DEF RetryTask
      <4> HIDE DEF again
      <4> QED
        BY <4>2, <4>3, BagAdd DEF TypeOK
    <3>2. CASE WorkerCrash(w) /\ held[w] # NoMessage
      BY <2>2, <3>2, BagAdd DEF WorkerCrash, TypeOK
    <3>3. CASE tasks' = tasks
      BY <3>3 DEF TypeOK
    <3> QED
      BY <1>10, <3>1, <3>2, <3>3 DEF GiveUp, ChildLost, WorkerCrash
  <2>5. DocsBehind'
    BY <2>1 DEF StateOK, DocsBehind, Behind
  <2> QED
    BY <2>1, <2>3, <2>4, <2>5, ShrunkKeepsState DEF TypeOK
<1>11. CASE UNCHANGED vars
  BY <1>11 DEF vars, workerVars, bounds, StateOK, TypeOK, HeldOK, RowsOK, DocsBehind,
     BatchesBehind, Behind, MessagesOK, Says, Absent
<1> QED
  BY <1>1, <1>2, <1>3, <1>4, <1>5, <1>6, <1>7, <1>8, <1>9, <1>10, <1>11
  DEF Next, Handlers, WorkerStep, WorkerFault
-----------------------------------------------------------------------------
(* A disagreement between the index and a row never goes unaccounted for.  *)

Accounted(c) == Reflected(c) \/ Pending(c) \/ LostTrack(c)

(* What a step does not touch stays accounted for. *)
LEMMA Untouched ==
  ASSUME NEW c \in Candidates, Accounted(c),
         row'[c] = row[c], doc'[c] = doc[c],
         Queued(c) => Queued(c)' \/ AtWork(c)', AtWork(c) => AtWork(c)' \/ Queued(c)',
         \A k \in Causes : <<c, k>> \in lost => <<c, k>> \in lost'
  PROVE  Accounted(c)'
  BY DEF Accounted, Reflected, Absent, Live, Pending, LostTrack

(* A step of worker w keeps the other workers on their candidates. *)
LEMMA AtWorkElsewhere ==
  ASSUME NEW c \in Candidates, NEW w \in Workers, AtWork(c), row'[c] = row[c],
         \A v \in Workers : v # w =>
           job'[v] = job[v] /\ held'[v] = held[v] /\ batch'[v] = batch[v],
         held[w] = NoMessage \/ held[w].cand # c
  PROVE  AtWork(c)'
<1>1. PICK v \in Workers :
        /\ held[v] # NoMessage /\ held[v].cand = c
        /\ \/ job[v] \in {"load", "remove"}
           \/ job[v] = "write" /\ batch[v][c] = row[c]
  BY DEF AtWork
<1>2. v # w
  BY <1>1
<1>3. /\ held'[v] # NoMessage /\ held'[v].cand = c
      /\ \/ job'[v] \in {"load", "remove"}
         \/ job'[v] = "write" /\ batch'[v][c] = row'[c]
  BY <1>1, <1>2
<1> QED
  BY <1>3 DEF AtWork

LEMMA QueuedIn ==
  ASSUME NEW m \in Message, tasks'[m] > 0 \/ calls'[m] > 0
  PROVE  Queued(m.cand)'
  BY DEF Queued

(* A write is harmless, or repairs the document, or is recorded. *)
LEMMA WriteAccounted ==
  ASSUME StateOK, NEW w \in Workers, NEW c \in Candidates, WriteDoc(w, c), Accounted(c)
  PROVE  Accounted(c)'
<1> DEFINE s == batch[w][c]
<1>1. /\ s \in Snapshot /\ Behind(s, row[c]) /\ row[c] \in Snapshot
      /\ doc[c] # NoDoc => doc[c] \in Snapshot /\ Behind(doc[c], row[c])
  BY DEF WriteDoc, StateOK, TypeOK, BatchesBehind, DocsBehind
<1>2. /\ doc'[c] = s /\ UNCHANGED <<row, calls, tasks>> /\ lost \subseteq lost'
      /\ Overtakes(doc[c], s) => <<c, "overtaken">> \in lost'
  BY DEF WriteDoc, handlerVars, StateOK, TypeOK
<1>3. /\ Shrunk(w) /\ s # NoDoc
      /\ job[w] \in {"write", "backfill"}
  BY AdvanceShrinks DEF WriteDoc
<1>4. s.version \in Nat /\ row[c].version \in Nat
  BY <1>1 DEF Snapshot
<1>5. CASE s.deleted
  BY <1>1, <1>2, <1>3, <1>5 DEF Behind, Accounted, Reflected
<1>6. CASE s = row[c] /\ ~s.deleted
  BY <1>1, <1>2, <1>6 DEF Behind, Accounted, Reflected, Live
<1>7. CASE s # row[c] /\ ~s.deleted
  <2>1. s.version < row[c].version
    BY <1>1, <1>4, <1>7 DEF Behind
  <2>2. CASE Reflected(c)
    <3>1. doc[c] # NoDoc /\ (doc[c] = row[c] \/ doc[c].deleted)
      BY <1>1, <1>4, <2>1, <2>2, Apart DEF Reflected, Absent, Live
    <3>2. Overtakes(doc[c], s)
      BY <1>7, <2>1, <3>1, <1>4 DEF Overtakes
    <3> QED
      BY <1>2, <3>2 DEF Accounted, LostTrack, Causes
  <2>3. CASE Queued(c)
    BY <1>2, <2>3 DEF Accounted, Pending, Queued
  <2>4. CASE LostTrack(c)
    BY <1>2, <2>4 DEF Accounted, LostTrack
  <2>5. CASE AtWork(c)
    <3>1. PICK v \in Workers :
            /\ held[v] # NoMessage /\ held[v].cand = c
            /\ \/ job[v] \in {"load", "remove"}
               \/ job[v] = "write" /\ batch[v][c] = row[c]
      BY <2>5 DEF AtWork
    <3>2. v # w
      BY <1>3, <1>7, <3>1
    <3>3. job'[v] = job[v] /\ held'[v] = held[v] /\ batch'[v] = batch[v]
      BY <1>3, <3>2 DEF Shrunk
    <3>4. AtWork(c)'
      BY <1>2, <3>1, <3>3 DEF AtWork
    <3> QED
      BY <3>4 DEF Accounted, Pending
  <2> QED
    BY <2>2, <2>3, <2>4, <2>5 DEF Accounted, Pending
<1> QED
  BY <1>5, <1>6, <1>7

LEMMA AccountedStep ==
  ASSUME StateOK, [Next]_vars, \A c \in Candidates : Accounted(c)
  PROVE  \A c \in Candidates : Accounted(c)'
<1> TypeOK
  BY DEF StateOK
<1>1. ASSUME NEW d \in Candidates, NEW del \in BOOLEAN, NEW k \in Kinds, Commit(d, del, k)
      PROVE  \A c \in Candidates : Accounted(c)'
  <2>1. /\ Call(k, d) \in Message /\ Call(k, d).cand = d
        /\ \A c \in Candidates : c # d => row'[c] = row[c]
        /\ calls'[Call(k, d)] > 0
        /\ \A m \in Message : m # Call(k, d) => calls'[m] = calls[m]
        /\ \A c \in Candidates : c # d =>
             \A x \in Causes : <<c, x>> \in lost => <<c, x>> \in lost'
        /\ UNCHANGED <<doc, tasks, job, held, batch>>
    <3>1. Call(k, d) \in Message /\ Call(k, d).cand = d
      BY CallTyped
    <3>2. /\ row'[d] = [version |-> row[d].version + 1, deleted |-> del]
          /\ \A c \in Candidates : c # d => row'[c] = row[c]
          /\ calls'[Call(k, d)] > 0
          /\ \A m \in Message : m # Call(k, d) => calls'[m] = calls[m]
      BY <1>1, CommitChanges
    <3>3. \A c \in Candidates : c # d =>
            \A x \in Causes : <<c, x>> \in lost => <<c, x>> \in lost'
      BY <1>1, CommitChanges
    <3>4. UNCHANGED <<doc, tasks, job, held, batch>>
      BY <1>1, CommitChanges
    <3> QED
      BY <3>1, <3>2, <3>3, <3>4
  <2>2. Accounted(d)'
    BY <2>1, QueuedIn DEF Accounted, Pending
  <2>3. ASSUME NEW c \in Candidates, c # d
        PROVE  Accounted(c)'
    <3>1. Queued(c) => Queued(c)'
      BY <2>1, <2>3 DEF Queued
    <3>2. AtWork(c) => AtWork(c)'
      BY <2>1, <2>3 DEF AtWork
    <3> QED
      BY <2>1, <2>3, <3>1, <3>2, Untouched
  <2> QED
    BY <2>2, <2>3
<1>2. ASSUME NEW d \in Candidates, CreateCandidate(d) \/ CommitUpdate(d) \/ DeleteCandidate(d)
      PROVE  \A c \in Candidates : Accounted(c)'
  <2>1. row[d].deleted \in BOOLEAN
    BY DEF TypeOK, Snapshot
  <2> QED
    BY <1>1, <1>2, <2>1 DEF CreateCandidate, CommitUpdate, DeleteCandidate, Kinds
<1>3. ASSUME NEW d \in Candidates, PipelineCreates(d) \/ ScriptDeletes(d)
      PROVE  \A c \in Candidates : Accounted(c)'
  <2>1. /\ \A c \in Candidates : c # d => row'[c] = row[c]
        /\ <<d, "pipeline">> \in lost' \/ <<d, "script">> \in lost'
        /\ lost \subseteq lost'
        /\ UNCHANGED <<doc, calls, tasks, job, held, batch>>
    BY <1>3 DEF PipelineCreates, ScriptDeletes, TypeOK, workerVars
  <2>2. LostTrack(d)'
    BY <2>1 DEF LostTrack, Causes
  <2>3. ASSUME NEW c \in Candidates, c # d
        PROVE  Accounted(c)'
    <3>1. (Queued(c) => Queued(c)') /\ (AtWork(c) => AtWork(c)')
      BY <2>1, <2>3 DEF Queued, AtWork
    <3> QED
      BY <2>1, <2>3, <3>1, Untouched
  <2> QED
    BY <2>2, <2>3 DEF Accounted
<1>4. ASSUME NEW m \in Message, Publish(m) \/ PublishFails(m)
      PROVE  \A c \in Candidates : Accounted(c)'
  <2>1. /\ \A n \in Message : n # m => calls'[n] = calls[n]
        /\ UNCHANGED <<row, doc, job, held, batch>> /\ lost \subseteq lost'
    BY <1>4, BagTake DEF Publish, PublishFails, TypeOK, workerVars
  <2>2. \/ tasks'[m] > 0 /\ \A n \in Message : n # m => tasks'[n] = tasks[n]
        \/ <<m.cand, "notPublished">> \in lost' /\ tasks' = tasks
    BY <1>4, BagAdd DEF Publish, PublishFails, TypeOK
  <2>3. ASSUME NEW c \in Candidates
        PROVE  Accounted(c)'
    <3>1. AtWork(c) => AtWork(c)'
      BY <2>1 DEF AtWork
    <3>2. CASE m.cand = c
      <4>1. Queued(c)' \/ LostTrack(c)'
        BY <2>2, <3>2, QueuedIn DEF LostTrack, Causes
      <4> QED
        BY <4>1 DEF Accounted, Pending
    <3>3. CASE m.cand # c
      <4>1. Queued(c) => Queued(c)'
        BY <2>1, <2>2, <3>3 DEF Queued
      <4> QED
        BY <2>1, <3>1, <4>1, Untouched
    <3> QED
      BY <3>2, <3>3
  <2> QED
    BY <2>3
<1>5. ASSUME NEW w \in Workers, NEW m \in Message, Deliver(w, m)
      PROVE  \A c \in Candidates : Accounted(c)'
  <2>1. /\ UNCHANGED <<row, doc, calls, lost, batch>>
        /\ \A n \in Message : n # m => tasks'[n] = tasks[n]
        /\ held'[w] = m /\ job'[w] \in {"load", "remove"} /\ held[w] = NoMessage
        /\ \A v \in Workers : v # w => job'[v] = job[v] /\ held'[v] = held[v]
    BY <1>5, BagTake DEF Deliver, TypeOK, handlerVars, StateOK, HeldOK
  <2>2. m # NoMessage
    BY Apart
  <2>3. ASSUME NEW c \in Candidates
        PROVE  Accounted(c)'
    <3>1. AtWork(c) => AtWork(c)'
      BY <2>1, AtWorkElsewhere
    <3>2. Queued(c) => Queued(c)' \/ AtWork(c)'
      <4>1. CASE m.cand = c
        BY <2>1, <2>2, <4>1 DEF AtWork
      <4>2. CASE m.cand # c
        BY <2>1, <4>2 DEF Queued
      <4> QED
        BY <4>1, <4>2
    <3> QED
      BY <2>1, <3>1, <3>2, Untouched
  <2> QED
    BY <2>3
<1>6. ASSUME NEW w \in Workers, LoadRow(w) \/ StartBackfill(w)
      PROVE  \A c \in Candidates : Accounted(c)'
  <2>1. /\ UNCHANGED <<row, doc, calls, tasks, lost, held>>
        /\ \A v \in Workers : v # w => job'[v] = job[v] /\ batch'[v] = batch[v]
    BY <1>6 DEF LoadRow, StartBackfill, TypeOK, handlerVars
  <2>2. \/ held[w] = NoMessage
        \/ /\ held[w] # NoMessage /\ held[w].cand \in Candidates
           /\ job'[w] = "write" /\ batch'[w][held[w].cand] = row[held[w].cand]
    BY <1>6 DEF LoadRow, StartBackfill, TypeOK, StateOK, HeldOK, Message
  <2>3. ASSUME NEW c \in Candidates
        PROVE  Accounted(c)'
    <3>1. AtWork(c) => AtWork(c)'
      <4>1. CASE held[w] # NoMessage /\ held[w].cand = c
        BY <2>1, <2>2, <4>1 DEF AtWork
      <4>2. CASE held[w] = NoMessage \/ held[w].cand # c
        BY <2>1, <4>2, AtWorkElsewhere
      <4> QED
        BY <4>1, <4>2
    <3>2. Queued(c) => Queued(c)'
      BY <2>1 DEF Queued
    <3> QED
      BY <2>1, <3>1, <3>2, Untouched
  <2> QED
    BY <2>3
<1>7. ASSUME NEW w \in Workers, NEW d \in Candidates, WriteDoc(w, d) \/ WriteRefused(w, d)
      PROVE  \A c \in Candidates : Accounted(c)'
  <2>1. /\ Shrunk(w) /\ batch[w][d] # NoDoc /\ job[w] \in {"write", "backfill"}
        /\ UNCHANGED <<row, calls, tasks>> /\ lost \subseteq lost'
        /\ \A c \in Candidates : c # d => doc'[c] = doc[c]
    BY <1>7, AdvanceShrinks DEF WriteDoc, WriteRefused, handlerVars, TypeOK
  <2>2. held[w] = NoMessage \/ held[w].cand = d
    BY <2>1 DEF StateOK, HeldOK
  <2>3. Accounted(d)'
    <3>1. CASE WriteDoc(w, d)
      BY <3>1, WriteAccounted
    <3>2. CASE WriteRefused(w, d)
      BY <3>2 DEF WriteRefused, Accounted, LostTrack, Causes
    <3> QED
      BY <1>7, <3>1, <3>2
  <2>4. ASSUME NEW c \in Candidates, c # d
        PROVE  Accounted(c)'
    <3>1. AtWork(c) => AtWork(c)'
      BY <2>1, <2>2, <2>4, AtWorkElsewhere DEF Shrunk
    <3>2. Queued(c) => Queued(c)'
      BY <2>1 DEF Queued
    <3> QED
      BY <2>1, <2>4, <3>1, <3>2, Untouched
  <2> QED
    BY <2>3, <2>4
<1>8. ASSUME NEW w \in Workers,
             RemoveDoc(w) \/ RemoveRefused(w) \/ RetryTask(w) \/ GiveUp(w) \/ ChildLost(w)
             \/ WorkerCrash(w)
      PROVE  \A c \in Candidates : Accounted(c)'
  <2>1. /\ Shrunk(w) /\ UNCHANGED <<row, calls>> /\ lost \subseteq lost'
        /\ \A c \in Candidates : held[w] = NoMessage \/ c # held[w].cand => doc'[c] = doc[c]
    BY <1>8, ReleaseShrinks
    DEF RemoveDoc, RemoveRefused, RetryTask, GiveUp, ChildLost, WorkerCrash, handlerVars, TypeOK,
        StateOK, HeldOK
  <2>2. \A m \in Message : tasks[m] > 0 => tasks'[m] > 0
    <3>1. CASE RetryTask(w)
      <4> DEFINE again == [held[w] EXCEPT !.retries = @ + 1]
      <4>1. again \in Message
        BY <3>1, RetriedTyped DEF RetryTask, StateOK, HeldOK, TypeOK
      <4>2. tasks' = [tasks EXCEPT ![again] = @ + 1]
        BY <3>1 DEF RetryTask
      <4> HIDE DEF again
      <4> QED
        BY <4>1, <4>2, BagAdd DEF TypeOK
    <3>2. CASE WorkerCrash(w) /\ held[w] # NoMessage
      BY <3>2, BagAdd DEF WorkerCrash, TypeOK
    <3>3. CASE tasks' = tasks
      BY <3>3
    <3> QED
      BY <1>8, <3>1, <3>2, <3>3 DEF RemoveDoc, RemoveRefused, GiveUp, ChildLost, WorkerCrash
  <2>3. ASSUME NEW c \in Candidates, held[w] = NoMessage \/ c # held[w].cand
        PROVE  Accounted(c)'
    <3>1. AtWork(c) => AtWork(c)'
      BY <2>1, <2>3, AtWorkElsewhere DEF Shrunk
    <3>2. Queued(c) => Queued(c)'
      BY <2>1, <2>2 DEF Queued
    <3> QED
      BY <2>1, <2>3, <3>1, <3>2, Untouched
  <2>4. ASSUME held[w] # NoMessage, NEW c \in Candidates, c = held[w].cand
        PROVE  Accounted(c)'
    <3>1. held[w] \in Message
      BY <2>4 DEF TypeOK
    <3>2. CASE RemoveDoc(w) /\ doc[c] # NoDoc
      <4>1. doc' = [doc EXCEPT ![c].deleted = TRUE] /\ row[c].deleted
        BY <2>4, <3>1, <3>2 DEF RemoveDoc, StateOK, HeldOK, MessagesOK, Says
      <4>2. doc'[c] = [doc[c] EXCEPT !.deleted = TRUE] /\ doc[c] \in Snapshot
        BY <3>2, <4>1 DEF TypeOK
      <4>3. doc'[c] # NoDoc /\ doc'[c].deleted
        BY <4>2, FlaggedTyped, Apart
      <4> QED
        BY <2>1, <4>1, <4>3 DEF Accounted, Reflected
    <3>3. CASE \E k \in Causes : <<c, k>> \in lost'
      BY <3>3 DEF Accounted, LostTrack
    <3>4. CASE RetryTask(w)
      <4> DEFINE again == [held[w] EXCEPT !.retries = @ + 1]
      <4>1. again \in Message /\ again.cand = c
        BY <2>4, <3>1, <3>4, RetriedTyped DEF RetryTask
      <4>2. tasks' = [tasks EXCEPT ![again] = @ + 1]
        BY <3>4 DEF RetryTask
      <4> HIDE DEF again
      <4>3. tasks'[again] > 0
        BY <4>1, <4>2, BagAdd DEF TypeOK
      <4> QED
        BY <4>1, <4>3 DEF Accounted, Pending, Queued
    <3>5. CASE WorkerCrash(w)
      <4>1. tasks'[held[w]] > 0
        BY <2>4, <3>1, <3>5, BagAdd DEF WorkerCrash, TypeOK
      <4> QED
        BY <2>4, <3>1, <4>1 DEF Accounted, Pending, Queued
    <3> QED
      BY <1>8, <2>4, <3>2, <3>3, <3>4, <3>5 DEF RemoveDoc, RemoveRefused, GiveUp, ChildLost, Causes
  <2> QED
    BY <2>3, <2>4
<1>9. ASSUME UNCHANGED vars \/ \E d \in Candidates : LoadForUpdate(d)
      PROVE  \A c \in Candidates : Accounted(c)'
  <2>1. UNCHANGED <<row, doc, calls, tasks, job, held, batch, lost>>
    BY <1>9 DEF vars, workerVars, LoadForUpdate
  <2>2. ASSUME NEW c \in Candidates PROVE Accounted(c)'
    <3>1. (Queued(c) => Queued(c)') /\ (AtWork(c) => AtWork(c)')
      BY <2>1 DEF Queued, AtWork
    <3> QED
      BY <2>1, <3>1, Untouched
  <2> QED
    BY <2>2
<1> QED
  BY <1>2, <1>3, <1>4, <1>5, <1>6, <1>7, <1>8, <1>9 DEF Next, Handlers, WorkerStep, WorkerFault

(* Candidates and workers without end, and any number of faults: the       *)
(* losses named in Causes are all that can leave the index wrong.          *)
THEOREM DriftAccounted == Spec => []DriftIsAccountedFor
<1> DEFINE IInv == StateOK /\ \A c \in Candidates : Accounted(c)
<1>1. Init => IInv
  BY StateInit DEF Init, Accounted, Reflected, Absent
<1>2. IInv /\ [Next]_vars => IInv'
  BY StateStep, AccountedStep
<1>3. IInv => DriftIsAccountedFor
  BY DEF DriftIsAccountedFor, Accounted
<1> QED
  BY <1>1, <1>2, <1>3, PTL DEF Spec

(* Search hides no candidate that exists. *)
THEOREM OnlyDeletedFlagged == Spec => []OnlyDeletedAreFlagged
<1>1. StateOK => OnlyDeletedAreFlagged
  BY DEF StateOK, DocsBehind, Behind, OnlyDeletedAreFlagged
<1> QED
  BY <1>1, StateInit, StateStep, PTL DEF Spec

(* The unfiltered list is blank only when there is nobody to list. *)
THEOREM NeverBlank == Spec => []ListIsNeverBlank
<1>1. StateOK => ListIsNeverBlank
  <2> SUFFICES ASSUME StateOK, NEW c \in Candidates, Live(c), NEW up \in BOOLEAN
               PROVE  Listed(up) # {}
    BY DEF ListIsNeverBlank
  <2>1. \A d \in Hits : ~Absent(d)
    BY DEF Hits, StateOK, DocsBehind, Behind, TypeOK, Snapshot, Absent
  <2> QED
    BY <2>1 DEF Listed, Hits
<1> QED
  BY <1>1, StateInit, StateStep, PTL DEF Spec

(* Types. *)
THEOREM SearchTypes == Spec => []TypeOK
<1>1. StateOK => TypeOK
  BY DEF StateOK
<1> QED
  BY <1>1, StateInit, StateStep, PTL DEF Spec
=============================================================================
