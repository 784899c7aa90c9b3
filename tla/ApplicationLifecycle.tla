------------------------ MODULE ApplicationLifecycle ------------------------
(***************************************************************************)
(* What the apply pipeline promises of an application when no delivery of  *)
(* its task is lost or repeated: a submitted application is resolved at    *)
(* most once, either attached to a candidate that has no other application *)
(* for the job, or refused; from then on only recruiters move it.  The one *)
(* alternative is that the retries of its task are used up: then it stays  *)
(* in "parsing".  ApplyPipeline implements this specification.             *)
(***************************************************************************)
CONSTANTS Apps, Jobs, Candidates, Stages, NoCandidate

VARIABLES
  status,     \* what the recruiters see
  job,        \* the job applied to
  candidate,  \* who applied, once known
  stranded    \* applications whose task has no retry left

vars == <<status, job, candidate, stranded>>

Init ==
  /\ status = [a \in Apps |-> "none"]
  /\ candidate = [a \in Apps |-> NoCandidate]
  /\ job \in [Apps -> Jobs]
  /\ stranded = {}

\* Several applications for one job, submitted together.
Submit(new, j) ==
  /\ \A a \in new : status[a] = "none"
  /\ status' = [a \in Apps |-> IF a \in new THEN "parsing" ELSE status[a]]
  /\ job' = [a \in Apps |-> IF a \in new THEN j ELSE job[a]]
  /\ UNCHANGED <<candidate, stranded>>

Attach(a, c) ==
  /\ status[a] = "parsing" /\ a \notin stranded
  /\ \A b \in Apps \ {a} : job[b] = job[a] => candidate[b] # c
  /\ status' = [status EXCEPT ![a] = "applied"]
  /\ candidate' = [candidate EXCEPT ![a] = c]
  /\ UNCHANGED <<job, stranded>>

Refuse(a) ==
  /\ status[a] = "parsing" /\ a \notin stranded
  /\ status' = [status EXCEPT ![a] = "parse_failed"]
  /\ UNCHANGED <<job, candidate, stranded>>

Strand(a) ==
  /\ status[a] = "parsing" /\ a \notin stranded
  /\ stranded' = stranded \cup {a}
  /\ UNCHANGED <<status, job, candidate>>

Move(a, s) ==
  /\ status[a] \in Stages
  /\ status' = [status EXCEPT ![a] = s]
  /\ UNCHANGED <<job, candidate, stranded>>

Resolve(a) == Refuse(a) \/ Strand(a) \/ \E c \in Candidates : Attach(a, c)

Next ==
  \/ \E new \in SUBSET Apps, j \in Jobs : Submit(new, j)
  \/ \E a \in Apps : Resolve(a) \/ \E s \in Stages : Move(a, s)

Spec == Init /\ [][Next]_vars

\* Every submission is resolved or out of retries in the end.
FairSpec == Spec /\ \A a \in Apps : WF_vars(Resolve(a))
=============================================================================
