-------------------------- MODULE IngestLifecycle --------------------------
(***************************************************************************)
(* What a client of the repos API may rely on while it polls: the life of  *)
(* a repository row and of the job row beside it, with no request, task,   *)
(* clone or database failure in sight.                                     *)
(***************************************************************************)
CONSTANTS
  Requests,
  AmbiguousCommit  \* may a status that was reported as lost have been stored

VARIABLES repo, job
rows == <<repo, job>>

Unsettled == {"queued", "cloning", "processing"}

Init ==
  /\ repo = [r \in Requests |-> "absent"]
  /\ job  = [r \in Requests |-> "absent"]

\* Both rows appear together.
Accept(r) ==
  /\ repo[r] = "absent" /\ job[r] = "absent"
  /\ repo' = [repo EXCEPT ![r] = "queued"]
  /\ job'  = [job  EXCEPT ![r] = "pending"]

\* The rows move together; a job that was deleted stays deleted.
Move(r, status, outcome) ==
  /\ repo' = [repo EXCEPT ![r] = status]
  /\ job'  = [job  EXCEPT ![r] = IF @ = "absent" THEN @ ELSE outcome]

Start(r)   == repo[r] = "queued"     /\ Move(r, "cloning", "in_progress")
Process(r) == repo[r] = "cloning"    /\ Move(r, "processing", "in_progress")
Finish(r)  == repo[r] = "processing" /\ Move(r, "ready", "completed")

\* Failing is possible from every unsettled stage, and withdraws ready only
\* when ready was stored by a commit that was reported as failed.
Fail(r) ==
  /\ repo[r] \in Unsettled \cup (IF AmbiguousCommit THEN {"ready"} ELSE {})
  /\ Move(r, "failed", "failed")

Delete(r) ==
  /\ repo[r] # "absent"
  /\ job'  = [job  EXCEPT ![r] = "absent"]
  /\ repo' \in {repo, [repo EXCEPT ![r] = "absent"]}

Next ==
  \E r \in Requests :
    Accept(r) \/ Start(r) \/ Process(r) \/ Finish(r) \/ Fail(r) \/ Delete(r)

Spec == Init /\ [][Next]_rows
=============================================================================
