----------------------------- MODULE Ingestion -----------------------------
(***************************************************************************)
(* POST /api/v1/repos/ingest, the background task it schedules and the     *)
(* clone the task works on (api/routes/repos.py, ingestion/cloner.py).     *)
(*                                                                         *)
(* Every request makes one Repository row and one IngestionJob row, so a   *)
(* request names its rows, its background task, its RepoCloner and its     *)
(* clone directory.  An action is the code between two awaits of a request *)
(* or of a task, or one stage of the parse running in its worker thread.   *)
(***************************************************************************)
EXTENDS Naturals

CONSTANTS
  Requests,        \* ingest requests, each with the rows it creates
  Files,           \* relative names a clone's source files may have
  Unparseable,     \* those whose content makes the extractor or chunker raise
  CwdFiles,        \* those that resolve from the server's working directory
  MaxFaults,       \* bound: database statements or commits that raise
  MaxCrashes,      \* bound: process deaths (each followed by a restart)
  AmbiguousCommit, \* may a commit take effect and still raise
  RmtreeMayFail,   \* may shutil.rmtree raise
  RowsMayVanish    \* may an operator delete rows during an ingest

ASSUME IngestionAssumption ==
  /\ Unparseable \subseteq Files
  /\ CwdFiles \subseteq Files
  /\ MaxFaults \in Nat
  /\ MaxCrashes \in Nat
  /\ {AmbiguousCommit, RmtreeMayFail, RowsMayVanish} \subseteq BOOLEAN

VARIABLES
  owner,      \* the system account in the users table, as committed
  inserting,  \* requests whose uncommitted INSERT holds the unique index
  req,        \* progress of each request
  repo,       \* committed Repository.status, or "absent"
  job,        \* committed IngestionJob.status, or "absent"
  task,       \* progress of each background task
  manifest,   \* files the task's clone_and_discover returned
  skipped,    \* files the task's parse loop counted in stats.skipped
  clonePath,  \* is RepoCloner.last_clone_path set
  dirs,       \* clone directories on disk
  faults,     \* database failures so far
  crashes     \* process deaths so far

dbVars    == <<owner, inserting, repo, job>>
diskVars  == <<manifest, skipped, clonePath, dirs>>
countVars == <<faults, crashes>>
vars == <<dbVars, req, task, diskVars, countVars>>

-----------------------------------------------------------------------------
RepositoryStatus == {"queued", "cloning", "processing", "ready", "failed"}
JobStatus        == {"pending", "in_progress", "completed", "failed"}
Settled          == {"ready", "failed"}

JobStatusFor ==
  [queued |-> "pending", cloning |-> "in_progress", processing |-> "in_progress",
   ready |-> "completed", failed |-> "failed"]

\* The stages of a task: the _set_status calls of run_ingestion, and between
\* them the stages of _parse_repository in its worker thread.
InThread    == {"clone", "discover", "undo", "parse",
                "finally_return", "finally_raise"}
TaskRunning == InThread \cup
               {"set_cloning", "set_processing", "set_no_files", "set_ready", "handler"}
TaskOver    == {"done", "died", "lost"}
ReqRunning  == {"no_owner", "have_owner", "committed"}

Init ==
  /\ owner     = "absent"
  /\ inserting = {}
  /\ req       = [r \in Requests |-> "new"]
  /\ repo      = [r \in Requests |-> "absent"]
  /\ job       = [r \in Requests |-> "absent"]
  /\ task      = [r \in Requests |-> "none"]
  /\ manifest  = [r \in Requests |-> {}]
  /\ skipped   = [r \in Requests |-> {}]
  /\ clonePath = [r \in Requests |-> FALSE]
  /\ dirs      = {}
  /\ faults    = 0
  /\ crashes   = 0

-----------------------------------------------------------------------------
(* The request: ingest_repository.                                         *)

GoReq(r, to)  == req'  = [req EXCEPT ![r] = to]
GoTask(r, to) == task' = [task EXCEPT ![r] = to]
Fault         == faults < MaxFaults /\ faults' = faults + 1

\* Mutant: the account is looked up and never created.
SelectWithoutCreate(r) ==
  /\ req[r] = "new"
  /\ GoReq(r, IF owner = "present" THEN "have_owner" ELSE "error")
  /\ UNCHANGED <<dbVars, task, diskVars, countVars>>

\* The SELECT of _get_or_create_system_user.
SelectOwner(r) ==
  /\ req[r] = "new"
  /\ GoReq(r, IF owner = "present" THEN "have_owner" ELSE "no_owner")
  /\ UNCHANGED <<dbVars, task, diskVars, countVars>>

\* The flush of its INSERT: it waits for another transaction's uncommitted
\* insert of the same unique email, and raises if the row is there by now.
InsertOwner(r) ==
  /\ req[r] = "no_owner"
  /\ inserting = {}
  /\ \/ /\ owner = "absent"
        /\ inserting' = {r}
        /\ GoReq(r, "have_owner")
     \/ /\ owner = "present"
        /\ GoReq(r, "error")
        /\ UNCHANGED inserting
  /\ UNCHANGED <<owner, repo, job, task, diskVars, countVars>>

\* The one transaction that makes the account, the repository and the job.
AcceptedRows(r) ==
  /\ owner' = "present"
  /\ repo'  = [repo EXCEPT ![r] = "queued"]
  /\ job'   = [job  EXCEPT ![r] = "pending"]

CommitRows(r) ==
  /\ req[r] = "have_owner"
  /\ AcceptedRows(r)
  /\ inserting' = inserting \ {r}
  /\ GoReq(r, "committed")
  /\ UNCHANGED <<task, diskVars, countVars>>

\* Both refreshes succeed, add_task schedules run_ingestion, 202 is sent.
Respond(r) ==
  /\ req[r] = "committed"
  /\ repo[r] # "absent" /\ job[r] # "absent"
  /\ GoReq(r, "accepted")
  /\ GoTask(r, "set_cloning")
  /\ UNCHANGED <<dbVars, diskVars, countVars>>

\* A refresh finds its row gone: 500, and no task.
RefreshMissing(r) ==
  /\ req[r] = "committed"
  /\ repo[r] = "absent" \/ job[r] = "absent"
  /\ GoReq(r, "error")
  /\ UNCHANGED <<dbVars, task, diskVars, countVars>>

\* Mutant: the session of a failed request is not rolled back.
RequestFailsOpen(r) ==
  /\ req[r] \in {"new"} \cup ReqRunning
  /\ Fault
  /\ GoReq(r, "error")
  /\ UNCHANGED <<dbVars, task, diskVars, crashes>>

\* A statement of the request raises: the session rolls back, the client gets
\* a 500 and no task is scheduled, whatever was committed before.
RequestFails(r) ==
  /\ req[r] \in {"new"} \cup ReqRunning
  /\ Fault
  /\ GoReq(r, "error")
  /\ inserting' = inserting \ {r}
  /\ \/ UNCHANGED <<owner, repo, job>>
     \/ AmbiguousCommit /\ req[r] = "have_owner" /\ AcceptedRows(r)
  /\ UNCHANGED <<task, diskVars, crashes>>

-----------------------------------------------------------------------------
(* The background task: run_ingestion.                                     *)

\* Mutant: the job is updated in a transaction that never comes.
WritesRepoOnly(r, status) ==
  /\ repo' = [repo EXCEPT ![r] = IF @ = "absent" THEN @ ELSE status]
  /\ UNCHANGED job

\* What _set_status commits: both rows, or what is left of them.
Writes(r, status) ==
  /\ repo' = [repo EXCEPT ![r] = IF @ = "absent" THEN @ ELSE status]
  /\ job'  = [job  EXCEPT ![r] = IF @ = "absent" \/ repo[r] = "absent"
                                 THEN @ ELSE JobStatusFor[status]]

SetStatusCommits(r, status, next) ==
  /\ Writes(r, status)
  /\ GoTask(r, next)
  /\ UNCHANGED faults

\* _set_status raises: nothing was committed, or the commit did take effect
\* and only its acknowledgement was lost.
SetStatusRaises(r, status, handler) ==
  /\ Fault
  /\ GoTask(r, handler)
  /\ \/ UNCHANGED <<repo, job>>
     \/ AmbiguousCommit /\ repo[r] # "absent" /\ Writes(r, status)

SetStatus(r, status, next, handler) ==
  /\ SetStatusCommits(r, status, next) \/ SetStatusRaises(r, status, handler)
  /\ UNCHANGED <<owner, inserting, req, diskVars, crashes>>

\* Mutants: a stage is not recorded, or recorded without looking at the result.
CloningUnrecorded(r) ==
  /\ task[r] = "set_cloning" /\ GoTask(r, "clone")
  /\ UNCHANGED <<dbVars, req, diskVars, countVars>>

NoFilesReturns(r) ==
  /\ task[r] = "set_no_files" /\ GoTask(r, "done")
  /\ UNCHANGED <<dbVars, req, diskVars, countVars>>

HandlerOnlyLogs(r) ==
  /\ task[r] = "handler" /\ GoTask(r, "done")
  /\ UNCHANGED <<dbVars, req, diskVars, countVars>>

ProcessingUnchecked(r) ==
  task[r] = "set_processing" /\ SetStatus(r, "processing", "set_ready", "handler")

SetCloning(r) ==
  task[r] = "set_cloning" /\ SetStatus(r, "cloning", "clone", "handler")

SetProcessing(r) ==
  /\ task[r] = "set_processing"
  /\ SetStatus(r, "processing",
               IF manifest[r] = {} THEN "set_no_files" ELSE "set_ready",
               "handler")

SetNoFiles(r) ==
  task[r] = "set_no_files" /\ SetStatus(r, "failed", "done", "handler")

SetReady(r) ==
  task[r] = "set_ready" /\ SetStatus(r, "ready", "done", "handler")

\* The except clause: a _set_status that raises here ends the task.
HandleFailure(r) ==
  task[r] = "handler" /\ SetStatus(r, "failed", "done", "died")

-----------------------------------------------------------------------------
(* The worker thread: _parse_repository and its RepoCloner.                *)

\* git clone, successful or not; a failed clone may leave a partial tree.
CloneRuns(r) ==
  /\ task[r] = "clone"
  /\ clonePath' = [clonePath EXCEPT ![r] = TRUE]
  /\ \/ dirs' = dirs \cup {r} /\ GoTask(r, "discover")
     \/ dirs' \in {dirs, dirs \cup {r}} /\ GoTask(r, "undo")
  /\ UNCHANGED <<dbVars, req, manifest, skipped, countVars>>

\* The walk returns the manifest, or raises on the size limit.
DiscoverFiles(r) ==
  /\ task[r] = "discover"
  /\ \/ \E found \in SUBSET Files :
          manifest' = [manifest EXCEPT ![r] = found] /\ GoTask(r, "parse")
     \/ GoTask(r, "undo") /\ UNCHANGED manifest
  /\ UNCHANGED <<dbVars, req, skipped, clonePath, dirs, countVars>>

\* The loop over the manifest.  entry.path is relative to the clone but is
\* opened as it stands, so it is looked up in the working directory.
ParseFiles(r) ==
  /\ task[r] = "parse"
  /\ skipped' = [skipped EXCEPT ![r] =
                   {f \in manifest[r] : f \notin CwdFiles \/ f \in Unparseable}]
  /\ GoTask(r, "finally_return")
  /\ UNCHANGED <<dbVars, req, manifest, clonePath, dirs, countVars>>

\* RepoCloner.cleanup: it forgets the path even when rmtree raised.
Cleanup(r) ==
  IF clonePath[r] /\ r \in dirs
  THEN /\ dirs' \in {dirs \ {r}} \cup (IF RmtreeMayFail THEN {dirs} ELSE {})
       /\ clonePath' = [clonePath EXCEPT ![r] = FALSE]
  ELSE UNCHANGED <<dirs, clonePath>>

\* Mutant: cleanup in an except clause instead of a finally.
CleanUpOnError(r) ==
  /\ \/ task[r] = "undo"           /\ GoTask(r, "finally_raise")   /\ Cleanup(r)
     \/ task[r] = "finally_raise"  /\ GoTask(r, "handler")         /\ Cleanup(r)
     \/ task[r] = "finally_return" /\ GoTask(r, "set_processing") /\ UNCHANGED <<dirs, clonePath>>
  /\ UNCHANGED <<dbVars, req, manifest, skipped, countVars>>

\* clone_and_discover's except clause, then _parse_repository's finally.
CleanUpClone(r) ==
  /\ \/ task[r] = "undo"           /\ GoTask(r, "finally_raise")
     \/ task[r] = "finally_raise"  /\ GoTask(r, "handler")
     \/ task[r] = "finally_return" /\ GoTask(r, "set_processing")
  /\ Cleanup(r)
  /\ UNCHANGED <<dbVars, req, manifest, skipped, countVars>>

-----------------------------------------------------------------------------
(* The environment.                                                        *)

\* The process dies and restarts: rows and clone directories stay, requests,
\* tasks and open transactions are gone, and nothing picks them up again.
Crash ==
  /\ crashes < MaxCrashes
  /\ crashes' = crashes + 1
  /\ req'  = [r \in Requests |-> IF req[r] \in ReqRunning THEN "lost" ELSE req[r]]
  /\ task' = [r \in Requests |-> IF task[r] \in TaskRunning THEN "lost" ELSE task[r]]
  /\ inserting' = {}
  /\ clonePath' = [r \in Requests |-> FALSE]
  /\ UNCHANGED <<owner, repo, job, manifest, skipped, dirs, faults>>

\* Rows are deleted: a repository takes its job along (ON DELETE CASCADE).
RowVanishes(r) ==
  /\ RowsMayVanish
  /\ repo[r] # "absent"
  /\ job' = [job EXCEPT ![r] = "absent"]
  /\ repo' \in {repo, [repo EXCEPT ![r] = "absent"]}
  /\ UNCHANGED <<owner, inserting, req, task, diskVars, countVars>>

-----------------------------------------------------------------------------
RequestStep(r) ==
  \/ InsertOwner(r) \/ CommitRows(r) \/ Respond(r)
  \/ RefreshMissing(r) \/ RequestFails(r)

TaskStep(r) ==
  \/ SetCloning(r) \/ CloneRuns(r) \/ DiscoverFiles(r) \/ ParseFiles(r)
  \/ CleanUpClone(r) \/ SetProcessing(r) \/ SetNoFiles(r) \/ SetReady(r)
  \/ HandleFailure(r)

Next ==
  \/ \E r \in Requests :
       SelectOwner(r) \/ RequestStep(r) \/ TaskStep(r) \/ RowVanishes(r)
  \/ Crash

Spec == Init /\ [][Next]_vars

\* The event loop resumes every coroutine whose await completed, and the
\* thread pool runs every call: a request or task that can go on does.
Fairness == \A r \in Requests : WF_vars(RequestStep(r)) /\ WF_vars(TaskStep(r))
FairSpec == Spec /\ Fairness

-----------------------------------------------------------------------------
(* Properties.                                                             *)

\* Every variable holds a value the code can give it.
TypeOK ==
  /\ owner \in {"absent", "present"}
  /\ inserting \subseteq Requests
  /\ req  \in [Requests -> {"new", "accepted", "error", "lost"} \cup ReqRunning]
  /\ repo \in [Requests -> RepositoryStatus \cup {"absent"}]
  /\ job  \in [Requests -> JobStatus \cup {"absent"}]
  /\ task \in [Requests -> {"none"} \cup TaskRunning \cup TaskOver]
  /\ manifest  \in [Requests -> SUBSET Files]
  /\ skipped   \in [Requests -> SUBSET Files]
  /\ clonePath \in [Requests -> BOOLEAN]
  /\ dirs \subseteq Requests
  /\ faults \in Nat /\ crashes \in Nat

\* The job tells the same story as its repository, whatever failed, vanished
\* or crashed in between: _set_status moves both rows in one transaction.
RepoJobInStep ==
  \A r \in Requests :
    job[r] # "absent" =>
      /\ repo[r] # "absent"
      /\ repo[r] = "queued" <=> job[r] = "pending"
      /\ repo[r] = "ready"  <=> job[r] = "completed"
      /\ repo[r] = "failed" <=> job[r] = "failed"

\* A repository is ready only if the clone had source files to offer:
\* run_ingestion sends an empty manifest to failed.
ReadyHasFiles ==
  \A r \in Requests : repo[r] = "ready" => manifest[r] # {}

\* A row that is still on its way has a request or a task working on it,
\* unless the process died under it, the request failed after its commit, or
\* the handler of run_ingestion itself raised.  No return path of the task
\* leaves a row behind.
UnsettledHasWorker ==
  \A r \in Requests :
    repo[r] \in RepositoryStatus \ Settled =>
      \/ req[r] = "committed" \/ task[r] \in TaskRunning
      \/ task[r] \in {"lost", "died"} \/ req[r] \in {"lost", "error"}

\* A task leaves its clone on disk only if the process died under it or
\* rmtree raised: every other way out goes through cleanup.
CloneDirsOwned ==
  \A r \in dirs : task[r] \in InThread \cup {"lost"} \/ RmtreeMayFail

\* First ingests that race for the system account cannot all lose: once every
\* request is answered, and nothing but the race went wrong, one is accepted.
SomeoneIsAccepted ==
  (/\ faults = 0 /\ crashes = 0 /\ ~RowsMayVanish
   /\ \A r \in Requests : req[r] \notin {"new"} \cup ReqRunning)
    => \E r \in Requests : req[r] = "accepted"

\* A row's status tells how far its task got.  Only a commit that was stored
\* and still raised takes the handler of run_ingestion to a settled row.
StageMatches(r) ==
  /\ req[r] \in {"new", "no_owner", "have_owner"} => repo[r] = "absent"
  /\ task[r] # "none" <=> req[r] = "accepted"
  /\ task[r] \in {"none", "set_cloning"} => repo[r] \in {"queued", "absent"}
  /\ task[r] \in InThread \cup {"set_processing"} => repo[r] \in {"cloning", "absent"}
  /\ task[r] = "set_no_files" => repo[r] \in {"processing", "absent"}
  /\ task[r] = "set_ready" => repo[r] \in {"processing", "absent"} /\ manifest[r] # {}
  /\ task[r] = "handler" => AmbiguousCommit \/ repo[r] \notin Settled
  /\ task[r] = "done" => repo[r] \in Settled \cup {"absent"}

StageMatchesStatus == \A r \in Requests : StageMatches(r)

\* Status is the contract: a repository goes forward one stage at a time, or
\* from an unsettled stage to failed, and a settled status is final.
MovesForward ==
  \A r \in Requests :
    repo'[r] # repo[r] =>
      <<repo[r], repo'[r]>> \in
         {<<"absent", "queued">>, <<"queued", "cloning">>,
          <<"cloning", "processing">>, <<"processing", "ready">>}
         \cup ((RepositoryStatus \ Settled) \X {"failed"})
         \cup (RepositoryStatus \X {"absent"})

StatusMovesForward == [][MovesForward]_vars

\* run_ingestion never raises: every failure is written to the row instead.
NeverRaises == \A r \in Requests : task[r] # "died"

\* _parse_repository parses every discovered source file: what its loop skips
\* is only what fails to parse.
DiscoveredFilesParsed == \A r \in Requests : skipped[r] \subseteq Unparseable

\* An accepted ingest settles: the client that polls comes to see ready or
\* failed, unless the process died or the handler itself raised.
AcceptedSettles ==
  \A r \in Requests :
    req[r] = "accepted" ~> \/ repo[r] \in Settled \cup {"absent"}
                           \/ task[r] \in {"died", "lost"}

\* Every request gets an answer; waiting for another request's insert of the
\* system account ends.
RequestsAnswered ==
  \A r \in Requests : req[r] \in ReqRunning ~> req[r] \in {"accepted", "error", "lost"}
-----------------------------------------------------------------------------
Lifecycle == INSTANCE IngestLifecycle WITH repo <- repo, job <- job

\* What a client sees of the two rows is a behaviour of the lifecycle: the
\* accepting transaction and _set_status never show a pair of statuses, or a
\* move from one to another, that it lacks.
ImplementsLifecycle == Lifecycle!Spec
=============================================================================
