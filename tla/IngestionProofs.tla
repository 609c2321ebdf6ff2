-------------------------- MODULE IngestionProofs --------------------------
(***************************************************************************)
(* The safety properties of Ingestion for any set of requests and files    *)
(* and any bounds.  TypeOK is inductive by itself; RepoJobInStep is too,   *)
(* because every action that writes one row writes the other; the rest     *)
(* follow from StageMatchesStatus, which ties the row to the program       *)
(* counter of its task.                                                    *)
(***************************************************************************)
EXTENDS Ingestion, TLAPS

\* What _set_status may do to the rows, whichever call it is and whether it
\* returns or raises.
LEMMA SetStatusEffect ==
  ASSUME NEW r, NEW status, NEW next, NEW handler,
         SetStatus(r, status, next, handler)
  PROVE  /\ UNCHANGED <<owner, inserting, req, diskVars, crashes>>
         /\ \/ GoTask(r, next) /\ Writes(r, status) /\ UNCHANGED faults
            \/ GoTask(r, handler) /\ UNCHANGED <<repo, job>> /\ faults' = faults + 1
            \/ /\ GoTask(r, handler) /\ Writes(r, status) /\ faults' = faults + 1
               /\ AmbiguousCommit /\ repo[r] # "absent"
  BY DEF SetStatus, SetStatusCommits, SetStatusRaises, Fault

LEMMA SetStatusType ==
  ASSUME TypeOK, NEW r \in Requests, NEW status \in RepositoryStatus,
         NEW next \in TaskRunning \cup TaskOver, NEW handler \in TaskRunning \cup TaskOver,
         SetStatus(r, status, next, handler)
  PROVE  TypeOK'
<1>1. JobStatusFor[status] \in JobStatus
  BY DEF JobStatusFor, RepositoryStatus, JobStatus
<1>2. task' \in [Requests -> {"none"} \cup TaskRunning \cup TaskOver]
  BY SetStatusEffect DEF GoTask, TypeOK
<1>3. repo' \in [Requests -> RepositoryStatus \cup {"absent"}]
  BY SetStatusEffect DEF Writes, TypeOK
<1>4. job' \in [Requests -> JobStatus \cup {"absent"}]
  BY SetStatusEffect, <1>1 DEF Writes, TypeOK
<1>5. faults' \in Nat
  BY SetStatusEffect DEF TypeOK
<1>6. QED
  BY SetStatusEffect, <1>2, <1>3, <1>4, <1>5 DEF TypeOK, diskVars

LEMMA TypeStep == TypeOK /\ [Next]_vars => TypeOK'
<1> SUFFICES ASSUME TypeOK, [Next]_vars PROVE TypeOK'
  OBVIOUS
<1> USE DEF ReqRunning, GoReq, GoTask, dbVars, diskVars, countVars
<1>1. ASSUME NEW r \in Requests, SelectOwner(r) PROVE TypeOK'
  BY <1>1 DEF TypeOK, SelectOwner
<1>2. ASSUME NEW r \in Requests, InsertOwner(r) PROVE TypeOK'
  BY <1>2 DEF TypeOK, InsertOwner
<1>3. ASSUME NEW r \in Requests, CommitRows(r) PROVE TypeOK'
  BY <1>3 DEF TypeOK, CommitRows, AcceptedRows, RepositoryStatus, JobStatus
<1>4. ASSUME NEW r \in Requests, Respond(r) PROVE TypeOK'
  BY <1>4 DEF TypeOK, Respond, TaskRunning
<1>5. ASSUME NEW r \in Requests, RefreshMissing(r) PROVE TypeOK'
  BY <1>5 DEF TypeOK, RefreshMissing
<1>6. ASSUME NEW r \in Requests, RequestFails(r) PROVE TypeOK'
  BY <1>6 DEF TypeOK, RequestFails, Fault, AcceptedRows, RepositoryStatus, JobStatus
<1>7. ASSUME NEW r \in Requests,
             SetCloning(r) \/ SetProcessing(r) \/ SetNoFiles(r) \/ SetReady(r) \/ HandleFailure(r)
      PROVE  TypeOK'
  BY <1>7, SetStatusType
     DEF SetCloning, SetProcessing, SetNoFiles, SetReady, HandleFailure,
         RepositoryStatus, TaskRunning, InThread, TaskOver
<1>8. ASSUME NEW r \in Requests, CloneRuns(r) PROVE TypeOK'
  BY <1>8 DEF TypeOK, CloneRuns, TaskRunning, InThread
<1>9. ASSUME NEW r \in Requests, DiscoverFiles(r) PROVE TypeOK'
  BY <1>9 DEF TypeOK, DiscoverFiles, TaskRunning, InThread
<1>10. ASSUME NEW r \in Requests, ParseFiles(r) PROVE TypeOK'
  BY <1>10 DEF TypeOK, ParseFiles, TaskRunning, InThread
<1>11. ASSUME NEW r \in Requests, CleanUpClone(r) PROVE TypeOK'
  BY <1>11 DEF TypeOK, CleanUpClone, Cleanup, TaskRunning, InThread
<1>12. ASSUME NEW r \in Requests, RowVanishes(r) PROVE TypeOK'
  BY <1>12 DEF TypeOK, RowVanishes
<1>13. CASE Crash
  BY <1>13 DEF TypeOK, Crash, TaskOver
<1>14. CASE UNCHANGED vars
  BY <1>14 DEF TypeOK, vars
<1>15. QED
  BY <1>1, <1>2, <1>3, <1>4, <1>5, <1>6, <1>7, <1>8, <1>9, <1>10, <1>11, <1>12,
     <1>13, <1>14 DEF Next, RequestStep, TaskStep

\* Every variable of the ingestion keeps to its type.
THEOREM TypeCorrect == Spec => []TypeOK
<1>1. Init => TypeOK
  BY DEF Init, TypeOK
<1>2. QED
  BY <1>1, TypeStep, PTL DEF Spec

-----------------------------------------------------------------------------
\* Writing any status with its job status keeps two rows in step.
LEMMA WritesInStep ==
  ASSUME TypeOK, RepoJobInStep, NEW r \in Requests, NEW status \in RepositoryStatus,
         Writes(r, status)
  PROVE  RepoJobInStep'
<1> SUFFICES ASSUME NEW q \in Requests, job'[q] # "absent"
             PROVE  /\ repo'[q] # "absent"
                    /\ repo'[q] = "queued" <=> job'[q] = "pending"
                    /\ repo'[q] = "ready"  <=> job'[q] = "completed"
                    /\ repo'[q] = "failed" <=> job'[q] = "failed"
  BY DEF RepoJobInStep
<1>1. CASE q = r
  BY <1>1 DEF Writes, RepoJobInStep, TypeOK, JobStatusFor, RepositoryStatus
<1>2. CASE q # r
  BY <1>2 DEF Writes, RepoJobInStep, TypeOK
<1>3. QED
  BY <1>1, <1>2

\* So do the rows of an accepted request.
LEMMA AcceptedInStep ==
  ASSUME TypeOK, RepoJobInStep, NEW r \in Requests, AcceptedRows(r)
  PROVE  RepoJobInStep'
  BY DEF AcceptedRows, RepoJobInStep, TypeOK

LEMMA InStepStep == TypeOK /\ RepoJobInStep /\ [Next]_vars => RepoJobInStep'
<1> SUFFICES ASSUME TypeOK, RepoJobInStep, [Next]_vars PROVE RepoJobInStep'
  OBVIOUS
<1>1. CASE UNCHANGED <<repo, job>>
  BY <1>1 DEF RepoJobInStep
<1>2. ASSUME NEW r \in Requests, CommitRows(r) \/ RequestFails(r) PROVE RepoJobInStep'
  BY <1>2, <1>1, AcceptedInStep DEF CommitRows, RequestFails
<1>3. ASSUME NEW r \in Requests, NEW status \in RepositoryStatus, NEW next, NEW handler,
             SetStatus(r, status, next, handler)
      PROVE  RepoJobInStep'
  BY <1>3, <1>1, SetStatusEffect, WritesInStep
<1>4. ASSUME NEW r \in Requests,
             SetCloning(r) \/ SetProcessing(r) \/ SetNoFiles(r) \/ SetReady(r) \/ HandleFailure(r)
      PROVE  RepoJobInStep'
  BY <1>4, <1>3 DEF SetCloning, SetProcessing, SetNoFiles, SetReady, HandleFailure,
                    RepositoryStatus
<1>5. ASSUME NEW r \in Requests, RowVanishes(r) PROVE RepoJobInStep'
  BY <1>5 DEF RowVanishes, RepoJobInStep, TypeOK
<1>6. QED
  BY <1>1, <1>2, <1>4, <1>5
     DEF Next, RequestStep, TaskStep, SelectOwner, InsertOwner, Respond, RefreshMissing,
         CloneRuns, DiscoverFiles, ParseFiles, CleanUpClone, Crash, vars, dbVars

\* However requests, tasks, failures, deletions and crashes interleave, a job
\* and its repository tell the same story.
THEOREM InStepCorrect == Spec => []RepoJobInStep
<1>1. Init => RepoJobInStep
  BY DEF Init, RepoJobInStep
<1>2. QED
  BY <1>1, InStepStep, TypeCorrect, PTL DEF Spec

-----------------------------------------------------------------------------
\* A step leaves alone the requests it is not about.
LEMMA OthersUntouched ==
  ASSUME TypeOK, NEW r \in Requests, NEW q \in Requests \ {r},
         RequestStep(r) \/ TaskStep(r) \/ RowVanishes(r) \/ SelectOwner(r)
  PROVE  /\ req'[q] = req[q] /\ repo'[q] = repo[q] /\ task'[q] = task[q]
         /\ manifest'[q] = manifest[q] /\ clonePath'[q] = clonePath[q]
         /\ (q \in dirs) <=> (q \in dirs')
<1> USE DEF TypeOK, GoReq, GoTask, dbVars, diskVars, countVars
<1>1. CASE RequestStep(r) \/ SelectOwner(r)
  BY <1>1 DEF RequestStep, SelectOwner, InsertOwner, CommitRows, Respond,
              RefreshMissing, RequestFails, AcceptedRows
<1>2. CASE SetCloning(r) \/ SetProcessing(r) \/ SetNoFiles(r) \/ SetReady(r) \/ HandleFailure(r)
  BY <1>2 DEF SetCloning, SetProcessing, SetNoFiles, SetReady, HandleFailure,
              SetStatus, SetStatusCommits, SetStatusRaises, Writes
<1>3. CASE CloneRuns(r) \/ DiscoverFiles(r) \/ ParseFiles(r)
  BY <1>3 DEF CloneRuns, DiscoverFiles, ParseFiles
<1>4. CASE CleanUpClone(r)
  BY <1>4 DEF CleanUpClone, Cleanup
<1>5. CASE RowVanishes(r)
  BY <1>5 DEF RowVanishes
<1>6. QED
  BY <1>1, <1>2, <1>3, <1>4, <1>5 DEF TaskStep

LEMMA StageStep ==
  TypeOK /\ StageMatchesStatus /\ [Next]_vars => StageMatchesStatus'
<1> SUFFICES ASSUME TypeOK, StageMatchesStatus, [Next]_vars PROVE StageMatchesStatus'
  OBVIOUS
<1>1. CASE UNCHANGED vars
  BY <1>1 DEF StageMatchesStatus, StageMatches, vars, dbVars, diskVars
<1>2. CASE Crash
  BY <1>2 DEF StageMatchesStatus, StageMatches, TypeOK, Crash, ReqRunning, TaskRunning, InThread
<1>3. ASSUME NEW r \in Requests,
             SelectOwner(r) \/ RequestStep(r) \/ TaskStep(r) \/ RowVanishes(r)
      PROVE  StageMatchesStatus'
  <2>1. ASSUME NEW q \in Requests, q # r PROVE StageMatches(q)'
    BY <1>3, <2>1, OthersUntouched DEF StageMatchesStatus, StageMatches
  <2> SUFFICES StageMatches(r)'
    BY <2>1 DEF StageMatchesStatus
  <2> USE DEF TypeOK, StageMatchesStatus, StageMatches, GoReq, GoTask, dbVars, diskVars,
              countVars, InThread
  <2>2. CASE SelectOwner(r) \/ InsertOwner(r) \/ RefreshMissing(r)
    BY <2>2 DEF SelectOwner, InsertOwner, RefreshMissing
  <2>3. CASE CommitRows(r) \/ RequestFails(r)
    BY <2>3 DEF CommitRows, RequestFails, AcceptedRows, ReqRunning
  <2>4. CASE Respond(r)
    BY <2>4 DEF Respond
  <2>5. CASE SetCloning(r)
    BY <2>5, SetStatusEffect DEF SetCloning, Writes, Settled
  <2>6. CASE SetProcessing(r)
    BY <2>6, SetStatusEffect DEF SetProcessing, Writes, Settled
  <2>7. CASE SetNoFiles(r)
    BY <2>7, SetStatusEffect DEF SetNoFiles, Writes, Settled
  <2>8. CASE SetReady(r)
    BY <2>8, SetStatusEffect DEF SetReady, Writes, Settled
  <2>9. CASE HandleFailure(r)
    BY <2>9, SetStatusEffect DEF HandleFailure, Writes, Settled
  <2>10. CASE CloneRuns(r) \/ DiscoverFiles(r) \/ ParseFiles(r)
    BY <2>10 DEF CloneRuns, DiscoverFiles, ParseFiles
  <2>11. CASE CleanUpClone(r)
    BY <2>11 DEF CleanUpClone, Settled
  <2>12. CASE RowVanishes(r)
    BY <2>12 DEF RowVanishes, Settled
  <2>13. QED
    BY <1>3, <2>2, <2>3, <2>4, <2>5, <2>6, <2>7, <2>8, <2>9, <2>10, <2>11, <2>12
       DEF RequestStep, TaskStep
<1>4. QED
  BY <1>1, <1>2, <1>3 DEF Next

\* The status of a row tells how far its task got.
THEOREM StageCorrect == Spec => []StageMatchesStatus
<1>1. Init => StageMatchesStatus
  BY DEF Init, StageMatchesStatus, StageMatches, InThread
<1>2. QED
  BY <1>1, StageStep, TypeCorrect, PTL DEF Spec

\* No return path of a task, and no way of answering a request, leaves a row
\* on its way with nobody working on it.
THEOREM WorkerCorrect == Spec => []UnsettledHasWorker
<1>1. TypeOK /\ StageMatchesStatus => UnsettledHasWorker
  BY DEF TypeOK, StageMatchesStatus, StageMatches, UnsettledHasWorker, ReqRunning,
         TaskOver, Settled, RepositoryStatus
<1>2. QED
  BY <1>1, TypeCorrect, StageCorrect, PTL

-----------------------------------------------------------------------------
LEMMA ReadyStep ==
  TypeOK /\ StageMatchesStatus /\ ReadyHasFiles /\ [Next]_vars => ReadyHasFiles'
<1> SUFFICES ASSUME TypeOK, StageMatchesStatus, ReadyHasFiles, [Next]_vars
             PROVE  ReadyHasFiles'
  OBVIOUS
<1>1. CASE UNCHANGED <<repo, manifest>>
  BY <1>1 DEF ReadyHasFiles
<1>2. ASSUME NEW r \in Requests,
             SelectOwner(r) \/ RequestStep(r) \/ TaskStep(r) \/ RowVanishes(r)
      PROVE  ReadyHasFiles'
  <2>1. ASSUME NEW q \in Requests, q # r PROVE repo'[q] = "ready" => manifest'[q] # {}
    BY <1>2, <2>1, OthersUntouched DEF ReadyHasFiles
  <2> SUFFICES repo'[r] = "ready" => manifest'[r] # {}
    BY <2>1 DEF ReadyHasFiles
  <2> USE DEF TypeOK, StageMatchesStatus, StageMatches, ReadyHasFiles, GoReq, GoTask,
              dbVars, diskVars, countVars, InThread
  <2>2. CASE CommitRows(r) \/ RequestFails(r)
    BY <2>2 DEF CommitRows, RequestFails, AcceptedRows
  <2>3. CASE SetCloning(r) \/ SetProcessing(r) \/ SetNoFiles(r) \/ HandleFailure(r)
    BY <2>3, SetStatusEffect DEF SetCloning, SetProcessing, SetNoFiles, HandleFailure, Writes
  <2>4. CASE SetReady(r)
    BY <2>4, SetStatusEffect DEF SetReady, Writes
  <2>5. CASE DiscoverFiles(r)
    BY <2>5 DEF DiscoverFiles
  <2>6. CASE RowVanishes(r)
    BY <2>6 DEF RowVanishes
  <2>7. QED
    BY <1>1, <1>2, <2>2, <2>3, <2>4, <2>5, <2>6
       DEF RequestStep, TaskStep, SelectOwner, InsertOwner, Respond, RefreshMissing,
           CloneRuns, ParseFiles, CleanUpClone
<1>3. QED
  BY <1>1, <1>2 DEF Next, Crash, vars, dbVars, diskVars

\* A ready repository had source files.
THEOREM ReadyCorrect == Spec => []ReadyHasFiles
<1>1. Init => ReadyHasFiles
  BY DEF Init, ReadyHasFiles
<1>2. QED
  BY <1>1, ReadyStep, TypeCorrect, StageCorrect, PTL DEF Spec

-----------------------------------------------------------------------------
\* CloneDirsOwned is not inductive: a running thread must also still know the
\* path of its clone, or cleanup would pass it by.
DirsTracked ==
  \A r \in dirs :
    (task[r] \in InThread /\ clonePath[r]) \/ task[r] = "lost" \/ RmtreeMayFail

LEMMA DirsStep ==
  TypeOK /\ StageMatchesStatus /\ DirsTracked /\ [Next]_vars => DirsTracked'
<1> SUFFICES ASSUME TypeOK, StageMatchesStatus, DirsTracked, [Next]_vars,
                    NEW q \in dirs', ~RmtreeMayFail
             PROVE  (task'[q] \in InThread /\ clonePath'[q]) \/ task'[q] = "lost"
  BY DEF DirsTracked
<1>0. q \in Requests
  BY TypeStep DEF TypeOK
<1> USE DEF TypeOK, GoReq, GoTask, dbVars, diskVars, countVars, InThread
<1>1. CASE UNCHANGED vars
  BY <1>1 DEF DirsTracked, vars
<1>2. CASE Crash
  BY <1>2 DEF DirsTracked, Crash, TaskRunning
<1>3. ASSUME NEW r \in Requests,
             SelectOwner(r) \/ RequestStep(r) \/ TaskStep(r) \/ RowVanishes(r)
      PROVE  (task'[q] \in InThread /\ clonePath'[q]) \/ task'[q] = "lost"
  <2>1. CASE q # r
    BY <1>0, <1>3, <2>1, OthersUntouched DEF DirsTracked
  <2>2. CASE q = r /\ (RequestStep(r) \/ SelectOwner(r) \/ RowVanishes(r))
    BY <2>2 DEF DirsTracked, RequestStep, SelectOwner, InsertOwner, CommitRows, Respond,
                RefreshMissing, RequestFails, RowVanishes, StageMatchesStatus, StageMatches
  <2>3. CASE q = r /\ (SetCloning(r) \/ SetProcessing(r) \/ SetNoFiles(r) \/ SetReady(r)
                      \/ HandleFailure(r))
    BY <2>3 DEF DirsTracked, SetCloning, SetProcessing, SetNoFiles, SetReady, HandleFailure,
                SetStatus
  <2>4. CASE q = r /\ (CloneRuns(r) \/ DiscoverFiles(r) \/ ParseFiles(r))
    BY <2>4 DEF DirsTracked, CloneRuns, DiscoverFiles, ParseFiles
  <2>5. CASE q = r /\ CleanUpClone(r)
    BY <2>5 DEF DirsTracked, CleanUpClone, Cleanup
  <2>6. QED
    BY <1>3, <2>1, <2>2, <2>3, <2>4, <2>5 DEF TaskStep
<1>4. QED
  BY <1>1, <1>2, <1>3 DEF Next

\* Only a process death or a failing rmtree leaves a clone on disk.
THEOREM DirsCorrect == Spec => []CloneDirsOwned
<1>1. Init => DirsTracked
  BY DEF Init, DirsTracked
<1>2. DirsTracked => CloneDirsOwned
  BY DEF DirsTracked, CloneDirsOwned
<1>3. QED
  BY <1>1, <1>2, DirsStep, TypeCorrect, StageCorrect, PTL DEF Spec

-----------------------------------------------------------------------------
(* The lifecycle.                                                          *)

\* _set_status(status) is the lifecycle's move to that status, unless the
\* repository is gone or failed is written over failed.
LEMMA WritesMoves ==
  ASSUME TypeOK, NEW r \in Requests, NEW status \in RepositoryStatus,
         repo[r] # "absent", Writes(r, status)
  PROVE  Lifecycle!Move(r, status, JobStatusFor[status])
  BY DEF Writes, Lifecycle!Move, TypeOK

LEMMA WritesNothing ==
  ASSUME TypeOK, NEW r \in Requests, NEW status \in RepositoryStatus,
         repo[r] = "absent", Writes(r, status)
  PROVE  UNCHANGED <<repo, job>>
  BY DEF Writes, TypeOK

LEMMA AcceptedAccepts ==
  ASSUME TypeOK, RepoJobInStep, StageMatchesStatus, NEW r \in Requests,
         req[r] = "have_owner", AcceptedRows(r)
  PROVE  Lifecycle!Accept(r)
  BY DEF AcceptedRows, Lifecycle!Accept, RepoJobInStep, StageMatchesStatus, StageMatches

\* A failed row that is failed again does not change.
LEMMA FailedTwice ==
  ASSUME TypeOK, RepoJobInStep, NEW r \in Requests, repo[r] = "failed", Writes(r, "failed")
  PROVE  UNCHANGED <<repo, job>>
<1>1. job[r] # "absent" => job[r] = "failed"
  BY DEF RepoJobInStep
<1>2. QED
  BY <1>1 DEF Writes, TypeOK, JobStatusFor

LEMMA LifecycleStep ==
  TypeOK /\ RepoJobInStep /\ StageMatchesStatus /\ [Next]_vars
    => [Lifecycle!Next]_(Lifecycle!rows)
<1> SUFFICES ASSUME TypeOK, RepoJobInStep, StageMatchesStatus, [Next]_vars
             PROVE  Lifecycle!Next \/ UNCHANGED <<repo, job>>
  BY DEF Lifecycle!rows
<1>1. ASSUME NEW r \in Requests, CommitRows(r) \/ RequestFails(r)
      PROVE  Lifecycle!Next \/ UNCHANGED <<repo, job>>
  BY <1>1, AcceptedAccepts DEF CommitRows, RequestFails, Lifecycle!Next
<1>2. ASSUME NEW r \in Requests, SetCloning(r)
      PROVE  Lifecycle!Next \/ UNCHANGED <<repo, job>>
  <2>1. repo[r] \in {"queued", "absent"}
    BY <1>2 DEF SetCloning, StageMatchesStatus, StageMatches
  <2>2. Writes(r, "cloning") \/ UNCHANGED <<repo, job>>
    BY <1>2, SetStatusEffect DEF SetCloning
  <2>3. Writes(r, "cloning") /\ repo[r] = "queued" => Lifecycle!Start(r)
    BY WritesMoves DEF Lifecycle!Start, JobStatusFor, RepositoryStatus
  <2>4. QED
    BY <2>1, <2>2, <2>3, WritesNothing DEF Lifecycle!Next, RepositoryStatus
<1>3. ASSUME NEW r \in Requests, SetProcessing(r)
      PROVE  Lifecycle!Next \/ UNCHANGED <<repo, job>>
  <2>1. repo[r] \in {"cloning", "absent"}
    BY <1>3 DEF SetProcessing, StageMatchesStatus, StageMatches
  <2>2. Writes(r, "processing") \/ UNCHANGED <<repo, job>>
    BY <1>3, SetStatusEffect DEF SetProcessing
  <2>3. Writes(r, "processing") /\ repo[r] = "cloning" => Lifecycle!Process(r)
    BY WritesMoves DEF Lifecycle!Process, JobStatusFor, RepositoryStatus
  <2>4. QED
    BY <2>1, <2>2, <2>3, WritesNothing DEF Lifecycle!Next, RepositoryStatus
<1>4. ASSUME NEW r \in Requests, SetReady(r)
      PROVE  Lifecycle!Next \/ UNCHANGED <<repo, job>>
  <2>1. repo[r] \in {"processing", "absent"}
    BY <1>4 DEF SetReady, StageMatchesStatus, StageMatches
  <2>2. Writes(r, "ready") \/ UNCHANGED <<repo, job>>
    BY <1>4, SetStatusEffect DEF SetReady
  <2>3. Writes(r, "ready") /\ repo[r] = "processing" => Lifecycle!Finish(r)
    BY WritesMoves DEF Lifecycle!Finish, JobStatusFor, RepositoryStatus
  <2>4. QED
    BY <2>1, <2>2, <2>3, WritesNothing DEF Lifecycle!Next, RepositoryStatus
<1>5. ASSUME NEW r \in Requests, SetNoFiles(r) \/ HandleFailure(r)
      PROVE  Lifecycle!Next \/ UNCHANGED <<repo, job>>
  <2>1. repo[r] = "ready" => AmbiguousCommit
    BY <1>5 DEF SetNoFiles, HandleFailure, StageMatchesStatus, StageMatches, Settled
  <2>2. Writes(r, "failed") \/ UNCHANGED <<repo, job>>
    BY <1>5, SetStatusEffect DEF SetNoFiles, HandleFailure
  <2>3. ASSUME Writes(r, "failed"), repo[r] \notin {"absent", "failed"}
        PROVE  Lifecycle!Fail(r)
    <3>1. repo[r] \in Lifecycle!Unsettled \/ repo[r] = "ready"
      BY <2>3 DEF TypeOK, RepositoryStatus, Lifecycle!Unsettled
    <3>2. repo[r] \in Lifecycle!Unsettled
            \cup (IF AmbiguousCommit THEN {"ready"} ELSE {})
      BY <2>1, <3>1
    <3>3. Lifecycle!Move(r, "failed", "failed")
      BY <2>3, WritesMoves DEF JobStatusFor, RepositoryStatus
    <3>4. QED
      BY <3>2, <3>3 DEF Lifecycle!Fail, Lifecycle!Unsettled
  <2>4. QED
    BY <2>2, <2>3, WritesNothing, FailedTwice DEF Lifecycle!Next, RepositoryStatus
<1>6. ASSUME NEW r \in Requests, RowVanishes(r)
      PROVE  Lifecycle!Next \/ UNCHANGED <<repo, job>>
  BY <1>6 DEF RowVanishes, Lifecycle!Next, Lifecycle!Delete
<1>7. QED
  BY <1>1, <1>2, <1>3, <1>4, <1>5, <1>6
     DEF Next, RequestStep, TaskStep, SelectOwner, InsertOwner, Respond, RefreshMissing,
         CloneRuns, DiscoverFiles, ParseFiles, CleanUpClone, Crash, vars, dbVars

\* What clients see of an ingest is a behaviour of the lifecycle.
THEOREM Refinement == Spec => ImplementsLifecycle
<1>1. Init => Lifecycle!Init
  BY DEF Init, Lifecycle!Init
<1>2. QED
  BY <1>1, LifecycleStep, TypeCorrect, InStepCorrect, StageCorrect, PTL
     DEF Spec, ImplementsLifecycle, Lifecycle!Spec

\* Without commits that are stored and raise, status only moves forward.
THEOREM ForwardCorrect ==
  ASSUME ~AmbiguousCommit
  PROVE  Spec => StatusMovesForward
<1>1. TypeOK /\ [Lifecycle!Next]_(Lifecycle!rows) => MovesForward
  <2> SUFFICES ASSUME TypeOK, [Lifecycle!Next]_(Lifecycle!rows),
                      NEW q \in Requests, repo'[q] # repo[q]
               PROVE  <<repo[q], repo'[q]>> \in
                         {<<"absent", "queued">>, <<"queued", "cloning">>,
                          <<"cloning", "processing">>, <<"processing", "ready">>}
                         \cup ((RepositoryStatus \ Settled) \X {"failed"})
                         \cup (RepositoryStatus \X {"absent"})
    BY DEF MovesForward
  <2>1. PICK r \in Requests :
          \/ Lifecycle!Accept(r) \/ Lifecycle!Start(r) \/ Lifecycle!Process(r)
          \/ Lifecycle!Finish(r) \/ Lifecycle!Fail(r) \/ Lifecycle!Delete(r)
    BY DEF Lifecycle!Next, Lifecycle!rows
  <2>2. q = r
    BY <2>1 DEF TypeOK, Lifecycle!Accept, Lifecycle!Start, Lifecycle!Process,
                Lifecycle!Finish, Lifecycle!Fail, Lifecycle!Delete, Lifecycle!Move
  <2>3. QED
    BY <2>1, <2>2 DEF TypeOK, RepositoryStatus, Settled, Lifecycle!Accept, Lifecycle!Start,
         Lifecycle!Process, Lifecycle!Finish, Lifecycle!Fail, Lifecycle!Delete,
         Lifecycle!Move, Lifecycle!Unsettled
<1>2. QED
  BY <1>1, LifecycleStep, TypeCorrect, InStepCorrect, StageCorrect, PTL
     DEF Spec, StatusMovesForward, MovesForward

-----------------------------------------------------------------------------
(* The race for the system account.                                        *)

Undisturbed == faults = 0 /\ crashes = 0 /\ ~RowsMayVanish

Held(r) == req[r] \in {"committed", "accepted"}

\* The account exists because somebody committed it, and nobody loses before
\* it exists.
RaceInv ==
  Undisturbed =>
    /\ \A r \in Requests : req[r] # "lost"
    /\ \A r \in Requests : Held(r) => repo[r] # "absent" /\ job[r] # "absent"
    /\ \A r \in Requests : req[r] = "error" => owner = "present"
    /\ owner = "present" => \E r \in Requests : Held(r)

\* A step of a task writes no row that is absent and removes none.
LEMMA TaskKeepsRows ==
  ASSUME TypeOK, NEW r \in Requests, TaskStep(r), NEW q \in Requests
  PROVE  /\ req' = req /\ owner' = owner /\ crashes' = crashes /\ faults' \in {faults, faults + 1}
         /\ repo[q] # "absent" /\ job[q] # "absent" => repo'[q] # "absent" /\ job'[q] # "absent"
<1> USE DEF dbVars, diskVars, countVars
<1>1. ASSUME NEW status \in RepositoryStatus, NEW next, NEW handler,
             SetStatus(r, status, next, handler)
      PROVE  /\ req' = req /\ owner' = owner /\ crashes' = crashes /\ faults' \in {faults, faults + 1}
             /\ repo[q] # "absent" /\ job[q] # "absent" => repo'[q] # "absent" /\ job'[q] # "absent"
  <2>1. status # "absent" /\ JobStatusFor[status] # "absent"
    BY DEF RepositoryStatus, JobStatusFor
  <2>2. /\ req' = req /\ owner' = owner /\ crashes' = crashes /\ faults' \in {faults, faults + 1}
        /\ Writes(r, status) \/ UNCHANGED <<repo, job>>
    BY <1>1, SetStatusEffect
  <2>3. QED
    BY <2>1, <2>2 DEF Writes, TypeOK
<1>2. CASE SetCloning(r) \/ SetProcessing(r) \/ SetNoFiles(r) \/ SetReady(r) \/ HandleFailure(r)
  BY <1>1, <1>2
     DEF SetCloning, SetProcessing, SetNoFiles, SetReady, HandleFailure, RepositoryStatus
<1>3. CASE CloneRuns(r) \/ DiscoverFiles(r) \/ ParseFiles(r) \/ CleanUpClone(r)
  BY <1>3 DEF CloneRuns, DiscoverFiles, ParseFiles, CleanUpClone
<1>4. QED
  BY <1>2, <1>3 DEF TaskStep

LEMMA RaceStep ==
  ASSUME TypeOK, RaceInv, [Next]_vars
  PROVE  RaceInv'
<1> SUFFICES ASSUME Undisturbed'
             PROVE  /\ \A q \in Requests : req'[q] # "lost"
                    /\ \A q \in Requests : Held(q)' => repo'[q] # "absent" /\ job'[q] # "absent"
                    /\ \A q \in Requests : req'[q] = "error" => owner' = "present"
                    /\ owner' = "present" => \E q \in Requests : Held(q)'
  BY DEF RaceInv
<1> USE DEF GoReq, GoTask, dbVars, diskVars, countVars, Held
<1>1. CASE UNCHANGED vars
  BY <1>1 DEF RaceInv, Undisturbed, vars
<1>2. ~Crash
  BY DEF Crash, Undisturbed, TypeOK
<1>3. ASSUME NEW r \in Requests, TaskStep(r)
      PROVE  /\ req' = req /\ owner' = owner /\ Undisturbed
             /\ \A q \in Requests : repo[q] # "absent" /\ job[q] # "absent" =>
                                      repo'[q] # "absent" /\ job'[q] # "absent"
  BY <1>3, TaskKeepsRows DEF Undisturbed, TypeOK
<1>4. ASSUME NEW r \in Requests, RowVanishes(r) PROVE FALSE
  BY <1>4 DEF RowVanishes, Undisturbed
<1>5. ASSUME NEW r \in Requests, RequestFails(r) PROVE FALSE
  BY <1>5 DEF RequestFails, Fault, Undisturbed, TypeOK
<1>6. ASSUME NEW r \in Requests,
             SelectOwner(r) \/ InsertOwner(r) \/ CommitRows(r) \/ Respond(r) \/ RefreshMissing(r)
      PROVE  Undisturbed
  BY <1>6 DEF SelectOwner, InsertOwner, CommitRows, Respond, RefreshMissing, Undisturbed
<1>7. ASSUME NEW r \in Requests, SelectOwner(r) \/ InsertOwner(r)
      PROVE  /\ \/ req'[r] \in {"no_owner", "have_owner"}
                \/ req'[r] = "error" /\ owner = "present"
             /\ \A q \in Requests \ {r} : req'[q] = req[q]
             /\ req[r] \in {"new", "no_owner"} /\ UNCHANGED <<owner, repo, job>>
  BY <1>7 DEF SelectOwner, InsertOwner, TypeOK
<1>8. ASSUME NEW r \in Requests, CommitRows(r) \/ Respond(r)
      PROVE  /\ req'[r] \in {"committed", "accepted"}
             /\ \A q \in Requests \ {r} : req'[q] = req[q] /\ repo'[q] = repo[q] /\ job'[q] = job[q]
             /\ repo'[r] # "absent" /\ job'[r] # "absent"
             /\ owner' = owner \/ owner' = "present"
  BY <1>8 DEF CommitRows, AcceptedRows, Respond, TypeOK
<1>9. ASSUME NEW r \in Requests, RefreshMissing(r) PROVE FALSE
  BY <1>6, <1>9 DEF RefreshMissing, RaceInv
<1>10. CASE \E r \in Requests : TaskStep(r)
  BY <1>3, <1>10 DEF RaceInv
<1>11. CASE \E r \in Requests : SelectOwner(r) \/ InsertOwner(r)
  BY <1>6, <1>7, <1>11 DEF RaceInv
<1>12. CASE \E r \in Requests : CommitRows(r) \/ Respond(r)
  BY <1>6, <1>8, <1>12 DEF RaceInv
<1>13. QED
  BY <1>1, <1>2, <1>4, <1>5, <1>9, <1>10, <1>11, <1>12 DEF Next, RequestStep

\* However many first ingests race for the system account, they cannot all
\* lose: the loser's error is the winner's commit.
THEOREM SomeoneCorrect ==
  ASSUME Requests # {}
  PROVE  Spec => []SomeoneIsAccepted
<1>1. Init => RaceInv
  BY DEF Init, RaceInv, Held
<1>2. TypeOK /\ RaceInv => SomeoneIsAccepted
  BY DEF TypeOK, RaceInv, Undisturbed, Held, SomeoneIsAccepted, ReqRunning
<1>3. QED
  BY <1>1, <1>2, RaceStep, TypeCorrect, PTL DEF Spec
=============================================================================
